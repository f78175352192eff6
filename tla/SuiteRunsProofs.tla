-------------------------- MODULE SuiteRunsProofs --------------------------
(***************************************************************************)
(* What the commands on an authored suite promise, proved for every set of *)
(* commands, every suite, every evidence and every schedule: that the two  *)
(* readings of a report agree, that a confirmation runs what was shown,    *)
(* that a trigger is confirmed by runs in which it was there, and that     *)
(* findings rest on evidence that is complete.                             *)
(***************************************************************************)
EXTENDS SuiteRuns, FiniteSetTheorems, TLAPS

\* A sequence of whatever it holds.
IsASeq(s) == s \in Seq({s[i] : i \in DOMAIN s})

LEMMA DomainOfASeq ==
  ASSUME NEW s, IsASeq(s)
  PROVE  Len(s) \in Nat /\ DOMAIN s = 1 .. Len(s)
BY DEF IsASeq

\* What is appended comes last, and nothing before it changes.
LEMMA AppendAny ==
  ASSUME NEW s, IsASeq(s), NEW x
  PROVE  /\ IsASeq(Append(s, x))
         /\ DOMAIN Append(s, x) = 1 .. Len(s) + 1
         /\ Len(Append(s, x)) = Len(s) + 1
         /\ \A i \in DOMAIN s : i \in DOMAIN Append(s, x) /\ Append(s, x)[i] = s[i]
         /\ Append(s, x)[Len(s) + 1] = x
<1> DEFINE S == {s[i] : i \in DOMAIN s} \cup {x}
           t == Append(s, x)
<1>1. Len(s) \in Nat /\ DOMAIN s = 1 .. Len(s)
  BY DomainOfASeq
<1>2. s \in Seq(S)
  <2>1. \A i \in 1 .. Len(s) : s[i] \in S
    BY <1>1
  <2>2. s \in Seq({s[i] : i \in DOMAIN s})
    BY DEF IsASeq
  <2>3. s = [i \in 1 .. Len(s) |-> s[i]]
    BY <2>2
  <2> HIDE DEF S
  <2>4. [i \in 1 .. Len(s) |-> s[i]] \in [1 .. Len(s) -> S]
    BY <2>1
  <2>5. [1 .. Len(s) -> S] \subseteq Seq(S)
    BY <1>1
  <2>6. QED BY <2>3, <2>4, <2>5
<1>3. x \in S
  OBVIOUS
<1>4. /\ t \in Seq(S) /\ Len(t) = Len(s) + 1
      /\ \A i \in 1 .. Len(s) : t[i] = s[i]
      /\ t[Len(s) + 1] = x
  <2> HIDE DEF S
  <2>1. QED BY <1>2, <1>3
<1>5. DOMAIN t = 1 .. Len(s) + 1
  <2> HIDE DEF S
  <2>1. QED BY <1>4
<1>6. IsASeq(t)
  <2>1. \A i \in 1 .. Len(t) : t[i] \in {t[j] : j \in DOMAIN t}
    BY <1>1, <1>4, <1>5
  <2> HIDE DEF S
  <2>2. QED BY <2>1, <1>4 DEF IsASeq
<1>7. QED BY <1>1, <1>4, <1>5, <1>6

-----------------------------------------------------------------------------
(* The report                                                              *)

\* A result as the runner gives it, the i-th of its report: its folder, if it
\* has one, is named after its repeat, and a place comes with a failure.
ResultOK(r, i) ==
  /\ r.folder = NoFolder \/ r.folder = i - 1
  /\ r.line # 0 => r.status \in {"passed", "failed", "timedOut"}

IsReport(rep) == IsASeq(rep) /\ \A i \in DOMAIN rep : ResultOK(rep[i], i)

LEMMA RepeatIsPlace ==
  ASSUME NEW rep, IsReport(rep), NEW i \in DOMAIN rep
  PROVE  repeatIndex(rep, i) = i - 1
BY DEF IsReport, ResultOK, repeatIndex

\* Runs that are in the order of their repeats stay as they are.
LEMMA InOrderStays ==
  ASSUME NEW n \in Nat, NEW runs, DOMAIN runs = 1 .. n,
         \A i \in 1 .. n : runs[i].repeat = i - 1
  PROVE  /\ DOMAIN inOrder(runs) = 1 .. n
         /\ \A i \in 1 .. n : inOrder(runs)[i] = runs[i]
<1>1. ASSUME NEW i \in 1 .. n PROVE placeOf(runs, i) = i
  <2>1. {j \in DOMAIN runs : \/ runs[j].repeat < runs[i].repeat
                             \/ runs[j].repeat = runs[i].repeat /\ j <= i} = 1 .. i
    OBVIOUS
  <2>2. Cardinality(1 .. i) = i
    BY FS_Interval
  <2>3. QED BY <2>1, <2>2 DEF placeOf
<1>2. ASSUME NEW k \in 1 .. n
      PROVE  (CHOOSE i \in DOMAIN runs : placeOf(runs, i) = k) = k
  <2>1. \A i \in DOMAIN runs : placeOf(runs, i) = k <=> i = k
    BY <1>1
  <2>2. QED BY <2>1
<1>3. QED BY <1>2 DEF inOrder

\* So a batch stores the results of a report in their own order.
LEMMA EachRun ==
  ASSUME NEW rep, IsReport(rep), NEW line
  PROVE  /\ DOMAIN classifyEachRun(rep, line) = DOMAIN rep
         /\ \A i \in DOMAIN rep :
              /\ classifyEachRun(rep, line)[i].repeat = i - 1
              /\ classifyEachRun(rep, line)[i].kind = runKind(rep[i], line)
<1> DEFINE runs == [i \in DOMAIN rep |->
                      [repeat |-> repeatIndex(rep, i), kind |-> runKind(rep[i], line)]]
<1>1. Len(rep) \in Nat /\ DOMAIN rep = 1 .. Len(rep)
  BY DomainOfASeq DEF IsReport
<1>2. \A i \in DOMAIN rep : runs[i].repeat = i - 1 /\ runs[i].kind = runKind(rep[i], line)
  BY RepeatIsPlace
<1>3. DOMAIN runs = DOMAIN rep
  OBVIOUS
<1>4. classifyEachRun(rep, line) = inOrder(runs)
  BY DEF classifyEachRun
<1> HIDE DEF runs
<1>5. DOMAIN inOrder(runs) = 1 .. Len(rep) /\ \A i \in 1 .. Len(rep) : inOrder(runs)[i] = runs[i]
  BY <1>1, <1>2, <1>3, InOrderStays
<1>6. /\ DOMAIN inOrder(runs) = DOMAIN rep
      /\ \A i \in DOMAIN rep : inOrder(runs)[i] = runs[i]
  BY <1>1, <1>5
<1>7. QED BY <1>2, <1>4, <1>6

-----------------------------------------------------------------------------
(* What a run comes to                                                     *)

Kinds == {"passed", "failed-at-check", "did-not-start", "stopped-early"}

LEMMA RunKindType ==
  ASSUME NEW r, NEW line
  PROVE  /\ runKind(r, line) \in Kinds
         /\ runKind(r, line) = "passed" <=> r.status = "passed"
         /\ runKind(r, line) = "failed-at-check" <=> r.status # "passed" /\ AtCheck(r, line)
BY DEF runKind, Kinds, AtCheck

LEMMA OneAssertion ==
  ASSUME NEW result
  PROVE  /\ DOMAIN FinalCheck(result) = {1}
         /\ FinalCheck(result)[1].result = result
         /\ FinalCheck(result)[1].isFailurePredicate = FALSE
BY DEF FinalCheck

\* The outcome rules, for what they are told of each kind of run.
LEMMA OutcomeOfKind ==
  ASSUME NEW kind \in Kinds, NEW log
  PROVE  /\ PlaneOf(kind, log).outcome = "PRODUCT_FAILED" <=> kind = "failed-at-check"
         /\ PlaneOf(kind, log).outcome = "VALID_COMPLETED" => kind = "passed"
<1> DEFINE told == outcomeInputsFor(kind)
<1>1. PICK usable : PlaneOf(kind, log).outcome
                      = decideOutcome(told.infra, told.automation, told.assertions, usable)
  BY DEF PlaneOf, runPlane
<1>2. /\ told.infra <=> kind = "did-not-start"
      /\ told.automation <=> kind = "stopped-early"
  BY DEF outcomeInputsFor
<1>3. CASE kind = "failed-at-check"
  <2>1. told.assertions = FinalCheck("fail")
    BY <1>3 DEF outcomeInputsFor
  <2>2. Failing(FinalCheck("fail"))
    BY OneAssertion DEF Failing
  <2>3. QED BY <1>1, <1>2, <1>3, <2>1, <2>2 DEF decideOutcome
<1>4. CASE kind = "passed"
  <2>1. told.assertions = FinalCheck("pass")
    BY <1>4 DEF outcomeInputsFor
  <2>2. ~Failing(FinalCheck("pass"))
    BY OneAssertion DEF Failing
  <2>3. QED BY <1>1, <1>2, <1>4, <2>1, <2>2 DEF decideOutcome
<1>5. CASE kind \in {"did-not-start", "stopped-early"}
  BY <1>1, <1>2, <1>5 DEF decideOutcome
<1>6. QED BY <1>3, <1>4, <1>5 DEF Kinds

\* The two readings agree (RateIsTheBatch, for one batch).
RateOK(runs, counts) ==
  /\ Cardinality(Failures(runs)) = counts.failedAtCheck
  /\ Cardinality(Passes(runs)) <= counts.reachedCheck - counts.failedAtCheck
  /\ \A i, j \in DOMAIN runs : runs[i].repeat = runs[j].repeat => i = j

LEMMA ReadingsAgree ==
  ASSUME NEW rep, IsReport(rep), NEW line, NEW runs, NEW logs,
         DOMAIN runs = DOMAIN rep,
         \A i \in DOMAIN rep : /\ runs[i].repeat = i - 1
                               /\ runs[i].kind = runKind(rep[i], line)
                               /\ runs[i].outcome = PlaneOf(runs[i].kind, logs[i]).outcome
  PROVE  RateOK(runs, classifyRuns(rep, line))
<1> DEFINE failed  == {i \in DOMAIN rep : rep[i].status \in {"failed", "timedOut"}}
           atCheck == {i \in failed : AtCheck(rep[i], line)}
           passed  == {i \in DOMAIN rep : rep[i].status = "passed"}
           counts  == classifyRuns(rep, line)
<1>1. Len(rep) \in Nat /\ DOMAIN rep = 1 .. Len(rep)
  BY DomainOfASeq DEF IsReport
<1>2. /\ counts.reachedCheck = Cardinality(passed) + Cardinality(atCheck)
      /\ counts.failedAtCheck = Cardinality(atCheck)
  BY DEF classifyRuns, Where
<1>3. IsFiniteSet(DOMAIN rep)
  BY <1>1, FS_Interval
<1>4. /\ IsFiniteSet(passed) /\ Cardinality(passed) \in Nat
      /\ IsFiniteSet(atCheck) /\ Cardinality(atCheck) \in Nat
  BY <1>3, FS_Subset, FS_CardinalityType
<1>5. \A i \in DOMAIN rep : /\ runs[i].outcome = "PRODUCT_FAILED" <=> i \in atCheck
                            /\ runs[i].outcome = "VALID_COMPLETED" => i \in passed
  <2>1. TAKE i \in DOMAIN rep
  <2>2. /\ runs[i].kind \in Kinds
        /\ runs[i].kind = "passed" <=> rep[i].status = "passed"
        /\ runs[i].kind = "failed-at-check" <=> rep[i].status # "passed" /\ AtCheck(rep[i], line)
    BY RunKindType
  <2>3. /\ runs[i].outcome = "PRODUCT_FAILED" <=> runs[i].kind = "failed-at-check"
        /\ runs[i].outcome = "VALID_COMPLETED" => runs[i].kind = "passed"
    BY <2>2, OutcomeOfKind
  <2>4. AtCheck(rep[i], line) => rep[i].status \in {"passed", "failed", "timedOut"}
    BY DEF AtCheck, IsReport, ResultOK
  <2>5. QED BY <2>2, <2>3, <2>4
<1>6. Failures(runs) = atCheck
  <2>1. Failures(runs) = {i \in DOMAIN runs : runs[i].outcome = "PRODUCT_FAILED"}
    BY DEF Failures, Where
  <2>2. atCheck \subseteq DOMAIN rep
    OBVIOUS
  <2> HIDE DEF atCheck
  <2>3. QED BY <2>1, <2>2, <1>5
<1>7. Passes(runs) \subseteq passed
  <2>1. Passes(runs) = {i \in DOMAIN runs : runs[i].outcome = "VALID_COMPLETED"}
    BY DEF Passes, Where
  <2> HIDE DEF passed
  <2>2. QED BY <2>1, <1>5
<1>8. Cardinality(Passes(runs)) <= Cardinality(passed)
  BY <1>4, <1>7, FS_Subset
<1>9. \A i, j \in DOMAIN runs : runs[i].repeat = runs[j].repeat => i = j
  BY <1>1
<1> HIDE DEF passed, atCheck, counts
<1>10. IsFiniteSet(Passes(runs)) /\ Cardinality(Passes(runs)) \in Nat
  BY <1>4, <1>7, FS_Subset, FS_CardinalityType
<1>11. counts.reachedCheck - counts.failedAtCheck = Cardinality(passed)
  BY <1>2, <1>4
<1>12. QED
  BY <1>2, <1>6, <1>8, <1>9, <1>11 DEF RateOK, counts

-----------------------------------------------------------------------------
(* The records of the commands                                             *)

Fields == {"pc", "batch", "analysis", "click", "config", "schedule", "copy", "repeats", "ran",
           "counts", "runs", "checksum"}

Shape == DOMAIN cmd = Commands /\ \A c \in Commands : DOMAIN cmd[c] = Fields

\* A step of command c leaves the others alone.
OthersStay(c) == \A d \in Commands : d # c => cmd'[d] = cmd[d]

LEMMA IdleFields ==
  /\ DOMAIN Idle = Fields
  /\ Idle.pc = "off" /\ Idle.batch = 0 /\ Idle.ran = <<>>
  /\ Idle.click = Nothing /\ Idle.config = Nothing
BY DEF Idle, Fields

LEMMA LeavesStep ==
  ASSUME Shape, NEW c \in Commands, Leaves(c)
  PROVE  Shape' /\ OthersStay(c) /\ cmd'[c] = Idle
BY IdleFields DEF Shape, Leaves, OthersStay

\* What each step does to its command, as far as the invariants look at it.
LEMMA StartStep ==
  ASSUME Shape, NEW c \in Commands, NEW r, DOMAIN r = Fields, Start(c, r)
  PROVE  Shape' /\ OthersStay(c) /\ cmd'[c] = r
BY DEF Shape, Start, OthersStay

LEMMA StartRerunStep ==
  ASSUME Shape, NEW c \in Commands, NEW n, StartRerun(c, n)
  PROVE  /\ Shape' /\ OthersStay(c)
         /\ cmd'[c].pc = "prepare" /\ cmd'[c].ran = <<>>
         /\ cmd'[c].click = Nothing /\ cmd'[c].config = Nothing
         /\ UNCHANGED <<report, batches, analyses, shown, results>>
<1> DEFINE r == [Idle EXCEPT !.pc = "prepare", !.repeats = n]
<1>1. DOMAIN r = Fields /\ r.pc = "prepare" /\ r.ran = <<>> /\ r.click = Nothing /\ r.config = Nothing
  BY DEF Idle, Fields
<1>2. Start(c, r) /\ UNCHANGED <<report, batches, analyses, shown, results>>
  BY DEF StartRerun
<1> HIDE DEF r
<1>3. QED BY <1>1, <1>2, StartStep

LEMMA StartAnalyzeStep ==
  ASSUME Shape, NEW c \in Commands, NEW b, StartAnalyze(c, b)
  PROVE  /\ Shape' /\ OthersStay(c) /\ b \in DOMAIN batches
         /\ cmd'[c].pc = "asking" /\ cmd'[c].batch = b /\ cmd'[c].ran = <<>>
         /\ cmd'[c].click = Nothing /\ cmd'[c].config = Nothing
         /\ UNCHANGED <<report, batches, analyses, shown, results>>
<1> DEFINE r == [Idle EXCEPT !.pc = "asking", !.batch = b]
<1>1. /\ DOMAIN r = Fields /\ r.pc = "asking" /\ r.batch = b /\ r.ran = <<>>
      /\ r.click = Nothing /\ r.config = Nothing
  BY DEF Idle, Fields
<1>2. b \in DOMAIN batches /\ Start(c, r) /\ UNCHANGED <<report, batches, analyses, shown, results>>
  BY DEF StartAnalyze
<1> HIDE DEF r
<1>3. QED BY <1>1, <1>2, StartStep

LEMMA StartConfirmStep ==
  ASSUME Shape, NEW c \in Commands, NEW b, NEW click, StartConfirm(c, b, click)
  PROVE  /\ Shape' /\ OthersStay(c)
         /\ cmd'[c].pc = "config" /\ cmd'[c].ran = <<>>
         /\ cmd'[c].click = click /\ cmd'[c].config = Nothing
         /\ UNCHANGED <<report, batches, analyses, shown, results>>
<1> DEFINE latest == latestBatchAnalysis(b)
           r == [Idle EXCEPT !.pc = "config", !.batch = b, !.analysis = latest, !.click = click]
<1> HIDE DEF latest
<1>1. /\ DOMAIN r = Fields /\ r.pc = "config" /\ r.ran = <<>>
      /\ r.click = click /\ r.config = Nothing
  BY DEF Idle, Fields
<1>2. Start(c, r) /\ UNCHANGED <<report, batches, analyses, shown, results>>
  BY DEF StartConfirm, latest
<1> HIDE DEF r
<1>3. QED BY <1>1, <1>2, StartStep

\* A step that keeps what the command was confirming, with what it has run.
KeepsConfirming(c) ==
  /\ cmd'[c].config = cmd[c].config /\ cmd'[c].click = cmd[c].click
  /\ cmd'[c].ran = cmd[c].ran

LEMMA PrepareStep ==
  ASSUME Shape, NEW c \in Commands, NEW supported, Prepare(c, supported)
  PROVE  /\ Shape' /\ OthersStay(c)
         /\ \/ cmd'[c] = Idle
            \/ KeepsConfirming(c) /\ cmd'[c].pc \in {"spawned", "bare"}
         /\ UNCHANGED <<report, batches, analyses, shown, results>>
<1> DEFINE pc == IF supported THEN "spawned" ELSE "bare"
<1>1. /\ Leaves(c) \/ cmd' = [cmd EXCEPT ![c].pc = pc, ![c].copy = suite]
      /\ UNCHANGED <<report, batches, analyses, shown, results>>
  BY DEF Prepare
<1>2. pc \in {"spawned", "bare"}
  OBVIOUS
<1> HIDE DEF pc
<1>3. ASSUME cmd' = [cmd EXCEPT ![c].pc = pc, ![c].copy = suite]
      PROVE  Shape' /\ OthersStay(c) /\ KeepsConfirming(c) /\ cmd'[c].pc = pc
  BY <1>3 DEF Shape, Fields, OthersStay, KeepsConfirming
<1>4. QED BY <1>1, <1>2, <1>3, LeavesStep

LEMMA PcStep ==
  ASSUME Shape, NEW c \in Commands, NEW pc, cmd' = [cmd EXCEPT ![c].pc = pc]
  PROVE  Shape' /\ OthersStay(c) /\ KeepsConfirming(c) /\ cmd'[c].pc = pc
BY DEF Shape, Fields, OthersStay, KeepsConfirming

LEMMA RunnerLoadsStep ==
  ASSUME Shape, NEW c \in Commands, RunnerLoads(c)
  PROVE  /\ Shape' /\ OthersStay(c) /\ KeepsConfirming(c)
         /\ cmd'[c].pc \in {"captured", "plain"} /\ report' = NoReport
         /\ UNCHANGED <<batches, analyses, shown, results>>
<1> DEFINE pc == IF cmd[c].pc = "spawned" THEN "captured" ELSE "plain"
<1>1. /\ cmd' = [cmd EXCEPT ![c].pc = pc]
      /\ report' = NoReport /\ UNCHANGED <<batches, analyses, shown, results>>
  BY DEF RunnerLoads, Shape, Fields
<1>2. pc \in {"captured", "plain"}
  OBVIOUS
<1> HIDE DEF pc
<1>3. QED BY <1>1, <1>2, PcStep

LEMMA RunnerCannotLoadStep ==
  ASSUME Shape, NEW c \in Commands, RunnerCannotLoad(c)
  PROVE  /\ Shape' /\ OthersStay(c) /\ KeepsConfirming(c) /\ cmd'[c].pc = "closed"
         /\ UNCHANGED <<report, batches, analyses, shown, results>>
BY PcStep DEF RunnerCannotLoad

LEMMA RunnerEndsStep ==
  ASSUME Shape, NEW c \in Commands, NEW written, RunnerEnds(c, written)
  PROVE  /\ Shape' /\ OthersStay(c) /\ KeepsConfirming(c) /\ cmd'[c].pc = "closed"
         /\ report' \in {report, [i \in DOMAIN cmd[c].ran |-> cmd[c].ran[i].result]}
         /\ UNCHANGED <<batches, analyses, shown, results>>
BY PcStep DEF RunnerEnds

\* One repeat more: its result is of the place it has among what has run.
LEMMA RepeatStep ==
  ASSUME Shape, NEW c \in Commands, NEW what \in Happenings, NEW takes, Repeat(c, what, takes),
         IsASeq(cmd[c].ran)
  PROVE  /\ Shape' /\ OthersStay(c)
         /\ cmd'[c].config = cmd[c].config /\ cmd'[c].click = cmd[c].click
         /\ cmd'[c].pc \in {"captured", "plain"}
         /\ \E x : cmd'[c].ran = Append(cmd[c].ran, x) /\ ResultOK(x.result, Len(cmd[c].ran) + 1)
         /\ UNCHANGED <<report, batches, analyses, shown, results>>
<1> DEFINE k == Len(cmd[c].ran)
           result == Result(what.status, LineOf(what.where, cmd[c].copy),
                            IF what.where = "none" /\ what.status # "passed" THEN NoFolder ELSE k)
           began == cmd[c].pc = "captured" /\ result.folder # NoFolder
           x == [result |-> result,
                 log    |-> IF cmd[c].pc = "captured" THEN what.log ELSE <<>>,
                 arm    |-> IF cmd[c].config # Nothing /\ began THEN {ArmRecord(cmd[c].schedule, k, takes)} ELSE {}]
<1>1. /\ cmd[c].pc \in {"captured", "plain"}
      /\ UNCHANGED <<report, batches, analyses, shown, results>>
  BY DEF Repeat
<1>2. cmd' = [cmd EXCEPT ![c].ran = Append(@, x)]
  BY DEF Repeat
<1>3. ResultOK(result, k + 1)
  <2>1. result.status = what.status /\ result.line = LineOf(what.where, cmd[c].copy)
    BY DEF Result
  <2>2. result.folder = NoFolder \/ result.folder = k
    BY DEF Result
  <2>3. result.line # 0 => what.where # "none"
    BY <2>1 DEF LineOf
  <2>4. k \in Nat
    BY DomainOfASeq
  <2> HIDE DEF k, result
  <2>5. QED BY <2>1, <2>2, <2>3, <2>4, HappeningsAssumption DEF ResultOK
<1>4. x.result = result
  OBVIOUS
<1> HIDE DEF x
<1>5. /\ Shape' /\ OthersStay(c)
      /\ cmd'[c].config = cmd[c].config /\ cmd'[c].click = cmd[c].click
      /\ cmd'[c].pc = cmd[c].pc /\ cmd'[c].ran = Append(cmd[c].ran, x)
  BY <1>2 DEF Shape, Fields, OthersStay
<1>6. QED BY <1>1, <1>3, <1>4, <1>5

LEMMA CountStep ==
  ASSUME Shape, NEW c \in Commands, Count(c)
  PROVE  /\ Shape' /\ OthersStay(c)
         /\ \/ cmd'[c] = Idle
            \/ /\ KeepsConfirming(c) /\ cmd'[c].pc = "ingest"
               /\ LET line == checkLineOf(suite) IN
                  /\ cmd'[c].counts = classifyRuns(report, line)
                  /\ cmd'[c].runs = [i \in DOMAIN classifyEachRun(report, line) |->
                                       IngestedRun(c, classifyEachRun(report, line)[i])]
         /\ UNCHANGED <<report, batches, analyses, shown, results>>
<1> DEFINE line == checkLineOf(suite)
           each == classifyEachRun(report, line)
           counts == classifyRuns(report, line)
           runs == [i \in DOMAIN each |-> IngestedRun(c, each[i])]
<1>1. /\ \/ Leaves(c)
         \/ cmd' = [cmd EXCEPT ![c].pc = "ingest", ![c].counts = counts, ![c].checksum = suite,
                               ![c].runs = runs]
      /\ UNCHANGED <<report, batches, analyses, shown, results>>
  BY DEF Count
<1> HIDE DEF counts, runs
<1>2. ASSUME cmd' = [cmd EXCEPT ![c].pc = "ingest", ![c].counts = counts, ![c].checksum = suite,
                                ![c].runs = runs]
      PROVE  /\ Shape' /\ OthersStay(c) /\ KeepsConfirming(c) /\ cmd'[c].pc = "ingest"
             /\ cmd'[c].counts = counts /\ cmd'[c].runs = runs
  BY <1>2 DEF Shape, Fields, OthersStay, KeepsConfirming
<1>3. QED BY <1>1, <1>2, LeavesStep DEF counts, runs

LEMMA IngestStep ==
  ASSUME Shape, NEW c \in Commands, NEW stored, Ingest(c, stored)
  PROVE  /\ Shape' /\ OthersStay(c) /\ cmd[c].pc = "ingest"
         /\ \/ batches' = batches /\ cmd'[c] = Idle
            \/ /\ \E b : /\ batches' = Append(batches, b)
                         /\ b.runs = cmd[c].runs /\ b.counts = cmd[c].counts /\ b.config = cmd[c].config
               /\ \/ cmd'[c] = Idle
                  \/ KeepsConfirming(c) /\ cmd'[c].pc = "decide" /\ cmd'[c].batch = Len(batches')
         /\ UNCHANGED <<report, analyses, shown, results>>
<1> DEFINE b == [runs |-> cmd[c].runs, counts |-> cmd[c].counts, suite |-> cmd[c].checksum,
                 config |-> cmd[c].config]
           n == Len(batches')
<1>1. /\ cmd[c].pc = "ingest"
      /\ \/ ~stored /\ batches' = batches
         \/ stored /\ batches' = Append(batches, b)
      /\ \/ Leaves(c)
         \/ stored /\ cmd' = [cmd EXCEPT ![c].pc = "decide", ![c].batch = n]
      /\ UNCHANGED <<report, analyses, shown, results>>
  BY DEF Ingest
<1>2. b.runs = cmd[c].runs /\ b.counts = cmd[c].counts /\ b.config = cmd[c].config
  OBVIOUS
<1> HIDE DEF b, n
<1>3. ASSUME cmd' = [cmd EXCEPT ![c].pc = "decide", ![c].batch = n]
      PROVE  Shape' /\ OthersStay(c) /\ KeepsConfirming(c) /\ cmd'[c].pc = "decide" /\ cmd'[c].batch = n
  BY <1>3 DEF Shape, Fields, OthersStay, KeepsConfirming
<1>4. CASE Leaves(c)
  <2>1. Shape' /\ OthersStay(c) /\ cmd'[c] = Idle
    BY <1>4, LeavesStep
  <2>2. QED BY <1>1, <1>2, <2>1
<1>5. CASE stored /\ cmd' = [cmd EXCEPT ![c].pc = "decide", ![c].batch = n]
  <2>1. Shape' /\ OthersStay(c) /\ KeepsConfirming(c) /\ cmd'[c].pc = "decide" /\ cmd'[c].batch = n
    BY <1>3, <1>5
  <2>2. QED BY <1>1, <1>2, <1>5, <2>1 DEF n
<1>6. QED BY <1>1, <1>4, <1>5

LEMMA StoreAnalysisStep ==
  ASSUME Shape, NEW c \in Commands, NEW findings, StoreAnalysis(c, findings)
  PROVE  /\ Shape' /\ OthersStay(c) /\ cmd[c].pc = "asking" /\ cmd'[c] = Idle
         /\ \/ analyses' = analyses
            \/ /\ InEvidence(findings, RunIds(cmd[c].batch))
               /\ \E a : /\ analyses' = Append(analyses, a) /\ a.batch = cmd[c].batch
                         /\ a.kept = withholdByEvidence(findings, qualityOf(cmd[c].batch)).kept
         /\ UNCHANGED <<report, batches, shown, results>>
<1> DEFINE kept == withholdByEvidence(findings, qualityOf(cmd[c].batch)).kept
           a == [batch |-> cmd[c].batch, kept |-> kept]
<1>1. /\ cmd[c].pc = "asking" /\ Leaves(c)
      /\ \/ analyses' = analyses
         \/ InEvidence(findings, RunIds(cmd[c].batch)) /\ analyses' = Append(analyses, a)
      /\ UNCHANGED <<report, batches, shown, results>>
  BY DEF StoreAnalysis
<1> HIDE DEF kept
<1>2. a.batch = cmd[c].batch /\ a.kept = kept
  OBVIOUS
<1> HIDE DEF a
<1>3. Shape' /\ OthersStay(c) /\ cmd'[c] = Idle
  BY <1>1, LeavesStep
<1>4. QED BY <1>1, <1>2, <1>3 DEF kept

LEMMA BuildConfigStep ==
  ASSUME Shape, NEW c \in Commands, BuildConfig(c)
  PROVE  /\ Shape' /\ OthersStay(c)
         /\ \/ cmd'[c] = Idle /\ shown \subseteq shown'
            \/ /\ cmd[c].click # Nothing /\ cmd'[c].config = cmd[c].click /\ cmd'[c].click = cmd[c].click
               /\ cmd'[c].pc = "freeze" /\ cmd'[c].ran = cmd[c].ran /\ shown' = shown
         /\ UNCHANGED <<report, batches, analyses, results>>
<1> DEFINE config == buildConfirmationConfig(cmd[c].batch, cmd[c].analysis)
<1>1. /\ \/ Leaves(c) /\ (shown' = shown \cup {config} \/ shown' = shown)
         \/ /\ cmd[c].click # Nothing /\ IsAsShown(cmd[c].click, config)
            /\ cmd' = [cmd EXCEPT ![c].pc = "freeze", ![c].config = config] /\ shown' = shown
      /\ UNCHANGED <<report, batches, analyses, results>>
  BY Zenon DEF BuildConfig
<1> HIDE DEF config
<1>2. ASSUME cmd' = [cmd EXCEPT ![c].pc = "freeze", ![c].config = config]
      PROVE  /\ Shape' /\ OthersStay(c)
             /\ cmd'[c].config = config /\ cmd'[c].click = cmd[c].click
             /\ cmd'[c].pc = "freeze" /\ cmd'[c].ran = cmd[c].ran
  BY <1>2 DEF Shape, Fields, OthersStay
<1>3. IsAsShown(cmd[c].click, config) => cmd[c].click = config
  BY DEF IsAsShown
<1>4. QED BY <1>1, <1>2, <1>3, LeavesStep

LEMMA FreezeStep ==
  ASSUME Shape, NEW c \in Commands, Freeze(c)
  PROVE  /\ Shape' /\ OthersStay(c) /\ KeepsConfirming(c) /\ cmd'[c].pc = "prepare"
         /\ UNCHANGED <<report, batches, analyses, shown, results>>
<1> DEFINE schedule == buildConfirmationSchedule(PerArm, [k \in 1 .. PerArm |-> Order(cmd[c].analysis, k)])
           n == 2 * PerArm
<1>1. /\ cmd' = [cmd EXCEPT ![c].pc = "prepare", ![c].repeats = n, ![c].schedule = schedule]
      /\ UNCHANGED <<report, batches, analyses, shown, results>>
  BY DEF Freeze
<1> HIDE DEF schedule, n
<1>2. QED BY <1>1 DEF Shape, Fields, OthersStay, KeepsConfirming

LEMMA DecideStep ==
  ASSUME Shape, NEW c \in Commands, NEW apart, Decide(c, apart)
  PROVE  /\ Shape' /\ OthersStay(c) /\ cmd[c].pc = "decide" /\ cmd'[c] = Idle
         /\ \E signature, r :
              /\ results' = Append(results, r) /\ r.batch = cmd[c].batch
              /\ r.counted = countConfirmation(signature, batches[cmd[c].batch].runs)
              /\ r.verdict = decideConfirmation(r.counted, MinReached, apart)
         /\ UNCHANGED <<report, batches, analyses, shown>>
<1> DEFINE signature == cmd[c].config.signature
           counted == countConfirmation(signature, batches[cmd[c].batch].runs)
           verdict == decideConfirmation(counted, MinReached, apart)
           r == [batch |-> cmd[c].batch, counted |-> counted, verdict |-> verdict]
<1>1. /\ cmd[c].pc = "decide" /\ Leaves(c) /\ results' = Append(results, r)
      /\ UNCHANGED <<report, batches, analyses, shown>>
  BY DEF Decide
<1> HIDE DEF verdict, counted, signature
<1>2. r.batch = cmd[c].batch /\ r.counted = counted /\ r.verdict = verdict
  OBVIOUS
<1> HIDE DEF r
<1>3. Shape' /\ OthersStay(c) /\ cmd'[c] = Idle
  BY <1>1, LeavesStep
<1>4. /\ r.counted = countConfirmation(signature, batches[cmd[c].batch].runs)
      /\ r.verdict = decideConfirmation(r.counted, MinReached, apart)
  BY <1>2 DEF counted, verdict
<1>5. QED BY <1>1, <1>2, <1>3, <1>4

LEMMA DiesStep ==
  ASSUME Shape, NEW c \in Commands, Dies(c)
  PROVE  /\ Shape' /\ OthersStay(c) /\ cmd'[c] = Idle
         /\ UNCHANGED <<report, batches, analyses, shown, results>>
BY LeavesStep DEF Dies

-----------------------------------------------------------------------------
(* The inductive invariant                                                 *)

\* A run that counts for either arm came to the check, and a factor that was
\* recorded was there.
RunOK(run) ==
  /\ run.outcome \in {"PRODUCT_FAILED", "VALID_COMPLETED"} => run.kind \in {"passed", "failed-at-check"}
  /\ run.arm.factorApplied => run.with

BatchOK(runs, counts) ==
  /\ \E n \in Nat : DOMAIN runs = 1 .. n
  /\ \A i \in DOMAIN runs : RunOK(runs[i])
  /\ RateOK(runs, counts)

Ran(s) == IsASeq(s) /\ \A i \in DOMAIN s : ResultOK(s[i].result, i)

\* What a command holds agrees with what is stored and what was shown.
CommandOK(c) ==
  /\ Ran(cmd[c].ran)
  /\ cmd[c].pc = "ingest" => BatchOK(cmd[c].runs, cmd[c].counts)
  /\ cmd[c].pc \in {"asking", "decide"} => cmd[c].batch \in DOMAIN batches
  /\ cmd[c].click # Nothing => cmd[c].click \in shown
  /\ cmd[c].config # Nothing => cmd[c].config \in shown

BatchesOK ==
  /\ IsASeq(batches)
  /\ \A b \in DOMAIN batches : BatchOK(batches[b].runs, batches[b].counts)

\* The runs in which the factor was there, and which came to the check.
There(runs) == Where(runs, LAMBDA run : run.with /\ run.kind \in {"passed", "failed-at-check"})

\* TriggerWasThere, for one result.
VerdictOK(r) ==
  /\ results[r].batch \in DOMAIN batches
  /\ results[r].verdict = "high_confidence_trigger" =>
       /\ MinReached <= results[r].counted.variant.reached
       /\ results[r].counted.variant.reached <= Cardinality(There(batches[results[r].batch].runs))

\* FindingsRestOnEvidence, for one finding.
RestsOn(f, b) ==
  /\ f.cites \subseteq RunIds(b)
  /\ f.claim \in DOMAIN CLAIM_EVIDENCE_REQUIREMENTS =>
       \A i \in DOMAIN batches[b].runs :
         LET run == batches[b].runs[i] IN
         run.repeat \in f.cites => \A cat \in CLAIM_EVIDENCE_REQUIREMENTS[f.claim] : run.status[cat] = "complete"

AnalysisOK(a) ==
  analyses[a].batch \in DOMAIN batches /\ \A f \in analyses[a].kept : RestsOn(f, analyses[a].batch)

IInv ==
  /\ Shape
  /\ IsReport(report)
  /\ BatchesOK
  /\ IsASeq(results) /\ \A r \in DOMAIN results : VerdictOK(r)
  /\ IsASeq(analyses) /\ \A a \in DOMAIN analyses : AnalysisOK(a)
  /\ ConfirmedIsShown
  /\ \A c \in Commands : CommandOK(c)

-----------------------------------------------------------------------------
(* Counting and citing                                                     *)

LEMMA TriggerCounts ==
  ASSUME NEW runs, NEW n \in Nat, DOMAIN runs = 1 .. n, \A i \in DOMAIN runs : RunOK(runs[i]),
         NEW signature
  PROVE  countConfirmation(signature, runs).variant.reached <= Cardinality(There(runs))
<1> DEFINE there == {i \in DOMAIN runs : runs[i].with /\ runs[i].kind \in {"passed", "failed-at-check"}}
           among == {"matched", "other-failure", "passed"}
           counted == {i \in DOMAIN runs : /\ runs[i].arm.arm = "variant"
                                           /\ countRun(signature, runs[i]) \in among
                                           /\ "variant" = "variant" => runs[i].arm.factorApplied \/ among = {"excluded"}}
<1>1. countConfirmation(signature, runs).variant.reached = Cardinality(counted)
  BY DEF countConfirmation, ArmCounts, Where
<1>2. counted \subseteq there
  <2> SUFFICES ASSUME NEW i \in counted PROVE i \in there
    OBVIOUS
  <2>1. i \in DOMAIN runs /\ countRun(signature, runs[i]) \in among /\ runs[i].arm.factorApplied
    <3>1. among # {"excluded"}
      OBVIOUS
    <3>2. QED BY <3>1
  <2>2. runs[i].outcome \in {"PRODUCT_FAILED", "VALID_COMPLETED"}
    BY <2>1 DEF countRun
  <2>3. runs[i].kind \in {"passed", "failed-at-check"} /\ runs[i].with
    BY <2>1, <2>2 DEF RunOK
  <2>4. QED BY <2>1, <2>3
<1>3. IsFiniteSet(there)
  <2>1. IsFiniteSet(1 .. n)
    BY FS_Interval
  <2>2. there \in SUBSET (1 .. n)
    OBVIOUS
  <2> HIDE DEF there
  <2>3. QED BY <2>1, <2>2, FS_Subset
<1>4. Cardinality(counted) <= Cardinality(there)
  <2> HIDE DEF counted, there
  <2>1. QED BY <1>2, <1>3, FS_Subset
<1>5. there = There(runs)
  BY DEF There, Where
<1> HIDE DEF counted, there
<1>6. QED BY <1>1, <1>4, <1>5

LEMMA TriggerNeedsEnough ==
  ASSUME NEW counted, NEW apart,
         decideConfirmation(counted, MinReached, apart) = "high_confidence_trigger"
  PROVE  MinReached <= counted.variant.reached
BY SuiteRunsAssumption DEF decideConfirmation

\* The status a batch gives of a repeat is that of the one run which was that repeat.
LEMMA QualityOfRun ==
  ASSUME NEW b, BatchOK(batches[b].runs, batches[b].counts), NEW i \in DOMAIN batches[b].runs
  PROVE  LET run == batches[b].runs[i] IN
         run.repeat \in DOMAIN qualityOf(b) /\ qualityOf(b)[run.repeat] = run.status
<1> DEFINE runs == batches[b].runs
           All  == {runs[j] : j \in DOMAIN runs}
           run  == runs[i]
<1>1. \A j \in DOMAIN runs : runs[j].repeat = run.repeat => runs[j] = run
  BY DEF BatchOK, RateOK
<1>2. run \in All
  OBVIOUS
<1>3. \A x \in All : x.repeat = run.repeat => x = run
  BY <1>1
<1>4. run.repeat \in RunIds(b)
  BY DEF RunIds
<1>5. qualityOf(b) = [r \in RunIds(b) |-> (CHOOSE x \in All : x.repeat = r).status]
  BY DEF qualityOf
<1> HIDE DEF All
<1>6. (CHOOSE x \in All : x.repeat = run.repeat) = run
  BY <1>2, <1>3
<1>7. QED BY <1>4, <1>5, <1>6

LEMMA KeptRests ==
  ASSUME NEW b, BatchOK(batches[b].runs, batches[b].counts), NEW findings,
         InEvidence(findings, RunIds(b)),
         NEW f \in withholdByEvidence(findings, qualityOf(b)).kept
  PROVE  RestsOn(f, b)
<1> DEFINE quality == qualityOf(b)
           resting == {g \in findings : g.claim \in DOMAIN CLAIM_EVIDENCE_REQUIREMENTS
                                          /\ incompleteEvidenceFor(quality, g.claim, g.cites) # {}}
<1>1. f \in findings \ resting
  BY DEF withholdByEvidence
<1>2. f.cites \subseteq RunIds(b)
  BY <1>1 DEF InEvidence
<1>3. ASSUME f.claim \in DOMAIN CLAIM_EVIDENCE_REQUIREMENTS,
             NEW i \in DOMAIN batches[b].runs, batches[b].runs[i].repeat \in f.cites,
             NEW cat \in CLAIM_EVIDENCE_REQUIREMENTS[f.claim]
      PROVE  batches[b].runs[i].status[cat] = "complete"
  <2> DEFINE r == batches[b].runs[i].repeat
             required == CLAIM_EVIDENCE_REQUIREMENTS[f.claim]
  <2>1. incompleteEvidenceFor(quality, f.claim, f.cites) = {}
    BY <1>1, <1>3
  <2>2. <<r, cat>> \in f.cites \X required
    BY <1>3
  <2>3. quality[r][cat] = "complete"
    <3> HIDE DEF quality, r
    <3>1. <<r, cat>> \notin incompleteEvidenceFor(quality, f.claim, f.cites)
      BY <2>1
    <3>2. QED BY <2>2, <3>1 DEF incompleteEvidenceFor
  <2>4. quality[r] = batches[b].runs[i].status
    BY QualityOfRun
  <2>5. QED BY <2>3, <2>4
<1>4. QED BY <1>2, <1>3 DEF RestsOn

\* A factor that is recorded of a run was there.
LEMMA ArmWasThere ==
  ASSUME NEW c, NEW repeat, armOf(c, repeat).factorApplied
  PROVE  \E a \in Staged(c, repeat).arm : a.factorApplied
<1> DEFINE said == Staged(c, repeat).arm
<1>1. CASE said # {}
  <2>1. armOf(c, repeat) = (CHOOSE a \in said : TRUE)
    BY <1>1 DEF armOf
  <2>2. (CHOOSE a \in said : TRUE) \in said
    BY <1>1
  <2>3. QED BY <2>1, <2>2
<1>2. CASE said = {}
  <2>1. armOf(c, repeat).factorApplied = FALSE
    BY <1>2 DEF armOf
  <2>2. QED BY <2>1
<1>3. QED BY <1>1, <1>2

LEMMA IngestedFields ==
  ASSUME NEW c, NEW run
  PROVE  /\ IngestedRun(c, run).repeat = run.repeat
         /\ IngestedRun(c, run).kind = run.kind
         /\ IngestedRun(c, run).outcome = PlaneOf(run.kind, Staged(c, run.repeat).log).outcome
         /\ IngestedRun(c, run).arm = armOf(c, run.repeat)
BY DEF IngestedRun

LEMMA IngestedArm ==
  ASSUME NEW c, NEW run, IngestedRun(c, run).arm.factorApplied
  PROVE  IngestedRun(c, run).with
<1>1. IngestedRun(c, run).with = \E a \in Staged(c, run.repeat).arm : a.factorApplied
  BY DEF IngestedRun
<1>2. armOf(c, run.repeat).factorApplied
  BY IngestedFields
<1>3. \E a \in Staged(c, run.repeat).arm : a.factorApplied
  BY <1>2, ArmWasThere
<1>4. QED BY <1>1, <1>3

LEMMA CountedOK ==
  ASSUME NEW c, IsReport(report), NEW line
  PROVE  BatchOK([i \in DOMAIN classifyEachRun(report, line) |->
                    IngestedRun(c, classifyEachRun(report, line)[i])],
                 classifyRuns(report, line))
<1> DEFINE each == classifyEachRun(report, line)
           runs == [i \in DOMAIN each |-> IngestedRun(c, each[i])]
           logs == [i \in DOMAIN each |-> Staged(c, each[i].repeat).log]
<1>1. /\ DOMAIN each = DOMAIN report
      /\ \A i \in DOMAIN report : each[i].repeat = i - 1 /\ each[i].kind = runKind(report[i], line)
  BY EachRun
<1>2. Len(report) \in Nat /\ DOMAIN report = 1 .. Len(report)
  BY DomainOfASeq DEF IsReport
<1> HIDE DEF each
<1>3. ASSUME NEW i \in DOMAIN report
      PROVE  /\ runs[i].repeat = i - 1
             /\ runs[i].kind = runKind(report[i], line)
             /\ runs[i].outcome = PlaneOf(runs[i].kind, logs[i]).outcome
             /\ RunOK(runs[i])
  <2>1. /\ runs[i] = IngestedRun(c, each[i])
        /\ logs[i] = Staged(c, each[i].repeat).log
    BY <1>1
  <2> HIDE DEF runs, logs
  <2>2. /\ runs[i].repeat = i - 1
        /\ runs[i].kind = runKind(report[i], line)
        /\ runs[i].outcome = PlaneOf(runs[i].kind, logs[i]).outcome
    BY <1>1, <2>1, IngestedFields
  <2>3. runs[i].kind \in Kinds
    BY <2>2, RunKindType
  <2>4. runs[i].outcome \in {"PRODUCT_FAILED", "VALID_COMPLETED"} => runs[i].kind \in {"passed", "failed-at-check"}
    BY <2>2, <2>3, OutcomeOfKind
  <2>5. runs[i].arm.factorApplied => runs[i].with
    BY <2>1, IngestedArm
  <2>6. QED BY <2>2, <2>4, <2>5 DEF RunOK
<1>4. DOMAIN runs = DOMAIN report
  BY <1>1
<1> HIDE DEF runs, logs
<1>5. RateOK(runs, classifyRuns(report, line))
  BY <1>3, <1>4, ReadingsAgree
<1>6. \E n \in Nat : DOMAIN runs = 1 .. n
  BY <1>2, <1>4
<1>7. \A i \in DOMAIN runs : RunOK(runs[i])
  BY <1>3, <1>4
<1>8. BatchOK(runs, classifyRuns(report, line))
  BY <1>5, <1>6, <1>7 DEF BatchOK
<1>9. QED BY <1>8 DEF runs, each

-----------------------------------------------------------------------------
(* The steps preserve it                                                   *)

\* What is stored and what was shown only grows.
Grows ==
  /\ DOMAIN batches \subseteq DOMAIN batches' /\ \A b \in DOMAIN batches : batches'[b] = batches[b]
  /\ shown \subseteq shown'

LEMMA OthersOK ==
  ASSUME IInv, NEW c \in Commands, OthersStay(c), Grows, CommandOK(c)'
  PROVE  \A d \in Commands : CommandOK(d)'
<1> TAKE d \in Commands
<1>1. CASE d = c
  BY <1>1
<1>2. CASE d # c
  <2>1. cmd'[d] = cmd[d]
    BY <1>2 DEF OthersStay
  <2>2. CommandOK(d)
    BY DEF IInv
  <2>3. QED BY <2>1, <2>2 DEF CommandOK, Grows
<1>3. QED BY <1>1, <1>2

LEMMA VerdictsStay ==
  ASSUME IInv, Grows, NEW r \in DOMAIN results, results'[r] = results[r]
  PROVE  VerdictOK(r)'
<1>1. VerdictOK(r) /\ results[r].batch \in DOMAIN batches
  BY DEF IInv, VerdictOK
<1>2. results[r].batch \in DOMAIN batches' /\ batches'[results[r].batch] = batches[results[r].batch]
  BY <1>1 DEF Grows
<1>3. QED BY <1>1, <1>2 DEF VerdictOK

LEMMA AnalysesStay ==
  ASSUME IInv, Grows, NEW a \in DOMAIN analyses, analyses'[a] = analyses[a]
  PROVE  AnalysisOK(a)'
<1> DEFINE b == analyses[a].batch
<1>1. AnalysisOK(a) /\ b \in DOMAIN batches
  BY DEF IInv, AnalysisOK
<1>2. b \in DOMAIN batches' /\ batches'[b] = batches[b]
  BY <1>1 DEF Grows
<1>3. \A f \in analyses[a].kept : RestsOn(f, b) => RestsOn(f, b)'
  BY <1>2 DEF RestsOn, RunIds
<1>4. QED BY <1>1, <1>2, <1>3 DEF AnalysisOK

\* A step that stores nothing need only leave its own command in order.
LEMMA NothingStored ==
  ASSUME IInv, NEW c \in Commands, Shape', OthersStay(c), IsReport(report)', CommandOK(c)',
         shown \subseteq shown', UNCHANGED <<batches, analyses, results>>
  PROVE  IInv'
<1>1. Grows
  BY DEF Grows
<1>2. \A d \in Commands : CommandOK(d)'
  BY <1>1, OthersOK
<1>3. BatchesOK'
  BY DEF IInv, BatchesOK
<1>4. IsASeq(results)' /\ \A r \in DOMAIN results' : VerdictOK(r)'
  BY <1>1, VerdictsStay DEF IInv
<1>5. IsASeq(analyses)' /\ \A a \in DOMAIN analyses' : AnalysisOK(a)'
  BY <1>1, AnalysesStay DEF IInv
<1>6. ConfirmedIsShown'
  BY DEF IInv, ConfirmedIsShown
<1>7. QED BY <1>2, <1>3, <1>4, <1>5, <1>6 DEF IInv

LEMMA NothingIsASeq == IsASeq(<<>>)
BY DEF IsASeq

\* A command that left, or has only just started, is in order.
LEMMA FreshOK ==
  ASSUME NEW c \in Commands, cmd'[c].ran = <<>>, cmd'[c].pc \notin {"ingest", "asking", "decide"},
         cmd'[c].config = Nothing, cmd'[c].click \in {Nothing} \cup shown'
  PROVE  CommandOK(c)'
<1>1. Ran(<<>>)
  BY NothingIsASeq DEF Ran
<1>2. QED BY <1>1 DEF CommandOK

LEMMA IdleOK ==
  ASSUME NEW c \in Commands, cmd'[c] = Idle
  PROVE  CommandOK(c)'
BY FreshOK, IdleFields

\* So is one that goes on with what it was doing.
LEMMA RunsOn ==
  ASSUME IInv, NEW c \in Commands, KeepsConfirming(c), cmd'[c].pc \notin {"ingest", "asking", "decide"},
         shown' = shown
  PROVE  CommandOK(c)'
<1>1. CommandOK(c)
  BY DEF IInv
<1>2. QED BY <1>1 DEF CommandOK, KeepsConfirming

LEMMA RanGrows ==
  ASSUME NEW s, Ran(s), NEW x, ResultOK(x.result, Len(s) + 1)
  PROVE  Ran(Append(s, x))
<1>1. IsASeq(s) /\ Len(s) \in Nat /\ DOMAIN s = 1 .. Len(s)
  BY DomainOfASeq DEF Ran
<1> DEFINE t == Append(s, x)
<1>2. /\ IsASeq(t) /\ DOMAIN t = 1 .. Len(s) + 1
      /\ \A i \in DOMAIN s : t[i] = s[i]
      /\ t[Len(s) + 1] = x
  BY <1>1, AppendAny
<1> HIDE DEF t
<1>3. \A i \in DOMAIN t : ResultOK(t[i].result, i)
  <2> TAKE i \in DOMAIN t
  <2>1. i \in DOMAIN s \/ i = Len(s) + 1
    BY <1>1, <1>2
  <2>2. QED BY <1>2, <2>1 DEF Ran
<1>4. QED BY <1>2, <1>3 DEF Ran, t

LEMMA ReportOfRan ==
  ASSUME NEW s, Ran(s)
  PROVE  IsReport([i \in DOMAIN s |-> s[i].result])
<1> DEFINE rep == [i \in DOMAIN s |-> s[i].result]
           S == {rep[i] : i \in DOMAIN rep}
<1>1. Len(s) \in Nat /\ DOMAIN s = 1 .. Len(s)
  BY DomainOfASeq DEF Ran
<1>2. DOMAIN rep = 1 .. Len(s)
  BY <1>1
<1>3. rep \in [1 .. Len(s) -> S]
  <2>1. \A i \in 1 .. Len(s) : rep[i] \in S
    BY <1>2
  <2> HIDE DEF S
  <2>2. QED BY <1>1, <2>1
<1>4. rep \in Seq(S)
  <2> HIDE DEF rep, S
  <2>1. QED BY <1>1, <1>3
<1>5. IsASeq(rep)
  BY <1>4 DEF IsASeq
<1>6. \A i \in DOMAIN rep : ResultOK(rep[i], i)
  BY DEF Ran
<1> HIDE DEF rep
<1>7. IsReport(rep)
  BY <1>5, <1>6 DEF IsReport
<1>8. QED BY <1>7 DEF rep

LEMMA Unmoved ==
  ASSUME IInv, UNCHANGED <<report, batches, analyses, shown, results, cmd>>
  PROVE  IInv'
<1>1. Grows
  BY DEF Grows
<1>2. \A c \in Commands : CommandOK(c)'
  BY DEF IInv, CommandOK
<1>3. \A r \in DOMAIN results' : VerdictOK(r)'
  BY <1>1, VerdictsStay DEF IInv
<1>4. \A a \in DOMAIN analyses' : AnalysisOK(a)'
  BY <1>1, AnalysesStay DEF IInv
<1>5. QED BY <1>2, <1>3, <1>4 DEF IInv, Shape, BatchesOK, ConfirmedIsShown

\* A batch is stored as it was counted, and carries what was confirmed.
LEMMA IngestInv ==
  ASSUME IInv, NEW c \in Commands, NEW stored \in BOOLEAN, Ingest(c, stored)
  PROVE  IInv'
<1>1. /\ Shape' /\ OthersStay(c) /\ cmd[c].pc = "ingest"
      /\ \/ batches' = batches /\ cmd'[c] = Idle
         \/ /\ \E b : /\ batches' = Append(batches, b)
                      /\ b.runs = cmd[c].runs /\ b.counts = cmd[c].counts /\ b.config = cmd[c].config
            /\ \/ cmd'[c] = Idle
               \/ KeepsConfirming(c) /\ cmd'[c].pc = "decide" /\ cmd'[c].batch = Len(batches')
      /\ UNCHANGED <<report, analyses, shown, results>>
  BY IngestStep DEF IInv
<1>2. CommandOK(c) /\ IsASeq(batches)
  BY DEF IInv, BatchesOK
<1>3. CASE batches' = batches /\ cmd'[c] = Idle
  BY <1>1, <1>3, IdleOK, NothingStored DEF IInv
<1>4. ASSUME NEW b, batches' = Append(batches, b),
             b.runs = cmd[c].runs, b.counts = cmd[c].counts, b.config = cmd[c].config,
             \/ cmd'[c] = Idle
             \/ KeepsConfirming(c) /\ cmd'[c].pc = "decide" /\ cmd'[c].batch = Len(batches')
      PROVE  IInv'
  <2> DEFINE n == Len(batches) + 1
  <2>1. /\ Len(batches) \in Nat /\ DOMAIN batches = 1 .. Len(batches)
        /\ IsASeq(batches') /\ DOMAIN batches' = 1 .. n /\ Len(batches') = n
        /\ \A k \in DOMAIN batches : k \in DOMAIN batches' /\ batches'[k] = batches[k]
        /\ batches'[n] = b
    BY <1>2, <1>4, DomainOfASeq, AppendAny
  <2>2. \A k \in DOMAIN batches' : k \in DOMAIN batches \/ k = n
    BY <2>1
  <2>3. Grows
    BY <1>1, <2>1 DEF Grows
  <2>4. n \in DOMAIN batches'
    BY <2>1
  <2> HIDE DEF n
  <2>5. BatchesOK'
    <3>1. BatchOK(b.runs, b.counts)
      BY <1>1, <1>2, <1>4 DEF CommandOK
    <3>2. \A k \in DOMAIN batches' : BatchOK(batches'[k].runs, batches'[k].counts)
      BY <2>1, <2>2, <3>1 DEF IInv, BatchesOK
    <3>3. QED BY <2>1, <3>2 DEF BatchesOK
  <2>6. ConfirmedIsShown'
    <3>1. b.config # Nothing => b.config \in shown
      BY <1>2, <1>4 DEF CommandOK
    <3>2. QED BY <1>1, <2>1, <2>2, <3>1 DEF IInv, ConfirmedIsShown
  <2>7. CommandOK(c)'
    <3>1. CASE cmd'[c] = Idle
      BY <3>1, IdleOK
    <3>2. CASE KeepsConfirming(c) /\ cmd'[c].pc = "decide" /\ cmd'[c].batch = Len(batches')
      BY <1>1, <1>2, <2>1, <2>4, <3>2 DEF CommandOK, KeepsConfirming
    <3>3. QED BY <1>4, <3>1, <3>2
  <2>8. \A d \in Commands : CommandOK(d)'
    BY <1>1, <2>3, <2>7, OthersOK
  <2>9. \A r \in DOMAIN results' : VerdictOK(r)'
    BY <1>1, <2>3, VerdictsStay DEF IInv
  <2>10. \A a \in DOMAIN analyses' : AnalysisOK(a)'
    BY <1>1, <2>3, AnalysesStay DEF IInv
  <2>11. QED BY <1>1, <2>5, <2>6, <2>8, <2>9, <2>10 DEF IInv
<1>5. QED BY <1>1, <1>3, <1>4

\* What is kept of an answer rests on the batch that was asked about.
LEMMA StoreAnalysisInv ==
  ASSUME IInv, NEW c \in Commands, NEW findings, StoreAnalysis(c, findings)
  PROVE  IInv'
<1>1. PICK at : at = cmd[c].batch
  OBVIOUS
<1>2. /\ Shape' /\ OthersStay(c) /\ cmd[c].pc = "asking" /\ cmd'[c] = Idle
      /\ \/ analyses' = analyses
         \/ /\ InEvidence(findings, RunIds(at))
            /\ \E a : /\ analyses' = Append(analyses, a) /\ a.batch = at
                      /\ a.kept = withholdByEvidence(findings, qualityOf(at)).kept
      /\ UNCHANGED <<report, batches, shown, results>>
  BY <1>1, StoreAnalysisStep DEF IInv
<1>3. CASE analyses' = analyses
  BY <1>2, <1>3, IdleOK, NothingStored DEF IInv
<1>4. ASSUME InEvidence(findings, RunIds(at)),
             NEW a, analyses' = Append(analyses, a), a.batch = at,
             a.kept = withholdByEvidence(findings, qualityOf(at)).kept
      PROVE  IInv'
  <2>1. PICK n : n = Len(analyses) + 1
    OBVIOUS
  <2>2. /\ IsASeq(analyses) /\ Len(analyses) \in Nat /\ DOMAIN analyses = 1 .. Len(analyses)
        /\ IsASeq(analyses') /\ DOMAIN analyses' = 1 .. n
        /\ \A k \in DOMAIN analyses : analyses'[k] = analyses[k]
        /\ analyses'[n] = a
    BY <1>4, <2>1, DomainOfASeq, AppendAny DEF IInv
  <2>3. \A k \in DOMAIN analyses' : k \in DOMAIN analyses \/ k = n
    BY <2>1, <2>2
  <2>4. Grows
    BY <1>2 DEF Grows
  <2>5. at \in DOMAIN batches
    BY <1>1, <1>2 DEF IInv, CommandOK
  <2>6. \A f \in a.kept : RestsOn(f, at)
    <3>1. BatchOK(batches[at].runs, batches[at].counts)
      BY <2>5 DEF IInv, BatchesOK
    <3>2. QED BY <1>4, <3>1, KeptRests
  <2>7. AnalysisOK(n)'
    <3>1. \A f \in a.kept : RestsOn(f, at)'
      BY <1>2, <2>6 DEF RestsOn, RunIds
    <3>2. QED BY <1>2, <1>4, <2>2, <2>5, <3>1 DEF AnalysisOK
  <2>8. \A k \in DOMAIN analyses' : AnalysisOK(k)'
    BY <2>2, <2>3, <2>4, <2>7, AnalysesStay
  <2>9. \A d \in Commands : CommandOK(d)'
    BY <1>2, <2>4, IdleOK, OthersOK
  <2>10. \A r \in DOMAIN results' : VerdictOK(r)'
    BY <1>2, <2>4, VerdictsStay DEF IInv
  <2>11. QED BY <1>2, <2>2, <2>8, <2>9, <2>10 DEF IInv, BatchesOK, ConfirmedIsShown
<1>5. QED BY <1>2, <1>3, <1>4

\* A verdict is about runs that were there.
LEMMA DecideInv ==
  ASSUME IInv, NEW c \in Commands, NEW apart, Decide(c, apart)
  PROVE  IInv'
<1>1. PICK at, n : at = cmd[c].batch /\ n = Len(results) + 1
  OBVIOUS
<1>2. /\ Shape' /\ OthersStay(c) /\ cmd[c].pc = "decide" /\ cmd'[c] = Idle
      /\ \E signature, r :
           /\ results' = Append(results, r) /\ r.batch = at
           /\ r.counted = countConfirmation(signature, batches[at].runs)
           /\ r.verdict = decideConfirmation(r.counted, MinReached, apart)
      /\ UNCHANGED <<report, batches, analyses, shown>>
  BY <1>1, DecideStep DEF IInv
<1>3. PICK signature, r :
        /\ results' = Append(results, r) /\ r.batch = at
        /\ r.counted = countConfirmation(signature, batches[at].runs)
        /\ r.verdict = decideConfirmation(r.counted, MinReached, apart)
  BY <1>2
<1>4. /\ IsASeq(results) /\ Len(results) \in Nat /\ DOMAIN results = 1 .. Len(results)
      /\ IsASeq(results') /\ DOMAIN results' = 1 .. n
      /\ \A k \in DOMAIN results : results'[k] = results[k]
      /\ results'[n] = r
  BY <1>1, <1>3, DomainOfASeq, AppendAny DEF IInv
<1>5. \A k \in DOMAIN results' : k \in DOMAIN results \/ k = n
  BY <1>1, <1>4
<1>6. Grows
  BY <1>2 DEF Grows
<1>7. at \in DOMAIN batches /\ BatchOK(batches[at].runs, batches[at].counts)
  BY <1>1, <1>2 DEF IInv, CommandOK, BatchesOK
<1>8. r.counted.variant.reached <= Cardinality(There(batches[at].runs))
  BY <1>3, <1>7, TriggerCounts DEF BatchOK
<1>9. r.verdict = "high_confidence_trigger" => MinReached <= r.counted.variant.reached
  BY <1>3, TriggerNeedsEnough
<1>10. VerdictOK(n)'
  BY <1>2, <1>3, <1>4, <1>7, <1>8, <1>9 DEF VerdictOK
<1>11. \A k \in DOMAIN results' : VerdictOK(k)'
  BY <1>4, <1>5, <1>6, <1>10, VerdictsStay
<1>12. \A d \in Commands : CommandOK(d)'
  BY <1>2, <1>6, IdleOK, OthersOK
<1>13. \A a \in DOMAIN analyses' : AnalysisOK(a)'
  BY <1>2, <1>6, AnalysesStay DEF IInv
<1>14. QED BY <1>2, <1>4, <1>11, <1>12, <1>13 DEF IInv, BatchesOK, ConfirmedIsShown

LEMMA StepInv ==
  ASSUME IInv, [Next]_suiteVars
  PROVE  IInv'
<1>1. ASSUME NEW c \in Commands, NEW n \in 1 .. MaxRepeat, StartRerun(c, n)
      PROVE  IInv'
  <2>1. CommandOK(c)'
    BY <1>1, StartRerunStep, FreshOK DEF IInv
  <2>2. QED BY <1>1, <2>1, StartRerunStep, NothingStored DEF IInv
<1>2. ASSUME NEW c \in Commands, NEW yes \in BOOLEAN, Prepare(c, yes)
      PROVE  IInv'
  <2>1. /\ Shape' /\ OthersStay(c)
        /\ \/ cmd'[c] = Idle
           \/ KeepsConfirming(c) /\ cmd'[c].pc \in {"spawned", "bare"}
        /\ UNCHANGED <<report, batches, analyses, shown, results>>
    BY <1>2, PrepareStep DEF IInv
  <2>2. CommandOK(c)'
    BY <2>1, IdleOK, RunsOn DEF IInv
  <2>3. QED BY <2>1, <2>2, NothingStored DEF IInv
<1>3. ASSUME NEW c \in Commands, RunnerLoads(c)
      PROVE  IInv'
  <2>1. /\ Shape' /\ OthersStay(c) /\ KeepsConfirming(c)
        /\ cmd'[c].pc \in {"captured", "plain"} /\ report' = NoReport
        /\ UNCHANGED <<batches, analyses, shown, results>>
    BY <1>3, RunnerLoadsStep DEF IInv
  <2>2. IsReport(report)'
    BY <2>1, NothingIsASeq DEF IsReport, NoReport
  <2>3. CommandOK(c)'
    BY <2>1, RunsOn DEF IInv
  <2>4. QED BY <2>1, <2>2, <2>3, NothingStored
<1>4. ASSUME NEW c \in Commands, RunnerCannotLoad(c)
      PROVE  IInv'
  <2>1. CommandOK(c)'
    BY <1>4, RunnerCannotLoadStep, RunsOn DEF IInv
  <2>2. QED BY <1>4, <2>1, RunnerCannotLoadStep, NothingStored DEF IInv
<1>5. ASSUME NEW c \in Commands, NEW what \in Happenings, NEW takes \in BOOLEAN, Repeat(c, what, takes)
      PROVE  IInv'
  <2>1. IsASeq(cmd[c].ran) /\ CommandOK(c)
    BY DEF IInv, CommandOK, Ran
  <2>2. /\ Shape' /\ OthersStay(c)
        /\ cmd'[c].config = cmd[c].config /\ cmd'[c].click = cmd[c].click
        /\ cmd'[c].pc \in {"captured", "plain"}
        /\ \E x : cmd'[c].ran = Append(cmd[c].ran, x) /\ ResultOK(x.result, Len(cmd[c].ran) + 1)
        /\ UNCHANGED <<report, batches, analyses, shown, results>>
    BY <1>5, <2>1, RepeatStep DEF IInv
  <2>3. Ran(cmd'[c].ran)
    <3>1. PICK x : cmd'[c].ran = Append(cmd[c].ran, x) /\ ResultOK(x.result, Len(cmd[c].ran) + 1)
      BY <2>2
    <3>2. QED BY <2>1, <3>1, RanGrows DEF CommandOK
  <2>4. CommandOK(c)'
    BY <2>1, <2>2, <2>3 DEF CommandOK
  <2>5. QED BY <2>2, <2>4, NothingStored DEF IInv
<1>6. ASSUME NEW c \in Commands, NEW yes \in BOOLEAN, RunnerEnds(c, yes)
      PROVE  IInv'
  <2>1. /\ Shape' /\ OthersStay(c) /\ KeepsConfirming(c) /\ cmd'[c].pc = "closed"
        /\ report' \in {report, [i \in DOMAIN cmd[c].ran |-> cmd[c].ran[i].result]}
        /\ UNCHANGED <<batches, analyses, shown, results>>
    BY <1>6, RunnerEndsStep DEF IInv
  <2>2. IsReport(report)'
    <3>1. Ran(cmd[c].ran)
      BY DEF IInv, CommandOK
    <3>2. IsReport([i \in DOMAIN cmd[c].ran |-> cmd[c].ran[i].result])
      BY <3>1, ReportOfRan
    <3>3. IsReport(report') 
      BY <2>1, <3>2 DEF IInv
    <3>4. QED BY <3>3
  <2>3. CommandOK(c)'
    BY <2>1, RunsOn DEF IInv
  <2>4. QED BY <2>1, <2>2, <2>3, NothingStored
<1>7. ASSUME NEW c \in Commands, Count(c)
      PROVE  IInv'
  <2>1. /\ Shape' /\ OthersStay(c)
        /\ UNCHANGED <<report, batches, analyses, shown, results>>
    BY <1>7, CountStep DEF IInv
  <2>2. CASE cmd'[c] = Idle
    BY <2>1, <2>2, IdleOK, NothingStored DEF IInv
  <2>3. CASE cmd'[c] # Idle
    <3> DEFINE line == checkLineOf(suite)
    <3>1. /\ KeepsConfirming(c) /\ cmd'[c].pc = "ingest"
          /\ cmd'[c].counts = classifyRuns(report, line)
          /\ cmd'[c].runs = [i \in DOMAIN classifyEachRun(report, line) |->
                               IngestedRun(c, classifyEachRun(report, line)[i])]
      BY <1>7, <2>3, CountStep DEF IInv
    <3>2. BatchOK(cmd'[c].runs, cmd'[c].counts)
      BY <3>1, CountedOK DEF IInv
    <3>3. CommandOK(c)
      BY DEF IInv
    <3>4. CommandOK(c)'
      BY <2>1, <3>1, <3>2, <3>3 DEF CommandOK, KeepsConfirming
    <3>5. QED BY <2>1, <3>4, NothingStored DEF IInv
  <2>4. QED BY <2>2, <2>3
<1>8. ASSUME NEW c \in Commands, NEW yes \in BOOLEAN, Ingest(c, yes)
      PROVE  IInv'
  BY <1>8, IngestInv
<1>9. ASSUME NEW c \in Commands, NEW b \in DOMAIN batches, StartAnalyze(c, b)
      PROVE  IInv'
  <2>1. /\ Shape' /\ OthersStay(c) /\ b \in DOMAIN batches
        /\ cmd'[c].pc = "asking" /\ cmd'[c].batch = b /\ cmd'[c].ran = <<>>
        /\ cmd'[c].click = Nothing /\ cmd'[c].config = Nothing
        /\ UNCHANGED <<report, batches, analyses, shown, results>>
    BY <1>9, StartAnalyzeStep DEF IInv
  <2>2. CommandOK(c)'
    BY <2>1, NothingIsASeq DEF CommandOK, Ran
  <2>3. QED BY <2>1, <2>2, NothingStored DEF IInv
<1>10. ASSUME NEW c \in Commands, NEW findings \in Answers, StoreAnalysis(c, findings)
       PROVE  IInv'
  BY <1>10, StoreAnalysisInv
<1>11. ASSUME NEW c \in Commands, NEW b \in DOMAIN batches, NEW click \in {Nothing} \cup shown,
              StartConfirm(c, b, click)
       PROVE  IInv'
  <2>1. CommandOK(c)'
    BY <1>11, StartConfirmStep, FreshOK DEF IInv
  <2>2. QED BY <1>11, <2>1, StartConfirmStep, NothingStored DEF IInv
<1>12. ASSUME NEW c \in Commands, BuildConfig(c)
       PROVE  IInv'
  <2>1. /\ Shape' /\ OthersStay(c)
        /\ \/ cmd'[c] = Idle /\ shown \subseteq shown'
           \/ /\ cmd[c].click # Nothing /\ cmd'[c].config = cmd[c].click /\ cmd'[c].click = cmd[c].click
              /\ cmd'[c].pc = "freeze" /\ cmd'[c].ran = cmd[c].ran /\ shown' = shown
        /\ UNCHANGED <<report, batches, analyses, results>>
    BY <1>12, BuildConfigStep DEF IInv
  <2>2. CommandOK(c)
    BY DEF IInv
  <2>3. CommandOK(c)'
    BY <2>1, <2>2, IdleOK DEF CommandOK
  <2>4. QED BY <2>1, <2>3, NothingStored DEF IInv
<1>13. ASSUME NEW c \in Commands, Freeze(c)
       PROVE  IInv'
  <2>1. CommandOK(c)'
    BY <1>13, FreezeStep, RunsOn DEF IInv
  <2>2. QED BY <1>13, <2>1, FreezeStep, NothingStored DEF IInv
<1>14. ASSUME NEW c \in Commands, NEW yes \in BOOLEAN, Decide(c, yes)
       PROVE  IInv'
  BY <1>14, DecideInv
<1>15. ASSUME NEW c \in Commands, Dies(c)
       PROVE  IInv'
  BY <1>15, DiesStep, IdleOK, NothingStored DEF IInv
<1>16. ASSUME Reauthor
       PROVE  IInv'
  BY <1>16, Unmoved DEF Reauthor
<1>17. ASSUME UNCHANGED suiteVars
       PROVE  IInv'
  BY <1>17, Unmoved DEF suiteVars
<1>18. QED
  BY <1>1, <1>2, <1>3, <1>4, <1>5, <1>6, <1>7, <1>8, <1>9, <1>10, <1>11, <1>12, <1>13, <1>14,
     <1>15, <1>16, <1>17 DEF Next

LEMMA InitInv == Init => IInv
<1> SUFFICES ASSUME Init PROVE IInv
  OBVIOUS
<1>1. Shape /\ \A c \in Commands : cmd[c] = Idle
  BY IdleFields DEF Init, Shape
<1>2. IsReport(report)
  BY NothingIsASeq DEF Init, NoReport, IsReport
<1>3. /\ batches = <<>> /\ analyses = <<>> /\ results = <<>>
      /\ DOMAIN <<>> = {}
  BY DEF Init
<1>4. \A c \in Commands : CommandOK(c)
  BY <1>1, IdleFields, NothingIsASeq DEF CommandOK, Ran
<1>5. QED
  BY <1>1, <1>2, <1>3, <1>4, NothingIsASeq DEF IInv, BatchesOK, ConfirmedIsShown

-----------------------------------------------------------------------------
(* The theorems                                                            *)

\* The invariant that the four properties are read off: every report is one
\* that the runner may have written, every batch was counted from one, and
\* what a command holds agrees with what is stored and was shown.
THEOREM InvariantHolds == Spec => []IInv
<1>1. IInv /\ [Next]_suiteVars => IInv'
  BY StepInv
<1>2. QED BY InitInv, <1>1, PTL DEF Spec

\* The two readings of one report agree, whatever the runner reported and
\* however its repeats ended (classifyRuns, classifyEachRun and the outcome rules).
THEOREM RatesAreTheirBatches == Spec => []RateIsTheBatch
<1>1. IInv => RateIsTheBatch
  BY DEF IInv, BatchesOK, BatchOK, RateOK, RateIsTheBatch
<1>2. QED BY <1>1, InvariantHolds, PTL

\* Nothing is confirmed that was not shown, whoever authors or analyses
\* meanwhile (confirm.ts).
THEOREM OnlyShownIsConfirmed == Spec => []ConfirmedIsShown
<1>1. IInv => ConfirmedIsShown
  BY DEF IInv
<1>2. QED BY <1>1, InvariantHolds, PTL

\* A trigger rests on enough runs in which its factor was there
\* (countConfirmation, decideConfirmation).
THEOREM TriggersWereThere == Spec => []TriggerWasThere
<1>1. IInv => TriggerWasThere
  BY DEF IInv, VerdictOK, There, TriggerWasThere
<1>2. QED BY <1>1, InvariantHolds, PTL

\* What is kept of an analysis rests on runs of its batch, whole where the
\* claim needs them to be (withholdByEvidence).
THEOREM FindingsRest == Spec => []FindingsRestOnEvidence
<1>1. IInv => FindingsRestOnEvidence
  BY DEF IInv, AnalysisOK, RestsOn, FindingsRestOnEvidence
<1>2. QED BY <1>1, InvariantHolds, PTL
=============================================================================
