----------------------------- MODULE SuiteRuns -----------------------------
(***************************************************************************)
(* The commands on an authored suite: `rerun' runs it and stores a batch   *)
(* (apps/cli/src/commands/rerun.ts, rerun-capture.ts), `analyze' reads a   *)
(* batch (commands/analyze.ts), `confirm' shows an experiment and, given   *)
(* the checksum of what was shown, runs it (commands/confirm.ts).          *)
(*                                                                         *)
(* A stretch of a command without an await is one step.  Meanwhile another *)
(* process may author the suite anew.  The runner is external: it clears   *)
(* the folder of its report once it has loaded the suite, may fail to load *)
(* it, and may die before it writes its report.                            *)
(***************************************************************************)
EXTENDS SuiteReport, TLC

CONSTANTS
  Commands,     \* processes
  Suites,       \* the specs the suite folder holds, one after another, as renderAuthoredSpec makes them
  Happenings,   \* what may come of a repeat: a status, where it stopped, and its log
  Answers,      \* what the model may find in a batch of n runs
  Order(_, _),  \* the blocks the seed of an analysis puts the variant first in
  PerArm,       \* repeats in an arm
  MinReached,   \* statistics.minReachedPerArm
  MaxRepeat,    \* bound: repeats of a plain rerun
  MaxCommands   \* bound: commands started

ASSUME SuiteRunsAssumption ==
  /\ {PerArm, MinReached, MaxRepeat, MaxCommands} \subseteq Nat
  /\ MinReached > 0 /\ PerArm > 0

\* A place comes with an error, and a repeat that was neither passed, failed nor
\* timed out has none: one that was skipped did not run, and one that was
\* interrupted leaves no report that a command is still there to read.
ASSUME HappeningsAssumption ==
  \A what \in Happenings :
    /\ what.where \in {"check", "early", "none"}
    /\ what.where # "none" => what.status \in {"passed", "failed", "timedOut"}

VARIABLES
  suite,    \* what the suite folder holds
  report,   \* last-run.report.json
  batches,  \* the stored batches
  analyses, \* the stored analyses
  shown,    \* the experiments an operator was shown (history)
  results,  \* the stored confirmation results
  cmd,      \* cmd[c]: program counter and local variables
  started   \* how many commands were started

suiteVars == <<suite, report, batches, analyses, shown, results, cmd, started>>

NoReport == <<>>
Nothing  == [none |-> TRUE]

Idle == [pc |-> "off", batch |-> 0, analysis |-> 0, click |-> Nothing, config |-> Nothing,
         schedule |-> <<>>, copy |-> Nothing, repeats |-> 0, ran |-> <<>>,
         counts |-> Nothing, runs |-> <<>>, checksum |-> Nothing]

Init ==
  /\ suite = Suites[1]
  /\ report = NoReport
  /\ batches = <<>> /\ analyses = <<>> /\ shown = {} /\ results = <<>>
  /\ cmd = [c \in Commands |-> Idle]
  /\ started = 0

Start(c, state) ==
  /\ cmd[c].pc = "off" /\ started < MaxCommands
  /\ started' = started + 1
  /\ cmd' = [cmd EXCEPT ![c] = state]

Leaves(c) == cmd' = [cmd EXCEPT ![c] = Idle]

-----------------------------------------------------------------------------
(* rerun.ts                                                                *)

StartRerun(c, n) ==
  /\ Start(c, [Idle EXCEPT !.pc = "prepare", !.repeats = n])
  /\ UNCHANGED <<suite, report, batches, analyses, shown, results>>

\* prepareSuiteCapture copies the tests, and removes what an earlier run left.
\* Without it a suite runs as it is, but not a confirmation, which needs it to
\* apply its factor.
Prepare(c, supported) ==
  /\ cmd[c].pc = "prepare"
  /\ IF ~supported /\ cmd[c].config # Nothing THEN Leaves(c)
     ELSE cmd' = [cmd EXCEPT ![c].pc = IF supported THEN "spawned" ELSE "bare", ![c].copy = suite]
  /\ UNCHANGED <<suite, report, batches, analyses, shown, results, started>>

RunnerLoads(c) ==
  /\ cmd[c].pc \in {"spawned", "bare"}
  /\ report' = NoReport
  /\ cmd' = [cmd EXCEPT ![c].pc = IF @ = "spawned" THEN "captured" ELSE "plain"]
  /\ UNCHANGED <<suite, batches, analyses, shown, results, started>>

RunnerCannotLoad(c) ==
  /\ cmd[c].pc \in {"spawned", "bare"}
  /\ cmd' = [cmd EXCEPT ![c].pc = "closed"]
  /\ UNCHANGED <<suite, report, batches, analyses, shown, results, started>>

\* The line a repeat of the copy stopped at.
LineOf(where, copy) ==
  CASE where = "check" -> checkLineOf(copy) [] where = "early" -> 1 [] where = "none" -> 0

\* One more repeat, through the fixture or without it.  The fixture records the
\* arm before the first step, and the log when the test is over.
Repeat(c, what, takes) ==
  LET k == Len(cmd[c].ran) IN
  /\ cmd[c].pc \in {"captured", "plain"} /\ k < cmd[c].repeats
  /\ takes => cmd[c].config # Nothing
  /\ LET log    == IF cmd[c].pc = "captured" THEN what.log ELSE <<>>
         result == Result(what.status, LineOf(what.where, cmd[c].copy), IF what.where = "none" /\ what.status # "passed" THEN NoFolder ELSE k)
         began  == cmd[c].pc = "captured" /\ result.folder # NoFolder
         arm    == IF cmd[c].config # Nothing /\ began THEN {ArmRecord(cmd[c].schedule, k, takes)} ELSE {}
     IN cmd' = [cmd EXCEPT ![c].ran = Append(@, [result |-> result, log |-> log, arm |-> arm])]
  /\ UNCHANGED <<suite, report, batches, analyses, shown, results, started>>

\* The runner closes, with its report or, when it was killed, without.
RunnerEnds(c, written) ==
  /\ cmd[c].pc \in {"captured", "plain"}
  /\ written => Len(cmd[c].ran) = cmd[c].repeats
  /\ report' = IF written THEN [i \in DOMAIN cmd[c].ran |-> cmd[c].ran[i].result] ELSE report
  /\ cmd' = [cmd EXCEPT ![c].pc = "closed"]
  /\ UNCHANGED <<suite, batches, analyses, shown, results, started>>

\* What the runner of c staged for a repeat.
Staged(c, repeat) ==
  IF repeat + 1 \in DOMAIN cmd[c].ran THEN cmd[c].ran[repeat + 1] ELSE [log |-> <<>>, arm |-> {}]

\* The arm of a repeat: as recorded, or as scheduled and then without the factor.
armOf(c, repeat) ==
  LET said == Staged(c, repeat).arm IN
  CASE said # {} -> CHOOSE a \in said : TRUE
    [] said = {} /\ repeat + 1 \in DOMAIN cmd[c].schedule ->
         [arm |-> cmd[c].schedule[repeat + 1], factorApplied |-> FALSE]
    [] OTHER -> [arm |-> "none", factorApplied |-> FALSE]

\* The fingerprints of a run are those of its console events and exceptions.
prints(log) == {log[i].what : i \in OfCategory(log, "console") \cup OfCategory(log, "exceptions")}

\* A run as the batch stores it; with says whether the factor was there (history).
IngestedRun(c, run) ==
  LET staged == Staged(c, run.repeat)
      plane  == PlaneOf(run.kind, staged.log)
  IN [repeat  |-> run.repeat, kind |-> run.kind, outcome |-> plane.outcome, prints |-> prints(staged.log),
      status  |-> [cat \in Category |-> plane.capture[cat].status], arm |-> armOf(c, run.repeat),
      with    |-> \E a \in staged.arm : a.factorApplied]

\* The report is read and counted, and the folder hashed, once the runner has
\* closed; both with what the suite folder holds then.
Count(c) ==
  /\ cmd[c].pc = "closed"
  /\ IF report = NoReport THEN Leaves(c)
     ELSE LET line == checkLineOf(suite)
              each == classifyEachRun(report, line)
          IN cmd' = [cmd EXCEPT ![c].pc = "ingest", ![c].counts = classifyRuns(report, line), ![c].checksum = suite,
                                ![c].runs = [i \in DOMAIN each |-> IngestedRun(c, each[i])]]
  /\ UNCHANGED <<suite, report, batches, analyses, shown, results, started>>

\* ingestRerunBatch: the batch is there when its record is.  Evidence that
\* cannot be stored does not fail a rerun, but a confirmation has nothing to count.
Ingest(c, stored) ==
  /\ cmd[c].pc = "ingest"
  /\ batches' = IF stored
                THEN Append(batches, [runs |-> cmd[c].runs, counts |-> cmd[c].counts, suite |-> cmd[c].checksum,
                                      config |-> cmd[c].config])
                ELSE batches
  /\ IF stored /\ cmd[c].config # Nothing
     THEN cmd' = [cmd EXCEPT ![c].pc = "decide", ![c].batch = Len(batches')]
     ELSE Leaves(c)
  /\ UNCHANGED <<suite, report, analyses, shown, results, started>>

-----------------------------------------------------------------------------
(* analyze.ts                                                              *)

\* A named batch; without a name it is the latest.
StartAnalyze(c, b) ==
  /\ b \in DOMAIN batches
  /\ Start(c, [Idle EXCEPT !.pc = "asking", !.batch = b])
  /\ UNCHANGED <<suite, report, batches, analyses, shown, results>>

RunIds(b) == {batches[b].runs[i].repeat : i \in DOMAIN batches[b].runs}

qualityOf(b) == [r \in RunIds(b) |-> (CHOOSE run \in {batches[b].runs[i] : i \in DOMAIN batches[b].runs} : run.repeat = r).status]

\* One citation of a run that was not in evidence refuses the whole answer.
StoreAnalysis(c, findings) ==
  /\ cmd[c].pc = "asking"
  /\ analyses' = IF InEvidence(findings, RunIds(cmd[c].batch))
                 THEN Append(analyses, [batch |-> cmd[c].batch,
                                        kept  |-> withholdByEvidence(findings, qualityOf(cmd[c].batch)).kept])
                 ELSE analyses
  /\ Leaves(c)
  /\ UNCHANGED <<suite, report, batches, shown, results, started>>

-----------------------------------------------------------------------------
(* confirm.ts                                                              *)

\* The latest analysis of a batch.
latestBatchAnalysis(b) == Max({0} \cup {a \in DOMAIN analyses : analyses[a].batch = b})

\* confirm, with what the click carries: nothing, or the checksum of an experiment.
StartConfirm(c, b, click) ==
  /\ latestBatchAnalysis(b) # 0
  /\ Start(c, [Idle EXCEPT !.pc = "config", !.batch = b, !.analysis = latestBatchAnalysis(b), !.click = click])
  /\ UNCHANGED <<suite, report, batches, analyses, shown, results>>

buildConfirmationConfig(b, a) ==
  [batch |-> b, analysis |-> a, suite |-> suite, signature |-> deriveTargetSignature(batches[b].runs)]

\* Shown, or refused when it is not what was shown, or frozen.
AsTheyAre(click, config) == TRUE  \* mutant: the checksum is not compared
IsAsShown(click, config) == click = config

BuildConfig(c) ==
  /\ cmd[c].pc = "config"
  /\ LET config == buildConfirmationConfig(cmd[c].batch, cmd[c].analysis) IN
     CASE cmd[c].click = Nothing -> Leaves(c) /\ shown' = shown \cup {config}
       [] cmd[c].click # Nothing /\ ~IsAsShown(cmd[c].click, config) -> Leaves(c) /\ UNCHANGED shown
       [] OTHER -> /\ cmd' = [cmd EXCEPT ![c].pc = "freeze", ![c].config = config]
                   /\ UNCHANGED shown
  /\ UNCHANGED <<suite, report, batches, analyses, results, started>>

\* The config is an artifact, and the rerun it stands for starts.
Freeze(c) ==
  /\ cmd[c].pc = "freeze"
  /\ cmd' = [cmd EXCEPT ![c].pc = "prepare", ![c].repeats = 2 * PerArm,
                        ![c].schedule = buildConfirmationSchedule(PerArm, [k \in 1 .. PerArm |-> Order(cmd[c].analysis, k)])]
  /\ UNCHANGED <<suite, report, batches, analyses, shown, results, started>>

Decide(c, apart) ==
  /\ cmd[c].pc = "decide"
  /\ LET counted == countConfirmation(cmd[c].config.signature, batches[cmd[c].batch].runs) IN
     results' = Append(results, [batch |-> cmd[c].batch, counted |-> counted,
                                 verdict |-> decideConfirmation(counted, MinReached, apart)])
  /\ Leaves(c)
  /\ UNCHANGED <<suite, report, batches, analyses, shown, started>>

-----------------------------------------------------------------------------

\* emitSuite of an authoring command elsewhere (Authoring).
Reauthor ==
  /\ \E k \in 2 .. Len(Suites) : suite = Suites[k - 1] /\ suite' = Suites[k]
  /\ UNCHANGED <<report, batches, analyses, shown, results, cmd, started>>

\* Any command may die at any moment; what it stored stays.
Dies(c) ==
  /\ cmd[c].pc # "off"
  /\ Leaves(c)
  /\ UNCHANGED <<suite, report, batches, analyses, shown, results, started>>

Next ==
  \/ \E c \in Commands :
       \/ \E n \in 1 .. MaxRepeat : StartRerun(c, n)
       \/ \E yes \in BOOLEAN : Prepare(c, yes) \/ RunnerEnds(c, yes) \/ Ingest(c, yes) \/ Decide(c, yes)
       \/ RunnerLoads(c) \/ RunnerCannotLoad(c) \/ Count(c)
       \/ \E what \in Happenings, takes \in BOOLEAN : Repeat(c, what, takes)
       \/ \E b \in DOMAIN batches : StartAnalyze(c, b)
       \/ \E findings \in Answers : StoreAnalysis(c, findings)
       \/ \E b \in DOMAIN batches, click \in {Nothing} \cup shown : StartConfirm(c, b, click)
       \/ BuildConfig(c) \/ Freeze(c) \/ Dies(c)
  \/ Reauthor

Spec == Init /\ [][Next]_suiteVars

-----------------------------------------------------------------------------

\* The two readings of one report agree: the failures a rerun tells of are the
\* runs its batch stores as failures of the product, and a run that never got
\* to the final check is neither that nor a pass, whatever its evidence
\* (classifyRuns against classifyEachRun and the outcome rules).
RateIsTheBatch ==
  \A b \in DOMAIN batches :
    LET runs == batches[b].runs IN
    /\ Cardinality(Failures(runs)) = batches[b].counts.failedAtCheck
    /\ Cardinality(Passes(runs)) <= batches[b].counts.reachedCheck - batches[b].counts.failedAtCheck
    /\ \A i, j \in DOMAIN runs : runs[i].repeat = runs[j].repeat => i = j

\* What a confirmation runs was shown to an operator, to the last byte, though
\* the suite may be authored anew and the batch analysed again between the card
\* and the click (confirm.ts, the comparison of checksums).
ConfirmedIsShown ==
  \A b \in DOMAIN batches : batches[b].config # Nothing => batches[b].config \in shown

\* A trigger is confirmed by enough runs, and the runs of the variant that are
\* counted for it are runs in which the factor was there, and which failed the
\* check or passed it -- though the factor may not take, a repeat may die, and
\* the only report to read may be that of an earlier run (countConfirmation).
TriggerWasThere ==
  \A r \in DOMAIN results :
    results[r].verdict = "high_confidence_trigger" =>
      LET runs  == batches[results[r].batch].runs
          there == Where(runs, LAMBDA run : run.with /\ run.kind \in {"passed", "failed-at-check"})
      IN MinReached <= results[r].counted.variant.reached /\ results[r].counted.variant.reached <= Cardinality(there)

\* A finding that is kept cites runs of its batch only, and the evidence its
\* claim needs was complete in every one of them.
FindingsRestOnEvidence ==
  \A a \in DOMAIN analyses : \A f \in analyses[a].kept :
    /\ f.cites \subseteq RunIds(analyses[a].batch)
    /\ f.claim \in DOMAIN CLAIM_EVIDENCE_REQUIREMENTS =>
         \A i \in DOMAIN batches[analyses[a].batch].runs :
           LET run == batches[analyses[a].batch].runs[i] IN
           run.repeat \in f.cites => \A cat \in CLAIM_EVIDENCE_REQUIREMENTS[f.claim] : run.status[cat] = "complete"
=============================================================================
