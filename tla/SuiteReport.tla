---------------------------- MODULE SuiteReport ----------------------------
(***************************************************************************)
(* What is read out of the runs of an authored suite, as functions of the  *)
(* runner's report and of the evidence stored for it: the counts of a      *)
(* rerun (apps/cli/src/commands/rerun.ts, rerun-capture.ts), the failure   *)
(* a confirmation counts (packages/evidence/src/signature.ts), its arms    *)
(* and its verdict (packages/execution/src/suite-capture.ts,               *)
(* commands/confirm.ts, packages/evidence/src/statistics.ts), and which    *)
(* findings of an analysis stand (commands/analyze.ts).                    *)
(*                                                                         *)
(* The report is the runner's, which is external: one result for a repeat, *)
(* with its status, the line it failed on (0: none) and the repeat that    *)
(* its output folder is named after.                                       *)
(***************************************************************************)
EXTENDS EvidencePlane, AuthoredScript

NoFolder == -1  \* a result without attachments

Result(status, line, folder) == [status |-> status, line |-> line, folder |-> folder]

Where(seq, Test(_)) == {i \in DOMAIN seq : Test(seq[i])}

-----------------------------------------------------------------------------
(* rerun.ts, rerun-capture.ts                                              *)

\* The final check: the last statement of the script that is a call on the page.
checkLineOf(spec) == Max({0} \cup {i \in DOMAIN spec : spec[i].code[1].call # "sleep"})

AtCheck(result, checkLine) == result.line # 0 /\ result.line = checkLine

\* The counts a rerun reports.  A status that is not named counts as nothing.
classifyRuns(report, checkLine) ==
  LET failed  == Where(report, LAMBDA r : r.status \in {"failed", "timedOut"})
      atCheck == {i \in failed : AtCheck(report[i], checkLine)}
  IN [total         |-> Len(report),
      reachedCheck  |-> Cardinality(Where(report, LAMBDA r : r.status = "passed")) + Cardinality(atCheck),
      failedAtCheck |-> Cardinality(atCheck),
      stoppedEarly  |-> Cardinality(failed \ atCheck)]

\* The repeat a result was, counted from 0: its folder's, or else its place in the report.
repeatIndex(report, i) == IF report[i].folder = NoFolder THEN i - 1 ELSE report[i].folder

runKind(result, checkLine) ==
  CASE result.status = "passed"   -> "passed"
    [] result.status # "passed" /\ AtCheck(result, checkLine) -> "failed-at-check"
    [] result.status # "passed" /\ result.line = 0            -> "did-not-start"
    [] OTHER                      -> "stopped-early"

\* The place of run i in the order of their repeats; two of one repeat stay as reported.
placeOf(runs, i) ==
  Cardinality({j \in DOMAIN runs : \/ runs[j].repeat < runs[i].repeat
                                   \/ runs[j].repeat = runs[i].repeat /\ j <= i})

inOrder(runs) == [k \in DOMAIN runs |-> runs[CHOOSE i \in DOMAIN runs : placeOf(runs, i) = k]]

\* The runs a batch stores, in the order of their repeats.
classifyEachRun(report, checkLine) ==
  inOrder([i \in DOMAIN report |->
             [repeat |-> repeatIndex(report, i), kind |-> runKind(report[i], checkLine)]])

FinalCheck(result) == <<[result |-> result, isFailurePredicate |-> FALSE]>>

StoppedIsAFailure(kind) ==  \* mutant: a run that stopped early failed the check
  [infra      |-> kind = "did-not-start", automation |-> FALSE,
   assertions |-> CASE kind = "passed" -> FinalCheck("pass") [] kind = "did-not-start" -> <<>> [] OTHER -> FinalCheck("fail")]
\* What the evidence plane is told of a run, so that its own rules decide.
outcomeInputsFor(kind) ==
  [infra      |-> kind = "did-not-start",
   automation |-> kind = "stopped-early",
   assertions |-> CASE kind = "passed"          -> FinalCheck("pass")
                    [] kind = "failed-at-check" -> FinalCheck("fail")
                    [] OTHER                    -> <<>>]

AUTHORED_REQUIRED_EVIDENCE == {"navigation", "console", "exceptions", "networkMetadata"}

\* What the plane makes of a repeat: its log, or none, and the notes that go with that.
PlaneOf(kind, log) ==
  LET told     == outcomeInputsFor(kind)
      unheard  == IF log # <<>> THEN <<>>
                  ELSE <<"actions", "navigation", "console", "exceptions", "networkMetadata", "storage">>
      notes    == <<NoteEvent("video", "NO_RECORDING_PRODUCED", 1)>>
                  \o [k \in DOMAIN unheard |-> NoteEvent(unheard[k], "COLLECTOR_UNSUPPORTED", 1)]
  IN runPlane(log, notes, told.infra, told.automation, told.assertions, AUTHORED_REQUIRED_EVIDENCE)

-----------------------------------------------------------------------------
(* suite-capture.ts                                                        *)

\* One variant and one control in each block; first says which comes first.
buildConfirmationSchedule(perArm, first) ==
  [k \in 1 .. 2 * perArm |->
     IF (k % 2 = 1) = first[(k + 1) \div 2] THEN "variant" ELSE "control"]

\* What a repeat records of its arm; the factor is applied before the first step, if it takes.
ArmRecord(schedule, repeat, takes) ==
  IF repeat + 1 \notin DOMAIN schedule THEN [arm |-> "control", factorApplied |-> FALSE]
  ELSE [arm |-> schedule[repeat + 1], factorApplied |-> schedule[repeat + 1] = "variant" /\ takes]

-----------------------------------------------------------------------------
(* signature.ts: console and exception fingerprints are one set.           *)

Failures(runs) == Where(runs, LAMBDA r : r.outcome = "PRODUCT_FAILED")
Passes(runs)   == Where(runs, LAMBDA r : r.outcome = "VALID_COMPLETED")

\* What every failure at the check shows and no passing run does.
deriveTargetSignature(runs) ==
  IF Failures(runs) = {} THEN {}
  ELSE {p \in UNION {runs[i].prints : i \in Failures(runs)} :
          /\ \A i \in Failures(runs) : p \in runs[i].prints
          /\ \A i \in Passes(runs) : p \notin runs[i].prints}

countRun(signature, run) ==
  CASE run.outcome = "PRODUCT_FAILED" /\ signature \subseteq run.prints -> "matched"
    [] run.outcome = "PRODUCT_FAILED" /\ ~(signature \subseteq run.prints) -> "other-failure"
    [] run.outcome = "VALID_COMPLETED" -> "passed"
    [] OTHER -> "excluded"

-----------------------------------------------------------------------------
(* confirm.ts, statistics.ts                                               *)

ArmCounts(signature, runs, arm) ==
  LET Is(what) == Where(runs, LAMBDA r : /\ r.arm.arm = arm
                                         /\ countRun(signature, r) \in what
                                         /\ arm = "variant" => r.arm.factorApplied \/ what = {"excluded"})
  IN [matched       |-> Cardinality(Is({"matched"})),
      reached       |-> Cardinality(Is({"matched", "other-failure", "passed"})),
      otherFailures |-> Cardinality(Is({"other-failure"})),
      excluded      |-> Cardinality(Is({"excluded"}))]

EveryVariantCounts(signature, runs) ==  \* mutant: whether the factor took is not looked at
  LET taken == [i \in DOMAIN runs |-> [runs[i] EXCEPT !.arm.factorApplied = TRUE]]
  IN [variant |-> ArmCounts(signature, taken, "variant"), control |-> ArmCounts(signature, runs, "control"),
      factorNotApplied |-> 0]
\* A variant that reached the check without its factor counts in neither arm.
countConfirmation(signature, runs) ==
  [variant |-> ArmCounts(signature, runs, "variant"),
   control |-> ArmCounts(signature, runs, "control"),
   factorNotApplied |->
     Cardinality(Where(runs, LAMBDA r : /\ r.arm.arm = "variant" /\ ~r.arm.factorApplied
                                        /\ countRun(signature, r) # "excluded"))]

\* The verdicts the code may come to; apart stands for its intervals and its test.
decideConfirmation(counted, minReached, apart) ==
  IF /\ counted.variant.reached >= minReached /\ counted.control.reached >= minReached
     /\ counted.variant.matched * counted.control.reached > counted.control.matched * counted.variant.reached
     /\ apart
  THEN "high_confidence_trigger" ELSE "not_confirmed"

-----------------------------------------------------------------------------
(* analyze.ts                                                              *)

\* A finding rests on the runs it cites, directly or as a side of a comparison.
InEvidence(findings, runs) == \A f \in findings : f.cites \subseteq runs

KeepAll(findings, quality) == [kept |-> findings, withheld |-> {}]  \* mutant
withholdByEvidence(findings, quality) ==
  LET resting == {f \in findings : f.claim \in DOMAIN CLAIM_EVIDENCE_REQUIREMENTS
                                     /\ incompleteEvidenceFor(quality, f.claim, f.cites) # {}}
  IN [kept |-> findings \ resting, withheld |-> resting]
=============================================================================
