--------------------------- MODULE EvidencePlane ---------------------------
(***************************************************************************)
(* The evidence plane (packages/evidence/src: plane.ts, timeline.ts,       *)
(* capture-status.ts, outcome.ts, evidence-quality.ts): what is made of a  *)
(* raw log, as a function of the log.  An event's place in the log is its  *)
(* seq.                                                                    *)
(***************************************************************************)
EXTENDS Naturals, Sequences, FiniteSets, SequencesExt

Category ==
  {"actions", "navigation", "console", "exceptions", "networkMetadata", "responseBodies",
   "domSnapshots", "storage", "video", "trace", "webSocketFrames"}

Code ==
  {"SIZE_LIMIT", "CONTENT_TYPE_NOT_CAPTURED", "POLICY_REDACTED", "CONFIG_OFF", "COLLECTOR_UNSUPPORTED",
   "RUN_INTERRUPTED", "DROPPED_BACKPRESSURE", "TARGET_DETACHED",
   "PERSISTED_UNREDACTED", "NO_RECORDING_PRODUCED", "PERSIST_FAILED"}

\* An event: of is the action or the request it belongs to, and during the
\* action that was executed when it came about, 0 for none (no part of the log).
Event(cat, what, of, during) ==
  [cat |-> cat, what |-> what, of |-> of, during |-> during, note |-> FALSE, artifact |-> FALSE]

\* A note of the collector: of is its count.
NoteEvent(cat, code, count) == [Event(cat, code, count, 0) EXCEPT !.note = TRUE]

Notes(log) == {i \in DOMAIN log : log[i].note}
Evidence(log) == DOMAIN log \ Notes(log)
OfCategory(log, cat) == {i \in Evidence(log) : log[i].cat = cat}
Starts(log) == {i \in OfCategory(log, "actions") : log[i].what = "start"}
Ends(log)   == OfCategory(log, "actions") \ Starts(log)

-----------------------------------------------------------------------------
(* timeline.ts                                                             *)

\* An action that never ended stays open to the end of the log.
buildActionWindows(log) ==
  {[action |-> log[s].of, start |-> s,
    end |-> Min({Len(log)} \cup {e \in Ends(log) : log[e].of = log[s].of})] : s \in Starts(log)}

\* 0: before, between or after the actions.
attribute(log, i) ==
  LET around == {w \in buildActionWindows(log) : w.start <= i /\ i <= w.end}
  IN IF around = {} THEN 0 ELSE (CHOOSE w \in around : TRUE).action

RequestOf(log, i) ==
  {r \in OfCategory(log, "networkMetadata") : log[r].what = "request" /\ log[r].of = log[i].of /\ r <= i}

WhereItEnds(log) == [i \in Evidence(log) |-> attribute(log, i)]  \* mutant: by the event's own place
\* Whatever comes of a request belongs to the action the request started in.
buildTimeline(log) ==
  [i \in Evidence(log) |->
     IF log[i].cat = "networkMetadata" /\ RequestOf(log, i) # {}
     THEN attribute(log, CHOOSE r \in RequestOf(log, i) : TRUE)
     ELSE attribute(log, i)]

-----------------------------------------------------------------------------
(* capture-status.ts, and the counts plane.ts feeds it.                    *)

CountIn(log, cat, code) ==
  LET at == {i \in Notes(log) : log[i].cat = cat /\ log[i].what = code}
  IN IF at = {} THEN 0 ELSE log[CHOOSE i \in at : TRUE].of

\* Notes handed over in memory count only when the log does not have them.
EveryNote(log, memory, cat, code) ==  \* mutant: whatever the log has
  CountIn(memory, cat, code)
FromMemory(log, memory, cat, code) ==
  IF CountIn(log, cat, code) = 0 THEN CountIn(memory, cat, code) ELSE 0

Noted(log, memory, cat, code) == CountIn(log, cat, code) + FromMemory(log, memory, cat, code)

\* Beside the notes: every skipped body by its own event, and the actions without an end.
ReasonCount(log, memory, cat, code) ==
  Noted(log, memory, cat, code)
  + Cardinality({i \in OfCategory(log, "responseBodies") : cat = "responseBodies" /\ log[i].what = code})
  + (IF <<cat, code>> = <<"actions", "RUN_INTERRUPTED">> /\ Cardinality(Ends(log)) < Cardinality(Starts(log))
     THEN Cardinality(Starts(log)) - Cardinality(Ends(log)) ELSE 0)

Collected(log, memory, cat) ==
  Cardinality(OfCategory(log, cat)) + Noted(log, memory, cat, "PERSISTED_UNREDACTED")

Expected(log, cat) ==
  CASE cat = "actions"        -> 2 * Cardinality(Starts(log))
    [] cat = "responseBodies" -> Cardinality(OfCategory(log, cat))
    [] OTHER                  -> 0

LossCodes ==
  {"RUN_INTERRUPTED", "SIZE_LIMIT", "CONTENT_TYPE_NOT_CAPTURED", "DROPPED_BACKPRESSURE", "TARGET_DETACHED"}

LossIsNoGap(codes, collected, expected) ==  \* mutant: what was dropped is not looked at
  IF "COLLECTOR_UNSUPPORTED" \in codes THEN "unsupported"
  ELSE IF "CONFIG_OFF" \in codes THEN "disabled"
  ELSE IF "POLICY_REDACTED" \in codes THEN "redacted"
  ELSE IF collected >= expected THEN "complete"
  ELSE IF collected > 0 THEN "partial" ELSE "missing"
\* In this order; a code that is not named leaves the category complete.
deriveStatus(codes, collected, expected) ==
  IF "COLLECTOR_UNSUPPORTED" \in codes THEN "unsupported"
  ELSE IF "CONFIG_OFF" \in codes THEN "disabled"
  ELSE IF "POLICY_REDACTED" \in codes THEN "redacted"
  ELSE IF codes \cap LossCodes = {} /\ collected >= expected THEN "complete"
  ELSE IF collected > 0 THEN "partial" ELSE "missing"

buildCaptureStatus(log, memory) ==
  [cat \in Category |->
     LET said    == {log[i].what : i \in OfCategory(log, cat) \cup Notes(log)} \cup {memory[k].what : k \in DOMAIN memory}
         reasons == [code \in {c \in Code \cap (said \cup {"RUN_INTERRUPTED"}) : ReasonCount(log, memory, cat, c) > 0} |->
                       ReasonCount(log, memory, cat, code)]
     IN [status  |-> deriveStatus(DOMAIN reasons, Collected(log, memory, cat), Expected(log, cat)),
         reasons |-> reasons]]

requiredEvidenceUsable(capture, required) == \A cat \in required : capture[cat].status # "missing"

-----------------------------------------------------------------------------
(* outcome.ts                                                              *)

Failing(results) ==
  \E i \in DOMAIN results :
    \/ results[i].result = "fail"
    \/ results[i].isFailurePredicate /\ results[i].result = "pass"

\* The first rule that matches; interruption, rule 1, is the reaper's (RunCommand).
decideOutcome(infra, automation, results, usable) ==
  IF infra THEN "INFRASTRUCTURE_FAILED"
  ELSE IF automation THEN "AUTOMATION_FAILED"
  ELSE IF Failing(results) THEN "PRODUCT_FAILED"
  ELSE IF usable /\ \E i \in DOMAIN results : results[i].result # "not-evaluated" THEN "VALID_COMPLETED"
  ELSE "INCONCLUSIVE"

runPlane(log, memory, infra, automation, results, required) ==
  LET capture == buildCaptureStatus(log, memory) IN
  [capture   |-> capture,
   actions   |-> buildTimeline(log),
   artifacts |-> {i \in DOMAIN log : log[i].artifact},
   outcome   |-> decideOutcome(infra, automation, results, requiredEvidenceUsable(capture, required))]

-----------------------------------------------------------------------------
(* evidence-quality.ts: what a claim about runs may rest on.               *)

CLAIM_EVIDENCE_REQUIREMENTS ==
  [network   |-> {"networkMetadata"}, console    |-> {"console"},    exception |-> {"exceptions"},
   dom       |-> {"domSnapshots"},    storage    |-> {"storage"},    navigation |-> {"navigation"},
   timing    |-> {"networkMetadata", "navigation"}]

\* statuses has the runs that were captured; any other is missing everything.
incompleteEvidenceFor(statuses, claim, runs) ==
  {gap \in runs \X CLAIM_EVIDENCE_REQUIREMENTS[claim] :
     gap[1] \notin DOMAIN statuses \/ statuses[gap[1]][gap[2]] # "complete"}
=============================================================================
