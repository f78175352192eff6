---------------------------- MODULE MeasuredRun ----------------------------
(***************************************************************************)
(* One execution of an approved experiment: the checks on what it would do *)
(* (packages/execution/src: destructive-classifier.ts), the interpreter    *)
(* that carries out its actions (action-interpreter.ts), the collector     *)
(* that the page's callbacks feed meanwhile (collector.ts), and the worker *)
(* around them (worker.ts).  RunCommand holds the claim, the retry and the *)
(* settling of the job.                                                    *)
(*                                                                         *)
(* What Playwright does is external: an action succeeds, times out or      *)
(* fails, and once its page is closed nothing on the page succeeds.        *)
(***************************************************************************)
EXTENDS EvidencePlane, AuthoredScript

CONSTANTS
  Flows,          \* the experiments approved elsewhere
  MaxEvents,      \* the collector's ceiling of buffered events
  Traffic,        \* bound: requests and events of the page
  Noise,          \* the categories of the page's own events
  CaptureBodies,  \* capture.responseBodies
  SnapshotOn,     \* capture.domSnapshotOn
  Video,          \* execution.video is "on"
  Classification, \* of the target
  BlockDestructive, \* safety.blockDestructiveActions
  Destructive, Writing \* texts the patterns match

ASSUME RunAssumption ==
  /\ {MaxEvents, Traffic} \subseteq Nat
  /\ {CaptureBodies, Video, BlockDestructive} \subseteq BOOLEAN
  /\ Noise \subseteq {"console", "exceptions", "navigation"}
  /\ SnapshotOn \subseteq {"action", "failure"}
  /\ Classification \in {"fixture", "test", "staging"}

ASSUME FlowsAssumption ==
  \A e \in Flows : e.actions \in Seq(Range(e.actions)) /\ e.assertions \in Seq(Range(e.assertions))

VARIABLES
  flow,   \* the experiment that is run
  int,    \* the interpreter and the worker around it
  col,    \* the collector
  raw,    \* the persisted raw log
  sealed  \* what is sealed of the run

runVars == <<flow, int, col, raw, sealed>>

-----------------------------------------------------------------------------
(* destructive-classifier.ts                                               *)

CanActivate == {"click", "dblclick", "press", "check", "goto"}

\* What a reader would take for the label of the control.
actionText(a) ==
  {a.selector.value} \cup (IF "name" \in DOMAIN a.selector.opts THEN {a.selector.opts.name} ELSE {})
                     \cup (IF a.type = "goto" THEN {a.value.text} ELSE {})
                     \cup a.description

\* What an action does by its kind alone.
ACTION_BASE_SIDE_EFFECT(type) ==
  IF type \in {"fill", "select", "check", "uncheck", "setStorage", "clearStorage"} THEN "local-write" ELSE "read"

classifyAction(a) ==
  IF a.type \in CanActivate /\ actionText(a) \cap Destructive # {} THEN "destructive"
  ELSE IF a.type \in {"click", "dblclick"} /\ actionText(a) \cap Writing # {} THEN "remote-write"
  ELSE ACTION_BASE_SIDE_EFFECT(a.type)

classifyExperiment(actions) == [i \in DOMAIN actions |-> classifyAction(actions[i])]
destructiveActions(actions) == {i \in DOMAIN actions : classifyExperiment(actions)[i] = "destructive"}
writes(actions) == \E i \in DOMAIN actions : classifyExperiment(actions)[i] \in {"destructive", "remote-write"}

\* Before anything is queued.
assertSafeToEnqueue(e) ==
  \/ Classification = "fixture"
  \/ ~BlockDestructive
  \/ /\ destructiveActions(e.actions) = {} \/ Classification # "staging"
     /\ destructiveActions(e.actions) \subseteq e.acknowledged
     /\ writes(e.actions) => e.reset \notin {"none", "fresh-context", "idempotent-only"}

\* And in the worker again, which is not handed the acknowledgements.
shouldBlockDestructiveExecution(e) ==
  BlockDestructive /\ destructiveActions(e.actions) # {} /\ Classification # "fixture"

-----------------------------------------------------------------------------
(* collector.ts                                                            *)

\* notes: as they will be flushed; requests: the action during which each
\* request that is not over began.
Silent ==
  [events |-> <<>>, dropped |-> 0, notes |-> <<>>, requests |-> <<>>, awaited |-> {}, seen |-> 0,
   detached |-> FALSE, flushed |-> FALSE]

push(c, e) ==
  IF Len(c.events) >= MaxEvents THEN [c EXCEPT !.dropped = @ + 1] ELSE [c EXCEPT !.events = Append(@, e)]

\* Several events one after another: as many as there is room for.
pushAll(c, es) ==
  LET kept == IF Len(c.events) + Len(es) <= MaxEvents THEN Len(es)
              ELSE IF Len(c.events) <= MaxEvents THEN MaxEvents - Len(c.events) ELSE 0
  IN [c EXCEPT !.events = @ \o SubSeq(es, 1, kept), !.dropped = @ + (Len(es) - kept)]

\* One note for a category and code, with a count.
note(c, cat, code, n) ==
  LET this(k) == c.notes[k].cat = cat /\ c.notes[k].what = code
  IN [c EXCEPT !.notes =
        IF \E k \in DOMAIN c.notes : this(k)
        THEN [k \in DOMAIN c.notes |->
                IF this(k) THEN NoteEvent(cat, code, c.notes[k].of + n) ELSE c.notes[k]]
        ELSE Append(c.notes, NoteEvent(cat, code, n))]

\* An id that came after its event is bound to it; a dropped event has nothing to bind to.
attachArtifact(c, seq) == [c EXCEPT !.events[seq].artifact = TRUE]

SilentCeiling(c) == c  \* mutant: what was dropped is not said
NotesOf(c) ==
  LET a == IF c.dropped > 0 THEN note(c, "console", "DROPPED_BACKPRESSURE", c.dropped) ELSE c
  IN IF a.detached THEN note(a, "domSnapshots", "TARGET_DETACHED", 1) ELSE a

\* Notes bypass the ceiling, and are written once.
flushNotesToLog(c) ==
  IF c.flushed THEN c
  ELSE LET n == NotesOf(c)
       IN [n EXCEPT !.flushed = TRUE, !.events = @ \o n.notes]

-----------------------------------------------------------------------------
(* action-interpreter.ts                                                   *)

\* A page is a sequence of elements, each the factory calls it answers to and
\* the texts in it.  The filters come before nth, and a phrase takes the first.
resolveLocator(sel, page) ==
  LET base == Selected(page, {i \in DOMAIN page : <<sel.strategy, sel.value, sel.opts>> \in page[i].answers})
      left == Selected(base, {i \in DOMAIN base :
                /\ sel.hasText \in base[i].texts \cup {""}
                /\ sel.hasNotText = "" \/ sel.hasNotText \notin base[i].texts})
  IN IF sel.nth # "none" THEN Nth(left, sel.nth)
     ELSE IF sel.strategy = "described" THEN Nth(left, "0") ELSE left

At(pc) == int.pc = pc

Executing == IF At("execute") THEN int.next ELSE 0

Deferred == {"noConsoleErrors", "noUncaughtExceptions", "responseStatusIn"}

\* What the evaluation of an assertion may come to.  A closed page throws,
\* which is a failure, but for the kind that reads it as "not visible".
evaluateAssertion(a) ==
  IF a.kind \in Deferred THEN {"not-evaluated"}
  ELSE IF col.detached THEN {IF a.kind = "elementHidden" THEN "pass" ELSE "fail"}
  ELSE {"pass", "fail"}

Outcome(a, result) == [id |-> a.id, result |-> result, isFailurePredicate |-> a.isFailurePredicate]

Evaluated(i) == {i.results[k].id : k \in DOMAIN i.results}

ForgetTheRest(i) == i  \* mutant: assertions the run never came to leave no trace
\* The run stopped: whatever was declared and not evaluated is on record as such, once.
StopAll(i) ==
  LET declared == [k \in DOMAIN flow.assertions |-> Outcome(flow.assertions[k], "not-evaluated")]
      missing  == {k \in DOMAIN declared :
                     declared[k].id \notin Evaluated(i) \cup {declared[j].id : j \in 1 .. k - 1}}
  IN [i EXCEPT !.results = @ \o Selected(declared, missing)]

NoUrl(a)    == a.type = "goto" /\ a.value.kind = "pending"
Foreign(a)  == a.type = "goto" /\ a.value.text = "foreign"  \* ~isOriginAllowed
NoValue(a)  == a.type = "fill" /\ a.value.kind \in {"unknown", "missingSecret"}  \* resolveValue
NoWords(a)  == a.selector.strategy = "described" /\ a.selector.value = ""

Ending(how, error) == [how |-> how, error |-> error]
Success == Ending("ok", "none")

BlameTheTarget(a) ==  \* mutant: an unreachable page is the target's fault whenever it happens
  {Success, Ending("timeout", "none"), Ending("failed", "EXEC_TARGET_UNREACHABLE")}
\* How an action may end, and the code of the error it raises.
execute(a) ==
  IF NoUrl(a) \/ NoWords(a) THEN {Ending("failed", "EXEC_VALUE_UNRESOLVED")}
  ELSE IF NoValue(a) THEN {Ending("failed", "EXEC_ACTION_FAILED")}
  ELSE IF Foreign(a) THEN {Ending("failed", "EXEC_ORIGIN_NOT_ALLOWED")}
  ELSE IF a.type \in {"assert", "setEmulation"} THEN {Success}
  ELSE IF col.detached THEN {Ending("failed", "none")}
  ELSE {Success, Ending("timeout", "none"), Ending("failed", "none")}
       \cup (IF a.type = "goto" /\ ~int.navigated THEN {Ending("failed", "EXEC_TARGET_UNREACHABLE")} ELSE {})

\* The snapshot with its artifact, without it because it could not be stored,
\* or only a note why there is none.
captureDomSnapshot(c, during) ==
  LET detached(x) == note(x, "domSnapshots", "TARGET_DETACHED", 1)
      pushed      == push(c, Event("domSnapshots", "snapshot", 0, during))
  IN {detached(c)} \cup
     (IF c.detached THEN {}
      ELSE {note(c, "domSnapshots", "SIZE_LIMIT", 1), detached(pushed),
            IF pushed.dropped > c.dropped THEN pushed ELSE attachArtifact(pushed, Len(pushed.events))})

Captured(c, trigger, during) == IF trigger \in SnapshotOn THEN captureDomSnapshot(c, during) ELSE {c}

\* The three areas, of which a value may be withheld.
captureStorage(c) ==
  IF c.detached THEN {note(c, "storage", "TARGET_DETACHED", 1)}
  ELSE LET p == pushAll(c, [k \in 1 .. 3 |-> Event("storage", "area", 0, 0)])
       IN {p, note(p, "storage", "POLICY_REDACTED", 1)}

-----------------------------------------------------------------------------
(* The run, step by step.                                                  *)

Ready ==
  [pc |-> "idle", next |-> 1, manifest |-> FALSE, navigated |-> FALSE, infra |-> FALSE, automation |-> FALSE,
   results |-> <<>>, failedAt |-> 0]

NoFlow == [actions |-> <<>>, assertions |-> <<>>, required |-> {}, acknowledged |-> {}, reset |-> "fresh-context"]
Unsealed == [outcome |-> "none"]

RunInit == flow = NoFlow /\ int = Ready /\ col = Silent /\ raw = <<>> /\ sealed = Unsealed

Enqueue(e) ==
  /\ At("idle") /\ assertSafeToEnqueue(e)
  /\ \A i \in DOMAIN e.actions : ~Foreign(e.actions[i])
  /\ flow' = e
  /\ int' = [int EXCEPT !.pc = "launch"]
  /\ UNCHANGED <<col, raw, sealed>>

\* A browser, a context with the collector attached, and then the manifest; a
\* failure of any of them is the host's.
Launch ==
  /\ At("launch")
  /\ LET attached == note(col, "webSocketFrames", "COLLECTOR_UNSUPPORTED", 1) IN
     \/ /\ int' = [int EXCEPT !.pc = "close", !.infra = TRUE]
        /\ col' \in {col, attached}
     \/ /\ int' = [int EXCEPT !.pc = IF shouldBlockDestructiveExecution(flow) THEN "close" ELSE "start",
                              !.manifest = TRUE,
                              !.automation = shouldBlockDestructiveExecution(flow)]
        /\ col' = attached
  /\ UNCHANGED <<flow, raw, sealed>>

ActionStart ==
  /\ At("start") /\ int.next <= Len(flow.actions)
  /\ col' = push(col, Event("actions", "start", int.next, int.next))
  /\ int' = [int EXCEPT !.pc = "execute"]
  /\ UNCHANGED <<flow, raw, sealed>>

\* An inline assertion is evaluated as an action that succeeds, whatever it comes to.
ActionSucceeds ==
  /\ At("execute")
  /\ LET a == flow.actions[int.next]
         inline == a.type = "assert"
     IN /\ Success \in execute(a)
        /\ \E r \in IF inline THEN evaluateAssertion(a.value) ELSE {"none"} :
             /\ int' = [int EXCEPT !.pc = "start", !.next = @ + 1,
                                   !.navigated = @ \/ a.type = "goto",
                                   !.results = IF inline THEN Append(@, Outcome(a.value, r)) ELSE @]
             /\ \E c \in IF r = "fail" THEN Captured(col, "failure", int.next) ELSE {col} :
                  col' \in Captured(push(c, Event("actions", "ok", int.next, int.next)), "action", 0)
  /\ UNCHANGED <<flow, raw, sealed>>

\* An action that does not: the environment's fault only while nothing was
\* ever reached, otherwise our instructions'.  The environment's is thrown
\* past the interpreter, and its results with it.
ActionFails ==
  /\ At("execute")
  /\ \E e \in execute(flow.actions[int.next]) \ {Success} :
       \E c \in Captured(push(col, Event("actions", e.how, int.next, int.next)), "failure", 0) :
         IF e.error = "EXEC_TARGET_UNREACHABLE"
         THEN /\ int' = [int EXCEPT !.pc = "close", !.infra = TRUE, !.results = <<>>, !.failedAt = int.next]
              /\ col' = c
         ELSE /\ int' = [StopAll(int) EXCEPT !.pc = "close", !.automation = TRUE, !.failedAt = int.next]
              /\ col' \in captureStorage(c)
  /\ UNCHANGED <<flow, raw, sealed>>

Inline(e) == {x \in DOMAIN e.actions : e.actions[x].type = "assert"}
InlineIds(e) == {e.actions[x].value.id : x \in Inline(e)}

Remaining == {k \in DOMAIN flow.assertions : flow.assertions[k].id \notin InlineIds(flow) \cup Evaluated(int)}

\* After the actions, the assertions that were not inline, in their order.
AssertNext ==
  /\ At("start") /\ int.next > Len(flow.actions) /\ Remaining # {}
  /\ LET a == flow.assertions[Min(Remaining)] IN
     \E r \in evaluateAssertion(a) :
       /\ int' = [int EXCEPT !.results = Append(@, Outcome(a, r))]
       /\ col' \in IF r = "fail" THEN Captured(col, "failure", 0) ELSE {col}
  /\ UNCHANGED <<flow, raw, sealed>>

Finish ==
  /\ At("start") /\ int.next > Len(flow.actions) /\ Remaining = {}
  /\ int' = [int EXCEPT !.pc = "close"]
  /\ col' \in captureStorage(col)
  /\ UNCHANGED <<flow, raw, sealed>>

\* The finally: listeners off, the context closed and with it the bodies that
\* were still awaited; then the recording is stored, or not.
Close ==
  /\ At("close")
  /\ LET order    == SetToSeq(col.awaited)
         rejected == pushAll(col, [k \in DOMAIN order |-> Event("responseBodies", "CONFIG_OFF", order[k], 0)])
         c        == [rejected EXCEPT !.awaited = {}, !.requests = <<>>]
     IN col' \in IF Video
                 THEN {note(c, "video", code, 1) : code \in {"PERSISTED_UNREDACTED", "NO_RECORDING_PRODUCED", "PERSIST_FAILED"}}
                 ELSE {c}
  /\ int' = [int EXCEPT !.pc = "seal"]
  /\ UNCHANGED <<flow, raw, sealed>>

\* A run that never came to its manifest has a record of its own.
finishWithoutBrowser ==
  [capture   |-> [cat \in Category |-> [status |-> "missing", reasons |-> [code \in {"RUN_INTERRUPTED"} |-> 1]]],
   actions   |-> <<>>,
   artifacts |-> {},
   outcome   |-> "INFRASTRUCTURE_FAILED"]

\* Notes first, then the log as it is persisted, then the plane over that log
\* and the record.  The trace is withheld.
Seal ==
  /\ At("seal")
  /\ LET t == note(col, "trace", "POLICY_REDACTED", 1)
         c == flushNotesToLog(IF Video THEN t ELSE note(t, "video", "CONFIG_OFF", 1))
     IN /\ col' = c /\ raw' = c.events
        /\ sealed' = IF int.manifest
                     THEN runPlane(c.events, c.notes, int.infra, int.automation, int.results, flow.required)
                     ELSE finishWithoutBrowser
  /\ int' = [int EXCEPT !.pc = "sealed"]
  /\ UNCHANGED flow

-----------------------------------------------------------------------------
(* What the page does while the interpreter waits for it.                  *)

Attached == int.pc \in {"start", "execute"} /\ ~col.detached

\* onConsole, onPageError and the three that tell of a navigation.
onPageEvent ==
  /\ Attached /\ col.seen < Traffic
  /\ \E cat \in Noise : col' = push([col EXCEPT !.seen = @ + 1], Event(cat, "event", 0, Executing))
  /\ UNCHANGED <<flow, int, raw, sealed>>

onRequest ==
  /\ Attached /\ col.seen < Traffic
  /\ LET uid == col.seen + 1 IN
     col' = push([col EXCEPT !.seen = uid,
                             !.requests = [r \in DOMAIN @ \cup {uid} |-> IF r = uid THEN Executing ELSE @[r]]],
                 Event("networkMetadata", "request", uid, Executing))
  /\ UNCHANGED <<flow, int, raw, sealed>>

\* A response ends its request here, and begins the capture of its body, of
\* which only the buffer is awaited.
onResponse ==
  /\ Attached
  /\ \E uid \in DOMAIN col.requests :
       LET c == push([col EXCEPT !.requests = [r \in DOMAIN @ \ {uid} |-> @[r]]],
                     Event("networkMetadata", "response", uid, col.requests[uid]))
           Skipped(code) == note(push(c, Event("responseBodies", code, uid, Executing)), "responseBodies", code, 1)
       IN col' \in IF ~CaptureBodies THEN {Skipped("CONFIG_OFF")}
                   ELSE {Skipped("CONTENT_TYPE_NOT_CAPTURED"), [c EXCEPT !.awaited = @ \cup {uid}]}
  /\ UNCHANGED <<flow, int, raw, sealed>>

onRequestFailed ==
  /\ Attached
  /\ \E uid \in DOMAIN col.requests :
       col' = push([col EXCEPT !.requests = [r \in DOMAIN @ \ {uid} |-> @[r]]],
                   Event("networkMetadata", "requestFailed", uid, col.requests[uid]))
  /\ UNCHANGED <<flow, int, raw, sealed>>

\* The buffer is there, whole, cut or withheld; or the body could not be had.
maybeCaptureBody ==
  \E uid \in col.awaited :
    /\ LET c == [col EXCEPT !.awaited = @ \ {uid}]
           Body(x, what) == push(x, Event("responseBodies", what, uid, Executing))
       IN col' \in {Body(c, "captured"), Body(c, "CONFIG_OFF"),
                    Body(note(c, "responseBodies", "SIZE_LIMIT", 1), "captured"),
                    Body(note(c, "responseBodies", "POLICY_REDACTED", 1), "withheld")}
    /\ UNCHANGED <<flow, int, raw, sealed>>

onClose ==
  /\ Attached
  /\ col' = [col EXCEPT !.detached = TRUE]
  /\ UNCHANGED <<flow, int, raw, sealed>>

Page == onPageEvent \/ onRequest \/ onResponse \/ onRequestFailed \/ maybeCaptureBody \/ onClose

Worker ==
  Launch \/ ActionStart \/ ActionSucceeds \/ ActionFails \/ AssertNext \/ Finish \/ Close \/ Seal

-----------------------------------------------------------------------------
(* Properties.                                                             *)

Sealed == At("sealed") /\ int.manifest

Results == Range(int.results)

\* What was sealed is what anyone rebuilds from the persisted log alone, with
\* no memory of the collector (plane.ts: "a rebuild from artifacts alone is
\* faithful"): no note is only in memory, none is counted twice, and no
\* snapshot is bound only there.
LiveEqualsRebuild ==
  Sealed => sealed = runPlane(raw, <<>>, int.infra, int.automation, int.results, flow.required)

\* What a page did is attributed to the action that was being executed, and
\* whatever comes of a request to the one it started in, with the action long
\* over, the log cut short by the ceiling and callbacks between any two steps.
AttributedToItsAction ==
  Sealed => \A i \in Evidence(raw) :
              raw[i].cat # "responseBodies" => sealed.actions[i] = raw[i].during

\* A run is the environment's fault only if it never reached the target; once
\* it did, whatever breaks is the instructions' or the product's (ADR-0005).
InfraOnlyBeforeNavigation ==
  sealed.outcome = "INFRASTRUCTURE_FAILED" => ~int.navigated

\* A script that broke is no finding about the product, whatever assertions
\* failed before it did; and a run that ended green evaluated something, found
\* nothing against the product, and has no required category of which
\* everything was lost.
OnlyProofIsGreen ==
  Sealed =>
    /\ int.failedAt # 0 => sealed.outcome \notin {"PRODUCT_FAILED", "VALID_COMPLETED"}
    /\ sealed.outcome = "VALID_COMPLETED" =>
         /\ \E o \in Results : o.result # "not-evaluated"
         /\ ~\E o \in Results : o.result = "fail"
         /\ \A cat \in flow.required :
              (\E i \in Notes(raw) :
                 raw[i].cat = cat /\ raw[i].what \in {"TARGET_DETACHED", "SIZE_LIMIT", "DROPPED_BACKPRESSURE"})
              => \/ OfCategory(raw, cat) # {}
                 \/ \E i \in Notes(raw) : raw[i].cat = cat /\ raw[i].what = "POLICY_REDACTED"

\* Whatever the ceiling dropped is said in the log, with its count, though the
\* log is full; and so is a page that was closed under the run.
LossIsRecorded ==
  Sealed =>
    /\ col.dropped > 0 => CountIn(raw, "console", "DROPPED_BACKPRESSURE") = col.dropped
    /\ col.detached => CountIn(raw, "domSnapshots", "TARGET_DETACHED") > 0
=============================================================================
