----------------------------- MODULE Authoring -----------------------------
(***************************************************************************)
(* The authoring of a script: the `author' command                         *)
(* (apps/cli/src/commands/author.ts), which plans, opens a browser session *)
(* on an approved plan, resumes one, and emits a suite from what the       *)
(* session recorded; and the page (apps/web/public/app.js) that starts     *)
(* these commands from its cards and its composer, replays a finished      *)
(* script and sends one that stops early back to be recorded again.        *)
(*                                                                         *)
(* The model's conversations and the browser are external: a turn ends as  *)
(* it likes, with or without its session's id, having recorded something.  *)
(* A stretch of the command without an await is one step.  Meanwhile the   *)
(* same investigation may be planned anew from a terminal.  A plan is      *)
(* named by the turn that wrote it, so its name is also its checksum.      *)
(* Which platform the browser is, is left out; the proposal that goes with *)
(* a script is AuthoredRun's.                                              *)
(***************************************************************************)
EXTENDS AuthoredScript, TLC

CONSTANTS
  Jobs,        \* the numbers of the jobs the page may have at once
  Recordings,  \* what a browser session may record
  MaxClicks,   \* bound: choices the operator makes
  MaxPlans,    \* bound: planning turns in the terminal
  MaxLogs      \* bound: logs of browser sessions

ASSUME AuthoringAssumption ==
  Jobs \subseteq Nat /\ {MaxClicks, MaxPlans} \subseteq Nat /\ MaxLogs \in Nat \ {0}

VARIABLES
  folder,  \* the authoring folder of the investigation
  cmd,     \* cmd[c]: the author or rerun command of a job
  page,    \* the page's state and the buttons on it
  turns,   \* conversations so far
  history  \* what only the properties look at

authoringVars == <<folder, cmd, page, turns, history>>

maxRelaunches            == 2
maxTurnLimitContinuations == 1
MAX_REPAIRS              == 2

NoPlan    == 0
NoSession == 0
NoSuite   == [logs |-> <<>>, spec |-> <<>>]

Idle ==
  [pc |-> "off", kind |-> "none", thatsAll |-> FALSE, checksum |-> NoPlan, session |-> NoSession, since |-> 0,
   log |-> 0, relaunches |-> 0, continuations |-> 0, outcome |-> "none", limit |-> FALSE, result |-> [outcome |-> "none"]]

Init ==
  /\ folder = [plan |-> NoPlan, kept |-> <<>>, attempt |-> 0, logs |-> <<>>, suite |-> NoSuite, evidence |-> "none"]
  /\ cmd = [c \in Jobs |-> Idle]
  /\ page = [busy |-> FALSE, planning |-> FALSE, browsing |-> FALSE, session |-> NoSession, checksum |-> NoPlan,
             repairs |-> 0, awaiting |-> "none", cards |-> {"start"}]
  /\ turns = 0
  /\ history = [clicks |-> 0, replans |-> 0, shown |-> {}, acted |-> {}, recording |-> <<>>, overlapped |-> FALSE]

-----------------------------------------------------------------------------
(* The plan                                                                *)

\* The version of the plan on disk: one more than those kept beside it.
planVersionOf(f) == Len(f.kept) + 1

archivePlan(f) == IF f.plan = NoPlan THEN f.kept ELSE Append(f.kept, f.plan)

WriteThenArchive(f, plan) ==  \* mutant: the plan is kept after it was replaced
  [f EXCEPT !.plan = plan, !.kept = archivePlan([f EXCEPT !.plan = plan])]
writePlan(f, plan) == [f EXCEPT !.kept = archivePlan(f), !.plan = plan]

Result(c, r) == cmd' = [cmd EXCEPT ![c] = [Idle EXCEPT !.pc = "returned", !.kind = cmd[c].kind, !.result = r]]

Refused == [outcome |-> "error", session |-> NoSession]

\* A planning turn ends: with a plan, a plan and a question, or neither.
EndPlanning(c, outcome) ==
  LET turn == turns + 1
      ok   == outcome \in {"plan", "question"}
  IN /\ cmd[c].pc = "planning"
     /\ turns' = turn
     /\ folder' = IF ok THEN writePlan(folder, turn) ELSE folder
     /\ Result(c, [outcome  |-> IF ok THEN "plan" ELSE outcome, session |-> turn,
                   asked    |-> outcome = "question" /\ ~cmd[c].thatsAll,
                   checksum |-> IF ok THEN turn ELSE NoPlan])
     /\ UNCHANGED <<page, history>>

-----------------------------------------------------------------------------
(* The browser session                                                     *)

IsAnotherPlan(checksum, plan) == checksum # NoPlan /\ checksum # plan

\* An approval reads the plan it acts on, and records it.
ReadPlan(c) ==
  /\ cmd[c].pc = "approve"
  /\ IF IsAnotherPlan(cmd[c].checksum, folder.plan)
     THEN Result(c, Refused) /\ UNCHANGED history
     ELSE /\ cmd' = [cmd EXCEPT ![c].pc = "open"]
          /\ history' = [history EXCEPT !.acted = @ \cup
               {[plan |-> folder.plan, version |-> planVersionOf(folder), confirmed |-> cmd[c].checksum # NoPlan]}]
  /\ UNCHANGED <<folder, page, turns>>

\* The conversation a browser session is in: the one it resumes, or a new one.
Talking(c) == IF cmd[c].session # NoSession THEN cmd[c].session ELSE turns + 1

\* The browser server opens a log when it starts.
\* At the bound, the last one is used again.
LogOpened(logs) == IF Len(logs) < MaxLogs THEN Append(logs, <<>>) ELSE [logs EXCEPT ![MaxLogs] = <<>>]
Opened(logs)    == IF Len(logs) < MaxLogs THEN Len(logs) + 1 ELSE MaxLogs
Recorded(numbers) == IF numbers # <<>> /\ Last(numbers) = Opened(folder.logs) THEN numbers ELSE Append(numbers, Opened(folder.logs))

RepairAddsOn(c) == cmd[c].kind = "approve"  \* mutant: a repair adds to the recording it is to replace
IsNewAttempt(c) == cmd[c].kind # "resume"

NoReplayToRepairFrom == folder.evidence # "stopped"

\* The session is started; a repair without a replay that stopped early is
\* refused, after its attempt has begun.
Open(c) ==
  LET began == IF IsNewAttempt(c) THEN Opened(folder.logs) - 1 ELSE folder.attempt
      known == [folder EXCEPT !.attempt = began]
  IN /\ cmd[c].pc = "open"
     /\ IF cmd[c].kind = "repair" /\ NoReplayToRepairFrom
        THEN folder' = known /\ Result(c, Refused) /\ UNCHANGED <<turns, history>>
        ELSE /\ folder' = [known EXCEPT !.logs = LogOpened(@)]
             /\ cmd' = [cmd EXCEPT ![c].pc = "browsing", ![c].since = began,
                                   ![c].session = Talking(c), ![c].log = Opened(folder.logs)]
             /\ turns' = IF cmd[c].session = NoSession THEN turns + 1 ELSE turns
             /\ history' = [history EXCEPT !.recording = Recorded(IF cmd[c].kind = "resume" THEN @ ELSE <<>>)]
     /\ UNCHANGED page

\* A turn in the browser ends, having recorded steps; ended tells how.
EndSession(c, ended, steps, named) ==
  /\ cmd[c].pc = "browsing"
  /\ cmd' = [cmd EXCEPT ![c].pc = "ended", ![c].outcome = IF ended = "turnLimit" THEN "stuck" ELSE ended,
                        ![c].limit = ended = "turnLimit",
                        ![c].session = IF named THEN @ ELSE NoSession]
  /\ folder' = [folder EXCEPT !.logs[cmd[c].log] = steps]
  /\ UNCHANGED <<page, turns, history>>

\* The same conversation goes on in a browser started anew.
Again(c) ==
  /\ folder' = [folder EXCEPT !.logs = LogOpened(@)]
  /\ history' = [history EXCEPT !.recording = Recorded(@)]
  /\ UNCHANGED <<page, turns>>

MayRelaunch(c) == cmd[c].relaunches < maxRelaunches /\ cmd[c].session # NoSession

\* A platform that was asked for; when there is none of that name, or it is
\* that already, the session is told so in the same way.
Relaunch(c) ==
  /\ cmd[c].pc = "ended" /\ cmd[c].outcome = "platform" /\ MayRelaunch(c)
  /\ Again(c)
  /\ cmd' = [cmd EXCEPT ![c].pc = "browsing", ![c].relaunches = @ + 1, ![c].log = Opened(folder.logs)]

MayContinue(c) ==
  cmd[c].limit /\ cmd[c].session # NoSession /\ cmd[c].continuations < maxTurnLimitContinuations

\* A session that the turn counter stopped goes on, once.
Continue(c) ==
  /\ cmd[c].pc = "ended" /\ cmd[c].outcome # "platform" /\ MayContinue(c)
  /\ Again(c)
  /\ cmd' = [cmd EXCEPT ![c].pc = "browsing", ![c].continuations = @ + 1, ![c].log = Opened(folder.logs)]

\* The logs of an attempt, oldest first.
attemptSessionMarkdowns(since) == [i \in 1 .. Len(folder.logs) - since |-> since + i]

Steps(numbers) == FlattenSeq([i \in DOMAIN numbers |-> extractAuthoredSteps(folder.logs[numbers[i]])])

\* Nothing is left to go on with.  A session that says it is done has a script
\* if what was recorded can measure.
Conclude(c) ==
  LET numbers == attemptSessionMarkdowns(cmd[c].since)
      steps   == Steps(numbers)
      stuck   == cmd[c].outcome = "platform"
      result  == [outcome |-> IF stuck THEN "stuck" ELSE cmd[c].outcome, session |-> cmd[c].session,
                  limit |-> cmd[c].limit, asked |-> FALSE, checksum |-> NoPlan]
  IN /\ cmd[c].pc = "ended"
     /\ IF cmd[c].outcome = "platform" THEN ~MayRelaunch(c) ELSE ~MayContinue(c)
     /\ IF cmd[c].outcome = "done" /\ CanMeasure(steps)
        THEN folder' = [folder EXCEPT !.suite = [logs |-> numbers, spec |-> renderAuthoredSpec(steps, <<>>)]]
        ELSE UNCHANGED folder
     /\ Result(c, IF cmd[c].outcome = "done" /\ ~CanMeasure(steps) THEN Refused ELSE result)
     /\ UNCHANGED <<page, turns, history>>

\* rerun, which keeps where its runs stopped beside the report (SuiteRuns).
EndReplay(c, seen) ==
  /\ cmd[c].pc = "replay"
  /\ folder.suite = NoSuite => seen = "failed"
  /\ folder' = IF seen = "failed" THEN folder ELSE [folder EXCEPT !.evidence = seen]
  /\ Result(c, [outcome |-> seen])
  /\ UNCHANGED <<page, turns, history>>

-----------------------------------------------------------------------------
(* The page                                                                *)

Running == {c \in Jobs : cmd[c].pc # "off"}

\* The job that the next command of the page is.
Free(c) == cmd[c].pc = "off" /\ \A d \in Jobs : cmd[d].pc = "off" => c <= d

\* The page starts a command: cmd becomes started, and page before and busy.
Starts(c, state, before) ==
  /\ cmd' = [cmd EXCEPT ![c] = state]
  /\ page' = [before EXCEPT !.busy = TRUE]

startPlanning(c, thatsAll, before) ==
  Starts(c, [Idle EXCEPT !.pc = "planning", !.kind = "plan", !.thatsAll = thatsAll],
         [before EXCEPT !.repairs = 0, !.planning = TRUE, !.browsing = FALSE])

startApproved(c, before) ==
  Starts(c, [Idle EXCEPT !.pc = "approve", !.kind = "approve", !.checksum = before.checksum],
         [before EXCEPT !.repairs = 0, !.planning = FALSE, !.browsing = FALSE])

\* A session the page lost track of is planned anew.
resumeAuthoring(c, kind, before) ==
  IF before.session = NoSession THEN startPlanning(c, FALSE, [before EXCEPT !.browsing = FALSE])
  ELSE Starts(c, [Idle EXCEPT !.pc = "open", !.kind = kind, !.session = before.session],
              [before EXCEPT !.browsing = FALSE])

runSuite(c, kind, before) == Starts(c, [Idle EXCEPT !.pc = "replay", !.kind = kind], before)

\* The operator makes a choice; only so many.
Chooses ==
  /\ history.clicks < MaxClicks
  /\ history' = [history EXCEPT !.clicks = @ + 1, !.overlapped = @ \/ Running # {}]
  /\ UNCHANGED <<folder, turns>>

\* A button of a card, even while the page is busy: only the card's own row is
\* disabled then, and what the composer waited for is dropped.
Press(c, button) ==
  LET before == [page EXCEPT !.cards = @ \ {button}, !.awaiting = "none"] IN
  /\ Free(c) /\ button \in page.cards /\ Chooses
  /\ \/ button \in {"start", "stuck", "replan"} /\ startPlanning(c, FALSE, before)
     \/ button = "plan" /\ startApproved(c, before)
     \/ button \in {"question", "limit"} /\ resumeAuthoring(c, "resume", before)
     \/ button \in {"ready", "replan"} /\ runSuite(c, "rerun", before)

\* "Change something" only opens the composer.
ChangePlan ==
  /\ "plan" \in page.cards /\ Chooses
  /\ page' = [page EXCEPT !.cards = @ \ {"plan"}, !.awaiting = "change"]
  /\ UNCHANGED cmd

\* The composer, which is closed while the page is busy.
Answer(c) ==
  LET before == [page EXCEPT !.awaiting = "none"] IN
  /\ Free(c) /\ ~page.busy /\ Chooses
  /\ \/ page.awaiting = "plan" /\ startPlanning(c, FALSE, before)
     \/ page.awaiting = "change" /\ startApproved(c, before)
     \/ page.awaiting = "question" /\ resumeAuthoring(c, "resume", before)

\* "That's all I know", beside the composer.
ThatsAll(c) ==
  LET before == [page EXCEPT !.awaiting = "none"] IN
  /\ Free(c) /\ ~page.busy /\ Chooses
  /\ \/ page.planning /\ startPlanning(c, TRUE, before)
     \/ ~page.planning /\ page.browsing /\ resumeAuthoring(c, "resume", before)

Done(c) == cmd' = [cmd EXCEPT ![c] = Idle]

\* A session that is not told keeps its name.
Told(r) == IF r.session = NoSession THEN page.session ELSE r.session

\* handleAuthoringOutcome.  A script is replayed at once.
OutcomeArrives(c) ==
  LET r      == cmd[c].result
      before == [page EXCEPT !.busy = FALSE, !.session = Told(r)]
  IN /\ cmd[c].pc = "returned" /\ cmd[c].kind \in {"plan", "approve", "resume", "repair"}
     /\ \/ /\ r.outcome = "plan"
           /\ page' = [before EXCEPT !.planning = TRUE, !.checksum = r.checksum, !.cards = @ \cup {"plan"},
                                     !.awaiting = IF r.asked THEN "plan" ELSE @]
           /\ Done(c)
           /\ history' = [history EXCEPT !.shown = @ \cup {r.checksum}]
        \/ /\ r.outcome = "question"
           /\ page' = [before EXCEPT !.browsing = TRUE, !.awaiting = "question", !.cards = @ \cup {"question"}]
           /\ Done(c) /\ UNCHANGED history
        \/ r.outcome = "done" /\ runSuite(c, "verify", before) /\ UNCHANGED history
        \/ /\ r.outcome = "stuck"
           /\ LET may == "limit" \in DOMAIN r /\ r.limit /\ Told(r) # NoSession IN
              page' = [before EXCEPT !.cards = @ \cup {IF may THEN "limit" ELSE "stuck"}]
           /\ Done(c) /\ UNCHANGED history
        \/ r.outcome \in {"unknown", "error"} /\ page' = before /\ Done(c) /\ UNCHANGED history
     /\ UNCHANGED <<folder, turns>>

RepairsAgain(before) == before  \* mutant: repairs are not counted
Repairing(before) == [before EXCEPT !.repairs = @ + 1]

\* verifyScript: a replay that stopped early is sent back, at most twice.
ReplayArrives(c) ==
  LET seen   == cmd[c].result.outcome
      before == [page EXCEPT !.busy = FALSE]
  IN /\ cmd[c].pc = "returned" /\ cmd[c].kind = "verify"
     /\ IF seen = "stopped" /\ page.repairs < MAX_REPAIRS
        THEN resumeAuthoring(c, "repair", Repairing(before))
        ELSE /\ page' = [before EXCEPT !.cards = @ \cup {IF seen = "stopped" THEN "replan" ELSE "ready"}]
             /\ Done(c)
     /\ UNCHANGED <<folder, turns, history>>

\* The runs an operator asked for: their card offers more of them.
RunsArrive(c) ==
  /\ cmd[c].pc = "returned" /\ cmd[c].kind = "rerun"
  /\ page' = [page EXCEPT !.busy = FALSE, !.cards = @ \cup (IF cmd[c].result.outcome = "failed" THEN {} ELSE {"ready"})]
  /\ Done(c)
  /\ UNCHANGED <<folder, turns, history>>

-----------------------------------------------------------------------------

\* The investigation is planned anew from a terminal: nothing but the turn's end shows.
PlanInTerminal ==
  /\ history.replans < MaxPlans
  /\ turns' = turns + 1
  /\ folder' = writePlan(folder, turns')
  /\ history' = [history EXCEPT !.replans = @ + 1]
  /\ UNCHANGED <<cmd, page>>

EndTurn(c) ==
  \/ \E outcome \in {"plan", "question", "stuck", "unknown"} : EndPlanning(c, outcome)
  \/ \E ended \in {"done", "plan", "question", "stuck", "turnLimit", "platform", "unknown"},
        steps \in Recordings, named \in BOOLEAN :
       (named \/ ended \in {"platform", "unknown"}) /\ EndSession(c, ended, steps, named)
  \/ \E seen \in {"failed", "stopped", "reached"} : EndReplay(c, seen)

Proceeds(c) == ReadPlan(c) \/ Open(c) \/ Relaunch(c) \/ Continue(c) \/ Conclude(c)

Arrives(c) == OutcomeArrives(c) \/ ReplayArrives(c) \/ RunsArrive(c)

Next ==
  \/ \E c \in Jobs :
       EndTurn(c) \/ Proceeds(c) \/ Arrives(c) \/ Answer(c) \/ ThatsAll(c) \/ \E button \in page.cards : Press(c, button)
  \/ ChangePlan \/ PlanInTerminal

\* Turns and replays end, and a command goes on when its await is over; the
\* operator and the terminal need do nothing.
Fairness == \A c \in Jobs : WF_authoringVars(EndTurn(c) \/ Proceeds(c) \/ Arrives(c))

Spec == Init /\ [][Next]_authoringVars /\ Fairness

-----------------------------------------------------------------------------

\* A script is one recording, whole: it holds, in order, every browser session
\* since the plan was approved or the recording was begun again, and none from
\* before -- through questions, platform switches and turn limits, each of which
\* starts the browser anew -- as long as the page runs one command at a time.
ScriptIsOneRecording ==
  \A c \in Jobs :
    cmd[c].pc = "ended" /\ ~history.overlapped => attemptSessionMarkdowns(cmd[c].since) = history.recording

\* The plan of version n, kept or current.
PlanOnDisk(n) == Append(folder.kept, folder.plan)[n]

\* A plan that a browser session acted on can be accounted for: its bytes are
\* still on disk under the version that the lineage names, however often the
\* investigation is planned again, and if its checksum was confirmed it had
\* been shown to the operator.
ActedOnIsOnRecord ==
  \A a \in history.acted :
    /\ a.version <= planVersionOf(folder) /\ PlanOnDisk(a.version) = a.plan
    /\ a.confirmed => a.plan \in history.shown

\* The page gives the operator the floor again: questions, relaunches, turn
\* limits and the repairs that it starts by itself come to an end.
OperatorGetsBack == page.busy ~> ~page.busy
=============================================================================
