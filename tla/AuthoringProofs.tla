--------------------------- MODULE AuthoringProofs ---------------------------
(***************************************************************************)
(* For any number of jobs, choices, plans and logs, whatever a browser     *)
(* session records and however it ends: the plan that a session acted on   *)
(* stays on disk and had been shown if it was confirmed, and a script is   *)
(* one recording, whole.                                                   *)
(*                                                                         *)
(* Neither is inductive.  An approval with no plan on disk would act on    *)
(* version 1 of nothing, which the next plan would take: that there is a   *)
(* plan whenever a button, a command or an answer could lead to one is     *)
(* what WithoutAPlan says.  And a recording is the attempt's logs only as  *)
(* long as the folder's attempt is, which a repair that is refused would   *)
(* break; OneAtATime and RepairOK say why none is.                         *)
(***************************************************************************)
EXTENDS Authoring, TLAPS

-----------------------------------------------------------------------------
(* The records                                                             *)

CmdFields  == {"pc", "kind", "thatsAll", "checksum", "session", "since", "log", "relaunches",
               "continuations", "outcome", "limit", "result"}
PageFields == {"busy", "planning", "browsing", "session", "checksum", "repairs", "awaiting", "cards"}

CmdShape  == DOMAIN cmd = Jobs /\ \A c \in Jobs : DOMAIN cmd[c] = CmdFields
PageShape == DOMAIN page = PageFields
DiskShape == /\ DOMAIN folder = {"plan", "kept", "attempt", "logs", "suite", "evidence"}
             /\ DOMAIN history = {"clicks", "replans", "shown", "acted", "recording", "overlapped"}
             /\ turns \in Nat
Shape     == CmdShape /\ PageShape /\ DiskShape

\* A step of command c leaves the others alone.
OthersStay(c) == \A d \in Jobs : d # c => cmd'[d] = cmd[d]

LEMMA IdleFields ==
  /\ DOMAIN Idle = CmdFields
  /\ Idle.pc = "off" /\ Idle.kind = "none" /\ Idle.checksum = NoPlan
BY DEF Idle, CmdFields

LEMMA ReplacedStep ==
  ASSUME CmdShape, NEW c \in Jobs, NEW r, DOMAIN r = CmdFields, cmd' = [cmd EXCEPT ![c] = r]
  PROVE  CmdShape' /\ OthersStay(c) /\ cmd'[c] = r
BY DEF CmdShape, OthersStay

LEMMA DoneStep ==
  ASSUME CmdShape, NEW c \in Jobs, Done(c)
  PROVE  CmdShape' /\ OthersStay(c) /\ cmd'[c] = Idle
BY IdleFields, ReplacedStep DEF Done

LEMMA ResultStep ==
  ASSUME CmdShape, NEW c \in Jobs, NEW r, Result(c, r)
  PROVE  /\ CmdShape' /\ OthersStay(c)
         /\ cmd'[c].pc = "returned" /\ cmd'[c].kind = cmd[c].kind /\ cmd'[c].result = r
         /\ cmd'[c].checksum = NoPlan
<1> DEFINE x == [Idle EXCEPT !.pc = "returned", !.kind = cmd[c].kind, !.result = r]
<1>1. /\ DOMAIN x = CmdFields
      /\ x.pc = "returned" /\ x.kind = cmd[c].kind /\ x.result = r /\ x.checksum = NoPlan
  BY IdleFields DEF Idle, CmdFields
<1>2. cmd' = [cmd EXCEPT ![c] = x]
  BY DEF Result
<1> HIDE DEF x
<1>3. QED BY <1>1, <1>2, ReplacedStep

\* The page starts a command.
LEMMA StartsStep ==
  ASSUME CmdShape, NEW c \in Jobs, NEW r, DOMAIN r = CmdFields,
         NEW before, DOMAIN before = PageFields, Starts(c, r, before)
  PROVE  /\ CmdShape' /\ PageShape' /\ OthersStay(c) /\ cmd'[c] = r
         /\ page'.cards = before.cards /\ page'.awaiting = before.awaiting
         /\ page'.checksum = before.checksum /\ page'.browsing = before.browsing
<1>1. cmd' = [cmd EXCEPT ![c] = r] /\ page' = [before EXCEPT !.busy = TRUE]
  BY DEF Starts
<1>2. CmdShape' /\ OthersStay(c) /\ cmd'[c] = r
  BY <1>1, ReplacedStep
<1>3. /\ PageShape'
      /\ page'.cards = before.cards /\ page'.awaiting = before.awaiting
      /\ page'.checksum = before.checksum /\ page'.browsing = before.browsing
  BY <1>1 DEF PageShape, PageFields
<1>4. QED BY <1>2, <1>3

LEMMA PlanningStep ==
  ASSUME CmdShape, NEW c \in Jobs, NEW thatsAll,
         NEW before, DOMAIN before = PageFields, startPlanning(c, thatsAll, before)
  PROVE  /\ CmdShape' /\ PageShape' /\ OthersStay(c)
         /\ cmd'[c].pc = "planning" /\ cmd'[c].kind = "plan" /\ cmd'[c].checksum = NoPlan
         /\ page'.cards = before.cards /\ page'.awaiting = before.awaiting
         /\ page'.checksum = before.checksum /\ page'.browsing = FALSE
<1> DEFINE r == [Idle EXCEPT !.pc = "planning", !.kind = "plan", !.thatsAll = thatsAll]
           b == [before EXCEPT !.repairs = 0, !.planning = TRUE, !.browsing = FALSE]
<1>1. DOMAIN r = CmdFields /\ r.pc = "planning" /\ r.kind = "plan" /\ r.checksum = NoPlan
  BY DEF Idle, CmdFields
<1>2. /\ DOMAIN b = PageFields /\ b.cards = before.cards /\ b.awaiting = before.awaiting
      /\ b.checksum = before.checksum /\ b.browsing = FALSE
  BY DEF PageFields
<1>3. Starts(c, r, b)
  BY DEF startPlanning
<1> HIDE DEF r, b
<1>4. QED BY <1>1, <1>2, <1>3, StartsStep

LEMMA ApprovedStep ==
  ASSUME CmdShape, NEW c \in Jobs, NEW before, DOMAIN before = PageFields, startApproved(c, before)
  PROVE  /\ CmdShape' /\ PageShape' /\ OthersStay(c)
         /\ cmd'[c].pc = "approve" /\ cmd'[c].kind = "approve" /\ cmd'[c].checksum = before.checksum
         /\ page'.cards = before.cards /\ page'.awaiting = before.awaiting
         /\ page'.checksum = before.checksum /\ page'.browsing = FALSE
<1> DEFINE r == [Idle EXCEPT !.pc = "approve", !.kind = "approve", !.checksum = before.checksum]
           b == [before EXCEPT !.repairs = 0, !.planning = FALSE, !.browsing = FALSE]
<1>1. DOMAIN r = CmdFields /\ r.pc = "approve" /\ r.kind = "approve" /\ r.checksum = before.checksum
  BY DEF Idle, CmdFields
<1>2. /\ DOMAIN b = PageFields /\ b.cards = before.cards /\ b.awaiting = before.awaiting
      /\ b.checksum = before.checksum /\ b.browsing = FALSE
  BY DEF PageFields
<1>3. Starts(c, r, b)
  BY DEF startApproved
<1> HIDE DEF r, b
<1>4. QED BY <1>1, <1>2, <1>3, StartsStep

LEMMA ResumeStep ==
  ASSUME CmdShape, NEW c \in Jobs, NEW kind,
         NEW before, DOMAIN before = PageFields, resumeAuthoring(c, kind, before)
  PROVE  /\ CmdShape' /\ PageShape' /\ OthersStay(c)
         /\ \/ cmd'[c].pc = "planning" /\ cmd'[c].kind = "plan"
            \/ cmd'[c].pc = "open" /\ cmd'[c].kind = kind
         /\ cmd'[c].checksum = NoPlan
         /\ page'.cards = before.cards /\ page'.awaiting = before.awaiting
         /\ page'.checksum = before.checksum /\ page'.browsing = FALSE
<1> DEFINE r == [Idle EXCEPT !.pc = "open", !.kind = kind, !.session = before.session]
           b == [before EXCEPT !.browsing = FALSE]
<1>1. DOMAIN r = CmdFields /\ r.pc = "open" /\ r.kind = kind /\ r.checksum = NoPlan
  BY DEF Idle, CmdFields
<1>2. /\ DOMAIN b = PageFields /\ b.cards = before.cards /\ b.awaiting = before.awaiting
      /\ b.checksum = before.checksum /\ b.browsing = FALSE
  BY DEF PageFields
<1>3. startPlanning(c, FALSE, b) \/ Starts(c, r, b)
  BY DEF resumeAuthoring
<1> HIDE DEF r, b
<1>4. CASE startPlanning(c, FALSE, b)
  BY <1>2, <1>4, PlanningStep
<1>5. CASE Starts(c, r, b)
  BY <1>1, <1>2, <1>5, StartsStep
<1>6. QED BY <1>3, <1>4, <1>5

LEMMA ReplayStep ==
  ASSUME CmdShape, NEW c \in Jobs, NEW kind,
         NEW before, DOMAIN before = PageFields, runSuite(c, kind, before)
  PROVE  /\ CmdShape' /\ PageShape' /\ OthersStay(c)
         /\ cmd'[c].pc = "replay" /\ cmd'[c].kind = kind /\ cmd'[c].checksum = NoPlan
         /\ page'.cards = before.cards /\ page'.awaiting = before.awaiting
         /\ page'.checksum = before.checksum /\ page'.browsing = before.browsing
<1> DEFINE r == [Idle EXCEPT !.pc = "replay", !.kind = kind]
<1>1. DOMAIN r = CmdFields /\ r.pc = "replay" /\ r.kind = kind /\ r.checksum = NoPlan
  BY DEF Idle, CmdFields
<1>2. Starts(c, r, before)
  BY DEF runSuite
<1> HIDE DEF r
<1>3. QED BY <1>1, <1>2, StartsStep

-----------------------------------------------------------------------------
(* What each step does, as far as the invariants look at it                *)

\* What the invariants look at, in the folder and in the history.
PlanStays  == folder'.plan = folder.plan /\ folder'.kept = folder.kept
LogsStay   == folder'.logs = folder.logs /\ folder'.attempt = folder.attempt
ActsStay   == history'.acted = history.acted /\ history'.shown = history.shown
TakesStay  == history'.recording = history.recording /\ history'.overlapped = history.overlapped

LEMMA WritePlanStep ==
  ASSUME DiskShape, NEW plan, folder' = writePlan(folder, plan)
  PROVE  /\ DOMAIN folder' = DOMAIN folder /\ LogsStay /\ folder'.evidence = folder.evidence
         /\ folder'.plan = plan /\ folder'.kept = archivePlan(folder)
<1> DEFINE kept == archivePlan(folder)
<1>1. folder' = [folder EXCEPT !.kept = kept, !.plan = plan]
  BY DEF writePlan
<1> HIDE DEF kept
<1>2. /\ DOMAIN folder' = DOMAIN folder /\ LogsStay /\ folder'.evidence = folder.evidence
      /\ folder'.plan = plan /\ folder'.kept = kept
  BY <1>1 DEF DiskShape, LogsStay
<1>3. QED BY <1>2 DEF kept

LEMMA EndPlanningStep ==
  ASSUME Shape, NEW c \in Jobs, NEW outcome \in {"plan", "question", "stuck", "unknown"}, EndPlanning(c, outcome)
  PROVE  /\ Shape' /\ OthersStay(c) /\ UNCHANGED <<page, history>>
         /\ cmd[c].pc = "planning"
         /\ cmd'[c].pc = "returned" /\ cmd'[c].kind = cmd[c].kind /\ cmd'[c].checksum = NoPlan
         /\ LogsStay /\ folder'.evidence = folder.evidence
         /\ \/ PlanStays /\ cmd'[c].result.outcome \in {"stuck", "unknown"} /\ "limit" \notin DOMAIN cmd'[c].result
            \/ folder' = writePlan(folder, turns + 1)
<1> DEFINE ok == outcome \in {"plan", "question"}
           asked == outcome = "question" /\ ~cmd[c].thatsAll
           r == [outcome  |-> IF ok THEN "plan" ELSE outcome, session |-> turns + 1, asked |-> asked,
                 checksum |-> IF ok THEN turns + 1 ELSE NoPlan]
<1>1. /\ cmd[c].pc = "planning" /\ UNCHANGED <<page, history>> /\ turns' = turns + 1
      /\ folder' = IF ok THEN writePlan(folder, turns + 1) ELSE folder
      /\ Result(c, r)
  BY DEF EndPlanning
<1>2. ~ok => r.outcome \in {"stuck", "unknown"} /\ "limit" \notin DOMAIN r
  OBVIOUS
<1> HIDE DEF r
<1>3. /\ CmdShape' /\ OthersStay(c)
      /\ cmd'[c].pc = "returned" /\ cmd'[c].kind = cmd[c].kind /\ cmd'[c].checksum = NoPlan
      /\ cmd'[c].result = r
  BY <1>1, ResultStep DEF Shape
<1>4. CASE ok
  <2>1. folder' = writePlan(folder, turns + 1)
    BY <1>1, <1>4
  <2>2. DOMAIN folder' = DOMAIN folder /\ LogsStay /\ folder'.evidence = folder.evidence
    BY <2>1, WritePlanStep DEF Shape
  <2>3. Shape'
    BY <1>1, <1>3, <2>2 DEF Shape, PageShape, DiskShape
  <2>4. QED BY <1>1, <1>3, <2>1, <2>2, <2>3
<1>5. CASE ~ok
  <2>1. folder' = folder
    BY <1>1, <1>5
  <2>2. Shape' /\ LogsStay /\ PlanStays
    BY <1>1, <1>3, <2>1 DEF Shape, PageShape, DiskShape, LogsStay, PlanStays
  <2>3. QED BY <1>1, <1>2, <1>3, <1>5, <2>1, <2>2
<1>6. QED BY <1>4, <1>5

LEMMA ReadPlanStep ==
  ASSUME Shape, NEW c \in Jobs, ReadPlan(c)
  PROVE  /\ Shape' /\ OthersStay(c) /\ UNCHANGED <<folder, page>>
         /\ cmd[c].pc = "approve" /\ cmd'[c].kind = cmd[c].kind
         /\ TakesStay /\ history'.shown = history.shown
         /\ \/ cmd'[c].pc = "returned" /\ cmd'[c].checksum = NoPlan /\ history'.acted = history.acted
            \/ /\ cmd'[c].pc = "open" /\ cmd'[c].checksum = cmd[c].checksum
               /\ ~IsAnotherPlan(cmd[c].checksum, folder.plan)
               /\ \E a : /\ history'.acted = history.acted \cup {a}
                         /\ a.plan = folder.plan /\ a.version = planVersionOf(folder)
                         /\ a.confirmed <=> cmd[c].checksum # NoPlan
<1> DEFINE confirmed == cmd[c].checksum # NoPlan
           a == [plan |-> folder.plan, version |-> planVersionOf(folder), confirmed |-> confirmed]
<1>1. /\ cmd[c].pc = "approve" /\ UNCHANGED <<folder, page, turns>>
      /\ \/ Result(c, Refused) /\ UNCHANGED history
         \/ /\ ~IsAnotherPlan(cmd[c].checksum, folder.plan)
            /\ cmd' = [cmd EXCEPT ![c].pc = "open"]
            /\ history' = [history EXCEPT !.acted = @ \cup {a}]
  BY DEF ReadPlan
<1>2. a.plan = folder.plan /\ a.version = planVersionOf(folder) /\ (a.confirmed <=> confirmed)
  OBVIOUS
<1> HIDE DEF a
<1>3. CASE Result(c, Refused) /\ UNCHANGED history
  BY <1>1, <1>3, ResultStep DEF Shape, PageShape, DiskShape, TakesStay
<1>4. CASE ~IsAnotherPlan(cmd[c].checksum, folder.plan) /\ cmd' = [cmd EXCEPT ![c].pc = "open"] /\ history' = [history EXCEPT !.acted = @ \cup {a}]
  <2>1. /\ CmdShape' /\ OthersStay(c)
        /\ cmd'[c].pc = "open" /\ cmd'[c].checksum = cmd[c].checksum /\ cmd'[c].kind = cmd[c].kind
    BY <1>4 DEF Shape, CmdShape, CmdFields, OthersStay
  <2>2. /\ DOMAIN history' = DOMAIN history /\ TakesStay /\ history'.shown = history.shown
        /\ history'.acted = history.acted \cup {a}
    BY <1>4 DEF Shape, DiskShape, TakesStay
  <2>3. Shape'
    BY <1>1, <2>1, <2>2 DEF Shape, PageShape, DiskShape
  <2>4. QED BY <1>1, <1>2, <1>4, <2>1, <2>2, <2>3
<1>5. QED BY <1>1, <1>3, <1>4

\* The logs of the folder once a browser server has opened one more.
LEMMA OpenStep ==
  ASSUME Shape, NEW c \in Jobs, Open(c)
  PROVE  /\ Shape' /\ OthersStay(c) /\ UNCHANGED page
         /\ cmd[c].pc = "open" /\ cmd'[c].kind = cmd[c].kind
         /\ PlanStays /\ folder'.evidence = folder.evidence
         /\ ActsStay /\ history'.overlapped = history.overlapped
         /\ \/ /\ cmd[c].kind = "repair" /\ folder.evidence # "stopped" /\ folder'.logs = folder.logs
               /\ cmd'[c].pc = "returned" /\ cmd'[c].checksum = NoPlan
            \/ /\ cmd'[c].pc = "browsing" /\ cmd'[c].checksum = cmd[c].checksum
               /\ cmd'[c].since = folder'.attempt
               /\ folder'.logs = LogOpened(folder.logs)
               /\ \/ /\ cmd[c].kind = "resume" /\ folder'.attempt = folder.attempt
                     /\ history'.recording = Recorded(history.recording)
                  \/ /\ cmd[c].kind # "resume" /\ folder'.attempt = Opened(folder.logs) - 1
                     /\ history'.recording = Recorded(<<>>)
<1> DEFINE began == IF IsNewAttempt(c) THEN Opened(folder.logs) - 1 ELSE folder.attempt
           known == [folder EXCEPT !.attempt = began]
           opened == [known EXCEPT !.logs = LogOpened(@)]
           base == IF cmd[c].kind = "resume" THEN history.recording ELSE <<>>
           recorded == Recorded(base)
           session == Talking(c)
           number == Opened(folder.logs)
<1>1. /\ cmd[c].pc = "open" /\ UNCHANGED page
      /\ \/ /\ cmd[c].kind = "repair" /\ folder.evidence # "stopped"
            /\ folder' = known /\ Result(c, Refused) /\ UNCHANGED <<turns, history>>
         \/ /\ folder' = opened
            /\ cmd' = [cmd EXCEPT ![c].pc = "browsing", ![c].since = began,
                                  ![c].session = session, ![c].log = number]
            /\ turns' = IF cmd[c].session = NoSession THEN turns + 1 ELSE turns
            /\ history' = [history EXCEPT !.recording = recorded]
  BY DEF Open, NoReplayToRepairFrom, Shape, DiskShape
<1>2. /\ DOMAIN known = DOMAIN folder /\ known.attempt = began
      /\ known.plan = folder.plan /\ known.kept = folder.kept /\ known.evidence = folder.evidence
      /\ known.logs = folder.logs
  BY DEF Shape, DiskShape
<1>3. /\ DOMAIN opened = DOMAIN folder /\ opened.attempt = began
      /\ opened.plan = folder.plan /\ opened.kept = folder.kept /\ opened.evidence = folder.evidence
      /\ opened.logs = LogOpened(folder.logs)
  <2> HIDE DEF known
  <2> DEFINE logs == LogOpened(known.logs)
  <2>1. opened = [known EXCEPT !.logs = logs]
    OBVIOUS
  <2>2. logs = LogOpened(folder.logs)
    BY <1>2
  <2> HIDE DEF logs
  <2>3. QED BY <1>2, <2>1, <2>2 DEF Shape, DiskShape
<1>4. /\ cmd[c].kind = "resume" => began = folder.attempt /\ recorded = Recorded(history.recording)
      /\ cmd[c].kind # "resume" => began = Opened(folder.logs) - 1 /\ recorded = Recorded(<<>>)
  BY DEF IsNewAttempt
<1> HIDE DEF began, known, opened, base, recorded, session, number
<1>5. CASE /\ cmd[c].kind = "repair" /\ folder.evidence # "stopped"
           /\ folder' = known /\ Result(c, Refused) /\ UNCHANGED <<turns, history>>
  <2>1. /\ CmdShape' /\ OthersStay(c) /\ cmd'[c].kind = cmd[c].kind
        /\ cmd'[c].pc = "returned" /\ cmd'[c].checksum = NoPlan
    BY <1>5, ResultStep DEF Shape
  <2>2. /\ Shape' /\ PlanStays /\ folder'.evidence = folder.evidence /\ folder'.logs = folder.logs
        /\ ActsStay /\ history'.overlapped = history.overlapped
    BY <1>1, <1>2, <1>5, <2>1 DEF Shape, PageShape, DiskShape, PlanStays, ActsStay
  <2>3. QED BY <1>1, <1>5, <2>1, <2>2
<1>6. CASE /\ folder' = opened
           /\ cmd' = [cmd EXCEPT ![c].pc = "browsing", ![c].since = began,
                                 ![c].session = session, ![c].log = number]
           /\ turns' = IF cmd[c].session = NoSession THEN turns + 1 ELSE turns
           /\ history' = [history EXCEPT !.recording = recorded]
  <2>1. /\ CmdShape' /\ OthersStay(c) /\ cmd'[c].kind = cmd[c].kind
        /\ cmd'[c].pc = "browsing" /\ cmd'[c].checksum = cmd[c].checksum /\ cmd'[c].since = began
    BY <1>6 DEF Shape, CmdShape, CmdFields, OthersStay
  <2>2. /\ DOMAIN history' = DOMAIN history /\ ActsStay /\ history'.overlapped = history.overlapped
        /\ history'.recording = recorded
    BY <1>6 DEF Shape, DiskShape, ActsStay
  <2>3. turns' \in Nat
    BY <1>6 DEF Shape, DiskShape
  <2>4. Shape' /\ PlanStays /\ folder'.evidence = folder.evidence
    BY <1>1, <1>3, <1>6, <2>1, <2>2, <2>3 DEF Shape, PageShape, DiskShape, PlanStays
  <2>5. QED BY <1>1, <1>3, <1>4, <1>6, <2>1, <2>2, <2>4
<1>7. QED BY <1>1, <1>5, <1>6

LEMMA EndSessionStep ==
  ASSUME Shape, NEW c \in Jobs, NEW ended, NEW steps, NEW named, EndSession(c, ended, steps, named)
  PROVE  /\ Shape' /\ OthersStay(c) /\ UNCHANGED <<page, history>>
         /\ cmd[c].pc = "browsing" /\ cmd'[c].pc = "ended"
         /\ cmd'[c].kind = cmd[c].kind /\ cmd'[c].checksum = cmd[c].checksum /\ cmd'[c].since = cmd[c].since
         /\ PlanStays /\ folder'.attempt = folder.attempt /\ folder'.evidence = folder.evidence
         /\ \E i : folder'.logs = [folder.logs EXCEPT ![i] = steps]
<1> DEFINE outcome == IF ended = "turnLimit" THEN "stuck" ELSE ended
           limit == ended = "turnLimit"
           session == IF named THEN cmd[c].session ELSE NoSession
           i == cmd[c].log
           logs == [folder.logs EXCEPT ![i] = steps]
<1>1. /\ cmd[c].pc = "browsing" /\ UNCHANGED <<page, turns, history>>
      /\ cmd' = [cmd EXCEPT ![c].pc = "ended", ![c].outcome = outcome, ![c].limit = limit, ![c].session = session]
      /\ folder' = [folder EXCEPT !.logs = logs]
  BY DEF EndSession, Shape, CmdShape, CmdFields, DiskShape
<1> HIDE DEF outcome, limit, session, i, logs
<1>2. /\ CmdShape' /\ OthersStay(c) /\ cmd'[c].pc = "ended"
      /\ cmd'[c].kind = cmd[c].kind /\ cmd'[c].checksum = cmd[c].checksum /\ cmd'[c].since = cmd[c].since
  BY <1>1 DEF Shape, CmdShape, CmdFields, OthersStay
<1>3. /\ DOMAIN folder' = DOMAIN folder /\ PlanStays /\ folder'.attempt = folder.attempt
      /\ folder'.evidence = folder.evidence /\ folder'.logs = logs
  BY <1>1 DEF Shape, DiskShape, PlanStays
<1>4. Shape'
  BY <1>1, <1>2, <1>3 DEF Shape, PageShape, DiskShape
<1>5. \E j : folder'.logs = [folder.logs EXCEPT ![j] = steps]
  BY <1>3 DEF logs
<1>6. QED BY <1>1, <1>2, <1>3, <1>4, <1>5

LEMMA AgainStep ==
  ASSUME Shape, NEW c \in Jobs, Relaunch(c) \/ Continue(c)
  PROVE  /\ Shape' /\ OthersStay(c) /\ UNCHANGED page
         /\ cmd[c].pc = "ended" /\ cmd'[c].pc = "browsing"
         /\ cmd'[c].kind = cmd[c].kind /\ cmd'[c].checksum = cmd[c].checksum /\ cmd'[c].since = cmd[c].since
         /\ PlanStays /\ folder'.attempt = folder.attempt /\ folder'.evidence = folder.evidence
         /\ ActsStay /\ history'.overlapped = history.overlapped
         /\ folder'.logs = LogOpened(folder.logs) /\ history'.recording = Recorded(history.recording)
<1> DEFINE logs == LogOpened(folder.logs)
           recorded == Recorded(history.recording)
           number == Opened(folder.logs)
<1>1. /\ cmd[c].pc = "ended" /\ UNCHANGED <<page, turns>>
      /\ folder' = [folder EXCEPT !.logs = logs] /\ history' = [history EXCEPT !.recording = recorded]
      /\ \E n : \/ cmd' = [cmd EXCEPT ![c].pc = "browsing", ![c].relaunches = n, ![c].log = number]
                \/ cmd' = [cmd EXCEPT ![c].pc = "browsing", ![c].continuations = n, ![c].log = number]
  <2>1. CASE Relaunch(c)
    BY <2>1 DEF Relaunch, Again, Shape, DiskShape, CmdShape, CmdFields
  <2>2. CASE Continue(c)
    BY <2>2 DEF Continue, Again, Shape, DiskShape, CmdShape, CmdFields
  <2>3. QED BY <2>1, <2>2
<1> HIDE DEF logs, recorded, number
<1>2. /\ CmdShape' /\ OthersStay(c) /\ cmd'[c].pc = "browsing"
      /\ cmd'[c].kind = cmd[c].kind /\ cmd'[c].checksum = cmd[c].checksum /\ cmd'[c].since = cmd[c].since
  <2>1. PICK n : \/ cmd' = [cmd EXCEPT ![c].pc = "browsing", ![c].relaunches = n, ![c].log = number]
                 \/ cmd' = [cmd EXCEPT ![c].pc = "browsing", ![c].continuations = n, ![c].log = number]
    BY <1>1
  <2>2. CASE cmd' = [cmd EXCEPT ![c].pc = "browsing", ![c].relaunches = n, ![c].log = number]
    BY <2>2 DEF Shape, CmdShape, CmdFields, OthersStay
  <2>3. CASE cmd' = [cmd EXCEPT ![c].pc = "browsing", ![c].continuations = n, ![c].log = number]
    BY <2>3 DEF Shape, CmdShape, CmdFields, OthersStay
  <2>4. QED BY <2>1, <2>2, <2>3
<1>3. /\ DOMAIN folder' = DOMAIN folder /\ PlanStays /\ folder'.attempt = folder.attempt
      /\ folder'.evidence = folder.evidence /\ folder'.logs = logs
  BY <1>1 DEF Shape, DiskShape, PlanStays
<1>4. /\ DOMAIN history' = DOMAIN history /\ ActsStay /\ history'.overlapped = history.overlapped
      /\ history'.recording = recorded
  BY <1>1 DEF Shape, DiskShape, ActsStay
<1>5. Shape'
  BY <1>1, <1>2, <1>3, <1>4 DEF Shape, PageShape, DiskShape
<1>6. QED BY <1>1, <1>2, <1>3, <1>4, <1>5 DEF logs, recorded

LEMMA ConcludeStep ==
  ASSUME Shape, NEW c \in Jobs, Conclude(c)
  PROVE  /\ Shape' /\ OthersStay(c) /\ UNCHANGED <<page, history>>
         /\ cmd[c].pc = "ended"
         /\ cmd'[c].pc = "returned" /\ cmd'[c].kind = cmd[c].kind /\ cmd'[c].checksum = NoPlan
         /\ PlanStays /\ LogsStay /\ folder'.evidence = folder.evidence
<1> DEFINE numbers == attemptSessionMarkdowns(cmd[c].since)
           steps   == Steps(numbers)
           suite   == [logs |-> numbers, spec |-> renderAuthoredSpec(steps, <<>>)]
<1>1. /\ cmd[c].pc = "ended" /\ UNCHANGED <<page, turns, history>>
      /\ folder' = [folder EXCEPT !.suite = suite] \/ UNCHANGED folder
      /\ \E r : Result(c, r)
  BY Zenon DEF Conclude
<1> HIDE DEF suite
<1>2. /\ CmdShape' /\ OthersStay(c)
      /\ cmd'[c].pc = "returned" /\ cmd'[c].kind = cmd[c].kind /\ cmd'[c].checksum = NoPlan
  BY <1>1, ResultStep DEF Shape
<1>3. DOMAIN folder' = DOMAIN folder /\ PlanStays /\ LogsStay /\ folder'.evidence = folder.evidence
  BY <1>1 DEF Shape, DiskShape, PlanStays, LogsStay
<1>4. Shape'
  BY <1>1, <1>2, <1>3 DEF Shape, PageShape, DiskShape
<1>5. QED BY <1>1, <1>2, <1>3, <1>4

LEMMA EndReplayStep ==
  ASSUME Shape, NEW c \in Jobs, NEW seen, EndReplay(c, seen)
  PROVE  /\ Shape' /\ OthersStay(c) /\ UNCHANGED <<page, history>>
         /\ cmd[c].pc = "replay"
         /\ cmd'[c].pc = "returned" /\ cmd'[c].kind = cmd[c].kind /\ cmd'[c].checksum = NoPlan
         /\ PlanStays /\ LogsStay
         /\ cmd'[c].result.outcome = "stopped" => folder'.evidence = "stopped"
<1> DEFINE r == [outcome |-> seen]
<1>1. /\ cmd[c].pc = "replay" /\ UNCHANGED <<page, turns, history>>
      /\ folder' = IF seen = "failed" THEN folder ELSE [folder EXCEPT !.evidence = seen]
      /\ Result(c, r)
  BY DEF EndReplay
<1>2. r.outcome = seen
  OBVIOUS
<1> HIDE DEF r
<1>3. /\ CmdShape' /\ OthersStay(c)
      /\ cmd'[c].pc = "returned" /\ cmd'[c].kind = cmd[c].kind /\ cmd'[c].checksum = NoPlan
      /\ cmd'[c].result = r
  BY <1>1, ResultStep DEF Shape
<1>4. /\ DOMAIN folder' = DOMAIN folder /\ PlanStays /\ LogsStay
      /\ seen = "stopped" => folder'.evidence = "stopped"
  BY <1>1 DEF Shape, DiskShape, PlanStays, LogsStay
<1>5. Shape'
  BY <1>1, <1>3, <1>4 DEF Shape, PageShape, DiskShape
<1>6. QED BY <1>1, <1>2, <1>3, <1>4, <1>5

\* The page when there is no plan, and a command of such a page.
PageEarly(p) == p.cards \subseteq {"start", "stuck"} /\ p.awaiting = "none" /\ p.browsing = FALSE
Early(r) ==
  \/ r.pc \in {"off", "planning"}
  \/ r.pc = "returned" /\ r.kind = "plan" /\ r.result.outcome \in {"stuck", "unknown"} /\ "limit" \notin DOMAIN r.result

LEMMA OutcomeArrivesStep ==
  ASSUME Shape, NEW c \in Jobs, OutcomeArrives(c)
  PROVE  /\ Shape' /\ OthersStay(c) /\ UNCHANGED folder /\ TakesStay /\ history'.acted = history.acted
         /\ cmd[c].pc = "returned" /\ cmd[c].kind # "verify"
         /\ \/ cmd'[c] = Idle
            \/ cmd'[c].pc = "replay" /\ cmd'[c].kind = "verify" /\ cmd'[c].checksum = NoPlan
         /\ \/ history'.shown = history.shown /\ page'.checksum = page.checksum
            \/ history'.shown = history.shown \cup {page'.checksum}
         /\ Early(cmd[c]) /\ PageEarly(page) => PageEarly(page') /\ cmd'[c] = Idle
<1> DEFINE r == cmd[c].result
           session == Told(r)
           before == [page EXCEPT !.busy = FALSE, !.session = session]
           may == "limit" \in DOMAIN r /\ r.limit /\ session # NoSession
<1> HIDE DEF session
<1>1. /\ cmd[c].pc = "returned" /\ cmd[c].kind \in {"plan", "approve", "resume", "repair"}
      /\ UNCHANGED <<folder, turns>>
      /\ \/ /\ r.outcome = "plan"
            /\ page' = [before EXCEPT !.planning = TRUE, !.checksum = r.checksum, !.cards = @ \cup {"plan"},
                                      !.awaiting = IF r.asked THEN "plan" ELSE @]
            /\ Done(c) /\ history' = [history EXCEPT !.shown = @ \cup {r.checksum}]
         \/ /\ r.outcome = "question"
            /\ page' = [before EXCEPT !.browsing = TRUE, !.awaiting = "question", !.cards = @ \cup {"question"}]
            /\ Done(c) /\ UNCHANGED history
         \/ r.outcome = "done" /\ runSuite(c, "verify", before) /\ UNCHANGED history
         \/ /\ r.outcome = "stuck"
            /\ page' = [before EXCEPT !.cards = @ \cup {IF may THEN "limit" ELSE "stuck"}]
            /\ Done(c) /\ UNCHANGED history
         \/ r.outcome \in {"unknown", "error"} /\ page' = before /\ Done(c) /\ UNCHANGED history
  BY DEF OutcomeArrives, session
<1>2. /\ DOMAIN before = PageFields /\ before.cards = page.cards /\ before.awaiting = page.awaiting
      /\ before.checksum = page.checksum /\ before.browsing = page.browsing
  BY DEF Shape, PageShape, PageFields
<1>3. Early(cmd[c]) => r.outcome \in {"stuck", "unknown"} /\ ~may
  BY <1>1 DEF Early
<1> HIDE DEF before, may, r
<1>4. CASE /\ r.outcome = "plan"
           /\ page' = [before EXCEPT !.planning = TRUE, !.checksum = r.checksum, !.cards = @ \cup {"plan"},
                                     !.awaiting = IF r.asked THEN "plan" ELSE @]
           /\ Done(c) /\ history' = [history EXCEPT !.shown = @ \cup {r.checksum}]
  <2>1. CmdShape' /\ OthersStay(c) /\ cmd'[c] = Idle
    BY <1>4, DoneStep DEF Shape
  <2>2. PageShape' /\ page'.checksum = r.checksum
    BY <1>2, <1>4 DEF PageShape, PageFields
  <2>3. /\ DOMAIN history' = DOMAIN history /\ TakesStay /\ history'.acted = history.acted
        /\ history'.shown = history.shown \cup {r.checksum}
    BY <1>4 DEF Shape, DiskShape, TakesStay
  <2>4. QED BY <1>1, <1>3, <1>4, <2>1, <2>2, <2>3 DEF Shape, DiskShape
<1>5. CASE /\ r.outcome = "question"
           /\ page' = [before EXCEPT !.browsing = TRUE, !.awaiting = "question", !.cards = @ \cup {"question"}]
           /\ Done(c) /\ UNCHANGED history
  <2>1. CmdShape' /\ OthersStay(c) /\ cmd'[c] = Idle
    BY <1>5, DoneStep DEF Shape
  <2>2. PageShape' /\ page'.checksum = page.checksum
    BY <1>2, <1>5 DEF PageShape, PageFields
  <2>3. QED BY <1>1, <1>3, <1>5, <2>1, <2>2 DEF Shape, DiskShape, TakesStay
<1>6. CASE r.outcome = "done" /\ runSuite(c, "verify", before) /\ UNCHANGED history
  <2>1. /\ CmdShape' /\ PageShape' /\ OthersStay(c)
        /\ cmd'[c].pc = "replay" /\ cmd'[c].kind = "verify" /\ cmd'[c].checksum = NoPlan
        /\ page'.checksum = page.checksum
    BY <1>2, <1>6, ReplayStep DEF Shape
  <2>2. QED BY <1>1, <1>3, <1>6, <2>1 DEF Shape, DiskShape, TakesStay
<1>7. CASE /\ r.outcome = "stuck"
           /\ page' = [before EXCEPT !.cards = @ \cup {IF may THEN "limit" ELSE "stuck"}]
           /\ Done(c) /\ UNCHANGED history
  <2>1. CmdShape' /\ OthersStay(c) /\ cmd'[c] = Idle
    BY <1>7, DoneStep DEF Shape
  <2>2. /\ PageShape' /\ page'.checksum = page.checksum
        /\ page'.awaiting = page.awaiting /\ page'.browsing = page.browsing
        /\ ~may => page'.cards = page.cards \cup {"stuck"}
    BY <1>2, <1>7 DEF PageShape, PageFields
  <2>3. Early(cmd[c]) /\ PageEarly(page) => PageEarly(page')
    BY <1>3, <2>2 DEF PageEarly
  <2>4. QED BY <1>1, <2>1, <2>2, <2>3, <1>7 DEF Shape, DiskShape, TakesStay
<1>8. CASE r.outcome \in {"unknown", "error"} /\ page' = before /\ Done(c) /\ UNCHANGED history
  <2>1. CmdShape' /\ OthersStay(c) /\ cmd'[c] = Idle
    BY <1>8, DoneStep DEF Shape
  <2>2. PageShape' /\ page'.checksum = page.checksum /\ (PageEarly(page) => PageEarly(page'))
    BY <1>2, <1>8 DEF PageShape, PageEarly
  <2>3. QED BY <1>1, <2>1, <2>2, <1>8 DEF Shape, DiskShape, TakesStay
<1>9. QED BY <1>1, <1>4, <1>5, <1>6, <1>7, <1>8

LEMMA ReplayArrivesStep ==
  ASSUME Shape, NEW c \in Jobs, ReplayArrives(c)
  PROVE  /\ Shape' /\ OthersStay(c) /\ UNCHANGED <<folder, history>>
         /\ cmd[c].pc = "returned" /\ cmd[c].kind = "verify"
         /\ \/ cmd'[c] = Idle
            \/ cmd'[c].pc = "planning" /\ cmd'[c].kind = "plan" /\ cmd'[c].checksum = NoPlan
            \/ /\ cmd'[c].pc = "open" /\ cmd'[c].kind = "repair" /\ cmd'[c].checksum = NoPlan
               /\ cmd[c].result.outcome = "stopped"
         /\ page'.checksum = page.checksum
<1> DEFINE before == [page EXCEPT !.busy = FALSE]
           seen == cmd[c].result.outcome
           repairing == Repairing(before)
           card == IF seen = "stopped" THEN "replan" ELSE "ready"
<1>1. /\ cmd[c].pc = "returned" /\ cmd[c].kind = "verify" /\ UNCHANGED <<folder, turns, history>>
      /\ \/ seen = "stopped" /\ resumeAuthoring(c, "repair", repairing)
         \/ page' = [before EXCEPT !.cards = @ \cup {card}] /\ Done(c)
  BY DEF ReplayArrives
<1>2. DOMAIN before = PageFields /\ before.checksum = page.checksum
  BY DEF Shape, PageShape, PageFields
<1>3. DOMAIN repairing = PageFields /\ repairing.checksum = page.checksum
  <2> HIDE DEF before
  <2>1. QED BY <1>2 DEF Repairing, PageFields
<1> HIDE DEF before, repairing, card
<1>4. CASE seen = "stopped" /\ resumeAuthoring(c, "repair", repairing)
  BY <1>1, <1>3, <1>4, ResumeStep DEF Shape, DiskShape
<1>5. CASE page' = [before EXCEPT !.cards = @ \cup {card}] /\ Done(c)
  <2>1. CmdShape' /\ OthersStay(c) /\ cmd'[c] = Idle
    BY <1>5, DoneStep DEF Shape
  <2>2. PageShape' /\ page'.checksum = page.checksum
    BY <1>2, <1>5 DEF PageShape, PageFields
  <2>3. QED BY <1>1, <2>1, <2>2 DEF Shape, DiskShape
<1>6. QED BY <1>1, <1>4, <1>5

LEMMA RunsArriveStep ==
  ASSUME Shape, NEW c \in Jobs, RunsArrive(c)
  PROVE  /\ Shape' /\ OthersStay(c) /\ UNCHANGED <<folder, history>>
         /\ cmd[c].pc = "returned" /\ cmd[c].kind = "rerun"
         /\ cmd'[c] = Idle /\ page'.checksum = page.checksum
<1> DEFINE more == IF cmd[c].result.outcome = "failed" THEN {} ELSE {"ready"}
<1>1. /\ cmd[c].pc = "returned" /\ cmd[c].kind = "rerun" /\ UNCHANGED <<folder, turns, history>>
      /\ page' = [page EXCEPT !.busy = FALSE, !.cards = @ \cup more] /\ Done(c)
  BY DEF RunsArrive
<1> HIDE DEF more
<1>2. PageShape' /\ page'.checksum = page.checksum
  BY <1>1 DEF Shape, PageShape, PageFields
<1>3. CmdShape' /\ OthersStay(c) /\ cmd'[c] = Idle
  BY <1>1, DoneStep DEF Shape
<1>4. QED BY <1>1, <1>2, <1>3 DEF Shape, DiskShape

LEMMA ChoosesStep ==
  ASSUME DiskShape, Chooses
  PROVE  /\ DiskShape' /\ UNCHANGED folder /\ ActsStay /\ history'.recording = history.recording
         /\ ~history'.overlapped => ~history.overlapped /\ \A d \in Jobs : cmd[d].pc = "off"
<1> DEFINE over == history.overlapped \/ Running # {}
           clicks == history.clicks + 1
<1>1. history' = [history EXCEPT !.clicks = clicks, !.overlapped = over] /\ UNCHANGED <<folder, turns>>
  BY DEF Chooses, DiskShape
<1>2. ~over => ~history.overlapped /\ \A d \in Jobs : cmd[d].pc = "off"
  BY DEF Running
<1> HIDE DEF over, clicks
<1>3. /\ DOMAIN history' = DOMAIN history /\ ActsStay /\ history'.recording = history.recording
      /\ history'.overlapped = over
  BY <1>1 DEF DiskShape, ActsStay
<1>4. ~history'.overlapped => ~over
  BY <1>3
<1>5. QED BY <1>1, <1>2, <1>3, <1>4 DEF DiskShape

\* A choice that starts a command.
Chosen(c) == Answer(c) \/ ThatsAll(c) \/ \E button \in page.cards : Press(c, button)

\* What it does to the page, and which command starts on the page before.
Begins(c, before) ==
  /\ DOMAIN before = PageFields /\ before.checksum = page.checksum
  /\ before.cards \subseteq page.cards /\ before.awaiting = "none"
  /\ Chooses
  /\ \/ \E thatsAll : startPlanning(c, thatsAll, before)
     \/ startApproved(c, before) /\ ~PageEarly(page)
     \/ resumeAuthoring(c, "resume", before) /\ ~PageEarly(page)
     \/ runSuite(c, "rerun", before) /\ ~PageEarly(page)

LEMMA ChosenStep ==
  ASSUME Shape, NEW c \in Jobs, Chosen(c)
  PROVE  /\ Shape' /\ OthersStay(c) /\ UNCHANGED folder
         /\ ActsStay /\ history'.recording = history.recording
         /\ ~history'.overlapped => ~history.overlapped /\ \A d \in Jobs : cmd[d].pc = "off"
         /\ page'.checksum = page.checksum
         /\ \/ cmd'[c].pc = "planning" /\ cmd'[c].kind = "plan" /\ cmd'[c].checksum = NoPlan
            \/ cmd'[c].pc = "approve" /\ cmd'[c].kind = "approve" /\ cmd'[c].checksum = page.checksum
            \/ cmd'[c].pc = "open" /\ cmd'[c].kind = "resume" /\ cmd'[c].checksum = NoPlan
            \/ cmd'[c].pc = "replay" /\ cmd'[c].kind = "rerun" /\ cmd'[c].checksum = NoPlan
         /\ PageEarly(page) => PageEarly(page') /\ cmd'[c].pc = "planning"
<1>1. \E before : Begins(c, before)
  <2>1. ASSUME NEW button \in page.cards, Press(c, button)
        PROVE  \E b : Begins(c, b)
    <3> DEFINE before == [page EXCEPT !.cards = @ \ {button}, !.awaiting = "none"]
    <3>1. /\ DOMAIN before = PageFields /\ before.checksum = page.checksum
          /\ before.cards \subseteq page.cards /\ before.awaiting = "none"
      BY DEF Shape, PageShape, PageFields
    <3>2. /\ Chooses
          /\ \/ startPlanning(c, FALSE, before)
             \/ button = "plan" /\ startApproved(c, before)
             \/ button \in {"question", "limit"} /\ resumeAuthoring(c, "resume", before)
             \/ button \in {"ready", "replan"} /\ runSuite(c, "rerun", before)
      BY <2>1 DEF Press
    <3>3. PageEarly(page) => button \in {"start", "stuck"}
      BY DEF PageEarly
    <3> HIDE DEF before
    <3>4. QED BY <3>1, <3>2, <3>3 DEF Begins
  <2> DEFINE before == [page EXCEPT !.awaiting = "none"]
  <2>2. /\ DOMAIN before = PageFields /\ before.checksum = page.checksum
        /\ before.cards \subseteq page.cards /\ before.awaiting = "none"
    BY DEF Shape, PageShape, PageFields
  <2>3. ASSUME Answer(c)
        PROVE  \E b : Begins(c, b)
    <3>1. /\ Chooses
          /\ \/ startPlanning(c, FALSE, before)
             \/ page.awaiting = "change" /\ startApproved(c, before)
             \/ page.awaiting = "question" /\ resumeAuthoring(c, "resume", before)
      BY <2>3 DEF Answer
    <3> HIDE DEF before
    <3>2. QED BY <2>2, <3>1 DEF PageEarly, Begins
  <2>4. ASSUME ThatsAll(c)
        PROVE  \E b : Begins(c, b)
    <3>1. /\ Chooses
          /\ \/ startPlanning(c, TRUE, before)
             \/ page.browsing /\ resumeAuthoring(c, "resume", before)
      BY <2>4 DEF ThatsAll
    <3> HIDE DEF before
    <3>2. QED BY <2>2, <3>1 DEF PageEarly, Begins
  <2>5. QED BY <2>1, <2>3, <2>4 DEF Chosen
<1>2. PICK before : Begins(c, before)
  BY <1>1
<1>3. /\ DiskShape' /\ UNCHANGED folder /\ ActsStay /\ history'.recording = history.recording
      /\ ~history'.overlapped => ~history.overlapped /\ \A d \in Jobs : cmd[d].pc = "off"
  BY <1>2, ChoosesStep DEF Shape, Begins
<1>4. ASSUME NEW thatsAll, startPlanning(c, thatsAll, before)
      PROVE  /\ CmdShape' /\ PageShape' /\ OthersStay(c) /\ page'.checksum = page.checksum
             /\ cmd'[c].pc = "planning" /\ cmd'[c].kind = "plan" /\ cmd'[c].checksum = NoPlan
             /\ PageEarly(page) => PageEarly(page')
  <2>1. /\ CmdShape' /\ PageShape' /\ OthersStay(c)
        /\ cmd'[c].pc = "planning" /\ cmd'[c].kind = "plan" /\ cmd'[c].checksum = NoPlan
        /\ page'.cards = before.cards /\ page'.awaiting = before.awaiting
        /\ page'.checksum = before.checksum /\ page'.browsing = FALSE
    BY <1>2, <1>4, PlanningStep DEF Shape, Begins
  <2>2. /\ before.checksum = page.checksum /\ before.cards \subseteq page.cards /\ before.awaiting = "none"
    BY <1>2 DEF Begins
  <2>3. PageEarly(page) => PageEarly(page')
    BY <2>1, <2>2 DEF PageEarly
  <2>4. QED BY <2>1, <2>2, <2>3
<1>5. ASSUME startApproved(c, before)
      PROVE  /\ CmdShape' /\ PageShape' /\ OthersStay(c) /\ page'.checksum = page.checksum
             /\ cmd'[c].pc = "approve" /\ cmd'[c].kind = "approve" /\ cmd'[c].checksum = page.checksum
  BY <1>2, <1>5, ApprovedStep DEF Shape, Begins
<1>6. ASSUME resumeAuthoring(c, "resume", before)
      PROVE  /\ CmdShape' /\ PageShape' /\ OthersStay(c) /\ page'.checksum = page.checksum
             /\ cmd'[c].checksum = NoPlan
             /\ \/ cmd'[c].pc = "planning" /\ cmd'[c].kind = "plan"
                \/ cmd'[c].pc = "open" /\ cmd'[c].kind = "resume"
  BY <1>2, <1>6, ResumeStep DEF Shape, Begins
<1>7. ASSUME runSuite(c, "rerun", before)
      PROVE  /\ CmdShape' /\ PageShape' /\ OthersStay(c) /\ page'.checksum = page.checksum
             /\ cmd'[c].pc = "replay" /\ cmd'[c].kind = "rerun" /\ cmd'[c].checksum = NoPlan
  BY <1>2, <1>7, ReplayStep DEF Shape, Begins
<1>8. \/ \E thatsAll : startPlanning(c, thatsAll, before)
      \/ startApproved(c, before) /\ ~PageEarly(page)
      \/ resumeAuthoring(c, "resume", before) /\ ~PageEarly(page)
      \/ runSuite(c, "rerun", before) /\ ~PageEarly(page)
  BY <1>2 DEF Begins
<1>9. QED BY <1>3, <1>4, <1>5, <1>6, <1>7, <1>8 DEF Shape

LEMMA ChangePlanStep ==
  ASSUME Shape, ChangePlan
  PROVE  /\ Shape' /\ UNCHANGED <<folder, cmd>> /\ ActsStay /\ history'.recording = history.recording
         /\ ~history'.overlapped => ~history.overlapped
         /\ page'.checksum = page.checksum /\ ~PageEarly(page)
<1>1. /\ "plan" \in page.cards /\ Chooses /\ UNCHANGED cmd
      /\ page' = [page EXCEPT !.cards = @ \ {"plan"}, !.awaiting = "change"]
  BY DEF ChangePlan
<1>2. PageShape' /\ page'.checksum = page.checksum /\ ~PageEarly(page)
  BY <1>1 DEF Shape, PageShape, PageFields, PageEarly
<1>3. /\ DiskShape' /\ UNCHANGED folder /\ ActsStay /\ history'.recording = history.recording
      /\ ~history'.overlapped => ~history.overlapped
  BY <1>1, ChoosesStep DEF Shape
<1>4. QED BY <1>1, <1>2, <1>3 DEF Shape, CmdShape

LEMMA PlanInTerminalStep ==
  ASSUME Shape, PlanInTerminal
  PROVE  /\ Shape' /\ UNCHANGED <<cmd, page>> /\ ActsStay /\ TakesStay
         /\ LogsStay /\ folder'.evidence = folder.evidence
         /\ folder' = writePlan(folder, turns + 1)
<1> DEFINE n == history.replans + 1
<1>1. /\ turns' = turns + 1 /\ folder' = writePlan(folder, turns + 1)
      /\ history' = [history EXCEPT !.replans = n] /\ UNCHANGED <<cmd, page>>
  BY DEF PlanInTerminal, Shape, DiskShape
<1> HIDE DEF n
<1>2. DOMAIN folder' = DOMAIN folder /\ LogsStay /\ folder'.evidence = folder.evidence
  BY <1>1, WritePlanStep DEF Shape
<1>3. DOMAIN history' = DOMAIN history /\ ActsStay /\ TakesStay
  BY <1>1 DEF Shape, DiskShape, ActsStay, TakesStay
<1>4. QED BY <1>1, <1>2, <1>3 DEF Shape, CmdShape, PageShape, DiskShape

-----------------------------------------------------------------------------
(* The plan acted on                                                       *)

\* The kinds of command that come to a step.
KindOK(r) ==
  /\ r.pc = "planning" => r.kind = "plan"
  /\ r.pc = "approve" => r.kind = "approve"
  /\ r.pc \in {"open", "browsing", "ended"} => r.kind \in {"approve", "resume", "repair"}

\* A checksum in hand was shown.
WasShown(checksum) == checksum # NoPlan => checksum \in history.shown

PlanType == folder.plan \in Nat /\ folder.kept \in Seq(Nat)

WithoutAPlan ==
  folder.plan = NoPlan => history.acted = {} /\ PageEarly(page) /\ \A c \in Jobs : Early(cmd[c])

\* ActedOnIsOnRecord, for one plan.
OnRecord(a) ==
  /\ a.version \in 1 .. planVersionOf(folder) /\ PlanOnDisk(a.version) = a.plan
  /\ a.confirmed => a.plan \in history.shown

PlanInv ==
  /\ Shape
  /\ PlanType
  /\ WithoutAPlan
  /\ \A a \in history.acted : OnRecord(a)
  /\ WasShown(page.checksum)
  /\ \A c \in Jobs : KindOK(cmd[c]) /\ WasShown(cmd[c].checksum)

LEMMA IdleOK == KindOK(Idle) /\ Early(Idle)
BY IdleFields DEF KindOK, Early

LEMMA ShownStays ==
  ASSUME history.shown \subseteq history'.shown, NEW x, WasShown(x)
  PROVE  WasShown(x)'
BY DEF WasShown

\* A step of one command that leaves the plans and what was acted on alone.
LEMMA PlansStayed ==
  ASSUME PlanInv, NEW c \in Jobs, Shape', OthersStay(c), PlanStays,
         history'.acted = history.acted, history.shown \subseteq history'.shown,
         KindOK(cmd'[c]), WasShown(cmd[c].checksum)', WasShown(page.checksum)',
         folder.plan = NoPlan => PageEarly(page') /\ Early(cmd'[c])
  PROVE  PlanInv'
<1>1. PlanType'
  BY DEF PlanInv, PlanType, PlanStays
<1>2. WithoutAPlan'
  BY DEF PlanInv, WithoutAPlan, PlanStays, OthersStay
<1>3. ASSUME NEW a \in history'.acted PROVE OnRecord(a)'
  <2>1. OnRecord(a)
    BY DEF PlanInv
  <2>2. PlanOnDisk(a.version)' = PlanOnDisk(a.version) /\ planVersionOf(folder') = planVersionOf(folder)
    BY DEF PlanOnDisk, planVersionOf, PlanStays
  <2>3. QED BY <2>1, <2>2 DEF OnRecord
<1>4. ASSUME NEW d \in Jobs PROVE KindOK(cmd'[d]) /\ WasShown(cmd[d].checksum)'
  <2>1. CASE d = c
    BY <2>1
  <2>2. CASE d # c
    <3>1. cmd'[d] = cmd[d] /\ KindOK(cmd[d]) /\ WasShown(cmd[d].checksum)
      BY <2>2 DEF PlanInv, OthersStay
    <3>2. QED BY <3>1, ShownStays DEF WasShown
  <2>3. QED BY <2>1, <2>2
<1>5. QED BY <1>1, <1>2, <1>3, <1>4 DEF PlanInv

\* A plan that is written leaves every version where it was.
LEMMA VersionsStay ==
  ASSUME PlanType, folder.plan # NoPlan, NEW plan,
         folder'.plan = plan, folder'.kept = archivePlan(folder),
         NEW n \in 1 .. planVersionOf(folder)
  PROVE  n \in 1 .. planVersionOf(folder') /\ PlanOnDisk(n)' = PlanOnDisk(n)
<1> DEFINE kept == folder.kept
           all == Append(kept, folder.plan)
<1>1. kept \in Seq(Nat) /\ all \in Seq(Nat) /\ Len(all) = Len(kept) + 1 /\ n \in 1 .. Len(all)
  BY DEF PlanType, planVersionOf
<1>2. folder'.kept = all
  BY DEF archivePlan
<1>3. PlanOnDisk(n)' = Append(all, plan)[n]
  BY <1>2 DEF PlanOnDisk
<1>4. PlanOnDisk(n) = all[n]
  BY DEF PlanOnDisk
<1>5. Len(folder'.kept) = Len(kept) + 1
  BY <1>1, <1>2
<1> HIDE DEF all
<1>6. Append(all, plan)[n] = all[n]
  BY <1>1
<1>7. n \in 1 .. planVersionOf(folder')
  BY <1>1, <1>5 DEF planVersionOf
<1>8. QED BY <1>3, <1>4, <1>6, <1>7

\* A plan is written, by a command or from the terminal.
LEMMA PlanWritten ==
  ASSUME PlanInv, Shape', folder' = writePlan(folder, turns + 1), ActsStay, page' = page,
         \A c \in Jobs : KindOK(cmd'[c]) /\ WasShown(cmd[c].checksum)'
  PROVE  PlanInv'
<1>1. /\ folder'.plan = turns + 1 /\ folder'.kept = archivePlan(folder)
      /\ turns \in Nat
  BY WritePlanStep DEF PlanInv, Shape, DiskShape
<1>2. PlanType'
  <2>1. archivePlan(folder) \in Seq(Nat)
    <3>1. folder.plan \in Nat /\ folder.kept \in Seq(Nat)
      BY DEF PlanInv, PlanType
    <3>2. Append(folder.kept, folder.plan) \in Seq(Nat)
      BY <3>1
    <3>3. QED BY <3>1, <3>2 DEF archivePlan
  <2>2. turns + 1 \in Nat
    BY <1>1
  <2>3. QED BY <1>1, <2>1, <2>2 DEF PlanType
<1>3. WithoutAPlan'
  BY <1>1 DEF WithoutAPlan, NoPlan
<1>4. ASSUME NEW a \in history'.acted PROVE OnRecord(a)'
  <2>1. OnRecord(a) /\ folder.plan # NoPlan /\ PlanType
    BY DEF PlanInv, WithoutAPlan, ActsStay
  <2>2. PICK n : n = a.version
    OBVIOUS
  <2>3. n \in 1 .. planVersionOf(folder') /\ PlanOnDisk(n)' = PlanOnDisk(n)
    BY <1>1, <2>1, <2>2, VersionsStay DEF OnRecord
  <2>4. QED BY <2>1, <2>2, <2>3 DEF OnRecord, ActsStay
<1>5. WasShown(page.checksum)'
  BY DEF PlanInv, WasShown, ActsStay
<1>6. QED BY <1>2, <1>3, <1>4, <1>5 DEF PlanInv

LEMMA PlanActedOn ==
  ASSUME PlanInv, NEW c \in Jobs, ReadPlan(c)
  PROVE  PlanInv'
<1>1. /\ Shape' /\ OthersStay(c) /\ UNCHANGED <<folder, page>>
      /\ cmd[c].pc = "approve" /\ cmd'[c].kind = cmd[c].kind
      /\ history'.shown = history.shown
      /\ \/ cmd'[c].pc = "returned" /\ cmd'[c].checksum = NoPlan /\ history'.acted = history.acted
         \/ /\ cmd'[c].pc = "open" /\ cmd'[c].checksum = cmd[c].checksum
            /\ ~IsAnotherPlan(cmd[c].checksum, folder.plan)
            /\ \E a : /\ history'.acted = history.acted \cup {a}
                      /\ a.plan = folder.plan /\ a.version = planVersionOf(folder)
                      /\ a.confirmed <=> cmd[c].checksum # NoPlan
  BY ReadPlanStep DEF PlanInv
<1>2. folder.plan # NoPlan
  BY <1>1 DEF PlanInv, WithoutAPlan, Early
<1>3. KindOK(cmd'[c]) /\ WasShown(cmd[c].checksum)'
  BY <1>1 DEF PlanInv, KindOK, WasShown
<1>4. WasShown(page.checksum)'
  BY <1>1 DEF PlanInv, WasShown
<1>5. CASE history'.acted = history.acted
  BY <1>1, <1>2, <1>3, <1>4, <1>5, PlansStayed DEF PlanStays
<1>6. ASSUME ~IsAnotherPlan(cmd[c].checksum, folder.plan),
             NEW a, history'.acted = history.acted \cup {a},
             a.plan = folder.plan, a.version = planVersionOf(folder), a.confirmed <=> cmd[c].checksum # NoPlan
      PROVE  PlanInv'
  <2>1. OnRecord(a)'
    <3>1. PlanOnDisk(a.version) = folder.plan /\ a.version \in 1 .. planVersionOf(folder)
      BY <1>6 DEF PlanInv, PlanType, PlanOnDisk, planVersionOf
    <3>2. PlanOnDisk(a.version)' = PlanOnDisk(a.version)
      BY <1>1 DEF PlanOnDisk
    <3>3. a.confirmed => a.plan \in history.shown
      BY <1>6 DEF PlanInv, WasShown, IsAnotherPlan
    <3>4. QED BY <1>1, <1>6, <3>1, <3>2, <3>3 DEF OnRecord
  <2>2. ASSUME NEW b \in history'.acted PROVE OnRecord(b)'
    <3>1. CASE b = a
      BY <2>1, <3>1
    <3>2. CASE b \in history.acted
      <4>1. OnRecord(b)
        BY <3>2 DEF PlanInv
      <4>2. QED BY <1>1, <4>1 DEF OnRecord, PlanOnDisk
    <3>3. QED BY <1>6, <3>1, <3>2
  <2>3. ASSUME NEW d \in Jobs PROVE KindOK(cmd'[d]) /\ WasShown(cmd[d].checksum)'
    <3>1. CASE d = c
      BY <1>3, <3>1
    <3>2. CASE d # c
      BY <1>1, <3>2 DEF PlanInv, OthersStay, WasShown
    <3>3. QED BY <3>1, <3>2
  <2>4. PlanType' /\ WithoutAPlan'
    BY <1>1, <1>2 DEF PlanInv, PlanType, WithoutAPlan
  <2>5. QED BY <1>1, <1>4, <2>2, <2>3, <2>4 DEF PlanInv
<1>7. QED BY <1>1, <1>5, <1>6

LEMMA PlanStep ==
  ASSUME PlanInv, [Next]_authoringVars
  PROVE  PlanInv'
<1>1. ASSUME NEW c \in Jobs, NEW outcome \in {"plan", "question", "stuck", "unknown"}, EndPlanning(c, outcome)
      PROVE  PlanInv'
  <2>1. /\ Shape' /\ OthersStay(c) /\ UNCHANGED <<page, history>>
        /\ cmd[c].pc = "planning"
        /\ cmd'[c].pc = "returned" /\ cmd'[c].kind = cmd[c].kind /\ cmd'[c].checksum = NoPlan
        /\ \/ PlanStays /\ cmd'[c].result.outcome \in {"stuck", "unknown"} /\ "limit" \notin DOMAIN cmd'[c].result
           \/ folder' = writePlan(folder, turns + 1)
    BY <1>1, EndPlanningStep DEF PlanInv
  <2>2. cmd'[c].kind = "plan" /\ KindOK(cmd'[c]) /\ WasShown(cmd[c].checksum)' /\ WasShown(page.checksum)'
    BY <2>1 DEF PlanInv, KindOK, WasShown
  <2>3. CASE PlanStays /\ cmd'[c].result.outcome \in {"stuck", "unknown"} /\ "limit" \notin DOMAIN cmd'[c].result
    <3>1. folder.plan = NoPlan => PageEarly(page') /\ Early(cmd'[c])
      BY <2>1, <2>2, <2>3 DEF PlanInv, WithoutAPlan, Early
    <3>2. QED BY <2>1, <2>2, <2>3, <3>1, PlansStayed
  <2>4. CASE folder' = writePlan(folder, turns + 1)
    <3>1. ASSUME NEW d \in Jobs PROVE KindOK(cmd'[d]) /\ WasShown(cmd[d].checksum)'
      <4>1. CASE d = c
        BY <2>2, <4>1
      <4>2. CASE d # c
        BY <2>1, <4>2 DEF PlanInv, OthersStay, WasShown
      <4>3. QED BY <4>1, <4>2
    <3>2. QED BY <2>1, <2>4, <3>1, PlanWritten DEF ActsStay
  <2>5. QED BY <2>1, <2>3, <2>4
<1>2. ASSUME NEW c \in Jobs, ReadPlan(c)
      PROVE  PlanInv'
  BY <1>2, PlanActedOn
<1>3. ASSUME NEW c \in Jobs, Open(c)
      PROVE  PlanInv'
  <2>1. /\ Shape' /\ OthersStay(c) /\ UNCHANGED page /\ PlanStays /\ ActsStay
        /\ cmd[c].pc = "open" /\ cmd'[c].kind = cmd[c].kind
        /\ cmd'[c].pc \in {"returned", "browsing"} /\ cmd'[c].checksum \in {NoPlan, cmd[c].checksum}
    BY <1>3, OpenStep DEF PlanInv
  <2>2. KindOK(cmd'[c]) /\ WasShown(cmd[c].checksum)' /\ WasShown(page.checksum)'
    BY <2>1 DEF PlanInv, KindOK, WasShown, ActsStay
  <2>3. folder.plan # NoPlan
    BY <2>1 DEF PlanInv, WithoutAPlan, Early
  <2>4. QED BY <2>1, <2>2, <2>3, PlansStayed DEF ActsStay
<1>4. ASSUME NEW c \in Jobs, NEW ended, NEW steps, NEW named, EndSession(c, ended, steps, named)
      PROVE  PlanInv'
  <2>1. /\ Shape' /\ OthersStay(c) /\ UNCHANGED <<page, history>> /\ PlanStays
        /\ cmd[c].pc = "browsing" /\ cmd'[c].pc = "ended"
        /\ cmd'[c].kind = cmd[c].kind /\ cmd'[c].checksum = cmd[c].checksum
    BY <1>4, EndSessionStep DEF PlanInv
  <2>2. KindOK(cmd'[c]) /\ WasShown(cmd[c].checksum)' /\ WasShown(page.checksum)'
    BY <2>1 DEF PlanInv, KindOK, WasShown
  <2>3. folder.plan # NoPlan
    BY <2>1 DEF PlanInv, WithoutAPlan, Early
  <2>4. QED BY <2>1, <2>2, <2>3, PlansStayed
<1>5. ASSUME NEW c \in Jobs, Relaunch(c) \/ Continue(c)
      PROVE  PlanInv'
  <2>1. /\ Shape' /\ OthersStay(c) /\ UNCHANGED page /\ PlanStays /\ ActsStay
        /\ cmd[c].pc = "ended" /\ cmd'[c].pc = "browsing"
        /\ cmd'[c].kind = cmd[c].kind /\ cmd'[c].checksum = cmd[c].checksum
    BY <1>5, AgainStep DEF PlanInv
  <2>2. KindOK(cmd'[c]) /\ WasShown(cmd[c].checksum)' /\ WasShown(page.checksum)'
    BY <2>1 DEF PlanInv, KindOK, WasShown, ActsStay
  <2>3. folder.plan # NoPlan
    BY <2>1 DEF PlanInv, WithoutAPlan, Early
  <2>4. QED BY <2>1, <2>2, <2>3, PlansStayed DEF ActsStay
<1>6. ASSUME NEW c \in Jobs, Conclude(c)
      PROVE  PlanInv'
  <2>1. /\ Shape' /\ OthersStay(c) /\ UNCHANGED <<page, history>> /\ PlanStays
        /\ cmd[c].pc = "ended" /\ cmd'[c].pc = "returned" /\ cmd'[c].checksum = NoPlan
    BY <1>6, ConcludeStep DEF PlanInv
  <2>2. KindOK(cmd'[c]) /\ WasShown(cmd[c].checksum)' /\ WasShown(page.checksum)'
    BY <2>1 DEF PlanInv, KindOK, WasShown
  <2>3. folder.plan # NoPlan
    BY <2>1 DEF PlanInv, WithoutAPlan, Early
  <2>4. QED BY <2>1, <2>2, <2>3, PlansStayed
<1>7. ASSUME NEW c \in Jobs, NEW seen, EndReplay(c, seen)
      PROVE  PlanInv'
  <2>1. /\ Shape' /\ OthersStay(c) /\ UNCHANGED <<page, history>> /\ PlanStays
        /\ cmd[c].pc = "replay" /\ cmd'[c].pc = "returned" /\ cmd'[c].checksum = NoPlan
    BY <1>7, EndReplayStep DEF PlanInv
  <2>2. KindOK(cmd'[c]) /\ WasShown(cmd[c].checksum)' /\ WasShown(page.checksum)'
    BY <2>1 DEF PlanInv, KindOK, WasShown
  <2>3. folder.plan # NoPlan
    BY <2>1 DEF PlanInv, WithoutAPlan, Early
  <2>4. QED BY <2>1, <2>2, <2>3, PlansStayed
<1>8. ASSUME NEW c \in Jobs, OutcomeArrives(c)
      PROVE  PlanInv'
  <2>1. /\ Shape' /\ OthersStay(c) /\ UNCHANGED folder /\ history'.acted = history.acted
        /\ \/ cmd'[c] = Idle
           \/ cmd'[c].pc = "replay" /\ cmd'[c].checksum = NoPlan
        /\ \/ history'.shown = history.shown /\ page'.checksum = page.checksum
           \/ history'.shown = history.shown \cup {page'.checksum}
        /\ Early(cmd[c]) /\ PageEarly(page) => PageEarly(page') /\ cmd'[c] = Idle
    BY <1>8, OutcomeArrivesStep DEF PlanInv
  <2>2. KindOK(cmd'[c]) /\ WasShown(cmd[c].checksum)'
    BY <2>1, IdleOK, IdleFields DEF KindOK, WasShown
  <2>3. WasShown(page.checksum)' /\ history.shown \subseteq history'.shown
    BY <2>1 DEF PlanInv, WasShown
  <2>4. folder.plan = NoPlan => PageEarly(page') /\ Early(cmd'[c])
    BY <2>1, IdleOK DEF PlanInv, WithoutAPlan
  <2>5. QED BY <2>1, <2>2, <2>3, <2>4, PlansStayed DEF PlanStays
<1>9. ASSUME NEW c \in Jobs, ReplayArrives(c) \/ RunsArrive(c)
      PROVE  PlanInv'
  <2>1. /\ Shape' /\ OthersStay(c) /\ UNCHANGED <<folder, history>>
        /\ cmd[c].pc = "returned" /\ cmd[c].kind \in {"verify", "rerun"}
        /\ \/ cmd'[c] = Idle
           \/ cmd'[c].pc = "planning" /\ cmd'[c].kind = "plan" /\ cmd'[c].checksum = NoPlan
           \/ cmd'[c].pc = "open" /\ cmd'[c].kind = "repair" /\ cmd'[c].checksum = NoPlan
        /\ page'.checksum = page.checksum
    BY <1>9, ReplayArrivesStep, RunsArriveStep DEF PlanInv
  <2>2. KindOK(cmd'[c]) /\ WasShown(cmd[c].checksum)' /\ WasShown(page.checksum)'
    BY <2>1, IdleOK, IdleFields DEF PlanInv, KindOK, WasShown
  <2>3. folder.plan # NoPlan
    BY <2>1 DEF PlanInv, WithoutAPlan, Early
  <2>4. QED BY <2>1, <2>2, <2>3, PlansStayed DEF PlanStays
<1>10. ASSUME NEW c \in Jobs, Chosen(c)
       PROVE  PlanInv'
  <2>1. /\ Shape' /\ OthersStay(c) /\ UNCHANGED folder /\ ActsStay /\ page'.checksum = page.checksum
        /\ \/ cmd'[c].pc = "planning" /\ cmd'[c].kind = "plan" /\ cmd'[c].checksum = NoPlan
           \/ cmd'[c].pc = "approve" /\ cmd'[c].kind = "approve" /\ cmd'[c].checksum = page.checksum
           \/ cmd'[c].pc = "open" /\ cmd'[c].kind = "resume" /\ cmd'[c].checksum = NoPlan
           \/ cmd'[c].pc = "replay" /\ cmd'[c].kind = "rerun" /\ cmd'[c].checksum = NoPlan
        /\ PageEarly(page) => PageEarly(page') /\ cmd'[c].pc = "planning"
    BY <1>10, ChosenStep DEF PlanInv
  <2>2. KindOK(cmd'[c]) /\ WasShown(cmd[c].checksum)' /\ WasShown(page.checksum)'
    BY <2>1 DEF PlanInv, KindOK, WasShown, ActsStay
  <2>3. folder.plan = NoPlan => PageEarly(page') /\ Early(cmd'[c])
    BY <2>1 DEF PlanInv, WithoutAPlan, Early
  <2>4. QED BY <2>1, <2>2, <2>3, PlansStayed DEF PlanStays, ActsStay
<1>11. ASSUME ChangePlan
       PROVE  PlanInv'
  <2>1. /\ Shape' /\ UNCHANGED <<folder, cmd>> /\ ActsStay /\ page'.checksum = page.checksum /\ ~PageEarly(page)
    BY <1>11, ChangePlanStep DEF PlanInv
  <2>2. folder.plan # NoPlan
    BY <2>1 DEF PlanInv, WithoutAPlan
  <2>3. QED BY <2>1, <2>2 DEF PlanInv, PlanType, WithoutAPlan, OnRecord, PlanOnDisk, WasShown, ActsStay
<1>12. ASSUME PlanInTerminal
       PROVE  PlanInv'
  <2>1. /\ Shape' /\ UNCHANGED <<cmd, page>> /\ ActsStay /\ folder' = writePlan(folder, turns + 1)
    BY <1>12, PlanInTerminalStep DEF PlanInv
  <2>2. \A c \in Jobs : KindOK(cmd'[c]) /\ WasShown(cmd[c].checksum)'
    BY <2>1 DEF PlanInv, WasShown, ActsStay
  <2>3. QED BY <2>1, <2>2, PlanWritten
<1>13. ASSUME UNCHANGED authoringVars
       PROVE  PlanInv'
  BY <1>13 DEF authoringVars, PlanInv, Shape, CmdShape, PageShape, DiskShape, PlanType, WithoutAPlan, OnRecord,
               PlanOnDisk, WasShown
<1>14. QED
  BY <1>1, <1>2, <1>3, <1>4, <1>5, <1>6, <1>7, <1>8, <1>9, <1>10, <1>11, <1>12, <1>13
  DEF Next, EndTurn, Proceeds, Arrives, Chosen

LEMMA PlanInit == Init => PlanInv
<1> SUFFICES ASSUME Init PROVE PlanInv
  OBVIOUS
<1>1. /\ Shape /\ \A c \in Jobs : cmd[c] = Idle
      /\ folder.plan = NoPlan /\ folder.kept = <<>>
      /\ history.acted = {} /\ page.checksum = NoPlan /\ PageEarly(page)
  BY IdleFields DEF Init, Shape, CmdShape, PageShape, PageFields, DiskShape, PageEarly
<1>2. PlanType
  BY <1>1 DEF PlanType, NoPlan
<1>3. \A c \in Jobs : KindOK(cmd[c]) /\ Early(cmd[c]) /\ WasShown(cmd[c].checksum)
  BY <1>1, IdleOK, IdleFields DEF WasShown
<1>4. QED BY <1>1, <1>2, <1>3 DEF PlanInv, WithoutAPlan, WasShown

-----------------------------------------------------------------------------
(* The recording                                                           *)

\* A sequence of whatever it holds.
IsASeq(s) == s \in Seq({s[i] : i \in DOMAIN s})

LEMMA AppendAny ==
  ASSUME NEW s, IsASeq(s), NEW x
  PROVE  IsASeq(Append(s, x)) /\ Len(Append(s, x)) = Len(s) + 1
<1> DEFINE S == {s[i] : i \in DOMAIN s} \cup {x}
           t == Append(s, x)
<1>1. Len(s) \in Nat /\ DOMAIN s = 1 .. Len(s)
  BY DEF IsASeq
<1>2. s \in Seq(S)
  <2>1. \A i \in 1 .. Len(s) : s[i] \in S
    BY <1>1
  <2>2. s \in Seq({s[i] : i \in DOMAIN s})
    BY DEF IsASeq
  <2> HIDE DEF S
  <2>3. QED BY <1>1, <2>1, <2>2
<1>3. x \in S
  OBVIOUS
<1>4. t \in Seq(S) /\ Len(t) = Len(s) + 1 /\ DOMAIN t = 1 .. Len(s) + 1
  <2> HIDE DEF S
  <2>1. t \in Seq(S) /\ Len(t) = Len(s) + 1
    BY <1>2, <1>3
  <2> HIDE DEF t
  <2>2. QED BY <2>1
<1>5. IsASeq(t)
  <2> DEFINE T == {t[j] : j \in DOMAIN t}
  <2>1. \A i \in 1 .. Len(s) + 1 : t[i] \in T
    BY <1>1, <1>4
  <2>2. T = {t[j] : j \in DOMAIN t}
    OBVIOUS
  <2> HIDE DEF S, T, t
  <2>3. t \in Seq(T)
    BY <1>4, <2>1
  <2>4. QED BY <2>2, <2>3 DEF IsASeq
<1>6. QED BY <1>4, <1>5

LEMMA ReplaceAny ==
  ASSUME NEW s, IsASeq(s), NEW k, NEW x
  PROVE  IsASeq([s EXCEPT ![k] = x]) /\ Len([s EXCEPT ![k] = x]) = Len(s)
<1> DEFINE t == [s EXCEPT ![k] = x]
           T == {t[i] : i \in DOMAIN t}
<1>1. s \in Seq({s[i] : i \in DOMAIN s}) /\ Len(s) \in Nat /\ DOMAIN s = 1 .. Len(s)
  BY DEF IsASeq
<1>2. DOMAIN t = 1 .. Len(s) /\ t = [i \in 1 .. Len(s) |-> t[i]]
  BY <1>1
<1>3. \A i \in 1 .. Len(s) : t[i] \in T
  BY <1>2
<1> HIDE DEF t, T
<1>4. t \in Seq(T) /\ Len(t) = Len(s)
  BY <1>1, <1>2, <1>3
<1>5. QED BY <1>4 DEF IsASeq, T, t

\* The browser server's next log, at the bound the last again.
LEMMA LogOpens ==
  ASSUME NEW logs, IsASeq(logs), Len(logs) <= MaxLogs
  PROVE  /\ IsASeq(LogOpened(logs)) /\ Len(LogOpened(logs)) = Opened(logs)
         /\ Opened(logs) \in Nat \ {0} /\ Opened(logs) <= MaxLogs
<1>1. Len(logs) \in Nat /\ MaxLogs \in Nat \ {0}
  BY AuthoringAssumption DEF IsASeq
<1>2. CASE Len(logs) < MaxLogs
  BY <1>1, <1>2, AppendAny DEF LogOpened, Opened
<1>3. CASE ~(Len(logs) < MaxLogs)
  <2> DEFINE again == [logs EXCEPT ![MaxLogs] = <<>>]
  <2>1. LogOpened(logs) = again /\ Opened(logs) = MaxLogs /\ Len(logs) = MaxLogs
    BY <1>1, <1>3 DEF LogOpened, Opened
  <2>2. IsASeq(again) /\ Len(again) = Len(logs)
    BY ReplaceAny
  <2> HIDE DEF again
  <2>3. QED BY <1>1, <2>1, <2>2
<1>4. QED BY <1>2, <1>3

LEMMA OpensAnyway ==
  ASSUME NEW logs, IsASeq(logs)
  PROVE  IsASeq(LogOpened(logs))
BY AppendAny, ReplaceAny DEF LogOpened

\* The logs after the first, up to the last.
After(first, last) == [i \in 1 .. last - first |-> first + i]

\* An attempt that was begun, or none.
Begun(first, last) == first \in Nat /\ (first < last \/ (first = 0 /\ last = 0))

LEMMA AfterIsASeq ==
  ASSUME NEW first \in Nat, NEW last \in Nat, first <= last
  PROVE  /\ After(first, last) \in Seq(Nat) /\ Len(After(first, last)) = last - first
         /\ \A i \in 1 .. last - first : After(first, last)[i] = first + i
<1> DEFINE n == last - first
<1>1. n \in Nat
  OBVIOUS
<1>2. \A i \in 1 .. n : first + i \in Nat
  BY <1>1
<1>3. After(first, last) = [i \in 1 .. n |-> first + i]
  BY DEF After
<1> HIDE DEF n
<1>4. [i \in 1 .. n |-> first + i] \in Seq(Nat) /\ Len([i \in 1 .. n |-> first + i]) = n
  BY <1>1, <1>2
<1>5. QED BY <1>3, <1>4 DEF n

\* One log more, and the recording is the attempt's logs as before.
LEMMA RecordedOn ==
  ASSUME IsASeq(folder.logs), Len(folder.logs) <= MaxLogs,
         NEW first, Begun(first, Len(folder.logs))
  PROVE  /\ Recorded(After(first, Len(folder.logs))) = After(first, Opened(folder.logs))
         /\ Begun(first, Opened(folder.logs))
<1> DEFINE n == Len(folder.logs)
           m == Opened(folder.logs)
           rec == After(first, n)
<1>1. /\ n \in Nat /\ MaxLogs \in Nat \ {0} /\ n <= MaxLogs /\ first \in Nat /\ first <= n
      /\ m = IF n < MaxLogs THEN n + 1 ELSE MaxLogs
      /\ first < n \/ (first = 0 /\ n = 0)
  BY AuthoringAssumption DEF IsASeq, Opened, Begun
<1>2. /\ rec \in Seq(Nat) /\ Len(rec) = n - first
      /\ \A i \in 1 .. n - first : rec[i] = first + i
  BY <1>1, AfterIsASeq
<1>3. rec # <<>> => Last(rec) = n
  BY <1>1, <1>2 DEF Last
<1>4. Recorded(rec) = IF rec # <<>> /\ Last(rec) = m THEN rec ELSE Append(rec, m)
  BY DEF Recorded
<1> HIDE DEF n, m, rec
<1>5. CASE n < MaxLogs
  <2>1. m = n + 1 /\ Recorded(rec) = Append(rec, m)
    BY <1>1, <1>3, <1>4, <1>5
  <2>2. Append(rec, m) \in Seq(Nat) /\ Len(Append(rec, m)) = m - first
    BY <1>1, <1>2, <2>1
  <2>3. ASSUME NEW i \in 1 .. m - first PROVE Append(rec, m)[i] = first + i
    <3>1. CASE i \in 1 .. n - first
      BY <1>1, <1>2, <3>1
    <3>2. CASE i = n - first + 1
      <4>1. i = Len(rec) + 1 /\ first + i = m
        BY <1>1, <1>2, <2>1, <3>2
      <4>2. Append(rec, m)[Len(rec) + 1] = m
        BY <1>1, <1>2, <2>1
      <4>3. QED BY <4>1, <4>2
    <3>3. i \in 1 .. n - first \/ i = n - first + 1
      <4>1. m - first = n - first + 1 /\ n - first \in Nat
        BY <1>1, <2>1
      <4>2. QED BY <4>1
    <3>4. QED BY <3>1, <3>2, <3>3
  <2>4. /\ After(first, m) \in Seq(Nat) /\ Len(After(first, m)) = m - first
        /\ \A i \in 1 .. m - first : After(first, m)[i] = first + i
    <3>1. m \in Nat /\ first \in Nat /\ first <= m
      BY <1>1, <2>1
    <3>2. QED BY <3>1, AfterIsASeq
  <2>5. Append(rec, m) = After(first, m)
    BY <2>2, <2>3, <2>4
  <2>6. QED BY <1>1, <2>1, <2>5 DEF Begun, m, rec, n
<1>6. CASE ~(n < MaxLogs)
  <2>1. m = n /\ first < n
    BY <1>1, <1>6
  <2>2. rec # <<>>
    BY <1>1, <1>2, <2>1
  <2>3. Recorded(rec) = rec
    BY <1>3, <1>4, <2>1, <2>2
  <2>4. QED BY <1>1, <2>1, <2>3 DEF Begun, m, rec, n
<1>7. QED BY <1>5, <1>6

\* A recording that is begun again is the one log that was opened for it.
LEMMA RecordedAnew ==
  ASSUME IsASeq(folder.logs), Len(folder.logs) <= MaxLogs
  PROVE  /\ Recorded(<<>>) = After(Opened(folder.logs) - 1, Opened(folder.logs))
         /\ Begun(Opened(folder.logs) - 1, Opened(folder.logs))
<1> DEFINE m == Opened(folder.logs)
           first == m - 1
<1>1. m \in Nat \ {0}
  BY LogOpens
<1>2. Recorded(<<>>) = Append(<<>>, m)
  BY DEF Recorded
<1> HIDE DEF m
<1>3. /\ After(first, m) \in Seq(Nat) /\ Len(After(first, m)) = 1
      /\ \A i \in 1 .. 1 : After(first, m)[i] = m
  <2>1. first \in Nat /\ first <= m /\ m - first = 1 /\ first + 1 = m
    BY <1>1
  <2> HIDE DEF first
  <2>2. /\ After(first, m) \in Seq(Nat) /\ Len(After(first, m)) = m - first
        /\ \A i \in 1 .. m - first : After(first, m)[i] = first + i
    BY <1>1, <2>1, AfterIsASeq
  <2>3. QED BY <2>1, <2>2
<1>4. Append(<<>>, m) \in Seq(Nat) /\ Len(Append(<<>>, m)) = 1 /\ Append(<<>>, m)[1] = m
  BY <1>1
<1>5. Append(<<>>, m) = After(first, m)
  BY <1>3, <1>4
<1>6. QED BY <1>1, <1>2, <1>5 DEF Begun, m

\* What the recording needs of a command, r, and the folder, f.
SessionOK(r, f) ==
  /\ r.pc \in {"browsing", "ended"} => r.since = f.attempt
  /\ r.pc = "open" /\ r.kind = "repair" => f.evidence = "stopped"
  /\ r.pc = "returned" /\ r.kind = "verify" /\ r.result.outcome = "stopped" => f.evidence = "stopped"

OneAtATime == \A c, d \in Jobs : cmd[c].pc # "off" /\ cmd[d].pc # "off" => c = d

\* The recording, as the folder has it.
WholeRecording ==
  /\ Len(folder.logs) <= MaxLogs
  /\ Begun(folder.attempt, Len(folder.logs))
  /\ history.recording = After(folder.attempt, Len(folder.logs))

RecordingInv ==
  /\ IsASeq(folder.logs)
  /\ ~history.overlapped =>
       OneAtATime /\ WholeRecording /\ \A c \in Jobs : SessionOK(cmd[c], folder)

\* A step of the one command there is.
LEMMA OneSteps ==
  ASSUME RecordingInv, NEW c \in Jobs, cmd[c].pc # "off", OthersStay(c),
         history'.overlapped = history.overlapped, IsASeq(folder'.logs),
         ~history.overlapped => WholeRecording' /\ SessionOK(cmd'[c], folder')
  PROVE  RecordingInv'
<1> SUFFICES ASSUME ~history.overlapped
             PROVE  OneAtATime' /\ \A d \in Jobs : SessionOK(cmd'[d], folder')
  BY DEF RecordingInv
<1>1. \A d \in Jobs : d # c => cmd'[d] = cmd[d] /\ cmd'[d].pc = "off"
  BY DEF RecordingInv, OneAtATime, OthersStay
<1>2. OneAtATime'
  BY <1>1 DEF OneAtATime
<1>3. \A d \in Jobs : SessionOK(cmd'[d], folder')
  BY <1>1 DEF SessionOK
<1>4. QED BY <1>2, <1>3

LEMMA WholeStays ==
  ASSUME WholeRecording, LogsStay, history'.recording = history.recording
  PROVE  WholeRecording'
BY DEF WholeRecording, LogsStay

\* A step that leaves the logs and the recording alone.
LEMMA LogsStayed ==
  ASSUME RecordingInv, NEW c \in Jobs, cmd[c].pc # "off", OthersStay(c), LogsStay, TakesStay,
         ~history.overlapped => SessionOK(cmd'[c], folder')
  PROVE  RecordingInv'
<1>1. IsASeq(folder'.logs) /\ history'.overlapped = history.overlapped
  BY DEF RecordingInv, LogsStay, TakesStay
<1>2. ~history.overlapped => WholeRecording'
  BY WholeStays DEF RecordingInv, TakesStay
<1>3. QED BY <1>1, <1>2, OneSteps

\* A browser server was started in the attempt first.
LEMMA LogAdded ==
  ASSUME RecordingInv, folder'.logs = LogOpened(folder.logs),
         \/ /\ folder'.attempt = folder.attempt
            /\ history'.recording = Recorded(history.recording)
         \/ /\ folder'.attempt = Opened(folder.logs) - 1
            /\ history'.recording = Recorded(<<>>)
  PROVE  IsASeq(folder'.logs) /\ (~history.overlapped => WholeRecording')
<1>1. IsASeq(folder.logs) /\ IsASeq(folder'.logs)
  BY OpensAnyway DEF RecordingInv
<1>2. ASSUME ~history.overlapped PROVE WholeRecording'
  <2>1. /\ Len(folder.logs) <= MaxLogs /\ Begun(folder.attempt, Len(folder.logs))
        /\ history.recording = After(folder.attempt, Len(folder.logs))
    BY <1>2 DEF RecordingInv, WholeRecording
  <2>2. Len(folder'.logs) = Opened(folder.logs) /\ Opened(folder.logs) <= MaxLogs
    BY <1>1, <2>1, LogOpens
  <2>3. CASE folder'.attempt = folder.attempt /\ history'.recording = Recorded(history.recording)
    <3>1. PICK first : first = folder.attempt
      OBVIOUS
    <3>2. /\ Recorded(After(first, Len(folder.logs))) = After(first, Opened(folder.logs))
          /\ Begun(first, Opened(folder.logs))
      BY <1>1, <2>1, <3>1, RecordedOn
    <3>3. QED BY <2>1, <2>2, <2>3, <3>1, <3>2 DEF WholeRecording
  <2>4. CASE folder'.attempt = Opened(folder.logs) - 1 /\ history'.recording = Recorded(<<>>)
    <3>1. /\ Recorded(<<>>) = After(Opened(folder.logs) - 1, Opened(folder.logs))
          /\ Begun(Opened(folder.logs) - 1, Opened(folder.logs))
      BY <1>1, <2>1, RecordedAnew
    <3>2. QED BY <2>2, <2>4, <3>1 DEF WholeRecording
  <2>5. QED BY <2>3, <2>4
<1>3. QED BY <1>1, <1>2

LEMMA RecordingStep ==
  ASSUME PlanInv, RecordingInv, [Next]_authoringVars
  PROVE  RecordingInv'
<1>1. ASSUME NEW c \in Jobs, NEW outcome \in {"plan", "question", "stuck", "unknown"}, EndPlanning(c, outcome)
      PROVE  RecordingInv'
  <2>1. /\ OthersStay(c) /\ UNCHANGED history /\ LogsStay
        /\ cmd[c].pc = "planning" /\ cmd'[c].pc = "returned" /\ cmd'[c].kind = cmd[c].kind
    BY <1>1, EndPlanningStep DEF PlanInv
  <2>2. SessionOK(cmd'[c], folder')
    BY <2>1 DEF PlanInv, KindOK, SessionOK
  <2>3. QED BY <2>1, <2>2, LogsStayed DEF TakesStay
<1>2. ASSUME NEW c \in Jobs, ReadPlan(c)
      PROVE  RecordingInv'
  <2>1. /\ OthersStay(c) /\ UNCHANGED folder /\ TakesStay
        /\ cmd[c].pc = "approve" /\ cmd'[c].pc \in {"returned", "open"} /\ cmd'[c].kind = cmd[c].kind
    BY <1>2, ReadPlanStep DEF PlanInv
  <2>2. SessionOK(cmd'[c], folder')
    BY <2>1 DEF PlanInv, KindOK, SessionOK
  <2>3. QED BY <2>1, <2>2, LogsStayed DEF LogsStay
<1>3. ASSUME NEW c \in Jobs, Open(c)
      PROVE  RecordingInv'
  <2>1. /\ OthersStay(c) /\ cmd[c].pc = "open" /\ history'.overlapped = history.overlapped
        /\ \/ cmd[c].kind = "repair" /\ folder.evidence # "stopped"
           \/ /\ cmd'[c].pc = "browsing" /\ cmd'[c].since = folder'.attempt
              /\ folder'.logs = LogOpened(folder.logs)
              /\ \/ /\ folder'.attempt = folder.attempt
                    /\ history'.recording = Recorded(history.recording)
                 \/ /\ folder'.attempt = Opened(folder.logs) - 1
                    /\ history'.recording = Recorded(<<>>)
        /\ folder'.logs \in {folder.logs, LogOpened(folder.logs)}
    BY <1>3, OpenStep DEF PlanInv
  <2>2. CASE /\ cmd'[c].pc = "browsing" /\ cmd'[c].since = folder'.attempt
             /\ folder'.logs = LogOpened(folder.logs)
             /\ \/ /\ folder'.attempt = folder.attempt
                   /\ history'.recording = Recorded(history.recording)
                \/ /\ folder'.attempt = Opened(folder.logs) - 1
                   /\ history'.recording = Recorded(<<>>)
    <3>1. IsASeq(folder'.logs) /\ (~history.overlapped => WholeRecording')
      BY <2>2, LogAdded
    <3>2. SessionOK(cmd'[c], folder')
      BY <2>2 DEF SessionOK
    <3>3. QED BY <2>1, <3>1, <3>2, OneSteps
  \* A repair is refused only after commands that overlapped.
  <2>3. CASE cmd[c].kind = "repair" /\ folder.evidence # "stopped"
    <3>1. history.overlapped
      BY <2>1, <2>3 DEF RecordingInv, SessionOK
    <3>2. IsASeq(folder'.logs)
      BY <2>1, OpensAnyway DEF RecordingInv
    <3>3. QED BY <2>1, <3>1, <3>2 DEF RecordingInv
  <2>4. QED BY <2>1, <2>2, <2>3
<1>4. ASSUME NEW c \in Jobs, NEW ended, NEW steps, NEW named, EndSession(c, ended, steps, named)
      PROVE  RecordingInv'
  <2>1. /\ OthersStay(c) /\ UNCHANGED history
        /\ cmd[c].pc = "browsing" /\ cmd'[c].pc = "ended" /\ cmd'[c].since = cmd[c].since
        /\ folder'.attempt = folder.attempt
        /\ \E i : folder'.logs = [folder.logs EXCEPT ![i] = steps]
    BY <1>4, EndSessionStep DEF PlanInv
  <2>2. IsASeq(folder'.logs) /\ Len(folder'.logs) = Len(folder.logs)
    <3>1. PICK i : folder'.logs = [folder.logs EXCEPT ![i] = steps]
      BY <2>1
    <3>2. IsASeq(folder.logs)
      BY DEF RecordingInv
    <3> DEFINE logs == [folder.logs EXCEPT ![i] = steps]
    <3>3. IsASeq(logs) /\ Len(logs) = Len(folder.logs)
      BY <3>2, ReplaceAny
    <3> HIDE DEF logs
    <3>4. QED BY <3>1, <3>3 DEF logs
  <2>3. ~history.overlapped => WholeRecording' /\ SessionOK(cmd'[c], folder')
    BY <2>1, <2>2 DEF RecordingInv, WholeRecording, SessionOK
  <2>4. QED BY <2>1, <2>2, <2>3, OneSteps
<1>5. ASSUME NEW c \in Jobs, Relaunch(c) \/ Continue(c)
      PROVE  RecordingInv'
  <2>1. /\ OthersStay(c) /\ cmd[c].pc = "ended" /\ cmd'[c].pc = "browsing" /\ cmd'[c].since = cmd[c].since
        /\ folder'.attempt = folder.attempt /\ history'.overlapped = history.overlapped
        /\ folder'.logs = LogOpened(folder.logs) /\ history'.recording = Recorded(history.recording)
    BY <1>5, AgainStep DEF PlanInv
  <2>2. IsASeq(folder'.logs) /\ (~history.overlapped => WholeRecording')
    BY <2>1, LogAdded
  <2>3. ~history.overlapped => SessionOK(cmd'[c], folder')
    BY <2>1 DEF RecordingInv, SessionOK
  <2>4. QED BY <2>1, <2>2, <2>3, OneSteps
<1>6. ASSUME NEW c \in Jobs, Conclude(c)
      PROVE  RecordingInv'
  <2>1. /\ OthersStay(c) /\ UNCHANGED history /\ LogsStay
        /\ cmd[c].pc = "ended" /\ cmd'[c].pc = "returned" /\ cmd'[c].kind = cmd[c].kind
    BY <1>6, ConcludeStep DEF PlanInv
  <2>2. SessionOK(cmd'[c], folder')
    BY <2>1 DEF PlanInv, KindOK, SessionOK
  <2>3. QED BY <2>1, <2>2, LogsStayed DEF TakesStay
<1>7. ASSUME NEW c \in Jobs, NEW seen, EndReplay(c, seen)
      PROVE  RecordingInv'
  <2>1. /\ OthersStay(c) /\ UNCHANGED history /\ LogsStay
        /\ cmd[c].pc = "replay" /\ cmd'[c].pc = "returned"
        /\ cmd'[c].result.outcome = "stopped" => folder'.evidence = "stopped"
    BY <1>7, EndReplayStep DEF PlanInv
  <2>2. SessionOK(cmd'[c], folder')
    BY <2>1 DEF SessionOK
  <2>3. QED BY <2>1, <2>2, LogsStayed DEF TakesStay
<1>8. ASSUME NEW c \in Jobs, OutcomeArrives(c)
      PROVE  RecordingInv'
  <2>1. /\ OthersStay(c) /\ UNCHANGED folder /\ TakesStay
        /\ cmd[c].pc = "returned" /\ (cmd'[c] = Idle \/ cmd'[c].pc = "replay")
    BY <1>8, OutcomeArrivesStep DEF PlanInv
  <2>2. SessionOK(cmd'[c], folder')
    BY <2>1, IdleFields DEF SessionOK
  <2>3. QED BY <2>1, <2>2, LogsStayed DEF LogsStay
<1>9. ASSUME NEW c \in Jobs, ReplayArrives(c)
      PROVE  RecordingInv'
  <2>1. /\ OthersStay(c) /\ UNCHANGED <<folder, history>>
        /\ cmd[c].pc = "returned" /\ cmd[c].kind = "verify"
        /\ \/ cmd'[c] = Idle
           \/ cmd'[c].pc = "planning"
           \/ cmd'[c].pc = "open" /\ cmd[c].result.outcome = "stopped"
    BY <1>9, ReplayArrivesStep DEF PlanInv
  <2>2. ~history.overlapped => SessionOK(cmd'[c], folder')
    BY <2>1, IdleFields DEF RecordingInv, SessionOK
  <2>3. QED BY <2>1, <2>2, LogsStayed DEF LogsStay, TakesStay
<1>10. ASSUME NEW c \in Jobs, RunsArrive(c)
       PROVE  RecordingInv'
  <2>1. OthersStay(c) /\ UNCHANGED <<folder, history>> /\ cmd[c].pc = "returned" /\ cmd'[c] = Idle
    BY <1>10, RunsArriveStep DEF PlanInv
  <2>2. SessionOK(cmd'[c], folder')
    BY <2>1, IdleFields DEF SessionOK
  <2>3. QED BY <2>1, <2>2, LogsStayed DEF LogsStay, TakesStay
<1>11. ASSUME NEW c \in Jobs, Chosen(c)
       PROVE  RecordingInv'
  <2>1. /\ OthersStay(c) /\ UNCHANGED folder /\ history'.recording = history.recording
        /\ ~history'.overlapped => ~history.overlapped /\ \A d \in Jobs : cmd[d].pc = "off"
        /\ \/ cmd'[c].pc \in {"planning", "approve", "replay"}
           \/ cmd'[c].pc = "open" /\ cmd'[c].kind = "resume"
    BY <1>11, ChosenStep DEF PlanInv
  <2>2. SessionOK(cmd'[c], folder')
    BY <2>1 DEF SessionOK
  <2>3. ASSUME ~history'.overlapped
        PROVE  OneAtATime' /\ WholeRecording' /\ \A d \in Jobs : SessionOK(cmd'[d], folder')
    <3>1. \A d \in Jobs : d # c => cmd'[d] = cmd[d] /\ cmd'[d].pc = "off"
      BY <2>1, <2>3 DEF OthersStay
    <3>2. WholeRecording'
      BY <2>1, <2>3, WholeStays DEF RecordingInv, LogsStay
    <3>3. OneAtATime' /\ \A d \in Jobs : SessionOK(cmd'[d], folder')
      BY <2>2, <3>1 DEF OneAtATime, SessionOK
    <3>4. QED BY <3>2, <3>3
  <2>4. QED BY <2>1, <2>3 DEF RecordingInv
<1>12. ASSUME ChangePlan \/ PlanInTerminal
       PROVE  RecordingInv'
  <2>1. /\ UNCHANGED cmd /\ LogsStay /\ folder'.evidence = folder.evidence
        /\ history'.recording = history.recording
        /\ ~history'.overlapped => ~history.overlapped
    BY <1>12, ChangePlanStep, PlanInTerminalStep DEF PlanInv, LogsStay, TakesStay
  <2>2. ASSUME ~history'.overlapped
        PROVE  OneAtATime' /\ WholeRecording' /\ \A d \in Jobs : SessionOK(cmd'[d], folder')
    <3>1. WholeRecording'
      BY <2>1, <2>2, WholeStays DEF RecordingInv
    <3>2. OneAtATime' /\ \A d \in Jobs : SessionOK(cmd'[d], folder')
      BY <2>1, <2>2 DEF RecordingInv, OneAtATime, SessionOK, LogsStay
    <3>3. QED BY <3>1, <3>2
  <2>3. QED BY <2>1, <2>2 DEF RecordingInv, LogsStay
<1>13. ASSUME UNCHANGED authoringVars
       PROVE  RecordingInv'
  BY <1>13 DEF authoringVars, RecordingInv, OneAtATime, WholeRecording, After, Begun, SessionOK
<1>14. QED
  BY <1>1, <1>2, <1>3, <1>4, <1>5, <1>6, <1>7, <1>8, <1>9, <1>10, <1>11, <1>12, <1>13
  DEF Next, EndTurn, Proceeds, Arrives, Chosen

LEMMA RecordingInit == Init => RecordingInv
<1> SUFFICES ASSUME Init PROVE RecordingInv
  OBVIOUS
<1>1. /\ folder.logs = <<>> /\ folder.attempt = 0 /\ history.recording = <<>>
      /\ \A c \in Jobs : cmd[c] = Idle
  BY DEF Init
<1>2. IsASeq(<<>>) /\ Len(<<>>) = 0 /\ 0 <= MaxLogs
  BY AuthoringAssumption DEF IsASeq
<1>3. After(0, 0) = <<>>
  <2>1. After(0, 0) \in Seq(Nat) /\ Len(After(0, 0)) = 0
    BY AfterIsASeq
  <2>2. QED BY <2>1
<1>4. WholeRecording
  BY <1>1, <1>2, <1>3 DEF WholeRecording, Begun
<1>5. OneAtATime /\ \A c \in Jobs : SessionOK(cmd[c], folder)
  BY <1>1, IdleFields DEF OneAtATime, SessionOK
<1>6. QED BY <1>1, <1>2, <1>4, <1>5 DEF RecordingInv

-----------------------------------------------------------------------------
(* The theorems                                                            *)

\* The invariant that the two properties are read off: a plan is on disk
\* whenever something could act on one, checksums in hand were shown, and while
\* one command runs at a time the folder's attempt is the recording.
THEOREM AuthoringInvariant == Spec => [](PlanInv /\ RecordingInv)
<1>1. PlanInv /\ RecordingInv /\ [Next]_authoringVars => (PlanInv /\ RecordingInv)'
  BY PlanStep, RecordingStep
<1>2. QED BY PlanInit, RecordingInit, <1>1, PTL DEF Spec

\* A plan a session acted on is on disk under the version the lineage names,
\* and had been shown if it was confirmed (writePlan, archivePlan, author.ts).
THEOREM ActedOnStaysOnRecord == Spec => []ActedOnIsOnRecord
<1>1. PlanInv => ActedOnIsOnRecord
  <2> SUFFICES ASSUME PlanInv, NEW a \in history.acted
               PROVE  /\ a.version <= planVersionOf(folder) /\ PlanOnDisk(a.version) = a.plan
                      /\ a.confirmed => a.plan \in history.shown
    BY DEF ActedOnIsOnRecord
  <2>1. OnRecord(a) /\ planVersionOf(folder) \in Nat
    BY DEF PlanInv, PlanType, planVersionOf
  <2>2. QED BY <2>1 DEF OnRecord
<1>2. QED BY <1>1, AuthoringInvariant, PTL

\* A script holds, in order, every log of its attempt and none from before
\* (attemptSessionMarkdowns, author.ts).
THEOREM ScriptsAreWhole == Spec => []ScriptIsOneRecording
<1>1. RecordingInv => ScriptIsOneRecording
  <2> SUFFICES ASSUME RecordingInv, NEW c \in Jobs, cmd[c].pc = "ended", ~history.overlapped
               PROVE  attemptSessionMarkdowns(cmd[c].since) = history.recording
    BY DEF ScriptIsOneRecording
  <2>1. cmd[c].since = folder.attempt /\ history.recording = After(folder.attempt, Len(folder.logs))
    BY DEF RecordingInv, SessionOK, WholeRecording
  <2>2. QED BY <2>1 DEF attemptSessionMarkdowns, After
<1>2. QED BY <1>1, AuthoringInvariant, PTL
=============================================================================
