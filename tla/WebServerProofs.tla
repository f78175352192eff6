-------------------------- MODULE WebServerProofs --------------------------
(***************************************************************************)
(* For any tabs, sessions and jobs, with a server that dies and comes back *)
(* at any moment: types, GoneForGood, RunningJobKeepsSession and           *)
(* StreamShowsWholeJob.                                                    *)
(*                                                                         *)
(* That a listener is a page whose stream is open (TypeOK) rests on what   *)
(* its pipe holds: a stream that ends does so after its job gave up its    *)
(* listeners.  That a job keeps its session rests on the timer: between    *)
(* two ticks the session of a running job has two units left, or one and   *)
(* a timer that is due; and a session whose action is being read was       *)
(* touched since the last tick, so that the new job finds two.  That a     *)
(* page is told all rests on where it stands: what it has read and what is *)
(* in its pipe are together the lines so far, and once the job is over the *)
(* lines and the end (ShownInv).                                           *)
(***************************************************************************)
EXTENDS WebServer, SequenceTheorems, TLAPS

Frame == {Line(n) : n \in 1 .. MaxLines} \cup {Done, Closed}

TypeInv ==
  /\ up \in BOOLEAN
  /\ sessions \in [Session -> SessionRow]
  /\ jobs \in [Job -> JobRow]
  /\ due \subseteq {j \in Job : Running(j)}
  /\ request \in [Page -> SessionId \cup {NoRequest}]
  /\ cookie \in SessionId
  /\ page \in [Page -> Tab]
  /\ pipe \in [Page -> Seq(Frame)]

GoesOn(frames) == \A k \in DOMAIN frames : frames[k] # Closed

Listening(p, j) == At(p, "streaming") /\ page[p].job = j /\ GoesOn(pipe[p])

Follower(p) == At(p, "subscribing") => page[p].job \in Job

ListenInv ==
  /\ \A j \in Job : \A p \in jobs[j].listeners : Listening(p, j)
  /\ \A p \in Page : Follower(p)

\* Enough for the next tick.
Held(s, left) == sessions[s].status = "held" /\ sessions[s].left >= left

\* A session whose action is being read was touched since the last tick.
KeptFor(p) == request[p] # NoRequest /\ Live(request[p]) => Held(request[p], 2)

Assured(j) ==
  /\ jobs[j].session \in Session \ {None}
  /\ \/ sessions[jobs[j].session].status = "released"
     \/ Held(jobs[j].session, 2)
     \/ Held(jobs[j].session, 1) /\ j \in due

KeepInv ==
  /\ \A p \in Page : KeptFor(p)
  /\ \A j \in Job : Running(j) => Assured(j)

-----------------------------------------------------------------------------
(* The operations of the session store, session by session.                *)

Row(status, left) == [status |-> status, left |-> left]

LEMMA Rows ==
  ASSUME NEW r \in SessionRow, NEW x, NEW y
  PROVE  [r EXCEPT !.left = x] = Row(r.status, x) /\ [r EXCEPT !.status = y] = Row(y, r.left)
BY DEF SessionRow, Row

Refilled(f, id, x) == [f EXCEPT ![id].left = x]

LEMMA Refill ==
  ASSUME NEW f \in [Session -> SessionRow], NEW id, NEW x
  PROVE  Refilled(f, id, x) = [s \in Session |-> IF s = id THEN Row(f[s].status, x) ELSE f[s]]
<1> DEFINE g == [f EXCEPT ![id].left = x]
<1>1. DOMAIN g = Session
  OBVIOUS
<1>2. ASSUME NEW s \in Session PROVE g[s] = IF s = id THEN Row(f[s].status, x) ELSE f[s]
  <2>1. f[s] \in SessionRow
    OBVIOUS
  <2>2. g[s] = IF s = id THEN [f[s] EXCEPT !.left = x] ELSE f[s]
    BY Zenon
  <2> QED BY <2>1, <2>2, Rows, Zenon
<1>3. g = [s \in Session |-> g[s]]
  BY <1>1, Zenon
<1> HIDE DEF g
<1>4. g = [s \in Session |-> IF s = id THEN Row(f[s].status, x) ELSE f[s]]
  BY <1>2, <1>3
<1>5. Refilled(f, id, x) = g
  BY DEF g, Refilled
<1> QED BY <1>4, <1>5

LEMMA TouchIs ==
  ASSUME sessions \in [Session -> SessionRow], NEW id
  PROVE  Touch(id) = [s \in Session |-> IF s = id /\ Live(id) THEN Row("held", Ttl) ELSE sessions[s]]
<1>1. Refilled(sessions, id, Ttl) =
      [s \in Session |-> IF s = id THEN Row(sessions[s].status, Ttl) ELSE sessions[s]]
  BY Refill
<1>2. CASE Live(id)
  <2>1. \A s \in Session : s = id => sessions[s].status = "held"
    BY <1>2 DEF Live
  <2>2. Touch(id) = [s \in Session |-> IF s = id THEN Row(sessions[s].status, Ttl) ELSE sessions[s]]
    BY <1>1, <1>2, Zenon DEF Touch, Refilled
  <2> QED BY <1>2, <2>1, <2>2
<1>3. CASE ~Live(id)
  BY <1>3 DEF Touch
<1> QED BY <1>2, <1>3

LEMMA SweptIs ==
  ASSUME sessions \in [Session -> SessionRow]
  PROVE  Swept = [s \in Session |-> IF sessions[s].status = "held" /\ sessions[s].left = 0
                                    THEN Row("lapsed", 0) ELSE sessions[s]]
<1>1. \A s \in Session : sessions[s] \in SessionRow
  OBVIOUS
<1> QED BY <1>1, Rows DEF Swept, SessionRow, Row

LEMMA ReleaseIs ==
  ASSUME sessions \in [Session -> SessionRow], NEW id
  PROVE  Release(id) = [s \in Session |-> IF s = id /\ id # None /\ sessions[s].status = "held"
                                          THEN Row("released", 0) ELSE sessions[s]]
BY DEF Release, Row

LEMMA ResumeIs ==
  ASSUME sessions \in [Session -> SessionRow], NEW id, Live(id)
  PROVE  Resume(id).row = [s \in Session |-> IF s = id THEN Row("held", Ttl) ELSE Swept[s]]
<1>1. Swept \in [Session -> SessionRow] /\ \A s \in Session : s = id => Swept[s].status = "held"
  BY SweptIs DEF Row, Live, SessionRow
<1>2. Resume(id).row = Refilled(Swept, id, Ttl)
  BY Zenon DEF Resume, Refilled
<1>3. Resume(id).row = [s \in Session |-> IF s = id THEN Row(Swept[s].status, Ttl) ELSE Swept[s]]
  <2>1. Refilled(Swept, id, Ttl) = [s \in Session |-> IF s = id THEN Row(Swept[s].status, Ttl) ELSE Swept[s]]
    BY <1>1, Refill
  <2> QED BY <1>2, <2>1, Zenon
<1> HIDE DEF Swept
<1> QED BY <1>1, <1>3

LEMMA BeginIs ==
  ASSUME sessions \in [Session -> SessionRow], NEW n \in Session
  PROVE  Begin(n).row = [s \in Session |-> IF s = n THEN Row("held", Ttl) ELSE Swept[s]]
<1>1. DOMAIN Swept = Session
  BY DEF Swept
<1> QED BY <1>1 DEF Begin, Row

Aged == [s \in Session |-> [sessions[s] EXCEPT !.left = Earlier(@)]]

LEMMA AgedIs ==
  ASSUME sessions \in [Session -> SessionRow]
  PROVE  Aged = [s \in Session |-> Row(sessions[s].status, Earlier(sessions[s].left))]
<1>1. \A s \in Session : sessions[s] \in SessionRow
  OBVIOUS
<1> QED BY <1>1, Rows DEF Row, SessionRow, Aged

-----------------------------------------------------------------------------
(* What every step does to a session.                                      *)

\* What a step, but that of the clock, makes of the session s in the table new:
\* it stays, gets its full life if it is new or alive, or ends.
BecomesOf(s, new) ==
  \/ new[s] = sessions[s]
  \/ new[s] = Row("held", Ttl) /\ (Live(s) \/ sessions[s].status = "new")
  \/ new[s] = Row("released", 0) /\ sessions[s].status = "held"
  \/ new[s] = Row("lapsed", 0) /\ sessions[s].status = "held" /\ sessions[s].left = 0

Handled == sessions' \in [Session -> SessionRow] /\ \A s \in Session : BecomesOf(s, sessions')

StoreStep == Tick \/ Handled

LEMMA RowTypes == Row("held", Ttl) \in SessionRow /\ Row("released", 0) \in SessionRow /\ Row("lapsed", 0) \in SessionRow
BY TtlAssumption DEF Row, SessionRow

LEMMA StoreOps ==
  ASSUME sessions \in [Session -> SessionRow]
  PROVE  /\ sessions' = sessions => Handled
         /\ \A id : sessions' = Touch(id) => Handled
         /\ \A id : sessions' = Release(id) => Handled
         /\ sessions' = Swept => Handled
         /\ \A id : Live(id) /\ sessions' = Resume(id).row => Handled
         /\ \A n \in Unused : sessions' = Begin(n).row => Handled
<1> USE RowTypes DEF Handled, BecomesOf
<1>1. sessions' = sessions => Handled
  OBVIOUS
<1>2. ASSUME NEW id, sessions' = Touch(id) PROVE Handled
  <2>1. sessions' = [s \in Session |-> IF s = id /\ Live(id) THEN Row("held", Ttl) ELSE sessions[s]]
    BY <1>2, TouchIs
  <2> QED BY <2>1
<1>3. ASSUME NEW id, sessions' = Release(id) PROVE Handled
  <2>1. sessions' = [s \in Session |-> IF s = id /\ id # None /\ sessions[s].status = "held"
                                       THEN Row("released", 0) ELSE sessions[s]]
    BY <1>3, ReleaseIs
  <2> QED BY <2>1
<1>4. sessions' = Swept => Handled
  BY SweptIs
<1>5. \A s \in Session : Swept[s] \in SessionRow /\ BecomesOf(s, Swept)
  BY SweptIs
<1>6. ASSUME NEW id, Live(id), sessions' = Resume(id).row PROVE Handled
  <2>1. sessions' = [s \in Session |-> IF s = id THEN Row("held", Ttl) ELSE Swept[s]]
    BY <1>6, ResumeIs
  <2> QED BY <1>5, <1>6, <2>1
<1>7. ASSUME NEW n \in Unused, sessions' = Begin(n).row PROVE Handled
  <2>1. n \in Session /\ sessions[n].status = "new"
    BY DEF Unused
  <2>2. sessions' = [s \in Session |-> IF s = n THEN Row("held", Ttl) ELSE Swept[s]]
    BY <1>7, <2>1, BeginIs
  <2> QED BY <1>5, <2>1, <2>2
<1> QED BY <1>1, <1>2, <1>3, <1>4, <1>6, <1>7

\* Every action is such a step.
LEMMA StoreSteps ==
  ASSUME sessions \in [Session -> SessionRow], [Next]_vars
  PROVE  StoreStep
<1> USE StoreOps DEF StoreStep
<1>1. CASE UNCHANGED vars
  BY <1>1 DEF vars
<1>2. ASSUME NEW p \in Page, Acquire(p) PROVE StoreStep
  <2>1. CASE Live(page[p].sent)
    BY <1>2, <2>1 DEF Acquire
  <2>2. CASE ~Live(page[p].sent)
    <3>1. (CHOOSE s \in Unused : TRUE) \in Unused
      BY <1>2, <2>2 DEF Acquire
    <3> QED BY <1>2, <2>2, <3>1 DEF Acquire
  <2> QED BY <2>1, <2>2
<1>3. ASSUME NEW p \in Page,
             \/ Open(p) \/ ReceiveSession(p) \/ Heartbeat(p) \/ Unload(p) \/ ReceiveReleased(p)
             \/ Act(p) \/ BeginAction(p) \/ StartJob(p) \/ Subscribe(p) \/ Read(p)
      PROVE  StoreStep
  BY <1>3 DEF Open, ReceiveSession, Heartbeat, Unload, ReceiveReleased, Act, BeginAction, StartJob, Subscribe, Read
<1>4. ASSUME NEW p \in Page, HandleRelease(p) PROVE StoreStep
  BY <1>4 DEF HandleRelease
<1>5. ASSUME NEW j \in Job, Log(j) \/ Exit(j) \/ KeepAlive(j) PROVE StoreStep
  BY <1>5 DEF Log, Exit, KeepAlive, KeptAlive
<1>6. CASE Tick
  BY <1>6
<1>7. CASE Crash
  <2>1. sessions' = sessions
    BY <1>7, Zenon DEF Crash
  <2> QED BY <2>1
<1>8. CASE Restart
  BY <1>8 DEF Restart
<1> QED BY <1>1, <1>2, <1>3, <1>4, <1>5, <1>6, <1>7, <1>8 DEF Next

LEMMA StoreTypes ==
  ASSUME sessions \in [Session -> SessionRow], StoreStep
  PROVE  sessions' \in [Session -> SessionRow]
BY AgedIs, TtlAssumption DEF StoreStep, Handled, Tick, Aged, Row, SessionRow, Earlier

\* What is gone stays gone.
LEMMA StaysGone ==
  ASSUME sessions \in [Session -> SessionRow], StoreStep, NEW s \in Session,
         sessions[s].status # "new", ~Live(s)
  PROVE  ~Live(s)'
<1>1. CASE Tick
  <2>1. sessions' = Aged
    BY <1>1 DEF Tick, Aged
  <2> QED BY <2>1, AgedIs DEF Earlier, Live, SessionRow, Row
<1>2. CASE Handled
  <2>1. BecomesOf(s, sessions')
    BY <1>2 DEF Handled
  <2> QED BY <2>1 DEF BecomesOf, Live, Row
<1> QED BY <1>1, <1>2 DEF StoreStep

THEOREM SessionsTyped == Spec => [](sessions \in [Session -> SessionRow])
<1>1. Init => sessions \in [Session -> SessionRow]
  BY TtlAssumption DEF Init, SessionRow
<1>2. sessions \in [Session -> SessionRow] /\ [Next]_vars => (sessions \in [Session -> SessionRow])'
  BY StoreSteps, StoreTypes
<1> QED BY <1>1, <1>2, PTL DEF Spec

\* A session that lapsed or was released never answers again.
THEOREM GoneStaysGone == Spec => GoneForGood
<1>1. sessions \in [Session -> SessionRow] /\ [Next]_vars
      => [\A s \in Session : sessions[s].status # "new" /\ ~Live(s) => ~Live(s)']_vars
  BY StoreSteps, StaysGone
<1> QED BY <1>1, SessionsTyped, PTL DEF GoneForGood, Spec

-----------------------------------------------------------------------------
(* What a page is told; a listener is a page whose stream is open.         *)

LEMMA Frames ==
  /\ \A n \in 1 .. MaxLines : Line(n) \in Frame /\ Line(n) # Closed
  /\ Done \in Frame /\ Closed \in Frame /\ Done # Closed
  /\ \A f \in Frame : f # Done /\ f # Closed => f \in {Line(n) : n \in 1 .. MaxLines}
BY DEF Frame, Line, Done, Closed

LEMMA ReplayType ==
  ASSUME jobs \in [Job -> JobRow], NEW j \in Job
  PROVE  Replay(j) \in Seq(Frame) /\ GoesOn(Replay(j))
<1>1. jobs[j].lines \in Nat /\ 1 .. jobs[j].lines \subseteq 1 .. MaxLines
  BY LinesAssumption DEF JobRow
<1>2. \A n \in 1 .. jobs[j].lines : Line(n) \in Frame /\ Line(n) # Closed
  BY <1>1, Frames
<1>3. Replay(j) \in [1 .. jobs[j].lines -> Frame]
  BY <1>2 DEF Replay
<1>4. Replay(j) \in Seq(Frame)
  BY <1>1, <1>3, IsASeq
<1> QED BY <1>2, <1>3, <1>4 DEF Replay, GoesOn

\* A page takes a turn, and its job has no listener more.
LEMMA PageTurn ==
  ASSUME TypeInv, ListenInv, sessions' \in [Session -> SessionRow],
         NEW p \in Page, NEW new \in Tab, page' = [page EXCEPT ![p] = new],
         \/ page[p].pc # "streaming" /\ (new.pc = "subscribing" => new.job \in Job)
         \/ new.pc = page[p].pc /\ new.job = page[p].job,
         up' = up, pipe' = pipe, cookie' \in SessionId, due' = due,
         request' \in [Page -> SessionId \cup {NoRequest}], jobs' \in [Job -> JobRow],
         \A j \in Job : jobs'[j].listeners = jobs[j].listeners /\ (Running(j) => Running(j)')
  PROVE  TypeInv' /\ ListenInv'
<1>1. TypeInv'
  BY DEF TypeInv, Running
<1>2. ASSUME NEW j \in Job, NEW q \in jobs'[j].listeners PROVE Listening(q, j)'
  <2>1. Listening(q, j) /\ q \in Page
    BY <1>2 DEF ListenInv, TypeInv, JobRow
  <2>2. page'[q].pc = page[q].pc /\ page'[q].job = page[q].job
    BY <2>1 DEF TypeInv, Listening, At
  <2> QED BY <2>1, <2>2 DEF Listening, At, GoesOn
<1>3. ASSUME NEW q \in Page PROVE Follower(q)'
  <2>1. page'[q] = IF q = p THEN new ELSE page[q]
    BY DEF TypeInv
  <2> QED BY <2>1 DEF Follower, ListenInv, At
<1> QED BY <1>1, <1>2, <1>3 DEF ListenInv

\* The records a page becomes.
Booting(r, s)   == [r EXCEPT !.pc = "booting", !.sent = s]
Answered(r, s)  == [r EXCEPT !.pc = "answered", !.reply = s, !.sent = None]
Ready(r)        == [r EXCEPT !.pc = "open", !.reply = None]
Acting(r, s)    == [r EXCEPT !.pc = "acting", !.sent = s]
Following(r, j) == [r EXCEPT !.pc = "subscribing", !.sent = None, !.job = j]
Refused(r)      == [r EXCEPT !.pc = "open", !.sent = None]
Stuck(r)        == [r EXCEPT !.pc = "stuck", !.sent = None]
Streaming(r)    == [r EXCEPT !.pc = "streaming"]
Quits(r, got)   == [r EXCEPT !.pc = "open", !.job = None, !.got = got, !.result = "none"]
Finished(r)     == [r EXCEPT !.result = "done"]
Told(r, got)    == [r EXCEPT !.got = got]
Bye(r, bye)     == [r EXCEPT !.bye = bye, !.byeTo = None]
Received(r)     == [r EXCEPT !.bye = "none"]
Gone(s)         == [NoTab EXCEPT !.bye = "sent", !.byeTo = s]

LinesOf == Seq({Line(n) : n \in 1 .. MaxLines})

LEMMA Turns ==
  ASSUME NEW r \in Tab, NEW s \in SessionId
  PROVE  /\ Booting(r, s) \in Tab /\ Booting(r, s).pc = "booting"
         /\ Answered(r, s) \in Tab /\ Answered(r, s).pc = "answered"
         /\ Ready(r) \in Tab /\ Ready(r).pc = "open"
         /\ Acting(r, s) \in Tab /\ Acting(r, s).pc = "acting"
         /\ \A j \in Job : Following(r, j) \in Tab /\ Following(r, j).job = j
<1>1. None \in SessionId
  BY DEF SessionId
<1>2. Booting(r, s) \in Tab /\ Booting(r, s).pc = "booting"
  BY DEF Booting, Tab
<1>3. Answered(r, s) \in Tab /\ Answered(r, s).pc = "answered"
  BY <1>1 DEF Answered, Tab
<1>4. Ready(r) \in Tab /\ Ready(r).pc = "open"
  BY <1>1 DEF Ready, Tab
<1>5. Acting(r, s) \in Tab /\ Acting(r, s).pc = "acting"
  BY DEF Acting, Tab
<1>6. \A j \in Job : Following(r, j) \in Tab /\ Following(r, j).job = j
  BY <1>1 DEF Following, Tab
<1> QED BY <1>2, <1>3, <1>4, <1>5, <1>6

LEMMA Ends ==
  ASSUME NEW r \in Tab
  PROVE  /\ Refused(r) \in Tab /\ Refused(r).pc = "open"
         /\ Stuck(r) \in Tab /\ Stuck(r).pc = "stuck"
         /\ \A got \in LinesOf : Quits(r, got) \in Tab /\ Quits(r, got).pc = "open"
<1>1. None \in SessionId
  BY DEF SessionId
<1>2. Refused(r) \in Tab /\ Refused(r).pc = "open"
  BY <1>1 DEF Refused, Tab
<1>3. Stuck(r) \in Tab /\ Stuck(r).pc = "stuck"
  BY <1>1 DEF Stuck, Tab
<1>4. ASSUME NEW got \in LinesOf PROVE Quits(r, got) \in Tab /\ Quits(r, got).pc = "open"
  BY <1>4 DEF Quits, Tab, LinesOf
<1> QED BY <1>2, <1>3, <1>4

\* Those of a page that follows a job, or that sent a release.
LEMMA Follows ==
  ASSUME NEW r \in Tab, NEW got \in LinesOf, NEW b \in {"none", "answered"}
  PROVE  /\ Streaming(r) \in Tab /\ Streaming(r).pc = "streaming" /\ Streaming(r).job = r.job
         /\ Finished(r) \in Tab /\ Finished(r).pc = r.pc /\ Finished(r).job = r.job
         /\ Told(r, got) \in Tab /\ Told(r, got).pc = r.pc /\ Told(r, got).job = r.job
         /\ Bye(r, b) \in Tab /\ Bye(r, b).pc = r.pc /\ Bye(r, b).job = r.job
         /\ Received(r) \in Tab /\ Received(r).pc = r.pc /\ Received(r).job = r.job
<1>1. None \in SessionId
  BY DEF SessionId
<1>2. Streaming(r) \in Tab /\ Streaming(r).pc = "streaming" /\ Streaming(r).job = r.job
  BY DEF Streaming, Tab
<1>3. Finished(r) \in Tab /\ Finished(r).pc = r.pc /\ Finished(r).job = r.job
  BY DEF Finished, Tab
<1>4. Told(r, got) \in Tab /\ Told(r, got).pc = r.pc /\ Told(r, got).job = r.job
  BY DEF Told, Tab, LinesOf
<1>5. Bye(r, b) \in Tab /\ Bye(r, b).pc = r.pc /\ Bye(r, b).job = r.job
  BY <1>1 DEF Bye, Tab
<1>6. Received(r) \in Tab /\ Received(r).pc = r.pc /\ Received(r).job = r.job
  BY DEF Received, Tab
<1> QED BY <1>2, <1>3, <1>4, <1>5, <1>6

LEMMA Nothing ==
  /\ <<>> \in LinesOf
  /\ NoTab \in Tab /\ NoTab.pc = "closed"
  /\ \A s \in SessionId : Gone(s) \in Tab /\ Gone(s).pc = "closed"
<1>1. <<>> \in LinesOf
  BY DEF LinesOf
<1>2. NoTab \in Tab /\ NoTab.pc = "closed"
  <2>1. \A got \in LinesOf : [pc |-> "closed", sent |-> None, reply |-> None, bye |-> "none", byeTo |-> None,
                             job |-> None, got |-> got, result |-> "none"] \in Tab
    BY DEF Tab, LinesOf, SessionId
  <2> QED BY <1>1, <2>1, Zenon DEF NoTab
<1>3. ASSUME NEW r \in Tab, NEW s \in SessionId
      PROVE  LET x == [r EXCEPT !.bye = "sent", !.byeTo = s] IN x \in Tab /\ x.pc = r.pc
  BY <1>3 DEF Tab
<1> QED BY <1>1, <1>2, <1>3, Zenon DEF Gone

-----------------------------------------------------------------------------
(* One action after another.                                               *)

\* Opening, asking for a session and getting it, and the release of one that
\* went away: no stream is concerned.
LEMMA SessionTurns ==
  ASSUME TypeInv, ListenInv, sessions' \in [Session -> SessionRow], NEW p \in Page,
         \/ Open(p) \/ Acquire(p) \/ ReceiveSession(p) \/ Heartbeat(p)
         \/ HandleRelease(p) \/ ReceiveReleased(p) \/ Act(p) \/ BeginAction(p)
  PROVE  TypeInv' /\ ListenInv'
<1> DEFINE r == page[p]
<1>1. r \in Tab /\ None \in SessionId /\ cookie \in SessionId /\ page \in [Page -> Tab] /\ jobs \in [Job -> JobRow]
      /\ request \in [Page -> SessionId \cup {NoRequest}]
  BY DEF TypeInv, SessionId
<1>2. r.sent \in SessionId /\ r.reply \in SessionId
  BY <1>1 DEF Tab
<1>3. CASE Open(p)
  <2>1. page' = [page EXCEPT ![p] = Booting(r, cookie)]
    BY <1>3 DEF Open, Booting
  <2>2. Booting(r, cookie) \in Tab /\ Booting(r, cookie).pc = "booting" /\ r.pc # "streaming"
    BY <1>1, <1>3, Turns DEF Open, At
  <2> HIDE DEF r
  <2> QED BY <1>1, <1>3, <2>1, <2>2, PageTurn DEF Open, Running, r
<1>4. CASE Acquire(p)
  <2> DEFINE got == IF Live(r.sent) THEN Resume(r.sent) ELSE Begin(CHOOSE s \in Unused : TRUE)
  <2>1. got.session \in SessionId
    <3>1. Live(r.sent) \/ (CHOOSE s \in Unused : TRUE) \in Session
      BY <1>4 DEF Acquire, Unused
    <3> QED BY <1>2, <3>1 DEF Resume, Begin, SessionId
  <2>2. page' = [page EXCEPT ![p] = Answered(r, got.session)]
    BY <1>4, Zenon DEF Acquire, Answered
  <2>3. Answered(r, got.session) \in Tab /\ Answered(r, got.session).pc = "answered" /\ r.pc # "streaming"
    <3>1. r.pc # "streaming"
      BY <1>4 DEF Acquire, At
    <3> HIDE DEF got, r
    <3> QED BY <1>1, <2>1, <3>1, Turns
  <2>4. UNCHANGED <<up, jobs, due, request, cookie, pipe>>
    BY <1>4, Zenon DEF Acquire
  <2> HIDE DEF got
  <2> DEFINE new == Answered(r, got.session)
  <2>5. new \in Tab /\ page' = [page EXCEPT ![p] = new] /\ new.pc = "answered" /\ page[p].pc # "streaming"
    BY <2>2, <2>3
  <2> HIDE DEF r, new
  <2> QED BY ONLY TypeInv, ListenInv, sessions' \in [Session -> SessionRow], p \in Page,
                  <1>1, <2>4, <2>5, PageTurn DEF Running
<1>5. CASE ReceiveSession(p)
  <2>1. page' = [page EXCEPT ![p] = Ready(r)]
    BY <1>5 DEF ReceiveSession, Ready
  <2>2. Ready(r) \in Tab /\ Ready(r).pc = "open" /\ r.pc # "streaming" /\ cookie' = r.reply
    BY <1>1, <1>5, Turns DEF ReceiveSession, At
  <2> HIDE DEF r
  <2> QED BY <1>1, <1>2, <1>5, <2>1, <2>2, PageTurn DEF ReceiveSession, Running, r
<1>6. CASE Heartbeat(p)
  BY <1>6 DEF Heartbeat, TypeInv, ListenInv, Follower, Listening, At, Running, GoesOn
<1>7. CASE HandleRelease(p)
  <2>1. PICK b \in {"none", "answered"} : page' = [page EXCEPT ![p] = Bye(r, b)]
    BY <1>7, Zenon DEF HandleRelease, Bye
  <2>2. Bye(r, b) \in Tab /\ Bye(r, b).pc = r.pc /\ Bye(r, b).job = r.job
    BY <1>1, Follows, Nothing
  <2> HIDE DEF r
  <2> QED BY <1>1, <1>7, <2>1, <2>2, PageTurn DEF HandleRelease, Running, r
<1>8. CASE ReceiveReleased(p)
  <2>1. page' = [page EXCEPT ![p] = Received(r)]
    BY <1>8 DEF ReceiveReleased, Received
  <2>2. Received(r) \in Tab /\ Received(r).pc = r.pc /\ Received(r).job = r.job
    BY <1>1, Follows, Nothing
  <2>3. cookie' \in SessionId
    BY <1>1, <1>8 DEF ReceiveReleased
  <2> HIDE DEF r
  <2> QED BY <1>1, <1>8, <2>1, <2>2, <2>3, PageTurn DEF ReceiveReleased, Running, r
<1>9. CASE Act(p)
  <2>1. page' = [page EXCEPT ![p] = Acting(r, cookie)]
    BY <1>9 DEF Act, Acting
  <2>2. Acting(r, cookie) \in Tab /\ Acting(r, cookie).pc = "acting" /\ r.pc # "streaming"
    BY <1>1, <1>9, Turns DEF Act, At
  <2> HIDE DEF r
  <2> QED BY <1>1, <1>9, <2>1, <2>2, PageTurn DEF Act, Running, r
<1>10. CASE BeginAction(p)
  <2>1. request' \in [Page -> SessionId \cup {NoRequest}]
    BY <1>1, <1>2, <1>10 DEF BeginAction
  <2> HIDE DEF r
  <2> QED BY <1>10, <2>1 DEF BeginAction, TypeInv, ListenInv, Follower, Listening, At, Running, GoesOn
<1> QED BY <1>3, <1>4, <1>5, <1>6, <1>7, <1>8, <1>9, <1>10

-----------------------------------------------------------------------------
(* The jobs and their streams.                                             *)

\* The records a job becomes.
Launched(r, s)   == [r EXCEPT !.status = "running", !.session = s]
Printing(r)      == [r EXCEPT !.lines = @ + 1]
Over(r)          == [r EXCEPT !.status = "ended", !.session = None, !.listeners = {}]
HeardBy(r, p)    == [r EXCEPT !.listeners = @ \cup {p}]
UnheardBy(r, p)  == [r EXCEPT !.listeners = r.listeners \ {p}]
Forgotten(r)     == [NoJob EXCEPT !.status = IF r.status = "new" THEN @ ELSE "forgotten"]

LEMMA JobTurns ==
  ASSUME NEW r \in JobRow, NEW s \in SessionId, NEW p \in Page
  PROVE  /\ Launched(r, s) \in JobRow /\ Launched(r, s).listeners = r.listeners
         /\ Launched(r, s).status = "running" /\ Launched(r, s).session = s
         /\ Over(r) \in JobRow /\ Over(r).listeners = {} /\ Over(r).status = "ended"
         /\ HeardBy(r, p) \in JobRow /\ HeardBy(r, p).listeners = r.listeners \cup {p}
         /\ HeardBy(r, p).status = r.status /\ HeardBy(r, p).session = r.session
         /\ UnheardBy(r, p) \in JobRow /\ UnheardBy(r, p).listeners = r.listeners \ {p}
         /\ UnheardBy(r, p).status = r.status /\ UnheardBy(r, p).session = r.session
<1>1. None \in SessionId
  BY DEF SessionId
<1>2. /\ Launched(r, s) \in JobRow /\ Launched(r, s).listeners = r.listeners
      /\ Launched(r, s).status = "running" /\ Launched(r, s).session = s
  BY DEF Launched, JobRow
<1>3. Over(r) \in JobRow /\ Over(r).listeners = {} /\ Over(r).status = "ended"
  BY <1>1 DEF Over, JobRow
<1>4. /\ HeardBy(r, p) \in JobRow /\ HeardBy(r, p).listeners = r.listeners \cup {p}
      /\ HeardBy(r, p).status = r.status /\ HeardBy(r, p).session = r.session
  BY DEF HeardBy, JobRow
<1>5. /\ UnheardBy(r, p) \in JobRow /\ UnheardBy(r, p).listeners = r.listeners \ {p}
      /\ UnheardBy(r, p).status = r.status /\ UnheardBy(r, p).session = r.session
  BY DEF UnheardBy, JobRow
<1> QED BY <1>2, <1>3, <1>4, <1>5

LEMMA JobPrints ==
  ASSUME NEW r \in JobRow, r.lines < MaxLines
  PROVE  /\ Printing(r) \in JobRow /\ Printing(r).listeners = r.listeners
         /\ Printing(r).status = r.status /\ Printing(r).session = r.session
         /\ r.lines + 1 \in 1 .. MaxLines
BY LinesAssumption DEF Printing, JobRow

LEMMA JobForgotten ==
  ASSUME NEW r
  PROVE  Forgotten(r) \in JobRow /\ Forgotten(r).listeners = {} /\ Forgotten(r).status # "running"
BY LinesAssumption DEF Forgotten, NoJob, JobRow, SessionId

LEMMA Longer ==
  ASSUME NEW a \in Seq(Frame), NEW b \in Seq(Frame)
  PROVE  a \o b \in Seq(Frame) /\ (GoesOn(a) /\ GoesOn(b) => GoesOn(a \o b))
<1>1. a \o b \in Seq(Frame)
  OBVIOUS
<1>2. ASSUME GoesOn(a), GoesOn(b), NEW k \in DOMAIN (a \o b) PROVE (a \o b)[k] # Closed
  <2>1. k \in 1 .. Len(a) + Len(b) /\ Len(a) \in Nat /\ Len(b) \in Nat
    BY <1>2
  <2>2. CASE k <= Len(a)
    BY <1>2, <2>1, <2>2 DEF GoesOn
  <2>3. CASE k > Len(a)
    <3>1. (a \o b)[k] = b[k - Len(a)] /\ k - Len(a) \in DOMAIN b
      BY <2>1, <2>3
    <3> QED BY <1>2, <3>1 DEF GoesOn
  <2> QED BY <2>1, <2>2, <2>3
<1> QED BY <1>1, <1>2 DEF GoesOn

LEMMA Shorter ==
  ASSUME NEW a \in Seq(Frame), a # <<>>
  PROVE  /\ Head(a) \in Frame /\ Tail(a) \in Seq(Frame)
         /\ GoesOn(a) => Head(a) # Closed /\ GoesOn(Tail(a))
<1>1. Head(a) \in Frame /\ Tail(a) \in Seq(Frame)
  OBVIOUS
<1>2. ASSUME GoesOn(a) PROVE Head(a) # Closed
  BY <1>2 DEF GoesOn
<1>3. ASSUME GoesOn(a), NEW k \in DOMAIN Tail(a) PROVE Tail(a)[k] # Closed
  <2>1. Tail(a)[k] = a[k + 1] /\ k + 1 \in DOMAIN a
    BY <1>3
  <2> QED BY <1>3, <2>1 DEF GoesOn
<1> QED BY <1>1, <1>2, <1>3 DEF GoesOn

\* The body of an action is there: its job starts, and has no listener yet.
LEMMA StartTurns ==
  ASSUME TypeInv, ListenInv, sessions' \in [Session -> SessionRow], NEW p \in Page, StartJob(p)
  PROVE  TypeInv' /\ ListenInv'
<1> DEFINE r == page[p]
           s == request[p]
<1>1. r \in Tab /\ None \in SessionId /\ page \in [Page -> Tab] /\ jobs \in [Job -> JobRow]
      /\ request \in [Page -> SessionId \cup {NoRequest}] /\ cookie \in SessionId
  BY DEF TypeInv, SessionId
<1>2. /\ request' \in [Page -> SessionId \cup {NoRequest}] /\ s \in SessionId
      /\ up' = up /\ pipe' = pipe /\ cookie' = cookie /\ due' = due
  BY <1>1 DEF StartJob
<1>3. CASE Live(s)
  <2>1. PICK j \in UnusedJobs :
          /\ jobs' = [jobs EXCEPT ![j] = Launched(jobs[j], s)]
          /\ page' = IF At(p, "acting") THEN [page EXCEPT ![p] = Following(r, j)] ELSE page
    <3>1. (CHOOSE i \in UnusedJobs : TRUE) \in UnusedJobs
      BY <1>3 DEF StartJob
    <3>2. LET i == CHOOSE i \in UnusedJobs : TRUE IN
            /\ jobs' = [jobs EXCEPT ![i] = Launched(jobs[i], s)]
            /\ page' = IF At(p, "acting") THEN [page EXCEPT ![p] = Following(r, i)] ELSE page
      BY <1>3, Zenon DEF StartJob, Launched, Following
    <3> QED BY <3>1, <3>2, Zenon
  <2>2. j \in Job /\ jobs[j] \in JobRow /\ jobs[j].status = "new"
    BY <1>1, <2>1 DEF UnusedJobs
  <2>3. /\ Launched(jobs[j], s) \in JobRow /\ Launched(jobs[j], s).listeners = jobs[j].listeners
        /\ Launched(jobs[j], s).status = "running"
    BY <1>2, <2>2, JobTurns
  <2>4. /\ jobs' \in [Job -> JobRow]
        /\ \A i \in Job : jobs'[i].listeners = jobs[i].listeners /\ (Running(i) => Running(i)')
    BY <1>1, <2>1, <2>2, <2>3 DEF Running
  <2>5. Following(r, j) \in Tab /\ Following(r, j).job \in Job
    BY <1>1, <2>2, Turns
  <2>6. CASE At(p, "acting")
    <3>1. page' = [page EXCEPT ![p] = Following(r, j)] /\ page[p].pc # "streaming"
      BY <2>1, <2>6 DEF At
    <3> HIDE DEF r, s
    <3> QED BY <1>1, <1>2, <2>4, <2>5, <3>1, PageTurn
  <2>7. CASE ~At(p, "acting")
    <3>1. page' = [page EXCEPT ![p] = r] /\ r.pc = page[p].pc /\ r.job = page[p].job
      BY <1>1, <2>1, <2>7
    <3> HIDE DEF r, s
    <3> QED BY <1>1, <1>2, <2>4, <3>1, PageTurn
  <2> QED BY <2>6, <2>7
<1>4. CASE ~Live(s)
  <2>1. /\ jobs' = jobs
        /\ page' = IF At(p, "acting") THEN [page EXCEPT ![p] = Refused(r)] ELSE page
    BY <1>4 DEF StartJob, Refused
  <2>2. Refused(r) \in Tab /\ Refused(r).pc = "open"
    BY <1>1, Ends
  <2>3. jobs' \in [Job -> JobRow] /\ \A i \in Job : jobs'[i].listeners = jobs[i].listeners /\ (Running(i) => Running(i)')
    BY <1>1, <2>1 DEF Running
  <2>4. CASE At(p, "acting")
    <3>1. page' = [page EXCEPT ![p] = Refused(r)] /\ page[p].pc # "streaming"
      BY <2>1, <2>4 DEF At
    <3> HIDE DEF r, s
    <3> QED BY <1>1, <1>2, <2>2, <2>3, <3>1, PageTurn
  <2>5. CASE ~At(p, "acting")
    <3>1. page' = [page EXCEPT ![p] = r] /\ r.pc = page[p].pc /\ r.job = page[p].job
      BY <1>1, <2>1, <2>5
    <3> HIDE DEF r, s
    <3> QED BY <1>1, <1>2, <2>3, <3>1, PageTurn
  <2> QED BY <2>4, <2>5
<1> QED BY <1>3, <1>4

\* A page that goes away takes itself off every list.
LEMMA UnloadTurns ==
  ASSUME TypeInv, ListenInv, sessions' \in [Session -> SessionRow], NEW p \in Page, Unload(p)
  PROVE  TypeInv' /\ ListenInv'
<1>1. page \in [Page -> Tab] /\ jobs \in [Job -> JobRow] /\ pipe \in [Page -> Seq(Frame)] /\ cookie \in SessionId
  BY DEF TypeInv
<1>2. page' = [page EXCEPT ![p] = Gone(cookie)] /\ Gone(cookie) \in Tab /\ Gone(cookie).pc = "closed"
  <2>1. page' = [page EXCEPT ![p] = Gone(cookie)]
    BY Zenon DEF Unload, Gone
  <2> QED BY <1>1, <2>1, Nothing
<1>3. jobs' = [j \in Job |-> UnheardBy(jobs[j], p)]
  BY DEF Unload, UnheardBy, ListenersWithout
<1>4. pipe' = [pipe EXCEPT ![p] = <<>>] /\ <<>> \in Seq(Frame) /\ UNCHANGED <<up, sessions, due, request, cookie>>
  BY DEF Unload
<1>5. ASSUME NEW j \in Job
      PROVE  /\ jobs'[j] \in JobRow /\ jobs'[j].listeners = jobs[j].listeners \ {p}
             /\ jobs'[j].status = jobs[j].status
  <2>1. None \in SessionId /\ jobs[j] \in JobRow
    BY <1>1 DEF SessionId
  <2> QED BY <1>3, <2>1, JobTurns
<1>6. TypeInv'
  <2>1. jobs' \in [Job -> JobRow]
    BY <1>3, <1>5
  <2>2. page' \in [Page -> Tab] /\ pipe' \in [Page -> Seq(Frame)]
    BY <1>1, <1>2, <1>4
  <2> QED BY <1>4, <1>5, <2>1, <2>2 DEF TypeInv, Running
<1>7. ASSUME NEW j \in Job, NEW q \in jobs'[j].listeners PROVE Listening(q, j)'
  <2>1. q \in Page /\ q # p /\ Listening(q, j)
    BY <1>1, <1>5, <1>7 DEF ListenInv, JobRow
  <2>2. page'[q] = page[q] /\ pipe'[q] = pipe[q]
    BY <1>1, <1>2, <1>4, <2>1
  <2> QED BY <2>1, <2>2 DEF Listening, At, GoesOn
<1>8. ASSUME NEW q \in Page PROVE Follower(q)'
  <2>1. page'[q] = IF q = p THEN Gone(cookie) ELSE page[q]
    BY <1>1, <1>2
  <2> QED BY <1>2, <2>1 DEF Follower, ListenInv, At
<1> QED BY <1>6, <1>7, <1>8 DEF ListenInv

\* A page that subscribes reads what was printed, and listens if there may be more.
LEMMA SubscribeTurns ==
  ASSUME TypeInv, ListenInv, sessions' \in [Session -> SessionRow], NEW p \in Page, Subscribe(p)
  PROVE  TypeInv' /\ ListenInv'
<1> DEFINE r == page[p]
           j == r.job
<1>1. r \in Tab /\ page \in [Page -> Tab] /\ jobs \in [Job -> JobRow] /\ pipe \in [Page -> Seq(Frame)]
      /\ r.pc = "subscribing" /\ j \in Job
  BY DEF TypeInv, ListenInv, Follower, Subscribe, At
<1>2. UNCHANGED <<up, sessions, due, request, cookie>>
  BY DEF Subscribe
<1>3. CASE ~up \/ jobs[j].status = "forgotten"
  <2>1. page' = [page EXCEPT ![p] = Quits(r, <<>>)] /\ UNCHANGED <<jobs, pipe>>
    BY <1>3 DEF Subscribe, Quit, Quits
  <2>2. Quits(r, <<>>) \in Tab /\ Quits(r, <<>>).pc = "open"
    BY <1>1, Ends, Nothing
  <2>3. \A i \in Job : jobs'[i].listeners = jobs[i].listeners /\ (Running(i) => Running(i)')
    BY <2>1 DEF Running
  <2>4. /\ request' \in [Page -> SessionId \cup {NoRequest}] /\ cookie' \in SessionId
        /\ jobs' \in [Job -> JobRow] /\ page[p].pc # "streaming"
    BY <1>1, <1>2, <2>1 DEF TypeInv
  <2> HIDE DEF r, j
  <2> QED BY <1>1, <1>2, <2>1, <2>2, <2>3, <2>4, PageTurn
<1>4. CASE up /\ jobs[j].status # "forgotten"
  <2>1. page' = [page EXCEPT ![p] = Streaming(r)]
    BY <1>4 DEF Subscribe, Streaming
  <2>2. Streaming(r) \in Tab /\ Streaming(r).pc = "streaming" /\ Streaming(r).job = j
    BY <1>1, Follows, Nothing
  <2>3. \A i \in Job : p \notin jobs[i].listeners
    BY <1>1 DEF ListenInv, Listening, At
  <2>4. page' \in [Page -> Tab] /\ \A q \in Page : q # p => page'[q] = page[q]
    BY <1>1, <2>1, <2>2
  <2>5. ASSUME NEW q \in Page PROVE Follower(q)'
    <3>1. page'[q] = IF q = p THEN Streaming(r) ELSE page[q]
      BY <1>1, <2>1
    <3> HIDE DEF r
    <3> QED BY <2>2, <3>1 DEF Follower, ListenInv, At
  <2>6. CASE jobs[j].status = "running"
    <3>1. pipe' = [pipe EXCEPT ![p] = Replay(j)] /\ jobs' = [jobs EXCEPT ![j] = HeardBy(jobs[j], p)]
      BY <1>4, <2>6, Zenon DEF Subscribe, HeardBy
    <3>2. Replay(j) \in Seq(Frame) /\ GoesOn(Replay(j))
      BY <1>1, <2>6, ReplayType
    <3>3. HeardBy(jobs[j], p) \in JobRow /\ HeardBy(jobs[j], p).listeners = jobs[j].listeners \cup {p}
          /\ HeardBy(jobs[j], p).status = jobs[j].status
      <4>1. None \in SessionId /\ jobs[j] \in JobRow
        BY <1>1, <2>6 DEF SessionId
      <4> QED BY <4>1, JobTurns
    <3>4. /\ jobs' \in [Job -> JobRow]
          /\ \A i \in Job : jobs'[i].listeners \subseteq jobs[i].listeners \cup {p}
                            /\ (i # j => jobs'[i].listeners = jobs[i].listeners) /\ (Running(i) => Running(i)')
      BY <1>1, <3>1, <3>3 DEF Running
    <3>5. TypeInv'
      <4>1. pipe' \in [Page -> Seq(Frame)]
        BY <1>1, <3>1, <3>2
      <4>2. due' \subseteq {i \in Job : Running(i)'}
        BY <1>2, <3>4 DEF TypeInv
      <4> HIDE DEF r, j
      <4> QED BY <1>2, <2>4, <3>4, <4>1, <4>2 DEF TypeInv, Running
    <3>6. ASSUME NEW i \in Job, NEW q \in jobs'[i].listeners PROVE Listening(q, i)'
      <4>1. CASE q = p
        <5>1. i = j
          BY <2>3, <3>4, <3>6, <4>1
        <5>2. page'[p] = Streaming(r) /\ pipe'[p] = Replay(j)
          BY <1>1, <2>1, <3>1
        <5> HIDE DEF r
        <5> QED BY <2>2, <3>2, <4>1, <5>1, <5>2 DEF Listening, At, GoesOn
      <4>2. CASE q # p
        <5>1. q \in jobs[i].listeners /\ q \in Page
          BY <1>1, <3>4, <3>6, <4>2 DEF JobRow
        <5>2. Listening(q, i) /\ page'[q] = page[q] /\ pipe'[q] = pipe[q]
          BY <1>1, <2>4, <3>1, <4>2, <5>1 DEF ListenInv
        <5> QED BY <5>2 DEF Listening, At, GoesOn
      <4> QED BY <4>1, <4>2
    <3> QED BY <2>5, <3>5, <3>6 DEF ListenInv
  <2>7. CASE jobs[j].status # "running"
    <3>1. pipe' = [pipe EXCEPT ![p] = Replay(j) \o <<Done, Closed>>] /\ jobs' = jobs
      BY <1>4, <2>7, Zenon DEF Subscribe
    <3>2. Replay(j) \o <<Done, Closed>> \in Seq(Frame)
      BY <1>1, ReplayType, Frames, Longer
    <3>3. pipe' \in [Page -> Seq(Frame)] /\ \A q \in Page : q # p => pipe'[q] = pipe[q]
      <4> HIDE DEF j
      <4> QED BY <1>1, <3>1, <3>2
    <3>4. TypeInv'
      BY <1>2, <2>4, <3>1, <3>3 DEF TypeInv, Running
    <3>5. ASSUME NEW i \in Job, NEW q \in jobs'[i].listeners PROVE Listening(q, i)'
      <4>1. q \in Page /\ q # p /\ Listening(q, i)
        BY <1>1, <2>3, <3>1, <3>5 DEF JobRow, ListenInv
      <4> QED BY <2>4, <3>3, <4>1 DEF Listening, At, GoesOn
    <3> QED BY <2>5, <3>4, <3>5 DEF ListenInv
  <2> QED BY <2>6, <2>7
<1> QED BY <1>3, <1>4

\* A page reads a frame: a listener's is not the end.
LEMMA ReadTurns ==
  ASSUME TypeInv, ListenInv, sessions' \in [Session -> SessionRow], NEW p \in Page, Read(p)
  PROVE  TypeInv' /\ ListenInv'
<1> DEFINE r == page[p]
           frame == Head(pipe[p])
           got == Append(r.got, frame)
<1>1. r \in Tab /\ page \in [Page -> Tab] /\ jobs \in [Job -> JobRow] /\ pipe \in [Page -> Seq(Frame)]
      /\ r.pc = "streaming" /\ pipe[p] # <<>> /\ UNCHANGED <<up, sessions, jobs, due, request, cookie>>
  BY DEF TypeInv, Read, At
<1>2. page' = [page EXCEPT ![p] = IF frame = Closed THEN Quits(r, <<>>)
                                  ELSE IF frame = Done THEN Finished(r) ELSE Told(r, got)]
  BY Zenon DEF Read, EndOfStream, Quit, Quits, Finished, Told
<1>3. pipe' = [pipe EXCEPT ![p] = Tail(pipe[p])]
  BY DEF Read
<1>4. /\ frame \in Frame /\ Tail(pipe[p]) \in Seq(Frame)
      /\ GoesOn(pipe[p]) => frame # Closed /\ GoesOn(Tail(pipe[p]))
  BY <1>1, Shorter
<1>5. ASSUME frame # Closed, frame # Done PROVE got \in LinesOf
  <2>1. frame \in {Line(n) : n \in 1 .. MaxLines} /\ r.got \in Seq({Line(n) : n \in 1 .. MaxLines})
    BY <1>1, <1>4, <1>5, Frames DEF Tab
  <2> HIDE DEF frame, r
  <2> QED BY <2>1 DEF LinesOf
<1>6. /\ page'[p] \in Tab /\ page'[p].pc \in {"open", "streaming"}
      /\ frame # Closed => page'[p].pc = "streaming" /\ page'[p].job = r.job
  <2>1. page'[p] = IF frame = Closed THEN Quits(r, <<>>)
                   ELSE IF frame = Done THEN Finished(r) ELSE Told(r, got)
    BY <1>1, <1>2
  <2>2. Quits(r, <<>>) \in Tab /\ Quits(r, <<>>).pc = "open"
    BY <1>1, Ends, Nothing
  <2>3. Finished(r) \in Tab /\ Finished(r).pc = r.pc /\ Finished(r).job = r.job
    BY <1>1, Follows, Nothing
  <2>4. ASSUME frame # Closed, frame # Done
        PROVE  Told(r, got) \in Tab /\ Told(r, got).pc = r.pc /\ Told(r, got).job = r.job
    <3>1. got \in LinesOf
      BY <1>5, <2>4
    <3> HIDE DEF got, r
    <3> QED BY <1>1, <3>1, Follows
  <2> HIDE DEF r, frame, got
  <2> QED BY <1>1, <2>1, <2>2, <2>3, <2>4
<1>7. page' \in [Page -> Tab] /\ \A q \in Page : q # p => page'[q] = page[q] /\ pipe'[q] = pipe[q]
  <2> HIDE DEF r, frame, got
  <2> QED BY <1>1, <1>2, <1>3, <1>6
<1>8. pipe' \in [Page -> Seq(Frame)] /\ pipe'[p] = Tail(pipe[p])
  BY <1>1, <1>3, <1>4
<1>9. TypeInv'
  BY <1>1, <1>7, <1>8 DEF TypeInv, Running
<1>10. ASSUME NEW j \in Job, NEW q \in jobs'[j].listeners PROVE Listening(q, j)'
  <2>1. q \in Page /\ Listening(q, j)
    BY <1>1, <1>10 DEF ListenInv, JobRow
  <2>2. CASE q = p
    BY <1>4, <1>6, <1>8, <2>1, <2>2 DEF Listening, At, GoesOn
  <2>3. CASE q # p
    BY <1>7, <2>1, <2>3 DEF Listening, At, GoesOn
  <2> QED BY <2>2, <2>3
<1>11. ASSUME NEW q \in Page PROVE Follower(q)'
  BY <1>6, <1>7 DEF Follower, ListenInv, At
<1> QED BY <1>9, <1>10, <1>11 DEF ListenInv

\* What a job sends goes to its listeners alone, who follow no other.
LEMMA Sends ==
  ASSUME TypeInv, ListenInv, NEW j \in Job, NEW frames \in Seq(Frame), Send(j, frames)
  PROVE  /\ pipe' \in [Page -> Seq(Frame)]
         /\ \A q \in Page : GoesOn(frames) /\ GoesOn(pipe[q]) => GoesOn(pipe'[q])
         /\ \A i \in Job \ {j} : \A q \in jobs[i].listeners : pipe'[q] = pipe[q]
<1>1. pipe \in [Page -> Seq(Frame)] /\ jobs \in [Job -> JobRow]
  BY DEF TypeInv
<1>2. pipe' = [p \in Page |-> IF p \in jobs[j].listeners THEN pipe[p] \o frames ELSE pipe[p]]
  BY DEF Send
<1>3. ASSUME NEW q \in Page
      PROVE  /\ pipe[q] \o frames \in Seq(Frame)
             /\ GoesOn(frames) /\ GoesOn(pipe[q]) => GoesOn(pipe[q] \o frames)
  BY <1>1, Longer
<1>4. pipe' \in [Page -> Seq(Frame)]
  BY <1>1, <1>2, <1>3
<1>5. \A q \in Page : GoesOn(frames) /\ GoesOn(pipe[q]) => GoesOn(pipe'[q])
  BY <1>2, <1>3
<1>6. ASSUME NEW i \in Job \ {j}, NEW q \in jobs[i].listeners PROVE pipe'[q] = pipe[q]
  <2>1. q \in Page
    BY <1>1, <1>6 DEF JobRow
  <2>2. page[q].job = i
    BY <1>6, Zenon DEF ListenInv, Listening
  <2>3. q \in jobs[j].listeners => page[q].job = j
    BY Zenon DEF ListenInv, Listening
  <2> QED BY <1>2, <2>1, <2>2, <2>3
<1> QED BY <1>4, <1>5, <1>6

LEMMA LogTurns ==
  ASSUME TypeInv, ListenInv, sessions' \in [Session -> SessionRow], NEW j \in Job, Log(j)
  PROVE  TypeInv' /\ ListenInv'
<1> DEFINE frames == <<Line(jobs[j].lines + 1)>>
<1>1. jobs \in [Job -> JobRow] /\ UNCHANGED <<up, sessions, due, request, cookie, page>> /\ Send(j, frames)
  BY DEF TypeInv, Log
<1>2. jobs' = [jobs EXCEPT ![j] = Printing(jobs[j])]
  BY Zenon DEF Log, Printing
<1>3. /\ Printing(jobs[j]) \in JobRow /\ Printing(jobs[j]).listeners = jobs[j].listeners
      /\ Printing(jobs[j]).status = jobs[j].status /\ jobs[j].lines + 1 \in 1 .. MaxLines
  BY <1>1, JobPrints DEF Log
<1>4. frames \in Seq(Frame) /\ GoesOn(frames)
  <2>1. Line(jobs[j].lines + 1) \in Frame /\ Line(jobs[j].lines + 1) # Closed
    BY <1>3, Frames
  <2> QED BY <2>1 DEF GoesOn
<1>5. pipe' \in [Page -> Seq(Frame)] /\ \A q \in Page : GoesOn(pipe[q]) => GoesOn(pipe'[q])
  <2> HIDE DEF frames
  <2> QED BY <1>1, <1>4, Sends
<1>6. /\ jobs' \in [Job -> JobRow]
      /\ \A i \in Job : jobs'[i].listeners = jobs[i].listeners /\ jobs'[i].status = jobs[i].status
  BY <1>1, <1>2, <1>3
<1>7. TypeInv'
  BY <1>1, <1>5, <1>6 DEF TypeInv, Running
<1>8. ASSUME NEW i \in Job, NEW q \in jobs'[i].listeners PROVE Listening(q, i)'
  <2>1. q \in Page /\ Listening(q, i)
    BY <1>1, <1>6, <1>8 DEF ListenInv, JobRow
  <2> QED BY <1>1, <1>5, <2>1 DEF Listening, At, GoesOn
<1> QED BY <1>1, <1>7, <1>8 DEF ListenInv, Follower, At

\* A job that ends has no listener more.
LEMMA ExitTurns ==
  ASSUME TypeInv, ListenInv, sessions' \in [Session -> SessionRow], NEW j \in Job, Exit(j)
  PROVE  TypeInv' /\ ListenInv'
<1>1. jobs \in [Job -> JobRow] /\ UNCHANGED <<up, request, cookie, page>> /\ Send(j, <<Done, Closed>>)
      /\ due' = due \ {j}
  BY DEF TypeInv, Exit
<1>2. jobs' = [jobs EXCEPT ![j] = Over(jobs[j])]
  BY Zenon DEF Exit, Over
<1>3. Over(jobs[j]) \in JobRow /\ Over(jobs[j]).listeners = {}
  BY LinesAssumption, <1>1 DEF Over, JobRow, SessionId
<1>4. /\ pipe' \in [Page -> Seq(Frame)]
      /\ \A i \in Job \ {j} : \A q \in jobs[i].listeners : pipe'[q] = pipe[q]
  <2>1. <<Done, Closed>> \in Seq(Frame)
    BY Frames
  <2> QED BY <1>1, <2>1, Sends
<1>5. jobs' \in [Job -> JobRow] /\ jobs'[j].listeners = {} /\ \A i \in Job \ {j} : jobs'[i] = jobs[i]
  BY <1>1, <1>2, <1>3
<1>6. TypeInv'
  BY <1>1, <1>4, <1>5 DEF TypeInv, Running
<1>7. ASSUME NEW i \in Job, NEW q \in jobs'[i].listeners PROVE Listening(q, i)'
  <2>1. i # j /\ jobs'[i] = jobs[i]
    BY <1>5, <1>7
  <2>2. q \in Page /\ Listening(q, i) /\ pipe'[q] = pipe[q]
    BY <1>1, <1>4, <1>7, <2>1 DEF ListenInv, JobRow
  <2> QED BY <1>1, <2>2 DEF Listening, At, GoesOn
<1> QED BY <1>1, <1>6, <1>7 DEF ListenInv, Follower, At

\* Timers, time and a restart concern no page and no job.
LEMMA TimeTurns ==
  ASSUME TypeInv, ListenInv, sessions' \in [Session -> SessionRow],
         (\E j \in Job : KeepAlive(j)) \/ Tick \/ Restart \/ UNCHANGED vars
  PROVE  TypeInv' /\ ListenInv'
<1>1. /\ UNCHANGED <<jobs, request, cookie, page, pipe>> /\ up' \in BOOLEAN
      /\ due' \subseteq {i \in Job : Running(i)}
  BY DEF TypeInv, KeepAlive, Tick, Restart, vars
<1>2. TypeInv'
  BY <1>1 DEF TypeInv, Running
<1>3. ListenInv'
  BY <1>1 DEF ListenInv, Follower, Listening, At, GoesOn
<1> QED BY <1>2, <1>3

\* The server dies: no job, and no listener.
LEMMA CrashTurns ==
  ASSUME TypeInv, ListenInv, sessions' \in [Session -> SessionRow], Crash
  PROVE  TypeInv' /\ ListenInv'
<1>1. page \in [Page -> Tab] /\ pipe \in [Page -> Seq(Frame)] /\ up' \in BOOLEAN /\ due' = {}
      /\ request' \in [Page -> SessionId \cup {NoRequest}] /\ cookie' = cookie /\ cookie \in SessionId
  <2>1. up' = FALSE /\ due' = {} /\ request' = [p \in Page |-> NoRequest] /\ cookie' = cookie
    BY Zenon DEF Crash
  <2> QED BY <2>1 DEF TypeInv
<1>2. jobs' = [j \in Job |-> Forgotten(jobs[j])]
  BY Zenon DEF Crash, Forgotten
<1>3. jobs' \in [Job -> JobRow] /\ \A j \in Job : jobs'[j].listeners = {}
  BY <1>2, JobForgotten
<1>4. page' = [p \in Page |-> IF At(p, "booting") THEN Refused(page[p])
                              ELSE IF At(p, "acting") THEN Stuck(page[p]) ELSE page[p]]
  BY Zenon DEF Crash, Refused, Stuck
<1>5. ASSUME NEW p \in Page PROVE page'[p] \in Tab /\ Follower(p)'
  <2>1. Refused(page[p]) \in Tab /\ Refused(page[p]).pc = "open" /\ Stuck(page[p]) \in Tab /\ Stuck(page[p]).pc = "stuck"
    BY <1>1, Ends
  <2> QED BY <1>1, <1>4, <2>1 DEF Follower, ListenInv, At
<1>6. pipe' \in [Page -> Seq(Frame)]
  <2>1. PICK arrives \in BOOLEAN :
          pipe' = [p \in Page |-> IF \E j \in Job : p \in jobs[j].listeners
                                  THEN (IF arrives THEN pipe[p] ELSE <<>>) \o <<Closed>> ELSE pipe[p]]
    BY Zenon DEF Crash
  <2>2. ASSUME NEW p \in Page PROVE (IF arrives THEN pipe[p] ELSE <<>>) \o <<Closed>> \in Seq(Frame)
    <3>1. (IF arrives THEN pipe[p] ELSE <<>>) \in Seq(Frame) /\ <<Closed>> \in Seq(Frame)
      BY <1>1, Frames
    <3> QED BY <3>1, Longer
  <2> QED BY <1>1, <2>1, <2>2
<1>7. page' \in [Page -> Tab]
  BY <1>4, <1>5
<1>8. TypeInv'
  BY <1>1, <1>3, <1>6, <1>7 DEF TypeInv
<1> QED BY <1>3, <1>5, <1>8 DEF ListenInv

LEMMA TypeStep ==
  ASSUME TypeInv, ListenInv, [Next]_vars
  PROVE  TypeInv' /\ ListenInv'
<1>1. sessions' \in [Session -> SessionRow]
  BY StoreSteps, StoreTypes DEF TypeInv
<1>2. ASSUME NEW p \in Page,
             \/ Open(p) \/ Acquire(p) \/ ReceiveSession(p) \/ Heartbeat(p)
             \/ HandleRelease(p) \/ ReceiveReleased(p) \/ Act(p) \/ BeginAction(p)
      PROVE  TypeInv' /\ ListenInv'
  BY <1>1, <1>2, SessionTurns
<1>3. ASSUME NEW p \in Page, Unload(p) \/ StartJob(p) \/ Subscribe(p) \/ Read(p)
      PROVE  TypeInv' /\ ListenInv'
  BY <1>1, <1>3, UnloadTurns, StartTurns, SubscribeTurns, ReadTurns
<1>4. ASSUME NEW j \in Job, Log(j) \/ Exit(j) PROVE TypeInv' /\ ListenInv'
  BY <1>1, <1>4, LogTurns, ExitTurns
<1>5. CASE (\E j \in Job : KeepAlive(j)) \/ Tick \/ Restart \/ UNCHANGED vars
  BY <1>1, <1>5, TimeTurns
<1>6. CASE Crash
  BY <1>1, <1>6, CrashTurns
<1> QED BY <1>2, <1>3, <1>4, <1>5, <1>6 DEF Next

-----------------------------------------------------------------------------
(* A running job keeps its session.                                        *)

\* What is held with a life stays so, but for a release, when no time passes;
\* what begins or is touched has two units at least.
LEMMA StillHeld ==
  ASSUME sessions \in [Session -> SessionRow], Handled, NEW s \in Session
  PROVE  /\ \A n \in 1 .. 2 : Held(s, n) => Held(s, n)' \/ sessions'[s].status = "released"
         /\ sessions[s].status = "released" => sessions'[s].status = "released"
         /\ Live(s)' => Held(s, 2)' \/ (Live(s) /\ sessions'[s] = sessions[s])
<1>1. BecomesOf(s, sessions') /\ sessions[s] \in SessionRow /\ Ttl >= 2 /\ Ttl \in Nat
  BY TtlAssumption DEF Handled
<1> QED BY <1>1 DEF BecomesOf, Held, Live, Row, SessionRow

\* A touch gives two units to what is alive.
LEMMA Touched ==
  ASSUME sessions \in [Session -> SessionRow], NEW s \in Session, sessions' = Touch(s)
  PROVE  Live(s) \/ Live(s)' => Held(s, 2)'
<1>1. sessions' = [x \in Session |-> IF x = s /\ Live(s) THEN Row("held", Ttl) ELSE sessions[x]]
  BY TouchIs
<1> QED BY <1>1, TtlAssumption DEF Live, Held, Row

\* A step that lets no time pass, that takes no due timer from a job that runs
\* on, and that starts none.
LEMMA KeptAsWas ==
  ASSUME TypeInv, KeepInv, Handled, NEW j \in Job,
         Running(j), jobs'[j].session = jobs[j].session, j \in due => j \in due'
  PROVE  Assured(j)'
<1> DEFINE s == jobs[j].session
<1>1. s \in Session \ {None} /\ (sessions[s].status = "released" \/ Held(s, 2) \/ (Held(s, 1) /\ j \in due))
  BY DEF KeepInv, Assured
<1>2. /\ \A n \in 1 .. 2 : Held(s, n) => Held(s, n)' \/ sessions'[s].status = "released"
      /\ sessions[s].status = "released" => sessions'[s].status = "released"
  BY <1>1, StillHeld DEF TypeInv
<1> QED BY <1>1, <1>2 DEF Assured, Held

LEMMA RequestAsWas ==
  ASSUME TypeInv, KeepInv, Handled, NEW p \in Page, request'[p] = request[p],
         request[p] # NoRequest, Live(request[p])'
  PROVE  Held(request[p], 2)'
<1> DEFINE s == request[p]
<1>1. s \in Session
  BY DEF TypeInv, SessionId, Live
<1>2. Held(s, 2)' \/ (Live(s) /\ sessions'[s] = sessions[s])
  BY <1>1, StillHeld DEF TypeInv
<1>3. Live(s) => Held(s, 2)
  BY DEF KeepInv, KeptFor
<1> QED BY <1>2, <1>3 DEF Held

\* Nothing of the jobs and of the requests changes, but for jobs that end or print.
LEMMA KeptQuietly ==
  ASSUME TypeInv, KeepInv, Handled, request' = request,
         \A j \in Job : Running(j)' => /\ Running(j) /\ jobs'[j].session = jobs[j].session
                                       /\ j \in due => j \in due'
  PROVE  KeepInv'
<1>1. ASSUME NEW p \in Page PROVE KeptFor(p)'
  BY RequestAsWas DEF KeptFor
<1>2. ASSUME NEW j \in Job, Running(j)' PROVE Assured(j)'
  BY <1>2, KeptAsWas
<1> QED BY <1>1, <1>2 DEF KeepInv

LEMMA KeepTick ==
  ASSUME TypeInv, KeepInv, Tick
  PROVE  KeepInv'
<1>1. \A p \in Page : request'[p] = NoRequest
  BY DEF Tick
<1>2. due = {} /\ due' = {j \in Job : Running(j)} /\ jobs' = jobs
  BY DEF Tick
<1>3. sessions' = [s \in Session |-> Row(sessions[s].status, Earlier(sessions[s].left))]
  BY AgedIs DEF Tick, Aged, TypeInv
<1>4. ASSUME NEW j \in Job, Running(j)' PROVE Assured(j)'
  <2> DEFINE s == jobs[j].session
  <2>1. Running(j) /\ j \in due'
    BY <1>2, <1>4 DEF Running
  <2>2. s \in Session \ {None} /\ (sessions[s].status = "released" \/ Held(s, 2))
    BY <1>2, <2>1 DEF KeepInv, Assured
  <2>3. sessions[s].left \in Nat
    BY <2>2 DEF TypeInv, SessionRow
  <2> QED BY <1>2, <1>3, <2>1, <2>2, <2>3 DEF Assured, Held, Row, Earlier
<1> QED BY <1>1, <1>4 DEF KeepInv, KeptFor

LEMMA KeepStep ==
  ASSUME TypeInv, KeepInv, [Next]_vars
  PROVE  KeepInv'
<1>1. sessions \in [Session -> SessionRow] /\ jobs \in [Job -> JobRow] /\ StoreStep
      /\ request \in [Page -> SessionId \cup {NoRequest}] /\ due \subseteq {j \in Job : Running(j)}
  BY StoreSteps DEF TypeInv
<1>2. CASE Tick
  BY <1>2, KeepTick
<1>3. ASSUME Handled PROVE KeepInv'
  <2>1. ASSUME UNCHANGED <<jobs, due, request>> PROVE KeepInv'
    BY <1>3, <2>1, KeptQuietly DEF Running
  <2>2. ASSUME NEW p \in Page,
               \/ Open(p) \/ Acquire(p) \/ ReceiveSession(p) \/ Heartbeat(p)
               \/ HandleRelease(p) \/ ReceiveReleased(p) \/ Act(p) \/ Read(p)
        PROVE  KeepInv'
    <3>1. UNCHANGED <<jobs, due, request>>
      BY <2>2, Zenon DEF Open, Acquire, ReceiveSession, Heartbeat, HandleRelease, ReceiveReleased, Act, Read
    <3> QED BY <2>1, <3>1
  <2>3. ASSUME NEW p \in Page, Unload(p) PROVE KeepInv'
    <3>1. jobs' = [j \in Job |-> UnheardBy(jobs[j], p)] /\ UNCHANGED <<due, request>>
      BY <2>3 DEF Unload, UnheardBy, ListenersWithout
    <3>2. ASSUME NEW j \in Job
          PROVE  UnheardBy(jobs[j], p).status = jobs[j].status /\ UnheardBy(jobs[j], p).session = jobs[j].session
      <4>1. jobs[j] \in JobRow /\ None \in SessionId
        BY <1>1 DEF SessionId
      <4> QED BY <4>1, JobTurns
    <3> QED BY <1>3, <3>1, <3>2, KeptQuietly DEF Running
  <2>4. ASSUME NEW p \in Page, Subscribe(p) PROVE KeepInv'
    <3> DEFINE j == page[p].job
    <3>1. UNCHANGED <<due, request>> /\ (jobs' = jobs \/ jobs' = [jobs EXCEPT ![j] = HeardBy(jobs[j], p)])
      <4>1. UNCHANGED <<due, request>>
        BY <2>4, Zenon DEF Subscribe
      <4>2. CASE ~up \/ jobs[j].status # "running"
        BY <2>4, <4>2, Zenon DEF Subscribe
      <4>3. CASE ~(~up \/ jobs[j].status = "forgotten") /\ jobs[j].status = "running"
        BY <2>4, <4>3, Zenon DEF Subscribe, HeardBy
      <4>4. "running" # "forgotten"
        OBVIOUS
      <4> QED BY <4>1, <4>2, <4>3, <4>4
    <3>2. ASSUME NEW i \in Job
          PROVE  HeardBy(jobs[i], p).status = jobs[i].status /\ HeardBy(jobs[i], p).session = jobs[i].session
      <4>1. jobs[i] \in JobRow /\ None \in SessionId
        BY <1>1 DEF SessionId
      <4> QED BY <4>1, JobTurns
    <3> HIDE DEF j
    <3>3. \A i \in Job : jobs'[i].status = jobs[i].status /\ jobs'[i].session = jobs[i].session
      BY <1>1, <3>1, <3>2
    <3> QED BY <1>3, <3>1, <3>3, KeptQuietly DEF Running
  <2>5. ASSUME NEW p \in Page, BeginAction(p) PROVE KeepInv'
    <3>0. PICK s : s = page[p].sent
      OBVIOUS
    <3>1. UNCHANGED <<jobs, due>> /\ request' = [request EXCEPT ![p] = s] /\ sessions' = Touch(s)
      BY <2>5, <3>0, Zenon DEF BeginAction
    <3>2. s \in SessionId
      BY <3>0 DEF TypeInv, Tab
    <3>3. ASSUME NEW q \in Page PROVE KeptFor(q)'
      <4>1. CASE q = p
        <5>1. request'[q] = s
          BY <1>1, <3>1, <4>1
        <5>2. Live(s)' => Held(s, 2)'
          BY <1>1, <3>1, <3>2, Touched DEF SessionId, Live
        <5> QED BY <5>1, <5>2 DEF KeptFor, Live, Held
      <4>2. CASE q # p
        <5>1. request'[q] = request[q]
          BY <1>1, <3>1, <4>2
        <5> QED BY <1>3, <5>1, RequestAsWas DEF KeptFor, Live, Held
      <4> QED BY <4>1, <4>2
    <3>4. ASSUME NEW j \in Job, Running(j)' PROVE Assured(j)'
      BY <1>3, <3>1, <3>4, KeptAsWas DEF Running
    <3> QED BY <3>3, <3>4 DEF KeepInv
  <2>6. ASSUME NEW p \in Page, StartJob(p) PROVE KeepInv'
    <3> DEFINE s == request[p]
    <3>1. /\ request' = [request EXCEPT ![p] = NoRequest] /\ UNCHANGED <<sessions, due>>
          /\ s # NoRequest
      BY <2>6 DEF StartJob
    <3>2. ASSUME NEW q \in Page PROVE KeptFor(q)'
      <4>1. request'[q] = NoRequest \/ request'[q] = request[q]
        BY <1>1, <3>1
      <4> QED BY <1>3, <4>1, RequestAsWas DEF KeptFor, Live, Held
    <3>3. CASE Live(s)
      <4>1. PICK j \in UnusedJobs : jobs' = [jobs EXCEPT ![j] = Launched(jobs[j], s)]
        <5>1. (CHOOSE i \in UnusedJobs : TRUE) \in UnusedJobs
          BY <2>6, <3>3 DEF StartJob
        <5>2. LET i == CHOOSE i \in UnusedJobs : TRUE IN jobs' = [jobs EXCEPT ![i] = Launched(jobs[i], s)]
          BY <2>6, <3>3, Zenon DEF StartJob, Launched
        <5> QED BY <5>1, <5>2, Zenon
      <4>2. s \in Session \ {None} /\ Held(s, 2)
        BY <1>1, <3>1, <3>3 DEF SessionId, Live, KeepInv, KeptFor
      <4>3. j \in Job /\ Launched(jobs[j], s).session = s
        BY <1>1, <4>1, <4>2, JobTurns DEF UnusedJobs, SessionId
      <4>4. ASSUME NEW i \in Job, Running(i)' PROVE Assured(i)'
        <5>1. CASE i = j
          <6>1. jobs'[i].session = s
            BY <1>1, <4>1, <4>3, <5>1
          <6> HIDE DEF s
          <6> QED BY <3>1, <4>2, <6>1 DEF Assured, Held
        <5>2. CASE i # j
          <6>1. jobs'[i] = jobs[i]
            BY <1>1, <4>1, <4>3, <5>2
          <6> QED BY <1>3, <3>1, <4>4, <6>1, KeptAsWas DEF Running
        <5> QED BY <5>1, <5>2
      <4> QED BY <3>2, <4>4 DEF KeepInv
    <3>4. CASE ~Live(s)
      <4>1. jobs' = jobs
        BY <2>6, <3>4 DEF StartJob
      <4>2. ASSUME NEW i \in Job, Running(i)' PROVE Assured(i)'
        BY <1>3, <3>1, <4>1, <4>2, KeptAsWas DEF Running
      <4> QED BY <3>2, <4>2 DEF KeepInv
    <3> QED BY <3>3, <3>4
  <2>7. ASSUME NEW j \in Job, Log(j) PROVE KeepInv'
    <3>1. jobs' = [jobs EXCEPT ![j] = Printing(jobs[j])] /\ UNCHANGED <<due, request>>
      BY <2>7, Zenon DEF Log, Printing
    <3>2. Printing(jobs[j]).status = jobs[j].status /\ Printing(jobs[j]).session = jobs[j].session
      BY <1>1, <2>7, JobPrints DEF Log
    <3> QED BY <1>1, <1>3, <3>1, <3>2, KeptQuietly DEF Running
  <2>8. ASSUME NEW j \in Job, Exit(j) PROVE KeepInv'
    <3>1. jobs' = [jobs EXCEPT ![j] = Over(jobs[j])] /\ due' = due \ {j} /\ request' = request
      BY <2>8, Zenon DEF Exit, Over
    <3>2. Over(jobs[j]).status = "ended"
      BY <1>1 DEF Over, JobRow
    <3> QED BY <1>1, <1>3, <3>1, <3>2, KeptQuietly DEF Running
  <2>9. ASSUME NEW j \in Job, KeepAlive(j) PROVE KeepInv'
    <3> DEFINE s == jobs[j].session
    <3>1. j \in due /\ due' = due \ {j} /\ sessions' = Touch(s) /\ UNCHANGED <<jobs, request>>
      BY <2>9 DEF KeepAlive, KeptAlive
    <3>2. Running(j) /\ s \in Session \ {None}
          /\ (sessions[s].status = "released" \/ Held(s, 2) \/ Held(s, 1))
      BY <1>1, <3>1 DEF KeepInv, Assured
    <3>3. Held(s, 2) \/ Held(s, 1) => Live(s)
      <4>1. sessions[s].left \in Nat
        BY <1>1, <3>2 DEF SessionRow
      <4> QED BY <3>2, <4>1 DEF Held, Live
    <3>4. sessions'[s].status = "released" \/ Held(s, 2)'
      BY <1>1, <1>3, <3>1, <3>2, <3>3, StillHeld, Touched
    <3>5. ASSUME NEW i \in Job, Running(i)' PROVE Assured(i)'
      <4>1. CASE i = j
        BY <3>1, <3>2, <3>4, <4>1 DEF Assured, Held
      <4>2. CASE i # j
        BY <1>3, <3>1, <3>5, <4>2, KeptAsWas DEF Running
      <4> QED BY <4>1, <4>2
    <3>6. ASSUME NEW q \in Page PROVE KeptFor(q)'
      BY <1>3, <3>1, RequestAsWas DEF KeptFor, Live, Held
    <3> QED BY <3>5, <3>6 DEF KeepInv
  <2>10. CASE Crash
    <3>1. request' = [p \in Page |-> NoRequest] /\ jobs' = [j \in Job |-> Forgotten(jobs[j])]
      BY <2>10, Zenon DEF Crash, Forgotten
    <3> QED BY <3>1, JobForgotten DEF KeepInv, KeptFor, Running
  <2>11. CASE Restart \/ UNCHANGED vars
    BY <2>1, <2>11 DEF Restart, vars
  <2> QED BY <1>2, <2>2, <2>3, <2>4, <2>5, <2>6, <2>7, <2>8, <2>9, <2>10, <2>11 DEF Next
<1> QED BY <1>1, <1>2, <1>3 DEF StoreStep

-----------------------------------------------------------------------------
(* What a page that follows a job was told and will be.                    *)

\* A page that has read got, all lines, and not yet frames: the first n frames
\* are lines 1 to n; the job runs, or it is over.
LinesFirst(n, got, frames) ==
  \A k \in 1 .. n : k \in DOMAIN (got \o frames) /\ (got \o frames)[k] = Line(k)

SoFar(n, got, frames, result) ==
  /\ LinesFirst(n, got, frames)
  /\ result = "none" /\ Len(got) <= n /\ Len(got \o frames) = n

InFull(n, got, frames, result) ==
  /\ LinesFirst(n, got, frames)
  /\ Len(got) <= n
  /\ \/ /\ result = "none" /\ Len(got \o frames) = n + 2
        /\ (got \o frames)[n + 1] = Done /\ (got \o frames)[n + 2] = Closed
     \/ /\ result = "done" /\ Len(got) = n /\ Len(got \o frames) = n + 1
        /\ (got \o frames)[n + 1] = Closed

\* The page p, whose record and frames are r and frames, with the jobs in table.
Watches(p, r, frames, table) ==
  /\ r.pc \in {"subscribing", "streaming"} => r.job \in Job /\ table[r.job].status # "new"
  /\ r.pc # "streaming" => r.got = <<>> /\ r.result = "none"
  /\ r.pc = "streaming" /\ table[r.job].status = "running" =>
       p \in table[r.job].listeners /\ SoFar(table[r.job].lines, r.got, frames, r.result)
  /\ r.pc = "streaming" /\ table[r.job].status = "ended" =>
       InFull(table[r.job].lines, r.got, frames, r.result)

ShownInv == \A p \in Page : Watches(p, page[p], pipe[p], jobs)

LEMMA Concat ==
  ASSUME NEW a \in Seq(Frame), NEW b \in Seq(Frame)
  PROVE  /\ a \o b \in Seq(Frame) /\ Len(a \o b) = Len(a) + Len(b) /\ DOMAIN (a \o b) = 1 .. Len(a) + Len(b)
         /\ \A k \in 1 .. Len(a) + Len(b) : (a \o b)[k] = IF k <= Len(a) THEN a[k] ELSE b[k - Len(a)]
         /\ {Len(a), Len(b)} \subseteq Nat
OBVIOUS

\* The head of the frames comes after what was read; without it they are shorter.
LEMMA NextFrame ==
  ASSUME NEW got \in Seq(Frame), NEW frames \in Seq(Frame), frames # <<>>
  PROVE  /\ Append(got, Head(frames)) \in Seq(Frame) /\ Tail(frames) \in Seq(Frame)
         /\ Len(got) + 1 \in 1 .. Len(got \o frames)
         /\ (got \o frames)[Len(got) + 1] = Head(frames)
         /\ Append(got, Head(frames)) \o Tail(frames) = got \o frames
         /\ Len(Append(got, Head(frames))) = Len(got) + 1
         /\ Len(got \o Tail(frames)) = Len(got \o frames) - 1
         /\ \A k \in 1 .. Len(got) : (got \o Tail(frames))[k] = (got \o frames)[k]
         /\ \A k \in Len(got) + 1 .. Len(got \o frames) - 1 : (got \o Tail(frames))[k] = (got \o frames)[k + 1]
<1> DEFINE more == Append(got, Head(frames))
           rest == Tail(frames)
<1>1. PICK m \in Nat, n \in Nat : Len(got) = m /\ Len(frames) = n + 1
  OBVIOUS
<1>2. /\ Head(frames) \in Frame /\ rest \in Seq(Frame) /\ Head(frames) = frames[1]
      /\ Len(rest) = n /\ \A k \in 1 .. n : rest[k] = frames[k + 1]
  BY <1>1
<1>3. /\ more \in Seq(Frame) /\ Len(more) = m + 1 /\ more[m + 1] = frames[1]
      /\ \A k \in 1 .. m : more[k] = got[k]
  BY <1>1, <1>2
<1> HIDE DEF more, rest
<1> DEFINE t == got \o frames
           u == more \o rest
           v == got \o rest
<1>4. /\ t \in Seq(Frame) /\ Len(t) = m + (n + 1)
      /\ \A k \in 1 .. m + (n + 1) : t[k] = IF k <= m THEN got[k] ELSE frames[k - m]
  <2>1. /\ t \in Seq(Frame) /\ Len(t) = Len(got) + Len(frames)
        /\ \A k \in 1 .. Len(got) + Len(frames) : t[k] = IF k <= Len(got) THEN got[k] ELSE frames[k - Len(got)]
    BY Concat, Zenon
  <2> QED BY <1>1, <2>1, Zenon
<1>5. /\ Len(v) = m + n
      /\ \A k \in 1 .. m + n : v[k] = IF k <= m THEN got[k] ELSE rest[k - m]
  <2>1. /\ Len(v) = Len(got) + Len(rest)
        /\ \A k \in 1 .. Len(got) + Len(rest) : v[k] = IF k <= Len(got) THEN got[k] ELSE rest[k - Len(got)]
    BY <1>2, Concat, Zenon
  <2> QED BY <1>1, <1>2, <2>1, Zenon
<1>6. /\ u \in Seq(Frame) /\ Len(u) = m + 1 + n
      /\ \A k \in 1 .. m + 1 + n : u[k] = IF k <= m + 1 THEN more[k] ELSE rest[k - (m + 1)]
  <2>1. /\ Len(u) = Len(more) + Len(rest) /\ u \in Seq(Frame)
        /\ \A k \in 1 .. Len(more) + Len(rest) :
             u[k] = IF k <= Len(more) THEN more[k] ELSE rest[k - Len(more)]
    BY <1>2, <1>3, Concat, Zenon
  <2> QED BY <1>2, <1>3, <2>1, Zenon
<1> HIDE DEF t, u, v
<1>7. ASSUME NEW k \in 1 .. m + n + 1 PROVE u[k] = t[k]
  <2>1. k \in Int /\ k >= 1 /\ k <= m + n + 1 /\ k \in 1 .. m + 1 + n /\ k \in 1 .. m + (n + 1)
    BY <1>7
  <2>2. CASE k <= m
    <3>1. k <= m + 1 /\ k \in 1 .. m
      BY <2>1, <2>2
    <3> QED BY <1>3, <1>4, <1>6, <2>1, <2>2, <3>1
  <2>3. CASE k = m + 1
    <3>1. k - m = 1
      BY <2>1, <2>3
    <3> QED BY <1>3, <1>4, <1>6, <2>1, <2>3, <3>1
  <2>4. CASE k > m + 1
    <3>1. k - (m + 1) \in 1 .. n /\ k - (m + 1) + 1 = k - m /\ ~(k <= m + 1) /\ ~(k <= m)
      BY <2>1, <2>4
    <3>2. rest[k - (m + 1)] = frames[k - m]
      BY <1>2, <3>1
    <3> QED BY <1>4, <1>6, <2>1, <3>1, <3>2
  <2>5. k <= m \/ k = m + 1 \/ k > m + 1
    BY <2>1
  <2> QED BY <2>2, <2>3, <2>4, <2>5
<1>8. u = t
  <2>1. Len(u) = Len(t) /\ Len(t) = m + n + 1
    BY <1>4, <1>6
  <2>2. \A k \in 1 .. Len(t) : u[k] = t[k]
    BY <1>7, <2>1
  <2> QED BY ONLY <1>4, <1>6, <2>1, <2>2, SeqEqual, Zenon
<1>9. ASSUME NEW k \in m + 1 .. m + n PROVE v[k] = t[k + 1]
  <2>1. k \in 1 .. m + n /\ k - m \in 1 .. n /\ k - m + 1 = k + 1 - m /\ ~(k <= m) /\ ~(k + 1 <= m)
        /\ k + 1 \in 1 .. m + (n + 1)
    BY <1>9
  <2>2. rest[k - m] = frames[k - m + 1]
    BY <1>2, <2>1
  <2> QED BY <1>4, <1>5, <2>1, <2>2
<1>10. ASSUME NEW k \in 1 .. m PROVE v[k] = t[k]
  <2>1. k <= m /\ k \in 1 .. m + n /\ k \in 1 .. m + (n + 1)
    BY <1>10
  <2> QED BY <1>4, <1>5, <2>1
<1>11. t[m + 1] = Head(frames) /\ m + 1 \in 1 .. Len(t)
  <2>1. m + 1 \in 1 .. m + (n + 1) /\ ~(m + 1 <= m) /\ m + 1 - m = 1
    OBVIOUS
  <2> QED BY <1>2, <1>4, <2>1
<1>12. Len(v) = Len(t) - 1 /\ Len(t) - 1 = m + n
  BY <1>4, <1>5
<1>13. /\ \A k \in 1 .. Len(got) : v[k] = t[k]
       /\ \A k \in Len(got) + 1 .. Len(t) - 1 : v[k] = t[k + 1]
  BY <1>1, <1>9, <1>10, <1>12
<1>14. Len(got) + 1 \in 1 .. Len(t) /\ t[Len(got) + 1] = Head(frames) /\ Len(more) = Len(got) + 1
  BY <1>1, <1>3, <1>11
<1> QED BY <1>2, <1>3, <1>8, <1>12, <1>13, <1>14, Zenon DEF more, rest, t, u, v

LEMMA FramesDiffer == Done # Closed /\ \A k \in Nat : Line(k) # Done /\ Line(k) # Closed
BY DEF Line, Done, Closed

\* A page reads the next frame of a job that runs,
LEMMA ReadSoFar ==
  ASSUME NEW n \in Nat, NEW got \in Seq(Frame), NEW frames \in Seq(Frame), NEW result,
         frames # <<>>, SoFar(n, got, frames, result)
  PROVE  /\ Head(frames) # Done /\ Head(frames) # Closed
         /\ SoFar(n, Append(got, Head(frames)), Tail(frames), result)
<1> DEFINE k == Len(got) + 1
           more == Append(got, Head(frames))
<1>1. k \in 1 .. n /\ (got \o frames)[k] = Head(frames) /\ Len(more) = k /\ more \o Tail(frames) = got \o frames
  BY NextFrame DEF SoFar
<1>2. Head(frames) = Line(k) /\ k \in Nat
  BY <1>1 DEF SoFar, LinesFirst
<1>3. Head(frames) # Done /\ Head(frames) # Closed
  BY <1>2, FramesDiffer
<1>4. SoFar(n, more, Tail(frames), result)
  <2>1. k <= n
    BY <1>1
  <2> HIDE DEF k, more
  <2> QED BY <1>1, <2>1 DEF SoFar, LinesFirst
<1> QED BY <1>3, <1>4 DEF more

\* and of one that is over.
LEMMA ReadInFull ==
  ASSUME NEW n \in Nat, NEW got \in Seq(Frame), NEW frames \in Seq(Frame), NEW result,
         frames # <<>>, InFull(n, got, frames, result)
  PROVE  /\ Head(frames) = Done => InFull(n, got, Tail(frames), "done")
         /\ Head(frames) \notin {Done, Closed} => InFull(n, Append(got, Head(frames)), Tail(frames), result)
<1> DEFINE k == Len(got) + 1
           more == Append(got, Head(frames))
           rest == got \o Tail(frames)
           t == got \o frames
<1>1. k \in 1 .. Len(t) /\ t[k] = Head(frames) /\ Len(more) = k /\ more \o Tail(frames) = t
      /\ Len(rest) = Len(t) - 1 /\ Len(got) \in Nat /\ Len(t) \in Nat
      /\ (\A i \in 1 .. k - 1 : rest[i] = t[i]) /\ (\A i \in k .. Len(t) - 1 : rest[i] = t[i + 1])
  <2>1. Len(got) \in Nat /\ Len(t) \in Nat /\ k - 1 = Len(got)
    OBVIOUS
  <2>2. /\ k \in 1 .. Len(t) /\ t[k] = Head(frames) /\ Len(more) = k /\ more \o Tail(frames) = t
        /\ Len(rest) = Len(t) - 1
        /\ (\A i \in 1 .. Len(got) : rest[i] = t[i]) /\ (\A i \in k .. Len(t) - 1 : rest[i] = t[i + 1])
    BY NextFrame, Zenon
  <2> HIDE DEF more, rest, t, k
  <2> QED BY <2>1, <2>2
<1>2. /\ \A i \in 1 .. n : i \in DOMAIN t /\ t[i] = Line(i)
      /\ k <= n + 1
      /\ \/ result = "none" /\ Len(t) = n + 2 /\ t[n + 1] = Done /\ t[n + 2] = Closed
         \/ result = "done" /\ k = n + 1 /\ Len(t) = n + 1 /\ t[n + 1] = Closed
  <2>1. /\ \A i \in 1 .. n : i \in DOMAIN t /\ t[i] = Line(i)
        /\ Len(got) <= n
        /\ \/ result = "none" /\ Len(t) = n + 2 /\ t[n + 1] = Done /\ t[n + 2] = Closed
           \/ result = "done" /\ Len(got) = n /\ Len(t) = n + 1 /\ t[n + 1] = Closed
    BY Zenon DEF InFull, LinesFirst
  <2>2. k <= n + 1 /\ (Len(got) = n => k = n + 1)
    <3>1. Len(got) <= n /\ Len(got) \in Nat
      BY <1>1, <2>1
    <3> QED BY ONLY <3>1, n \in Nat DEF k
  <2> HIDE DEF k, more, rest, t
  <2> QED BY <2>1, <2>2, Zenon
<1>3. DOMAIN rest = 1 .. Len(rest)
  BY NextFrame, Concat
<1> HIDE DEF k, more, rest, t
<1>4. CASE k <= n
  <2>1. Head(frames) = Line(k) /\ k \in Nat
    BY <1>1, <1>2, <1>4
  <2>2. Head(frames) # Done
    BY <2>1, FramesDiffer
  <2>3. InFull(n, more, Tail(frames), result)
    <3>1. result = "none" \/ (result = "done" /\ k = n + 1)
      BY <1>2
    <3>2. result = "none" /\ Len(t) = n + 2 /\ t[n + 1] = Done /\ t[n + 2] = Closed
      BY <1>2, <1>4, <3>1
    <3> QED BY <1>1, <1>2, <1>4, <3>2 DEF InFull, LinesFirst, t
  <2> QED BY <2>2, <2>3 DEF more
<1>5. CASE k = n + 1
  <2>1. Head(frames) \in {Done, Closed}
    BY <1>1, <1>2, <1>5
  <2>2. ASSUME Head(frames) = Done PROVE InFull(n, got, Tail(frames), "done")
    <3>1. result = "none" /\ Len(t) = n + 2 /\ t[n + 2] = Closed
      BY <1>1, <1>2, <1>5, <2>2, FramesDiffer
    <3>2. Len(rest) = n + 1 /\ rest[n + 1] = Closed /\ Len(got) = n
      BY <1>1, <1>5, <3>1 DEF k
    <3>3. \A i \in 1 .. n : i \in DOMAIN rest /\ rest[i] = Line(i)
      BY <1>1, <1>2, <1>3, <1>5, <3>2
    <3> QED BY <3>2, <3>3 DEF InFull, LinesFirst, rest
  <2> QED BY <2>1, <2>2
<1> QED BY <1>1, <1>2, <1>4, <1>5

\* A job prints one line more, or is over: its listeners are sent that.
LEMMA PrintSoFar ==
  ASSUME NEW n \in Nat, NEW got \in Seq(Frame), NEW frames \in Seq(Frame), NEW result,
         NEW x \in Frame, x = Line(n + 1), SoFar(n, got, frames, result)
  PROVE  SoFar(n + 1, got, frames \o <<x>>, result)
<1> DEFINE t == got \o frames
           u == got \o (frames \o <<x>>)
<1>1. t \in Seq(Frame) /\ Len(t) = n /\ Len(got) <= n /\ Len(got) \in Nat /\ \A k \in 1 .. n : t[k] = Line(k)
  BY Concat DEF SoFar, LinesFirst
<1>2. u = t \o <<x>>
  OBVIOUS
<1> HIDE DEF t, u
<1>3. Len(u) = n + 1 /\ DOMAIN u = 1 .. n + 1 /\ (\A k \in 1 .. n : u[k] = t[k]) /\ u[n + 1] = x
  BY <1>1, <1>2, SMTT(20)
<1>4. \A k \in 1 .. n + 1 : k \in DOMAIN u /\ u[k] = Line(k)
  BY <1>1, <1>3
<1>5. LinesFirst(n + 1, got, frames \o <<x>>)
  BY <1>4, Zenon DEF LinesFirst, u
<1>6. result = "none" /\ Len(got) <= n + 1
  <2>1. Len(got) <= n /\ Len(got) \in Nat
    BY <1>1
  <2> QED BY ONLY <2>1, n \in Nat, SoFar(n, got, frames, result) DEF SoFar
<1> QED BY <1>3, <1>5, <1>6, Zenon DEF SoFar, u

LEMMA EndSoFar ==
  ASSUME NEW n \in Nat, NEW got \in Seq(Frame), NEW frames \in Seq(Frame), NEW result,
         SoFar(n, got, frames, result)
  PROVE  InFull(n, got, frames \o <<Done, Closed>>, result)
<1> DEFINE t == got \o frames
           u == got \o (frames \o <<Done, Closed>>)
<1>1. t \in Seq(Frame) /\ Len(t) = n /\ Len(got) <= n /\ Len(got) \in Nat /\ \A k \in 1 .. n : t[k] = Line(k)
  BY Concat DEF SoFar, LinesFirst
<1>2. <<Done, Closed>> \in Seq(Frame) /\ u = t \o <<Done, Closed>>
  BY Frames
<1> HIDE DEF t, u
<1>3. /\ Len(u) = n + 2 /\ DOMAIN u = 1 .. n + 2 /\ (\A k \in 1 .. n : u[k] = t[k])
      /\ u[n + 1] = Done /\ u[n + 2] = Closed
  BY <1>1, <1>2, Concat, SMTT(20)
<1>4. \A k \in 1 .. n : k \in DOMAIN u /\ u[k] = Line(k)
  BY <1>1, <1>3
<1>5. result = "none"
  BY DEF SoFar
<1> QED BY <1>1, <1>3, <1>4, <1>5 DEF InFull, LinesFirst, u

\* A page that subscribes is sent all that was printed.
LEMMA ReplaySoFar ==
  ASSUME jobs \in [Job -> JobRow], NEW j \in Job
  PROVE  /\ SoFar(jobs[j].lines, <<>>, Replay(j), "none")
         /\ InFull(jobs[j].lines, <<>>, Replay(j) \o <<Done, Closed>>, "none")
<1> DEFINE n == jobs[j].lines
<1>1. n \in Nat
  BY LinesAssumption DEF JobRow
<1>2. Replay(j) \in Seq(Frame) /\ <<>> \in Seq(Frame) /\ Len(<<>>) = 0
  BY ReplayType
<1>3. Len(Replay(j)) = n /\ \A k \in 1 .. n : Replay(j)[k] = Line(k)
  BY <1>1, <1>2 DEF Replay
<1>4. <<>> \o Replay(j) = Replay(j) /\ DOMAIN Replay(j) = 1 .. n
  BY <1>2, <1>3
<1>5. SoFar(n, <<>>, Replay(j), "none")
  BY <1>1, <1>2, <1>3, <1>4 DEF SoFar, LinesFirst
<1> QED BY <1>1, <1>2, <1>5, EndSoFar

\* A page whose stream, record and job are as they were is told no more and no less.
LEMMA AsWas ==
  ASSUME NEW p, NEW r, NEW new, NEW frames, NEW table, NEW jobs2,
         Watches(p, r, frames, table),
         \/ new.pc = r.pc /\ new.job = r.job
         \/ r.pc \notin {"subscribing", "streaming"} /\ new.pc \notin {"subscribing", "streaming"},
         new.got = r.got /\ new.result = r.result,
         \A j \in Job : table[j].status # "new" =>
           /\ jobs2[j].status = table[j].status /\ jobs2[j].lines = table[j].lines
           /\ p \in table[j].listeners => p \in jobs2[j].listeners
  PROVE  Watches(p, new, frames, jobs2)
BY DEF Watches

\* One page takes a turn, while no job that was started and no stream changes.
LEMMA ShownTurn ==
  ASSUME TypeInv, ShownInv, NEW p \in Page, NEW new, page' = [page EXCEPT ![p] = new], pipe' = pipe,
         \A j \in Job : jobs[j].status # "new" => jobs'[j] = jobs[j],
         Watches(p, new, pipe[p], jobs')
  PROVE  ShownInv'
<1>1. ASSUME NEW q \in Page PROVE Watches(q, page'[q], pipe'[q], jobs')
  <2>1. page'[q] = IF q = p THEN new ELSE page[q]
    BY DEF TypeInv
  <2>2. CASE q = p
    BY <2>1, <2>2
  <2>3. CASE q # p
    <3>1. Watches(q, page[q], pipe[q], jobs)
      BY DEF ShownInv
    <3>2. Watches(q, page[q], pipe[q], jobs')
      BY <3>1, AsWas
    <3> QED BY <2>1, <2>3, <3>2
  <2> QED BY <2>2, <2>3
<1> QED BY <1>1 DEF ShownInv

LEMMA ShownSession ==
  ASSUME TypeInv, ShownInv, NEW p \in Page,
         \/ Open(p) \/ Acquire(p) \/ ReceiveSession(p) \/ Heartbeat(p)
         \/ HandleRelease(p) \/ ReceiveReleased(p) \/ Act(p) \/ BeginAction(p)
  PROVE  ShownInv'
<1> DEFINE r == page[p]
           Aside(x) == x \notin {"subscribing", "streaming"}
<1>1. r \in Tab /\ cookie \in SessionId /\ page \in [Page -> Tab] /\ Watches(p, r, pipe[p], jobs)
      /\ None \in SessionId /\ r.sent \in SessionId /\ r.reply \in SessionId
  BY DEF TypeInv, ShownInv, Tab, SessionId
<1>2. jobs' = jobs /\ pipe' = pipe
  BY Zenon DEF Open, Acquire, ReceiveSession, Heartbeat, HandleRelease, ReceiveReleased, Act, BeginAction
<1>3. ASSUME NEW new, page' = [page EXCEPT ![p] = new], new.got = r.got, new.result = r.result,
             (new.pc = r.pc /\ new.job = r.job) \/ (Aside(r.pc) /\ Aside(new.pc))
      PROVE  ShownInv'
  <2>1. Watches(p, new, pipe[p], jobs)
    BY <1>1, <1>3, AsWas
  <2> QED BY <1>2, <1>3, <2>1, ShownTurn
<1>4. CASE Open(p)
  <2>1. page' = [page EXCEPT ![p] = Booting(r, cookie)] /\ r.pc = "closed"
    BY <1>4 DEF Open, Booting, At
  <2>2. Booting(r, cookie).pc = "booting" /\ Booting(r, cookie).got = r.got /\ Booting(r, cookie).result = r.result
    BY <1>1 DEF Booting, Tab
  <2> HIDE DEF r
  <2> QED BY <1>3, <2>1, <2>2
<1>5. CASE Acquire(p)
  <2> DEFINE got == IF Live(r.sent) THEN Resume(r.sent) ELSE Begin(CHOOSE s \in Unused : TRUE)
  <2>1. page' = [page EXCEPT ![p] = Answered(r, got.session)] /\ At(p, "booting")
    BY <1>5, Zenon DEF Acquire, Answered
  <2>2. PICK s : s = got.session
    <3> HIDE DEF got
    <3> QED OBVIOUS
  <2>3. Answered(r, s).pc = "answered" /\ Answered(r, s).got = r.got /\ Answered(r, s).result = r.result
    BY <1>1 DEF Answered, Tab
  <2>4. page' = [page EXCEPT ![p] = Answered(r, s)] /\ r.pc = "booting"
    BY <2>1, <2>2 DEF At
  <2> HIDE DEF r, got
  <2> QED BY <1>3, <2>3, <2>4
<1>6. CASE ReceiveSession(p)
  <2>1. page' = [page EXCEPT ![p] = Ready(r)] /\ r.pc = "answered"
    BY <1>6 DEF ReceiveSession, Ready, At
  <2>2. Ready(r).pc = "open" /\ Ready(r).got = r.got /\ Ready(r).result = r.result
    BY <1>1 DEF Ready, Tab
  <2> HIDE DEF r
  <2> QED BY <1>3, <2>1, <2>2
<1>7. CASE HandleRelease(p)
  <2>1. PICK b \in {"none", "answered"} : page' = [page EXCEPT ![p] = Bye(r, b)]
    BY <1>7, Zenon DEF HandleRelease, Bye
  <2>2. Bye(r, b).pc = r.pc /\ Bye(r, b).job = r.job /\ Bye(r, b).got = r.got /\ Bye(r, b).result = r.result
    BY <1>1 DEF Bye, Tab
  <2> HIDE DEF r
  <2> QED BY <1>3, <2>1, <2>2
<1>8. CASE ReceiveReleased(p)
  <2>1. page' = [page EXCEPT ![p] = Received(r)]
    BY <1>8 DEF ReceiveReleased, Received
  <2>2. Received(r).pc = r.pc /\ Received(r).job = r.job /\ Received(r).got = r.got /\ Received(r).result = r.result
    BY <1>1 DEF Received, Tab
  <2> HIDE DEF r
  <2> QED BY <1>3, <2>1, <2>2
<1>9. CASE Act(p)
  <2>1. page' = [page EXCEPT ![p] = Acting(r, cookie)] /\ r.pc = "open"
    BY <1>9 DEF Act, Acting, At
  <2>2. Acting(r, cookie).pc = "acting" /\ Acting(r, cookie).got = r.got /\ Acting(r, cookie).result = r.result
    BY <1>1 DEF Acting, Tab
  <2> HIDE DEF r
  <2> QED BY <1>3, <2>1, <2>2
<1>10. CASE Heartbeat(p) \/ BeginAction(p)
  <2>1. page' = page
    BY <1>10 DEF Heartbeat, BeginAction
  <2> QED BY <1>2, <2>1 DEF ShownInv
<1> QED BY <1>4, <1>5, <1>6, <1>7, <1>8, <1>9, <1>10

LEMMA ShownUnload ==
  ASSUME TypeInv, ShownInv, NEW p \in Page, Unload(p)
  PROVE  ShownInv'
<1>1. page \in [Page -> Tab] /\ jobs \in [Job -> JobRow] /\ pipe \in [Page -> Seq(Frame)]
  BY DEF TypeInv
<1>2. page' = [page EXCEPT ![p] = Gone(cookie)] /\ Gone(cookie).pc = "closed"
      /\ Gone(cookie).got = <<>> /\ Gone(cookie).result = "none"
  <2>1. page' = [page EXCEPT ![p] = Gone(cookie)]
    BY Zenon DEF Unload, Gone
  <2> QED BY <2>1 DEF Gone, NoTab
<1>3. jobs' = [j \in Job |-> UnheardBy(jobs[j], p)]
  BY DEF Unload, UnheardBy, ListenersWithout
<1>4. pipe' = [pipe EXCEPT ![p] = <<>>]
  BY DEF Unload
<1>5. ASSUME NEW j \in Job
      PROVE  /\ jobs'[j].listeners = jobs[j].listeners \ {p}
             /\ jobs'[j].status = jobs[j].status /\ jobs'[j].lines = jobs[j].lines
  <2>1. jobs[j] \in JobRow /\ jobs'[j] = UnheardBy(jobs[j], p)
    BY <1>1, <1>3
  <2> QED BY <2>1 DEF UnheardBy, JobRow
<1>6. ASSUME NEW q \in Page PROVE Watches(q, page'[q], pipe'[q], jobs')
  <2>1. CASE q = p
    <3>1. page'[q] = Gone(cookie)
      BY <1>1, <1>2, <2>1
    <3> QED BY <1>2, <3>1 DEF Watches
  <2>2. CASE q # p
    <3>1. page'[q] = page[q] /\ pipe'[q] = pipe[q] /\ Watches(q, page[q], pipe[q], jobs)
      BY <1>1, <1>2, <1>4, <2>2 DEF ShownInv
    <3>2. Watches(q, page[q], pipe[q], jobs')
      BY <1>5, <2>2, <3>1, AsWas
    <3> QED BY <3>1, <3>2
  <2> QED BY <2>1, <2>2
<1> QED BY <1>6 DEF ShownInv

\* The job a page asked for has started.
LEMMA ShownStart ==
  ASSUME TypeInv, ShownInv, NEW p \in Page, StartJob(p)
  PROVE  ShownInv'
<1> DEFINE r == page[p]
           s == request[p]
<1>1. r \in Tab /\ page \in [Page -> Tab] /\ jobs \in [Job -> JobRow] /\ pipe' = pipe
      /\ Watches(p, r, pipe[p], jobs) /\ s \in SessionId \cup {NoRequest}
  BY DEF TypeInv, ShownInv, StartJob
<1>2. CASE Live(s)
  <2>1. PICK j \in UnusedJobs :
          /\ jobs' = [jobs EXCEPT ![j] = Launched(jobs[j], s)]
          /\ page' = IF At(p, "acting") THEN [page EXCEPT ![p] = Following(r, j)] ELSE page
    <3>1. (CHOOSE i \in UnusedJobs : TRUE) \in UnusedJobs
      BY <1>2 DEF StartJob
    <3>2. LET i == CHOOSE i \in UnusedJobs : TRUE IN
            /\ jobs' = [jobs EXCEPT ![i] = Launched(jobs[i], s)]
            /\ page' = IF At(p, "acting") THEN [page EXCEPT ![p] = Following(r, i)] ELSE page
      BY <1>2, Zenon DEF StartJob, Launched, Following
    <3> QED BY <3>1, <3>2, Zenon
  <2>2. j \in Job /\ jobs[j] \in JobRow /\ jobs[j].status = "new"
    BY <1>1, <2>1 DEF UnusedJobs
  <2>3. Launched(jobs[j], s).status = "running"
    BY <2>2 DEF Launched, JobRow
  <2>4. jobs'[j].status = "running" /\ \A i \in Job : jobs[i].status # "new" => jobs'[i] = jobs[i]
    BY <1>1, <2>1, <2>2, <2>3
  <2>5. CASE At(p, "acting")
    <3>1. page' = [page EXCEPT ![p] = Following(r, j)] /\ r.pc = "acting"
      BY <2>1, <2>5 DEF At
    <3>2. /\ Following(r, j).pc = "subscribing" /\ Following(r, j).job = j
          /\ Following(r, j).got = r.got /\ Following(r, j).result = r.result
      BY <1>1, <2>2 DEF Following, Tab
    <3>3. r.got = <<>> /\ r.result = "none"
      BY <1>1, <3>1 DEF Watches
    <3>4. Watches(p, Following(r, j), pipe[p], jobs')
      BY <2>2, <2>4, <3>2, <3>3 DEF Watches
    <3> HIDE DEF r, s
    <3> QED BY <1>1, <2>4, <3>1, <3>4, ShownTurn
  <2>6. CASE ~At(p, "acting")
    <3>1. page' = [page EXCEPT ![p] = r]
      BY <1>1, <2>1, <2>6
    <3>2. Watches(p, r, pipe[p], jobs')
      BY <1>1, <2>4, AsWas
    <3> HIDE DEF r, s
    <3> QED BY <1>1, <2>4, <3>1, <3>2, ShownTurn
  <2> QED BY <2>5, <2>6
<1>3. CASE ~Live(s)
  <2>1. /\ jobs' = jobs
        /\ page' = IF At(p, "acting") THEN [page EXCEPT ![p] = Refused(r)] ELSE page
    BY <1>3 DEF StartJob, Refused
  <2>2. Refused(r).pc = "open" /\ Refused(r).got = r.got /\ Refused(r).result = r.result
    BY <1>1 DEF Refused, Tab
  <2>3. CASE At(p, "acting")
    <3>1. page' = [page EXCEPT ![p] = Refused(r)] /\ r.pc = "acting"
      BY <2>1, <2>3 DEF At
    <3>2. Watches(p, Refused(r), pipe[p], jobs')
      BY <1>1, <2>1, <2>2, <3>1, AsWas
    <3> HIDE DEF r, s
    <3> QED BY <1>1, <2>1, <3>1, <3>2, ShownTurn
  <2>4. CASE ~At(p, "acting")
    <3>1. page' = page /\ jobs' = jobs /\ pipe' = pipe
      BY <1>1, <2>1, <2>4
    <3> QED BY <3>1 DEF ShownInv
  <2> QED BY <2>3, <2>4
<1> QED BY <1>2, <1>3

LEMMA ShownSubscribe ==
  ASSUME TypeInv, ShownInv, NEW p \in Page, Subscribe(p)
  PROVE  ShownInv'
<1> DEFINE r == page[p]
           j == r.job
<1>1. r \in Tab /\ page \in [Page -> Tab] /\ jobs \in [Job -> JobRow] /\ pipe \in [Page -> Seq(Frame)]
      /\ r.pc = "subscribing" /\ Watches(p, r, pipe[p], jobs)
  BY DEF TypeInv, ShownInv, Subscribe, At
<1>2. j \in Job /\ jobs[j].status # "new" /\ r.got = <<>> /\ r.result = "none"
  BY <1>1 DEF Watches
<1>3. CASE ~up \/ jobs[j].status = "forgotten"
  <2>1. page' = [page EXCEPT ![p] = Quits(r, <<>>)] /\ UNCHANGED <<jobs, pipe>>
    BY <1>3 DEF Subscribe, Quit, Quits
  <2>2. Quits(r, <<>>).pc = "open" /\ Quits(r, <<>>).got = <<>> /\ Quits(r, <<>>).result = "none"
    BY <1>1 DEF Quits, Tab
  <2>3. Watches(p, Quits(r, <<>>), pipe[p], jobs')
    BY <2>2 DEF Watches
  <2> HIDE DEF r, j
  <2> QED BY <2>1, <2>3, ShownTurn
<1>4. CASE up /\ jobs[j].status # "forgotten"
  <2>1. page' = [page EXCEPT ![p] = Streaming(r)]
    BY <1>4 DEF Subscribe, Streaming
  <2>2. /\ Streaming(r).pc = "streaming" /\ Streaming(r).job = j
        /\ Streaming(r).got = <<>> /\ Streaming(r).result = "none"
    BY <1>1, <1>2 DEF Streaming, Tab
  <2>3. page'[p] = Streaming(r) /\ \A q \in Page : q # p => page'[q] = page[q]
    BY <1>1, <2>1
  <2>4. /\ SoFar(jobs[j].lines, <<>>, Replay(j), "none")
        /\ InFull(jobs[j].lines, <<>>, Replay(j) \o <<Done, Closed>>, "none")
    BY <1>1, <1>2, ReplaySoFar
  <2>5. PICK fs :
          /\ pipe' = [pipe EXCEPT ![p] = fs]
          /\ \A i \in Job : /\ jobs'[i].status = jobs[i].status /\ jobs'[i].lines = jobs[i].lines
                            /\ jobs[i].listeners \subseteq jobs'[i].listeners
          /\ jobs[j].status = "running" => p \in jobs'[j].listeners /\ fs = Replay(j)
          /\ jobs[j].status # "running" => fs = Replay(j) \o <<Done, Closed>>
    <3>1. CASE jobs[j].status = "running"
      <4>1. pipe' = [pipe EXCEPT ![p] = Replay(j)] /\ jobs' = [jobs EXCEPT ![j] = HeardBy(jobs[j], p)]
        BY <1>4, <3>1, Zenon DEF Subscribe, HeardBy
      <4>2. /\ HeardBy(jobs[j], p).listeners = jobs[j].listeners \cup {p}
            /\ HeardBy(jobs[j], p).status = jobs[j].status /\ HeardBy(jobs[j], p).lines = jobs[j].lines
        <5>1. jobs[j] \in JobRow
          BY <1>1, <1>2
        <5> QED BY <5>1 DEF HeardBy, JobRow
      <4> HIDE DEF j
      <4>3. p \in jobs'[j].listeners /\
            \A i \in Job : /\ jobs'[i].status = jobs[i].status /\ jobs'[i].lines = jobs[i].lines
                           /\ jobs[i].listeners \subseteq jobs'[i].listeners
        BY <1>1, <1>2, <4>1, <4>2
      <4> QED BY <3>1, <4>1, <4>3
    <3>2. CASE jobs[j].status # "running"
      <4>1. pipe' = [pipe EXCEPT ![p] = Replay(j) \o <<Done, Closed>>] /\ jobs' = jobs
        BY <1>4, <3>2, Zenon DEF Subscribe
      <4> HIDE DEF j
      <4> QED BY <3>2, <4>1
    <3> QED BY <3>1, <3>2
  <2>6. pipe'[p] = fs /\ \A q \in Page : q # p => pipe'[q] = pipe[q]
    BY <1>1, <2>5
  <2>7. Watches(p, Streaming(r), fs, jobs')
    <3>1. jobs'[j].status = jobs[j].status /\ jobs'[j].lines = jobs[j].lines
      BY <1>2, <2>5
    <3> HIDE DEF r, j
    <3> QED BY <1>2, <2>2, <2>4, <2>5, <3>1 DEF Watches
  <2>8. ASSUME NEW q \in Page, q # p PROVE Watches(q, page[q], pipe[q], jobs')
    <3>1. Watches(q, page[q], pipe[q], jobs)
      BY DEF ShownInv
    <3> HIDE DEF r, j
    <3> QED BY <2>5, <3>1, AsWas
  <2> HIDE DEF r, j
  <2> QED BY <2>3, <2>6, <2>7, <2>8 DEF ShownInv
<1> QED BY <1>3, <1>4

LEMMA ShownRead ==
  ASSUME TypeInv, ShownInv, NEW p \in Page, Read(p)
  PROVE  ShownInv'
<1> DEFINE r == page[p]
           j == r.job
           frame == Head(pipe[p])
           got == Append(r.got, frame)
<1>1. r \in Tab /\ page \in [Page -> Tab] /\ jobs \in [Job -> JobRow] /\ pipe \in [Page -> Seq(Frame)]
      /\ r.pc = "streaming" /\ pipe[p] # <<>> /\ jobs' = jobs /\ Watches(p, r, pipe[p], jobs)
  BY DEF TypeInv, ShownInv, Read, At
<1>2. page' = [page EXCEPT ![p] = IF frame = Closed THEN Quits(r, <<>>)
                                  ELSE IF frame = Done THEN Finished(r) ELSE Told(r, got)]
  BY Zenon DEF Read, EndOfStream, Quit, Quits, Finished, Told
<1>3. pipe' = [pipe EXCEPT ![p] = Tail(pipe[p])]
  BY DEF Read
<1>4. j \in Job /\ jobs[j].status # "new" /\ jobs[j].lines \in Nat
      /\ r.got \in Seq(Frame) /\ pipe[p] \in Seq(Frame)
  <2>1. j \in Job /\ jobs[j].status # "new"
    BY <1>1 DEF Watches
  <2>2. jobs[j].lines \in Nat
    BY <1>1, <2>1, LinesAssumption DEF JobRow
  <2>3. r.got \in LinesOf /\ {Line(n) : n \in 1 .. MaxLines} \subseteq Frame
    BY <1>1 DEF Tab, LinesOf, Frame
  <2>4. r.got \in Seq(Frame)
    <3> HIDE DEF r
    <3> QED BY <2>3 DEF LinesOf
  <2> QED BY <1>1, <2>1, <2>2, <2>4
<1>5. page'[p] = (IF frame = Closed THEN Quits(r, <<>>) ELSE IF frame = Done THEN Finished(r) ELSE Told(r, got))
      /\ \A q \in Page : q # p => page'[q] = page[q]
  <2> HIDE DEF r, frame, got
  <2> QED BY <1>1, <1>2
<1>6. pipe'[p] = Tail(pipe[p]) /\ \A q \in Page : q # p => pipe'[q] = pipe[q]
  BY <1>1, <1>3
<1>7. CASE frame = Closed
  <2>1. Quits(r, <<>>).pc = "open" /\ Quits(r, <<>>).got = <<>> /\ Quits(r, <<>>).result = "none"
    BY <1>1 DEF Quits, Tab
  <2>2. Watches(p, Quits(r, <<>>), pipe'[p], jobs)
    BY <2>1 DEF Watches
  <2> HIDE DEF r, frame, got, j
  <2> QED BY <1>1, <1>5, <1>6, <1>7, <2>2 DEF ShownInv
<1>8. CASE frame = Done
  <2>1. /\ Finished(r).pc = "streaming" /\ Finished(r).job = j
        /\ Finished(r).got = r.got /\ Finished(r).result = "done"
    BY <1>1 DEF Finished, Tab
  <2>2. ~(jobs[j].status = "running")
    <3>1. jobs[j].status = "running" => SoFar(jobs[j].lines, r.got, pipe[p], r.result)
      BY <1>1 DEF Watches
    <3> QED BY <1>1, <1>4, <1>8, <3>1, ReadSoFar
  <2>3. jobs[j].status = "ended" => InFull(jobs[j].lines, r.got, Tail(pipe[p]), "done")
    <3>1. jobs[j].status = "ended" => InFull(jobs[j].lines, r.got, pipe[p], r.result)
      BY <1>1 DEF Watches
    <3> QED BY <1>1, <1>4, <1>8, <3>1, ReadInFull
  <2>4. Watches(p, Finished(r), Tail(pipe[p]), jobs)
    <3> HIDE DEF r, j
    <3> QED BY <1>4, <2>1, <2>2, <2>3 DEF Watches
  <2>5. page'[p] = Finished(r)
    <3> HIDE DEF r, frame, got
    <3> QED BY <1>5, <1>8, FramesDiffer
  <2> HIDE DEF r, frame, got, j
  <2> QED BY <1>1, <1>5, <1>6, <2>4, <2>5 DEF ShownInv
<1>9. CASE frame # Closed /\ frame # Done
  <2>1. /\ Told(r, got).pc = "streaming" /\ Told(r, got).job = j
        /\ Told(r, got).got = got /\ Told(r, got).result = r.result
    <3> HIDE DEF got
    <3> QED BY <1>1 DEF Told, Tab
  <2>2. jobs[j].status = "running" =>
          p \in jobs[j].listeners /\ SoFar(jobs[j].lines, got, Tail(pipe[p]), r.result)
    <3>1. jobs[j].status = "running" => p \in jobs[j].listeners /\ SoFar(jobs[j].lines, r.got, pipe[p], r.result)
      BY <1>1 DEF Watches
    <3> QED BY <1>1, <1>4, <3>1, ReadSoFar
  <2>3. jobs[j].status = "ended" => InFull(jobs[j].lines, got, Tail(pipe[p]), r.result)
    <3>1. jobs[j].status = "ended" => InFull(jobs[j].lines, r.got, pipe[p], r.result)
      BY <1>1 DEF Watches
    <3> QED BY <1>1, <1>4, <1>9, <3>1, ReadInFull
  <2>4. Watches(p, Told(r, got), Tail(pipe[p]), jobs)
    <3> HIDE DEF r, j, got
    <3> QED BY <1>4, <2>1, <2>2, <2>3 DEF Watches
  <2> HIDE DEF r, frame, got, j
  <2> QED BY <1>1, <1>5, <1>6, <1>9, <2>4 DEF ShownInv
<1> QED BY <1>7, <1>8, <1>9

LEMMA ShownLog ==
  ASSUME TypeInv, ListenInv, ShownInv, NEW j \in Job, Log(j)
  PROVE  ShownInv'
<1>1. jobs \in [Job -> JobRow] /\ pipe \in [Page -> Seq(Frame)] /\ page \in [Page -> Tab] /\ page' = page
      /\ jobs[j].status = "running" /\ jobs[j].lines \in Nat
  BY LinesAssumption DEF TypeInv, Log, JobRow, Running
<1> DEFINE x == Line(jobs[j].lines + 1)
<1>2. x \in Frame
  BY <1>1, JobPrints, Frames DEF Log
<1>3. jobs' = [jobs EXCEPT ![j] = Printing(jobs[j])] /\ jobs[j] \in JobRow
  BY <1>1, Zenon DEF Log, Printing
<1>4. /\ jobs'[j].status = "running" /\ jobs'[j].lines = jobs[j].lines + 1
      /\ jobs'[j].listeners = jobs[j].listeners
      /\ \A i \in Job : i # j => jobs'[i] = jobs[i]
  <2>1. /\ Printing(jobs[j]).status = jobs[j].status /\ Printing(jobs[j]).listeners = jobs[j].listeners
        /\ Printing(jobs[j]).lines = jobs[j].lines + 1
    BY <1>3 DEF Printing, JobRow
  <2> QED BY <1>1, <1>3, <2>1
<1>5. pipe' = [p \in Page |-> IF p \in jobs[j].listeners THEN pipe[p] \o <<x>> ELSE pipe[p]]
  BY DEF Log, Send
<1>6. ASSUME NEW q \in Page PROVE Watches(q, page[q], pipe'[q], jobs')
  <2>1. Watches(q, page[q], pipe[q], jobs) /\ (q \in jobs[j].listeners => At(q, "streaming") /\ page[q].job = j)
    BY DEF ShownInv, ListenInv, Listening
  <2>2. CASE page[q].pc = "streaming" /\ page[q].job = j
    <3>1. q \in jobs[j].listeners /\ SoFar(jobs[j].lines, page[q].got, pipe[q], page[q].result)
      BY <1>1, <2>1, <2>2 DEF Watches
    <3>2. pipe'[q] = pipe[q] \o <<x>>
      BY <1>5, <3>1
    <3>3. page[q].got \in Seq(Frame) /\ pipe[q] \in Seq(Frame)
      <4>1. page[q].got \in LinesOf /\ {Line(n) : n \in 1 .. MaxLines} \subseteq Frame
        BY <1>1 DEF Tab, LinesOf, Frame
      <4> QED BY <1>1, <4>1 DEF LinesOf
    <3>4. SoFar(jobs[j].lines + 1, page[q].got, pipe'[q], page[q].result)
      BY <1>1, <1>2, <3>1, <3>2, <3>3, PrintSoFar
    <3> HIDE DEF x
    <3> QED BY <1>4, <2>2, <3>1, <3>4 DEF Watches
  <2>3. CASE ~(page[q].pc = "streaming" /\ page[q].job = j)
    <3>1. pipe'[q] = pipe[q]
      BY <1>5, <2>1, <2>3 DEF At
    <3> QED BY <1>1, <1>4, <2>1, <2>3, <3>1 DEF Watches
  <2> QED BY <2>2, <2>3
<1> QED BY <1>1, <1>6 DEF ShownInv

LEMMA ShownExit ==
  ASSUME TypeInv, ListenInv, ShownInv, NEW j \in Job, Exit(j)
  PROVE  ShownInv'
<1>1. jobs \in [Job -> JobRow] /\ pipe \in [Page -> Seq(Frame)] /\ page \in [Page -> Tab] /\ page' = page
      /\ jobs[j].status = "running" /\ jobs[j].lines \in Nat
  BY LinesAssumption DEF TypeInv, Exit, JobRow, Running
<1>2. jobs' = [jobs EXCEPT ![j] = Over(jobs[j])] /\ jobs[j] \in JobRow
  BY <1>1, Zenon DEF Exit, Over
<1>3. /\ jobs'[j].status = "ended" /\ jobs'[j].lines = jobs[j].lines
      /\ \A i \in Job : i # j => jobs'[i] = jobs[i]
  <2>1. Over(jobs[j]).status = "ended" /\ Over(jobs[j]).lines = jobs[j].lines
    BY <1>2 DEF Over, JobRow
  <2> QED BY <1>1, <1>2, <2>1
<1>4. pipe' = [p \in Page |-> IF p \in jobs[j].listeners THEN pipe[p] \o <<Done, Closed>> ELSE pipe[p]]
  BY DEF Exit, Send
<1>5. ASSUME NEW q \in Page PROVE Watches(q, page[q], pipe'[q], jobs')
  <2>1. Watches(q, page[q], pipe[q], jobs) /\ (q \in jobs[j].listeners => At(q, "streaming") /\ page[q].job = j)
    BY DEF ShownInv, ListenInv, Listening
  <2>2. CASE page[q].pc = "streaming" /\ page[q].job = j
    <3>1. q \in jobs[j].listeners /\ SoFar(jobs[j].lines, page[q].got, pipe[q], page[q].result)
      BY <1>1, <2>1, <2>2 DEF Watches
    <3>2. pipe'[q] = pipe[q] \o <<Done, Closed>>
      BY <1>4, <3>1
    <3>3. page[q].got \in Seq(Frame) /\ pipe[q] \in Seq(Frame)
      <4>1. page[q].got \in LinesOf /\ {Line(n) : n \in 1 .. MaxLines} \subseteq Frame
        BY <1>1 DEF Tab, LinesOf, Frame
      <4> QED BY <1>1, <4>1 DEF LinesOf
    <3>4. InFull(jobs[j].lines, page[q].got, pipe'[q], page[q].result)
      BY <1>1, <3>1, <3>2, <3>3, EndSoFar
    <3> QED BY <1>3, <2>2, <3>4 DEF Watches
  <2>3. CASE ~(page[q].pc = "streaming" /\ page[q].job = j)
    <3>1. pipe'[q] = pipe[q]
      BY <1>4, <2>1, <2>3 DEF At
    <3> QED BY <1>1, <1>3, <2>1, <2>3, <3>1 DEF Watches
  <2> QED BY <2>2, <2>3
<1> QED BY <1>1, <1>5 DEF ShownInv

\* A server that died has forgotten every job that was started.
LEMMA ShownCrash ==
  ASSUME TypeInv, ShownInv, Crash
  PROVE  ShownInv'
<1>1. page \in [Page -> Tab] /\ jobs \in [Job -> JobRow]
  BY DEF TypeInv
<1>2. jobs' = [j \in Job |-> Forgotten(jobs[j])]
  BY Zenon DEF Crash, Forgotten
<1>3. \A j \in Job : jobs[j].status # "new" => jobs'[j].status = "forgotten"
  BY <1>2 DEF Forgotten, NoJob
<1>4. page' = [p \in Page |-> IF At(p, "booting") THEN Refused(page[p])
                              ELSE IF At(p, "acting") THEN Stuck(page[p]) ELSE page[p]]
  BY Zenon DEF Crash, Refused, Stuck
<1>5. ASSUME NEW q \in Page PROVE Watches(q, page'[q], pipe'[q], jobs')
  <2>1. Watches(q, page[q], pipe[q], jobs) /\ page[q] \in Tab
    BY <1>1 DEF ShownInv
  <2>2. /\ Refused(page[q]).pc = "open" /\ Refused(page[q]).got = page[q].got
        /\ Refused(page[q]).result = page[q].result
        /\ Stuck(page[q]).pc = "stuck" /\ Stuck(page[q]).got = page[q].got
        /\ Stuck(page[q]).result = page[q].result
    BY <2>1 DEF Refused, Stuck, Tab
  <2>3. \/ page'[q] \in {Refused(page[q]), Stuck(page[q])} /\ page[q].pc \in {"booting", "acting"}
        \/ page'[q] = page[q]
    BY <1>4 DEF At
  <2> QED BY <1>3, <2>1, <2>2, <2>3 DEF Watches
<1> QED BY <1>5 DEF ShownInv

LEMMA ShownStep ==
  ASSUME TypeInv, ListenInv, ShownInv, [Next]_vars
  PROVE  ShownInv'
<1>1. ASSUME NEW p \in Page,
             \/ Open(p) \/ Acquire(p) \/ ReceiveSession(p) \/ Heartbeat(p)
             \/ HandleRelease(p) \/ ReceiveReleased(p) \/ Act(p) \/ BeginAction(p)
      PROVE  ShownInv'
  BY <1>1, ShownSession
<1>2. ASSUME NEW p \in Page, Unload(p) \/ StartJob(p) \/ Subscribe(p) \/ Read(p)
      PROVE  ShownInv'
  BY <1>2, ShownUnload, ShownStart, ShownSubscribe, ShownRead
<1>3. ASSUME NEW j \in Job, Log(j) \/ Exit(j) PROVE ShownInv'
  BY <1>3, ShownLog, ShownExit
<1>4. CASE (\E j \in Job : KeepAlive(j)) \/ Tick \/ Restart \/ UNCHANGED vars
  <2>1. UNCHANGED <<jobs, page, pipe>>
    BY <1>4 DEF KeepAlive, Tick, Restart, vars
  <2> QED BY <2>1 DEF ShownInv
<1>5. CASE Crash
  BY <1>5, ShownCrash
<1> QED BY <1>1, <1>2, <1>3, <1>4, <1>5 DEF Next

-----------------------------------------------------------------------------
(* Theorems.                                                               *)

LEMMA Initially == Init => TypeInv /\ ListenInv /\ KeepInv /\ ShownInv
<1> SUFFICES ASSUME Init PROVE TypeInv /\ ListenInv /\ KeepInv /\ ShownInv
  OBVIOUS
<1>1. None \in SessionId /\ NoTab \in Tab /\ NoTab.pc = "closed"
  BY Nothing DEF SessionId
<1>2. NoJob \in JobRow /\ NoJob.status = "new" /\ NoJob.listeners = {}
  BY <1>1, LinesAssumption DEF NoJob, JobRow
<1>3. [status |-> "new", left |-> 0] \in SessionRow
  BY TtlAssumption DEF SessionRow
<1>4. TypeInv
  BY <1>1, <1>2, <1>3 DEF Init, TypeInv
<1>5. ListenInv
  BY <1>1, <1>2 DEF Init, ListenInv, Follower, At
<1>6. KeepInv
  BY <1>2 DEF Init, KeepInv, KeptFor, Running
<1>7. ShownInv
  <2>1. NoTab.pc = "closed" /\ NoTab.got = <<>> /\ NoTab.result = "none"
    BY DEF NoTab
  <2>2. \A p \in Page : page[p] = NoTab
    BY DEF Init
  <2> QED BY <2>1, <2>2 DEF ShownInv, Watches
<1> QED BY <1>4, <1>5, <1>6, <1>7

LEMMA Invariant == Spec => [](TypeInv /\ ListenInv /\ KeepInv /\ ShownInv)
<1>1. TypeInv /\ ListenInv /\ KeepInv /\ ShownInv /\ [Next]_vars
      => (TypeInv /\ ListenInv /\ KeepInv /\ ShownInv)'
  BY TypeStep, KeepStep, ShownStep
<1> QED BY <1>1, Initially, PTL DEF Spec

\* Every state is typed, and every listener of a job is a page whose stream of
\* that job is open.
THEOREM TypeCorrect == Spec => []TypeOK
<1>1. TypeInv /\ ListenInv => TypeOK
  BY DEF TypeInv, ListenInv, TypeOK, Listening, JobRow
<1> QED BY <1>1, Invariant, PTL

\* The session of a running job does not lapse, whatever the page does: only a
\* release takes it away.
THEOREM JobKeepsSession == Spec => []RunningJobKeepsSession
<1>1. TypeInv /\ KeepInv => RunningJobKeepsSession
  <2> SUFFICES ASSUME TypeInv, KeepInv, NEW j \in Job, Running(j)
               PROVE  sessions[jobs[j].session].status = "released" \/ Live(jobs[j].session)
    BY DEF RunningJobKeepsSession
  <2> DEFINE s == jobs[j].session
  <2>1. s \in Session \ {None} /\ (sessions[s].status = "released" \/ Held(s, 2) \/ Held(s, 1))
    BY DEF KeepInv, Assured
  <2>2. sessions[s].left \in Nat
    BY <2>1 DEF TypeInv, SessionRow
  <2> QED BY <2>1, <2>2 DEF Held, Live
<1> QED BY <1>1, Invariant, PTL

LEMMA Beyond ==
  ASSUME NEW l \in Nat, NEW n \in {l, l + 1, l + 2}
  PROVE  \A k \in 1 .. n : k > l => k \in {l + 1, l + 2} /\ k <= n
OBVIOUS

\* A page that follows a job is told all that the command prints, each line once
\* and in order, and its end after that.
THEOREM StreamsAreWhole == Spec => []StreamShowsWholeJob
<1>1. TypeInv /\ ShownInv => StreamShowsWholeJob
  <2> SUFFICES ASSUME TypeInv, ShownInv, NEW p \in Page, NEW j \in Job,
                      At(p, "streaming"), page[p].job = j, jobs[j].status # "forgotten"
               PROVE  /\ \A n \in 1 .. jobs[j].lines : n \in DOMAIN ToldTo(p) /\ ToldTo(p)[n] = Line(n)
                      /\ \A n \in DOMAIN ToldTo(p) : n > jobs[j].lines => ToldTo(p)[n] \in {Done, Closed}
                      /\ page[p].result = "done" => Len(page[p].got) = jobs[j].lines
    BY DEF StreamShowsWholeJob
  <2> DEFINE t == ToldTo(p)
             l == jobs[j].lines
             r == page[p]
  <2>1. Watches(p, r, pipe[p], jobs) /\ r.pc = "streaming" /\ r.job = j /\ l \in Nat
        /\ r \in Tab /\ pipe[p] \in Seq(Frame) /\ jobs[j] \in JobRow
    BY LinesAssumption DEF ShownInv, TypeInv, JobRow, At
  <2>2. t = r.got \o pipe[p] /\ t \in Seq(Frame)
    <3>1. r.got \in LinesOf /\ {Line(n) : n \in 1 .. MaxLines} \subseteq Frame
      BY <2>1 DEF Tab, LinesOf, Frame
    <3>2. r.got \in Seq(Frame)
      <4> HIDE DEF r
      <4> QED BY <3>1 DEF LinesOf
    <3>3. r.got \o pipe[p] \in Seq(Frame)
      BY <2>1, <3>2, Concat
    <3> QED BY <3>3 DEF ToldTo
  <2>3. jobs[j].status \in {"running", "ended"}
    <3>1. jobs[j].status # "new"
      BY <2>1 DEF Watches
    <3> QED BY <2>1, <3>1 DEF JobRow
  <2>4. SoFar(l, r.got, pipe[p], r.result) \/ InFull(l, r.got, pipe[p], r.result)
    BY <2>1, <2>3 DEF Watches
  <2> HIDE DEF t, l, r
  <2>5. /\ \A n \in 1 .. l : n \in DOMAIN t /\ t[n] = Line(n)
        /\ r.result = "done" => Len(r.got) = l
        /\ \/ Len(t) = l
           \/ Len(t) = l + 2 /\ t[l + 1] = Done /\ t[l + 2] = Closed
           \/ Len(t) = l + 1 /\ t[l + 1] = Closed
    <3>1. CASE SoFar(l, r.got, pipe[p], r.result)
      <4>1. ~(r.result = "done") /\ Len(t) = l /\ \A n \in 1 .. l : n \in DOMAIN t /\ t[n] = Line(n)
        BY <2>2, <3>1 DEF SoFar, LinesFirst
      <4> QED BY <4>1
    <3>2. CASE InFull(l, r.got, pipe[p], r.result)
      <4>1. \A n \in 1 .. l : n \in DOMAIN t /\ t[n] = Line(n)
        BY <2>2, <3>2 DEF InFull, LinesFirst
      <4>2. \/ r.result = "none" /\ Len(t) = l + 2 /\ t[l + 1] = Done /\ t[l + 2] = Closed
            \/ r.result = "done" /\ Len(r.got) = l /\ Len(t) = l + 1 /\ t[l + 1] = Closed
        BY <2>2, <3>2 DEF InFull
      <4> QED BY <4>1, <4>2
    <3> QED BY <2>4, <3>1, <3>2
  <2>6. \A n \in DOMAIN t : n > l => n \in {l + 1, l + 2} /\ n <= Len(t)
    <3>1. DOMAIN t = 1 .. Len(t) /\ Len(t) \in {l, l + 1, l + 2}
      <4>1. t \in Seq(Frame)
        BY <2>2
      <4>2. DOMAIN t = 1 .. Len(t)
        BY <4>1
      <4>3. Len(t) = l \/ Len(t) = l + 2 \/ Len(t) = l + 1
        BY <2>5, Zenon
      <4> QED BY <4>2, <4>3
    <3>2. l \in Nat
      BY <2>1
    <3> QED BY ONLY <3>1, <3>2, Beyond, Zenon
  <2>7. \A n \in DOMAIN t : n > l => t[n] \in {Done, Closed}
    BY <2>1, <2>5, <2>6
  <2> QED BY <2>5, <2>7 DEF t, l, r
<1> QED BY <1>1, Invariant, PTL

=============================================================================
