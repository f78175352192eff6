----------------------------- MODULE WebServer -----------------------------
(***************************************************************************)
(* The chat front end (apps/web): the sessions the server keeps and writes *)
(* through to disk, the commands it runs for them as jobs, the event       *)
(* stream of a job, and the pages of one browser that use all this and     *)
(* share its cookie jar (apps/web/public/app.js).                          *)
(*                                                                         *)
(* The server is one thread: a handler is a step, and a second one after   *)
(* an await.  Every change of the sessions is written to disk before the   *)
(* handler returns, so that `sessions' is the file too.  One unit of time  *)
(* is the interval of the timer that keeps a job's session alive.          *)
(***************************************************************************)
EXTENDS Naturals, Sequences, FiniteSets

CONSTANTS
  Page,      \* the tabs of the browser
  Session,   \* session ids: random, so never given out twice
  Job,       \* job ids, likewise
  None,
  Ttl,       \* ttlMs, in units
  MaxLines   \* bound on the lines a command prints

\* The timer fires within the life of a session.
ASSUME TtlAssumption == Ttl \in Nat /\ Ttl >= 2
ASSUME LinesAssumption == MaxLines \in Nat

VARIABLES
  up,        \* whether the server runs
  sessions,  \* the session of an id, and what became of it
  jobs,      \* the job of an id; they live in memory only
  due,       \* the jobs whose keep-alive timer is to fire now
  request,   \* request[p]: the session an /api/action of p came with, while its body is read
  cookie,    \* the browser's session cookie
  page,      \* page[p]: what a tab shows and waits for
  pipe       \* pipe[p]: what the event stream of p holds and p has not read

vars == <<up, sessions, jobs, due, request, cookie, page, pipe>>

SessionId == Session \cup {None}
NoRequest == "none"

\* The frames of a stream, and its end.
Line(n) == [event |-> "log", line |-> n]
Done    == [event |-> "done"]
Closed  == [event |-> "eof"]

\* left: until the session lapses.  It is in the map while "held".
SessionRow == [status : {"new", "held", "lapsed", "released"}, left : 0 .. Ttl]

JobRow ==
  [ status : {"new", "running", "ended", "forgotten"}, session : SessionId,
    lines : 0 .. MaxLines, listeners : SUBSET Page ]

NoJob == [status |-> "new", session |-> None, lines |-> 0, listeners |-> {}]

Tab ==
  [ pc     : {"closed", "booting", "answered", "open", "acting", "subscribing", "streaming", "stuck"},
    sent   : SessionId,              \* the cookie its request carries
    reply  : SessionId,              \* the session it was given
    bye    : {"none", "sent", "answered"}, byeTo : SessionId,  \* the release sent by its unloading
    job    : Job \cup {None}, got : Seq({Line(n) : n \in 1 .. MaxLines}), result : {"none", "done"} ]

NoTab ==
  [ pc |-> "closed", sent |-> None, reply |-> None, bye |-> "none", byeTo |-> None,
    job |-> None, got |-> <<>>, result |-> "none" ]

At(p, label) == page[p].pc = label

Init ==
  /\ up = TRUE
  /\ sessions = [s \in Session |-> [status |-> "new", left |-> 0]]
  /\ jobs = [j \in Job |-> NoJob]
  /\ due = {}
  /\ request = [p \in Page |-> NoRequest]
  /\ cookie = None
  /\ page = [p \in Page |-> NoTab]
  /\ pipe = [p \in Page |-> <<>>]

-----------------------------------------------------------------------------
(* SessionStore.                                                           *)

Live(id) == id # None /\ sessions[id].status = "held" /\ sessions[id].left > 0

TouchFound(id) ==  \* mutant: what is found in the map is taken for live
  IF id # None /\ sessions[id].status = "held" THEN [sessions EXCEPT ![id].left = Ttl] ELSE sessions

\* touch; setState too, but for the transcript it stores.
Touch(id) == IF Live(id) THEN [sessions EXCEPT ![id].left = Ttl] ELSE sessions

Swept ==
  [s \in Session |-> IF sessions[s].status = "held" /\ sessions[s].left = 0
                     THEN [sessions[s] EXCEPT !.status = "lapsed"] ELSE sessions[s]]

Release(id) ==
  IF id # None /\ sessions[id].status = "held"
  THEN [sessions EXCEPT ![id] = [status |-> "released", left |-> 0]] ELSE sessions

\* acquire: what it makes of the sessions, and the one it returns.
Resume(id) == [row |-> [Swept EXCEPT ![id].left = Ttl], session |-> id]
Begin(s)   == [row |-> [Swept EXCEPT ![s] = [status |-> "held", left |-> Ttl]], session |-> s]

Unused == { s \in Session : sessions[s].status = "new" }

-----------------------------------------------------------------------------
(* Pages and their session.                                                *)

\* A tab is opened or loaded again: boot asks for the session of the cookie.
Open(p) ==
  /\ At(p, "closed")
  /\ request[p] = NoRequest  \* bound: one request a tab at a time
  /\ page' = [page EXCEPT ![p] = [@ EXCEPT !.pc = "booting", !.sent = cookie]]
  /\ UNCHANGED <<up, sessions, jobs, due, request, cookie, pipe>>

\* GET /api/session.
Acquire(p) ==
  /\ up
  /\ At(p, "booting")
  /\ \/ Live(page[p].sent)
     \/ Unused # {}  \* bound on the ids
  /\ LET id  == page[p].sent
         got == IF Live(id) THEN Resume(id) ELSE Begin(CHOOSE s \in Unused : TRUE)
     IN /\ sessions' = got.row
        /\ page' = [page EXCEPT ![p] = [@ EXCEPT !.pc = "answered", !.reply = got.session, !.sent = None]]
  /\ UNCHANGED <<up, jobs, due, request, cookie, pipe>>

ReceiveSession(p) ==
  /\ At(p, "answered")
  /\ cookie' = page[p].reply
  /\ page' = [page EXCEPT ![p] = [@ EXCEPT !.pc = "open", !.reply = None]]
  /\ UNCHANGED <<up, sessions, jobs, due, request, pipe>>

\* POST /api/session/heartbeat or state, which the page sends while it is there.
Heartbeat(p) ==
  /\ up
  /\ page[p].pc \notin {"closed", "booting", "answered"}
  /\ sessions' = Touch(cookie)
  /\ UNCHANGED <<up, jobs, due, request, cookie, page, pipe>>

ListenersWithout(p, j) == jobs[j].listeners \ {p}

\* The page goes away, closed or to be loaded again: its requests are cancelled
\* and its streams closed, and pagehide sends a release that outlives it.
Unload(p) ==
  /\ ~At(p, "closed")
  /\ \A q \in Page : page[q].bye = "none"  \* bound: one release in flight
  /\ page' = [page EXCEPT ![p] = [NoTab EXCEPT !.bye = "sent", !.byeTo = cookie]]
  /\ jobs' = [j \in Job |-> [jobs[j] EXCEPT !.listeners = ListenersWithout(p, j)]]
  /\ pipe' = [pipe EXCEPT ![p] = <<>>]
  /\ UNCHANGED <<up, sessions, due, request, cookie>>

\* POST /api/session/release, or the release fails because the server is down.
HandleRelease(p) ==
  /\ page[p].bye = "sent"
  /\ IF up
     THEN /\ sessions' = Release(page[p].byeTo)
          /\ page' = [page EXCEPT ![p] = [@ EXCEPT !.bye = "answered", !.byeTo = None]]
     ELSE /\ page' = [page EXCEPT ![p] = [@ EXCEPT !.bye = "none", !.byeTo = None]]
          /\ UNCHANGED sessions
  /\ UNCHANGED <<up, jobs, due, request, cookie, pipe>>

\* The answer to a release clears the cookie, whatever it holds by then.
ReceiveReleased(p) ==
  /\ page[p].bye = "answered"
  /\ cookie' = None
  /\ page' = [page EXCEPT ![p].bye = "none"]
  /\ UNCHANGED <<up, sessions, jobs, due, request, pipe>>

-----------------------------------------------------------------------------
(* Actions and jobs.                                                       *)

\* The operator presses a button: the page is busy until the stream ends.
Act(p) ==
  /\ At(p, "open")
  /\ \E j \in Job : jobs[j].status = "new"  \* bound on the ids
  /\ page' = [page EXCEPT ![p] = [@ EXCEPT !.pc = "acting", !.sent = cookie]]
  /\ UNCHANGED <<up, sessions, jobs, due, request, cookie, pipe>>

\* POST /api/action up to its await: the session is touched before the body is read.
BeginAction(p) ==
  /\ up
  /\ At(p, "acting")
  /\ request[p] = NoRequest
  /\ sessions' = Touch(page[p].sent)
  /\ request' = [request EXCEPT ![p] = page[p].sent]
  /\ UNCHANGED <<up, jobs, due, cookie, page, pipe>>

UnusedJobs == { j \in Job : jobs[j].status = "new" }

\* The rest of it: no session, no job.  The page may be gone by now; the job runs all the same.
StartJob(p) ==
  /\ request[p] # NoRequest
  /\ request' = [request EXCEPT ![p] = NoRequest]
  /\ IF Live(request[p])
     THEN /\ UnusedJobs # {}  \* bound on the ids
          /\ LET j == CHOOSE i \in UnusedJobs : TRUE IN
             /\ jobs' = [jobs EXCEPT ![j] = [@ EXCEPT !.status = "running", !.session = request[p]]]
             /\ page' = IF At(p, "acting")
                        THEN [page EXCEPT ![p] = [@ EXCEPT !.pc = "subscribing", !.sent = None, !.job = j]]
                        ELSE page
     ELSE /\ page' = IF At(p, "acting")
                     THEN [page EXCEPT ![p] = [@ EXCEPT !.pc = "open", !.sent = None]] ELSE page
          /\ UNCHANGED jobs
  /\ UNCHANGED <<up, sessions, due, cookie, pipe>>

Quit(p) == [page[p] EXCEPT !.pc = "open", !.job = None, !.got = <<>>, !.result = "none"]

NewLinesOnly(j) == <<>>  \* mutant: who comes late is not told what was printed before

Replay(j) == [n \in 1 .. jobs[j].lines |-> Line(n)]

\* GET /api/job/<id>/events.  A server that is down or has forgotten the job ends it.
Subscribe(p) ==
  /\ At(p, "subscribing")
  /\ LET j == page[p].job IN
     IF ~up \/ jobs[j].status = "forgotten"
     THEN page' = [page EXCEPT ![p] = Quit(p)] /\ UNCHANGED <<jobs, pipe>>
     ELSE /\ page' = [page EXCEPT ![p].pc = "streaming"]
          /\ IF jobs[j].status = "running"
             THEN /\ pipe' = [pipe EXCEPT ![p] = Replay(j)]
                  /\ jobs' = [jobs EXCEPT ![j].listeners = @ \cup {p}]
             ELSE /\ pipe' = [pipe EXCEPT ![p] = Replay(j) \o <<Done, Closed>>]
                  /\ UNCHANGED jobs
  /\ UNCHANGED <<up, sessions, due, request, cookie>>

Send(j, frames) == pipe' = [p \in Page |-> IF p \in jobs[j].listeners THEN pipe[p] \o frames ELSE pipe[p]]

Running(j) == jobs[j].status = "running"

Log(j) ==
  /\ Running(j)
  /\ jobs[j].lines < MaxLines
  /\ jobs' = [jobs EXCEPT ![j].lines = @ + 1]
  /\ Send(j, <<Line(jobs[j].lines + 1)>>)
  /\ UNCHANGED <<up, sessions, due, request, cookie, page>>

\* The command exits, or could not be started.
Exit(j) ==
  /\ Running(j)
  /\ jobs' = [jobs EXCEPT ![j] = [@ EXCEPT !.status = "ended", !.session = None, !.listeners = {}]]
  /\ due' = due \ {j}
  /\ sessions' = Touch(jobs[j].session)
  /\ Send(j, <<Done, Closed>>)
  /\ UNCHANGED <<up, request, cookie, page>>

NoTimer(j) == sessions  \* mutant: only the page keeps its session alive

KeptAlive(j) == Touch(jobs[j].session)

KeepAlive(j) ==
  /\ j \in due
  /\ due' = due \ {j}
  /\ sessions' = KeptAlive(j)
  /\ UNCHANGED <<up, jobs, request, cookie, page, pipe>>

WaitForDone(p) ==  \* mutant: a stream that just ends tells the page nothing
  IF page[p].result = "done" THEN Quit(p) ELSE page[p]

\* streamJob at the end of the stream: without `done' it reports STREAM_LOST.
EndOfStream(p) == Quit(p)

Read(p) ==
  /\ At(p, "streaming")
  /\ pipe[p] # <<>>
  /\ LET frame == Head(pipe[p]) IN
     page' = [page EXCEPT ![p] =
                IF frame = Closed THEN EndOfStream(p)
                ELSE IF frame = Done THEN [page[p] EXCEPT !.result = "done"]
                ELSE [page[p] EXCEPT !.got = Append(page[p].got, frame)]]
  /\ pipe' = [pipe EXCEPT ![p] = Tail(@)]
  /\ UNCHANGED <<up, sessions, jobs, due, request, cookie>>

-----------------------------------------------------------------------------
(* Time, and the server's end and return.                                  *)

Earlier(n) == IF n = 0 THEN 0 ELSE n - 1

\* Timers fire on time, and a body arrives within a unit.
Tick ==
  /\ due = {}
  /\ \A p \in Page : request[p] = NoRequest
  /\ sessions' = [s \in Session |-> [sessions[s] EXCEPT !.left = Earlier(@)]]
  /\ due' = { j \in Job : Running(j) }
  /\ UNCHANGED <<up, jobs, request, cookie, page, pipe>>

\* The server dies.  What it had sent may still arrive, and connections close:
\* a page that waits for a session gives up, one that waits for its action stays busy.
Crash ==
  /\ up
  /\ up' = FALSE
  /\ jobs' = [j \in Job |-> [NoJob EXCEPT !.status = IF jobs[j].status = "new" THEN @ ELSE "forgotten"]]
  /\ due' = {}
  /\ request' = [p \in Page |-> NoRequest]
  /\ page' = [p \in Page |->
       IF At(p, "booting") THEN [page[p] EXCEPT !.pc = "open", !.sent = None]
       ELSE IF At(p, "acting") THEN [page[p] EXCEPT !.pc = "stuck", !.sent = None]
       ELSE page[p]]
  /\ \E arrives \in BOOLEAN :
       pipe' = [p \in Page |-> IF \E j \in Job : p \in jobs[j].listeners
                               THEN (IF arrives THEN pipe[p] ELSE <<>>) \o <<Closed>> ELSE pipe[p]]
  /\ UNCHANGED <<sessions, cookie>>

\* The supervisor starts it again: sessions that lapsed are not loaded.
Restart ==
  /\ ~up
  /\ up' = TRUE
  /\ sessions' = Swept
  /\ UNCHANGED <<jobs, due, request, cookie, page, pipe>>

Next ==
  \/ \E p \in Page :
       \/ Open(p) \/ Acquire(p) \/ ReceiveSession(p) \/ Heartbeat(p)
       \/ Unload(p) \/ HandleRelease(p) \/ ReceiveReleased(p)
       \/ Act(p) \/ BeginAction(p) \/ StartJob(p) \/ Subscribe(p) \/ Read(p)
  \/ \E j \in Job : Log(j) \/ Exit(j) \/ KeepAlive(j)
  \/ Tick \/ Crash \/ Restart

Spec == Init /\ [][Next]_vars

\* Every command ends, and a page reads what arrives.  Nothing makes anybody
\* open a page, press a button, come back, or restart the server.
FairSpec ==
  /\ Spec
  /\ \A j \in Job : WF_vars(Exit(j))
  /\ \A p \in Page : WF_vars(Subscribe(p) \/ Read(p))

-----------------------------------------------------------------------------
(* Properties.                                                             *)

\* A listener is a page whose stream is open: what is written has a reader.
TypeOK ==
  /\ up \in BOOLEAN
  /\ sessions \in [Session -> SessionRow]
  /\ \A j \in Job :
       /\ jobs[j] \in JobRow
       /\ \A p \in jobs[j].listeners : At(p, "streaming") /\ page[p].job = j
  /\ due \subseteq { j \in Job : Running(j) }
  /\ cookie \in SessionId
  /\ \A p \in Page : page[p] \in Tab

\* A session that lapsed or was released never answers again (sessions.spec.ts:
\* refuses to resurrect), whatever late request, timer or restart comes.
GoneForGood ==
  [][\A s \in Session : sessions[s].status # "new" /\ ~Live(s) => ~Live(s)']_vars

\* A session does not lapse under a running job, however long the page is away
\* or its timers throttled: only a release takes it away (startJob).
RunningJobKeepsSession ==
  \A j \in Job : Running(j) => sessions[jobs[j].session].status = "released" \/ Live(jobs[j].session)

\* What p has read, and then what it has yet to read.
ToldTo(p) == page[p].got \o pipe[p]

\* A page that streams a job has read, or will read, every line that the command
\* has printed, each once and in order, whenever it subscribed, and nothing
\* after them but the end; it has read them all when it takes the job for done.
StreamShowsWholeJob ==
  \A p \in Page, j \in Job :
    At(p, "streaming") /\ page[p].job = j /\ jobs[j].status # "forgotten" =>
      /\ \A n \in 1 .. jobs[j].lines : n \in DOMAIN ToldTo(p) /\ ToldTo(p)[n] = Line(n)
      /\ \A n \in DOMAIN ToldTo(p) : n > jobs[j].lines => ToldTo(p)[n] \in {Done, Closed}
      /\ page[p].result = "done" => Len(page[p].got) = jobs[j].lines

WaitsForJob(p) == page[p].pc \in {"subscribing", "streaming"}

\* A page does not wait for ever for a job: it is told of its end, or that the
\* stream is lost, also when the server dies at any point (streamJob).
StreamsEnd ==
  \A p \in Page : WaitsForJob(p) ~> ~WaitsForJob(p)
=============================================================================
