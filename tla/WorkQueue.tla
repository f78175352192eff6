----------------------------- MODULE WorkQueue -----------------------------
(***************************************************************************)
(* The durable work queue of packages/storage/src/sqlite-work-queue.ts and *)
(* the `jobs' table of migrations.ts.  One action per SQL statement or     *)
(* transaction that changes a row: these are the points at which several   *)
(* processes that share the database file interleave.                      *)
(*                                                                         *)
(* The clients are arbitrary here (QueueNext lets any worker call any      *)
(* operation whose row guard holds); the module RunCommand composes the    *)
(* same operations with the one client the program has.                    *)
(***************************************************************************)
EXTENDS Integers, FiniteSets

CONSTANTS
  Job,      \* job ids, which deriveJobId makes one-to-one with the work tuples
  Worker,   \* workerId of each process that may open the database
  None,     \* SQL NULL, and "no job" or "no worker"
  LeaseMs,  \* execution.leaseMs, in ticks of the model's clock
  MaxNow,   \* bound on the clock
  SeqNo,    \* the sequence numbers clients pass to enqueue
  RunNo     \* the run numbers clients pass to markRunning

ASSUME LeaseAssumption == LeaseMs \in Nat
ASSUME NumberAssumption == SeqNo \subseteq Nat /\ RunNo \subseteq Nat
ASSUME NoneAssumption  ==
  /\ None \notin Job \cup Worker \cup {"COMPLETED", "INTERRUPTED", "WORKER_ERROR"}
  /\ None \notin {"VALID_COMPLETED", "PRODUCT_FAILED", "AUTOMATION_FAILED",
                 "INFRASTRUCTURE_FAILED", "INCONCLUSIVE"}

VARIABLES
  jobs,     \* jobs[j]: the row of job j, or AbsentRow
  now,      \* the clock all processes read
  stale     \* stale[w]: rows selected by a reapStale of w and not yet updated

queueVars == <<jobs, now, stale>>

State   == {"PENDING", "CLAIMED", "RUNNING", "TERMINAL"}
Held    == {"CLAIMED", "RUNNING"}
Reason  == {"COMPLETED", "INTERRUPTED", "WORKER_ERROR"}
Outcome == {"VALID_COMPLETED", "PRODUCT_FAILED", "AUTOMATION_FAILED",
            "INFRASTRUCTURE_FAILED", "INTERRUPTED", "INCONCLUSIVE"}

LegalTerminalOutcomes ==
  [ COMPLETED    |-> {"VALID_COMPLETED", "PRODUCT_FAILED",
                      "AUTOMATION_FAILED", "INCONCLUSIVE"},
    INTERRUPTED  |-> {"INTERRUPTED"},
    WORKER_ERROR |-> {"INFRASTRUCTURE_FAILED", "AUTOMATION_FAILED",
                      "INCONCLUSIVE"} ]

isLegalTerminalOutcome(reason, outcome) ==
  outcome \in LegalTerminalOutcomes[reason]

\* lease -1 is a NULL lease_expires_at; runId 0 is a NULL run_id.
JobRow ==
  [ state   : State \cup {"ABSENT"},
    seq     : Nat,
    prev    : Job \cup {None},
    worker  : Worker \cup {None},
    lease   : Nat \cup {-1},
    reason  : Reason \cup {None},
    outcome : Outcome \cup {None},
    runId   : Nat ]

AbsentRow ==
  [ state |-> "ABSENT", seq |-> 0, prev |-> None, worker |-> None,
    lease |-> -1, reason |-> None, outcome |-> None, runId |-> 0 ]

Present(j)   == jobs[j].state # "ABSENT"
IsPending(j) == jobs[j].state = "PENDING"
IsHeld(j)    == jobs[j].state \in Held

\* SELECT ... WHERE state = 'PENDING' ORDER BY seq LIMIT 1.  seq is counted
\* per investigation, so rows of two investigations may tie.
ClaimableOrExpired ==  \* mutant: a lapsed lease makes the job claimable again
  { j \in Job : IsPending(j) \/ (IsHeld(j) /\ jobs[j].lease < now) }

Claimable ==
  { j \in Job : IsPending(j) /\ \A k \in Job : IsPending(k) => jobs[j].seq <= jobs[k].seq }

\* The rows reapStale selects: held, and their lease strictly in the past.

Expired == { j \in Job : IsHeld(j) /\ jobs[j].lease # -1 /\ jobs[j].lease < now }

-----------------------------------------------------------------------------

QueueInit ==
  /\ jobs  = [j \in Job |-> AbsentRow]
  /\ now   = 0
  /\ stale = [w \in Worker |-> {}]

\* INSERT: job_id and the work tuple are unique, prev is a foreign key.
Enqueue(j, seq, prev) ==
  /\ ~Present(j)
  /\ prev # None => Present(prev)
  /\ jobs' = [jobs EXCEPT ![j] =
                [AbsentRow EXCEPT !.state = "PENDING", !.seq = seq, !.prev = prev]]
  /\ UNCHANGED <<now, stale>>

\* One BEGIN IMMEDIATE transaction: select the candidate, then the guarded UPDATE.
Claim(w, j) ==
  /\ j \in Claimable
  /\ jobs' = [jobs EXCEPT ![j] =
                [@ EXCEPT !.state = "CLAIMED", !.worker = w, !.lease = now + LeaseMs]]
  /\ UNCHANGED <<now, stale>>

CanMarkRunning(w, j) == jobs[j].state = "CLAIMED" /\ jobs[j].worker = w

MarkRunning(w, j, run) ==
  /\ CanMarkRunning(w, j)
  /\ jobs' = [jobs EXCEPT ![j] = [@ EXCEPT !.state = "RUNNING", !.runId = run]]
  /\ UNCHANGED <<now, stale>>

\* Extends the lease; a job that is no longer held by w makes the call throw.
Heartbeat(w, j) ==
  /\ IsHeld(j)
  /\ jobs[j].worker = w
  /\ jobs' = [jobs EXCEPT ![j] = [@ EXCEPT !.lease = now + LeaseMs]]
  /\ UNCHANGED <<now, stale>>

\* finish names no worker: whoever calls it settles the row, once.
FinishAny(j) == Present(j)  \* mutant: the UPDATE without its state guard

CanFinish(j) == IsHeld(j)

\* The columns a settled row gets, from finish and from the reaper alike.
SettleKeepingLease(row, reason, outcome) ==  \* mutant: lease_expires_at not cleared
  [row EXCEPT !.state = "TERMINAL", !.reason = reason, !.outcome = outcome]

Settle(row, reason, outcome) ==
  [row EXCEPT !.state = "TERMINAL", !.reason = reason, !.outcome = outcome, !.lease = -1]

Finish(j, reason, outcome) ==
  /\ isLegalTerminalOutcome(reason, outcome)
  /\ CanFinish(j)
  /\ jobs' = [jobs EXCEPT ![j] = Settle(@, reason, outcome)]
  /\ UNCHANGED <<now, stale>>

\* reapStale, first half: the SELECT, whose rows the process keeps in memory.
ReapSelect(w) ==
  /\ stale[w] = {}
  /\ stale' = [stale EXCEPT ![w] = Expired]
  /\ UNCHANGED <<jobs, now>>

\* reapStale, one iteration of its loop: an UPDATE of its own, guarded by the
\* row's state only.  A row another process settled meanwhile is passed over.

CanReap(j) == IsHeld(j)

ReapUpdate(w, j) ==
  /\ j \in stale[w]
  /\ stale' = [stale EXCEPT ![w] = @ \ {j}]
  /\ jobs' = IF CanReap(j)
             THEN [jobs EXCEPT ![j] = Settle(@, "INTERRUPTED", "INTERRUPTED")]
             ELSE jobs
  /\ UNCHANGED now

\* The process of w dies, and with it the rows a reapStale had selected.
LoseReap(w) ==
  /\ stale[w] # {}
  /\ stale' = [stale EXCEPT ![w] = {}]
  /\ UNCHANGED <<jobs, now>>

Tick ==
  /\ now < MaxNow
  /\ now' = now + 1
  /\ UNCHANGED <<jobs, stale>>

\* Any client: it passes sequence numbers of seqNo and run numbers of runNo.
QueueStep(seqNo, runNo) ==
  \/ \E j \in Job, seq \in seqNo, prev \in Job \cup {None} : Enqueue(j, seq, prev)
  \/ \E w \in Worker, j \in Job :
       \/ Claim(w, j)
       \/ \E run \in runNo : MarkRunning(w, j, run)
       \/ Heartbeat(w, j)
       \/ ReapUpdate(w, j)
  \/ \E j \in Job, reason \in Reason, outcome \in Outcome : Finish(j, reason, outcome)
  \/ \E w \in Worker : ReapSelect(w) \/ LoseReap(w)
  \/ Tick

QueueNext == QueueStep(SeqNo, RunNo)

QueueSpec == QueueInit /\ [][QueueNext]_queueVars

-----------------------------------------------------------------------------
(* Properties.                                                             *)

\* The rows, the clock and the selections are well formed.
QueueTypeOK ==
  /\ jobs \in [Job -> JobRow]
  /\ now \in Nat
  /\ stale \in [Worker -> SUBSET Job]

\* The CHECK constraints of the jobs table, and what the columns mean to one
\* another: a row has a lease exactly while a worker holds it, a terminal
\* reason exactly once it is settled, and then a pair the ADR-0005 matrix has.
RowConsistent ==
  \A j \in Job :
    LET row == jobs[j] IN
    /\ (row.lease # -1) <=> row.state \in Held
    /\ (row.worker # None) <=> row.state \in Held \cup {"TERMINAL"}
    /\ (row.reason # None) <=> row.state = "TERMINAL"
    /\ row.state = "TERMINAL" => isLegalTerminalOutcome(row.reason, row.outcome)
    /\ row.state # "TERMINAL" => row.outcome = None

\* No row in memory for a later UPDATE is one that could still be claimed: if
\* it were, reapStale could settle work that nobody has started.
SelectedWasHeld ==
  \A w \in Worker : \A j \in stale[w] : jobs[j].state \in Held \cup {"TERMINAL"}

\* TERMINAL is absorbing, whatever else is in flight: a finish or a reap that
\* arrives late never rewrites the verdict of a settled row (queue-model.md).
TerminalIsAbsorbing ==
  [][\A j \in Job : jobs[j].state = "TERMINAL" => jobs'[j] = jobs[j]]_jobs

\* The worker a job was handed to is never replaced: no lease expiry, reap or
\* crash makes a job available to a second worker (ADR-0003, no auto-requeue).
NeverHandedTwice ==
  [][\A j \in Job : jobs[j].worker # None => jobs'[j].worker = jobs[j].worker]_jobs

\* The queue is the abstract job lifecycle.
Phases ==
  [ ABSENT |-> "absent", PENDING |-> "waiting", CLAIMED |-> "held",
    RUNNING |-> "held", TERMINAL |-> "settled" ]

LegalVerdict ==
  { v \in Reason \X Outcome : isLegalTerminalOutcome(v[1], v[2]) }

Lifecycle == INSTANCE JobLifecycle WITH
  Verdict <- LegalVerdict,
  phase   <- [j \in Job |-> Phases[jobs[j].state]],
  holder  <- [j \in Job |-> jobs[j].worker],
  verdict <- [j \in Job |-> IF jobs[j].state = "TERMINAL"
                            THEN <<jobs[j].reason, jobs[j].outcome>> ELSE None]

\* Every step of the queue is a step of the lifecycle or changes none of it.
ImplementsLifecycle == Lifecycle!Spec
=============================================================================
