----------------------------- MODULE RunCommand -----------------------------
(***************************************************************************)
(* `investigate run': the process that enqueues the repetitions of an      *)
(* approved experiment (packages/execution/src/enqueue.ts) and then drains *)
(* the work queue (packages/execution/src/worker.ts), as                   *)
(* apps/cli/src/commands/run.ts calls them.  Several such processes may    *)
(* share the database file, and each may die, or have an exception end it, *)
(* between any two durable steps.                                          *)
(*                                                                         *)
(* Between two awaits a process keeps what it read earlier in memory: that *)
(* is the record proc[p].  Rows of other processes change meanwhile.       *)
(* The browser is its outcome: Execute picks any the evidence plane gives. *)
(***************************************************************************)
EXTENDS WorkQueue, FiniteSetsExt

CONSTANTS
  Experiment,      \* approved experiments
  Investigation,
  InvestigationOf, \* the investigation an experiment belongs to
  Observable,      \* outcomes the experiments can be classified as when not interrupted
  MaxRepetitions,  \* safety.maxRepetitionsPerRun
  MaxRetries,      \* execution.maxInfraRetriesPerRepetition
  MaxRuns,         \* safety.maxRunsPerInvestigation
  MaxCommands      \* bound on the commands a user starts

Repetition == 0 .. MaxRepetitions - 1
Attempt    == 0 .. MaxRetries

\* deriveJobId is injective on the work tuple (the seed is one per workspace,
\* and an experiment fixes its investigation), so the tuple is the job id.
deriveJobId(e, r, a) == [exp |-> e, rep |-> r, att |-> a]

ASSUME JobAssumption ==
  Job = [exp : Experiment, rep : Repetition, att : Attempt]
ASSUME ExperimentAssumption ==
  /\ InvestigationOf \in [Experiment -> Investigation]
  /\ None \notin Experiment
ASSUME ObservableAssumption == Observable \subseteq Outcome \ {"INTERRUPTED"}
ASSUME BoundsAssumption ==
  /\ MaxRepetitions \in Nat \ {0}
  /\ MaxRetries \in Nat
  /\ MaxRuns \in Nat
  /\ MaxCommands \in Nat

VARIABLES
  seqs,   \* sequences: seqs[i][counter], the last number given out
  runs,   \* runs: the rows, each inserted and sealed in one transaction
  proc,   \* proc[p]: program counter and local variables of process p
  started \* how many commands were started (history, bounds the model)

vars == <<jobs, now, stale, seqs, runs, proc, started>>

Counter == {"job", "run", "runSeq"}

\* Where an awaiting process is: the step it performs next.
PC == {"off", "enqueueSeq", "enqueueInsert", "reap", "claim", "number", "markRunning",
       "execute", "renumber", "seal", "finish", "retryRead", "retrySeq", "retryInsert"}

Process ==
  [ pc      : PC,
    exp     : Experiment \cup {None},
    todo    : SUBSET Repetition,   \* repetitions still to be enqueued
    left    : Nat,                 \* max - repetitionsCompleted of drain
    job     : Job \cup {None},
    seq     : Nat,                 \* the last nextSequence("job") it was given
    run     : Nat,                 \* runSeq of the run being executed
    rowSeq  : Nat,                 \* the seq column its runs row will have
    outcome : Outcome \cup {None},
    att     : Nat ]                \* nextAttempt of enqueueRetry

Off ==
  [ pc |-> "off", exp |-> None, todo |-> {}, left |-> 0, job |-> None, seq |-> 0,
    run |-> 0, rowSeq |-> 0, outcome |-> None, att |-> 0 ]

\* id is makeRunId(runSeq): the number alone, with nothing of the investigation
\* in it.  run_id is the primary key of the one table all investigations share.
RunRow == [id : Nat, job : Job, outcome : Outcome, seq : Nat]

inv(p)   == InvestigationOf[proc[p].exp]
jobInv(j) == InvestigationOf[j.exp]

JobsOf(i) == { j \in Job : Present(j) /\ jobInv(j) = i }

At(p, label) == proc[p].pc = label
Goto(p, label) == proc' = [proc EXCEPT ![p] = [@ EXCEPT !.pc = label]]

\* nextSequence(investigation, counter), one transaction.
NextNumber(i, c) == seqs[i][c] + 1

Bump(i, c)  == seqs' = [seqs EXCEPT ![i][c] = @ + 1]

-----------------------------------------------------------------------------

Init ==
  /\ QueueInit
  /\ seqs = [i \in Investigation |-> [c \in Counter |-> 0]]
  /\ runs = {}
  /\ proc = [p \in Worker |-> Off]
  /\ started = 0

\* enqueueExperiment up to its loop.  The limits are checked, and the set of
\* repetitions already present is taken, against one listJobs; the inserts come
\* later.  A request that breaks a limit throws and changes nothing.
StartRun(p, e, n) ==
  /\ At(p, "off")
  /\ started < MaxCommands
  /\ started' = started + 1
  /\ Cardinality(JobsOf(InvestigationOf[e])) + n <= MaxRuns
  /\ LET todo == { r \in 0 .. n - 1 : ~Present(deriveJobId(e, r, 0)) } IN
     proc' = [proc EXCEPT ![p] =
                [Off EXCEPT !.pc = IF todo = {} THEN "reap" ELSE "enqueueSeq",
                            !.exp = e, !.todo = todo, !.left = n]]
  /\ UNCHANGED <<jobs, now, stale, seqs, runs>>

\* The loop of enqueueExperiment: a number, then the row, in two transactions.
EnqueueSeq(p) ==
  /\ At(p, "enqueueSeq")
  /\ Bump(inv(p), "job")
  /\ proc' = [proc EXCEPT ![p] = [@ EXCEPT !.pc = "enqueueInsert", !.seq = NextNumber(inv(p), "job")]]
  /\ UNCHANGED <<jobs, now, stale, runs, started>>

EnqueueInsert(p) ==
  /\ At(p, "enqueueInsert")
  /\ LET r    == Min(proc[p].todo)
         rest == proc[p].todo \ {r}
     IN /\ Enqueue(deriveJobId(proc[p].exp, r, 0), proc[p].seq, None)
        /\ proc' = [proc EXCEPT ![p] = [@ EXCEPT !.todo = rest, !.seq = 0,
                                                 !.pc = IF rest = {} THEN "reap" ELSE "enqueueSeq"]]
  /\ UNCHANGED <<seqs, runs, started>>

\* Another process inserted the row after this one listed the jobs: enqueue
\* throws INPUT_INVALID and the command ends, its other repetitions unqueued.
EnqueueCollides(p) ==
  /\ At(p, "enqueueInsert")
  /\ Present(deriveJobId(proc[p].exp, Min(proc[p].todo), 0))
  /\ proc' = [proc EXCEPT ![p] = Off]
  /\ UNCHANGED <<jobs, now, stale, seqs, runs, started>>

\* drain: reapStale once, before the first claim, then the loop.
Reap(p) ==
  /\ At(p, "reap")
  /\ ReapSelect(p)
  /\ Goto(p, "claim")
  /\ UNCHANGED <<seqs, runs, started>>

ReapOne(p) ==
  /\ At(p, "claim")
  /\ \E j \in stale[p] : ReapUpdate(p, j)
  /\ UNCHANGED <<seqs, runs, proc, started>>

BelowMax(p) == proc[p].left > 0

ClaimOne(p) ==
  /\ At(p, "claim")
  /\ stale[p] = {}
  /\ BelowMax(p)
  /\ \E j \in Job :
       /\ Claim(p, j)
       /\ proc' = [proc EXCEPT ![p] = [@ EXCEPT !.pc = "number", !.job = j]]
  /\ UNCHANGED <<seqs, runs, started>>

\* drain returns: `max' repetitions are done, nothing is PENDING, or the write
\* lock stayed busy because another process was writing.
OnlyWhenDone(p) == ~BelowMax(p)  \* mutant: an empty queue does not end the loop

LoopEnds(p) ==
  \/ ~BelowMax(p)
  \/ Claimable = {}
  \/ \E q \in Worker \ {p} : ~At(q, "off")

DrainReturns(p) ==
  /\ At(p, "claim")
  /\ stale[p] = {}
  /\ LoopEnds(p)
  /\ proc' = [proc EXCEPT ![p] = Off]
  /\ UNCHANGED <<jobs, now, stale, seqs, runs, started>>

\* runClaimedJob: the run number, in a transaction of its own.
NumberRun(p) ==
  /\ At(p, "number")
  /\ LET i == jobInv(proc[p].job) IN
     /\ Bump(i, "run")
     /\ proc' = [proc EXCEPT ![p] = [@ EXCEPT !.pc = "markRunning", !.run = NextNumber(i, "run"),
                                              !.rowSeq = NextNumber(i, "run")]]
  /\ UNCHANGED <<jobs, now, stale, runs, started>>

StartJob(p) ==
  /\ At(p, "markRunning")
  /\ MarkRunning(p, proc[p].job, proc[p].run)
  /\ Goto(p, "execute")
  /\ UNCHANGED <<seqs, runs, started>>

\* The lease ran out after the claim and the row was reaped: markRunning throws.
StartJobFails(p) ==
  /\ At(p, "markRunning")
  /\ ~CanMarkRunning(p, proc[p].job)
  /\ proc' = [proc EXCEPT ![p] = Off]
  /\ UNCHANGED <<jobs, now, stale, seqs, runs, started>>

\* The browser, the collector and the evidence plane: any observation.  When
\* no manifest was opened finishWithoutBrowser records an infrastructure
\* failure and takes the seq of its runs row from a counter of its own.
Execute(p) ==
  /\ At(p, "execute")
  /\ \/ \E o \in Observable :
          proc' = [proc EXCEPT ![p] = [@ EXCEPT !.pc = "seal", !.outcome = o]]
     \/ proc' = [proc EXCEPT ![p] = [@ EXCEPT !.pc = "renumber", !.outcome = "INFRASTRUCTURE_FAILED"]]
  /\ UNCHANGED <<jobs, now, stale, seqs, runs, started>>

Renumber(p) ==
  /\ At(p, "renumber")
  /\ LET i == jobInv(proc[p].job) IN
     /\ Bump(i, "runSeq")
     /\ proc' = [proc EXCEPT ![p] = [@ EXCEPT !.pc = "seal", !.rowSeq = NextNumber(i, "runSeq")]]
  /\ UNCHANGED <<jobs, now, stale, runs, started>>

CanSeal(p) == \A row \in runs : row.id # proc[p].run /\ row.job # proc[p].job

UnsealedRow(p) ==  \* mutant: insertRun without updateRunOnSeal
  [id |-> proc[p].run, job |-> proc[p].job, outcome |-> None, seq |-> proc[p].rowSeq]

SealedRow(p) ==
  [id |-> proc[p].run, job |-> proc[p].job, outcome |-> proc[p].outcome, seq |-> proc[p].rowSeq]

\* insertRun and updateRunOnSeal, one transaction.  It does not read the job:
\* a run whose lease was lost meanwhile is sealed all the same.
Seal(p) ==
  /\ At(p, "seal")
  /\ CanSeal(p)
  /\ runs' = runs \cup {SealedRow(p)}
  /\ Goto(p, "finish")
  /\ UNCHANGED <<jobs, now, stale, seqs, started>>

\* run_id is taken, by another investigation's run: the insert throws.
SealCollides(p) ==
  /\ At(p, "seal")
  /\ ~CanSeal(p)
  /\ proc' = [proc EXCEPT ![p] = Off]
  /\ UNCHANGED <<jobs, now, stale, seqs, runs, started>>

terminalReason(o) == IF o = "INFRASTRUCTURE_FAILED" THEN "WORKER_ERROR" ELSE "COMPLETED"

\* drain's retry condition, evaluated on the claimed row it holds in memory.
RetryUntilGreen(outcome, j) ==  \* mutant: whatever is not valid is run again
  outcome # "VALID_COMPLETED" /\ j.att < MaxRetries

ShouldRetry(outcome, j) == outcome = "INFRASTRUCTURE_FAILED" /\ j.att < MaxRetries

FinishJob(p) ==
  /\ At(p, "finish")
  /\ Finish(proc[p].job, terminalReason(proc[p].outcome), proc[p].outcome)
  /\ IF ShouldRetry(proc[p].outcome, proc[p].job)
     THEN Goto(p, "retryRead")
     ELSE proc' = [proc EXCEPT ![p] = [@ EXCEPT !.pc = "claim", !.left = proc[p].left - 1, !.job = None,
                                                !.outcome = None, !.run = 0, !.rowSeq = 0]]
  /\ UNCHANGED <<seqs, runs, started>>

\* The row was reaped while the run executed: finish throws, the drain ends.
FinishJobFails(p) ==
  /\ At(p, "finish")
  /\ ~CanFinish(proc[p].job)
  /\ proc' = [proc EXCEPT ![p] = Off]
  /\ UNCHANGED <<jobs, now, stale, seqs, runs, started>>

Resume(p) == proc' = [proc EXCEPT ![p] = [@ EXCEPT !.pc = "claim", !.job = None, !.att = 0, !.seq = 0,
                                            !.outcome = None, !.run = 0, !.rowSeq = 0]]

\* enqueueRetry: list the attempts, take a number, insert.  Its second early
\* return, "a later attempt exists", can never be taken after the first line.
Attempts(e, r) == { a \in Attempt : Present(deriveJobId(e, r, a)) }

RetryRead(p) ==
  /\ At(p, "retryRead")
  /\ LET j    == proc[p].job
         next == Max(Attempts(j.exp, j.rep)) + 1
     IN IF next > MaxRetries
        THEN Resume(p)
        ELSE proc' = [proc EXCEPT ![p] = [@ EXCEPT !.pc = "retrySeq", !.att = next]]
  /\ UNCHANGED <<jobs, now, stale, seqs, runs, started>>

RetrySeq(p) ==
  /\ At(p, "retrySeq")
  /\ LET i == jobInv(proc[p].job) IN
     /\ Bump(i, "job")
     /\ proc' = [proc EXCEPT ![p] = [@ EXCEPT !.pc = "retryInsert", !.seq = NextNumber(i, "job")]]
  /\ UNCHANGED <<jobs, now, stale, runs, started>>

RetryJob(p) == deriveJobId(proc[p].job.exp, proc[p].job.rep, proc[p].att)

\* A duplicate work tuple would be a race another claimant won, and is ignored.
RetryInsert(p) ==
  /\ At(p, "retryInsert")
  /\ IF Present(RetryJob(p)) THEN UNCHANGED queueVars
     ELSE Enqueue(RetryJob(p), proc[p].seq, proc[p].job)
  /\ Resume(p)
  /\ UNCHANGED <<seqs, runs, started>>

\* The process dies, or an exception nothing catches ends the command (an
\* artifact that cannot be stored, a busy database).  Its rows stay as they are.
Abandon(p) ==
  /\ ~At(p, "off")
  /\ proc'  = [proc EXCEPT ![p] = Off]
  /\ stale' = [stale EXCEPT ![p] = {}]
  /\ UNCHANGED <<jobs, now, seqs, runs, started>>

Time == Tick /\ UNCHANGED <<seqs, runs, proc, started>>

Step(p) ==
  \/ EnqueueSeq(p) \/ EnqueueInsert(p) \/ EnqueueCollides(p)
  \/ Reap(p) \/ ReapOne(p) \/ ClaimOne(p) \/ DrainReturns(p)
  \/ NumberRun(p) \/ StartJob(p) \/ StartJobFails(p)
  \/ Execute(p) \/ Renumber(p) \/ Seal(p) \/ SealCollides(p)
  \/ FinishJob(p) \/ FinishJobFails(p)
  \/ RetryRead(p) \/ RetrySeq(p) \/ RetryInsert(p)

Next ==
  \/ \E p \in Worker :
       \/ \E e \in Experiment, n \in 1 .. MaxRepetitions : StartRun(p, e, n)
       \/ Step(p)
       \/ Abandon(p)
  \/ Time

Spec == Init /\ [][Next]_vars

\* A process that is running keeps running: every await it makes resolves (the
\* browser's steps have timeouts).  Nothing makes a user start a command.
FairSpec == Spec /\ \A p \in Worker : WF_vars(Step(p))

-----------------------------------------------------------------------------
(* What the statistics read.                                               *)

\* repetitionOutcomes for one experiment and repetition: the last attempt that
\* was not interrupted, unless there is none or it is not an observation.
Observations(e, r) ==
  { a \in Attempt : LET row == jobs[deriveJobId(e, r, a)] IN
                      row.state = "TERMINAL" /\ row.outcome # "INTERRUPTED" }

firstOutcome(e, r) ==  \* mutant: the first attempt that ended, not the last
  IF Observations(e, r) = {} THEN None
  ELSE LET o == jobs[deriveJobId(e, r, Min(Observations(e, r)))].outcome IN
       IF o = "INFRASTRUCTURE_FAILED" THEN None ELSE o

repetitionOutcome(e, r) ==
  IF Observations(e, r) = {} THEN None
  ELSE LET o == jobs[deriveJobId(e, r, Max(Observations(e, r)))].outcome IN
       IF o = "INFRASTRUCTURE_FAILED" THEN None ELSE o

-----------------------------------------------------------------------------
(* Properties.                                                             *)

TypeOK ==
  /\ QueueTypeOK
  /\ seqs \in [Investigation -> [Counter -> Nat]]
  /\ runs \subseteq RunRow
  /\ proc \in [Worker -> Process]
  /\ started \in Nat

\* The labels between the claim of a job and the end of its attempt.
Executing(p) == proc[p].pc \in {"number", "markRunning", "execute", "renumber", "seal", "finish"}

\* No job is being executed by two processes, even while one that lost its
\* lease has not noticed yet (ADR-0003: a stale job is never handed on).
ExclusiveExecution ==
  \A p, q \in Worker :
    Executing(p) /\ Executing(q) /\ proc[p].job = proc[q].job => p = q

\* Crash-consistency ordering (queue-model.md): a job a worker settled has its
\* sealed run row already, under the run id of the job and with its outcome.
SealedBeforeSettled ==
  \A j \in Job :
    jobs[j].state = "TERMINAL" /\ jobs[j].reason # "INTERRUPTED" =>
      \E row \in runs : /\ row.job = j
                        /\ row.id = jobs[j].runId
                        /\ row.outcome = jobs[j].outcome

\* k is the attempt of the same repetition after j.
Follows(k, j) == k.exp = j.exp /\ k.rep = j.rep /\ k.att = j.att + 1

\* The attempts of a repetition are a chain: whichever commands retry, and
\* wherever they die, an attempt exists only after the one before it was
\* settled as an infrastructure failure, so that no observation is run again.
AttemptsChain ==
  \A j, k \in Job : Follows(k, j) /\ Present(k) => jobs[j].outcome = "INFRASTRUCTURE_FAILED"

\* Retrying never hides a product failure: once an attempt of a repetition was
\* settled as PRODUCT_FAILED, that is what the repetition counts as, whatever
\* attempts other processes add (no_retry_hides_product_failure.spec.ts).
RetryNeverHidesProductFailure ==
  \A j \in Job :
    jobs[j].outcome = "PRODUCT_FAILED" => repetitionOutcome(j.exp, j.rep) = "PRODUCT_FAILED"

\* A run that was executed can be sealed: its run id is free and its job has
\* no run yet (components.md, per-investigation counters for user-facing ids).
ExecutedRunCanSeal ==
  \A p \in Worker : At(p, "seal") => CanSeal(p)

\* A command that was started ends: no drain loops for ever on retries, on
\* rows of other processes, or on a queue in which nothing is left to claim.
CommandEnds ==
  \A p \in Worker : ~At(p, "off") ~> At(p, "off")
=============================================================================
