-------------------------- MODULE RunCommandProofs --------------------------
(***************************************************************************)
(* First the work queue by itself, for any set of jobs and workers, any    *)
(* lease and any clock: its rows stay well formed, a settled row never     *)
(* changes, a job is handed out once, and the queue implements the         *)
(* abstract JobLifecycle.                                                  *)
(*                                                                         *)
(* Then the command around it, for any number of processes, experiments,   *)
(* repetitions and retries, and crashes anywhere: no job is executed by    *)
(* two processes, and a job that a worker settled has its sealed run row   *)
(* already.  Neither is inductive.  LocalOK says what a process knows at   *)
(* each of its steps: from the claim on, the row of its job carries its    *)
(* name (the queue never hands a row on, so this survives the loss of the  *)
(* lease); from markRunning on also its run id; and before it settles the  *)
(* job its run is sealed.  What a step does to the rows is taken from the  *)
(* theorems about the queue, since every step of a command is one of its.  *)
(***************************************************************************)
EXTENDS RunCommand, WellFoundedInduction, TLAPS

-----------------------------------------------------------------------------
(* The work queue.                                                         *)

\* The two operations that settle a row write the same well-formed row.
LEMMA SettleType ==
  ASSUME NEW row \in JobRow, NEW reason \in Reason, NEW outcome \in Outcome
  PROVE  Settle(row, reason, outcome) \in JobRow
BY DEF Settle, JobRow, State

LEMMA AbsentType == AbsentRow \in JobRow
BY DEF AbsentRow, JobRow, State

\* Rows, clock and selections keep their types under every step.
LEMMA TypeStep ==
  ASSUME NEW S \in SUBSET Nat, NEW R \in SUBSET Nat,
         QueueTypeOK, [QueueStep(S, R)]_queueVars
  PROVE  QueueTypeOK'
<1> USE DEF QueueTypeOK
<1>1. ASSUME NEW j \in Job, NEW seq \in S, NEW prev \in Job \cup {None},
             Enqueue(j, seq, prev)
      PROVE  QueueTypeOK'
  <2>1. [AbsentRow EXCEPT !.state = "PENDING", !.seq = seq, !.prev = prev] \in JobRow
    BY DEF AbsentRow, JobRow, State
  <2> QED BY <1>1, <2>1 DEF Enqueue
<1>2. ASSUME NEW w \in Worker, NEW j \in Job, Claim(w, j)
      PROVE  QueueTypeOK'
  <2> DEFINE row == jobs[j]
  <2>2. row \in JobRow /\ now + LeaseMs \in Nat
    BY LeaseAssumption
  <2>1. [row EXCEPT !.state = "CLAIMED", !.worker = w, !.lease = now + LeaseMs] \in JobRow
    <3> HIDE DEF row
    <3> QED BY <2>2 DEF JobRow, State
  <2> QED BY <1>2, <2>1 DEF Claim
<1>3. ASSUME NEW w \in Worker, NEW j \in Job, NEW run \in R, MarkRunning(w, j, run)
      PROVE  QueueTypeOK'
  <2> DEFINE row == jobs[j]
  <2>2. row \in JobRow /\ run \in Nat
    OBVIOUS
  <2>1. [row EXCEPT !.state = "RUNNING", !.runId = run] \in JobRow
    <3> HIDE DEF row
    <3> QED BY <2>2 DEF JobRow, State
  <2> QED BY <1>3, <2>1 DEF MarkRunning
<1>4. ASSUME NEW w \in Worker, NEW j \in Job, Heartbeat(w, j)
      PROVE  QueueTypeOK'
  <2> DEFINE row == jobs[j]
  <2>2. row \in JobRow /\ now + LeaseMs \in Nat
    BY LeaseAssumption
  <2>1. [row EXCEPT !.lease = now + LeaseMs] \in JobRow
    <3> HIDE DEF row
    <3> QED BY <2>2 DEF JobRow, State
  <2> QED BY <1>4, <2>1 DEF Heartbeat
<1>5. ASSUME NEW w \in Worker, NEW j \in Job, ReapUpdate(w, j)
      PROVE  QueueTypeOK'
  <2>1. Settle(jobs[j], "INTERRUPTED", "INTERRUPTED") \in JobRow
    BY SettleType DEF Reason, Outcome
  <2> QED BY <1>5, <2>1 DEF ReapUpdate
<1>6. ASSUME NEW j \in Job, NEW reason \in Reason, NEW outcome \in Outcome,
             Finish(j, reason, outcome)
      PROVE  QueueTypeOK'
  <2>1. Settle(jobs[j], reason, outcome) \in JobRow
    BY SettleType
  <2> QED BY <1>6, <2>1 DEF Finish
<1>7. ASSUME NEW w \in Worker, ReapSelect(w) \/ LoseReap(w)
      PROVE  QueueTypeOK'
  BY <1>7 DEF ReapSelect, LoseReap, Expired
<1>8. CASE Tick
  BY <1>8 DEF Tick
<1>9. CASE UNCHANGED queueVars
  BY <1>9 DEF queueVars
<1> QED
  BY <1>1, <1>2, <1>3, <1>4, <1>5, <1>6, <1>7, <1>8, <1>9 DEF QueueStep

\* A queue of its own is one whose clients pass the numbers of the constants.
LEMMA NextIsStep ==
  ASSUME [QueueNext]_queueVars
  PROVE  \E S, R \in SUBSET Nat : [QueueStep(S, R)]_queueVars
BY NumberAssumption DEF QueueNext

\* Rows, clock and selections are well formed in every reachable state.
THEOREM TypeCorrect == QueueSpec => []QueueTypeOK
<1>1. QueueInit => QueueTypeOK
  BY AbsentType DEF QueueInit, QueueTypeOK
<1>2. QueueTypeOK /\ [QueueNext]_queueVars => QueueTypeOK'
  BY NextIsStep, TypeStep
<1> QED
  BY <1>1, <1>2, PTL DEF QueueSpec

-----------------------------------------------------------------------------
(* The rows' columns agree with one another.                               *)

ConsistentRow(row) ==
  /\ (row.lease # -1) <=> row.state \in Held
  /\ (row.worker # None) <=> row.state \in Held \cup {"TERMINAL"}
  /\ (row.reason # None) <=> row.state = "TERMINAL"
  /\ row.state = "TERMINAL" => isLegalTerminalOutcome(row.reason, row.outcome)
  /\ row.state # "TERMINAL" => row.outcome = None

\* Settling a held row with a legal pair leaves a consistent row.
LEMMA SettleConsistent ==
  ASSUME NEW row \in JobRow, ConsistentRow(row), row.state \in Held,
         NEW reason \in Reason, NEW outcome \in Outcome,
         isLegalTerminalOutcome(reason, outcome)
  PROVE  ConsistentRow(Settle(row, reason, outcome))
<1> DEFINE new == Settle(row, reason, outcome)
<1>1. /\ new.state = "TERMINAL" /\ new.lease = -1
      /\ new.reason = reason /\ new.outcome = outcome
      /\ new.worker = row.worker
  BY DEF Settle, JobRow
<1>2. row.worker # None /\ reason # None
  BY NoneAssumption DEF ConsistentRow, Reason
<1>3. ConsistentRow(new)
  <2> HIDE DEF new
  <2> QED BY <1>1, <1>2 DEF ConsistentRow, Held
<1> QED
  BY <1>3

\* Each operation writes one row, and writes it consistently.
LEMMA ConsistentStep ==
  ASSUME NEW S \in SUBSET Nat, NEW R \in SUBSET Nat,
         QueueTypeOK, RowConsistent, [QueueStep(S, R)]_queueVars
  PROVE  RowConsistent'
<1> SUFFICES ASSUME NEW k \in Job
             PROVE  ConsistentRow(jobs'[k])
  BY DEF RowConsistent, ConsistentRow
<1>0. jobs[k] \in JobRow /\ ConsistentRow(jobs[k])
  BY DEF QueueTypeOK, RowConsistent, ConsistentRow
<1>1. ASSUME NEW j \in Job, NEW seq \in S, NEW prev \in Job \cup {None},
             Enqueue(j, seq, prev)
      PROVE  ConsistentRow(jobs'[k])
  <2>1. ConsistentRow([AbsentRow EXCEPT !.state = "PENDING", !.seq = seq, !.prev = prev])
    BY DEF ConsistentRow, AbsentRow, Held
  <2> QED BY <1>0, <1>1, <2>1 DEF Enqueue, QueueTypeOK
<1>2. ASSUME NEW w \in Worker, NEW j \in Job, Claim(w, j)
      PROVE  ConsistentRow(jobs'[k])
  <2> DEFINE row == jobs[j]
             new == [row EXCEPT !.state = "CLAIMED", !.worker = w, !.lease = now + LeaseMs]
  <2>1. row \in JobRow /\ ConsistentRow(row) /\ row.state = "PENDING" /\ now \in Nat
    BY <1>2 DEF QueueTypeOK, RowConsistent, ConsistentRow, Claim, Claimable, IsPending
  <2>2. ConsistentRow(new)
    <3>1. /\ new.state = "CLAIMED" /\ new.worker = w /\ new.lease = now + LeaseMs
          /\ new.reason = row.reason /\ new.outcome = row.outcome
      <4> HIDE DEF row
      <4> QED BY <2>1 DEF JobRow
    <3>2. new.lease # -1 /\ w # None
      BY <2>1, <3>1, LeaseAssumption, NoneAssumption
    <3> HIDE DEF row, new
    <3> QED BY <2>1, <3>1, <3>2 DEF ConsistentRow, Held
  <2> QED BY <1>0, <1>2, <2>2 DEF Claim, QueueTypeOK
<1>3. ASSUME NEW w \in Worker, NEW j \in Job, NEW run \in R, MarkRunning(w, j, run)
      PROVE  ConsistentRow(jobs'[k])
  <2> DEFINE row == jobs[j]
             new == [row EXCEPT !.state = "RUNNING", !.runId = run]
  <2>1. row \in JobRow /\ ConsistentRow(row) /\ row.state = "CLAIMED"
    BY <1>3 DEF QueueTypeOK, RowConsistent, ConsistentRow, MarkRunning, CanMarkRunning
  <2>2. ConsistentRow(new)
    <3>1. /\ new.state = "RUNNING" /\ new.worker = row.worker /\ new.lease = row.lease
          /\ new.reason = row.reason /\ new.outcome = row.outcome
      <4> HIDE DEF row
      <4> QED BY <2>1 DEF JobRow
    <3> HIDE DEF row, new
    <3> QED BY <2>1, <3>1 DEF ConsistentRow, Held
  <2> QED BY <1>0, <1>3, <2>2 DEF MarkRunning, QueueTypeOK
<1>4. ASSUME NEW w \in Worker, NEW j \in Job, Heartbeat(w, j)
      PROVE  ConsistentRow(jobs'[k])
  <2> DEFINE row == jobs[j]
             new == [row EXCEPT !.lease = now + LeaseMs]
  <2>1. row \in JobRow /\ ConsistentRow(row) /\ row.state \in Held /\ now \in Nat
    BY <1>4 DEF QueueTypeOK, RowConsistent, ConsistentRow, Heartbeat, IsHeld
  <2>2. ConsistentRow(new)
    <3>1. /\ new.state = row.state /\ new.worker = row.worker /\ new.lease = now + LeaseMs
          /\ new.reason = row.reason /\ new.outcome = row.outcome
      <4> HIDE DEF row
      <4> QED BY <2>1 DEF JobRow
    <3>2. new.lease # -1
      BY <2>1, <3>1, LeaseAssumption
    <3> HIDE DEF row, new
    <3> QED BY <2>1, <3>1, <3>2 DEF ConsistentRow, Held
  <2> QED BY <1>0, <1>4, <2>2 DEF Heartbeat, QueueTypeOK
<1>5. ASSUME NEW w \in Worker, NEW j \in Job, ReapUpdate(w, j)
      PROVE  ConsistentRow(jobs'[k])
  <2>1. CASE CanReap(j)
    <3>1. isLegalTerminalOutcome("INTERRUPTED", "INTERRUPTED")
      BY DEF isLegalTerminalOutcome, LegalTerminalOutcomes
    <3>2. jobs[j] \in JobRow /\ ConsistentRow(jobs[j]) /\ jobs[j].state \in Held
      BY <2>1 DEF QueueTypeOK, RowConsistent, ConsistentRow, CanReap, IsHeld
    <3>3. ConsistentRow(Settle(jobs[j], "INTERRUPTED", "INTERRUPTED"))
      BY <3>1, <3>2, SettleConsistent DEF Reason, Outcome
    <3> QED BY <1>0, <1>5, <2>1, <3>3 DEF ReapUpdate, QueueTypeOK
  <2>2. CASE ~CanReap(j)
    BY <1>0, <1>5, <2>2 DEF ReapUpdate
  <2> QED BY <2>1, <2>2
<1>6. ASSUME NEW j \in Job, NEW reason \in Reason, NEW outcome \in Outcome,
             Finish(j, reason, outcome)
      PROVE  ConsistentRow(jobs'[k])
  <2>1. jobs[j] \in JobRow /\ ConsistentRow(jobs[j]) /\ jobs[j].state \in Held
    BY <1>6 DEF QueueTypeOK, RowConsistent, ConsistentRow, Finish, CanFinish, IsHeld
  <2>2. ConsistentRow(Settle(jobs[j], reason, outcome))
    BY <1>6, <2>1, SettleConsistent DEF Finish
  <2> QED BY <1>0, <1>6, <2>2 DEF Finish, QueueTypeOK
<1>7. ASSUME NEW w \in Worker, ReapSelect(w) \/ LoseReap(w)
      PROVE  ConsistentRow(jobs'[k])
  BY <1>0, <1>7 DEF ReapSelect, LoseReap
<1>8. CASE Tick
  BY <1>0, <1>8 DEF Tick
<1>9. CASE UNCHANGED queueVars
  BY <1>0, <1>9 DEF queueVars
<1> QED
  BY <1>1, <1>2, <1>3, <1>4, <1>5, <1>6, <1>7, <1>8, <1>9 DEF QueueStep

\* Lease, worker, reason and outcome of a row always fit its state, and a
\* settled row always holds a pair of the ADR-0005 matrix.
THEOREM RowsConsistent == QueueSpec => []RowConsistent
<1>1. QueueInit => RowConsistent
  BY DEF QueueInit, RowConsistent, AbsentRow, Held
<1>2. QueueTypeOK /\ RowConsistent /\ [QueueNext]_queueVars => RowConsistent'
  BY NextIsStep, ConsistentStep
<1> QED
  BY <1>1, <1>2, TypeCorrect, PTL DEF QueueSpec

-----------------------------------------------------------------------------
(* What a step may do to a row: the four properties below all follow from   *)
(* this one, which sums up how every operation changes the row of a job.    *)

Advance(old, new) ==
  \/ new = old
  \/ old.state = "ABSENT" /\ new.state = "PENDING" /\ new.worker = None
  \/ /\ old.state = "PENDING"
     /\ new.state = "CLAIMED"
     /\ new.worker \in Worker
  \/ /\ old.state \in Held
     /\ new.state \in Held
     /\ new.worker = old.worker
  \/ /\ old.state \in Held
     /\ \E reason \in Reason, outcome \in Outcome :
          /\ isLegalTerminalOutcome(reason, outcome)
          /\ new = Settle(old, reason, outcome)

\* At most one row changes in a step, and that one only advances.
OneAdvances ==
  \/ jobs' = jobs
  \/ \E j \in Job, new \in JobRow :
       Advance(jobs[j], new) /\ jobs' = [jobs EXCEPT ![j] = new]

LEMMA StepAdvances ==
  ASSUME NEW S \in SUBSET Nat, NEW R \in SUBSET Nat,
         QueueTypeOK, [QueueStep(S, R)]_queueVars
  PROVE  OneAdvances
<1> USE DEF QueueTypeOK
<1>1. ASSUME NEW j \in Job, NEW seq \in S, NEW prev \in Job \cup {None},
             Enqueue(j, seq, prev)
      PROVE  OneAdvances
  <2> DEFINE new == [AbsentRow EXCEPT !.state = "PENDING", !.seq = seq, !.prev = prev]
  <2>1. new \in JobRow /\ new.state = "PENDING" /\ new.worker = None
    BY DEF AbsentRow, JobRow, State
  <2>2. jobs[j].state = "ABSENT" /\ jobs' = [jobs EXCEPT ![j] = new]
    BY <1>1 DEF Enqueue, Present
  <2> HIDE DEF new
  <2> QED BY <2>1, <2>2 DEF OneAdvances, Advance
<1>2. ASSUME NEW w \in Worker, NEW j \in Job, Claim(w, j)
      PROVE  OneAdvances
  <2> DEFINE row == jobs[j]
             new == [row EXCEPT !.state = "CLAIMED", !.worker = w, !.lease = now + LeaseMs]
  <2>1. row \in JobRow /\ row.state = "PENDING" /\ now + LeaseMs \in Nat
    BY <1>2, LeaseAssumption DEF Claim, Claimable, IsPending
  <2>2. new \in JobRow /\ new.state = "CLAIMED" /\ new.worker = w
    <3> HIDE DEF row
    <3> QED BY <2>1 DEF JobRow, State
  <2>3. jobs' = [jobs EXCEPT ![j] = new]
    BY <1>2 DEF Claim
  <2> HIDE DEF new
  <2> QED BY <2>1, <2>2, <2>3 DEF OneAdvances, Advance
<1>3. ASSUME NEW w \in Worker, NEW j \in Job, NEW run \in R, MarkRunning(w, j, run)
      PROVE  OneAdvances
  <2> DEFINE row == jobs[j]
             new == [row EXCEPT !.state = "RUNNING", !.runId = run]
  <2>1. row \in JobRow /\ row.state = "CLAIMED" /\ run \in Nat
    BY <1>3 DEF MarkRunning, CanMarkRunning
  <2>2. new \in JobRow /\ new.state = "RUNNING" /\ new.worker = row.worker
    <3> HIDE DEF row
    <3> QED BY <2>1 DEF JobRow, State
  <2>3. jobs' = [jobs EXCEPT ![j] = new]
    BY <1>3 DEF MarkRunning
  <2> HIDE DEF new
  <2> QED BY <2>1, <2>2, <2>3 DEF OneAdvances, Advance, Held
<1>4. ASSUME NEW w \in Worker, NEW j \in Job, Heartbeat(w, j)
      PROVE  OneAdvances
  <2> DEFINE row == jobs[j]
             new == [row EXCEPT !.lease = now + LeaseMs]
  <2>1. row \in JobRow /\ row.state \in Held /\ now + LeaseMs \in Nat
    BY <1>4, LeaseAssumption DEF Heartbeat, IsHeld
  <2>2. new \in JobRow /\ new.state = row.state /\ new.worker = row.worker
    <3> HIDE DEF row
    <3> QED BY <2>1 DEF JobRow, State
  <2>3. jobs' = [jobs EXCEPT ![j] = new]
    BY <1>4 DEF Heartbeat
  <2> HIDE DEF new
  <2> QED BY <2>1, <2>2, <2>3 DEF OneAdvances, Advance
<1>5. ASSUME NEW w \in Worker, NEW j \in Job, ReapUpdate(w, j)
      PROVE  OneAdvances
  <2> DEFINE new == Settle(jobs[j], "INTERRUPTED", "INTERRUPTED")
  <2>1. new \in JobRow
    BY SettleType DEF Reason, Outcome
  <2>2. isLegalTerminalOutcome("INTERRUPTED", "INTERRUPTED")
    BY DEF isLegalTerminalOutcome, LegalTerminalOutcomes
  <2>3. CASE CanReap(j)
    <3>1. jobs[j].state \in Held /\ jobs' = [jobs EXCEPT ![j] = new]
      BY <1>5, <2>3 DEF ReapUpdate, CanReap, IsHeld
    <3>2. Advance(jobs[j], new)
      BY <2>2, <3>1 DEF Advance, Reason, Outcome
    <3> QED BY <2>1, <3>1, <3>2 DEF OneAdvances
  <2>4. CASE ~CanReap(j)
    BY <1>5, <2>4 DEF ReapUpdate, OneAdvances
  <2> QED BY <2>3, <2>4
<1>6. ASSUME NEW j \in Job, NEW reason \in Reason, NEW outcome \in Outcome,
             Finish(j, reason, outcome)
      PROVE  OneAdvances
  <2> DEFINE new == Settle(jobs[j], reason, outcome)
  <2>1. new \in JobRow
    BY SettleType
  <2>2. /\ jobs[j].state \in Held /\ isLegalTerminalOutcome(reason, outcome)
        /\ jobs' = [jobs EXCEPT ![j] = new]
    BY <1>6 DEF Finish, CanFinish, IsHeld
  <2>3. Advance(jobs[j], new)
    BY <2>2 DEF Advance
  <2> QED BY <2>1, <2>2, <2>3 DEF OneAdvances
<1>7. ASSUME NEW w \in Worker, ReapSelect(w) \/ LoseReap(w)
      PROVE  OneAdvances
  BY <1>7 DEF ReapSelect, LoseReap, OneAdvances
<1>8. CASE Tick
  BY <1>8 DEF Tick, OneAdvances
<1>9. CASE UNCHANGED queueVars
  BY <1>9 DEF queueVars, OneAdvances
<1> QED
  BY <1>1, <1>2, <1>3, <1>4, <1>5, <1>6, <1>7, <1>8, <1>9 DEF QueueStep

\* A settled row stays as it is: a late finish or a late reap, from whatever
\* process, does not touch the verdict.
THEOREM SettledForGood == QueueSpec => TerminalIsAbsorbing
<1> DEFINE Absorbs == \A j \in Job : jobs[j].state = "TERMINAL" => jobs'[j] = jobs[j]
<1>1. QueueTypeOK /\ [QueueNext]_queueVars => [Absorbs]_jobs
  <2> SUFFICES ASSUME QueueTypeOK, OneAdvances PROVE Absorbs
    BY NextIsStep, StepAdvances
  <2> QED BY DEF OneAdvances, Advance, Held, QueueTypeOK
<1> QED
  BY <1>1, TypeCorrect, PTL DEF QueueSpec, TerminalIsAbsorbing

\* A job belongs to the worker it was first handed to, for good.
THEOREM HandedOnce == QueueSpec => NeverHandedTwice
<1> DEFINE Keeps == \A j \in Job : jobs[j].worker # None => jobs'[j].worker = jobs[j].worker
<1>1. QueueTypeOK /\ RowConsistent /\ [QueueNext]_queueVars => [Keeps]_jobs
  <2> SUFFICES ASSUME QueueTypeOK, RowConsistent, OneAdvances, NEW j \in Job,
                      jobs[j].worker # None
               PROVE  jobs'[j].worker = jobs[j].worker
    BY NextIsStep, StepAdvances
  <2>1. jobs[j].state \in Held \cup {"TERMINAL"} /\ jobs[j] \in JobRow
    BY DEF RowConsistent, QueueTypeOK
  <2>2. ASSUME NEW new \in JobRow, Advance(jobs[j], new)
        PROVE  new.worker = jobs[j].worker
    BY <2>1, <2>2 DEF Advance, Held, Settle, JobRow
  <2> QED BY <2>2 DEF OneAdvances, QueueTypeOK
<1> QED
  BY <1>1, TypeCorrect, RowsConsistent, PTL DEF QueueSpec, NeverHandedTwice

\* A reapStale selects held rows, and no step takes a held row back.
LEMMA SelectionStep ==
  ASSUME NEW S \in SUBSET Nat, NEW R \in SUBSET Nat,
         QueueTypeOK, SelectedWasHeld, [QueueStep(S, R)]_queueVars
  PROVE  SelectedWasHeld'
<1> SUFFICES ASSUME NEW w \in Worker, NEW j \in stale'[w]
             PROVE  jobs'[j].state \in Held \cup {"TERMINAL"}
  BY DEF SelectedWasHeld
<1>1. j \in Job /\ jobs[j].state \in Held \cup {"TERMINAL"}
  <2>1. CASE j \in stale[w]
    BY <2>1 DEF SelectedWasHeld, QueueTypeOK
  <2>2. CASE j \notin stale[w]
    <3>1. j \in Expired
      BY <2>2 DEF QueueStep, queueVars, Enqueue, Claim, MarkRunning, Heartbeat, Finish,
                  ReapUpdate, ReapSelect, LoseReap, Tick, QueueTypeOK
    <3> QED BY <3>1 DEF Expired, IsHeld
  <2> QED BY <2>1, <2>2
<1>2. OneAdvances /\ jobs[j] \in JobRow
  BY <1>1, StepAdvances DEF QueueTypeOK
<1>3. ASSUME NEW new \in JobRow, Advance(jobs[j], new)
      PROVE  new.state \in Held \cup {"TERMINAL"}
  BY <1>1, <1>2, <1>3 DEF Advance, Held, Settle, JobRow
<1> QED BY <1>1, <1>2, <1>3 DEF OneAdvances, QueueTypeOK

\* What a reapStale holds in memory was handed out before it was selected.
THEOREM ReapsOnlyHeld == QueueSpec => []SelectedWasHeld
<1>1. QueueInit => SelectedWasHeld
  BY DEF QueueInit, SelectedWasHeld
<1>2. QueueTypeOK /\ SelectedWasHeld /\ [QueueNext]_queueVars => SelectedWasHeld'
  BY NextIsStep, SelectionStep
<1> QED
  BY <1>1, <1>2, TypeCorrect, PTL DEF QueueSpec

-----------------------------------------------------------------------------
(* The queue implements JobLifecycle.                                       *)

phaseOf(row)   == Phases[row.state]
verdictOf(row) == IF row.state = "TERMINAL" THEN <<row.reason, row.outcome>> ELSE None

\* The refinement mapping, written row by row.
LEMMA Mapping ==
  /\ Lifecycle!Init <=> /\ [j \in Job |-> phaseOf(jobs[j])]   = [j \in Job |-> "absent"]
                        /\ [j \in Job |-> jobs[j].worker]     = [j \in Job |-> None]
                        /\ [j \in Job |-> verdictOf(jobs[j])] = [j \in Job |-> None]
  /\ \A j \in Job :
       Lifecycle!Schedule(j) <=>
         /\ [k \in Job |-> phaseOf(jobs[k])][j] = "absent"
         /\ [k \in Job |-> phaseOf(jobs'[k])]
              = [[k \in Job |-> phaseOf(jobs[k])] EXCEPT ![j] = "waiting"]
         /\ [k \in Job |-> jobs'[k].worker]     = [k \in Job |-> jobs[k].worker]
         /\ [k \in Job |-> verdictOf(jobs'[k])] = [k \in Job |-> verdictOf(jobs[k])]
  /\ \A j \in Job, w \in Worker :
       Lifecycle!Hand(j, w) <=>
         /\ [k \in Job |-> phaseOf(jobs[k])][j] = "waiting"
         /\ [k \in Job |-> phaseOf(jobs'[k])]
              = [[k \in Job |-> phaseOf(jobs[k])] EXCEPT ![j] = "held"]
         /\ [k \in Job |-> jobs'[k].worker]
              = [[k \in Job |-> jobs[k].worker] EXCEPT ![j] = w]
         /\ [k \in Job |-> verdictOf(jobs'[k])] = [k \in Job |-> verdictOf(jobs[k])]
  /\ \A j \in Job, v \in LegalVerdict :
       Lifecycle!Settle(j, v) <=>
         /\ [k \in Job |-> phaseOf(jobs[k])][j] = "held"
         /\ [k \in Job |-> phaseOf(jobs'[k])]
              = [[k \in Job |-> phaseOf(jobs[k])] EXCEPT ![j] = "settled"]
         /\ [k \in Job |-> verdictOf(jobs'[k])]
              = [[k \in Job |-> verdictOf(jobs[k])] EXCEPT ![j] = v]
         /\ [k \in Job |-> jobs'[k].worker] = [k \in Job |-> jobs[k].worker]
  /\ (UNCHANGED Lifecycle!vars) <=>
       /\ [k \in Job |-> phaseOf(jobs'[k])]   = [k \in Job |-> phaseOf(jobs[k])]
       /\ [k \in Job |-> jobs'[k].worker]     = [k \in Job |-> jobs[k].worker]
       /\ [k \in Job |-> verdictOf(jobs'[k])] = [k \in Job |-> verdictOf(jobs[k])]
BY DEF Lifecycle!Init, Lifecycle!Schedule, Lifecycle!Hand, Lifecycle!Settle, Lifecycle!vars,
       phaseOf, verdictOf

\* A row that advances is one step of the lifecycle, or a change it cannot see.
LEMMA AdvanceImplements ==
  ASSUME QueueTypeOK, RowConsistent, NEW j \in Job, NEW new \in JobRow,
         Advance(jobs[j], new), jobs' = [jobs EXCEPT ![j] = new]
  PROVE  Lifecycle!Next \/ UNCHANGED Lifecycle!vars
<1> DEFINE old == jobs[j]
<1>1. old \in JobRow /\ jobs'[j] = new /\ \A k \in Job \ {j} : jobs'[k] = jobs[k]
  BY DEF QueueTypeOK
<1>2. [k \in Job |-> phaseOf(jobs'[k])]
        = [[k \in Job |-> phaseOf(jobs[k])] EXCEPT ![j] = phaseOf(new)]
  <2>1. \A k \in Job : phaseOf(jobs'[k]) = IF k = j THEN phaseOf(new) ELSE phaseOf(jobs[k])
    BY <1>1
  <2> QED BY <2>1
<1>3. [k \in Job |-> jobs'[k].worker] = [[k \in Job |-> jobs[k].worker] EXCEPT ![j] = new.worker]
  <2>1. \A k \in Job : jobs'[k].worker = IF k = j THEN new.worker ELSE jobs[k].worker
    BY <1>1
  <2> QED BY <2>1
<1>4. [k \in Job |-> verdictOf(jobs'[k])]
        = [[k \in Job |-> verdictOf(jobs[k])] EXCEPT ![j] = verdictOf(new)]
  <2>1. \A k \in Job : verdictOf(jobs'[k]) = IF k = j THEN verdictOf(new) ELSE verdictOf(jobs[k])
    BY <1>1
  <2> QED BY <2>1
<1>5. ASSUME phaseOf(new) = phaseOf(old)
      PROVE  [k \in Job |-> phaseOf(jobs'[k])] = [k \in Job |-> phaseOf(jobs[k])]
  BY <1>2, <1>5
<1>6. ASSUME new.worker = old.worker
      PROVE  [k \in Job |-> jobs'[k].worker] = [k \in Job |-> jobs[k].worker]
  BY <1>3, <1>6
<1>7. ASSUME verdictOf(new) = verdictOf(old)
      PROVE  [k \in Job |-> verdictOf(jobs'[k])] = [k \in Job |-> verdictOf(jobs[k])]
  BY <1>4, <1>7
<1>8. CASE new = old
  <2>1. jobs' = jobs
    BY <1>8 DEF QueueTypeOK
  <2> QED BY <2>1, Mapping
<1>9. CASE old.state = "ABSENT" /\ new.state = "PENDING" /\ new.worker = None
  <2>1. /\ phaseOf(old) = "absent" /\ phaseOf(new) = "waiting"
        /\ verdictOf(old) = None /\ verdictOf(new) = None /\ old.worker = None
    BY <1>9 DEF phaseOf, verdictOf, Phases, RowConsistent, Held
  <2>2. Lifecycle!Schedule(j)
    BY <1>9, <1>2, <1>6, <1>7, <2>1, Mapping
  <2> QED BY <2>2 DEF Lifecycle!Next
<1>10. CASE old.state = "PENDING" /\ new.state = "CLAIMED" /\ new.worker \in Worker
  <2>1. /\ phaseOf(old) = "waiting" /\ phaseOf(new) = "held"
        /\ verdictOf(old) = None /\ verdictOf(new) = None
    BY <1>10 DEF phaseOf, verdictOf, Phases
  <2>2. Lifecycle!Hand(j, new.worker)
    BY <1>10, <1>2, <1>3, <1>7, <2>1, Mapping
  <2> QED BY <1>10, <2>2 DEF Lifecycle!Next
<1>11. CASE old.state \in Held /\ new.state \in Held /\ new.worker = old.worker
  <2>1. /\ phaseOf(new) = phaseOf(old)
        /\ verdictOf(old) = None /\ verdictOf(new) = None
    BY <1>11 DEF phaseOf, verdictOf, Phases, Held
  <2> QED BY <1>11, <1>5, <1>6, <1>7, <2>1, Mapping
<1>12. ASSUME old.state \in Held, NEW reason \in Reason, NEW outcome \in Outcome,
             isLegalTerminalOutcome(reason, outcome), new = Settle(old, reason, outcome)
      PROVE  Lifecycle!Next
  <2> DEFINE v == <<reason, outcome>>
  <2>1. v \in LegalVerdict
    BY <1>12 DEF LegalVerdict
  <2>2. /\ new.state = "TERMINAL" /\ new.reason = reason /\ new.outcome = outcome
        /\ new.worker = old.worker
    <3> HIDE DEF old
    <3> QED BY <1>1, <1>12 DEF Settle, JobRow
  <2>3. /\ phaseOf(old) = "held" /\ phaseOf(new) = "settled"
        /\ verdictOf(old) = None /\ verdictOf(new) = v
    BY <1>12, <2>2 DEF phaseOf, verdictOf, Phases, Held
  <2>4. Lifecycle!Settle(j, v)
    <3>1. [k \in Job |-> phaseOf(jobs[k])][j] = "held"
      BY <2>3
    <3>2. [k \in Job |-> phaseOf(jobs'[k])]
            = [[k \in Job |-> phaseOf(jobs[k])] EXCEPT ![j] = "settled"]
      BY <1>2, <2>3
    <3>3. [k \in Job |-> verdictOf(jobs'[k])]
            = [[k \in Job |-> verdictOf(jobs[k])] EXCEPT ![j] = v]
      <4> HIDE DEF v
      <4> QED BY <1>4, <2>3
    <3>4. [k \in Job |-> jobs'[k].worker] = [k \in Job |-> jobs[k].worker]
      BY <1>6, <2>2
    <3> HIDE DEF v
    <3> QED BY <2>1, <3>1, <3>2, <3>3, <3>4, Mapping
  <2> QED BY <2>1, <2>4 DEF Lifecycle!Next
<1> QED
  BY <1>8, <1>9, <1>10, <1>11, <1>12 DEF Advance

\* The queue keeps every promise of the abstract job lifecycle.
THEOREM QueueImplements == QueueSpec => ImplementsLifecycle
<1>1. QueueInit => Lifecycle!Init
  BY Mapping DEF QueueInit, AbsentRow, phaseOf, verdictOf, Phases
<1>2. QueueTypeOK /\ RowConsistent /\ [QueueNext]_queueVars => [Lifecycle!Next]_(Lifecycle!vars)
  <2> SUFFICES ASSUME QueueTypeOK, RowConsistent, OneAdvances
               PROVE  Lifecycle!Next \/ UNCHANGED Lifecycle!vars
    BY NextIsStep, StepAdvances
  <2>1. CASE jobs' = jobs
    BY <2>1, Mapping
  <2> QED BY <2>1, AdvanceImplements DEF OneAdvances
<1> QED
  BY <1>1, <1>2, TypeCorrect, RowsConsistent, PTL
  DEF QueueSpec, ImplementsLifecycle, Lifecycle!Spec

-----------------------------------------------------------------------------
(* The command.                                                            *)

Executing_PC == {"number", "markRunning", "execute", "renumber", "seal", "finish"}
Retrying_PC  == {"retryRead", "retrySeq", "retryInsert"}

\* r: the locals of process p, table: the rows of the queue, sealed: of runs.
LocalOK(p, r, table, sealed) ==
  /\ r.pc \in {"enqueueSeq", "enqueueInsert"} => r.exp \in Experiment /\ r.todo # {}
  /\ r.pc \in Executing_PC \cup Retrying_PC => r.job \in Job /\ r.left > 0
  /\ r.pc \in Executing_PC \cup {"retryRead"} => table[r.job].worker = p
  /\ r.pc \in {"retrySeq", "retryInsert"} => r.att \in Attempt
  /\ r.pc \in {"renumber", "seal", "finish"} => r.outcome \in Outcome
  /\ r.pc \in {"execute", "renumber", "seal", "finish"} => table[r.job].runId = r.run
  /\ r.pc = "finish" => \E row \in sealed : row.job = r.job /\ row.id = r.run /\ row.outcome = r.outcome

IInv ==
  /\ TypeOK
  /\ RowConsistent
  /\ \A p \in Worker : LocalOK(p, proc[p], jobs, runs)
  /\ SealedBeforeSettled

-----------------------------------------------------------------------------
(* Lemmas about the operators.                                             *)

\* Every nonempty set of numbers has a least one, and one that is bounded a
\* greatest one.
LEMMA MinOfNumbers ==
  ASSUME NEW S \in SUBSET Nat, S # {} PROVE Min(S) \in S
<1>1. PICK n \in S : \A m \in S : ~(<<m, n>> \in OpToRel(<, Nat))
  BY NatLessThanWellFounded, WFMin
<1>2. \A m \in S : n <= m
  <2> SUFFICES ASSUME NEW m \in S PROVE n <= m
    OBVIOUS
  <2>1. <<m, n>> \notin OpToRel(<, Nat)
    BY <1>1
  <2> QED
    BY <2>1 DEF OpToRel
<1> QED
  BY <1>2 DEF Min

LEMMA MaxOfNumbers ==
  ASSUME NEW N \in Nat, NEW S \in SUBSET (0 .. N), S # {}
  PROVE  Max(S) \in S /\ \A x \in S : Max(S) >= x
<1> DEFINE D == {N - s : s \in S}
<1>1. D \in SUBSET Nat /\ D # {}
  <2>1. \A s \in S : N - s \in Nat
    OBVIOUS
  <2>2. PICK s \in S : N - s \in D
    OBVIOUS
  <2> QED
    BY <2>1, <2>2
<1>2. PICK n \in D : \A m \in D : ~(<<m, n>> \in OpToRel(<, Nat))
  BY <1>1, NatLessThanWellFounded, WFMin
<1>3. PICK s \in S : n = N - s
  BY <1>2
<1>4. \A x \in S : s >= x
  <2> SUFFICES ASSUME NEW x \in S PROVE s >= x
    OBVIOUS
  <2>1. N - x \in D /\ N - x \in Nat /\ n \in Nat
    BY <1>1
  <2>2. <<N - x, n>> \notin OpToRel(<, Nat)
    BY <1>2, <2>1
  <2>3. ~(N - x < n)
    BY <2>1, <2>2 DEF OpToRel
  <2> QED
    BY <1>3, <2>3
<1> QED
  BY <1>4 DEF Max

\* A work tuple is a job, and a job is its work tuple.
LEMMA JobTuples ==
  /\ \A e \in Experiment, r \in Repetition, a \in Attempt : deriveJobId(e, r, a) \in Job
  /\ \A j \in Job : /\ j.exp \in Experiment /\ j.rep \in Repetition /\ j.att \in Attempt
                    /\ deriveJobId(j.exp, j.rep, j.att) = j
                    /\ jobInv(j) \in Investigation
  BY JobAssumption, ExperimentAssumption DEF deriveJobId, jobInv

-----------------------------------------------------------------------------
(* What the operations of the queue do to the rows.                        *)

\* A row that was handed out keeps its worker and its run id.
RowsKeep ==
  \A k \in Job : jobs[k].worker # None => jobs'[k].worker = jobs[k].worker /\ jobs'[k].runId = jobs[k].runId

\* Nothing is settled but by the reaper.
NoVerdict ==
  \A k \in Job : jobs'[k].state = "TERMINAL" /\ jobs'[k].reason # "INTERRUPTED" => jobs'[k] = jobs[k]

LEMMA SameRows == ASSUME jobs' = jobs PROVE RowsKeep /\ NoVerdict
  BY DEF RowsKeep, NoVerdict

LEMMA EnqueueRows ==
  ASSUME QueueTypeOK, RowConsistent, NEW j \in Job, NEW seq, NEW prev, Enqueue(j, seq, prev)
  PROVE  RowsKeep /\ NoVerdict
<1> DEFINE new == [AbsentRow EXCEPT !.state = "PENDING", !.seq = seq, !.prev = prev]
<1>1. jobs' = [jobs EXCEPT ![j] = new] /\ jobs[j].state = "ABSENT" /\ jobs \in [Job -> JobRow]
  BY DEF Enqueue, Present, QueueTypeOK
<1>2. new.state = "PENDING" /\ jobs[j].worker = None
  BY <1>1 DEF AbsentRow, RowConsistent, Held
<1> HIDE DEF new
<1> QED
  BY <1>1, <1>2 DEF RowsKeep, NoVerdict

LEMMA ClaimRows ==
  ASSUME QueueTypeOK, RowConsistent, NEW w \in Worker, NEW j \in Job, Claim(w, j)
  PROVE  RowsKeep /\ NoVerdict /\ jobs'[j].worker = w
<1> DEFINE row == jobs[j]
           new == [row EXCEPT !.state = "CLAIMED", !.worker = w, !.lease = now + LeaseMs]
<1>1. jobs' = [jobs EXCEPT ![j] = new] /\ row.state = "PENDING" /\ row \in JobRow /\ jobs \in [Job -> JobRow]
  BY DEF Claim, Claimable, IsPending, QueueTypeOK
<1>2. row.worker = None
  BY <1>1 DEF RowConsistent, Held
<1>3. new.state = "CLAIMED" /\ new.worker = w
  <2> HIDE DEF row
  <2> QED BY <1>1 DEF JobRow
<1> HIDE DEF new
<1> QED
  BY <1>1, <1>2, <1>3 DEF RowsKeep, NoVerdict

\* Settling writes the verdict and clears the lease, and that is all.
LEMMA SettleWrites ==
  ASSUME NEW row \in JobRow, NEW reason, NEW outcome
  PROVE  LET new == Settle(row, reason, outcome)
         IN /\ new.state = "TERMINAL" /\ new.reason = reason /\ new.outcome = outcome
            /\ new.worker = row.worker /\ new.runId = row.runId
  BY DEF Settle, JobRow

LEMMA ReapRows ==
  ASSUME QueueTypeOK, NEW w \in Worker, NEW j \in Job, ReapUpdate(w, j)
  PROVE  RowsKeep /\ NoVerdict
<1>1. CASE CanReap(j)
  <2> DEFINE new == Settle(jobs[j], "INTERRUPTED", "INTERRUPTED")
  <2>1. jobs' = [jobs EXCEPT ![j] = new] /\ jobs \in [Job -> JobRow]
    BY <1>1 DEF ReapUpdate, QueueTypeOK
  <2>2. new.reason = "INTERRUPTED" /\ new.worker = jobs[j].worker /\ new.runId = jobs[j].runId
    BY <2>1, SettleWrites
  <2> HIDE DEF new
  <2> QED
    BY <2>1, <2>2 DEF RowsKeep, NoVerdict
<1>2. CASE ~CanReap(j)
  BY <1>2, SameRows DEF ReapUpdate
<1> QED
  BY <1>1, <1>2

LEMMA FinishRows ==
  ASSUME QueueTypeOK, NEW j \in Job, NEW reason, NEW outcome, Finish(j, reason, outcome)
  PROVE  /\ RowsKeep
         /\ \A k \in Job : k # j => jobs'[k] = jobs[k]
         /\ jobs'[j].outcome = outcome /\ jobs'[j].runId = jobs[j].runId
<1> DEFINE new == Settle(jobs[j], reason, outcome)
<1>1. jobs' = [jobs EXCEPT ![j] = new] /\ jobs \in [Job -> JobRow]
  BY DEF Finish, QueueTypeOK
<1>2. new.outcome = outcome /\ new.worker = jobs[j].worker /\ new.runId = jobs[j].runId
  BY <1>1, SettleWrites
<1> HIDE DEF new
<1> QED
  BY <1>1, <1>2 DEF RowsKeep

LEMMA MarkRunningRows ==
  ASSUME QueueTypeOK, NEW w \in Worker, NEW j \in Job, NEW run, MarkRunning(w, j, run)
  PROVE  /\ \A k \in Job : k # j => jobs'[k] = jobs[k]
         /\ jobs'[j].worker = jobs[j].worker /\ jobs'[j].runId = run /\ jobs[j].worker = w
         /\ NoVerdict
<1> DEFINE row == jobs[j]
           new == [row EXCEPT !.state = "RUNNING", !.runId = run]
<1>1. jobs' = [jobs EXCEPT ![j] = new] /\ row \in JobRow /\ jobs \in [Job -> JobRow] /\ row.worker = w
  BY DEF MarkRunning, CanMarkRunning, QueueTypeOK
<1>2. new.state = "RUNNING" /\ new.worker = row.worker /\ new.runId = run
  <2> HIDE DEF row
  <2> QED BY <1>1 DEF JobRow
<1> HIDE DEF new
<1> QED
  BY <1>1, <1>2 DEF NoVerdict

-----------------------------------------------------------------------------
(* How a step of one process is put together.                              *)

\* The other processes know what they knew.
LEMMA OthersKeep ==
  ASSUME IInv, NEW p \in Worker, RowsKeep, runs \subseteq runs'
  PROVE  \A q \in Worker : q # p => LocalOK(q, proc[q], jobs', runs')
<1> SUFFICES ASSUME NEW q \in Worker PROVE LocalOK(q, proc[q], jobs', runs')
  OBVIOUS
<1>1. LocalOK(q, proc[q], jobs, runs) /\ q # None
  BY NoneAssumption DEF IInv
<1>2. proc[q].pc \in Executing_PC \cup {"retryRead"} =>
        jobs'[proc[q].job].worker = jobs[proc[q].job].worker /\ jobs'[proc[q].job].runId = jobs[proc[q].job].runId
  BY <1>1 DEF LocalOK, RowsKeep, Retrying_PC
<1> QED
  BY <1>1, <1>2 DEF LocalOK, Executing_PC

\* What was sealed before it was settled is, whatever is sealed besides.
LEMMA SealedStays ==
  ASSUME SealedBeforeSettled, NoVerdict, runs \subseteq runs' PROVE SealedBeforeSettled'
  BY DEF SealedBeforeSettled, NoVerdict

\* A process that goes on with the locals new.
Becomes(p, new) ==
  /\ proc' = [proc EXCEPT ![p] = new]
  /\ new \in Process /\ LocalOK(p, new, jobs', runs')

\* The counters and the table of runs keep their types.
CountersOK == seqs' \in [Investigation -> [Counter -> Nat]] /\ runs' \subseteq RunRow /\ started' \in Nat

LEMMA Composed ==
  ASSUME IInv, NEW p \in Worker, NEW new, Becomes(p, new), CountersOK,
         \A q \in Worker : q # p => LocalOK(q, proc[q], jobs', runs'),
         SealedBeforeSettled', QueueTypeOK', RowConsistent'
  PROVE  IInv'
<1>1. proc \in [Worker -> Process]
  BY DEF IInv, TypeOK
<1>2. proc' \in [Worker -> Process] /\ proc'[p] = new /\ \A q \in Worker : q # p => proc'[q] = proc[q]
  BY <1>1 DEF Becomes
<1>3. \A q \in Worker : LocalOK(q, proc'[q], jobs', runs')
  BY <1>2 DEF Becomes
<1> QED
  BY <1>2, <1>3 DEF IInv, TypeOK, CountersOK

LEMMA Assemble ==
  ASSUME IInv, NEW p \in Worker, NEW new, Becomes(p, new), CountersOK, runs \subseteq runs',
         RowsKeep, NoVerdict, QueueTypeOK', RowConsistent'
  PROVE  IInv'
<1>1. SealedBeforeSettled'
  BY SealedStays DEF IInv
<1> QED
  BY <1>1, OthersKeep, Composed

-----------------------------------------------------------------------------
(* The steps that leave the queue alone.                                   *)

\* Whatever a command does to the rows, it does through the queue.
LEMMA QueueKept ==
  ASSUME IInv, [QueueStep(Nat, Nat)]_queueVars PROVE QueueTypeOK' /\ RowConsistent'
  BY TypeStep, ConsistentStep DEF IInv, TypeOK

\* What the invariant says of one process.
LEMMA Locals ==
  ASSUME IInv, NEW p \in Worker
  PROVE  proc[p] \in Process /\ LocalOK(p, proc[p], jobs, runs)
  BY DEF IInv, TypeOK

LEMMA LocalStep ==
  ASSUME IInv, NEW p \in Worker, NEW new \in Process, proc' = [proc EXCEPT ![p] = new],
         LocalOK(p, new, jobs, runs), UNCHANGED <<jobs, now, runs>>, stale' \in [Worker -> SUBSET Job],
         seqs' \in [Investigation -> [Counter -> Nat]], started' \in Nat
  PROVE  IInv'
<1>1. CountersOK /\ RowsKeep /\ NoVerdict /\ runs \subseteq runs' /\ Becomes(p, new)
  BY SameRows DEF CountersOK, Becomes, IInv, TypeOK
<1>2. QueueTypeOK' /\ RowConsistent'
  BY DEF IInv, TypeOK, QueueTypeOK, RowConsistent
<1> QED
  BY <1>1, <1>2, Assemble

\* The types of the rest of the state.
LEMMA RestTyped ==
  ASSUME IInv
  PROVE  /\ stale \in [Worker -> SUBSET Job] /\ seqs \in [Investigation -> [Counter -> Nat]]
         /\ started \in Nat /\ runs \subseteq RunRow
  BY DEF IInv, TypeOK, QueueTypeOK

LEMMA OffOK ==
  ASSUME NEW p \in Worker, NEW table, NEW sealed PROVE Off \in Process /\ LocalOK(p, Off, table, sealed)
  BY DEF Off, Process, PC, LocalOK, Executing_PC, Retrying_PC

\* A process may stop anywhere.
LEMMA StopStep ==
  ASSUME IInv, NEW p \in Worker, proc' = [proc EXCEPT ![p] = Off],
         UNCHANGED <<jobs, now, seqs, runs, started>>, stale' \in [Worker -> SUBSET Job]
  PROVE  IInv'
  BY LocalStep, OffOK, RestTyped

LEMMA Stops ==
  ASSUME IInv, NEW p \in Worker,
         \/ EnqueueCollides(p) \/ DrainReturns(p) \/ StartJobFails(p)
         \/ SealCollides(p) \/ FinishJobFails(p) \/ Abandon(p)
  PROVE  IInv'
<1>1. proc' = [proc EXCEPT ![p] = Off] /\ UNCHANGED <<jobs, now, seqs, runs, started>>
  BY DEF EnqueueCollides, DrainReturns, StartJobFails, SealCollides, FinishJobFails, Abandon
<1>2. stale' = stale \/ stale' = [stale EXCEPT ![p] = {}]
  BY DEF EnqueueCollides, DrainReturns, StartJobFails, SealCollides, FinishJobFails, Abandon
<1> QED
  BY <1>1, <1>2, StopStep, RestTyped

\* A counter stays a number.
LEMMA Numbers ==
  ASSUME IInv, NEW i \in Investigation, NEW c \in Counter, Bump(i, c)
  PROVE  NextNumber(i, c) \in Nat /\ seqs' \in [Investigation -> [Counter -> Nat]]
  BY RestTyped DEF Bump, NextNumber

LEMMA StartRunStep ==
  ASSUME IInv, NEW p \in Worker, NEW e \in Experiment, NEW n \in 1 .. MaxRepetitions, StartRun(p, e, n)
  PROVE  IInv'
<1> DEFINE todo == { r \in 0 .. n - 1 : ~Present(deriveJobId(e, r, 0)) }
           new  == [Off EXCEPT !.pc = IF todo = {} THEN "reap" ELSE "enqueueSeq",
                               !.exp = e, !.todo = todo, !.left = n]
<1>1. proc' = [proc EXCEPT ![p] = new] /\ UNCHANGED <<jobs, now, stale, seqs, runs>> /\ started' = started + 1
  BY DEF StartRun
<1>2. todo \subseteq Repetition /\ n \in Nat
  BY BoundsAssumption DEF Repetition
<1>3. new \in Process /\ LocalOK(p, new, jobs, runs)
  <2> HIDE DEF todo
  <2> QED BY <1>2 DEF Off, Process, PC, LocalOK, Executing_PC, Retrying_PC
<1>4. started' \in Nat
  BY <1>1, RestTyped
<1> HIDE DEF todo, new
<1> QED
  BY <1>1, <1>3, <1>4, LocalStep, RestTyped

LEMMA EnqueueSeqStep ==
  ASSUME IInv, NEW p \in Worker, EnqueueSeq(p) PROVE IInv'
<1> DEFINE r == proc[p]
           k == NextNumber(inv(p), "job")
           new == [r EXCEPT !.pc = "enqueueInsert", !.seq = k]
<1>1. r \in Process /\ LocalOK(p, r, jobs, runs) /\ r.pc = "enqueueSeq"
  BY Locals DEF EnqueueSeq, At
<1>2. inv(p) \in Investigation
  BY <1>1, ExperimentAssumption DEF LocalOK, inv
<1>3. k \in Nat /\ seqs' \in [Investigation -> [Counter -> Nat]]
  BY <1>2, Numbers DEF EnqueueSeq, Counter
<1>4. new \in Process /\ LocalOK(p, new, jobs, runs)
  <2> HIDE DEF r, k
  <2> QED BY <1>1, <1>3 DEF Process, PC, LocalOK, Executing_PC, Retrying_PC
<1>5. proc' = [proc EXCEPT ![p] = new] /\ UNCHANGED <<jobs, now, stale, runs, started>>
  BY DEF EnqueueSeq
<1> HIDE DEF new
<1> QED
  BY <1>3, <1>4, <1>5, LocalStep, RestTyped

LEMMA NumberRunStep ==
  ASSUME IInv, NEW p \in Worker, NumberRun(p) PROVE IInv'
<1> DEFINE r == proc[p]
           k == NextNumber(jobInv(r.job), "run")
           new == [r EXCEPT !.pc = "markRunning", !.run = k, !.rowSeq = k]
<1>1. r \in Process /\ LocalOK(p, r, jobs, runs) /\ r.pc = "number"
  BY Locals DEF NumberRun, At
<1>2. jobInv(r.job) \in Investigation
  BY <1>1, JobTuples DEF LocalOK, Executing_PC
<1>3. k \in Nat /\ seqs' \in [Investigation -> [Counter -> Nat]]
  BY <1>2, Numbers DEF NumberRun, Counter
<1>4. new \in Process /\ LocalOK(p, new, jobs, runs)
  <2> HIDE DEF r, k
  <2> QED BY <1>1, <1>3 DEF Process, PC, LocalOK, Executing_PC, Retrying_PC
<1>5. proc' = [proc EXCEPT ![p] = new] /\ UNCHANGED <<jobs, now, stale, runs, started>>
  BY DEF NumberRun
<1> HIDE DEF new
<1> QED
  BY <1>3, <1>4, <1>5, LocalStep, RestTyped

LEMMA RenumberStep ==
  ASSUME IInv, NEW p \in Worker, Renumber(p) PROVE IInv'
<1> DEFINE r == proc[p]
           k == NextNumber(jobInv(r.job), "runSeq")
           new == [r EXCEPT !.pc = "seal", !.rowSeq = k]
<1>1. r \in Process /\ LocalOK(p, r, jobs, runs) /\ r.pc = "renumber"
  BY Locals DEF Renumber, At
<1>2. jobInv(r.job) \in Investigation
  BY <1>1, JobTuples DEF LocalOK, Executing_PC
<1>3. k \in Nat /\ seqs' \in [Investigation -> [Counter -> Nat]]
  BY <1>2, Numbers DEF Renumber, Counter
<1>4. new \in Process /\ LocalOK(p, new, jobs, runs)
  <2> HIDE DEF r, k
  <2> QED BY <1>1, <1>3 DEF Process, PC, LocalOK, Executing_PC, Retrying_PC
<1>5. proc' = [proc EXCEPT ![p] = new] /\ UNCHANGED <<jobs, now, stale, runs, started>>
  BY DEF Renumber
<1> HIDE DEF new
<1> QED
  BY <1>3, <1>4, <1>5, LocalStep, RestTyped

LEMMA RetrySeqStep ==
  ASSUME IInv, NEW p \in Worker, RetrySeq(p) PROVE IInv'
<1> DEFINE r == proc[p]
           k == NextNumber(jobInv(r.job), "job")
           new == [r EXCEPT !.pc = "retryInsert", !.seq = k]
<1>1. r \in Process /\ LocalOK(p, r, jobs, runs) /\ r.pc = "retrySeq"
  BY Locals DEF RetrySeq, At
<1>2. jobInv(r.job) \in Investigation
  BY <1>1, JobTuples DEF LocalOK, Retrying_PC
<1>3. k \in Nat /\ seqs' \in [Investigation -> [Counter -> Nat]]
  BY <1>2, Numbers DEF RetrySeq, Counter
<1>4. new \in Process /\ LocalOK(p, new, jobs, runs)
  <2> HIDE DEF r, k
  <2> QED BY <1>1, <1>3 DEF Process, PC, LocalOK, Executing_PC, Retrying_PC
<1>5. proc' = [proc EXCEPT ![p] = new] /\ UNCHANGED <<jobs, now, stale, runs, started>>
  BY DEF RetrySeq
<1> HIDE DEF new
<1> QED
  BY <1>3, <1>4, <1>5, LocalStep, RestTyped

\* Every outcome a run can be classified as is one of the enumeration.
LEMMA ExecuteStep ==
  ASSUME IInv, NEW p \in Worker, Execute(p) PROVE IInv'
<1> DEFINE r == proc[p]
<1>1. r \in Process /\ LocalOK(p, r, jobs, runs) /\ r.pc = "execute"
  BY Locals DEF Execute, At
<1>2. PICK o \in Outcome, label \in {"seal", "renumber"} :
        proc' = [proc EXCEPT ![p] = [@ EXCEPT !.pc = label, !.outcome = o]]
  BY ObservableAssumption DEF Execute, Outcome
<1> DEFINE new == [r EXCEPT !.pc = label, !.outcome = o]
<1>3. new \in Process /\ LocalOK(p, new, jobs, runs)
  <2> HIDE DEF r
  <2> QED BY <1>1, <1>2 DEF Process, PC, LocalOK, Executing_PC, Retrying_PC
<1>4. proc' = [proc EXCEPT ![p] = new] /\ UNCHANGED <<jobs, now, stale, seqs, runs, started>>
  BY <1>2 DEF Execute
<1> HIDE DEF new
<1> QED
  BY <1>3, <1>4, LocalStep, RestTyped

\* The attempt that has just ended is among those that are listed, so the
\* number of the next one is within the limit or the retry is dropped.
LEMMA RetryReadStep ==
  ASSUME IInv, NEW p \in Worker, RetryRead(p) PROVE IInv'
<1> DEFINE r == proc[p]
           done == Attempts(r.job.exp, r.job.rep)
           next == Max(done) + 1
<1>1. r \in Process /\ LocalOK(p, r, jobs, runs) /\ r.pc = "retryRead"
  BY Locals DEF RetryRead, At
<1>2. r.job \in Job /\ jobs[r.job].worker # None
  BY <1>1, NoneAssumption DEF LocalOK, Retrying_PC
<1>3. Present(r.job)
  BY <1>2 DEF IInv, RowConsistent, Present, Held
<1>4. done \in SUBSET (0 .. MaxRetries) /\ done # {} /\ MaxRetries \in Nat
  BY <1>2, <1>3, JobTuples, BoundsAssumption DEF Attempts, Attempt
<1>5. next \in Nat
  <2> HIDE DEF done
  <2>1. Max(done) \in 0 .. MaxRetries
    BY <1>4, MaxOfNumbers
  <2> QED
    BY <1>4, <2>1
<1> HIDE DEF next
<1>6. CASE next > MaxRetries
  <2> DEFINE new == [r EXCEPT !.pc = "claim", !.job = None, !.att = 0, !.seq = 0,
                              !.outcome = None, !.run = 0, !.rowSeq = 0]
  <2>1. new \in Process /\ LocalOK(p, new, jobs, runs)
    <3> HIDE DEF r
    <3> QED BY <1>1 DEF Process, PC, LocalOK, Executing_PC, Retrying_PC
  <2>2. proc' = [proc EXCEPT ![p] = new] /\ UNCHANGED <<jobs, now, stale, seqs, runs, started>>
    BY <1>6 DEF RetryRead, Resume, next
  <2> HIDE DEF new
  <2> QED
    BY <2>1, <2>2, LocalStep, RestTyped
<1>7. CASE ~(next > MaxRetries)
  <2> DEFINE new == [r EXCEPT !.pc = "retrySeq", !.att = next]
  <2>1. next \in Attempt
    BY <1>4, <1>5, <1>7 DEF Attempt
  <2>2. new \in Process /\ LocalOK(p, new, jobs, runs)
    <3> HIDE DEF r
    <3> QED BY <1>1, <1>5, <2>1 DEF Process, PC, LocalOK, Executing_PC, Retrying_PC
  <2>3. proc' = [proc EXCEPT ![p] = new] /\ UNCHANGED <<jobs, now, stale, seqs, runs, started>>
    BY <1>7 DEF RetryRead, next
  <2> HIDE DEF new
  <2> QED
    BY <2>2, <2>3, LocalStep, RestTyped
<1> QED
  BY <1>6, <1>7

-----------------------------------------------------------------------------
(* The steps that write rows.                                              *)

\* A step of the queue that keeps what was handed out, and settles nothing
\* but by the reaper, is all right if the process goes on with sound locals.
LEMMA QueueTurn ==
  ASSUME IInv, NEW p \in Worker, NEW new \in Process, proc' = [proc EXCEPT ![p] = new],
         LocalOK(p, new, jobs', runs), UNCHANGED <<seqs, runs, started>>,
         QueueStep(Nat, Nat), RowsKeep, NoVerdict
  PROVE  IInv'
<1>1. QueueTypeOK' /\ RowConsistent'
  BY QueueKept
<1>2. CountersOK /\ Becomes(p, new) /\ runs \subseteq runs'
  BY RestTyped DEF CountersOK, Becomes
<1> QED
  BY <1>1, <1>2, Assemble

LEMMA EnqueueInsertStep ==
  ASSUME IInv, NEW p \in Worker, EnqueueInsert(p) PROVE IInv'
<1> DEFINE r    == proc[p]
           rep  == Min(r.todo)
           rest == r.todo \ {rep}
           j    == deriveJobId(r.exp, rep, 0)
           new  == [r EXCEPT !.todo = rest, !.seq = 0, !.pc = IF rest = {} THEN "reap" ELSE "enqueueSeq"]
<1>1. r \in Process /\ LocalOK(p, r, jobs, runs) /\ r.pc = "enqueueInsert"
  BY Locals DEF EnqueueInsert, At
<1>2. r.exp \in Experiment /\ r.todo # {} /\ r.todo \subseteq Repetition /\ r.seq \in Nat
  BY <1>1 DEF LocalOK, Process
<1>3. Repetition \subseteq Nat
  BY BoundsAssumption DEF Repetition
<1>4. rep \in Repetition /\ 0 \in Attempt
  <2> HIDE DEF r
  <2>1. rep \in r.todo
    BY <1>2, <1>3, MinOfNumbers
  <2> QED
    BY <1>2, <2>1, BoundsAssumption DEF Attempt
<1>5. j \in Job
  BY <1>2, <1>4, JobTuples
<1>6. Enqueue(j, r.seq, None)
  BY DEF EnqueueInsert
<1>7. QueueStep(Nat, Nat) /\ RowsKeep /\ NoVerdict
  <2> HIDE DEF j, r
  <2>1. RowsKeep /\ NoVerdict
    BY <1>5, <1>6, EnqueueRows DEF IInv, TypeOK
  <2> QED
    BY <1>2, <1>5, <1>6, <2>1 DEF QueueStep
<1>8. proc' = [proc EXCEPT ![p] = new] /\ UNCHANGED <<seqs, runs, started>>
  BY DEF EnqueueInsert
<1>9. new \in Process /\ LocalOK(p, new, jobs', runs)
  <2> HIDE DEF r, rep
  <2> QED BY <1>1, <1>2 DEF Process, PC, LocalOK, Executing_PC, Retrying_PC
<1> HIDE DEF new
<1> QED
  BY <1>7, <1>8, <1>9, QueueTurn

LEMMA RetryInsertStep ==
  ASSUME IInv, NEW p \in Worker, RetryInsert(p) PROVE IInv'
<1> DEFINE r   == proc[p]
           j   == RetryJob(p)
           new == [r EXCEPT !.pc = "claim", !.job = None, !.att = 0, !.seq = 0,
                            !.outcome = None, !.run = 0, !.rowSeq = 0]
<1>1. r \in Process /\ LocalOK(p, r, jobs, runs) /\ r.pc = "retryInsert"
  BY Locals DEF RetryInsert, At
<1>2. r.job \in Job /\ r.att \in Attempt /\ r.seq \in Nat
  BY <1>1 DEF LocalOK, Retrying_PC, Process
<1>3. j \in Job
  BY <1>2, JobTuples DEF RetryJob
<1>4. proc' = [proc EXCEPT ![p] = new] /\ UNCHANGED <<seqs, runs, started>>
  BY DEF RetryInsert, Resume
<1>5. new \in Process /\ \A table : LocalOK(p, new, table, runs)
  <2> HIDE DEF r
  <2> QED BY <1>1 DEF Process, PC, LocalOK, Executing_PC, Retrying_PC
<1> HIDE DEF new
<1>6. CASE Present(j)
  <2>1. UNCHANGED <<jobs, now, stale>>
    BY <1>6 DEF RetryInsert, queueVars
  <2> QED
    BY <1>4, <1>5, <2>1, LocalStep, RestTyped
<1>7. CASE ~Present(j)
  <2>1. Enqueue(j, r.seq, r.job)
    BY <1>7 DEF RetryInsert
  <2> HIDE DEF j, r
  <2>2. RowsKeep /\ NoVerdict
    BY <1>3, <2>1, EnqueueRows DEF IInv, TypeOK
  <2>3. QueueStep(Nat, Nat)
    BY <1>2, <1>3, <2>1 DEF QueueStep
  <2> QED
    BY <1>4, <1>5, <2>2, <2>3, QueueTurn
<1> QED
  BY <1>6, <1>7

LEMMA ReapStep ==
  ASSUME IInv, NEW p \in Worker, Reap(p) PROVE IInv'
<1> DEFINE r == proc[p]  new == [r EXCEPT !.pc = "claim"]
<1>1. r \in Process
  BY Locals
<1>2. new \in Process /\ LocalOK(p, new, jobs', runs)
  <2> HIDE DEF r
  <2> QED BY <1>1 DEF Process, PC, LocalOK, Executing_PC, Retrying_PC
<1>3. proc' = [proc EXCEPT ![p] = new] /\ UNCHANGED <<jobs, seqs, runs, started>> /\ ReapSelect(p)
  BY DEF Reap, Goto, ReapSelect
<1>4. QueueStep(Nat, Nat) /\ RowsKeep /\ NoVerdict
  BY <1>3, SameRows DEF QueueStep
<1> HIDE DEF new
<1> QED
  BY <1>2, <1>3, <1>4, QueueTurn

LEMMA ReapOneStep ==
  ASSUME IInv, NEW p \in Worker, ReapOne(p) PROVE IInv'
<1>1. PICK j \in stale[p] : ReapUpdate(p, j)
  BY DEF ReapOne
<1>2. j \in Job
  BY RestTyped
<1>3. RowsKeep /\ NoVerdict
  BY <1>1, <1>2, ReapRows DEF IInv, TypeOK
<1>4. QueueStep(Nat, Nat)
  BY <1>1, <1>2 DEF QueueStep
<1>5. proc[p] \in Process /\ proc[p].pc = "claim" /\ proc \in [Worker -> Process]
  BY DEF ReapOne, At, IInv, TypeOK
<1>6. proc' = [proc EXCEPT ![p] = proc[p]] /\ UNCHANGED <<seqs, runs, started>>
  BY <1>5 DEF ReapOne
<1>7. LocalOK(p, proc[p], jobs', runs)
  BY <1>5 DEF LocalOK, Executing_PC, Retrying_PC
<1> QED
  BY <1>3, <1>4, <1>5, <1>6, <1>7, QueueTurn

LEMMA ClaimStep ==
  ASSUME IInv, NEW p \in Worker, ClaimOne(p) PROVE IInv'
<1> DEFINE r == proc[p]
<1>1. r \in Process /\ r.left > 0
  BY Locals DEF ClaimOne, BelowMax
<1>2. PICK j \in Job : Claim(p, j) /\ proc' = [proc EXCEPT ![p] = [r EXCEPT !.pc = "number", !.job = j]]
  BY DEF ClaimOne
<1> DEFINE new == [r EXCEPT !.pc = "number", !.job = j]
<1>3. RowsKeep /\ NoVerdict /\ jobs'[j].worker = p
  BY <1>2, ClaimRows DEF IInv, TypeOK
<1>4. QueueStep(Nat, Nat)
  BY <1>2 DEF QueueStep
<1>5. new \in Process /\ LocalOK(p, new, jobs', runs)
  <2> HIDE DEF r
  <2> QED BY <1>1, <1>3 DEF Process, PC, LocalOK, Executing_PC, Retrying_PC
<1>6. proc' = [proc EXCEPT ![p] = new] /\ UNCHANGED <<seqs, runs, started>>
  BY <1>2 DEF ClaimOne
<1> HIDE DEF new
<1> QED
  BY <1>3, <1>4, <1>5, <1>6, QueueTurn

\* The run id of the job is overwritten; nobody else is executing that job,
\* because its row carries one name.
LEMMA StartJobStep ==
  ASSUME IInv, NEW p \in Worker, StartJob(p) PROVE IInv'
<1> DEFINE r == proc[p]  j == r.job  new == [r EXCEPT !.pc = "execute"]
<1>1. r \in Process /\ LocalOK(p, r, jobs, runs) /\ r.pc = "markRunning"
  BY Locals DEF StartJob, At
<1>2. j \in Job /\ r.run \in Nat
  BY <1>1 DEF LocalOK, Executing_PC, Process
<1>3. MarkRunning(p, j, r.run) /\ proc' = [proc EXCEPT ![p] = new] /\ UNCHANGED <<seqs, runs, started>>
  BY DEF StartJob, Goto
<1>4. /\ \A k \in Job : k # j => jobs'[k] = jobs[k]
      /\ jobs'[j].worker = p /\ jobs'[j].runId = r.run /\ jobs[j].worker = p
      /\ NoVerdict
  <2> HIDE DEF r, j
  <2> QED BY <1>2, <1>3, MarkRunningRows DEF IInv, TypeOK
<1>5. QueueTypeOK' /\ RowConsistent'
  <2> HIDE DEF r, j
  <2>1. QueueStep(Nat, Nat)
    BY <1>2, <1>3 DEF QueueStep
  <2> QED BY <2>1, QueueKept
<1>6. new \in Process /\ LocalOK(p, new, jobs', runs)
  <2>1. new.job = j /\ new.run = r.run /\ new.left = r.left /\ new.pc = "execute" /\ new \in Process
    <3> HIDE DEF r
    <3> QED BY <1>1 DEF Process, PC
  <2>2. r.left > 0
    BY <1>1 DEF LocalOK, Executing_PC
  <2> HIDE DEF new
  <2> QED BY <1>2, <1>4, <2>1, <2>2 DEF LocalOK, Executing_PC, Retrying_PC
<1>7. \A q \in Worker : q # p => LocalOK(q, proc[q], jobs', runs')
  <2> SUFFICES ASSUME NEW q \in Worker, q # p PROVE LocalOK(q, proc[q], jobs', runs')
    OBVIOUS
  <2>1. LocalOK(q, proc[q], jobs, runs) /\ runs' = runs
    BY <1>3, Locals
  <2>2. proc[q].pc \in Executing_PC \cup {"retryRead"} => jobs'[proc[q].job] = jobs[proc[q].job]
    BY <1>4, <2>1 DEF LocalOK, Retrying_PC
  <2> QED
    BY <2>1, <2>2 DEF LocalOK, Executing_PC
<1>8. SealedBeforeSettled' /\ CountersOK
  BY <1>3, <1>4, SealedStays, RestTyped DEF CountersOK, IInv
<1>9. Becomes(p, new)
  BY <1>3, <1>6 DEF Becomes
<1> HIDE DEF new
<1> QED
  BY <1>5, <1>7, <1>8, <1>9, Composed

\* A run is sealed without a look at its job.
LEMMA SealStep ==
  ASSUME IInv, NEW p \in Worker, Seal(p) PROVE IInv'
<1> DEFINE r == proc[p]  new == [r EXCEPT !.pc = "finish"]  row == SealedRow(p)
<1>1. r \in Process /\ LocalOK(p, r, jobs, runs) /\ r.pc = "seal"
  BY Locals DEF Seal, At
<1>2. proc' = [proc EXCEPT ![p] = new] /\ UNCHANGED <<jobs, now, stale, seqs, started>> /\ runs' = runs \cup {row}
  BY DEF Seal, Goto
<1>3. row \in RunRow /\ row.job = r.job /\ row.id = r.run /\ row.outcome = r.outcome
  <2>1. r.job \in Job /\ r.run \in Nat /\ r.outcome \in Outcome /\ r.rowSeq \in Nat
    BY <1>1 DEF LocalOK, Executing_PC, Process
  <2> QED
    BY <2>1 DEF SealedRow, RunRow
<1> HIDE DEF row
<1>4. new \in Process /\ LocalOK(p, new, jobs, runs')
  <2>1. row \in runs'
    BY <1>2
  <2> HIDE DEF r
  <2> QED BY <1>1, <1>3, <2>1 DEF Process, PC, LocalOK, Executing_PC, Retrying_PC
<1> HIDE DEF new
<1>5. CountersOK /\ Becomes(p, new) /\ runs \subseteq runs'
  BY <1>2, <1>3, <1>4, RestTyped DEF CountersOK, Becomes
<1>6. QueueTypeOK' /\ RowConsistent' /\ RowsKeep /\ NoVerdict
  BY <1>2, SameRows DEF IInv, TypeOK, QueueTypeOK, RowConsistent
<1> QED
  BY <1>5, <1>6, Assemble

\* The verdict is that of the run sealed before, under the run id of the job.
LEMMA FinishJobStep ==
  ASSUME IInv, NEW p \in Worker, FinishJob(p) PROVE IInv'
<1> DEFINE r == proc[p]  j == r.job  reason == terminalReason(r.outcome)
<1>1. r \in Process /\ LocalOK(p, r, jobs, runs) /\ r.pc = "finish"
  BY Locals DEF FinishJob, At
<1>2. j \in Job /\ r.outcome \in Outcome /\ jobs[j].runId = r.run /\ jobs[j].worker = p /\ r.left > 0
  BY <1>1 DEF LocalOK, Executing_PC
<1>3. Finish(j, reason, r.outcome) /\ UNCHANGED <<seqs, runs, started>>
  BY DEF FinishJob
<1>4. /\ RowsKeep
      /\ \A k \in Job : k # j => jobs'[k] = jobs[k]
      /\ jobs'[j].outcome = r.outcome /\ jobs'[j].runId = r.run
  <2> HIDE DEF r, j, reason
  <2> QED BY <1>2, <1>3, FinishRows DEF IInv, TypeOK
<1>5. QueueTypeOK' /\ RowConsistent'
  <2>1. reason \in Reason
    BY DEF terminalReason, Reason
  <2> HIDE DEF r, j, reason
  <2>2. QueueStep(Nat, Nat)
    BY <1>2, <1>3, <2>1 DEF QueueStep
  <2> QED BY <2>2, QueueKept
<1>6. SealedBeforeSettled'
  <2>1. \E row \in runs : row.job = j /\ row.id = r.run /\ row.outcome = r.outcome
    BY <1>1 DEF LocalOK
  <2> HIDE DEF r, j
  <2> QED
    BY <1>3, <1>4, <2>1 DEF IInv, SealedBeforeSettled
<1>7. \A q \in Worker : q # p => LocalOK(q, proc[q], jobs', runs')
  BY <1>3, <1>4, OthersKeep
<1>8. CountersOK
  BY <1>3, RestTyped DEF CountersOK
<1>9. jobs'[j].worker = p
  BY <1>2, <1>4, NoneAssumption DEF RowsKeep
<1>10. CASE ShouldRetry(r.outcome, j)
  <2> DEFINE new == [r EXCEPT !.pc = "retryRead"]
  <2>1. new.job = j /\ new.left = r.left /\ new.pc = "retryRead" /\ new \in Process
    <3> HIDE DEF r
    <3> QED BY <1>1 DEF Process, PC
  <2>2. proc' = [proc EXCEPT ![p] = new]
    BY <1>10 DEF FinishJob, Goto
  <2> HIDE DEF new
  <2>3. LocalOK(p, new, jobs', runs')
    BY <1>2, <1>9, <2>1 DEF LocalOK, Executing_PC, Retrying_PC
  <2>4. Becomes(p, new)
    BY <2>1, <2>2, <2>3 DEF Becomes
  <2> QED
    BY <1>5, <1>6, <1>7, <1>8, <2>4, Composed
<1>11. CASE ~ShouldRetry(r.outcome, j)
  <2> DEFINE left == r.left - 1
             new  == [r EXCEPT !.pc = "claim", !.left = left, !.job = None,
                               !.outcome = None, !.run = 0, !.rowSeq = 0]
  <2>1. new \in Process /\ LocalOK(p, new, jobs', runs')
    <3>1. left \in Nat
      <4>1. r.left \in Nat
        BY <1>1 DEF Process
      <4> QED
        BY <1>2, <4>1
    <3> HIDE DEF r, left
    <3> QED BY <1>1, <3>1 DEF Process, PC, LocalOK, Executing_PC, Retrying_PC
  <2>2. proc' = [proc EXCEPT ![p] = new]
    BY <1>11 DEF FinishJob
  <2> HIDE DEF new
  <2>3. Becomes(p, new)
    BY <2>1, <2>2 DEF Becomes
  <2> QED
    BY <1>5, <1>6, <1>7, <1>8, <2>3, Composed
<1> QED
  BY <1>10, <1>11

LEMMA TimeStep ==
  ASSUME IInv, Time PROVE IInv'
<1>1. UNCHANGED <<jobs, stale, seqs, runs, proc, started>> /\ now' = now + 1
  BY DEF Time, Tick
<1> QED
  BY <1>1 DEF IInv, TypeOK, QueueTypeOK, RowConsistent, SealedBeforeSettled

LEMMA StutterStep ==
  ASSUME IInv, UNCHANGED vars PROVE IInv'
  BY DEF vars, IInv, TypeOK, QueueTypeOK, RowConsistent, SealedBeforeSettled

-----------------------------------------------------------------------------
(* The theorems.                                                           *)

\* Every step of every process keeps the invariant.
LEMMA StepKeeps ==
  ASSUME IInv, [Next]_vars PROVE IInv'
<1>1. ASSUME NEW p \in Worker, NEW e \in Experiment, NEW n \in 1 .. MaxRepetitions, StartRun(p, e, n)
      PROVE  IInv'
  BY <1>1, StartRunStep
<1>2. ASSUME NEW p \in Worker, Step(p) PROVE IInv'
  BY <1>2, EnqueueSeqStep, EnqueueInsertStep, Stops, ReapStep, ReapOneStep, ClaimStep, NumberRunStep,
     StartJobStep, ExecuteStep, RenumberStep, SealStep, FinishJobStep, RetryReadStep, RetrySeqStep,
     RetryInsertStep DEF Step
<1>3. ASSUME NEW p \in Worker, Abandon(p) PROVE IInv'
  BY <1>3, Stops
<1> QED
  BY <1>1, <1>2, <1>3, TimeStep, StutterStep DEF Next

LEMMA InitHolds == Init => IInv
<1> SUFFICES ASSUME Init PROVE IInv
  OBVIOUS
<1>1. QueueTypeOK /\ RowConsistent
  BY AbsentType, NoneAssumption DEF Init, QueueInit, QueueTypeOK, RowConsistent, AbsentRow, Held
<1>2. TypeOK
  BY <1>1, OffOK DEF Init, TypeOK
<1>3. \A p \in Worker : LocalOK(p, proc[p], jobs, runs)
  BY OffOK DEF Init
<1>4. SealedBeforeSettled
  BY DEF Init, QueueInit, SealedBeforeSettled, AbsentRow
<1> QED
  BY <1>1, <1>2, <1>3, <1>4 DEF IInv

LEMMA Invariant == Spec => []IInv
<1>1. IInv /\ [Next]_vars => IInv'
  BY StepKeeps
<1> QED
  BY InitHolds, <1>1, PTL DEF Spec

\* Rows, counters, runs and the locals of every process are well formed.
THEOREM RunTyped == Spec => []TypeOK
<1>1. IInv => TypeOK
  BY DEF IInv
<1> QED
  BY <1>1, Invariant, PTL

\* No job is being executed by two processes, whatever leases run out and
\* whichever commands die: the row of the job carries the name of each.
THEOREM ExecutesOnce == Spec => []ExclusiveExecution
<1>1. IInv => ExclusiveExecution
  <2> SUFFICES ASSUME IInv, NEW p \in Worker, NEW q \in Worker, Executing(p), Executing(q),
                      proc[p].job = proc[q].job
               PROVE  p = q
    BY DEF ExclusiveExecution
  <2>1. proc[p].pc \in Executing_PC /\ proc[q].pc \in Executing_PC
    BY DEF Executing, Executing_PC
  <2>2. jobs[proc[p].job].worker = p /\ jobs[proc[q].job].worker = q
    BY <2>1, Locals DEF LocalOK
  <2> QED
    BY <2>2
<1> QED
  BY <1>1, Invariant, PTL

\* A job that a worker settled has its sealed run row already, under its run
\* id and with its outcome (worker.ts seals in one transaction, then finishes).
THEOREM SealsFirst == Spec => []SealedBeforeSettled
<1>1. IInv => SealedBeforeSettled
  BY DEF IInv
<1> QED
  BY <1>1, Invariant, PTL

-----------------------------------------------------------------------------
(***************************************************************************)
(* Retries.  With commands that die anywhere: once an attempt of a         *)
(* repetition was settled as a product failure, that is what the           *)
(* repetition counts as.                                                   *)
(*                                                                         *)
(* The attempts of a repetition are a chain: an attempt exists only after  *)
(* the one before it was settled as an infrastructure failure.  Only the   *)
(* process that settled that one may add the next, which RetryOK says: at  *)
(* each step between the verdict and the insert, the job in hand is an     *)
(* infrastructure failure of its own and nothing follows it yet.           *)
(***************************************************************************)

\* r: the locals of process p, table: the rows of the queue.
RetryOK(p, r, table) ==
  /\ r.pc \in Executing_PC => table[r.job].reason \in {None, "INTERRUPTED"}
  /\ r.pc \in Retrying_PC =>
       /\ table[r.job].outcome = "INFRASTRUCTURE_FAILED" /\ table[r.job].worker = p
       /\ \A k \in Job : Follows(k, r.job) => table[k].state = "ABSENT"
  /\ r.pc \in {"retrySeq", "retryInsert"} => r.att = r.job.att + 1

RInv == AttemptsChain /\ \A p \in Worker : RetryOK(p, proc[p], jobs)

-----------------------------------------------------------------------------
(* What the operations of the queue do to the rows.                        *)

\* Verdicts stay; only jobs of fresh are inserted; only jobs of settled get a
\* reason that is not the reaper's.
Moves(fresh, settled) ==
  /\ \A k \in Job : jobs[k].state = "TERMINAL" => jobs'[k] = jobs[k]
  /\ \A k \in Job : jobs[k].state = "ABSENT" /\ jobs'[k].state # "ABSENT" => k \in fresh
  /\ \A k \in Job : jobs'[k].reason # jobs[k].reason => jobs'[k].reason = "INTERRUPTED" \/ k \in settled

LEMMA MovesNone == ASSUME jobs' = jobs PROVE Moves({}, {})
  BY DEF Moves

LEMMA EnqueueMoves ==
  ASSUME QueueTypeOK, RowConsistent, NEW j \in Job, NEW seq, NEW prev, Enqueue(j, seq, prev)
  PROVE  Moves({j}, {})
<1> DEFINE new == [AbsentRow EXCEPT !.state = "PENDING", !.seq = seq, !.prev = prev]
<1>1. jobs' = [jobs EXCEPT ![j] = new] /\ jobs[j].state = "ABSENT" /\ jobs \in [Job -> JobRow]
  BY DEF Enqueue, Present, QueueTypeOK
<1>2. new.reason = None /\ jobs[j].reason = None
  BY <1>1 DEF AbsentRow, RowConsistent
<1> HIDE DEF new
<1> QED
  BY <1>1, <1>2 DEF Moves

LEMMA ClaimMoves ==
  ASSUME QueueTypeOK, NEW w \in Worker, NEW j \in Job, Claim(w, j)
  PROVE  Moves({}, {})
<1> DEFINE row == jobs[j]
           new == [row EXCEPT !.state = "CLAIMED", !.worker = w, !.lease = now + LeaseMs]
<1>1. jobs' = [jobs EXCEPT ![j] = new] /\ row.state = "PENDING" /\ row \in JobRow /\ jobs \in [Job -> JobRow]
  BY DEF Claim, Claimable, IsPending, QueueTypeOK
<1>2. new.reason = row.reason
  <2> HIDE DEF row
  <2> QED BY <1>1 DEF JobRow
<1> HIDE DEF new
<1> QED
  BY <1>1, <1>2 DEF Moves

LEMMA MarkRunningMoves ==
  ASSUME QueueTypeOK, NEW w \in Worker, NEW j \in Job, NEW run, MarkRunning(w, j, run)
  PROVE  Moves({}, {})
<1> DEFINE row == jobs[j]
           new == [row EXCEPT !.state = "RUNNING", !.runId = run]
<1>1. jobs' = [jobs EXCEPT ![j] = new] /\ row.state = "CLAIMED" /\ row \in JobRow /\ jobs \in [Job -> JobRow]
  BY DEF MarkRunning, CanMarkRunning, QueueTypeOK
<1>2. new.reason = row.reason
  <2> HIDE DEF row
  <2> QED BY <1>1 DEF JobRow
<1> HIDE DEF new
<1> QED
  BY <1>1, <1>2 DEF Moves

LEMMA ReapMoves ==
  ASSUME QueueTypeOK, NEW w \in Worker, NEW j \in Job, ReapUpdate(w, j)
  PROVE  Moves({}, {})
<1>1. CASE CanReap(j)
  <2> DEFINE new == Settle(jobs[j], "INTERRUPTED", "INTERRUPTED")
  <2>1. jobs' = [jobs EXCEPT ![j] = new] /\ jobs \in [Job -> JobRow] /\ jobs[j].state \in Held
    BY <1>1 DEF ReapUpdate, QueueTypeOK, CanReap, IsHeld
  <2>2. new.reason = "INTERRUPTED"
    BY <2>1, SettleWrites
  <2> HIDE DEF new
  <2> QED
    BY <2>1, <2>2 DEF Moves, Held
<1>2. CASE ~CanReap(j)
  BY <1>2, MovesNone DEF ReapUpdate
<1> QED
  BY <1>1, <1>2

LEMMA FinishMoves ==
  ASSUME QueueTypeOK, NEW j \in Job, NEW reason, NEW outcome, Finish(j, reason, outcome)
  PROVE  Moves({}, {j}) /\ jobs[j].state \in Held /\ jobs'[j].outcome = outcome
<1> DEFINE new == Settle(jobs[j], reason, outcome)
<1>1. jobs' = [jobs EXCEPT ![j] = new] /\ jobs \in [Job -> JobRow] /\ jobs[j].state \in Held
  BY DEF Finish, QueueTypeOK, CanFinish, IsHeld
<1>2. new.outcome = outcome
  BY <1>1, SettleWrites
<1> HIDE DEF new
<1> QED
  BY <1>1, <1>2 DEF Moves, Held

-----------------------------------------------------------------------------
(* How a step of one process is put together.                              *)

\* A job with a verdict of a run is settled.
LEMMA OutcomeSettled ==
  ASSUME RowConsistent, NEW j \in Job, jobs[j].outcome \in Outcome PROVE jobs[j].state = "TERMINAL"
  BY NoneAssumption DEF RowConsistent, Outcome

\* Two attempts with the same successor are one.
LEMMA FollowsOne ==
  ASSUME NEW i \in Job, NEW j \in Job, NEW k \in Job, Follows(k, i), Follows(k, j) PROVE i = j
<1>1. i.att \in Nat /\ j.att \in Nat
  BY JobTuples, BoundsAssumption DEF Attempt
<1>2. i.exp = j.exp /\ i.rep = j.rep /\ i.att = j.att
  BY <1>1 DEF Follows
<1>3. deriveJobId(i.exp, i.rep, i.att) = i /\ deriveJobId(j.exp, j.rep, j.att) = j
  BY JobTuples
<1>4. deriveJobId(i.exp, i.rep, i.att) = deriveJobId(j.exp, j.rep, j.att)
  BY <1>2
<1> QED
  BY <1>3, <1>4

\* The other processes know what they knew: none of them executes or retries
\* a job of p, whose row carries the name p.
LEMMA Turn ==
  ASSUME IInv, RInv, NEW p \in Worker, NEW fresh, NEW settled, Moves(fresh, settled),
         \A k \in fresh : k \in Job /\ (k.att = 0 \/ (proc[p].pc = "retryInsert" /\ Follows(k, proc[p].job))),
         \A k \in settled : proc[p].pc = "finish" /\ k = proc[p].job,
         \A q \in Worker : q # p => proc'[q] = proc[q],
         RetryOK(p, proc'[p], jobs')
  PROVE  RInv'
<1>1. proc[p] \in Process /\ LocalOK(p, proc[p], jobs, runs) /\ RetryOK(p, proc[p], jobs)
  BY Locals DEF RInv
<1>2. AttemptsChain'
  <2> SUFFICES ASSUME NEW j \in Job, NEW k \in Job, Follows(k, j), jobs'[k].state # "ABSENT"
               PROVE  jobs'[j].outcome = "INFRASTRUCTURE_FAILED"
    BY DEF AttemptsChain, Present
  <2>1. jobs[j].outcome = "INFRASTRUCTURE_FAILED"
    <3>1. CASE jobs[k].state # "ABSENT"
      BY <3>1 DEF RInv, AttemptsChain, Present
    <3>2. CASE jobs[k].state = "ABSENT"
      <4>1. k \in fresh
        BY <3>2 DEF Moves
      <4>2. k.att # 0
        <5>1. j.att \in Nat
          BY JobTuples, BoundsAssumption DEF Attempt
        <5> QED
          BY <5>1 DEF Follows
      <4>3. proc[p].pc = "retryInsert" /\ Follows(k, proc[p].job)
        BY <4>1, <4>2
      <4>4. proc[p].job \in Job
        BY <1>1, <4>3 DEF LocalOK, Retrying_PC
      <4>5. j = proc[p].job
        BY <4>3, <4>4, FollowsOne
      <4> QED
        BY <1>1, <4>3, <4>5 DEF RetryOK, Retrying_PC
    <3> QED
      BY <3>1, <3>2
  <2>2. jobs[j].state = "TERMINAL"
    BY <2>1, OutcomeSettled DEF IInv, Outcome
  <2> QED
    BY <2>1, <2>2 DEF Moves
<1>3. ASSUME NEW q \in Worker, q # p PROVE RetryOK(q, proc[q], jobs')
  <2> DEFINE r == proc[q]
  <2>1. r \in Process /\ LocalOK(q, r, jobs, runs) /\ RetryOK(q, r, jobs)
    BY Locals DEF RInv
  <2>2. r.pc \in Executing_PC \cup Retrying_PC => r.job \in Job
    BY <2>1 DEF LocalOK
  <2>3. r.pc \in Executing_PC => jobs[r.job].worker = q
    BY <2>1 DEF LocalOK
  <2>4. r.pc \in Executing_PC => jobs'[r.job].reason \in {None, "INTERRUPTED"}
    <3> SUFFICES ASSUME r.pc \in Executing_PC PROVE jobs'[r.job].reason \in {None, "INTERRUPTED"}
      OBVIOUS
    <3>1. r.job \notin settled
      <4> SUFFICES ASSUME r.job \in settled PROVE FALSE
        OBVIOUS
      <4>1. proc[p].pc = "finish" /\ r.job = proc[p].job
        OBVIOUS
      <4>2. jobs[proc[p].job].worker = p
        BY <1>1, <4>1 DEF LocalOK, Executing_PC
      <4> QED
        BY <1>3, <2>3, <4>1, <4>2
    <3>2. jobs[r.job].reason \in {None, "INTERRUPTED"}
      BY <2>1 DEF RetryOK
    <3> HIDE DEF r
    <3> QED
      BY <2>2, <3>1, <3>2 DEF Moves
  <2>5. r.pc \in Retrying_PC =>
          /\ jobs'[r.job].outcome = "INFRASTRUCTURE_FAILED" /\ jobs'[r.job].worker = q
          /\ \A k \in Job : Follows(k, r.job) => jobs'[k].state = "ABSENT"
    <3> SUFFICES ASSUME r.pc \in Retrying_PC
                 PROVE  /\ jobs'[r.job].outcome = "INFRASTRUCTURE_FAILED" /\ jobs'[r.job].worker = q
                        /\ \A k \in Job : Follows(k, r.job) => jobs'[k].state = "ABSENT"
      OBVIOUS
    <3>1. /\ r.job \in Job /\ jobs[r.job].outcome = "INFRASTRUCTURE_FAILED" /\ jobs[r.job].worker = q
          /\ \A k \in Job : Follows(k, r.job) => jobs[k].state = "ABSENT"
      BY <2>1, <2>2 DEF RetryOK
    <3>2. jobs'[r.job] = jobs[r.job]
      <4>1. jobs[r.job].state = "TERMINAL"
        BY <3>1, OutcomeSettled DEF IInv, Outcome
      <4> QED
        BY <3>1, <4>1 DEF Moves
    <3>3. ASSUME NEW k \in Job, Follows(k, r.job) PROVE jobs'[k].state = "ABSENT"
      <4> SUFFICES ASSUME jobs'[k].state # "ABSENT" PROVE FALSE
        OBVIOUS
      <4>1. k \in fresh
        BY <3>1, <3>3 DEF Moves
      <4>2. k.att # 0
        <5>1. r.job.att \in Nat
          BY <3>1, JobTuples, BoundsAssumption DEF Attempt
        <5> QED
          BY <3>3, <5>1 DEF Follows
      <4>3. proc[p].pc = "retryInsert" /\ Follows(k, proc[p].job)
        BY <4>1, <4>2
      <4>4. proc[p].job \in Job /\ jobs[proc[p].job].worker = p
        BY <1>1, <4>3 DEF LocalOK, RetryOK, Retrying_PC
      <4>5. r.job = proc[p].job
        BY <3>1, <3>3, <4>3, <4>4, FollowsOne
      <4> QED
        BY <1>3, <3>1, <4>4, <4>5
    <3> QED
      BY <3>1, <3>2, <3>3
  <2> QED
    BY <2>1, <2>4, <2>5 DEF RetryOK
<1> QED
  BY <1>2, <1>3 DEF RInv

\* A step that leaves the rows alone.
LEMMA QuietTurn ==
  ASSUME IInv, RInv, NEW p \in Worker, jobs' = jobs, \A q \in Worker : q # p => proc'[q] = proc[q],
         RetryOK(p, proc'[p], jobs)
  PROVE  RInv'
<1>1. Moves({}, {})
  BY MovesNone
<1> QED
  BY <1>1, Turn

\* A process that is between jobs knows nothing.
LEMMA IdleOK ==
  ASSUME NEW p, NEW r, NEW table, r.pc \notin Executing_PC \cup Retrying_PC PROVE RetryOK(p, r, table)
  BY DEF RetryOK, Retrying_PC

-----------------------------------------------------------------------------
(* The steps.                                                              *)

\* What a step that gives process p the locals new does to proc.
LEMMA Given ==
  ASSUME IInv, NEW p \in Worker, NEW new, proc' = [proc EXCEPT ![p] = new]
  PROVE  proc'[p] = new /\ \A q \in Worker : q # p => proc'[q] = proc[q]
  BY DEF IInv, TypeOK

LEMMA StopsRetry ==
  ASSUME IInv, RInv, NEW p \in Worker,
         \/ EnqueueCollides(p) \/ DrainReturns(p) \/ StartJobFails(p)
         \/ SealCollides(p) \/ FinishJobFails(p) \/ Abandon(p)
  PROVE  RInv'
<1>1. proc' = [proc EXCEPT ![p] = Off] /\ jobs' = jobs
  BY DEF EnqueueCollides, DrainReturns, StartJobFails, SealCollides, FinishJobFails, Abandon
<1>2. RetryOK(p, Off, jobs)
  BY IdleOK DEF Off, Executing_PC, Retrying_PC
<1> QED
  BY <1>1, <1>2, Given, QuietTurn

\* Steps of the enqueuing half: the process goes on with no job to retry.
LEMMA EnqueueRetry ==
  ASSUME IInv, RInv, NEW p \in Worker,
         \/ \E e \in Experiment, n \in 1 .. MaxRepetitions : StartRun(p, e, n)
         \/ EnqueueSeq(p) \/ Reap(p)
  PROVE  RInv'
<1>1. PICK label \in {"reap", "enqueueSeq", "enqueueInsert", "claim"} :
        /\ proc'[p].pc = label /\ jobs' = jobs
        /\ \A q \in Worker : q # p => proc'[q] = proc[q]
  <2>1. ASSUME NEW e \in Experiment, NEW n \in 1 .. MaxRepetitions, StartRun(p, e, n)
        PROVE  /\ proc'[p].pc \in {"reap", "enqueueSeq"} /\ jobs' = jobs
               /\ \A q \in Worker : q # p => proc'[q] = proc[q]
    <3> DEFINE todo == { r \in 0 .. n - 1 : ~Present(deriveJobId(e, r, 0)) }
               new  == [Off EXCEPT !.pc = IF todo = {} THEN "reap" ELSE "enqueueSeq",
                                   !.exp = e, !.todo = todo, !.left = n]
    <3>1. proc' = [proc EXCEPT ![p] = new] /\ jobs' = jobs
      BY <2>1 DEF StartRun
    <3>2. new.pc \in {"reap", "enqueueSeq"}
      BY DEF Off
    <3> HIDE DEF new
    <3> QED
      BY <3>1, <3>2, Given
  <2>2. ASSUME EnqueueSeq(p)
        PROVE  /\ proc'[p].pc = "enqueueInsert" /\ jobs' = jobs
               /\ \A q \in Worker : q # p => proc'[q] = proc[q]
    <3> DEFINE r == proc[p]
               k == NextNumber(inv(p), "job")
               new == [r EXCEPT !.pc = "enqueueInsert", !.seq = k]
    <3>1. proc' = [proc EXCEPT ![p] = new] /\ jobs' = jobs
      BY <2>2 DEF EnqueueSeq
    <3>2. new.pc = "enqueueInsert"
      <4>1. r \in Process
        BY Locals
      <4> HIDE DEF r, k
      <4> QED BY <4>1 DEF Process
    <3> HIDE DEF new
    <3> QED
      BY <3>1, <3>2, Given
  <2>3. ASSUME Reap(p)
        PROVE  /\ proc'[p].pc = "claim" /\ jobs' = jobs
               /\ \A q \in Worker : q # p => proc'[q] = proc[q]
    <3> DEFINE r == proc[p]  new == [r EXCEPT !.pc = "claim"]
    <3>1. proc' = [proc EXCEPT ![p] = new] /\ jobs' = jobs
      BY <2>3 DEF Reap, Goto, ReapSelect
    <3>2. new.pc = "claim"
      <4>1. r \in Process
        BY Locals
      <4> HIDE DEF r
      <4> QED BY <4>1 DEF Process
    <3> HIDE DEF new
    <3> QED
      BY <3>1, <3>2, Given
  <2> QED
    BY <2>1, <2>2, <2>3
<1>2. RetryOK(p, proc'[p], jobs)
  BY <1>1, IdleOK DEF Executing_PC, Retrying_PC
<1> QED
  BY <1>1, <1>2, QuietTurn

\* The first attempt of a repetition follows none.
LEMMA EnqueueInsertRetry ==
  ASSUME IInv, RInv, NEW p \in Worker, EnqueueInsert(p) PROVE RInv'
<1> DEFINE r    == proc[p]
           rep  == Min(r.todo)
           rest == r.todo \ {rep}
           j    == deriveJobId(r.exp, rep, 0)
           new  == [r EXCEPT !.todo = rest, !.seq = 0, !.pc = IF rest = {} THEN "reap" ELSE "enqueueSeq"]
<1>1. r \in Process /\ LocalOK(p, r, jobs, runs) /\ r.pc = "enqueueInsert"
  BY Locals DEF EnqueueInsert, At
<1>2. r.exp \in Experiment /\ r.todo # {} /\ r.todo \subseteq Repetition
  BY <1>1 DEF LocalOK, Process
<1>3. rep \in Repetition /\ 0 \in Attempt
  <2>1. Repetition \subseteq Nat
    BY BoundsAssumption DEF Repetition
  <2> HIDE DEF r
  <2>2. rep \in r.todo
    BY <1>2, <2>1, MinOfNumbers
  <2> QED
    BY <1>2, <2>2, BoundsAssumption DEF Attempt
<1>4. j \in Job /\ j.att = 0
  BY <1>2, <1>3, JobTuples DEF deriveJobId
<1>5. Moves({j}, {})
  <2>1. Enqueue(j, r.seq, None)
    BY DEF EnqueueInsert
  <2> HIDE DEF j, r
  <2> QED
    BY <1>4, <2>1, EnqueueMoves DEF IInv, TypeOK
<1>6. proc' = [proc EXCEPT ![p] = new]
  BY DEF EnqueueInsert
<1>7. new.pc \in {"reap", "enqueueSeq"}
  <2> HIDE DEF r, rep
  <2> QED BY <1>1 DEF Process
<1> HIDE DEF new, j
<1>8. RetryOK(p, proc'[p], jobs')
  BY <1>6, <1>7, Given, IdleOK DEF Executing_PC, Retrying_PC
<1> QED
  BY <1>4, <1>5, <1>6, <1>8, Given, Turn

LEMMA ReapOneRetry ==
  ASSUME IInv, RInv, NEW p \in Worker, ReapOne(p) PROVE RInv'
<1>1. PICK j \in stale[p] : ReapUpdate(p, j)
  BY DEF ReapOne
<1>2. j \in Job /\ QueueTypeOK
  BY RestTyped DEF IInv, TypeOK
<1>3. Moves({}, {})
  BY <1>1, <1>2, ReapMoves
<1>4. proc' = proc /\ proc[p].pc = "claim"
  BY DEF ReapOne, At
<1>5. RetryOK(p, proc'[p], jobs')
  BY <1>4, IdleOK DEF Executing_PC, Retrying_PC
<1> QED
  BY <1>3, <1>4, <1>5, Turn

\* A row that could be claimed has no verdict.
LEMMA ClaimRetry ==
  ASSUME IInv, RInv, NEW p \in Worker, ClaimOne(p) PROVE RInv'
<1> DEFINE r == proc[p]
<1>1. PICK j \in Job : Claim(p, j) /\ proc' = [proc EXCEPT ![p] = [r EXCEPT !.pc = "number", !.job = j]]
  BY DEF ClaimOne
<1> DEFINE new == [r EXCEPT !.pc = "number", !.job = j]
<1>2. Moves({}, {}) /\ jobs[j].reason = None
  <2>1. jobs[j].state = "PENDING"
    BY <1>1 DEF Claim, Claimable, IsPending
  <2> QED
    BY <1>1, <2>1, ClaimMoves DEF IInv, TypeOK, RowConsistent
<1>3. jobs'[j].reason \in {None, "INTERRUPTED"}
  BY <1>2 DEF Moves
<1>4. new.pc = "number" /\ new.job = j
  <2>1. r \in Process
    BY Locals
  <2> HIDE DEF r
  <2> QED BY <2>1 DEF Process
<1>5. proc' = [proc EXCEPT ![p] = new]
  BY <1>1
<1> HIDE DEF new
<1>6. RetryOK(p, new, jobs')
  BY <1>3, <1>4 DEF RetryOK, Retrying_PC
<1>7. RetryOK(p, proc'[p], jobs') /\ \A q \in Worker : q # p => proc'[q] = proc[q]
  BY <1>5, <1>6, Given
<1> QED
  BY <1>2, <1>7, Turn

\* The steps of an attempt keep the job in hand.
LEMMA ExecutingRetry ==
  ASSUME IInv, RInv, NEW p \in Worker,
         \/ NumberRun(p) \/ StartJob(p) \/ Execute(p) \/ Renumber(p) \/ Seal(p)
  PROVE  RInv'
<1> DEFINE r == proc[p]
<1>1. r \in Process /\ LocalOK(p, r, jobs, runs) /\ RetryOK(p, r, jobs)
  BY Locals DEF RInv
<1>2. r.pc \in Executing_PC /\ r.job \in Job /\ r.run \in Nat
  <2>1. r.pc \in Executing_PC
    BY DEF NumberRun, StartJob, Execute, Renumber, Seal, At, Executing_PC
  <2> QED
    BY <1>1, <2>1 DEF LocalOK, Process
<1>3. PICK new : /\ proc' = [proc EXCEPT ![p] = new]
                 /\ new.job = r.job /\ new.pc \in {"markRunning", "execute", "seal", "renumber", "finish"}
  <2>1. CASE NumberRun(p)
    <3> DEFINE k == NextNumber(jobInv(r.job), "run")
               new == [r EXCEPT !.pc = "markRunning", !.run = k, !.rowSeq = k]
    <3>1. proc' = [proc EXCEPT ![p] = new]
      BY <2>1 DEF NumberRun
    <3>2. new.job = r.job /\ new.pc = "markRunning"
      <4> HIDE DEF r, k
      <4> QED BY <1>1 DEF Process
    <3> HIDE DEF new
    <3> QED BY <3>1, <3>2
  <2>2. CASE StartJob(p)
    <3> DEFINE new == [r EXCEPT !.pc = "execute"]
    <3>1. proc' = [proc EXCEPT ![p] = new]
      BY <2>2 DEF StartJob, Goto
    <3>2. new.job = r.job /\ new.pc = "execute"
      <4> HIDE DEF r
      <4> QED BY <1>1 DEF Process
    <3> HIDE DEF new
    <3> QED BY <3>1, <3>2
  <2>3. CASE Execute(p)
    <3>1. PICK o \in Observable \cup {"INFRASTRUCTURE_FAILED"}, label \in {"seal", "renumber"} :
            proc' = [proc EXCEPT ![p] = [r EXCEPT !.pc = label, !.outcome = o]]
      BY <2>3 DEF Execute
    <3> DEFINE new == [r EXCEPT !.pc = label, !.outcome = o]
    <3>2. new.job = r.job /\ new.pc \in {"seal", "renumber"}
      <4> HIDE DEF r
      <4> QED BY <1>1, <3>1 DEF Process
    <3>3. proc' = [proc EXCEPT ![p] = new]
      BY <3>1
    <3> HIDE DEF new
    <3> QED BY <3>2, <3>3
  <2>4. CASE Renumber(p)
    <3> DEFINE k == NextNumber(jobInv(r.job), "runSeq")
               new == [r EXCEPT !.pc = "seal", !.rowSeq = k]
    <3>1. proc' = [proc EXCEPT ![p] = new]
      BY <2>4 DEF Renumber
    <3>2. new.job = r.job /\ new.pc = "seal"
      <4> HIDE DEF r, k
      <4> QED BY <1>1 DEF Process
    <3> HIDE DEF new
    <3> QED BY <3>1, <3>2
  <2>5. CASE Seal(p)
    <3> DEFINE new == [r EXCEPT !.pc = "finish"]
    <3>1. proc' = [proc EXCEPT ![p] = new]
      BY <2>5 DEF Seal, Goto
    <3>2. new.job = r.job /\ new.pc = "finish"
      <4> HIDE DEF r
      <4> QED BY <1>1 DEF Process
    <3> HIDE DEF new
    <3> QED BY <3>1, <3>2
  <2> QED
    BY <2>1, <2>2, <2>3, <2>4, <2>5
<1>4. Moves({}, {})
  <2>1. CASE StartJob(p)
    <3>1. MarkRunning(p, r.job, r.run)
      BY <2>1 DEF StartJob
    <3> HIDE DEF r
    <3> QED
      BY <1>2, <3>1, MarkRunningMoves DEF IInv, TypeOK
  <2>2. CASE ~StartJob(p)
    <3>1. jobs' = jobs
      BY <2>2 DEF NumberRun, Execute, Renumber, Seal
    <3> QED
      BY <3>1, MovesNone
  <2> QED
    BY <2>1, <2>2
<1>5. jobs'[r.job].reason \in {None, "INTERRUPTED"}
  <2>1. jobs[r.job].reason \in {None, "INTERRUPTED"}
    BY <1>1, <1>2 DEF RetryOK
  <2> HIDE DEF r
  <2> QED
    BY <1>2, <1>4, <2>1 DEF Moves
<1>6. RetryOK(p, new, jobs')
  BY <1>3, <1>5 DEF RetryOK, Retrying_PC
<1>7. RetryOK(p, proc'[p], jobs') /\ \A q \in Worker : q # p => proc'[q] = proc[q]
  BY <1>3, <1>6, Given
<1> QED
  BY <1>4, <1>7, Turn

\* The verdict of an attempt: nothing follows it yet, because what follows an
\* attempt was added after a verdict and this attempt was still held.
LEMMA FinishRetry ==
  ASSUME IInv, RInv, NEW p \in Worker, FinishJob(p) PROVE RInv'
<1> DEFINE r == proc[p]  j == r.job
<1>1. r \in Process /\ LocalOK(p, r, jobs, runs) /\ r.pc = "finish" /\ j \in Job
  BY Locals DEF FinishJob, At, LocalOK, Executing_PC
<1>2. Moves({}, {j}) /\ jobs[j].state \in Held /\ jobs'[j].outcome = r.outcome /\ jobs[j].worker = p
  <2>1. Finish(j, terminalReason(r.outcome), r.outcome) /\ jobs[j].worker = p
    BY <1>1 DEF FinishJob, LocalOK, Executing_PC
  <2> HIDE DEF r, j
  <2> QED
    BY <1>1, <2>1, FinishMoves DEF IInv, TypeOK
<1>3. \A k \in Job : Follows(k, j) => jobs'[k].state = "ABSENT"
  <2> SUFFICES ASSUME NEW k \in Job, Follows(k, j) PROVE jobs'[k].state = "ABSENT"
    OBVIOUS
  <2>1. jobs[j].state # "TERMINAL" /\ jobs[j].outcome # "INFRASTRUCTURE_FAILED"
    <3>1. jobs[j].state # "TERMINAL"
      BY <1>2 DEF Held
    <3> HIDE DEF j
    <3> QED
      BY <1>1, <3>1, OutcomeSettled DEF IInv, Outcome
  <2>2. jobs[k].state = "ABSENT"
    BY <1>1, <2>1 DEF RInv, AttemptsChain, Present
  <2> QED
    BY <1>2, <2>2 DEF Moves
<1>4. PICK new : /\ proc' = [proc EXCEPT ![p] = new]
                 /\ \/ new.pc = "retryRead" /\ new.job = j /\ r.outcome = "INFRASTRUCTURE_FAILED"
                    \/ new.pc = "claim"
  <2>1. CASE ShouldRetry(r.outcome, j)
    <3> DEFINE new == [r EXCEPT !.pc = "retryRead"]
    <3>1. new.job = j /\ new.pc = "retryRead"
      <4> HIDE DEF r
      <4> QED BY <1>1 DEF Process
    <3>2. proc' = [proc EXCEPT ![p] = new] /\ r.outcome = "INFRASTRUCTURE_FAILED"
      BY <2>1 DEF FinishJob, Goto, ShouldRetry
    <3> HIDE DEF new
    <3> QED BY <3>1, <3>2
  <2>2. CASE ~ShouldRetry(r.outcome, j)
    <3> DEFINE left == r.left - 1
               new  == [r EXCEPT !.pc = "claim", !.left = left, !.job = None,
                                 !.outcome = None, !.run = 0, !.rowSeq = 0]
    <3>1. new.pc = "claim"
      <4> HIDE DEF r, left
      <4> QED BY <1>1 DEF Process
    <3>2. proc' = [proc EXCEPT ![p] = new]
      BY <2>2 DEF FinishJob
    <3> HIDE DEF new
    <3> QED BY <3>1, <3>2
  <2> QED
    BY <2>1, <2>2
<1>5. RetryOK(p, new, jobs')
  <2>1. CASE new.pc = "claim"
    BY <2>1, IdleOK DEF Executing_PC, Retrying_PC
  <2>2. CASE new.pc = "retryRead" /\ new.job = j /\ r.outcome = "INFRASTRUCTURE_FAILED"
    <3>1. jobs'[j].worker = p
      <4>1. RowsKeep
        <5>1. Finish(j, terminalReason(r.outcome), r.outcome)
          BY DEF FinishJob
        <5> HIDE DEF r, j
        <5> QED BY <1>1, <5>1, FinishRows DEF IInv, TypeOK
      <4> QED
        BY <1>1, <1>2, <4>1, NoneAssumption DEF RowsKeep
    <3> QED
      BY <1>2, <1>3, <2>2, <3>1 DEF RetryOK, Executing_PC, Retrying_PC
  <2> QED
    BY <1>4, <2>1, <2>2
<1>6. RetryOK(p, proc'[p], jobs') /\ \A q \in Worker : q # p => proc'[q] = proc[q]
  BY <1>4, <1>5, Given
<1>7. \A k \in {j} : proc[p].pc = "finish" /\ k = proc[p].job
  BY <1>1
<1> HIDE DEF r, j
<1> QED
  BY <1>2, <1>6, <1>7, Turn

\* The attempts of a repetition have no gap: one past j comes with the next.
LEMMA NoGap ==
  ASSUME RowConsistent, AttemptsChain, NEW j \in Job,
         \A k \in Job : Follows(k, j) => jobs[k].state = "ABSENT"
  PROVE  \A k \in Job : k.exp = j.exp /\ k.rep = j.rep /\ Present(k) => k.att <= j.att
<1> DEFINE Past == {a \in Attempt : a > j.att /\ Present(deriveJobId(j.exp, j.rep, a))}
<1>1. j.exp \in Experiment /\ j.rep \in Repetition /\ j.att \in Attempt /\ MaxRetries \in Nat
  BY JobTuples, BoundsAssumption
<1>2. Past = {}
  <2> SUFFICES ASSUME Past # {} PROVE FALSE
    OBVIOUS
  <2>1. Past \in SUBSET Nat
    BY <1>1 DEF Attempt
  <2>2. PICK a \in Past : \A b \in Past : ~(<<b, a>> \in OpToRel(<, Nat))
    <3> HIDE DEF Past
    <3> QED BY <2>1, NatLessThanWellFounded, WFMin
  <2>3. a \in Attempt /\ a > j.att /\ Present(deriveJobId(j.exp, j.rep, a))
    OBVIOUS
  <2>4. a - 1 \in Attempt /\ a - 1 >= j.att /\ a \in Nat /\ j.att \in Nat
    BY <1>1, <2>3 DEF Attempt
  <2> DEFINE k == deriveJobId(j.exp, j.rep, a)
             i == deriveJobId(j.exp, j.rep, a - 1)
  <2>5. k \in Job /\ i \in Job
    BY <1>1, <2>3, <2>4, JobTuples
  <2>6. Follows(k, i)
    BY <2>4 DEF Follows, deriveJobId
  <2>7. a - 1 \notin Past
    <3>1. a - 1 \in Nat /\ a - 1 < a
      BY <2>4
    <3>2. <<a - 1, a>> \in OpToRel(<, Nat)
      BY <2>4, <3>1 DEF OpToRel
    <3> HIDE DEF Past
    <3> QED
      BY <2>2, <3>2
  <2>8. jobs[i].outcome = "INFRASTRUCTURE_FAILED"
    BY <2>3, <2>5, <2>6 DEF AttemptsChain
  <2>9. CASE a - 1 = j.att
    <3>1. Follows(k, j)
      BY <2>4, <2>9 DEF Follows, deriveJobId
    <3> QED
      BY <2>3, <2>5, <3>1 DEF Present
  <2>10. CASE a - 1 # j.att
    <3>1. a - 1 > j.att
      BY <2>4, <2>10
    <3>2. jobs[i].state = "ABSENT"
      BY <2>4, <2>7, <3>1 DEF Present
    <3>3. jobs[i].state = "TERMINAL"
      BY <2>5, <2>8, OutcomeSettled DEF Outcome
    <3> QED
      BY <3>2, <3>3
  <2> QED
    BY <2>9, <2>10
<1> SUFFICES ASSUME NEW k \in Job, k.exp = j.exp, k.rep = j.rep, Present(k) PROVE k.att <= j.att
  OBVIOUS
<1>3. k.att \in Attempt /\ deriveJobId(j.exp, j.rep, k.att) = k
  BY JobTuples
<1>4. ~(k.att > j.att)
  BY <1>2, <1>3
<1> QED
  BY <1>1, <1>3, <1>4 DEF Attempt

\* The last attempt that is listed is the one in hand.
LEMMA LastAttempt ==
  ASSUME RowConsistent, AttemptsChain, NEW j \in Job, NEW S \in SUBSET Attempt, j.att \in S,
         \A k \in Job : Follows(k, j) => jobs[k].state = "ABSENT",
         \A a \in S : Present(deriveJobId(j.exp, j.rep, a))
  PROVE  Max(S) = j.att
<1>1. j.exp \in Experiment /\ j.rep \in Repetition /\ j.att \in Nat /\ MaxRetries \in Nat
  BY JobTuples, BoundsAssumption DEF Attempt
<1>2. Max(S) \in S /\ Max(S) >= j.att
  BY <1>1, MaxOfNumbers DEF Attempt
<1> DEFINE k == deriveJobId(j.exp, j.rep, Max(S))
<1>3. k \in Job /\ Present(k) /\ k.exp = j.exp /\ k.rep = j.rep /\ k.att = Max(S)
  BY <1>1, <1>2, JobTuples DEF deriveJobId
<1>4. k.att <= j.att
  <2> HIDE DEF k
  <2> QED BY <1>3, NoGap
<1>5. Max(S) \in Nat
  <2>1. Attempt \subseteq Nat
    BY <1>1 DEF Attempt
  <2> HIDE DEF k
  <2> QED BY <1>2, <2>1
<1>6. Max(S) <= j.att /\ Max(S) >= j.att /\ j.att \in Nat
  BY <1>1, <1>2, <1>3, <1>4
<1> QED
  BY <1>5, <1>6

LEMMA RetryReadRetry ==
  ASSUME IInv, RInv, NEW p \in Worker, RetryRead(p) PROVE RInv'
<1> DEFINE r == proc[p]  j == r.job  done == Attempts(j.exp, j.rep)
<1>1. r \in Process /\ LocalOK(p, r, jobs, runs) /\ RetryOK(p, r, jobs) /\ r.pc = "retryRead"
  BY Locals DEF RInv, RetryRead, At
<1>2. j \in Job /\ jobs[j].worker = p /\ jobs[j].outcome = "INFRASTRUCTURE_FAILED"
  BY <1>1 DEF LocalOK, RetryOK, Retrying_PC
<1>3. \A k \in Job : Follows(k, j) => jobs[k].state = "ABSENT"
  BY <1>1 DEF RetryOK, Retrying_PC
<1>4. Max(done) = j.att
  <2>1. jobs[j].state = "TERMINAL"
    <3> HIDE DEF r, j
    <3> QED BY <1>2, OutcomeSettled DEF IInv, Outcome
  <2>2. done \in SUBSET Attempt /\ j.att \in done /\ \A a \in done : Present(deriveJobId(j.exp, j.rep, a))
    BY <1>2, <2>1, JobTuples DEF Attempts, Present
  <2> HIDE DEF r, j, done
  <2> QED
    BY <1>2, <1>3, <2>2, LastAttempt DEF IInv, RInv
<1>5. PICK new : /\ proc' = [proc EXCEPT ![p] = new] /\ jobs' = jobs
                 /\ \/ new.pc = "retrySeq" /\ new.job = j /\ new.att = j.att + 1
                    \/ new.pc = "claim"
  <2> DEFINE next == Max(done) + 1
  <2>1. CASE next > MaxRetries
    <3> DEFINE new == [r EXCEPT !.pc = "claim", !.job = None, !.att = 0, !.seq = 0,
                                !.outcome = None, !.run = 0, !.rowSeq = 0]
    <3>1. new.pc = "claim"
      <4> HIDE DEF r
      <4> QED BY <1>1 DEF Process
    <3>2. proc' = [proc EXCEPT ![p] = new] /\ jobs' = jobs
      BY <2>1 DEF RetryRead, Resume
    <3> HIDE DEF new
    <3> QED BY <3>1, <3>2
  <2>2. CASE ~(next > MaxRetries)
    <3> DEFINE new == [r EXCEPT !.pc = "retrySeq", !.att = next]
    <3>1. new.pc = "retrySeq" /\ new.job = j /\ new.att = next
      <4> HIDE DEF r, next
      <4> QED BY <1>1 DEF Process
    <3>2. proc' = [proc EXCEPT ![p] = new] /\ jobs' = jobs
      BY <2>2 DEF RetryRead
    <3>3. next = j.att + 1
      BY <1>4
    <3> HIDE DEF new, next
    <3> QED BY <3>1, <3>2, <3>3
  <2> QED
    BY <2>1, <2>2
<1>6. RetryOK(p, new, jobs)
  BY <1>2, <1>3, <1>5 DEF RetryOK, Executing_PC, Retrying_PC
<1>7. RetryOK(p, proc'[p], jobs) /\ \A q \in Worker : q # p => proc'[q] = proc[q]
  BY <1>5, <1>6, Given
<1> QED
  BY <1>5, <1>7, QuietTurn

LEMMA RetrySeqRetry ==
  ASSUME IInv, RInv, NEW p \in Worker, RetrySeq(p) PROVE RInv'
<1> DEFINE r == proc[p]
           k == NextNumber(jobInv(r.job), "job")
           new == [r EXCEPT !.pc = "retryInsert", !.seq = k]
<1>1. r \in Process /\ RetryOK(p, r, jobs) /\ r.pc = "retrySeq"
  BY Locals DEF RInv, RetrySeq, At
<1>2. proc' = [proc EXCEPT ![p] = new] /\ jobs' = jobs
  BY DEF RetrySeq
<1>3. RetryOK(p, new, jobs)
  <2>1. new.pc = "retryInsert" /\ new.job = r.job /\ new.att = r.att
    <3> HIDE DEF r, k
    <3> QED BY <1>1 DEF Process
  <2> HIDE DEF new
  <2> QED
    BY <1>1, <2>1 DEF RetryOK, Executing_PC, Retrying_PC
<1> HIDE DEF new
<1>4. RetryOK(p, proc'[p], jobs) /\ \A q \in Worker : q # p => proc'[q] = proc[q]
  BY <1>2, <1>3, Given
<1> QED
  BY <1>2, <1>4, QuietTurn

LEMMA RetryInsertRetry ==
  ASSUME IInv, RInv, NEW p \in Worker, RetryInsert(p) PROVE RInv'
<1> DEFINE r   == proc[p]
           j   == RetryJob(p)
           new == [r EXCEPT !.pc = "claim", !.job = None, !.att = 0, !.seq = 0,
                            !.outcome = None, !.run = 0, !.rowSeq = 0]
<1>1. r \in Process /\ LocalOK(p, r, jobs, runs) /\ RetryOK(p, r, jobs) /\ r.pc = "retryInsert"
  BY Locals DEF RInv, RetryInsert, At
<1>2. r.job \in Job /\ r.att \in Attempt /\ r.att = r.job.att + 1
  BY <1>1 DEF LocalOK, RetryOK, Retrying_PC
<1>3. j \in Job /\ Follows(j, r.job)
  BY <1>2, JobTuples DEF RetryJob, Follows, deriveJobId
<1>4. proc' = [proc EXCEPT ![p] = new]
  BY DEF RetryInsert, Resume
<1>5. \A table : RetryOK(p, new, table)
  <2>1. new.pc = "claim"
    <3> HIDE DEF r
    <3> QED BY <1>1 DEF Process
  <2> HIDE DEF new
  <2> QED
    BY <2>1, IdleOK DEF Executing_PC, Retrying_PC
<1> HIDE DEF new
<1>6. (\A table : RetryOK(p, proc'[p], table)) /\ \A q \in Worker : q # p => proc'[q] = proc[q]
  BY <1>4, <1>5, Given
<1>7. CASE Present(j)
  <2>1. jobs' = jobs
    BY <1>7 DEF RetryInsert, queueVars
  <2> QED
    BY <1>6, <2>1, QuietTurn
<1>8. CASE ~Present(j)
  <2>1. Enqueue(j, r.seq, r.job)
    BY <1>8 DEF RetryInsert
  <2>2. Moves({j}, {})
    <3> HIDE DEF j, r
    <3> QED BY <1>3, <2>1, EnqueueMoves DEF IInv, TypeOK
  <2>3. \A k \in {j} : k \in Job /\ proc[p].pc = "retryInsert" /\ Follows(k, proc[p].job)
    BY <1>1, <1>3
  <2> HIDE DEF j, r
  <2> QED
    BY <1>6, <2>2, <2>3, Turn
<1> QED
  BY <1>7, <1>8

-----------------------------------------------------------------------------
(* The theorem.                                                            *)

LEMMA RetryKeeps ==
  ASSUME IInv, RInv, [Next]_vars PROVE RInv'
<1>1. ASSUME NEW p \in Worker, NEW e \in Experiment, NEW n \in 1 .. MaxRepetitions, StartRun(p, e, n)
      PROVE  RInv'
  BY <1>1, EnqueueRetry
<1>2. ASSUME NEW p \in Worker, Step(p) PROVE RInv'
  BY <1>2, EnqueueRetry, EnqueueInsertRetry, StopsRetry, ReapOneRetry, ClaimRetry, ExecutingRetry,
     FinishRetry, RetryReadRetry, RetrySeqRetry, RetryInsertRetry DEF Step
<1>3. ASSUME NEW p \in Worker, Abandon(p) PROVE RInv'
  BY <1>3, StopsRetry
<1>4. ASSUME jobs' = jobs, proc' = proc PROVE RInv'
  BY <1>4 DEF RInv, AttemptsChain, Present
<1> QED
  BY <1>1, <1>2, <1>3, <1>4 DEF Next, Time, Tick, vars

\* What is known of the rows and of every process's retry.
LEMMA RetryInvariant == Spec => [](IInv /\ RInv)
<1>1. Init => RInv
  BY DEF Init, QueueInit, AbsentRow, Off, RInv, AttemptsChain, Present, RetryOK, Executing_PC, Retrying_PC
<1>2. IInv /\ RInv /\ [Next]_vars => RInv'
  BY RetryKeeps
<1> QED
  BY <1>1, <1>2, Invariant, PTL DEF Spec

\* An attempt exists only after the one before it was settled as an
\* infrastructure failure (drain and enqueueRetry in worker.ts).
THEOREM RetriesChain == Spec => []AttemptsChain
<1>1. IInv /\ RInv => AttemptsChain
  BY DEF RInv
<1> QED
  BY <1>1, RetryInvariant, PTL

\* A product failure is the last attempt of its repetition that observed
\* anything, and so the outcome of the repetition (repetitionOutcomes in the
\* statistics), whatever other commands retry and however they die.
THEOREM RetryHidesNothing == Spec => []RetryNeverHidesProductFailure
<1>1. IInv /\ RInv => RetryNeverHidesProductFailure
  <2> SUFFICES ASSUME IInv, RInv, NEW j \in Job, jobs[j].outcome = "PRODUCT_FAILED"
               PROVE  repetitionOutcome(j.exp, j.rep) = "PRODUCT_FAILED"
    BY DEF RetryNeverHidesProductFailure
  <2> DEFINE S == Observations(j.exp, j.rep)
  <2>1. jobs[j].state = "TERMINAL"
    BY OutcomeSettled DEF IInv, Outcome
  <2>2. \A k \in Job : Follows(k, j) => jobs[k].state = "ABSENT"
    BY DEF RInv, AttemptsChain, Present
  <2>3. j.att \in S /\ S \in SUBSET Attempt /\ \A a \in S : Present(deriveJobId(j.exp, j.rep, a))
    BY <2>1, JobTuples DEF Observations, Present
  <2> HIDE DEF S
  <2>4. Max(S) = j.att
    BY <2>2, <2>3, LastAttempt DEF IInv, RInv
  <2>5. deriveJobId(j.exp, j.rep, Max(S)) = j /\ S # {}
    BY <2>3, <2>4, JobTuples
  <2> QED
    BY <2>5 DEF repetitionOutcome, S
<1> QED
  BY <1>1, RetryInvariant, PTL
=============================================================================
