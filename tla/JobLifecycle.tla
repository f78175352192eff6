---------------------------- MODULE JobLifecycle ----------------------------
(***************************************************************************)
(* What the durable work queue promises its callers, without rows, leases  *)
(* or SQL: a job that was scheduled is handed to at most one worker, ever, *)
(* and settles at most once, with a legal pair of terminal reason and run  *)
(* outcome that nothing changes afterwards (ADR-0003, ADR-0005).  The      *)
(* module WorkQueue is shown to implement this one.                        *)
(***************************************************************************)
CONSTANTS
  Job,      \* the jobs that can be scheduled
  Worker,   \* the workers a job can be handed to
  Verdict,  \* the legal pairs of terminal reason and run outcome
  None      \* not a job, a worker or a verdict

VARIABLES
  phase,    \* phase[j]: where the job is in its life
  holder,   \* holder[j]: the worker it was handed to, or None
  verdict   \* verdict[j]: how it settled, or None

vars == <<phase, holder, verdict>>

Phase == {"absent", "waiting", "held", "settled"}

Init ==
  /\ phase   = [j \in Job |-> "absent"]
  /\ holder  = [j \in Job |-> None]
  /\ verdict = [j \in Job |-> None]

Schedule(j) ==
  /\ phase[j] = "absent"
  /\ phase' = [phase EXCEPT ![j] = "waiting"]
  /\ UNCHANGED <<holder, verdict>>

Hand(j, w) ==
  /\ phase[j] = "waiting"
  /\ phase'  = [phase EXCEPT ![j] = "held"]
  /\ holder' = [holder EXCEPT ![j] = w]
  /\ UNCHANGED verdict

Settle(j, v) ==
  /\ phase[j] = "held"
  /\ phase'   = [phase EXCEPT ![j] = "settled"]
  /\ verdict' = [verdict EXCEPT ![j] = v]
  /\ UNCHANGED holder

Next ==
  \E j \in Job :
    \/ Schedule(j)
    \/ \E w \in Worker : Hand(j, w)
    \/ \E v \in Verdict : Settle(j, v)

Spec == Init /\ [][Next]_vars
=============================================================================
