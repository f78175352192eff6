---------------------------- MODULE AiFlowProofs ----------------------------
(***************************************************************************)
(* What the gateway and its ledger guarantee for any number of commands,   *)
(* any budget, and every way the provider answers or fails.                *)
(***************************************************************************)
EXTENDS AiFlow, FiniteSetTheorems, WellFoundedInduction, TLAPS

Labels == {"off", "loop", "insert", "dispatch", "complete", "failed", "ended"}
Results ==
  {"none", "complete", "partial", "inconclusive", "AI_BUDGET_EXCEEDED", "CIRCUIT_OPEN", "AI_TOOL_NOT_ALLOWED",
   "error", "crashed"}

LocalState ==
  [ pc : Labels, result : Results, history : Seq(Answer), illegal : BOOLEAN, spent : Spend, elapsed : Nat,
    attempt : Nat, offset : Nat, wake : Nat, used : Nat, error : ErrorClass \cup {"none"},
    breaker : [transport : Nat, auth : Nat] ]

Row == [state : {"IN_FLIGHT", "COMPLETE", "FAILED"}, tokens : Nat]

TypeInv ==
  /\ ledger = [id \in DOMAIN ledger |-> ledger[id]]
  /\ IsFiniteSet(DOMAIN ledger)
  /\ \A id \in DOMAIN ledger : ledger[id] \in Row
  /\ bill = [id \in DOMAIN bill |-> bill[id]]
  /\ \A id \in DOMAIN bill : bill[id] \in Nat
  /\ run \in [Flows -> LocalState]
  /\ \A f \in Flows : run[f].elapsed <= MaxWallClock

\* What is left of a range when finitely many of its logical calls are taken
\* has a first element, which is what the id search of the gateway returns.
LEMMA FreshIndex ==
  ASSUME IsFiniteSet(DOMAIN ledger), NEW h, NEW from \in Nat
  PROVE  /\ FirstFree(h, from) \in Nat
         /\ FirstFree(h, from) >= from
         /\ RequestId(h, FirstFree(h, from)) \notin DOMAIN ledger
<1> DEFINE D == DOMAIN ledger
           c == Cardinality(D)
           I == from .. from + c
           Free == {n \in I : RequestId(h, n) \notin D}
<1>1. c \in Nat
  BY FS_CardinalityType
<1>2. Free # {}
  <2> SUFFICES ASSUME Free = {} PROVE FALSE
    OBVIOUS
  <2> DEFINE id == [n \in I |-> RequestId(h, n)]
  <2>1. id \in Injection(I, D)
    BY DEF RequestId, Injection, IsInjective
  <2>2. Cardinality(I) <= c
    <3> HIDE DEF id, I, D
    <3> QED BY <2>1, FS_Injection DEF D
  <2>3. Cardinality(I) = c + 1
    BY <1>1, FS_Interval
  <2> QED BY <1>1, <2>2, <2>3
<1>3. PICK n \in Free : \A m \in Free : ~(<<m, n>> \in OpToRel(<, Nat))
  <2>1. Free \subseteq Nat
    BY <1>1
  <2> HIDE DEF Free
  <2> QED BY <1>2, <2>1, NatLessThanWellFounded, WFMin
<1>4. \A m \in from .. n - 1 : RequestId(h, m) \in D
  <2> TAKE m \in from .. n - 1
  <2>1. m \in Nat /\ n \in Nat /\ m < n /\ m \in I
    BY <1>1
  <2>2. m \notin Free
    BY <1>3, <2>1 DEF OpToRel
  <2> QED BY <2>1, <2>2
<1>5. \E k \in I : /\ RequestId(h, k) \notin D
                   /\ \A m \in from .. k - 1 : RequestId(h, m) \in D
  BY <1>4
<1>6. FirstFree(h, from) \in I /\ RequestId(h, FirstFree(h, from)) \notin D
  BY <1>5 DEF FirstFree
<1> QED BY <1>1, <1>6

-----------------------------------------------------------------------------

LEMMA ChargeTypes ==
  ASSUME NEW s \in Spend, NEW n \in Nat, NEW now \in Nat
  PROVE  /\ ChargeCall(s, n, now) \in Spend
         /\ ChargeTools(s, n, now) \in Spend
         /\ ChargeRepair(s, now) \in Spend
<1>1. s.turns \in Nat /\ s.tokens \in Nat /\ s.tools \in Nat /\ s.repairs \in Nat
  BY DEF Spend
<1>2. s.turns + 1 \in Nat /\ s.tokens + n \in Nat /\ s.tools + n \in Nat /\ s.repairs + 1 \in Nat
  BY <1>1
<1>3. ChargeCall(s, n, now) \in Spend
  BY <1>2 DEF ChargeCall, Spend
<1>4. ChargeTools(s, n, now) \in Spend
  BY <1>2 DEF ChargeTools, Spend
<1>5. ChargeRepair(s, now) \in Spend
  BY <1>2 DEF ChargeRepair, Spend
<1> QED BY <1>3, <1>4, <1>5

\* The history and the flags a turn leaves, before its answer is judged.
Told(r, a) ==
  [r EXCEPT !.history = Append(@, a), !.illegal = Illegal(r, a), !.pc = "loop",
            !.attempt = 0, !.offset = 0, !.wake = 0, !.used = 0, !.breaker = Closed]

LEMMA ToldType ==
  ASSUME NEW r \in LocalState, NEW a \in Answer
  PROVE  /\ Told(r, a) \in LocalState
         /\ Told(r, a).pc = "loop" /\ Told(r, a).result = r.result
         /\ Told(r, a).history = Append(r.history, a) /\ Told(r, a).illegal = Illegal(r, a)
         /\ Told(r, a).spent = r.spent /\ Told(r, a).elapsed = r.elapsed
         /\ Told(r, a).attempt = 0 /\ Told(r, a).breaker = Closed
<1>1. Append(r.history, a) \in Seq(Answer)
  BY DEF LocalState
<1>2. Illegal(r, a) \in BOOLEAN
  BY DEF LocalState, Illegal
<1>3. Closed \in [transport : Nat, auth : Nat]
  BY DEF Closed
<1> QED BY <1>1, <1>2, <1>3 DEF Told, LocalState, Labels

Spent(r, s) == [r EXCEPT !.spent = s]

LEMMA SpentType ==
  ASSUME NEW r \in LocalState, NEW s \in Spend
  PROVE  /\ Spent(r, s) \in LocalState
         /\ Spent(r, s).pc = r.pc /\ Spent(r, s).result = r.result
         /\ Spent(r, s).history = r.history /\ Spent(r, s).illegal = r.illegal
         /\ Spent(r, s).spent = s /\ Spent(r, s).elapsed = r.elapsed
         /\ Spent(r, s).attempt = r.attempt /\ Spent(r, s).breaker = r.breaker
BY DEF Spent, LocalState

LEMMA EndedType ==
  ASSUME NEW r \in LocalState, NEW result \in Results
  PROVE  /\ Ended(r, result) \in LocalState
         /\ Ended(r, result).pc = "ended"
         /\ Ended(r, result).result = result
         /\ Ended(r, result).history = r.history
         /\ Ended(r, result).spent = r.spent
         /\ Ended(r, result).breaker = r.breaker
         /\ Ended(r, result).elapsed = 0
<1>1. Idle \in LocalState /\ Idle.elapsed = 0
  BY DEF Idle, LocalState, Labels, Results, ZERO_SPEND, Spend, Closed
<1> HIDE DEF Idle
<1> QED BY <1>1 DEF Ended, LocalState, Labels

\* The four ways a turn goes on: tools, an answer, no repairs left, a repair.
LEMMA ContinueCases ==
  ASSUME NEW r \in LocalState, NEW a \in Answer
  PROVE  \/ /\ a.tools > 0 /\ a.kind \in {"tools", "illegal"}
            /\ Continue(r, a) = Spent(Told(r, a), ChargeTools(r.spent, a.tools, r.elapsed))
         \/ /\ a.kind = "valid"
            /\ Continue(r, a) = Ended(Told(r, a), IF Illegal(r, a) THEN "AI_TOOL_NOT_ALLOWED" ELSE "complete")
         \/ /\ a.kind = "invalid" /\ r.spent.repairs >= MaxRepairs
            /\ Continue(r, a) = Ended(Told(r, a), "inconclusive")
         \/ /\ a.kind = "invalid" /\ r.spent.repairs < MaxRepairs
            /\ Continue(r, a) = Spent(Told(r, a), ChargeRepair(r.spent, r.elapsed))
<1>1. /\ a.tools \in Nat
      /\ a.tools = 0 => a.kind \in {"valid", "invalid"}
      /\ a.tools > 0 => a.kind \in {"tools", "illegal"}
  BY BudgetAssumption DEF Answer
<1>2. r.spent.repairs \in Nat /\ MaxRepairs \in Nat
  BY BudgetAssumption DEF LocalState, Spend
<1>3. Told(r, a).illegal = Illegal(r, a) /\ Told(r, a).spent = r.spent
  BY ToldType
<1>4. CASE a.tools > 0
  BY <1>1, <1>3, <1>4 DEF Continue, Told, Spent
<1>5. CASE a.tools = 0 /\ a.kind = "valid"
  BY <1>1, <1>3, <1>5 DEF Continue, Told
<1>6. CASE a.tools = 0 /\ a.kind = "invalid"
  BY <1>1, <1>2, <1>3, <1>6 DEF Continue, Told, Spent
<1> QED BY <1>1, <1>4, <1>5, <1>6

LEMMA ContinueType ==
  ASSUME NEW r \in LocalState, NEW a \in Answer
  PROVE  /\ Continue(r, a) \in LocalState
         /\ Continue(r, a).pc = "loop" \/ Continue(r, a).pc = "ended"
         /\ Continue(r, a).elapsed = r.elapsed \/ Continue(r, a).elapsed = 0
<1> DEFINE told == Told(r, a)
<1>1. told \in LocalState /\ told.pc = "loop" /\ told.elapsed = r.elapsed
  BY ToldType
<1>2. ChargeTools(r.spent, a.tools, r.elapsed) \in Spend /\ ChargeRepair(r.spent, r.elapsed) \in Spend
  <2>1. a.tools \in Nat /\ r.elapsed \in Nat /\ r.spent \in Spend
    BY BudgetAssumption DEF Answer, LocalState
  <2> QED BY <2>1, ChargeTypes
<1> DEFINE Fine(x) == x \in LocalState /\ (x.pc = "loop" \/ x.pc = "ended") /\ (x.elapsed = r.elapsed \/ x.elapsed = 0)
<1>3. \A s \in Spend : Fine(Spent(told, s))
  BY <1>1, SpentType
<1>4. \A result \in Results : Fine(Ended(told, result))
  BY <1>1, EndedType
<1>5. Fine(Continue(r, a))
  <2> HIDE DEF Fine
  <2> QED BY <1>2, <1>3, <1>4, ContinueCases DEF Results
<1> QED BY <1>5

-----------------------------------------------------------------------------
(* Types.                                                                  *)

\* One command makes a step, or time passes for it.
Move(f) == Start(f) \/ Proceed(f) \/ Tick(f) \/ Crash(f)

LEMMA SettledRow ==
  ASSUME TypeInv, NEW f \in Flows, NEW row \in Row, Settle(f, row)
  PROVE  /\ ledger' = [id \in DOMAIN ledger' |-> ledger'[id]]
         /\ DOMAIN ledger' = DOMAIN ledger
         /\ \A id \in DOMAIN ledger : ledger'[id] = IF id = Current(f) THEN row ELSE ledger[id]
         /\ \A id \in DOMAIN ledger : ledger'[id] \in Row
BY DEF TypeInv, Settle

LEMMA InsertedRow ==
  ASSUME TypeInv, NEW f \in Flows, At(f, "insert"), ~open(run[f].breaker)
  PROVE  /\ LedgerIndex(f) \in Nat
         /\ LedgerIndex(f) >= run[f].attempt + run[f].offset
         /\ RequestId(run[f].history, LedgerIndex(f)) \notin DOMAIN ledger
<1>1. run[f].attempt + run[f].offset \in Nat
  BY DEF TypeInv, LocalState
<1> QED BY <1>1, FreshIndex DEF TypeInv, LedgerIndex

\* The new states of a command, step by step.
Sent(r, n)        == [r EXCEPT !.pc = "dispatch", !.offset = n - r.attempt, !.wake = 0, !.error = "none"]
Paid(r, u)        == [r EXCEPT !.pc = "complete", !.used = u, !.spent = ChargeCall(@, u, r.elapsed)]
Erred(r, c)       == [r EXCEPT !.pc = "failed", !.error = c]
Noticed(r)        == [r EXCEPT !.breaker = onFailure(@, r.error)]
Again(r, delay)   == [r EXCEPT !.pc = "insert", !.attempt = @ + 1, !.wake = r.elapsed + delay, !.used = 0]

LEMMA NewStateTypes ==
  ASSUME NEW r \in LocalState, r.elapsed <= MaxWallClock, NEW n \in Nat
  PROVE  /\ Idle \in LocalState /\ Idle.elapsed <= MaxWallClock
         /\ n >= r.attempt => Sent(r, n) \in LocalState /\ Sent(r, n).elapsed <= MaxWallClock
         /\ Paid(r, n) \in LocalState /\ Paid(r, n).elapsed <= MaxWallClock
         /\ \A c \in ErrorClass : Erred(r, c) \in LocalState /\ Erred(r, c).elapsed <= MaxWallClock
         /\ Noticed(r) \in LocalState /\ Noticed(r).elapsed <= MaxWallClock
         /\ Again(r, n) \in LocalState /\ Again(r, n).elapsed <= MaxWallClock
<1>0. MaxWallClock \in Nat
  BY BudgetAssumption
<1>1. Idle \in LocalState /\ Idle.elapsed <= MaxWallClock
  BY <1>0 DEF Idle, LocalState, Labels, Results, ZERO_SPEND, Spend, Closed
<1>2. ASSUME n >= r.attempt PROVE Sent(r, n) \in LocalState /\ Sent(r, n).elapsed <= MaxWallClock
  <2>1. n - r.attempt \in Nat
    BY <1>2 DEF LocalState
  <2> QED BY <2>1 DEF Sent, LocalState, Labels
<1>3. Paid(r, n) \in LocalState /\ Paid(r, n).elapsed <= MaxWallClock
  <2>1. ChargeCall(r.spent, n, r.elapsed) \in Spend
    BY ChargeTypes DEF LocalState
  <2> QED BY <2>1 DEF Paid, LocalState, Labels
<1>4. ASSUME NEW c \in ErrorClass PROVE Erred(r, c) \in LocalState /\ Erred(r, c).elapsed <= MaxWallClock
  BY <1>4 DEF Erred, LocalState, Labels
<1>5. Noticed(r) \in LocalState /\ Noticed(r).elapsed <= MaxWallClock
  <2>1. \A b \in [transport : Nat, auth : Nat] : onFailure(b, r.error) \in [transport : Nat, auth : Nat]
    BY DEF onFailure
  <2>2. onFailure(r.breaker, r.error) \in [transport : Nat, auth : Nat]
    BY <2>1 DEF LocalState
  <2> QED BY <2>2 DEF Noticed, LocalState
<1>6. Again(r, n) \in LocalState /\ Again(r, n).elapsed <= MaxWallClock
  <2>1. r.attempt + 1 \in Nat /\ r.elapsed + n \in Nat
    BY DEF LocalState
  <2> QED BY <2>1 DEF Again, LocalState, Labels
<1> QED BY <1>1, <1>2, <1>3, <1>4, <1>5, <1>6

LEMMA NoticedType ==
  ASSUME NEW r \in LocalState
  PROVE  Noticed(r) \in LocalState
<1>1. \A b \in [transport : Nat, auth : Nat] : onFailure(b, r.error) \in [transport : Nat, auth : Nat]
  BY DEF onFailure
<1>2. onFailure(r.breaker, r.error) \in [transport : Nat, auth : Nat]
  BY <1>1 DEF LocalState
<1> QED BY <1>2 DEF Noticed, LocalState

\* What a step of a command makes of its own state, whatever the others do.
Becomes(r, new) ==
  \/ r.pc = "off" /\ new = [Idle EXCEPT !.pc = "loop"]
  \/ r.pc = "loop" /\ new = Ended(r, IF PartialCapable THEN "partial" ELSE "inconclusive")
  \/ r.pc = "loop" /\ new = Ended(r, "AI_BUDGET_EXCEEDED")
  \/ r.pc = "loop" /\ preflight(r.spent) /\ new = [r EXCEPT !.pc = "insert", !.attempt = 1]
  \/ r.pc = "insert" /\ new = Ended(r, "CIRCUIT_OPEN")
  \/ r.pc = "insert" /\ \E n \in Nat : n >= r.attempt /\ new = Sent(r, n)
  \/ r.pc = "dispatch" /\ \E u \in Usage : new = Paid(r, u)
  \/ r.pc = "dispatch" /\ \E c \in Errors : new = Erred(r, c)
  \/ r.pc = "complete" /\ \E a \in Answer : new = Continue(r, a)
  \/ r.pc = "complete" /\ new = Erred(r, "PROVIDER_UNAVAILABLE")
  \/ r.pc = "failed" /\ \E delay \in Delays :
       shouldRetry(r.error, r.attempt, r.elapsed, delay) /\ new = Again(Noticed(r), delay)
  \/ r.pc = "failed" /\ new = Ended(Noticed(r), "error")
  \/ r.pc \in {"insert", "dispatch"} /\ r.elapsed < MaxWallClock /\ new = [r EXCEPT !.elapsed = @ + 1]
  \/ r.pc \notin {"off", "ended"} /\ new = Ended(r, "crashed")

LEMMA LocalSteps ==
  ASSUME TypeInv, NEW f \in Flows, Move(f)
  PROVE  \E new : run' = [run EXCEPT ![f] = new] /\ Becomes(run[f], new)
<1> DEFINE r == run[f]
<1>0. r \in LocalState
  BY DEF TypeInv
<1>1. CASE Start(f)
  BY <1>1 DEF Start, Set, At, Becomes
<1>2. CASE Turn(f)
  BY <1>2 DEF Turn, Set, At, Becomes
<1>3. CASE Insert(f)
  <2>1. r.pc = "insert" /\ At(f, "insert")
    BY <1>3 DEF Insert, At
  <2>2. CASE open(r.breaker)
    BY <1>3, <2>1, <2>2 DEF Insert, Set, Becomes
  <2>3. CASE ~open(r.breaker)
    <3>1. LedgerIndex(f) \in Nat /\ LedgerIndex(f) >= r.attempt
      BY <1>0, <2>1, <2>3, InsertedRow DEF LocalState
    <3>2. run' = [run EXCEPT ![f] = Sent(r, LedgerIndex(f))]
      BY <1>3, <2>3 DEF Insert, Set, Sent
    <3> QED BY <2>1, <3>1, <3>2 DEF Becomes
  <2> QED BY <2>2, <2>3
<1>4. CASE Answered(f)
  BY <1>4 DEF Answered, Set, At, Paid, Becomes
<1>5. CASE Refused(f)
  BY <1>5 DEF Refused, Set, At, Erred, Becomes
<1>6. CASE Complete(f)
  BY <1>6 DEF Complete, Set, At, Becomes
<1>7. CASE CompletionFails(f)
  BY <1>7 DEF CompletionFails, Set, At, Erred, Becomes
<1>8. CASE Failed(f)
  <2>1. r.pc = "failed"
    BY <1>8 DEF Failed, At
  <2>2. Noticed(r).elapsed = r.elapsed
    BY <1>0 DEF Noticed, LocalState
  <2>3. PICK delay \in Delays :
          run' = [run EXCEPT ![f] = IF shouldRetry(r.error, r.attempt, r.elapsed, delay)
                                    THEN Again(Noticed(r), delay) ELSE Ended(Noticed(r), "error")]
    BY <1>8, <2>2 DEF Failed, Set, Again, Noticed
  <2> QED BY <2>1, <2>3 DEF Becomes
<1>9. CASE Tick(f)
  BY <1>9 DEF Tick, Set, At, Asleep, Becomes
<1>10. CASE Crash(f)
  BY <1>10 DEF Crash, Set, Running, Becomes
<1> QED BY <1>1, <1>2, <1>3, <1>4, <1>5, <1>6, <1>7, <1>8, <1>9, <1>10 DEF Move, Proceed

LEMMA LocalTypes ==
  ASSUME NEW r \in LocalState, r.elapsed <= MaxWallClock, NEW new, Becomes(r, new)
  PROVE  new \in LocalState /\ new.elapsed <= MaxWallClock
<1>1. Usage \subseteq Nat /\ Errors \subseteq ErrorClass /\ Delays \subseteq Nat /\ MaxWallClock \in Nat
  BY BudgetAssumption
<1>2. ASSUME NEW x \in LocalState, NEW result \in Results
      PROVE  Ended(x, result) \in LocalState /\ Ended(x, result).elapsed <= MaxWallClock
  BY <1>1, EndedType
<1>3. ASSUME NEW a \in Answer
      PROVE  Continue(r, a) \in LocalState /\ Continue(r, a).elapsed <= MaxWallClock
  BY <1>1, ContinueType
<1>4. Noticed(r) \in LocalState /\ Noticed(r).elapsed <= MaxWallClock
  BY NewStateTypes
<1>5. ASSUME NEW delay \in Delays
      PROVE  Again(Noticed(r), delay) \in LocalState /\ Again(Noticed(r), delay).elapsed <= MaxWallClock
  BY <1>1, <1>4, NewStateTypes
<1>6. CASE new = [Idle EXCEPT !.pc = "loop"]
  BY <1>6, NewStateTypes DEF LocalState, Labels
<1>7. CASE new = [r EXCEPT !.pc = "insert", !.attempt = 1]
  BY <1>7 DEF LocalState, Labels
<1>8. CASE r.elapsed < MaxWallClock /\ new = [r EXCEPT !.elapsed = @ + 1]
  BY <1>1, <1>8 DEF LocalState
<1>9. CASE \E n \in Nat : n >= r.attempt /\ new = Sent(r, n)
  BY <1>9, NewStateTypes
<1>10. CASE \E u \in Usage : new = Paid(r, u)
  BY <1>1, <1>10, NewStateTypes
<1>11. CASE \E c \in ErrorClass : new = Erred(r, c)
  BY <1>11, NewStateTypes
<1> QED
  BY <1>1, <1>2, <1>3, <1>4, <1>5, <1>6, <1>7, <1>8, <1>9, <1>10, <1>11 DEF Becomes, Results, ErrorClass

-----------------------------------------------------------------------------
(* The ledger.                                                             *)

Holding(f) == run[f].pc \in {"dispatch", "complete", "failed"}

InFlight == [state |-> "IN_FLIGHT", tokens |-> 0]

\* What a step of a command does to the ledger and the bill: nothing, a row of
\* its own, the provider's count, or the settling of the row it holds.
Quiet(f) ==
  /\ UNCHANGED <<ledger, bill>>
  /\ \/ run'[f].pc \notin {"dispatch", "complete", "failed"}
     \/ Holding(f) /\ run'[f].pc \in {"dispatch", "failed"} /\ Current(f)' = Current(f)

Opened(f) ==
  \E id : /\ id \notin DOMAIN ledger
          /\ ledger' = With(ledger, id, InFlight)
          /\ run'[f].pc = "dispatch" /\ Current(f)' = id
          /\ UNCHANGED bill

Counted(f) ==
  \E u \in Nat : /\ Holding(f)
                 /\ bill' = With(bill, Current(f), u)
                 /\ run'[f].pc = "complete" /\ run'[f].used = u /\ Current(f)' = Current(f)
                 /\ UNCHANGED ledger

Closing(f) ==
  \E row \in Row : /\ Holding(f) /\ Settle(f, row)
                   /\ row.state # "IN_FLIGHT"
                   /\ row.state = "COMPLETE" => run[f].pc = "complete" /\ row.tokens = run[f].used
                   /\ run'[f].pc \notin {"dispatch", "complete", "failed"}
                   /\ UNCHANGED bill

LEMMA LedgerSteps ==
  ASSUME TypeInv, NEW f \in Flows, Move(f)
  PROVE  Quiet(f) \/ Opened(f) \/ Counted(f) \/ Closing(f)
<1> DEFINE r == run[f]
<1>0. r \in LocalState /\ run \in [Flows -> LocalState] /\ Usage \subseteq Nat /\ Noticed(r) \in LocalState
  <2>1. r \in LocalState /\ r.elapsed <= MaxWallClock /\ run \in [Flows -> LocalState]
    BY DEF TypeInv
  <2>2. Noticed(r) \in LocalState
    BY <2>1, NewStateTypes
  <2>3. Usage \subseteq Nat
    BY BudgetAssumption
  <2> QED BY <2>1, <2>2, <2>3
<1>1. \A x : Set(f, x) => run'[f] = x
  BY <1>0 DEF Set
<1>2. ASSUME NEW x \in LocalState, NEW result \in Results PROVE Ended(x, result).pc = "ended"
  BY EndedType
<1>3. CASE Start(f)
  <2>1. [Idle EXCEPT !.pc = "loop"].pc = "loop"
    BY NewStateTypes, <1>0 DEF Idle
  <2> QED BY <1>1, <1>3, <2>1 DEF Start, Quiet
<1>4. CASE Turn(f)
  <2>1. [r EXCEPT !.pc = "insert", !.attempt = 1].pc = "insert"
    BY <1>0 DEF LocalState
  <2>2. /\ UNCHANGED <<ledger, bill>>
        /\ \/ run'[f] = Ended(r, IF PartialCapable THEN "partial" ELSE "inconclusive")
           \/ run'[f] = Ended(r, "AI_BUDGET_EXCEEDED")
           \/ run'[f] = [r EXCEPT !.pc = "insert", !.attempt = 1]
    BY <1>1, <1>4, Zenon DEF Turn
  <2>3. Ended(r, IF PartialCapable THEN "partial" ELSE "inconclusive").pc = "ended"
    BY <1>0, <1>2 DEF Results
  <2>4. Ended(r, "AI_BUDGET_EXCEEDED").pc = "ended"
    BY <1>0, <1>2 DEF Results
  <2>5. run'[f].pc = "insert" \/ run'[f].pc = "ended"
    BY <2>1, <2>2, <2>3, <2>4, Zenon
  <2> QED BY <2>2, <2>5 DEF Quiet
<1>5. CASE Insert(f)
  <2>1. CASE open(r.breaker)
    <3>1. UNCHANGED <<ledger, bill>> /\ run'[f].pc = "ended"
      BY <1>0, <1>1, <1>2, <1>5, <2>1 DEF Insert, Results
    <3> QED BY <3>1 DEF Quiet
  <2>2. CASE ~open(r.breaker)
    <3> DEFINE n == LedgerIndex(f)
    <3>1. n \in Nat /\ RequestId(r.history, n) \notin DOMAIN ledger
      BY <1>5, <2>2, InsertedRow DEF Insert
    <3> HIDE DEF n
    <3>2. /\ ledger' = With(ledger, RequestId(r.history, n), InFlight)
          /\ UNCHANGED bill
          /\ run'[f] = Sent(r, n)
      BY <1>1, <1>5, <2>2 DEF Insert, Sent, InFlight, n
    <3>3. /\ Sent(r, n).pc = "dispatch" /\ Sent(r, n).history = r.history
          /\ Sent(r, n).attempt = r.attempt /\ Sent(r, n).offset = n - r.attempt
      BY <1>0 DEF Sent, LocalState
    <3>4. Current(f)' = RequestId(r.history, n)
      <4>1. r.attempt + (n - r.attempt) = n
        BY <1>0, <3>1 DEF LocalState
      <4>2. run'[f].history = r.history /\ run'[f].attempt + run'[f].offset = n
        BY <3>2, <3>3, <4>1, Zenon
      <4> QED BY <4>2, Zenon DEF Current
    <3> QED BY <3>1, <3>2, <3>3, <3>4 DEF Opened
  <2> QED BY <2>1, <2>2
<1>6. CASE Answered(f)
  <2>1. PICK u \in Usage : bill' = With(bill, Current(f), u) /\ run'[f] = Paid(r, u)
    BY <1>1, <1>6 DEF Answered, Paid
  <2>2. /\ Paid(r, u).pc = "complete" /\ Paid(r, u).used = u /\ Paid(r, u).history = r.history
        /\ Paid(r, u).attempt = r.attempt /\ Paid(r, u).offset = r.offset
    BY <1>0 DEF Paid, LocalState
  <2>3. Current(f)' = Current(f) /\ UNCHANGED ledger /\ Holding(f)
    BY <1>6, <2>1, <2>2 DEF Current, Answered, At, Holding
  <2> QED BY <1>0, <2>1, <2>2, <2>3 DEF Counted
<1>7. ASSUME NEW c, Set(f, Erred(r, c)), UNCHANGED <<ledger, bill>>, Holding(f)
      PROVE  Quiet(f)
  <2>1. /\ Erred(r, c).pc = "failed" /\ Erred(r, c).history = r.history
        /\ Erred(r, c).attempt = r.attempt /\ Erred(r, c).offset = r.offset
    BY <1>0 DEF Erred, LocalState
  <2>2. run'[f] = Erred(r, c)
    BY <1>1, <1>7
  <2> QED BY <1>7, <2>1, <2>2 DEF Quiet, Current
<1>8. CASE Refused(f)
  BY <1>7, <1>8 DEF Refused, Erred, At, Holding
<1>9. CASE CompletionFails(f)
  BY <1>7, <1>9 DEF CompletionFails, Erred, At, Holding
<1>10. CASE Complete(f)
  <2>1. PICK a \in Answer : run'[f] = Continue(r, a)
    BY <1>1, <1>10 DEF Complete
  <2>2. r.pc = "complete" /\ Settle(f, CompleteRow(r.used)) /\ UNCHANGED bill
    BY <1>10 DEF Complete, At
  <2>3. run'[f].pc \in {"loop", "ended"}
    BY <1>0, <2>1, ContinueType
  <2>4. CompleteRow(r.used) \in Row /\ CompleteRow(r.used).state = "COMPLETE" /\ CompleteRow(r.used).tokens = r.used
    BY <1>0 DEF CompleteRow, Row, LocalState
  <2> QED BY <2>2, <2>3, <2>4 DEF Closing, Holding
<1>11. CASE Failed(f)
  <2> DEFINE row == [state |-> "FAILED", tokens |-> 0]
  <2>1. r.pc = "failed" /\ Settle(f, row) /\ UNCHANGED bill
    BY <1>11 DEF Failed, At
  <2>2. \A delay : Again(Noticed(r), delay).pc = "insert"
    BY <1>0 DEF Again, LocalState
  <2>3. Noticed(r).elapsed = r.elapsed
    BY <1>0 DEF Noticed, LocalState
  <2>4. \E delay \in Delays : run'[f] \in {Again(Noticed(r), delay), Ended(Noticed(r), "error")}
    BY <1>1, <1>11, <2>3 DEF Failed, Again, Noticed
  <2>5. run'[f].pc \in {"insert", "ended"}
    BY <1>0, <1>2, <2>2, <2>4 DEF Results
  <2>6. row \in Row /\ row.state = "FAILED"
    BY DEF Row
  <2> QED BY <2>1, <2>5, <2>6 DEF Closing, Holding
<1>12. CASE Tick(f)
  <2>1. run'[f] = [r EXCEPT !.elapsed = @ + 1] /\ UNCHANGED <<ledger, bill>> /\ r.pc \in {"dispatch", "insert"}
    BY <1>1, <1>12 DEF Tick, At, Asleep
  <2>2. /\ run'[f].pc = r.pc /\ run'[f].history = r.history
        /\ run'[f].attempt = r.attempt /\ run'[f].offset = r.offset
    BY <1>0, <2>1 DEF LocalState
  <2> QED BY <2>1, <2>2 DEF Quiet, Holding, Current
<1>13. CASE Crash(f)
  <2>1. run'[f].pc = "ended"
    BY <1>0, <1>1, <1>2, <1>13 DEF Crash, Results
  <2> QED BY <1>13, <2>1 DEF Crash, Quiet
<1> QED
  BY <1>3, <1>4, <1>5, <1>6, <1>8, <1>9, <1>10, <1>11, <1>12, <1>13 DEF Move, Proceed

LEMMA TypeInit == Init => TypeInv
<1> SUFFICES ASSUME Init PROVE TypeInv
  OBVIOUS
<1>1. Idle \in LocalState /\ Idle.elapsed = 0
  BY DEF Idle, LocalState, Labels, Results, ZERO_SPEND, Spend, Closed
<1>2. DOMAIN ledger = {} /\ DOMAIN bill = {}
  BY DEF Init
<1>3. ledger = [id \in DOMAIN ledger |-> ledger[id]] /\ bill = [id \in DOMAIN bill |-> bill[id]]
  BY DEF Init
<1>4. IsFiniteSet(DOMAIN ledger)
  BY <1>2, FS_EmptySet
<1>5. run \in [Flows -> LocalState] /\ \A f \in Flows : run[f].elapsed <= MaxWallClock
  BY <1>1, BudgetAssumption DEF Init
<1> QED BY <1>2, <1>3, <1>4, <1>5 DEF TypeInv

LEMMA TypeNext == TypeInv /\ [Next]_vars => TypeInv'
<1> SUFFICES ASSUME TypeInv, [Next]_vars PROVE TypeInv'
  OBVIOUS
<1>1. CASE UNCHANGED vars
  BY <1>1 DEF vars, TypeInv
<1>2. ASSUME NEW f \in Flows, Move(f) PROVE TypeInv'
  <2>1. run' \in [Flows -> LocalState] /\ \A g \in Flows : run'[g].elapsed <= MaxWallClock
    <3>1. PICK new : run' = [run EXCEPT ![f] = new] /\ Becomes(run[f], new)
      BY <1>2, LocalSteps
    <3>2. new \in LocalState /\ new.elapsed <= MaxWallClock
      BY <3>1, LocalTypes DEF TypeInv
    <3> QED BY <3>1, <3>2 DEF TypeInv
  <2>2. InFlight \in Row
    BY DEF InFlight, Row
  <2> DEFINE Table(t, Values) == t = [id \in DOMAIN t |-> t[id]] /\ \A id \in DOMAIN t : t[id] \in Values
  <2>3. ASSUME NEW t, NEW Values, Table(t, Values), NEW id, NEW v \in Values
        PROVE  Table(With(t, id, v), Values) /\ DOMAIN With(t, id, v) = DOMAIN t \cup {id}
    BY <2>3 DEF With
  <2>4. Table(ledger, Row) /\ Table(bill, Nat) /\ IsFiniteSet(DOMAIN ledger)
    BY DEF TypeInv
  <2>5. Table(ledger', Row) /\ Table(bill', Nat) /\ IsFiniteSet(DOMAIN ledger')
    <3>1. CASE Quiet(f)
      BY <2>4, <3>1 DEF Quiet
    <3>2. CASE Opened(f)
      <4>1. PICK id : ledger' = With(ledger, id, InFlight) /\ UNCHANGED bill
        BY <3>2 DEF Opened
      <4>2. Table(ledger', Row) /\ DOMAIN ledger' = DOMAIN ledger \cup {id}
        <5> HIDE DEF Table
        <5> QED BY <2>2, <2>3, <2>4, <4>1
      <4> QED BY <2>4, <4>1, <4>2, FS_AddElement
    <3>3. CASE Counted(f)
      <4>1. PICK u \in Nat : bill' = With(bill, Current(f), u) /\ UNCHANGED ledger
        BY <3>3 DEF Counted
      <4>2. Table(bill', Nat)
        <5> HIDE DEF Table
        <5> QED BY <2>3, <2>4, <4>1
      <4> QED BY <2>4, <4>1, <4>2
    <3>4. CASE Closing(f)
      <4>1. PICK row \in Row : Settle(f, row) /\ UNCHANGED bill
        BY <3>4 DEF Closing
      <4> QED BY <2>4, <4>1, SettledRow
    <3> QED BY <1>2, <3>1, <3>2, <3>3, <3>4, LedgerSteps
  <2> QED BY <2>1, <2>5 DEF TypeInv
<1> QED BY <1>1, <1>2 DEF Next, Move

\* The tables and the commands of the gateway always have their types.
THEOREM AiTyped == Spec => []TypeOK
<1>1. TypeInv => TypeOK
  <2> SUFFICES ASSUME TypeInv PROVE TypeOK
    OBVIOUS
  <2>1. \A id \in DOMAIN ledger : ledger[id] \in Row
    BY DEF TypeInv
  <2>2. \A f \in Flows : run[f] \in LocalState /\ run[f].elapsed <= MaxWallClock
    BY DEF TypeInv
  <2>3. \A f \in Flows : run[f].elapsed \in 0 .. MaxWallClock
    BY <2>2, BudgetAssumption DEF LocalState
  <2> QED BY <2>1, <2>2, <2>3 DEF TypeOK, Row, LocalState, Labels
<1> QED BY <1>1, TypeInit, TypeNext, PTL DEF Spec

-----------------------------------------------------------------------------
(* Every call holds a row of its own until that row is settled.            *)

\* What each step keeps of the ledger: a command between its insert and its
\* settling holds a row that is IN_FLIGHT, held by no other command; what the
\* provider counted stands beside a row, and a finished call knows it.
LedgerInv ==
  /\ \A f \in Flows : Holding(f) => Current(f) \in DOMAIN ledger /\ ledger[Current(f)].state = "IN_FLIGHT"
  /\ OwnRow
  /\ SpendHasRow
  /\ \A f \in Flows : run[f].pc = "complete" => Current(f) \in DOMAIN bill /\ bill[Current(f)] = run[f].used

LEMMA OthersStay ==
  ASSUME TypeInv, NEW f \in Flows, Move(f), NEW g \in Flows, g # f
  PROVE  run'[g] = run[g] /\ Current(g)' = Current(g) /\ (Holding(g)' <=> Holding(g))
<1>1. PICK new : run' = [run EXCEPT ![f] = new]
  BY LocalSteps
<1>2. run'[g] = run[g]
  BY <1>1 DEF TypeInv
<1> QED BY <1>2 DEF Current, Holding

LEMMA LedgerInit == Init => LedgerInv
BY DEF Init, LedgerInv, Holding, OwnRow, SpendHasRow, Idle

LEMMA LedgerNext == TypeInv /\ LedgerInv /\ [Next]_vars => LedgerInv'
<1> SUFFICES ASSUME TypeInv, LedgerInv, [Next]_vars PROVE LedgerInv'
  OBVIOUS
<1>1. CASE UNCHANGED vars
  BY <1>1 DEF vars, LedgerInv, Holding, OwnRow, SpendHasRow, Current
<1>2. ASSUME NEW f \in Flows, Move(f) PROVE LedgerInv'
  <2>0. \A g \in Flows : g # f => run'[g] = run[g] /\ Current(g)' = Current(g) /\ (Holding(g)' <=> Holding(g))
    BY <1>2, OthersStay
  <2>1. CASE Quiet(f)
    <3>1. ledger' = ledger /\ bill' = bill /\ (Holding(f)' => Holding(f) /\ Current(f)' = Current(f))
      BY <2>1 DEF Quiet, Holding
    <3>2. run'[f].pc # "complete"
      BY <2>1 DEF Quiet
    <3>3. OwnRow'
      BY <2>0, <3>1 DEF LedgerInv, OwnRow, Holding
    <3>4. SpendHasRow'
      BY <3>1 DEF LedgerInv, SpendHasRow
    <3>5. \A g \in Flows : Holding(g)' => Current(g)' \in DOMAIN ledger' /\ ledger'[Current(g)'].state = "IN_FLIGHT"
      BY <2>0, <3>1 DEF LedgerInv
    <3>6. \A g \in Flows : run'[g].pc = "complete" => Current(g)' \in DOMAIN bill' /\ bill'[Current(g)'] = run'[g].used
      BY <2>0, <3>1, <3>2 DEF LedgerInv
    <3> QED BY <3>3, <3>4, <3>5, <3>6 DEF LedgerInv
  <2>2. CASE Opened(f)
    <3>1. PICK id : /\ id \notin DOMAIN ledger /\ ledger' = With(ledger, id, InFlight) /\ bill' = bill
                    /\ run'[f].pc = "dispatch" /\ Current(f)' = id
      BY <2>2 DEF Opened
    <3>2. /\ DOMAIN ledger' = DOMAIN ledger \cup {id} /\ ledger'[id] = InFlight
          /\ \A x \in DOMAIN ledger : ledger'[x] = ledger[x]
      BY <3>1 DEF With
    <3>3. \A g \in Flows : g # f /\ Holding(g)' =>
             Current(g)' = Current(g) /\ Current(g) \in DOMAIN ledger /\ Current(g) # id
      BY <2>0, <3>1 DEF LedgerInv
    <3>4. OwnRow'
      BY <2>0, <3>1, <3>3 DEF LedgerInv, OwnRow, Holding
    <3>5. SpendHasRow'
      BY <3>1, <3>2 DEF LedgerInv, SpendHasRow
    <3>6. \A g \in Flows : Holding(g)' => Current(g)' \in DOMAIN ledger' /\ ledger'[Current(g)'].state = "IN_FLIGHT"
      BY <2>0, <3>1, <3>2, <3>3 DEF LedgerInv, InFlight
    <3>7. \A g \in Flows : run'[g].pc = "complete" => Current(g)' \in DOMAIN bill' /\ bill'[Current(g)'] = run'[g].used
      BY <2>0, <3>1 DEF LedgerInv
    <3> QED BY <3>4, <3>5, <3>6, <3>7 DEF LedgerInv
  <2>3. CASE Counted(f)
    <3> DEFINE id == Current(f)
    <3>1. PICK u \in Nat : /\ Holding(f) /\ bill' = With(bill, id, u) /\ ledger' = ledger
                           /\ run'[f].pc = "complete" /\ run'[f].used = u /\ Current(f)' = id
      BY <2>3 DEF Counted
    <3> HIDE DEF id
    <3>2. /\ DOMAIN bill' = DOMAIN bill \cup {id} /\ bill'[id] = u
          /\ \A x \in DOMAIN bill : x # id => bill'[x] = bill[x]
      BY <3>1 DEF With
    <3>3. id \in DOMAIN ledger /\ ledger[id].state = "IN_FLIGHT"
      BY <3>1 DEF LedgerInv, id
    <3>4. \A g \in Flows : g # f /\ Holding(g)' => Current(g)' = Current(g) /\ Current(g) # id
      BY <2>0, <3>1 DEF LedgerInv, OwnRow, Holding, id
    <3>5. OwnRow'
      BY <2>0, <3>1, <3>4 DEF LedgerInv, OwnRow, Holding
    <3>6. SpendHasRow'
      BY <3>1, <3>2, <3>3 DEF LedgerInv, SpendHasRow
    <3>7. \A g \in Flows : Holding(g)' => Current(g)' \in DOMAIN ledger' /\ ledger'[Current(g)'].state = "IN_FLIGHT"
      BY <2>0, <3>1, <3>3 DEF LedgerInv
    <3>8. \A g \in Flows : run'[g].pc = "complete" => Current(g)' \in DOMAIN bill' /\ bill'[Current(g)'] = run'[g].used
      BY <2>0, <3>1, <3>2, <3>4 DEF LedgerInv, Holding
    <3> QED BY <3>5, <3>6, <3>7, <3>8 DEF LedgerInv
  <2>4. CASE Closing(f)
    <3> DEFINE id == Current(f)
    <3>1. PICK row \in Row : /\ Holding(f) /\ Settle(f, row) /\ bill' = bill
                             /\ row.state = "COMPLETE" => run[f].pc = "complete" /\ row.tokens = run[f].used
                             /\ ~Holding(f)' /\ run'[f].pc # "complete"
      BY <2>4 DEF Closing, Holding
    <3>2. DOMAIN ledger' = DOMAIN ledger /\ \A x \in DOMAIN ledger : ledger'[x] = IF x = id THEN row ELSE ledger[x]
      BY <3>1, SettledRow
    <3> HIDE DEF id
    <3>3. \A g \in Flows : g # f /\ Holding(g)' => Current(g)' = Current(g) /\ Current(g) # id
      BY <2>0, <3>1 DEF LedgerInv, OwnRow, Holding, id
    <3>4. OwnRow'
      BY <2>0, <3>1, <3>3 DEF LedgerInv, OwnRow, Holding
    <3>5. SpendHasRow'
      <4>1. row.state = "COMPLETE" => id \in DOMAIN bill /\ bill[id] = row.tokens
        BY <3>1 DEF LedgerInv, id
      <4> QED BY <3>1, <3>2, <4>1 DEF LedgerInv, SpendHasRow
    <3>6. \A g \in Flows : Holding(g)' => Current(g)' \in DOMAIN ledger' /\ ledger'[Current(g)'].state = "IN_FLIGHT"
      BY <2>0, <3>1, <3>2, <3>3 DEF LedgerInv
    <3>7. \A g \in Flows : run'[g].pc = "complete" => Current(g)' \in DOMAIN bill' /\ bill'[Current(g)'] = run'[g].used
      BY <2>0, <3>1 DEF LedgerInv
    <3> QED BY <3>4, <3>5, <3>6, <3>7 DEF LedgerInv
  <2> QED BY <1>2, <2>1, <2>2, <2>3, <2>4, LedgerSteps
<1> QED BY <1>1, <1>2 DEF Next, Move

LEMMA LedgerAlways == Spec => [](TypeInv /\ LedgerInv)
BY TypeInit, TypeNext, LedgerInit, LedgerNext, PTL DEF Spec

\* No spend without a row, and a COMPLETE row says what the provider counted,
\* whoever crashed and wherever.
THEOREM SpendIsRecorded == Spec => []SpendHasRow
BY LedgerAlways, PTL DEF LedgerInv

\* No two commands ever hold the same row, although they ask the same question.
THEOREM RowsAreOwn == Spec => []OwnRow
BY LedgerAlways, PTL DEF LedgerInv

\* A row is never taken over, dropped, or changed once it is settled.
THEOREM SettlesOnce == Spec => SettledOnce
<1>1. TypeInv /\ LedgerInv /\ [Next]_vars =>
        [\A id \in DOMAIN ledger :
           /\ id \in DOMAIN ledger'
           /\ ledger[id].state # "IN_FLIGHT" => ledger'[id] = ledger[id]]_vars
  <2> SUFFICES ASSUME TypeInv, LedgerInv, NEW f \in Flows, Move(f), NEW id \in DOMAIN ledger
               PROVE  id \in DOMAIN ledger' /\ (ledger[id].state # "IN_FLIGHT" => ledger'[id] = ledger[id])
    BY DEF Next, Move
  <2>1. CASE Quiet(f)
    BY <2>1 DEF Quiet
  <2>2. CASE Opened(f)
    BY <2>2 DEF Opened, With
  <2>3. CASE Counted(f)
    BY <2>3 DEF Counted
  <2>4. CASE Closing(f)
    <3>1. PICK row \in Row : Holding(f) /\ Settle(f, row)
      BY <2>4 DEF Closing
    <3>2. ledger[Current(f)].state = "IN_FLIGHT"
      BY <3>1 DEF LedgerInv
    <3> QED BY <3>1, <3>2, SettledRow
  <2> QED BY <2>1, <2>2, <2>3, <2>4, LedgerSteps
<1> QED BY <1>1, LedgerAlways, PTL DEF Spec, SettledOnce

-----------------------------------------------------------------------------
(* What a flow keeps to by itself, step by step.                           *)

Calling == {"insert", "dispatch", "complete", "failed"}

Pending(r) == IF r.pc = "complete" THEN 1 ELSE 0
AllTold(r) == r.spent.turns = Len(r.history) + Pending(r)
Invalid(h) == {n \in DOMAIN h : h[n].kind = "invalid"}
Legal(h)   == \A n \in DOMAIN h : h[n].kind # "illegal"

\* As long as every paid answer was told, the flow is within its budget, and in
\* a call it still is when the call costs all it may.
BudgetInv(r) ==
  /\ r.spent.turns >= Len(r.history) + Pending(r)
  /\ AllTold(r) =>
       /\ r.spent.tokens <= MaxTokens /\ r.spent.turns <= MaxTurns
       /\ r.pc \in {"insert", "dispatch", "failed"} =>
            r.spent.tokens + Planned <= MaxTokens /\ r.spent.turns < MaxTurns

\* A flow that goes on remembers a refused tool, and has a repair for every
\* invalid answer.
ValidInv(r) ==
  /\ r.pc # "ended" =>
       /\ r.result = "none"
       /\ ~r.illegal => Legal(r.history)
       /\ Cardinality(Invalid(r.history)) <= r.spent.repairs /\ r.spent.repairs <= MaxRepairs
  /\ r.result = "complete" =>
       /\ r.history[Len(r.history)].kind = "valid"
       /\ Legal(r.history)
       /\ Cardinality(Invalid(r.history)) <= MaxRepairs

\* Each attempt but the last failed once; what is not retried ends the flow.
BreakerInv(r) ==
  /\ r.pc \in {"off", "loop"} => r.breaker = Closed
  /\ r.pc \in Calling =>
       r.attempt \in 1 .. 4 /\ r.breaker.transport < r.attempt /\ r.breaker.auth = 0
  /\ r.breaker.transport <= 4 /\ r.breaker.auth <= 1
  /\ r.pc = "insert" /\ r.attempt > 1 => r.wake < MaxWallClock

LEMMA InvalidGrows ==
  ASSUME NEW h \in Seq(Answer), NEW a \in Answer
  PROVE  /\ Cardinality(Invalid(h)) \in Nat
         /\ a.kind # "invalid" => Cardinality(Invalid(Append(h, a))) = Cardinality(Invalid(h))
         /\ a.kind = "invalid" => Cardinality(Invalid(Append(h, a))) = Cardinality(Invalid(h)) + 1
         /\ Legal(h) /\ a.kind # "illegal" => Legal(Append(h, a))
         /\ Append(h, a)[Len(Append(h, a))] = a
<1> DEFINE k == Len(h) + 1
<1>1. /\ k \in Nat /\ DOMAIN h = 1 .. Len(h) /\ DOMAIN Append(h, a) = 1 .. k /\ Len(Append(h, a)) = k
      /\ \A n \in 1 .. Len(h) : Append(h, a)[n] = h[n]
      /\ Append(h, a)[k] = a
  OBVIOUS
<1>2. IsFiniteSet(Invalid(h)) /\ Cardinality(Invalid(h)) \in Nat
  <2>1. IsFiniteSet(1 .. Len(h)) /\ Invalid(h) \subseteq 1 .. Len(h)
    BY <1>1, FS_Interval DEF Invalid
  <2> QED BY <2>1, FS_Subset, FS_CardinalityType
<1>3. a.kind # "invalid" => Invalid(Append(h, a)) = Invalid(h)
  BY <1>1 DEF Invalid
<1>4. a.kind = "invalid" => Invalid(Append(h, a)) = Invalid(h) \cup {k}
  BY <1>1 DEF Invalid
<1>5. k \notin Invalid(h)
  BY <1>1 DEF Invalid
<1>6. Legal(h) /\ a.kind # "illegal" => Legal(Append(h, a))
  BY <1>1 DEF Legal
<1>7. a.kind = "invalid" => Cardinality(Invalid(Append(h, a))) = Cardinality(Invalid(h)) + 1
  BY <1>2, <1>4, <1>5, FS_AddElement
<1> QED BY <1>1, <1>2, <1>3, <1>6, <1>7

\* The fields of the states a step leads to.
LEMMA StartFields ==
  LET x == [Idle EXCEPT !.pc = "loop"]
  IN  /\ x.pc = "loop" /\ x.result = "none" /\ x.history = <<>> /\ x.illegal = FALSE
      /\ x.spent = ZERO_SPEND /\ x.breaker = Closed
BY DEF Idle

LEMMA CallFields ==
  ASSUME NEW r \in LocalState
  PROVE  LET x == [r EXCEPT !.pc = "insert", !.attempt = 1]
         IN  /\ x.pc = "insert" /\ x.result = r.result /\ x.history = r.history /\ x.illegal = r.illegal
             /\ x.spent = r.spent /\ x.breaker = r.breaker /\ x.attempt = 1
BY DEF LocalState

LEMMA TickFields ==
  ASSUME NEW r \in LocalState
  PROVE  LET x == [r EXCEPT !.elapsed = @ + 1]
         IN  /\ x.pc = r.pc /\ x.result = r.result /\ x.history = r.history /\ x.illegal = r.illegal
             /\ x.spent = r.spent /\ x.breaker = r.breaker /\ x.attempt = r.attempt /\ x.wake = r.wake
BY DEF LocalState

LEMMA SentFields ==
  ASSUME NEW r \in LocalState, NEW n
  PROVE  /\ Sent(r, n).pc = "dispatch" /\ Sent(r, n).result = r.result /\ Sent(r, n).history = r.history /\ Sent(r, n).illegal = r.illegal
         /\ Sent(r, n).spent = r.spent /\ Sent(r, n).breaker = r.breaker /\ Sent(r, n).attempt = r.attempt
BY DEF LocalState, Sent

LEMMA ErredFields ==
  ASSUME NEW r \in LocalState, NEW c
  PROVE  /\ Erred(r, c).pc = "failed" /\ Erred(r, c).result = r.result /\ Erred(r, c).history = r.history /\ Erred(r, c).illegal = r.illegal
         /\ Erred(r, c).spent = r.spent /\ Erred(r, c).breaker = r.breaker /\ Erred(r, c).attempt = r.attempt
BY DEF LocalState, Erred

LEMMA NoticedFields ==
  ASSUME NEW r \in LocalState
  PROVE  /\ Noticed(r).pc = r.pc /\ Noticed(r).result = r.result /\ Noticed(r).history = r.history /\ Noticed(r).illegal = r.illegal
         /\ Noticed(r).spent = r.spent /\ Noticed(r).attempt = r.attempt /\ Noticed(r).elapsed = r.elapsed /\ Noticed(r).error = r.error
         /\ Noticed(r).breaker = onFailure(r.breaker, r.error)
BY DEF LocalState, Noticed

LEMMA AgainFields ==
  ASSUME NEW r \in LocalState, NEW n
  PROVE  /\ Again(r, n).pc = "insert" /\ Again(r, n).result = r.result /\ Again(r, n).history = r.history /\ Again(r, n).illegal = r.illegal
         /\ Again(r, n).spent = r.spent /\ Again(r, n).breaker = r.breaker /\ Again(r, n).attempt = r.attempt + 1
         /\ Again(r, n).wake = r.elapsed + n
BY DEF LocalState, Again

LEMMA PaidFields ==
  ASSUME NEW r \in LocalState, NEW n \in Nat
  PROVE  /\ Paid(r, n).pc = "complete" /\ Paid(r, n).result = r.result
         /\ Paid(r, n).history = r.history /\ Paid(r, n).illegal = r.illegal
         /\ Paid(r, n).breaker = r.breaker /\ Paid(r, n).attempt = r.attempt
         /\ Paid(r, n).spent.turns = r.spent.turns + 1
         /\ Paid(r, n).spent.tokens = r.spent.tokens + n
         /\ Paid(r, n).spent.repairs = r.spent.repairs
<1> DEFINE s == ChargeCall(r.spent, n, r.elapsed)
<1>1. s.turns = r.spent.turns + 1 /\ s.tokens = r.spent.tokens + n /\ s.repairs = r.spent.repairs
  BY DEF ChargeCall, Spend, LocalState
<1>2. Paid(r, n).spent = s
  BY DEF Paid, LocalState
<1> HIDE DEF s
<1> QED BY <1>1, <1>2 DEF Paid, LocalState

LEMMA Sizes ==
  ASSUME NEW r \in LocalState
  PROVE  /\ Len(r.history) \in Nat /\ r.spent.turns \in Nat /\ r.spent.tokens \in Nat /\ r.spent.repairs \in Nat
         /\ r.attempt \in Nat /\ r.elapsed \in Nat /\ r.wake \in Nat
         /\ r.breaker.transport \in Nat /\ r.breaker.auth \in Nat
         /\ MaxTurns \in Nat /\ MaxTokens \in Nat /\ MaxRepairs \in Nat /\ MaxWallClock \in Nat /\ Planned \in Nat
<1>1. Len(r.history) \in Nat
  BY DEF LocalState
<1>2. /\ r.spent.turns \in Nat /\ r.spent.tokens \in Nat /\ r.spent.repairs \in Nat
      /\ r.attempt \in Nat /\ r.elapsed \in Nat /\ r.wake \in Nat
      /\ r.breaker.transport \in Nat /\ r.breaker.auth \in Nat
  BY DEF LocalState, Spend
<1>3. MaxTurns \in Nat /\ MaxTokens \in Nat /\ MaxRepairs \in Nat /\ MaxWallClock \in Nat /\ Planned \in Nat
  BY BudgetAssumption
<1> QED BY <1>1, <1>2, <1>3

LEMMA Preflighted ==
  ASSUME NEW r \in LocalState, preflight(r.spent)
  PROVE  r.spent.tokens + Planned <= MaxTokens /\ r.spent.turns < MaxTurns
BY Sizes DEF preflight, exhausted

LEMMA BudgetStep ==
  ASSUME NEW r \in LocalState, BudgetInv(r), NEW new, Becomes(r, new)
  PROVE  BudgetInv(new)
<1>0. Usage \subseteq 0 .. Planned /\ Delays \subseteq Nat
  BY BudgetAssumption
\* An end of the flow leaves the history and the spend as they were.
<1>1. ASSUME NEW x \in LocalState, NEW result \in Results, x.history = r.history, x.spent = r.spent
      PROVE  BudgetInv(Ended(x, result))
  <2> DEFINE e == Ended(x, result)
  <2>1. e.pc = "ended" /\ e.history = r.history /\ e.spent = r.spent
    BY <1>1, EndedType
  <2> HIDE DEF e
  <2>2. Pending(e) = 0 /\ Pending(r) \in {0, 1} /\ (Pending(r) = 1 => r.pc = "complete")
    BY <2>1 DEF Pending
  <2> QED BY <2>1, <2>2, Sizes DEF BudgetInv, AllTold, e
<1>2. CASE new = [Idle EXCEPT !.pc = "loop"]
  <2>1. new.pc = "loop" /\ Len(new.history) = 0 /\ new.spent.turns = 0 /\ new.spent.tokens = 0
    BY <1>2, StartFields DEF ZERO_SPEND
  <2> QED BY <2>1, Sizes DEF BudgetInv, AllTold, Pending
<1>3. CASE r.pc = "loop" /\ preflight(r.spent) /\ new = [r EXCEPT !.pc = "insert", !.attempt = 1]
  <2>1. new.pc = "insert" /\ new.history = r.history /\ new.spent = r.spent
    BY <1>3, CallFields
  <2> QED BY <1>3, <2>1, Sizes, Preflighted DEF BudgetInv, AllTold, Pending
<1>4. CASE r.pc = "insert" /\ \E n \in Nat : n >= r.attempt /\ new = Sent(r, n)
  <2>1. new.pc = "dispatch" /\ new.history = r.history /\ new.spent = r.spent
    BY <1>4, SentFields
  <2> QED BY <1>4, <2>1 DEF BudgetInv, AllTold, Pending
<1>5. CASE r.pc = "dispatch" /\ \E u \in Usage : new = Paid(r, u)
  <2>1. PICK u \in Usage : new = Paid(r, u)
    BY <1>5
  <2>2. u \in Nat /\ u <= Planned
    BY <1>0, Sizes
  <2>3. /\ new.pc = "complete" /\ new.history = r.history
        /\ new.spent.turns = r.spent.turns + 1 /\ new.spent.tokens = r.spent.tokens + u
    BY <2>1, <2>2, PaidFields
  <2>4. Pending(r) = 0 /\ Pending(new) = 1
    BY <1>5, <2>3 DEF Pending
  <2>5. new.spent.turns >= Len(new.history) + 1
    BY <2>3, <2>4, Sizes DEF BudgetInv
  <2>6. AllTold(new) => AllTold(r)
    BY <2>3, <2>4, Sizes DEF AllTold
  <2>7. AllTold(r) => r.spent.tokens + Planned <= MaxTokens /\ r.spent.turns < MaxTurns
    BY <1>5 DEF BudgetInv
  <2>8. AllTold(new) => new.spent.tokens <= MaxTokens /\ new.spent.turns <= MaxTurns
    BY <2>2, <2>3, <2>6, <2>7, Sizes
  <2> QED BY <2>3, <2>4, <2>5, <2>8 DEF BudgetInv
<1>6. CASE r.pc = "dispatch" /\ \E c \in Errors : new = Erred(r, c)
  <2>1. new.pc = "failed" /\ new.history = r.history /\ new.spent = r.spent
    BY <1>6, ErredFields
  <2> QED BY <1>6, <2>1 DEF BudgetInv, AllTold, Pending
\* The answer is paid for, and is not told.
<1>7. CASE r.pc = "complete" /\ new = Erred(r, "PROVIDER_UNAVAILABLE")
  <2>1. new.pc = "failed" /\ new.history = r.history /\ new.spent = r.spent
    BY <1>7, ErredFields
  <2>2. r.spent.turns >= Len(r.history) + 1 /\ Pending(new) = 0
    BY <1>7, <2>1 DEF BudgetInv, Pending
  <2>3. Len(new.history) \in Nat /\ new.spent.turns > Len(new.history)
    BY <2>1, <2>2, Sizes
  <2> QED BY <2>2, <2>3, <2>1, Sizes DEF BudgetInv, AllTold
<1>8. CASE r.pc = "complete" /\ \E a \in Answer : new = Continue(r, a)
  <2>1. PICK a \in Answer : new = Continue(r, a)
    BY <1>8
  <2> DEFINE told == Told(r, a)
  <2>2. told \in LocalState /\ told.history = Append(r.history, a) /\ told.spent = r.spent
    BY ToldType
  <2>3. Len(Append(r.history, a)) = Len(r.history) + 1
    BY DEF LocalState
  <2>4. a.tools \in Nat /\ r.elapsed \in Nat /\ r.spent \in Spend
    BY BudgetAssumption DEF Answer, LocalState
  <2>5. ASSUME NEW s \in {ChargeTools(r.spent, a.tools, r.elapsed), ChargeRepair(r.spent, r.elapsed)}
        PROVE  s \in Spend /\ s.turns = r.spent.turns /\ s.tokens = r.spent.tokens
    BY <2>4, ChargeTypes DEF ChargeTools, ChargeRepair, Spend
  <2>6. /\ new.pc = "loop" \/ new.pc = "ended"
        /\ new.history = Append(r.history, a)
        /\ new.spent.turns = r.spent.turns /\ new.spent.tokens = r.spent.tokens
    <3>1. ASSUME NEW s \in {ChargeTools(r.spent, a.tools, r.elapsed), ChargeRepair(r.spent, r.elapsed)},
                 new = Spent(told, s)
          PROVE  /\ new.pc = "loop" /\ new.history = Append(r.history, a)
                 /\ new.spent.turns = r.spent.turns /\ new.spent.tokens = r.spent.tokens
      <4>1. s \in Spend /\ told.pc = "loop"
        BY <2>5, <3>1, ToldType
      <4>2. new.pc = told.pc /\ new.history = told.history /\ new.spent = s
        BY <2>2, <3>1, <4>1, SpentType
      <4> QED BY <2>2, <2>5, <3>1, <4>1, <4>2
    <3>2. CASE \E result \in Results : new = Ended(told, result)
      BY <2>2, <3>2, EndedType
    <3> QED BY <2>1, <3>1, <3>2, ContinueCases DEF Results
  <2>7. Pending(r) = 1 /\ Pending(new) = 0 /\ Len(new.history) = Len(r.history) + 1
    BY <1>8, <2>3, <2>6 DEF Pending
  <2>8. Len(new.history) \in Nat /\ new.spent.turns >= Len(new.history)
    BY <2>6, <2>7, Sizes DEF BudgetInv
  <2>9. AllTold(new) => AllTold(r)
    BY <2>6, <2>7, <2>8, Sizes DEF AllTold
  <2> QED BY <2>6, <2>7, <2>8, <2>9 DEF BudgetInv
<1>9. CASE r.pc = "failed" /\ \E delay \in Delays : new = Again(Noticed(r), delay)
  <2>1. PICK delay \in Delays : new = Again(Noticed(r), delay)
    BY <1>9
  <2>2. Noticed(r) \in LocalState /\ Noticed(r).history = r.history /\ Noticed(r).spent = r.spent
    BY NoticedType, NoticedFields
  <2>3. new.pc = "insert" /\ new.history = r.history /\ new.spent = r.spent
    BY <2>1, <2>2, AgainFields
  <2> QED BY <1>9, <2>3 DEF BudgetInv, AllTold, Pending
<1>10. CASE r.pc = "failed" /\ new = Ended(Noticed(r), "error")
  BY <1>1, <1>10, NoticedType, NoticedFields DEF Results
<1>11. CASE new = [r EXCEPT !.elapsed = @ + 1]
  <2>1. new.pc = r.pc /\ new.history = r.history /\ new.spent = r.spent
    BY <1>11, TickFields
  <2> QED BY <2>1 DEF BudgetInv, AllTold, Pending
<1>12. CASE \E result \in Results : new = Ended(r, result)
  BY <1>1, <1>12
<1> QED BY <1>2, <1>3, <1>4, <1>5, <1>6, <1>7, <1>8, <1>9, <1>10, <1>11, <1>12 DEF Becomes, Results

LEMMA ValidStep ==
  ASSUME NEW r \in LocalState, ValidInv(r), NEW new, Becomes(r, new)
  PROVE  ValidInv(new)
<1>0. Usage \subseteq Nat /\ Delays \subseteq Nat
  BY BudgetAssumption
\* Most steps tell the flow nothing, and one that goes on keeps its verdicts.
<1>1. ASSUME new.pc # "ended", r.pc # "ended", new.result = r.result, new.history = r.history,
             new.illegal = r.illegal, new.spent.repairs = r.spent.repairs
      PROVE  ValidInv(new)
  BY <1>1 DEF ValidInv
<1>2. ASSUME NEW x \in LocalState, NEW result \in Results \ {"complete"} PROVE ValidInv(Ended(x, result))
  <2>1. Ended(x, result).pc = "ended" /\ Ended(x, result).result = result
    BY EndedType
  <2> QED BY <2>1 DEF ValidInv
<1>3. CASE new = [Idle EXCEPT !.pc = "loop"]
  <2>1. /\ new.pc = "loop" /\ new.result = "none" /\ new.history = <<>> /\ new.spent.repairs = 0
    BY <1>3, StartFields DEF ZERO_SPEND
  <2>2. Invalid(new.history) = {} /\ Legal(new.history)
    BY <2>1 DEF Invalid, Legal
  <2>3. Cardinality(Invalid(new.history)) = 0
    BY <2>2, FS_EmptySet
  <2> QED BY <2>1, <2>2, <2>3, BudgetAssumption DEF ValidInv
<1>4. CASE r.pc = "loop" /\ new = [r EXCEPT !.pc = "insert", !.attempt = 1]
  BY <1>1, <1>4, CallFields
<1>5. CASE r.pc = "insert" /\ \E n \in Nat : n >= r.attempt /\ new = Sent(r, n)
  BY <1>1, <1>5, SentFields
<1>6. CASE r.pc = "dispatch" /\ \E u \in Usage : new = Paid(r, u)
  BY <1>0, <1>1, <1>6, PaidFields
<1>7. CASE r.pc \in {"dispatch", "complete"} /\ \E c : new = Erred(r, c)
  BY <1>1, <1>7, ErredFields
<1>8. CASE r.pc = "complete" /\ \E a \in Answer : new = Continue(r, a)
  <2>1. PICK a \in Answer : new = Continue(r, a)
    BY <1>8
  <2> DEFINE told == Told(r, a)
             h == Append(r.history, a)
  <2>2. /\ told \in LocalState /\ told.pc = "loop" /\ told.history = h /\ told.result = r.result
        /\ told.illegal = (r.illegal \/ a.kind = "illegal") /\ told.spent = r.spent
    BY ToldType DEF Illegal
  <2>3. /\ r.result = "none" /\ (~r.illegal => Legal(r.history))
        /\ Cardinality(Invalid(r.history)) <= r.spent.repairs /\ r.spent.repairs <= MaxRepairs
    BY <1>8 DEF ValidInv
  <2>4. /\ Cardinality(Invalid(r.history)) \in Nat
        /\ a.kind # "invalid" => Cardinality(Invalid(h)) = Cardinality(Invalid(r.history))
        /\ a.kind = "invalid" => Cardinality(Invalid(h)) = Cardinality(Invalid(r.history)) + 1
        /\ Legal(r.history) /\ a.kind # "illegal" => Legal(h)
        /\ h[Len(h)] = a
    <3>1. r.history \in Seq(Answer)
      BY DEF LocalState
    <3> QED BY <3>1, InvalidGrows
  <2>5. a.tools \in Nat /\ r.elapsed \in Nat /\ r.spent \in Spend
    BY BudgetAssumption DEF Answer, LocalState
  <2>6. ASSUME NEW s \in Spend, new = Spent(told, s)
        PROVE  new.pc = "loop" /\ new.result = "none" /\ new.history = h /\ new.illegal = told.illegal /\ new.spent = s
    BY <2>2, <2>3, <2>6, SpentType
  <2>7. CASE a.kind \in {"tools", "illegal"} /\ new = Spent(told, ChargeTools(r.spent, a.tools, r.elapsed))
    <3>1. /\ ChargeTools(r.spent, a.tools, r.elapsed) \in Spend
          /\ ChargeTools(r.spent, a.tools, r.elapsed).repairs = r.spent.repairs
      BY <2>5, ChargeTypes DEF ChargeTools, Spend
    <3>2. /\ new.pc = "loop" /\ new.result = "none" /\ new.history = h /\ new.illegal = told.illegal
          /\ new.spent.repairs = r.spent.repairs
      BY <2>6, <2>7, <3>1
    <3>3. ~new.illegal => Legal(h)
      BY <2>2, <2>3, <2>4, <3>2
    <3>4. Cardinality(Invalid(h)) <= r.spent.repairs
      BY <2>3, <2>4, <2>7
    <3> QED BY <2>3, <3>2, <3>3, <3>4 DEF ValidInv
  <2>8. CASE a.kind = "invalid" /\ r.spent.repairs < MaxRepairs /\ new = Spent(told, ChargeRepair(r.spent, r.elapsed))
    <3>1. /\ ChargeRepair(r.spent, r.elapsed) \in Spend
          /\ ChargeRepair(r.spent, r.elapsed).repairs = r.spent.repairs + 1
      BY <2>5, ChargeTypes DEF ChargeRepair, Spend
    <3>2. /\ new.pc = "loop" /\ new.result = "none" /\ new.history = h /\ new.illegal = told.illegal
          /\ new.spent.repairs = r.spent.repairs + 1
      BY <2>6, <2>8, <3>1
    <3>3. ~new.illegal => Legal(h)
      BY <2>2, <2>3, <2>4, <2>8, <3>2
    <3>4. Cardinality(Invalid(h)) <= r.spent.repairs + 1 /\ r.spent.repairs + 1 <= MaxRepairs
      BY <2>3, <2>4, <2>8, Sizes
    <3> QED BY <3>2, <3>3, <3>4 DEF ValidInv
  <2>9. CASE a.kind = "valid" /\ new = Ended(told, IF Illegal(r, a) THEN "AI_TOOL_NOT_ALLOWED" ELSE "complete")
    <3>1. CASE Illegal(r, a)
      BY <1>2, <2>2, <2>9, <3>1 DEF Results
    <3>2. CASE ~Illegal(r, a)
      <4>1. new.pc = "ended" /\ new.history = h
        BY <2>2, <2>9, <3>2, EndedType DEF Results
      <4>2. Legal(h) /\ Cardinality(Invalid(h)) <= MaxRepairs
        BY <2>3, <2>4, <2>9, <3>2, Sizes DEF Illegal
      <4> QED BY <2>4, <2>9, <4>1, <4>2 DEF ValidInv
    <3> QED BY <3>1, <3>2
  <2>10. CASE a.kind = "invalid" /\ new = Ended(told, "inconclusive")
    BY <1>2, <2>2, <2>10 DEF Results
  <2> QED BY <2>1, <2>7, <2>8, <2>9, <2>10, ContinueCases
<1>9. CASE r.pc = "failed" /\ \E delay \in Delays : new = Again(Noticed(r), delay)
  <2>1. /\ Noticed(r) \in LocalState /\ Noticed(r).result = r.result /\ Noticed(r).history = r.history
        /\ Noticed(r).illegal = r.illegal /\ Noticed(r).spent = r.spent
    BY NoticedType, NoticedFields
  <2> QED BY <1>1, <1>9, <2>1, AgainFields
<1>10. CASE r.pc = "failed" /\ new = Ended(Noticed(r), "error")
  BY <1>2, <1>10, NoticedType DEF Results
<1>11. CASE r.pc \in {"insert", "dispatch"} /\ new = [r EXCEPT !.elapsed = @ + 1]
  BY <1>1, <1>11, TickFields
<1>12. CASE \E result \in Results \ {"complete"} : new = Ended(r, result)
  BY <1>2, <1>12
<1> QED BY <1>3, <1>4, <1>5, <1>6, <1>7, <1>8, <1>9, <1>10, <1>11, <1>12 DEF Becomes, Results

LEMMA BreakerStep ==
  ASSUME NEW r \in LocalState, BreakerInv(r), NEW new, Becomes(r, new)
  PROVE  BreakerInv(new)
<1>0. Usage \subseteq Nat /\ Delays \subseteq Nat /\ Closed.transport = 0 /\ Closed.auth = 0
  BY BudgetAssumption DEF Closed
\* The four steps inside an attempt leave the breaker and the attempt alone.
<1>1. ASSUME r.pc \in Calling, new.pc \in {"dispatch", "complete", "failed"}, new.breaker = r.breaker,
             new.attempt = r.attempt
      PROVE  BreakerInv(new)
  BY <1>1 DEF BreakerInv, Calling
<1>2. ASSUME NEW x \in LocalState, NEW result \in Results, x.breaker.transport <= 4, x.breaker.auth <= 1
      PROVE  BreakerInv(Ended(x, result))
  <2>1. Ended(x, result).pc = "ended" /\ Ended(x, result).breaker = x.breaker
    BY EndedType
  <2> QED BY <1>2, <2>1 DEF BreakerInv, Calling
<1>3. CASE new = [Idle EXCEPT !.pc = "loop"]
  <2>1. new.pc = "loop" /\ new.breaker = Closed
    BY <1>3, StartFields
  <2> QED BY <1>0, <2>1 DEF BreakerInv, Calling
<1>4. CASE r.pc = "loop" /\ new = [r EXCEPT !.pc = "insert", !.attempt = 1]
  <2>1. new.pc = "insert" /\ new.attempt = 1 /\ new.breaker = r.breaker
    BY <1>4, CallFields
  <2> QED BY <1>0, <1>4, <2>1 DEF BreakerInv, Calling
<1>5. CASE r.pc = "insert" /\ \E n \in Nat : n >= r.attempt /\ new = Sent(r, n)
  BY <1>1, <1>5, SentFields DEF Calling
<1>6. CASE r.pc = "dispatch" /\ \E u \in Usage : new = Paid(r, u)
  BY <1>0, <1>1, <1>6, PaidFields DEF Calling
<1>7. CASE r.pc \in {"dispatch", "complete"} /\ \E c : new = Erred(r, c)
  BY <1>1, <1>7, ErredFields DEF Calling
<1>8. CASE r.pc = "complete" /\ \E a \in Answer : new = Continue(r, a)
  <2>1. PICK a \in Answer : new = Continue(r, a)
    BY <1>8
  <2>2. Told(r, a) \in LocalState /\ Told(r, a).breaker = Closed /\ Told(r, a).pc = "loop"
    BY ToldType
  <2>3. \A result \in Results : BreakerInv(Ended(Told(r, a), result))
    BY <1>0, <1>2, <2>2
  <2>4. ASSUME NEW s \in Spend PROVE BreakerInv(Spent(Told(r, a), s))
    <3>1. Spent(Told(r, a), s).pc = "loop" /\ Spent(Told(r, a), s).breaker = Closed
      BY <2>2, SpentType
    <3> QED BY <1>0, <3>1 DEF BreakerInv, Calling
  <2>5. ChargeTools(r.spent, a.tools, r.elapsed) \in Spend /\ ChargeRepair(r.spent, r.elapsed) \in Spend
    <3>1. a.tools \in Nat /\ r.elapsed \in Nat /\ r.spent \in Spend
      BY BudgetAssumption DEF Answer, LocalState
    <3> QED BY <3>1, ChargeTypes
  <2> QED BY <2>1, <2>3, <2>4, <2>5, ContinueCases DEF Results
\* One more failure of the class: of transport before the fifth, of auth the first.
<1>9. ASSUME r.pc = "failed"
      PROVE  /\ Noticed(r) \in LocalState
             /\ Noticed(r).breaker.transport <= r.attempt /\ r.attempt <= 4 /\ Noticed(r).breaker.auth <= 1
             /\ retryable(r.error) => Noticed(r).breaker.auth = 0
  <2>1. r.attempt \in 1 .. 4 /\ r.breaker.transport < r.attempt /\ r.breaker.auth = 0
    BY <1>9 DEF BreakerInv, Calling
  <2>2. Noticed(r) \in LocalState /\ Noticed(r).breaker = onFailure(r.breaker, r.error)
    BY NoticedType, NoticedFields
  <2>3. r.breaker \in [transport : Nat, auth : Nat]
    BY DEF LocalState
  <2>4. /\ onFailure(r.breaker, r.error).transport \in {r.breaker.transport, r.breaker.transport + 1}
        /\ onFailure(r.breaker, r.error).auth <= 1
        /\ retryable(r.error) => onFailure(r.breaker, r.error).auth = 0
    BY <2>1, <2>3 DEF onFailure, retryable
  <2>5. r.breaker.transport \in Nat
    BY <2>3
  <2>6. onFailure(r.breaker, r.error).transport <= r.attempt /\ r.attempt <= 4
    BY <2>1, <2>4, <2>5
  <2> QED BY <2>2, <2>4, <2>6
<1>10. CASE r.pc = "failed" /\ \E delay \in Delays :
          shouldRetry(r.error, r.attempt, r.elapsed, delay) /\ new = Again(Noticed(r), delay)
  <2>1. PICK delay \in Delays : shouldRetry(r.error, r.attempt, r.elapsed, delay) /\ new = Again(Noticed(r), delay)
    BY <1>10
  <2>2. Noticed(r).attempt = r.attempt /\ Noticed(r).elapsed = r.elapsed
    BY NoticedFields
  <2>3. /\ new.pc = "insert" /\ new.breaker = Noticed(r).breaker
        /\ new.attempt = r.attempt + 1 /\ new.wake = r.elapsed + delay
    BY <1>9, <1>10, <2>1, <2>2, AgainFields
  <2>4. r.attempt < 4 /\ retryable(r.error) /\ new.wake < MaxWallClock
    <3>1. retryable(r.error) /\ r.attempt < ATTEMPTS(r.error) /\ new.wake < MaxWallClock
      BY <2>1, <2>3 DEF shouldRetry
    <3>2. ATTEMPTS(r.error) \in 1 .. 4
      BY <3>1 DEF ATTEMPTS, retryable
    <3> QED BY <3>1, <3>2, Sizes
  <2>5. r.attempt \in 1 .. 4
    BY <1>10 DEF BreakerInv, Calling
  <2>6. Noticed(r).breaker.transport \in Nat
    BY <1>9, <1>10 DEF LocalState
  <2> QED BY <1>9, <1>10, <2>3, <2>4, <2>5, <2>6 DEF BreakerInv, Calling
<1>11. CASE r.pc = "failed" /\ new = Ended(Noticed(r), "error")
  <2>1. Noticed(r).breaker.transport \in Nat
    BY <1>9, <1>11 DEF LocalState
  <2> QED BY <1>2, <1>9, <1>11, <2>1, Sizes DEF Results
<1>12. CASE r.pc \in {"insert", "dispatch"} /\ new = [r EXCEPT !.elapsed = @ + 1]
  <2>1. new.pc = r.pc /\ new.breaker = r.breaker /\ new.attempt = r.attempt /\ new.wake = r.wake
    BY <1>12, TickFields
  <2> QED BY <1>12, <2>1 DEF BreakerInv, Calling
<1>13. CASE \E result \in Results : new = Ended(r, result)
  <2>1. r.breaker.transport <= 4 /\ r.breaker.auth <= 1
    BY DEF BreakerInv
  <2> QED BY <1>2, <1>13, <2>1
<1> QED
  BY <1>3, <1>4, <1>5, <1>6, <1>7, <1>8, <1>10, <1>11, <1>12, <1>13 DEF Becomes, Results

-----------------------------------------------------------------------------

FlowInv == \A f \in Flows : BudgetInv(run[f]) /\ ValidInv(run[f]) /\ BreakerInv(run[f])

LEMMA FlowInit == Init => FlowInv
<1> SUFFICES ASSUME Init, NEW f \in Flows PROVE BudgetInv(run[f]) /\ ValidInv(run[f]) /\ BreakerInv(run[f])
  BY DEF FlowInv
<1>1. run[f] = Idle
  BY DEF Init
<1>2. /\ Idle.pc = "off" /\ Idle.result = "none" /\ Idle.history = <<>> /\ Idle.breaker = Closed
      /\ Idle.spent.turns = 0 /\ Idle.spent.tokens = 0 /\ Idle.spent.repairs = 0
  BY DEF Idle, ZERO_SPEND
<1>3. Len(Idle.history) = 0 /\ Invalid(Idle.history) = {} /\ Legal(Idle.history)
  BY <1>2 DEF Invalid, Legal
<1>4. MaxTurns \in Nat /\ MaxTokens \in Nat /\ MaxRepairs \in Nat
  BY BudgetAssumption
<1>5. BudgetInv(Idle)
  BY <1>2, <1>3, <1>4 DEF BudgetInv, AllTold, Pending
<1>6. ValidInv(Idle)
  <2>1. Cardinality(Invalid(Idle.history)) = 0
    BY <1>3, FS_EmptySet
  <2> QED BY <1>2, <1>3, <1>4, <2>1 DEF ValidInv
<1>7. BreakerInv(Idle)
  BY <1>2 DEF BreakerInv, Calling, Closed
<1> QED BY <1>1, <1>5, <1>6, <1>7

LEMMA FlowNext == TypeInv /\ FlowInv /\ [Next]_vars => FlowInv'
<1> SUFFICES ASSUME TypeInv, FlowInv, [Next]_vars PROVE FlowInv'
  OBVIOUS
<1>1. CASE UNCHANGED vars
  BY <1>1 DEF vars, FlowInv
<1>2. ASSUME NEW f \in Flows, Move(f) PROVE FlowInv'
  <2>1. PICK new : run' = [run EXCEPT ![f] = new] /\ Becomes(run[f], new)
    BY <1>2, LocalSteps
  <2>2. run[f] \in LocalState /\ run'[f] = new /\ \A g \in Flows \ {f} : run'[g] = run[g]
    BY <2>1 DEF TypeInv
  <2>3. BudgetInv(new) /\ ValidInv(new) /\ BreakerInv(new)
    BY <2>1, <2>2, BudgetStep, ValidStep, BreakerStep DEF FlowInv
  <2> QED BY <2>2, <2>3 DEF FlowInv
<1> QED BY <1>1, <1>2 DEF Next, Move

LEMMA FlowAlways == Spec => [](TypeInv /\ FlowInv)
BY TypeInit, TypeNext, FlowInit, FlowNext, PTL DEF Spec

\* A flow spends more tokens or turns than it may only when an answer it paid
\* for could not be recorded, and so was never told to it.
THEOREM StaysInBudget == Spec => []WithinBudget
<1>1. TypeInv /\ FlowInv => WithinBudget
  <2> SUFFICES ASSUME TypeInv, NEW f \in Flows, BudgetInv(run[f]),
                      run[f].spent.tokens > MaxTokens \/ run[f].spent.turns > MaxTurns
               PROVE  Unrecorded(f)
    BY DEF FlowInv, WithinBudget
  <2>0. run[f] \in LocalState
    BY DEF TypeInv
  <2>1. /\ run[f].spent.turns \in Nat /\ Len(run[f].history) \in Nat /\ run[f].spent.tokens \in Nat
        /\ MaxTokens \in Nat /\ MaxTurns \in Nat
    BY <2>0, Sizes
  <2>2. run[f].spent.turns # Len(run[f].history) + Pending(run[f])
    <3>1. AllTold(run[f]) => run[f].spent.tokens <= MaxTokens /\ run[f].spent.turns <= MaxTurns
      BY DEF BudgetInv
    <3>2. ~AllTold(run[f])
      BY <2>1, <3>1
    <3> QED BY <3>2 DEF AllTold
  <2>3. run[f].spent.turns >= Len(run[f].history) + Pending(run[f]) /\ Pending(run[f]) \in Nat
    BY DEF BudgetInv, Pending
  <2>4. Pending(run[f]) = IF At(f, "complete") THEN 1 ELSE 0
    BY DEF Pending, At
  <2>5. run[f].spent.turns > Len(run[f].history) + Pending(run[f])
    BY <2>1, <2>2, <2>3
  <2> QED BY <2>4, <2>5 DEF Unrecorded
<1> QED BY <1>1, FlowAlways, PTL

\* What leaves a flow as complete was validated, with no tool call the flow
\* does not allow on the way and at most MaxRepairs repairs.
THEOREM LeavesValidated == Spec => []OnlyValidatedLeaves
<1>1. FlowInv => OnlyValidatedLeaves
  BY DEF FlowInv, ValidInv, OnlyValidatedLeaves, Legal, Invalid
<1> QED BY <1>1, FlowAlways, PTL

\* The circuit breaker, of which every command has its own, never opens.
THEOREM BreakerNeverOpens == Spec => []BreakerStaysClosed
<1>1. TypeInv /\ FlowInv => BreakerStaysClosed
  BY Sizes DEF TypeInv, FlowInv, BreakerInv, BreakerStaysClosed, open, TRANSPORT_TRIP_AT, AUTH_TRIP_AT
<1> QED BY <1>1, FlowAlways, PTL

\* No retry sleeps past the deadline all calls of the flow share.
THEOREM RetriesKeepDeadline == Spec => []RetriesBeforeDeadline
<1>1. FlowInv => RetriesBeforeDeadline
  BY DEF FlowInv, BreakerInv, RetriesBeforeDeadline, At
<1> QED BY <1>1, FlowAlways, PTL

=============================================================================
