------------------------------- MODULE AiFlow -------------------------------
(***************************************************************************)
(* Commands that ask the language model: the turn loop of one flow         *)
(* (packages/ai-flows/src/runner.ts) on its gateway, budget, retries and   *)
(* circuit breaker (packages/ai-gateway), and the ledger of AI calls the   *)
(* commands share.  A command is a process with a gateway of its own and   *)
(* runs one flow; here all run the same flow on the same input, so their   *)
(* calls may be the same logical call.  The model is priced, one unit a    *)
(* token.  Time is counted from the start of each flow.                    *)
(***************************************************************************)
EXTENDS Naturals, Sequences, FiniteSets

CONSTANTS
  Flows,         \* the commands, each running the flow once
  MaxTurns, MaxToolCalls, MaxRepairs, MaxWallClock, MaxTokens,  \* the flow's budget
  PartialCapable,
  Ceiling,       \* llm.budgets.perInvestigationUsd
  Planned,       \* prompt estimate and maxOutputTokens of a call
  Usage,         \* what a call may really use
  ToolsPerTurn,  \* bound on the tool calls of one answer
  Errors,        \* the classes the provider fails with
  Delays         \* what backoff or Retry-After may come to

ErrorClass == {"AUTH", "RATE_LIMIT", "TIMEOUT", "PROVIDER_UNAVAILABLE", "SCHEMA_MISMATCH"}

ASSUME BudgetAssumption ==
  /\ {MaxTurns, MaxToolCalls, MaxRepairs, MaxWallClock, MaxTokens, Ceiling, Planned, ToolsPerTurn} \subseteq Nat
  /\ PartialCapable \in BOOLEAN
  /\ Delays \subseteq Nat /\ Errors \subseteq ErrorClass
  \* The estimate is an over-estimate and the provider honours maxTokens.
  /\ Usage \subseteq 0 .. Planned

VARIABLES
  ledger,  \* ai_calls: request id -> row
  bill,    \* request id -> what the provider counted for it (observation)
  run      \* run[f]: the state of a command

vars == <<ledger, bill, run>>

\* What the model answers: text that validates or not, or tool calls, all of
\* them allowlisted or not.
Answer ==
  [kind : {"valid", "invalid"}, tools : {0}] \cup [kind : {"tools", "illegal"}, tools : 1 .. ToolsPerTurn]

retryable(c) == c \in {"RATE_LIMIT", "TIMEOUT", "PROVIDER_UNAVAILABLE"}

ATTEMPTS(c) ==
  CASE c = "RATE_LIMIT" -> 4 [] c = "PROVIDER_UNAVAILABLE" -> 3 [] c = "TIMEOUT" -> 2 [] OTHER -> 1

TRANSPORT_TRIP_AT == 5
AUTH_TRIP_AT      == 3

\* deriveRequestId: the input of a turn is the history that led to it.
RequestId(history, index) == <<history, index>>

\* A table with one more row.
With(table, id, row) == [x \in DOMAIN table \cup {id} |-> IF x = id THEN row ELSE table[x]]

\* The ids are taken in turn, from the attempt's own index up, and are never freed.
FirstFree(history, from) ==
  CHOOSE n \in from .. from + Cardinality(DOMAIN ledger) :
    /\ RequestId(history, n) \notin DOMAIN ledger
    /\ \A m \in from .. n - 1 : RequestId(history, m) \in DOMAIN ledger

-----------------------------------------------------------------------------
(* Budget and retry decisions.                                             *)

Spend == [turns : Nat, tokens : Nat, tools : Nat, repairs : Nat, elapsed : Nat]

ZERO_SPEND == [turns |-> 0, tokens |-> 0, tools |-> 0, repairs |-> 0, elapsed |-> 0]

\* BudgetTracker.exhausted, with the clock.  No tool calls allowed is a
\* tool-free flow, not an exhausted one.
exhausted(s, now) ==
  \/ s.turns >= MaxTurns
  \/ now >= MaxWallClock
  \/ MaxToolCalls > 0 /\ s.tools >= MaxToolCalls
  \/ s.tokens >= MaxTokens
  \/ s.repairs > MaxRepairs

CommittedOnly(s) == ~exhausted(s, s.elapsed)  \* mutant: the call to come is not counted

\* preflight: committed spend and the worst case of the call to come.  The
\* investigation's spend it is given is the spend of this flow.
preflight(s) ==
  /\ ~exhausted(s, s.elapsed)
  /\ s.tokens + Planned <= MaxTokens
  /\ s.tokens + Planned <= Ceiling

ChargeCall(s, tokens, now) ==
  [s EXCEPT !.turns = @ + 1, !.tokens = @ + tokens, !.elapsed = now]
ChargeTools(s, calls, now) == [s EXCEPT !.tools = @ + calls, !.elapsed = now]
ChargeRepair(s, now)       == [s EXCEPT !.repairs = @ + 1, !.elapsed = now]

\* nextDelay: the retries of a call share the deadline of the flow.
shouldRetry(c, attempt, now, delay) ==
  retryable(c) /\ attempt < ATTEMPTS(c) /\ now + delay < MaxWallClock

\* CircuitBreaker of the gateway.  The cooldown is left out: BreakerStaysClosed.
Closed == [transport |-> 0, auth |-> 0]

open(b) == b.transport >= TRANSPORT_TRIP_AT \/ b.auth >= AUTH_TRIP_AT

onFailure(b, c) ==
  IF c = "AUTH" THEN [b EXCEPT !.auth = @ + 1]
  ELSE IF retryable(c) THEN [b EXCEPT !.transport = @ + 1] ELSE b

-----------------------------------------------------------------------------

Idle ==
  [ pc |-> "off", result |-> "none",
    history |-> <<>>, illegal |-> FALSE,          \* messages; an unallowlisted tool was asked for
    spent |-> ZERO_SPEND, elapsed |-> 0,
    attempt |-> 0, offset |-> 0, wake |-> 0,      \* of the call under way
    used |-> 0, error |-> "none",
    breaker |-> Closed ]

At(f, label) == run[f].pc = label
Running(f)   == run[f].pc \notin {"off", "ended"}

\* The row of the attempt under way.
Current(f) == RequestId(run[f].history, run[f].attempt + run[f].offset)

Set(f, r) == run' = [run EXCEPT ![f] = r]

\* Only what was told, spent and returned outlives the flow.
Ended(r, result) ==
  [Idle EXCEPT !.pc = "ended", !.result = result, !.history = r.history, !.spent = r.spent, !.breaker = r.breaker]

Init ==
  /\ ledger = <<>>
  /\ bill = <<>>
  /\ run = [f \in Flows |-> Idle]

Start(f) ==
  /\ At(f, "off")
  /\ Set(f, [Idle EXCEPT !.pc = "loop"])
  /\ UNCHANGED <<ledger, bill>>

\* The head of the loop, and of the gateway's call.
Turn(f) ==
  /\ At(f, "loop")
  /\ LET r == run[f] IN
     Set(f, IF exhausted(r.spent, r.elapsed) THEN Ended(r, IF PartialCapable THEN "partial" ELSE "inconclusive")
            ELSE IF ~preflight(r.spent) THEN Ended(r, "AI_BUDGET_EXCEEDED")
            ELSE [r EXCEPT !.pc = "insert", !.attempt = 1])
  /\ UNCHANGED <<ledger, bill>>

Asleep(f) == At(f, "insert") /\ run[f].elapsed < run[f].wake

ReuseRow(f) == run[f].attempt + run[f].offset  \* mutant: a row that exists is taken over

LedgerIndex(f) == FirstFree(run[f].history, run[f].attempt + run[f].offset)

\* One attempt: the breaker, then a row of its own, IN_FLIGHT before anything is sent.
Insert(f) ==
  /\ At(f, "insert")
  /\ ~Asleep(f)
  /\ IF open(run[f].breaker)
     THEN Set(f, Ended(run[f], "CIRCUIT_OPEN")) /\ UNCHANGED ledger
     ELSE LET n == LedgerIndex(f) IN
          /\ ledger' = With(ledger, RequestId(run[f].history, n), [state |-> "IN_FLIGHT", tokens |-> 0])
          /\ Set(f, [run[f] EXCEPT !.pc = "dispatch", !.offset = n - run[f].attempt, !.wake = 0,
                                   !.error = "none"])
  /\ UNCHANGED bill

\* The provider answers, and the budget is charged.
Answered(f) ==
  /\ At(f, "dispatch")
  /\ \E u \in Usage :
       /\ bill' = With(bill, Current(f), u)
       /\ Set(f, [run[f] EXCEPT !.pc = "complete", !.used = u,
                                !.spent = ChargeCall(@, u, run[f].elapsed)])
  /\ UNCHANGED ledger

Refused(f) ==
  /\ At(f, "dispatch")
  /\ \E c \in Errors : Set(f, [run[f] EXCEPT !.pc = "failed", !.error = c])
  /\ UNCHANGED <<ledger, bill>>

\* completeAiCall: a row settles once (trigger ai_calls_only_settle).
Settle(f, row) ==
  /\ ledger[Current(f)].state = "IN_FLIGHT"
  /\ ledger' = [ledger EXCEPT ![Current(f)] = row]

ForgiveTools(r, a) == a.kind = "illegal"  \* mutant: a later answer clears the refused tool

Illegal(r, a) == r.illegal \/ a.kind = "illegal"

\* runFlow after the call: tools are run and charged, text is validated, and
\* invalid text is repaired while the flow has repairs left.
Continue(r, a) ==
  LET told == [r EXCEPT !.history = Append(@, a), !.illegal = Illegal(r, a), !.pc = "loop",
                        !.attempt = 0, !.offset = 0, !.wake = 0, !.used = 0, !.breaker = Closed]
  IN CASE a.tools > 0 -> [told EXCEPT !.spent = ChargeTools(@, a.tools, r.elapsed)]
       [] a.kind = "valid" -> Ended(told, IF told.illegal THEN "AI_TOOL_NOT_ALLOWED" ELSE "complete")
       [] OTHER -> IF r.spent.repairs >= MaxRepairs THEN Ended(told, "inconclusive")
                   ELSE [told EXCEPT !.spent = ChargeRepair(@, r.elapsed)]

EstimatedRow(used) == [state |-> "COMPLETE", tokens |-> Planned]  \* mutant: the estimate is recorded

CompleteRow(used) == [state |-> "COMPLETE", tokens |-> used]

Complete(f) ==
  /\ At(f, "complete")
  /\ Settle(f, CompleteRow(run[f].used))
  /\ \E a \in Answer : Set(f, Continue(run[f], a))
  /\ UNCHANGED bill

\* The transaction that completes the row fails: any error the table does not
\* know is taken for a transport failure.
CompletionFails(f) ==
  /\ At(f, "complete")
  /\ Set(f, [run[f] EXCEPT !.pc = "failed", !.error = "PROVIDER_UNAVAILABLE"])
  /\ UNCHANGED <<ledger, bill>>

Failed(f) ==
  /\ At(f, "failed")
  /\ Settle(f, [state |-> "FAILED", tokens |-> 0])
  /\ \E delay \in Delays :
       LET r    == run[f]
           next == [r EXCEPT !.breaker = onFailure(@, r.error)]
       IN Set(f, IF shouldRetry(r.error, r.attempt, r.elapsed, delay)
                 THEN [next EXCEPT !.pc = "insert", !.attempt = @ + 1, !.wake = r.elapsed + delay, !.used = 0]
                 ELSE Ended(next, "error"))
  /\ UNCHANGED bill

\* The process dies, or an error of the store ends the command.
Crash(f) ==
  /\ Running(f)
  /\ Set(f, Ended(run[f], "crashed"))
  /\ UNCHANGED <<ledger, bill>>

\* Time passes in a call and in a backoff; beyond the deadline it tells nothing more.
Tick(f) ==
  /\ At(f, "dispatch") \/ Asleep(f)
  /\ run[f].elapsed < MaxWallClock
  /\ Set(f, [run[f] EXCEPT !.elapsed = @ + 1])
  /\ UNCHANGED <<ledger, bill>>

\* The steps the command takes by itself, or the provider within its timeout.
Proceed(f) ==
  \/ Turn(f) \/ Insert(f) \/ Answered(f) \/ Refused(f)
  \/ Complete(f) \/ CompletionFails(f) \/ Failed(f)

Next == \E f \in Flows : Start(f) \/ Proceed(f) \/ Tick(f) \/ Crash(f)

Spec == Init /\ [][Next]_vars

-----------------------------------------------------------------------------
(* Properties.                                                             *)

TypeOK ==
  /\ \A id \in DOMAIN ledger :
       ledger[id].state \in {"IN_FLIGHT", "COMPLETE", "FAILED"} /\ ledger[id].tokens \in Nat
  /\ \A f \in Flows :
       /\ run[f].pc \in {"off", "loop", "insert", "dispatch", "complete", "failed", "ended"}
       /\ run[f].spent \in Spend
       /\ run[f].elapsed \in 0 .. MaxWallClock
       /\ run[f].history \in Seq(Answer)

\* What the ledger says of a call never changes once it is settled, and two
\* commands never settle the same call: a command that runs the same logical
\* call again, or at the same time, gets a row of its own.
SettledOnce ==
  [][\A id \in DOMAIN ledger :
       /\ id \in DOMAIN ledger'
       /\ ledger[id].state # "IN_FLIGHT" => ledger'[id] = ledger[id]]_vars

OwnRow ==
  \A f, g \in Flows :
    f # g /\ {run[f].pc, run[g].pc} \subseteq {"dispatch", "complete", "failed"} => Current(f) # Current(g)

\* No spend without a row, whoever crashed and wherever, and a row that says
\* COMPLETE says what the provider counted.
SpendHasRow ==
  \A id \in DOMAIN bill :
    /\ id \in DOMAIN ledger
    /\ ledger[id].state = "COMPLETE" => ledger[id].tokens = bill[id]

\* An answer the flow paid for and was not told, because it could not be recorded.
Unrecorded(f) ==
  run[f].spent.turns > Len(run[f].history) + (IF At(f, "complete") THEN 1 ELSE 0)

\* Worst case and limit are compared before the first attempt only; a flow still
\* stays within its budget unless an answer it paid for could not be recorded.
WithinBudget ==
  \A f \in Flows :
    run[f].spent.tokens > MaxTokens \/ run[f].spent.turns > MaxTurns => Unrecorded(f)

\* Nothing leaves a flow as complete but a validated answer, at most MaxRepairs
\* repairs later, of a model that never reached for a tool outside the allowlist.
OnlyValidatedLeaves ==
  \A f \in Flows : run[f].result = "complete" =>
    /\ run[f].history[Len(run[f].history)].kind = "valid"
    /\ \A n \in DOMAIN run[f].history : run[f].history[n].kind # "illegal"
    /\ Cardinality({n \in DOMAIN run[f].history : run[f].history[n].kind = "invalid"}) <= MaxRepairs

\* The breaker of a command never opens: a flow ends with its first call that
\* fails for good, and no class is attempted as often as the breaker needs.
BreakerStaysClosed == \A f \in Flows : ~open(run[f].breaker)

\* A retry never starts once the flow's wall-clock budget is used up.
RetriesBeforeDeadline ==
  \A f \in Flows : At(f, "insert") /\ run[f].attempt > 1 => run[f].wake < MaxWallClock
=============================================================================
