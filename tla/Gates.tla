------------------------------- MODULE Gates -------------------------------
(***************************************************************************)
(* The path from a proposal to the browser: `investigate plan', `approve'  *)
(* and `run' (apps/cli/src/commands), the gate plumbing they share         *)
(* (apps/cli/src/gates.ts), the decisions of packages/approvals, and the   *)
(* lineage edges that are to explain each run afterwards.                  *)
(*                                                                         *)
(* A bundle is the canonical bytes of a proposal; its checksum is          *)
(* injective, so the bundle stands for it.  An item's content stands for   *)
(* everything an edit may change.  How a job is claimed, run and reaped is *)
(* RunCommand's subject: here a run is one step.                           *)
(***************************************************************************)
EXTENDS Naturals, FiniteSets, SequencesExt

CONSTANTS
  Process,      \* processes that may have the workspace open
  Gate,         \* the gates proposals are rendered for
  Item,         \* proposal item ids
  Content,      \* what an item asks to be executed
  Destructive,  \* the contents classifyExperiment calls destructive
  Proposable,   \* the items (with contents) a plan for a gate may consist of
  None,
  MaxRetries,   \* execution.maxInfraRetriesPerRepetition
  Statements,   \* what approval files may say: decision, items, edits, acknowledgements
  MaxCommands   \* bounds on the commands started, of each kind

GATES == <<"experiment_selection", "target_failure", "final_reproduction">>

GATE_ORDER(g) == CHOOSE n \in 1 .. 3 : GATES[n] = g

Items == UNION { [S -> Content] : S \in SUBSET Item \ {{}} }
\* Edits give items of a bundle another content.
Edits == UNION { [S -> Content] : S \in SUBSET Item }

Bundle == [gate : Gate, items : Items, renderedAt : 1 .. MaxCommands["plan"]]

Decision == {"approve", "reject", "request_changes"}

ASSUME GateAssumption == Gate \subseteq {GATES[n] : n \in 1 .. 3}

\* A bundle has finitely many items.
ASSUME ItemAssumption == IsFiniteSet(Item)

ASSUME ContentAssumption ==
  /\ Destructive \subseteq Content
  /\ Proposable \in [Gate -> SUBSET Items]
  /\ Statements \subseteq [decision : Decision, items : SUBSET Item, edits : Edits, acks : SUBSET Item]
Command == {"plan", "approve", "run"}

ASSUME BoundsAssumption ==
  /\ MaxRetries \in Nat
  /\ MaxCommands \in [Command -> Nat]

Attempt == 0 .. MaxRetries
JobKey  == Item \X Attempt

VARIABLES
  disk,      \* disk[g]: the proposal file of a gate, or None
  approvals, \* the approvals rows, in the order of recordedAt: append-only
  expired,   \* the ids of those decided longer than approvals.expiryHours ago
  counter,   \* the sequence "approval"
  jobs,      \* jobs[k]: a queue row, or None
  edges,     \* the lineage edges: append-only
  proc,      \* proc[p]: program counter and local variables
  started    \* started[c]: how many commands of a kind were started

vars == <<disk, approvals, expired, counter, jobs, edges, proc, started>>

\* An approval file: what a human wrote, having read the bundle `proposal'.
Record ==
  [ id : Nat, gate : Gate, proposal : Bundle, effective : Bundle, decision : Decision,
    items : SUBSET Item, edits : Edits,
    acks : SUBSET Item, read : Bundle ]

\* An edge: [edge, from, to, human].  A node is a pair of a word and an id;
\* human: its actor is a person with an approval id.  "approved_as" stands for
\* approved_signature and approved_reproduction too (EDGE_FOR_GATE).

-----------------------------------------------------------------------------
(* packages/approvals: pure functions over the rows A, which are named by  *)
(* their positions.                                                        *)

ForGate(A, g) == { n \in DOMAIN A : A[n].gate = g }

\* approvedRecordFor: the latest approval, whatever was rendered or decided since.
Approved(A, g)          == { n \in ForGate(A, g) : A[n].decision = "approve" }
approvedRecordFor(A, g) == IF Approved(A, g) = {} THEN None ELSE A[Max(Approved(A, g))]

AnyGateReachable(g, A) == TRUE  \* mutant: no assertGateReachable

GateReachable(g, A) ==
  \A n \in 1 .. GATE_ORDER(g) - 1 : approvedRecordFor(A, GATES[n]) # None

isExpired(r) == r.id \in expired

\* applyEdits: the effective bundle.
applyEdits(b, edits) ==
  [b EXCEPT !.items = [i \in DOMAIN b.items |-> IF i \in DOMAIN edits THEN edits[i] ELSE b.items[i]]]

ApprovedItems(file) == IF file.decision = "approve" THEN file.items ELSE {}

\* Checks 2 and 3: --checksum, the file and the disk agree.
ChecksumsAgree(file, b) == file.read = b

NotAlreadyDecided(A, g, b) == \A n \in ForGate(A, g) : A[n].proposal # b

AckedBeforeEdits(file, b) ==  \* mutant: the classifier is given the bundle before the edits
  \A i \in ApprovedItems(file) : b.items[i] \in Destructive => i \in file.acks

\* Check 8: every destructive item that is approved is acknowledged.
Acknowledged(file, b) ==
  \A i \in ApprovedItems(file) : applyEdits(b, file.edits).items[i] \in Destructive => i \in file.acks

\* validateApproval.  Check 4 compares the file on disk with an artifact that is
\* looked up by the hash of the file on disk, so that it cannot fail.
Valid(A, file, b) ==
  /\ ChecksumsAgree(file, b)
  /\ GateReachable(b.gate, A)
  /\ NotAlreadyDecided(A, b.gate, b)
  /\ (file.items \cup file.acks \cup DOMAIN file.edits) \subseteq DOMAIN b.items
  /\ \A i \in DOMAIN file.edits : file.read.items[i] = b.items[i]  \* `from'
  /\ Acknowledged(file, b)

-----------------------------------------------------------------------------

PC == {"off", "record", "edges",
       "enqueue", "scheduled", "drain", "executed"}

Idle ==
  [ pc     |-> "off",
    file   |-> None, bundle |-> None, id |-> 0,   \* approve: the file, the bytes read, its number
    rec    |-> None, todo |-> {}, item |-> None,  \* the record acted on, items left, the current one
    left   |-> 0, done |-> {} ]                   \* run: repetitions left, jobs executed

\* Lists are gone through in their order, which is any one order.
NextOf(S) == CHOOSE e \in S : TRUE

At(p, label) == proc[p].pc = label

Init ==
  /\ disk = [g \in Gate |-> None]
  /\ approvals = <<>>
  /\ expired = {}
  /\ counter = 0
  /\ jobs = [k \in JobKey |-> None]
  /\ edges = {}
  /\ proc = [p \in Process |-> Idle]
  /\ started = [c \in Command |-> 0]

Free(p, c) == At(p, "off") /\ started[c] < MaxCommands[c]

MayStart(p, c) ==
  /\ Free(p, c)
  /\ started' = [started EXCEPT ![c] = @ + 1]

\* plan: the proposal triple is written over the previous one.  (It is also put
\* in the artifact store, and an edge names each item; nothing below reads them.)
Plan(p, g, items) ==
  /\ MayStart(p, "plan")
  /\ LET b == [gate |-> g, items |-> items, renderedAt |-> started["plan"] + 1] IN
     disk' = [disk EXCEPT ![g] = b]
  /\ UNCHANGED <<approvals, expired, counter, jobs, edges, proc>>

\* approve: the proposal is read from disk, the rows are listed, the checks made
\* and a number taken; a check that fails ends the command with nothing changed.
\* The record is inserted later, after the artifacts have been put.
Approve(p, g, file) ==
  /\ MayStart(p, "approve")
  /\ disk[g] # None
  /\ Valid(approvals, file, disk[g])
  /\ counter' = counter + 1
  /\ proc' = [proc EXCEPT ![p] = [Idle EXCEPT !.pc = "record", !.file = file, !.bundle = disk[g],
                                              !.id = counter + 1]]
  /\ UNCHANGED <<disk, approvals, expired, jobs, edges>>

EffectiveFromDisk(p) ==  \* mutant: the proposal is read again when it is stored
  applyEdits(disk[proc[p].bundle.gate], proc[p].file.edits)

Effective(p) == applyEdits(proc[p].bundle, proc[p].file.edits)

EveryItem(r) == DOMAIN r.effective.items  \* mutant: an edge for each item of the bundle

EdgeItems(r) == r.items

RecordDecision(p) ==
  /\ At(p, "record")
  /\ LET f == proc[p].file
         b == proc[p].bundle
         r == [ id |-> proc[p].id, gate |-> b.gate, proposal |-> b, effective |-> Effective(p),
                decision |-> f.decision, items |-> ApprovedItems(f), edits |-> f.edits,
                acks |-> f.acks, read |-> f.read ]
     IN /\ approvals' = Append(approvals, r)
        /\ proc' = [proc EXCEPT ![p] =
             IF r.items = {} THEN Idle
             ELSE [Idle EXCEPT !.pc = "edges", !.rec = r, !.todo = EdgeItems(r)]]
  /\ UNCHANGED <<disk, expired, counter, jobs, edges, started>>

ApprovedNode(i) == <<"approved", i>>

\* Two edges per approved item, each in a transaction of its own.  A command
\* that dies leaves those it has appended: no command reads them in between.
ApprovalEdges(r, i) ==
  << [edge |-> "approved_as", from |-> <<"proposed", i>>, to |-> ApprovedNode(i), human |-> TRUE],
     [edge |-> "governed_by", from |-> ApprovedNode(i), to |-> <<"approval", r.id>>, human |-> TRUE] >>

AppendSome(list) == \E n \in DOMAIN list \cup {0} : edges' = edges \cup {list[m] : m \in 1 .. n}

AppendApprovalEdges(p) ==
  /\ At(p, "edges")
  /\ AppendSome([n \in 1 .. 2 * Cardinality(proc[p].todo) |->
                   ApprovalEdges(proc[p].rec, SetToSeq(proc[p].todo)[(n + 1) \div 2])[2 - (n % 2)]])
  /\ proc' = [proc EXCEPT ![p] = Idle]
  /\ UNCHANGED <<disk, approvals, expired, counter, jobs, started>>

-----------------------------------------------------------------------------

RunGate == "experiment_selection"

\* requireGateApproval, then the selection of items that are approved and asked for.
StartRun(p, asked) ==
  /\ MayStart(p, "run")
  /\ LET r == approvedRecordFor(approvals, RunGate) IN
     /\ r # None
     /\ ~isExpired(r)
     /\ LET selected == r.items \cap asked IN
        /\ selected # {}
        /\ proc' = [proc EXCEPT ![p] = [Idle EXCEPT !.pc = "enqueue", !.rec = r, !.todo = selected,
                                                    !.left = Cardinality(selected)]]
  /\ UNCHANGED <<disk, approvals, expired, counter, jobs, edges>>

\* acknowledgedFor: by any approval this gate ever had.
AcknowledgedFor(i) == \E n \in Approved(approvals, RunGate) : i \in approvals[n].acks

PreEditContent(r, i) == r.proposal.items[i]  \* mutant: the proposal, not the effective one

ContentToRun(r, i) == r.effective.items[i]

\* enqueueExperiment for one item (one repetition).  A row that exists is kept,
\* with its content and its approval.  A destructive content nobody has ever
\* acknowledged ends the command.
EnqueueItem(p) ==
  /\ At(p, "enqueue")
  /\ LET i == NextOf(proc[p].todo)
         c == ContentToRun(proc[p].rec, i)
     IN
       IF c \in Destructive /\ ~AcknowledgedFor(i)
       THEN proc' = [proc EXCEPT ![p] = Idle] /\ UNCHANGED jobs
       ELSE LET rest == proc[p].todo \ {i} IN
            IF jobs[<<i, 0>>] # None
            THEN /\ proc' = [proc EXCEPT ![p] = [@ EXCEPT !.pc = IF rest = {} THEN "drain" ELSE "enqueue",
                                                          !.todo = rest]]
                 /\ UNCHANGED jobs
            ELSE /\ jobs' = [jobs EXCEPT ![<<i, 0>>] = [content |-> c, approval |-> proc[p].rec.id,
                                                    state |-> "PENDING"]]
                 /\ proc' = [proc EXCEPT ![p] = [@ EXCEPT !.pc = "scheduled", !.item = i, !.todo = rest]]
  /\ UNCHANGED <<disk, approvals, expired, counter, edges, started>>

AppendScheduledAs(p) ==
  /\ At(p, "scheduled")
  /\ edges' = edges \cup {[edge |-> "scheduled_as", from |-> ApprovedNode(proc[p].item),
                           to |-> <<"job", <<proc[p].item, 0>>>>, human |-> FALSE]}
  /\ proc' = [proc EXCEPT ![p].pc = IF proc[p].todo = {} THEN "drain" ELSE "enqueue"]
  /\ UNCHANGED <<disk, approvals, expired, counter, jobs, started>>

Pending == { k \in { l \in JobKey : jobs[l] # None } : jobs[k].state = "PENDING" }

\* drain: any PENDING row, whoever enqueued it.  An infrastructure failure
\* enqueues the next attempt, which no edge links to the one before.
Drain(p) ==
  /\ At(p, "drain")
  /\ proc[p].left > 0
  /\ \E k \in Pending :
       \/ /\ jobs' = [jobs EXCEPT ![k].state = "RUN"]
          /\ proc' = [proc EXCEPT ![p].done = @ \cup {k}, ![p].left = @ - 1]
       \/ /\ k[2] < MaxRetries
          /\ jobs' = [jobs EXCEPT ![k].state = "RUN", ![<<k[1], k[2] + 1>>] = jobs[k]]
          /\ proc' = [proc EXCEPT ![p].done = @ \cup {k}]
  /\ UNCHANGED <<disk, approvals, expired, counter, edges, started>>

\* Only when the drain has returned are the runs linked to their jobs.
DrainReturns(p) ==
  /\ At(p, "drain")
  /\ proc[p].left = 0 \/ Pending = {}
  /\ proc' = [proc EXCEPT ![p] = IF @.done = {} THEN Idle ELSE [@ EXCEPT !.pc = "executed", !.left = 0]]
  /\ UNCHANGED <<disk, approvals, expired, counter, jobs, edges, started>>

AppendExecutedAs(p) ==
  /\ At(p, "executed")
  /\ AppendSome([n \in 1 .. Cardinality(proc[p].done) |->
                   LET k == SetToSeq(proc[p].done)[n] IN
                   [edge |-> "executed_as", from |-> <<"job", k>>, to |-> <<"run", k>>, human |-> FALSE]])
  /\ proc' = [proc EXCEPT ![p] = Idle]
  /\ UNCHANGED <<disk, approvals, expired, counter, jobs, started>>

Crash(p) ==
  /\ ~At(p, "off")
  /\ proc' = [proc EXCEPT ![p] = Idle]
  /\ UNCHANGED <<disk, approvals, expired, counter, jobs, edges, started>>

\* approvals.expiryHours pass since a decision.
Expire ==
  /\ \E r \in ToSet(approvals) : r.id \notin expired /\ expired' = expired \cup {r.id}
  /\ UNCHANGED <<disk, approvals, counter, jobs, edges, proc, started>>

Step(p) ==
  \/ RecordDecision(p) \/ AppendApprovalEdges(p)
  \/ EnqueueItem(p) \/ AppendScheduledAs(p) \/ Drain(p) \/ DrainReturns(p) \/ AppendExecutedAs(p)

\* The files a human may have written for a gate, about a bundle that may have
\* been on disk.
File(g) ==
  { [read |-> [gate |-> g, items |-> i, renderedAt |-> t], decision |-> c.decision,
     items |-> c.items, edits |-> c.edits, acks |-> c.acks] :
      i \in Proposable[g], t \in 1 .. started["plan"], c \in Statements }

Next ==
  \/ \E p \in Process :
       \/ \E g \in Gate : \E items \in Proposable[g] : Plan(p, g, items)
       \/ Free(p, "approve") /\ \E g \in Gate : \E f \in File(g) : Approve(p, g, f)
       \/ \E asked \in SUBSET Item : StartRun(p, asked)
       \/ Step(p)
       \/ Crash(p)
  \/ Expire

Spec == Init /\ [][Next]_vars

-----------------------------------------------------------------------------
(* packages/lineage: what the edges say of a run.                          *)

Nearer(E, near) == near \cup { e.from : e \in { x \in E : x.to \in near } }

\* closure(...).ancestors: the edges from which a node can be reached.
Reaching(E, node) ==
  LET f[d \in 0 .. Cardinality(E)] == IF d = 0 THEN {node} ELSE Nearer(E, f[d - 1])
  IN f[Cardinality(E)]

Ancestors(E, node) == LET near == Reaching(E, node) IN { e \in E : e.to \in near }

unauthorisedRuns(E) ==
  { e.to : e \in { x \in E : /\ x.edge = "executed_as"
                           /\ \A y \in Ancestors(E, x.to) : ~y.human /\ y.edge # "governed_by" } }

-----------------------------------------------------------------------------
(* Properties.                                                             *)

TypeOK ==
  /\ \A g \in Gate : disk[g] = None \/ disk[g] \in Bundle
  /\ \A r \in ToSet(approvals) : r.proposal \in Bundle /\ r.effective \in Bundle /\ r.items \subseteq Item
  /\ expired \subseteq 1 .. counter
  /\ \A k \in JobKey : jobs[k] = None \/ jobs[k].content \in Content
  /\ \A p \in Process : proc[p].pc \in PC

\* What the browser is given, in a retry too, is what some approval of that item
\* came to after the edits its author made, and nothing else (run.ts: what
\* executes is the effective proposal), whoever re-rendered, decided or crashed
\* meanwhile and whoever enqueued the job that is drained.
OnlyApprovedContentRuns ==
  \A k \in JobKey : jobs[k] # None =>
    \E n \in Approved(approvals, RunGate) :
      LET r == approvals[n] IN
      r.id = jobs[k].approval /\ k[1] \in r.items /\ jobs[k].content = r.effective.items[k[1]]

\* Nothing destructive is scheduled unless the approval it is scheduled under
\* acknowledges it: neither an edit nor an older approval's acknowledgement gets
\* it past validateApproval and enqueueExperiment.
DestructiveAcknowledged ==
  \A k \in JobKey : jobs[k] # None /\ jobs[k].content \in Destructive =>
    \E r \in ToSet(approvals) : r.id = jobs[k].approval /\ k[1] \in r.acks

\* A decision is about the bytes its author read: the file, the flag, the edits
\* and the effective proposal belong to one bundle even when the proposal is
\* re-rendered or changed by hand around the command.
DecisionBindsBytes ==
  \A r \in ToSet(approvals) : r.proposal = r.read /\ r.effective = applyEdits(r.read, r.edits)

\* Gate n is decided only after every gate before it was approved
\* (approval-state-machine.md), also when decisions are taken concurrently.
GatesInOrder ==
  \A k \in DOMAIN approvals : \A n \in 1 .. GATE_ORDER(approvals[k].gate) - 1 :
    \E m \in 1 .. k - 1 : approvals[m].gate = GATES[n] /\ approvals[m].decision = "approve"

\* The lineage never credits a human with what no human decided: an edge with a
\* person as its actor is about an item a recorded approval names, and so is a
\* run that the closure, over whatever edges crashes left, calls authorised.
LineageNeverOverclaims ==
  /\ \A e \in edges : e.human =>
       \E r \in ToSet(approvals) :
         /\ r.decision = "approve"
         /\ \E i \in r.items : ApprovedNode(i) \in {e.from, e.to}
         /\ e.edge = "governed_by" => e.to = <<"approval", r.id>>
  /\ \A e \in edges : e.edge = "executed_as" /\ e.to \notin unauthorisedRuns(edges) =>
       \E r \in ToSet(approvals) : r.decision = "approve" /\ e.to[2][1] \in r.items
=============================================================================
