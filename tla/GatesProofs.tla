---------------------------- MODULE GatesProofs ----------------------------
(***************************************************************************)
(* What the gates guarantee for any processes, items, contents and         *)
(* proposals, whatever humans write in approval files and however often    *)
(* commands are started and killed.                                        *)
(***************************************************************************)
EXTENDS Gates, FiniteSetTheorems, WellFoundedInduction, TLAPS

FileType ==
  [ read : Bundle, decision : Decision, items : SUBSET Item, edits : Edits, acks : SUBSET Item ]

LocalState ==
  [ pc : PC, file : FileType \cup {None}, bundle : Bundle \cup {None}, id : Nat,
    rec : Record \cup {None}, todo : SUBSET Item, item : Item \cup {None},
    left : Nat, done : SUBSET JobKey ]

JobRow == [ content : Content, approval : Nat, state : {"PENDING", "RUN"} ]

TypeInv ==
  /\ disk \in [Gate -> Bundle \cup {None}]
  /\ approvals \in Seq(Record)
  /\ expired \subseteq 1 .. counter
  /\ counter \in Nat
  /\ jobs \in [JobKey -> JobRow \cup {None}]
  /\ proc \in [Process -> LocalState]
  /\ started \in [Command -> Nat]
  /\ started["plan"] <= MaxCommands["plan"]

\* A decision that passed validateApproval, before and after it is recorded.
RowChecked(r, c) ==
  /\ r.id \in 1 .. c
  /\ r.proposal = r.read
  /\ r.effective = applyEdits(r.read, r.edits)
  /\ r.items \subseteq DOMAIN r.effective.items
  /\ \A i \in r.items : r.effective.items[i] \in Destructive => i \in r.acks

GatesBefore(A, g) == \A n \in 1 .. GATE_ORDER(g) - 1 : Approved(A, GATES[n]) # {}

FileChecked(l, A, c) ==
  /\ l.file \in FileType
  /\ l.bundle \in Bundle
  /\ l.id \in 1 .. c
  /\ l.file.read = l.bundle
  /\ GatesBefore(A, l.bundle.gate)
  /\ ApprovedItems(l.file) \subseteq DOMAIN l.bundle.items
  /\ Acknowledged(l.file, l.bundle)

\* A run acts on an approval of its gate that is recorded.
RunApproved(l, A) ==
  /\ \E n \in Approved(A, RunGate) : l.rec = A[n]
  /\ l.todo \subseteq l.rec.items

\* What a command has established when it is at one of its steps.
LocalOK(l, A, c) ==
  /\ l.pc = "record" => FileChecked(l, A, c)
  /\ l.pc \in {"enqueue", "scheduled"} => RunApproved(l, A)
  /\ l.pc = "enqueue" => l.todo # {}

\* The approval a job is scheduled under names its item and its content.
JobApproved(i, job, A) ==
  \E n \in Approved(A, RunGate) :
    A[n].id = job.approval /\ i \in A[n].items /\ job.content = A[n].effective.items[i]

IInv ==
  /\ TypeInv
  /\ \A n \in DOMAIN approvals : RowChecked(approvals[n], counter)
  /\ \A p \in Process : LocalOK(proc[p], approvals, counter)
  /\ GatesInOrder
  /\ \A k \in JobKey : jobs[k] # None => JobApproved(k[1], jobs[k], approvals)

-----------------------------------------------------------------------------
(* Lemmas about the operators.                                             *)

\* A non-empty set of positions has a last one.
LEMMA LastPosition ==
  ASSUME NEW n \in Nat, NEW S \in SUBSET (1 .. n), S # {}
  PROVE  Max(S) \in S
<1> DEFINE Above == { m \in Nat : \A x \in S : x <= m }
<1>1. n \in Above
  OBVIOUS
<1>2. PICK m \in Above : \A y \in Above : ~(<<y, m>> \in OpToRel(<, Nat))
  <2>1. Above \subseteq Nat /\ Above # {}
    BY <1>1
  <2> HIDE DEF Above
  <2> QED BY <2>1, NatLessThanWellFounded, WFMin
<1>3. m \in Nat /\ \A x \in S : x <= m
  OBVIOUS
<1>4. \A y \in Above : ~(y < m)
  BY <1>2, <1>3 DEF OpToRel
<1>5. m \in S
  <2> SUFFICES ASSUME m \notin S PROVE FALSE
    OBVIOUS
  <2>1. PICK x0 : x0 \in S
    OBVIOUS
  <2>2. \A x \in S : x <= m - 1
    BY <1>3
  <2>3. m - 1 \in Nat
    BY <2>1, <1>3
  <2>4. m - 1 \in Above
    BY <2>2, <2>3
  <2> QED BY <2>4, <1>3, <1>4
<1> QED BY <1>3, <1>5 DEF Max

\* approvedRecordFor returns a recorded approval of the gate, if it returns one.
LEMMA RecordFor ==
  ASSUME NEW A \in Seq(Record), NEW g, approvedRecordFor(A, g) # None
  PROVE  \E n \in Approved(A, g) : approvedRecordFor(A, g) = A[n]
<1>1. Approved(A, g) # {}
  BY DEF approvedRecordFor
<1>2. Approved(A, g) \in SUBSET (1 .. Len(A)) /\ Len(A) \in Nat
  BY DEF Approved, ForGate
<1>3. Max(Approved(A, g)) \in Approved(A, g)
  BY <1>1, <1>2, LastPosition
<1> QED BY <1>1, <1>3 DEF approvedRecordFor

LEMMA ReachableBefore ==
  ASSUME NEW A, NEW g, GateReachable(g, A)
  PROVE  GatesBefore(A, g)
BY DEF GateReachable, GatesBefore, approvedRecordFor

\* Edits leave a bundle a bundle with the same items.
LEMMA EditsType ==
  ASSUME NEW b \in Bundle, NEW edits \in Edits
  PROVE  /\ applyEdits(b, edits) \in Bundle
         /\ DOMAIN applyEdits(b, edits).items = DOMAIN b.items
<1> DEFINE items == [i \in DOMAIN b.items |-> IF i \in DOMAIN edits THEN edits[i] ELSE b.items[i]]
<1>1. PICK S \in SUBSET Item \ {{}} : b.items \in [S -> Content]
  BY DEF Bundle, Items
<1>2. PICK T \in SUBSET Item : edits \in [T -> Content]
  BY DEF Edits
<1>3. items \in [S -> Content]
  BY <1>1, <1>2
<1>4. items \in Items
  BY <1>3 DEF Items
<1>5. applyEdits(b, edits) = [b EXCEPT !.items = items]
  BY DEF applyEdits
<1> HIDE DEF items
<1>6. [b EXCEPT !.items = items] \in Bundle /\ [b EXCEPT !.items = items].items = items
  BY <1>4 DEF Bundle
<1> QED BY <1>5, <1>6, <1>1, <1>3

\* Recording one more decision takes no approval away.
LEMMA ApprovedGrows ==
  ASSUME NEW A \in Seq(Record), NEW r \in Record, NEW g
  PROVE  \A n \in Approved(A, g) : n \in Approved(Append(A, r), g) /\ Append(A, r)[n] = A[n]
BY DEF Approved, ForGate

LEMMA LocalGrows ==
  ASSUME NEW A \in Seq(Record), NEW r \in Record, NEW c, NEW l, LocalOK(l, A, c)
  PROVE  LocalOK(l, Append(A, r), c)
<1>1. \A g : GatesBefore(A, g) => GatesBefore(Append(A, r), g)
  BY ApprovedGrows DEF GatesBefore
<1>2. RunApproved(l, A) => RunApproved(l, Append(A, r))
  BY ApprovedGrows DEF RunApproved
<1> QED BY <1>1, <1>2 DEF LocalOK, FileChecked

LEMMA JobGrows ==
  ASSUME NEW A \in Seq(Record), NEW r \in Record, NEW i, NEW job, JobApproved(i, job, A)
  PROVE  JobApproved(i, job, Append(A, r))
<1>1. PICK n \in Approved(A, RunGate) :
        A[n].id = job.approval /\ i \in A[n].items /\ job.content = A[n].effective.items[i]
  BY DEF JobApproved
<1>2. n \in Approved(Append(A, r), RunGate) /\ Append(A, r)[n] = A[n]
  BY ApprovedGrows
<1> QED BY <1>1, <1>2 DEF JobApproved

LEMMA LocalLater ==
  ASSUME NEW A, NEW c \in Nat, NEW l, LocalOK(l, A, c)
  PROVE  LocalOK(l, A, c + 1)
BY DEF LocalOK, FileChecked

LEMMA IdleOK ==
  ASSUME NEW A, NEW c
  PROVE  Idle \in LocalState /\ LocalOK(Idle, A, c)
BY DEF Idle, LocalState, PC, LocalOK

\* A step in which one command moves and records nothing.
LEMMA MoveLocal ==
  ASSUME IInv, NEW p \in Process, NEW l \in LocalState, LocalOK(l, approvals, counter),
         proc' = [proc EXCEPT ![p] = l]
  PROVE  /\ proc' \in [Process -> LocalState]
         /\ \A q \in Process : LocalOK(proc'[q], approvals, counter)
BY DEF IInv, TypeInv

-----------------------------------------------------------------------------
(* The invariant is established and kept.                                  *)

LEMMA InitInv == Init => IInv
<1> SUFFICES ASSUME Init PROVE IInv
  OBVIOUS
<1>1. TypeInv
  BY IdleOK, BoundsAssumption DEF Init, TypeInv, Command
<1>2. approvals = <<>> /\ \A k \in JobKey : jobs[k] = None
  BY DEF Init
<1>3. \A p \in Process : LocalOK(proc[p], approvals, counter)
  BY IdleOK DEF Init
<1> QED BY <1>1, <1>2, <1>3 DEF IInv, GatesInOrder

\* plan writes a bundle; no record, job or command looks at it by itself.
LEMMA PlanInv ==
  ASSUME IInv, NEW p \in Process, NEW g \in Gate, NEW items \in Proposable[g], Plan(p, g, items)
  PROVE  IInv'
<1> DEFINE b == [gate |-> g, items |-> items, renderedAt |-> started["plan"] + 1]
<1>1. started["plan"] \in Nat /\ started["plan"] + 1 \in 1 .. MaxCommands["plan"]
  BY BoundsAssumption DEF IInv, TypeInv, Plan, MayStart, Free, Command
<1>2. b \in Bundle
  BY <1>1, ContentAssumption DEF Bundle
<1>3. disk' = [disk EXCEPT ![g] = b]
  BY DEF Plan
<1>4. disk' \in [Gate -> Bundle \cup {None}]
  <2> HIDE DEF b
  <2> QED BY <1>2, <1>3 DEF IInv, TypeInv
<1>5. started' \in [Command -> Nat] /\ started'["plan"] <= MaxCommands["plan"]
  BY <1>1 DEF Plan, MayStart, Free, IInv, TypeInv, Command
<1>6. UNCHANGED <<approvals, expired, counter, jobs, edges, proc>>
  BY DEF Plan
<1> QED BY <1>4, <1>5, <1>6 DEF IInv, TypeInv, GatesInOrder

\* A command of another kind than plan was started.
LEMMA StartType ==
  ASSUME IInv, NEW p \in Process, NEW c \in Command, c # "plan", MayStart(p, c)
  PROVE  started' \in [Command -> Nat] /\ started'["plan"] <= MaxCommands["plan"]
BY DEF MayStart, Free, IInv, TypeInv, Command

LEMMA CheckedLocal ==
  ASSUME NEW f \in FileType, NEW b \in Bundle, NEW n \in Nat
  PROVE  [Idle EXCEPT !.pc = "record", !.file = f, !.bundle = b, !.id = n] \in LocalState
<1>1. Idle \in LocalState
  BY IdleOK
<1> QED BY <1>1 DEF LocalState, PC

\* approve leaves with a file that was checked against the bundle on disk.
LEMMA ApproveInv ==
  ASSUME IInv, NEW p \in Process, NEW g \in Gate, NEW f \in File(g), Approve(p, g, f)
  PROVE  IInv'
<1> DEFINE l == [Idle EXCEPT !.pc = "record", !.file = f, !.bundle = disk[g], !.id = counter + 1]
<1>1. UNCHANGED <<disk, approvals, expired, jobs, edges>> /\ counter' = counter + 1
  BY DEF Approve
<1>2. started' \in [Command -> Nat] /\ started'["plan"] <= MaxCommands["plan"]
  BY StartType DEF Approve, Command
<1>3. disk[g] \in Bundle
  BY DEF IInv, TypeInv, Approve
<1>4. f \in FileType
  <2>1. PICK i \in Proposable[g], t \in 1 .. started["plan"], c \in Statements :
          f = [read |-> [gate |-> g, items |-> i, renderedAt |-> t], decision |-> c.decision,
               items |-> c.items, edits |-> c.edits, acks |-> c.acks]
    BY DEF File
  <2>2. t \in 1 .. MaxCommands["plan"]
    BY BoundsAssumption DEF IInv, TypeInv, Command
  <2>3. [gate |-> g, items |-> i, renderedAt |-> t] \in Bundle
    BY <2>2, ContentAssumption DEF Bundle
  <2>4. c \in [decision : Decision, items : SUBSET Item, edits : Edits, acks : SUBSET Item]
    BY ContentAssumption
  <2> QED BY <2>1, <2>3, <2>4 DEF FileType
<1>5. counter \in Nat /\ counter + 1 \in 1 .. counter + 1
  BY DEF IInv, TypeInv
<1>6. Valid(approvals, f, disk[g])
  BY DEF Approve
<1>7. FileChecked(l, approvals, counter + 1)
  <2>1. f.read = disk[g] /\ Acknowledged(f, disk[g])
    BY <1>6 DEF Valid, ChecksumsAgree
  <2>2. GatesBefore(approvals, disk[g].gate)
    BY <1>6, ReachableBefore DEF Valid
  <2>3. ApprovedItems(f) \subseteq DOMAIN disk[g].items
    BY <1>6 DEF Valid, ApprovedItems
  <2> QED BY <1>3, <1>4, <1>5, <2>1, <2>2, <2>3 DEF FileChecked, Idle
<1>8. l \in LocalState /\ LocalOK(l, approvals, counter + 1)
  <2>1. l \in LocalState
    <3>1. counter + 1 \in Nat
      BY <1>5
    <3> QED BY <1>3, <1>4, <3>1, CheckedLocal
  <2>2. l.pc = "record"
    BY DEF Idle
  <2> HIDE DEF l
  <2> QED BY <1>7, <2>1, <2>2 DEF LocalOK
<1>9. proc' = [proc EXCEPT ![p] = l]
  BY DEF Approve
<1> HIDE DEF l
<1>10. proc' \in [Process -> LocalState]
  BY <1>8, <1>9 DEF IInv, TypeInv
<1>11. \A q \in Process : LocalOK(proc'[q], approvals, counter + 1)
  BY <1>5, <1>8, <1>9, LocalLater DEF IInv, TypeInv
<1>12. \A n \in DOMAIN approvals : RowChecked(approvals[n], counter + 1)
  BY <1>5 DEF IInv, RowChecked
<1>13. expired' \subseteq 1 .. counter' /\ counter' \in Nat
  BY <1>1, <1>5 DEF IInv, TypeInv
<1> QED BY <1>1, <1>2, <1>10, <1>11, <1>12, <1>13 DEF IInv, TypeInv, GatesInOrder

\* The record that is written is the decision that was checked.
LEMMA RecordInv ==
  ASSUME IInv, NEW p \in Process, RecordDecision(p)
  PROVE  IInv'
<1> DEFINE f == proc[p].file
           b == proc[p].bundle
           r == [ id |-> proc[p].id, gate |-> b.gate, proposal |-> b, effective |-> Effective(p),
                  decision |-> f.decision, items |-> ApprovedItems(f), edits |-> f.edits,
                  acks |-> f.acks, read |-> f.read ]
           l == IF r.items = {} THEN Idle
                ELSE [Idle EXCEPT !.pc = "edges", !.rec = r, !.todo = EdgeItems(r)]
<1>1. /\ approvals' = Append(approvals, r)
      /\ proc' = [proc EXCEPT ![p] = l]
      /\ UNCHANGED <<disk, expired, counter, jobs, edges, started>>
  BY DEF RecordDecision
<1>2. FileChecked(proc[p], approvals, counter)
  BY DEF RecordDecision, At, IInv, LocalOK
<1>3. f \in FileType /\ b \in Bundle /\ proc[p].id \in 1 .. counter /\ f.read = b
  BY <1>2 DEF FileChecked
<1>4. Effective(p) \in Bundle /\ DOMAIN Effective(p).items = DOMAIN b.items
  BY <1>3, EditsType DEF Effective, FileType
<1>5. ApprovedItems(f) \in SUBSET Item
  BY <1>3 DEF ApprovedItems, FileType
<1>6. r \in Record
  BY <1>3, <1>4, <1>5 DEF Record, FileType, Bundle
<1>7. RowChecked(r, counter)
  <2>1. Effective(p) = applyEdits(b, f.edits)
    BY DEF Effective
  <2>2. \A i \in ApprovedItems(f) : Effective(p).items[i] \in Destructive => i \in f.acks
    BY <1>2, <2>1 DEF FileChecked, Acknowledged
  <2>3. ApprovedItems(f) \subseteq DOMAIN Effective(p).items
    BY <1>2, <1>4 DEF FileChecked
  <2> QED BY <1>3, <2>1, <2>2, <2>3 DEF RowChecked
<1>8. l \in LocalState /\ LocalOK(l, approvals', counter)
  BY <1>6, IdleOK DEF Record, LocalState, LocalOK, Idle, PC, EdgeItems
<1>9. GatesBefore(approvals, r.gate)
  BY <1>2 DEF FileChecked
<1>10. approvals \in Seq(Record)
  BY DEF IInv, TypeInv
<1> HIDE DEF f, b, r, l
<1>11. approvals' \in Seq(Record)
  BY <1>1, <1>6, <1>10
<1>12. proc' \in [Process -> LocalState]
  BY <1>1, <1>8 DEF IInv, TypeInv
<1>13. \A q \in Process : LocalOK(proc'[q], approvals', counter)
  BY <1>1, <1>6, <1>8, <1>10, LocalGrows DEF IInv, TypeInv
<1>14. \A n \in DOMAIN approvals' : RowChecked(approvals'[n], counter)
  BY <1>1, <1>6, <1>7, <1>10 DEF IInv
<1>15. \A k \in JobKey : jobs[k] # None => JobApproved(k[1], jobs[k], approvals')
  BY <1>1, <1>6, <1>10, JobGrows DEF IInv
<1>16. GatesInOrder'
  <2>1. \A k \in 1 .. Len(approvals) : approvals'[k] = approvals[k]
    BY <1>1, <1>6, <1>10
  <2>2. Len(approvals) \in Nat /\ DOMAIN approvals' = 1 .. Len(approvals) + 1
    BY <1>1, <1>6, <1>10
  <2>3. approvals'[Len(approvals) + 1] = r
    BY <1>1, <1>6, <1>10
  <2>4. \A n \in 1 .. GATE_ORDER(r.gate) - 1 :
          \E m \in 1 .. Len(approvals) : approvals[m].gate = GATES[n] /\ approvals[m].decision = "approve"
    BY <1>9, <1>10 DEF GatesBefore, Approved, ForGate
  <2>5. \A k \in 1 .. Len(approvals) : \A n \in 1 .. GATE_ORDER(approvals[k].gate) - 1 :
          \E m \in 1 .. k - 1 : approvals[m].gate = GATES[n] /\ approvals[m].decision = "approve"
    BY <1>10 DEF IInv, GatesInOrder
  <2>6. ASSUME NEW k \in DOMAIN approvals', NEW n \in 1 .. GATE_ORDER(approvals'[k].gate) - 1
        PROVE  \E m \in 1 .. k - 1 : approvals'[m].gate = GATES[n] /\ approvals'[m].decision = "approve"
    <3>1. CASE k = Len(approvals) + 1
      <4>1. PICK m \in 1 .. Len(approvals) :
              approvals[m].gate = GATES[n] /\ approvals[m].decision = "approve"
        BY <3>1, <2>3, <2>4, <2>6
      <4> QED BY <4>1, <3>1, <2>1, <2>2
    <3>2. CASE k \in 1 .. Len(approvals)
      <4>1. PICK m \in 1 .. k - 1 :
              approvals[m].gate = GATES[n] /\ approvals[m].decision = "approve"
        BY <3>2, <2>1, <2>5, <2>6
      <4> QED BY <4>1, <3>2, <2>1, <2>2
    <3> QED BY <3>1, <3>2, <2>2, <2>6
  <2> QED BY <2>6 DEF GatesInOrder
<1> QED BY <1>1, <1>11, <1>12, <1>13, <1>14, <1>15, <1>16 DEF IInv, TypeInv

\* run starts on the approval approvedRecordFor returns.
LEMMA StartRunInv ==
  ASSUME IInv, NEW p \in Process, NEW asked \in SUBSET Item, StartRun(p, asked)
  PROVE  IInv'
<1> DEFINE r == approvedRecordFor(approvals, RunGate)
           selected == r.items \cap asked
           l == [Idle EXCEPT !.pc = "enqueue", !.rec = r, !.todo = selected,
                             !.left = Cardinality(selected)]
<1>1. /\ r # None
      /\ selected # {}
      /\ proc' = [proc EXCEPT ![p] = l]
      /\ UNCHANGED <<disk, approvals, expired, counter, jobs, edges>>
  BY DEF StartRun
<1>2. started' \in [Command -> Nat] /\ started'["plan"] <= MaxCommands["plan"]
  BY StartType DEF StartRun, Command
<1>3. approvals \in Seq(Record)
  BY DEF IInv, TypeInv
<1>4. PICK n \in Approved(approvals, RunGate) : r = approvals[n]
  BY <1>1, <1>3, RecordFor
<1>5. r \in Record
  BY <1>3, <1>4 DEF Approved, ForGate
<1>6. selected \in SUBSET Item /\ Cardinality(selected) \in Nat
  <2>1. selected \in SUBSET Item
    OBVIOUS
  <2> HIDE DEF selected
  <2> QED BY <2>1, ItemAssumption, FS_Subset, FS_CardinalityType
<1>7. l.pc = "enqueue" /\ l.rec = r /\ l.todo = selected
  BY DEF Idle
<1>8. selected \subseteq r.items
  OBVIOUS
<1> HIDE DEF r, selected
<1>9. l \in LocalState
  BY <1>5, <1>6 DEF LocalState, Idle, PC
<1> HIDE DEF l
<1>10. LocalOK(l, approvals, counter)
  BY <1>1, <1>4, <1>7, <1>8 DEF LocalOK, RunApproved
<1>11. /\ proc' \in [Process -> LocalState]
       /\ \A q \in Process : LocalOK(proc'[q], approvals, counter)
  BY <1>1, <1>9, <1>10, MoveLocal
<1> QED BY <1>1, <1>2, <1>11 DEF IInv, TypeInv, GatesInOrder

\* A step of a command that leaves the rows alone.
LEMMA MoveInv ==
  ASSUME IInv, NEW p \in Process, NEW l \in LocalState, LocalOK(l, approvals, counter),
         proc' = [proc EXCEPT ![p] = l],
         UNCHANGED <<disk, approvals, expired, counter, jobs, started>>
  PROVE  IInv'
BY MoveLocal DEF IInv, TypeInv, GatesInOrder

\* What is enqueued is what the approval the run acts on made of the item.
LEMMA EnqueueInv ==
  ASSUME IInv, NEW p \in Process, EnqueueItem(p)
  PROVE  IInv'
<1> DEFINE i == NextOf(proc[p].todo)
           rec == proc[p].rec
           c == ContentToRun(rec, i)
           rest == proc[p].todo \ {i}
           job == [content |-> c, approval |-> rec.id, state |-> "PENDING"]
           present == [proc[p] EXCEPT !.pc = IF rest = {} THEN "drain" ELSE "enqueue", !.todo = rest]
           queued == [proc[p] EXCEPT !.pc = "scheduled", !.item = i, !.todo = rest]
<1>1. UNCHANGED <<disk, approvals, expired, counter, edges, started>>
  BY DEF EnqueueItem
<1>2. proc[p] \in LocalState /\ proc[p].pc = "enqueue"
  BY DEF EnqueueItem, At, IInv, TypeInv
<1>3. RunApproved(proc[p], approvals) /\ proc[p].todo # {}
  BY <1>2 DEF IInv, LocalOK
<1>4. i \in proc[p].todo /\ i \in Item
  BY <1>2, <1>3 DEF NextOf, LocalState
<1>5. PICK n \in Approved(approvals, RunGate) : rec = approvals[n]
  BY <1>3 DEF RunApproved
<1>6. rec \in Record /\ RowChecked(rec, counter)
  BY <1>5 DEF Approved, ForGate, IInv, TypeInv
<1>7. i \in rec.items /\ proc[p].todo \subseteq rec.items
  BY <1>3, <1>4 DEF RunApproved
<1>8. c \in Content
  <2>1. i \in DOMAIN rec.effective.items /\ rec.effective \in Bundle
    BY <1>6, <1>7 DEF RowChecked, Record
  <2>2. PICK S \in SUBSET Item \ {{}} : rec.effective.items \in [S -> Content]
    BY <2>1 DEF Bundle, Items
  <2> QED BY <2>1, <2>2 DEF ContentToRun
<1>9. job \in JobRow
  BY <1>6, <1>8 DEF JobRow, Record
<1>10. JobApproved(i, job, approvals)
  BY <1>5, <1>7 DEF JobApproved, ContentToRun
<1>11. present \in LocalState /\ LocalOK(present, approvals, counter)
  BY <1>2, <1>3 DEF LocalState, PC, LocalOK, RunApproved
<1>12. queued \in LocalState /\ LocalOK(queued, approvals, counter)
  BY <1>2, <1>3, <1>4 DEF LocalState, PC, LocalOK, RunApproved
<1>13. \/ proc' = [proc EXCEPT ![p] = Idle] /\ UNCHANGED jobs
       \/ proc' = [proc EXCEPT ![p] = present] /\ UNCHANGED jobs
       \/ /\ jobs' = [jobs EXCEPT ![<<i, 0>>] = job]
          /\ proc' = [proc EXCEPT ![p] = queued]
  BY DEF EnqueueItem
<1> HIDE DEF present, queued, job, rest, c
<1>14. CASE proc' = [proc EXCEPT ![p] = Idle] /\ UNCHANGED jobs
  BY <1>1, <1>14, IdleOK, MoveInv
<1>15. CASE proc' = [proc EXCEPT ![p] = present] /\ UNCHANGED jobs
  BY <1>1, <1>11, <1>15, MoveInv
<1>16. CASE jobs' = [jobs EXCEPT ![<<i, 0>>] = job] /\ proc' = [proc EXCEPT ![p] = queued]
  <2>1. <<i, 0>> \in JobKey
    BY <1>4, BoundsAssumption DEF JobKey, Attempt
  <2>2. jobs' \in [JobKey -> JobRow \cup {None}]
    BY <1>9, <1>16 DEF IInv, TypeInv
  <2>3. \A k \in JobKey : jobs'[k] # None => JobApproved(k[1], jobs'[k], approvals)
    BY <1>10, <1>16, <2>1 DEF IInv, TypeInv
  <2>4. /\ proc' \in [Process -> LocalState]
        /\ \A q \in Process : LocalOK(proc'[q], approvals, counter)
    BY <1>12, <1>16, MoveLocal
  <2> QED BY <1>1, <2>2, <2>3, <2>4 DEF IInv, TypeInv, GatesInOrder
<1> QED BY <1>13, <1>14, <1>15, <1>16

LEMMA ScheduledInv ==
  ASSUME IInv, NEW p \in Process, AppendScheduledAs(p)
  PROVE  IInv'
<1> DEFINE l == [proc[p] EXCEPT !.pc = IF proc[p].todo = {} THEN "drain" ELSE "enqueue"]
<1>1. /\ proc' = [proc EXCEPT ![p] = l]
      /\ UNCHANGED <<disk, approvals, expired, counter, jobs, started>>
  BY DEF AppendScheduledAs
<1>2. proc[p] \in LocalState /\ RunApproved(proc[p], approvals)
  BY DEF AppendScheduledAs, At, IInv, TypeInv, LocalOK
<1>3. l \in LocalState /\ LocalOK(l, approvals, counter)
  BY <1>2 DEF LocalState, PC, LocalOK, RunApproved
<1> HIDE DEF l
<1> QED BY <1>1, <1>3, MoveInv

LEMMA DoneLater ==
  ASSUME NEW l \in LocalState, l.pc = "drain", NEW done \in SUBSET JobKey, NEW left \in Nat,
         NEW A, NEW c
  PROVE  /\ [l EXCEPT !.done = done, !.left = left] \in LocalState
         /\ LocalOK([l EXCEPT !.done = done, !.left = left], A, c)
         /\ [l EXCEPT !.done = done] \in LocalState
         /\ LocalOK([l EXCEPT !.done = done], A, c)
BY DEF LocalState, LocalOK

\* A retry is the job it retries, under another attempt number.
LEMMA DrainInv ==
  ASSUME IInv, NEW p \in Process, Drain(p)
  PROVE  IInv'
<1>1. /\ UNCHANGED <<disk, approvals, expired, counter, edges, started>>
      /\ proc[p].pc = "drain" /\ proc[p].left \in Nat /\ proc[p].left > 0
      /\ proc[p] \in LocalState
  BY DEF Drain, At, IInv, TypeInv, LocalState
<1>2. PICK k \in Pending :
       \/ /\ jobs' = [jobs EXCEPT ![k].state = "RUN"]
          /\ proc' = [proc EXCEPT ![p].done = @ \cup {k}, ![p].left = @ - 1]
       \/ /\ k[2] < MaxRetries
          /\ jobs' = [jobs EXCEPT ![k].state = "RUN", ![<<k[1], k[2] + 1>>] = jobs[k]]
          /\ proc' = [proc EXCEPT ![p].done = @ \cup {k}]
  BY DEF Drain
<1> DEFINE ran == [jobs[k] EXCEPT !.state = "RUN"]
           last == [proc[p] EXCEPT !.done = proc[p].done \cup {k}, !.left = proc[p].left - 1]
           more == [proc[p] EXCEPT !.done = proc[p].done \cup {k}]
<1>3. k \in JobKey /\ jobs[k] # None /\ jobs[k] \in JobRow
  BY DEF Pending, IInv, TypeInv
<1>4. ran \in JobRow /\ ran.approval = jobs[k].approval /\ ran.content = jobs[k].content
  BY <1>3 DEF JobRow
<1>5. JobApproved(k[1], jobs[k], approvals)
  BY <1>3 DEF IInv
<1>6. JobApproved(k[1], ran, approvals)
  BY <1>4, <1>5 DEF JobApproved
<1>7. last \in LocalState /\ LocalOK(last, approvals, counter)
  <2>1. proc[p].left - 1 \in Nat /\ proc[p].done \cup {k} \in SUBSET JobKey
    BY <1>1, <1>3 DEF LocalState
  <2> QED BY <1>1, <2>1, DoneLater
<1>8. more \in LocalState /\ LocalOK(more, approvals, counter)
  <2>1. proc[p].done \cup {k} \in SUBSET JobKey
    BY <1>1, <1>3 DEF LocalState
  <2> QED BY <1>1, <2>1, DoneLater
<1>9. proc' = [proc EXCEPT ![p] = last] \/ proc' = [proc EXCEPT ![p] = more]
  <2>1. CASE proc' = [proc EXCEPT ![p].done = @ \cup {k}, ![p].left = @ - 1]
    BY <2>1
  <2>2. CASE proc' = [proc EXCEPT ![p].done = @ \cup {k}]
    BY <2>2
  <2> QED BY <1>2, <2>1, <2>2, Zenon
<1>10. /\ proc' \in [Process -> LocalState]
       /\ \A q \in Process : LocalOK(proc'[q], approvals, counter)
  <2> HIDE DEF last, more
  <2> QED BY <1>7, <1>8, <1>9, MoveLocal
<1>11. \/ jobs' = [jobs EXCEPT ![k] = ran]
       \/ /\ k[2] < MaxRetries
          /\ jobs' = [jobs EXCEPT ![k] = ran, ![<<k[1], k[2] + 1>>] = jobs[k]]
  BY <1>2
<1> HIDE DEF ran, last, more
<1>12. /\ jobs' \in [JobKey -> JobRow \cup {None}]
       /\ \A m \in JobKey : jobs'[m] # None => JobApproved(m[1], jobs'[m], approvals)
  <2>1. CASE jobs' = [jobs EXCEPT ![k] = ran]
    BY <1>3, <1>4, <1>6, <2>1 DEF IInv, TypeInv
  <2>2. CASE /\ k[2] < MaxRetries
             /\ jobs' = [jobs EXCEPT ![k] = ran, ![<<k[1], k[2] + 1>>] = jobs[k]]
    <3> DEFINE next == <<k[1], k[2] + 1>>
    <3>1. next \in JobKey /\ next # k /\ next[1] = k[1]
      BY <1>3, <2>2, BoundsAssumption DEF JobKey, Attempt
    <3>2. jobs' = [jobs EXCEPT ![k] = ran, ![next] = jobs[k]]
      BY <2>2
    <3> HIDE DEF next
    <3> QED BY <1>3, <1>4, <1>5, <1>6, <3>1, <3>2 DEF IInv, TypeInv
  <2> QED BY <1>11, <2>1, <2>2
<1> QED BY <1>1, <1>10, <1>12 DEF IInv, TypeInv, GatesInOrder

LEMMA NextInv == IInv /\ [Next]_vars => IInv'
<1> SUFFICES ASSUME IInv, [Next]_vars PROVE IInv'
  OBVIOUS
<1>1. ASSUME NEW p \in Process, NEW g \in Gate, NEW items \in Proposable[g], Plan(p, g, items)
      PROVE  IInv'
  BY <1>1, PlanInv
<1>2. ASSUME NEW p \in Process, NEW g \in Gate, NEW f \in File(g), Approve(p, g, f)
      PROVE  IInv'
  BY <1>2, ApproveInv
<1>3. ASSUME NEW p \in Process, NEW asked \in SUBSET Item, StartRun(p, asked)
      PROVE  IInv'
  BY <1>3, StartRunInv
<1>4. ASSUME NEW p \in Process, Step(p)
      PROVE  IInv'
  <2>1. CASE RecordDecision(p)        BY <2>1, RecordInv
  <2>2. CASE AppendApprovalEdges(p)   BY <2>2, IdleOK, MoveInv DEF AppendApprovalEdges
  <2>3. CASE EnqueueItem(p)           BY <2>3, EnqueueInv
  <2>4. CASE AppendScheduledAs(p)     BY <2>4, ScheduledInv
  <2>5. CASE Drain(p)                 BY <2>5, DrainInv
  <2>6. CASE DrainReturns(p)
    <3> DEFINE l == [proc[p] EXCEPT !.pc = "executed", !.left = 0]
    <3>1. proc[p] \in LocalState
      BY DEF IInv, TypeInv
    <3>2. l \in LocalState /\ LocalOK(l, approvals, counter)
      BY <3>1 DEF LocalState, PC, LocalOK
    <3>3. /\ proc' = [proc EXCEPT ![p] = Idle] \/ proc' = [proc EXCEPT ![p] = l]
          /\ UNCHANGED <<disk, approvals, expired, counter, jobs, started>>
      BY <2>6 DEF DrainReturns
    <3> HIDE DEF l
    <3> QED BY <3>2, <3>3, IdleOK, MoveInv
  <2>7. CASE AppendExecutedAs(p)      BY <2>7, IdleOK, MoveInv DEF AppendExecutedAs
  <2> QED BY <1>4, <2>1, <2>2, <2>3, <2>4, <2>5, <2>6, <2>7 DEF Step
<1>5. ASSUME NEW p \in Process, Crash(p)
      PROVE  IInv'
  BY <1>5, IdleOK, MoveInv DEF Crash
<1>6. ASSUME Expire
      PROVE  IInv'
  <2>1. PICK n \in DOMAIN approvals : expired' = expired \cup {approvals[n].id}
    BY <1>6 DEF Expire, ToSet
  <2>2. approvals[n].id \in 1 .. counter
    BY <2>1 DEF IInv, RowChecked
  <2> QED BY <1>6, <2>1, <2>2 DEF Expire, IInv, TypeInv, GatesInOrder
<1>7. CASE UNCHANGED vars
  BY <1>7 DEF vars, IInv, TypeInv, GatesInOrder
<1> QED BY <1>1, <1>2, <1>3, <1>4, <1>5, <1>6, <1>7 DEF Next

LEMMA Invariance == Spec => []IInv
BY InitInv, NextInv, PTL DEF Spec

-----------------------------------------------------------------------------
(* The lineage: what each edge rests on, and what may reach a run.         *)

\* An edge of approve is about an item some recorded approval names.
Decided(e, A) ==
  \E r \in ToSet(A) :
    /\ r.decision = "approve"
    /\ \E i \in r.items : \E h \in {1, 2} : e = ApprovalEdges(r, i)[h]

Scheduling(e) ==
  \E i : e = [edge |-> "scheduled_as", from |-> ApprovedNode(i), to |-> <<"job", <<i, 0>>>>, human |-> FALSE]

Executing(e) ==
  \E k : e = [edge |-> "executed_as", from |-> <<"job", k>>, to |-> <<"run", k>>, human |-> FALSE]

EdgeOK(e, A) == Decided(e, A) \/ Scheduling(e) \/ Executing(e)

\* A command about to append its edges has recorded the approval they are for.
EdgesDue(l, A) ==
  l.pc = "edges" => l.rec \in ToSet(A) /\ l.rec.decision = "approve" /\ l.todo \subseteq l.rec.items

LineageInv ==
  /\ IsFiniteSet(edges)
  /\ \A e \in edges : EdgeOK(e, approvals)
  /\ \A p \in Process : EdgesDue(proc[p], approvals)

\* The rows are append-only, so what rests on one rests on it for good.
LEMMA RowsStay ==
  ASSUME NEW A \in Seq(Record), NEW r \in Record
  PROVE  /\ r \in ToSet(Append(A, r))
         /\ \A s \in ToSet(A) : s \in ToSet(Append(A, r))
<1>1. /\ DOMAIN Append(A, r) = 1 .. Len(A) + 1 /\ DOMAIN A = 1 .. Len(A) /\ Len(A) \in Nat
      /\ Append(A, r)[Len(A) + 1] = r /\ \A n \in 1 .. Len(A) : Append(A, r)[n] = A[n]
  OBVIOUS
<1> QED BY <1>1 DEF ToSet

\* The elements of a finite set, in some order.
LEMMA SetInOrder ==
  ASSUME NEW S, IsFiniteSet(S)
  PROVE  Cardinality(S) \in Nat /\ SetToSeq(S) \in [1 .. Cardinality(S) -> S]
<1>1. Cardinality(S) \in Nat /\ ExistsBijection(1 .. Cardinality(S), S)
  BY FS_CardinalityType
<1>2. \E f \in [1 .. Cardinality(S) -> S] : IsInjective(f)
  BY <1>1 DEF ExistsBijection, Bijection, Injection, IsInjective
<1> QED BY <1>1, <1>2 DEF SetToSeq

\* However many of the edges of a list a command lives to append.
LEMMA SomeAppended ==
  ASSUME NEW N \in Nat, NEW list, DOMAIN list = 1 .. N, AppendSome(list), IsFiniteSet(edges)
  PROVE  /\ IsFiniteSet(edges')
         /\ \A e \in edges' : e \in edges \/ \E m \in 1 .. N : e = list[m]
<1>1. PICK n \in 0 .. N : edges' = edges \cup {list[m] : m \in 1 .. n}
  BY DEF AppendSome
<1> DEFINE new == {list[m] : m \in 1 .. n}
           f == [m \in 1 .. n |-> list[m]]
<1>2. f \in Surjection(1 .. n, new)
  BY DEF Surjection
<1>3. IsFiniteSet(1 .. n)
  BY FS_Interval
<1> HIDE DEF f
<1>4. IsFiniteSet(new)
  <2> HIDE DEF new
  <2> QED BY <1>2, <1>3, FS_Surjection
<1>5. \A e \in new : \E m \in 1 .. N : e = list[m]
  BY <1>1
<1> HIDE DEF new
<1> QED BY <1>1, <1>4, <1>5, FS_Union DEF new

\* f[d]: the nodes from which the target is reached along d edges or fewer.
Walk(E, node, n, f) == f = [d \in 0 .. n |-> IF d = 0 THEN {node} ELSE Nearer(E, f[d - 1])]

\* The recursive definition of such a walk has a solution.
LEMMA WalkExists ==
  ASSUME NEW E, NEW node, NEW N \in Nat
  PROVE  \E f : Walk(E, node, N, f)
<1> DEFINE Levels(f, n) == f = [d \in 0 .. n |-> IF d = 0 THEN {node} ELSE Nearer(E, f[d - 1])]
           Bad == { n \in Nat : ~ \E f : Levels(f, n) }
<1> SUFFICES ASSUME N \in Bad PROVE FALSE
  BY DEF Walk
<1>1. PICK m \in Bad : \A y \in Bad : ~(<<y, m>> \in OpToRel(<, Nat))
  <2>1. Bad \subseteq Nat /\ Bad # {}
    OBVIOUS
  <2> HIDE DEF Bad
  <2> QED BY <2>1, NatLessThanWellFounded, WFMin
<1>2. m \in Nat /\ (\A f : ~Levels(f, m)) /\ \A y \in Bad : ~(y < m)
  BY <1>1 DEF OpToRel
<1>3. m # 0
  <2>1. Levels([d \in 0 .. 0 |-> {node}], 0)
    OBVIOUS
  <2> QED BY <2>1, <1>2
<1>4. m - 1 \in Nat /\ m - 1 \notin Bad
  <2>1. m - 1 \in Nat /\ m - 1 < m
    BY <1>2, <1>3
  <2> HIDE DEF Bad
  <2> QED BY <1>2, <2>1
<1>5. PICK g : Levels(g, m - 1)
  BY <1>4
<1> DEFINE h == [d \in 0 .. m |-> IF d = m THEN Nearer(E, g[m - 1]) ELSE g[d]]
<1>6. \A d \in 0 .. m - 1 : g[d] = IF d = 0 THEN {node} ELSE Nearer(E, g[d - 1])
  BY <1>5
<1>7. ASSUME NEW d \in 0 .. m
      PROVE  h[d] = IF d = 0 THEN {node} ELSE Nearer(E, h[d - 1])
  <2>1. CASE d = m
    <3>1. h[d - 1] = g[m - 1]
      BY <2>1, <1>2, <1>3
    <3> QED BY <3>1, <2>1, <1>3
  <2>2. CASE d # m
    <3>1. d \in 0 .. m - 1 /\ h[d] = g[d]
      BY <2>2, <1>2
    <3>2. d # 0 => h[d - 1] = g[d - 1]
      BY <3>1, <1>2
    <3> QED BY <3>1, <3>2, <1>6
  <2> QED BY <2>1, <2>2
<1>8. Levels(h, m)
  <2>1. h = [d \in 0 .. m |-> h[d]]
    OBVIOUS
  <2> HIDE DEF h
  <2> QED BY <1>7, <2>1
<1> QED BY <1>2, <1>8

\* A set of nodes that holds the target and is closed under going back along an
\* edge holds all that the closure reaches.
LEMMA ReachedWithin ==
  ASSUME NEW E, IsFiniteSet(E), NEW node, NEW B, node \in B, \A e \in E : e.to \in B => e.from \in B
  PROVE  Reaching(E, node) \subseteq B
<1> DEFINE N == Cardinality(E)
           f == CHOOSE g : Walk(E, node, N, g)
<1>1. N \in Nat
  BY FS_CardinalityType
<1>2. f = [d \in 0 .. N |-> IF d = 0 THEN {node} ELSE Nearer(E, f[d - 1])]
  <2>1. Walk(E, node, N, f)
    <3> HIDE DEF N
    <3> QED BY <1>1, WalkExists
  <2> HIDE DEF f, N
  <2> QED BY <2>1 DEF Walk
<1>3. Reaching(E, node) = f[N]
  BY DEF Reaching, Walk
<1> HIDE DEF f, N
<1> DEFINE Bad == { d \in 0 .. N : ~(f[d] \subseteq B) }
<1>4. Bad = {}
  <2> SUFFICES ASSUME Bad # {} PROVE FALSE
    OBVIOUS
  <2>1. PICK m \in Bad : \A y \in Bad : ~(<<y, m>> \in OpToRel(<, Nat))
    <3>1. Bad \subseteq Nat
      BY <1>1
    <3> HIDE DEF Bad
    <3> QED BY <3>1, NatLessThanWellFounded, WFMin
  <2>2. m \in 0 .. N /\ ~(f[m] \subseteq B) /\ \A y \in Bad : ~(y < m)
    <3>1. m \in 0 .. N /\ ~(f[m] \subseteq B)
      OBVIOUS
    <3>2. ASSUME NEW y \in Bad PROVE y \in Nat
      BY <1>1
    <3> HIDE DEF Bad
    <3> QED BY <1>1, <2>1, <3>1, <3>2 DEF OpToRel
  <2>3. m # 0
    BY <1>1, <1>2, <2>2
  <2>4. m - 1 \in 0 .. N /\ f[m - 1] \subseteq B
    BY <1>1, <2>2, <2>3
  <2>5. f[m] = Nearer(E, f[m - 1])
    BY <1>2, <2>2, <2>3
  <2>6. Nearer(E, f[m - 1]) \subseteq B
    BY <2>4 DEF Nearer
  <2> QED BY <2>2, <2>5, <2>6
<1> QED BY <1>1, <1>3, <1>4

LEMMA LineageInit == Init => LineageInv
<1> SUFFICES ASSUME Init PROVE LineageInv
  OBVIOUS
<1>1. IsFiniteSet(edges) /\ edges = {}
  BY FS_EmptySet DEF Init
<1>2. \A p \in Process : proc[p].pc # "edges"
  BY DEF Init, Idle
<1> QED BY <1>1, <1>2 DEF LineageInv, EdgesDue

\* A command that is not left with approval edges to append.
LEMMA NothingDue ==
  ASSUME IInv, LineageInv, NEW p \in Process, NEW l, proc' = [proc EXCEPT ![p] = l], l.pc # "edges",
         UNCHANGED approvals
  PROVE  \A q \in Process : EdgesDue(proc'[q], approvals')
BY DEF IInv, TypeInv, LineageInv, EdgesDue

\* A step that appends no edge and records no decision.
LEMMA NoEdge ==
  ASSUME IInv, LineageInv, NEW p \in Process, NEW l, proc' = [proc EXCEPT ![p] = l], l.pc # "edges",
         UNCHANGED <<approvals, edges>>
  PROVE  LineageInv'
BY NothingDue DEF LineageInv

\* The decision that is recorded is an approval, if edges are to follow, and
\* they are to follow for the items it names.
LEMMA RecordLineage ==
  ASSUME IInv, LineageInv, IInv', NEW p \in Process, RecordDecision(p)
  PROVE  LineageInv'
<1> DEFINE f == proc[p].file
           b == proc[p].bundle
           r == [ id |-> proc[p].id, gate |-> b.gate, proposal |-> b, effective |-> Effective(p),
                  decision |-> f.decision, items |-> ApprovedItems(f), edits |-> f.edits,
                  acks |-> f.acks, read |-> f.read ]
<1>1. /\ approvals' = Append(approvals, r) /\ UNCHANGED edges
      /\ proc' = [proc EXCEPT ![p] = IF r.items = {} THEN Idle
                                     ELSE [Idle EXCEPT !.pc = "edges", !.rec = r, !.todo = EdgeItems(r)]]
  BY DEF RecordDecision
<1>2. r.items # {} => r.decision = "approve"
  BY DEF ApprovedItems
<1> HIDE DEF f, b, r
<1>3. approvals \in Seq(Record) /\ approvals' \in Seq(Record) /\ proc \in [Process -> LocalState]
  BY DEF IInv, TypeInv
<1>4. r \in Record
  <2>1. approvals'[Len(approvals) + 1] = r /\ Len(approvals) + 1 \in 1 .. Len(approvals')
    BY <1>1, <1>3
  <2> QED BY <1>3, <2>1
<1>5. r \in ToSet(approvals') /\ \A s \in ToSet(approvals) : s \in ToSet(approvals')
  BY <1>1, <1>3, <1>4, RowsStay
<1>6. \A e \in edges' : EdgeOK(e, approvals')
  BY <1>1, <1>5 DEF LineageInv, EdgeOK, Decided
<1>7. ASSUME NEW q \in Process PROVE EdgesDue(proc'[q], approvals')
  <2>1. CASE q = p
    <3> DEFINE l == [Idle EXCEPT !.pc = "edges", !.rec = r, !.todo = EdgeItems(r)]
    <3>1. l.rec = r /\ l.todo = r.items
      BY DEF Idle, EdgeItems
    <3>2. Idle.pc # "edges"
      BY DEF Idle
    <3>3. proc'[q] = IF r.items = {} THEN Idle ELSE l
      BY <1>1, <1>3, <2>1
    <3> HIDE DEF l
    <3> QED BY <1>2, <1>5, <3>1, <3>2, <3>3 DEF EdgesDue
  <2>2. CASE q # p
    <3>1. proc'[q] = proc[q]
      BY <1>1, <1>3, <2>2
    <3> QED BY <1>5, <3>1 DEF LineageInv, EdgesDue
  <2> QED BY <2>1, <2>2
<1> QED BY <1>1, <1>6, <1>7 DEF LineageInv

\* Each edge approve appends is about an item of the decision it recorded.
LEMMA ApprovalLineage ==
  ASSUME IInv, LineageInv, NEW p \in Process, AppendApprovalEdges(p)
  PROVE  LineageInv'
<1> DEFINE todo == proc[p].todo
           C == Cardinality(todo)
           item(n) == SetToSeq(todo)[(n + 1) \div 2]
           list == [n \in 1 .. 2 * C |-> ApprovalEdges(proc[p].rec, item(n))[2 - (n % 2)]]
<1>1. AppendSome(list) /\ proc' = [proc EXCEPT ![p] = Idle] /\ UNCHANGED approvals
  BY DEF AppendApprovalEdges
<1>2. /\ proc[p].rec \in ToSet(approvals) /\ proc[p].rec.decision = "approve"
      /\ todo \subseteq proc[p].rec.items
  BY DEF AppendApprovalEdges, At, LineageInv, EdgesDue
<1>3. IsFiniteSet(todo)
  <2>1. todo \in SUBSET Item
    BY DEF IInv, TypeInv, LocalState
  <2> HIDE DEF todo
  <2> QED BY <2>1, ItemAssumption, FS_Subset
<1> HIDE DEF todo
<1>4. C \in Nat /\ SetToSeq(todo) \in [1 .. C -> todo]
  BY <1>3, SetInOrder
<1> HIDE DEF C
<1>5. ASSUME NEW n \in 1 .. 2 * C PROVE Decided(list[n], approvals)
  <2>1. (n + 1) \div 2 \in 1 .. C /\ 2 - (n % 2) \in {1, 2}
    BY <1>4
  <2>2. item(n) \in proc[p].rec.items
    BY <1>2, <1>4, <2>1
  <2>3. list[n] = ApprovalEdges(proc[p].rec, item(n))[2 - (n % 2)]
    OBVIOUS
  <2> HIDE DEF item, list
  <2> QED BY <1>2, <2>1, <2>2, <2>3 DEF Decided
<1>6. DOMAIN list = 1 .. 2 * C /\ 2 * C \in Nat
  BY <1>4
<1> HIDE DEF list
<1>7. /\ IsFiniteSet(edges')
      /\ \A e \in edges' : e \in edges \/ \E m \in 1 .. 2 * C : e = list[m]
  BY <1>1, <1>6, SomeAppended DEF LineageInv
<1>8. \A e \in edges' : EdgeOK(e, approvals')
  BY <1>1, <1>5, <1>7 DEF LineageInv, EdgeOK
<1>9. \A q \in Process : EdgesDue(proc'[q], approvals')
  <2>1. Idle.pc # "edges"
    BY DEF Idle
  <2> QED BY <1>1, <2>1, NothingDue
<1> QED BY <1>7, <1>8, <1>9 DEF LineageInv

LEMMA ScheduledLineage ==
  ASSUME IInv, LineageInv, NEW p \in Process, AppendScheduledAs(p)
  PROVE  LineageInv'
<1> DEFINE e == [edge |-> "scheduled_as", from |-> ApprovedNode(proc[p].item),
                 to |-> <<"job", <<proc[p].item, 0>>>>, human |-> FALSE]
           l == [proc[p] EXCEPT !.pc = IF proc[p].todo = {} THEN "drain" ELSE "enqueue"]
<1>1. edges' = edges \cup {e} /\ proc' = [proc EXCEPT ![p] = l] /\ UNCHANGED approvals
  BY DEF AppendScheduledAs
<1>2. EdgeOK(e, approvals)
  BY DEF EdgeOK, Scheduling
<1>3. l.pc # "edges"
  BY DEF IInv, TypeInv, LocalState
<1> HIDE DEF e, l
<1>4. IsFiniteSet(edges')
  BY <1>1, FS_AddElement DEF LineageInv
<1>5. \A q \in Process : EdgesDue(proc'[q], approvals')
  BY <1>1, <1>3, NothingDue
<1> QED BY <1>1, <1>2, <1>4, <1>5 DEF LineageInv

LEMMA ExecutedLineage ==
  ASSUME IInv, LineageInv, NEW p \in Process, AppendExecutedAs(p)
  PROVE  LineageInv'
<1> DEFINE done == proc[p].done
           C == Cardinality(done)
           list == [n \in 1 .. C |->
                      LET k == SetToSeq(done)[n] IN
                      [edge |-> "executed_as", from |-> <<"job", k>>, to |-> <<"run", k>>, human |-> FALSE]]
<1>1. AppendSome(list) /\ proc' = [proc EXCEPT ![p] = Idle] /\ UNCHANGED approvals
  BY DEF AppendExecutedAs
<1>2. C \in Nat
  <2>1. done \in SUBSET JobKey
    BY DEF IInv, TypeInv, LocalState
  <2>2. IsFiniteSet(Attempt)
    BY FS_Interval, BoundsAssumption DEF Attempt
  <2>3. IsFiniteSet(JobKey)
    BY <2>2, ItemAssumption, FS_Product DEF JobKey
  <2> HIDE DEF done
  <2> QED BY <2>1, <2>3, FS_Subset, FS_CardinalityType
<1>3. DOMAIN list = 1 .. C
  OBVIOUS
<1>4. \A n \in 1 .. C : Executing(list[n])
  BY DEF Executing
<1> HIDE DEF list, C
<1>5. /\ IsFiniteSet(edges')
      /\ \A e \in edges' : e \in edges \/ \E m \in 1 .. C : e = list[m]
  BY <1>1, <1>2, <1>3, SomeAppended DEF LineageInv
<1>6. \A e \in edges' : EdgeOK(e, approvals')
  BY <1>1, <1>4, <1>5 DEF LineageInv, EdgeOK
<1>7. \A q \in Process : EdgesDue(proc'[q], approvals')
  <2>1. Idle.pc # "edges"
    BY DEF Idle
  <2> QED BY <1>1, <2>1, NothingDue
<1> QED BY <1>5, <1>6, <1>7 DEF LineageInv

LEMMA LineageNext ==
  ASSUME IInv, LineageInv, [Next]_vars PROVE LineageInv'
<1>0. IInv' /\ proc \in [Process -> LocalState] /\ Idle.pc # "edges"
  BY NextInv DEF IInv, TypeInv, Idle
<1>1. ASSUME NEW p \in Process, NEW g \in Gate, NEW items \in Proposable[g], Plan(p, g, items)
      PROVE  LineageInv'
  BY <1>1 DEF Plan, LineageInv
<1>2. ASSUME NEW p \in Process, NEW g \in Gate, NEW f \in File(g), Approve(p, g, f)
      PROVE  LineageInv'
  <2> DEFINE l == [Idle EXCEPT !.pc = "record", !.file = f, !.bundle = disk[g], !.id = counter + 1]
  <2>1. l.pc # "edges"
    BY DEF Idle
  <2>2. proc' = [proc EXCEPT ![p] = l] /\ UNCHANGED <<approvals, edges>>
    BY <1>2 DEF Approve
  <2> HIDE DEF l
  <2> QED BY <2>1, <2>2, NoEdge
<1>3. ASSUME NEW p \in Process, NEW asked \in SUBSET Item, StartRun(p, asked)
      PROVE  LineageInv'
  <2> DEFINE r == approvedRecordFor(approvals, RunGate)
             selected == r.items \cap asked
             l == [Idle EXCEPT !.pc = "enqueue", !.rec = r, !.todo = selected,
                               !.left = Cardinality(selected)]
  <2>1. l.pc # "edges"
    BY DEF Idle
  <2>2. proc' = [proc EXCEPT ![p] = l] /\ UNCHANGED <<approvals, edges>>
    BY <1>3 DEF StartRun
  <2> HIDE DEF l
  <2> QED BY <2>1, <2>2, NoEdge
<1>4. ASSUME NEW p \in Process, Step(p)
      PROVE  LineageInv'
  <2>1. CASE RecordDecision(p)        BY <1>0, <2>1, RecordLineage
  <2>2. CASE AppendApprovalEdges(p)   BY <2>2, ApprovalLineage
  <2>3. CASE EnqueueItem(p)
    <3>1. proc[p] \in LocalState /\ UNCHANGED <<approvals, edges>>
      BY <1>0, <2>3 DEF EnqueueItem
    <3>2. \E l : proc' = [proc EXCEPT ![p] = l] /\ l.pc # "edges"
      <4> DEFINE rest == proc[p].todo \ {NextOf(proc[p].todo)}
                 present == [proc[p] EXCEPT !.pc = IF rest = {} THEN "drain" ELSE "enqueue", !.todo = rest]
                 queued == [proc[p] EXCEPT !.pc = "scheduled", !.item = NextOf(proc[p].todo), !.todo = rest]
      <4>1. present.pc # "edges" /\ queued.pc # "edges"
        BY <3>1 DEF LocalState
      <4>2. \/ proc' = [proc EXCEPT ![p] = Idle]
            \/ proc' = [proc EXCEPT ![p] = present]
            \/ proc' = [proc EXCEPT ![p] = queued]
        BY <2>3 DEF EnqueueItem
      <4> HIDE DEF present, queued
      <4> QED BY <1>0, <4>1, <4>2
    <3> QED BY <3>1, <3>2, NoEdge
  <2>4. CASE AppendScheduledAs(p)     BY <2>4, ScheduledLineage
  <2>5. CASE Drain(p)
    <3>1. UNCHANGED <<approvals, edges>>
      BY <2>5 DEF Drain
    <3>2. PICK k : \/ proc' = [proc EXCEPT ![p].done = @ \cup {k}, ![p].left = @ - 1]
                   \/ proc' = [proc EXCEPT ![p].done = @ \cup {k}]
      BY <2>5 DEF Drain
    <3>3. \A q \in Process : /\ proc'[q].pc = proc[q].pc
                             /\ proc'[q].rec = proc[q].rec /\ proc'[q].todo = proc[q].todo
      BY <1>0, <3>2 DEF LocalState
    <3> QED BY <3>1, <3>3 DEF LineageInv, EdgesDue
  <2>6. CASE DrainReturns(p)
    <3> DEFINE l == [proc[p] EXCEPT !.pc = "executed", !.left = 0]
    <3>1. l.pc # "edges"
      BY <1>0 DEF LocalState
    <3>2. /\ proc' = [proc EXCEPT ![p] = Idle] \/ proc' = [proc EXCEPT ![p] = l]
          /\ UNCHANGED <<approvals, edges>>
      BY <2>6 DEF DrainReturns
    <3> HIDE DEF l
    <3> QED BY <1>0, <3>1, <3>2, NoEdge
  <2>7. CASE AppendExecutedAs(p)      BY <2>7, ExecutedLineage
  <2> QED BY <1>4, <2>1, <2>2, <2>3, <2>4, <2>5, <2>6, <2>7 DEF Step
<1>5. ASSUME NEW p \in Process, Crash(p)
      PROVE  LineageInv'
  BY <1>0, <1>5, NoEdge DEF Crash
<1>6. ASSUME Expire
      PROVE  LineageInv'
  BY <1>6 DEF Expire, LineageInv
<1>7. CASE UNCHANGED vars
  BY <1>7 DEF vars, LineageInv
<1> QED BY <1>1, <1>2, <1>3, <1>4, <1>5, <1>6, <1>7 DEF Next

\* What an edge with a person as its actor, or one that names an approval, is.
LEMMA HumanEdge ==
  ASSUME NEW e, NEW A, EdgeOK(e, A), e.human \/ e.edge = "governed_by"
  PROVE  \E r \in ToSet(A) : \E i \in r.items :
           /\ r.decision = "approve"
           /\ \/ e.edge = "approved_as" /\ e.from = <<"proposed", i>> /\ e.to = ApprovedNode(i)
              \/ e.edge = "governed_by" /\ e.from = ApprovedNode(i) /\ e.to = <<"approval", r.id>>
<1>1. Decided(e, A)
  BY DEF EdgeOK, Scheduling, Executing
<1>2. PICK r \in ToSet(A) :
        r.decision = "approve" /\ \E i \in r.items : \E h \in {1, 2} : e = ApprovalEdges(r, i)[h]
  BY <1>1 DEF Decided
<1>3. PICK i \in r.items, h \in {1, 2} : e = ApprovalEdges(r, i)[h]
  BY <1>2
<1>4. CASE h = 1
  BY <1>2, <1>3, <1>4 DEF ApprovalEdges
<1>5. CASE h = 2
  BY <1>2, <1>3, <1>5 DEF ApprovalEdges
<1> QED BY <1>3, <1>4, <1>5

\* Going back from a run one meets its job, the approval of its item and the
\* proposal of its item, and nothing else.
LEMMA BehindARun ==
  ASSUME NEW A, NEW k, NEW e, EdgeOK(e, A),
         e.to \in {<<"run", k>>, <<"job", k>>, ApprovedNode(k[1]), <<"proposed", k[1]>>}
  PROVE  e.from \in {<<"run", k>>, <<"job", k>>, ApprovedNode(k[1]), <<"proposed", k[1]>>}
<1>1. CASE Decided(e, A)
  <2>1. PICK h \in {1, 2} : \E r, i : e = ApprovalEdges(r, i)[h]
    BY <1>1 DEF Decided
  <2>2. CASE h = 1
    BY <2>1, <2>2 DEF ApprovalEdges, ApprovedNode
  <2>3. CASE h = 2
    BY <2>1, <2>3 DEF ApprovalEdges, ApprovedNode
  <2> QED BY <2>2, <2>3
<1>2. CASE Scheduling(e)
  BY <1>2 DEF Scheduling, ApprovedNode
<1>3. CASE Executing(e)
  BY <1>3 DEF Executing, ApprovedNode
<1> QED BY <1>1, <1>2, <1>3 DEF EdgeOK

-----------------------------------------------------------------------------
(* The theorems.                                                           *)

\* Rows, bundles and commands keep their types: in particular what is stored as
\* an effective proposal is a whole bundle, and what is queued is a content.
THEOREM GatesTyped == Spec => []TypeOK
<1>1. IInv => TypeOK
  <2> SUFFICES ASSUME IInv PROVE TypeOK
    OBVIOUS
  <2>1. \A g \in Gate : disk[g] = None \/ disk[g] \in Bundle
    BY DEF IInv, TypeInv
  <2>2. \A r \in ToSet(approvals) : r.proposal \in Bundle /\ r.effective \in Bundle /\ r.items \subseteq Item
    <3> SUFFICES ASSUME NEW n \in DOMAIN approvals
                 PROVE  /\ approvals[n].proposal \in Bundle
                        /\ approvals[n].effective \in Bundle
                        /\ approvals[n].items \subseteq Item
      BY DEF ToSet
    <3>1. approvals[n] \in Record
      BY DEF IInv, TypeInv
    <3> QED BY <3>1 DEF Record
  <2>3. \A k \in JobKey : jobs[k] = None \/ jobs[k].content \in Content
    BY DEF IInv, TypeInv, JobRow
  <2>4. \A p \in Process : proc[p].pc \in PC
    BY DEF IInv, TypeInv, LocalState
  <2> QED BY <2>1, <2>2, <2>3, <2>4 DEF TypeOK, IInv, TypeInv
<1> QED BY <1>1, Invariance, PTL

\* A recorded decision is about the bundle its author read, and its effective
\* proposal is that bundle with that author's edits (validateApproval, approve).
THEOREM DecisionsBindBytes == Spec => []DecisionBindsBytes
<1>1. IInv => DecisionBindsBytes
  BY DEF IInv, RowChecked, DecisionBindsBytes, ToSet
<1> QED BY <1>1, Invariance, PTL

\* A gate is decided only after every earlier gate was approved, however many
\* commands decide at once (assertGateReachable on a list that may be stale).
THEOREM GatesAreOrdered == Spec => []GatesInOrder
<1>1. IInv => GatesInOrder
  BY DEF IInv
<1> QED BY <1>1, Invariance, PTL

\* Every job, retries included, runs an item of a recorded approval of its gate
\* with the content that approval left it (run, enqueueExperiment, drain).
THEOREM OnlyApprovedRuns == Spec => []OnlyApprovedContentRuns
<1>1. IInv => OnlyApprovedContentRuns
  BY DEF IInv, JobApproved, OnlyApprovedContentRuns
<1> QED BY <1>1, Invariance, PTL

\* A destructive content is queued only under an approval that acknowledges it.
THEOREM DestructiveIsAcknowledged == Spec => []DestructiveAcknowledged
<1>1. IInv => DestructiveAcknowledged
  <2> SUFFICES ASSUME IInv, NEW k \in JobKey, jobs[k] # None, jobs[k].content \in Destructive
               PROVE  \E r \in ToSet(approvals) : r.id = jobs[k].approval /\ k[1] \in r.acks
    BY DEF DestructiveAcknowledged
  <2>1. PICK n \in Approved(approvals, RunGate) :
          /\ approvals[n].id = jobs[k].approval
          /\ k[1] \in approvals[n].items
          /\ jobs[k].content = approvals[n].effective.items[k[1]]
    BY DEF IInv, JobApproved
  <2>2. n \in DOMAIN approvals /\ approvals[n] \in ToSet(approvals)
    BY <2>1 DEF Approved, ForGate, ToSet
  <2>3. k[1] \in approvals[n].acks
    BY <2>1, <2>2 DEF IInv, RowChecked
  <2> QED BY <2>1, <2>2, <2>3
<1> QED BY <1>1, Invariance, PTL

\* The lineage credits a person with nothing no recorded approval says: neither
\* by an edge of its own, nor by a run the closure calls authorised, whatever
\* edges crashes left out (approve, run, closure, unauthorisedRuns).
THEOREM LineageIsHonest == Spec => []LineageNeverOverclaims
<1>1. IInv /\ LineageInv => LineageNeverOverclaims
  <2> SUFFICES ASSUME LineageInv PROVE LineageNeverOverclaims
    OBVIOUS
  <2>1. ASSUME NEW e \in edges, e.human
        PROVE  \E r \in ToSet(approvals) :
                 /\ r.decision = "approve"
                 /\ \E i \in r.items : ApprovedNode(i) \in {e.from, e.to}
                 /\ e.edge = "governed_by" => e.to = <<"approval", r.id>>
    <3>1. EdgeOK(e, approvals)
      BY DEF LineageInv
    <3> QED BY <2>1, <3>1, HumanEdge
  <2>2. ASSUME NEW e \in edges, e.edge = "executed_as", e.to \notin unauthorisedRuns(edges)
        PROVE  \E r \in ToSet(approvals) : r.decision = "approve" /\ e.to[2][1] \in r.items
    <3>1. PICK k : e = [edge |-> "executed_as", from |-> <<"job", k>>, to |-> <<"run", k>>, human |-> FALSE]
      <4>1. EdgeOK(e, approvals) /\ ~Scheduling(e)
        BY <2>2 DEF LineageInv, Scheduling
      <4>2. ~Decided(e, approvals)
        <5> SUFFICES ASSUME NEW r, NEW i, NEW h \in {1, 2}, e = ApprovalEdges(r, i)[h] PROVE FALSE
          BY DEF Decided
        <5>1. ApprovalEdges(r, i)[1].edge = "approved_as" /\ ApprovalEdges(r, i)[2].edge = "governed_by"
          BY DEF ApprovalEdges
        <5> QED BY <2>2, <5>1
      <4> QED BY <4>1, <4>2 DEF EdgeOK, Executing
    <3>2. e.to = <<"run", k>> /\ e.to[2][1] = k[1]
      BY <3>1
    <3>3. PICK y \in Ancestors(edges, e.to) : y.human \/ y.edge = "governed_by"
      BY <2>2 DEF unauthorisedRuns
    <3> DEFINE B == {<<"run", k>>, <<"job", k>>, ApprovedNode(k[1]), <<"proposed", k[1]>>}
    <3>4. \A x \in edges : x.to \in B => x.from \in B
      BY BehindARun DEF LineageInv
    <3>5. y \in edges /\ y.to \in B
      <4>1. e.to \in B /\ IsFiniteSet(edges)
        BY <3>2 DEF LineageInv
      <4> HIDE DEF B
      <4>2. Reaching(edges, e.to) \subseteq B
        BY <3>4, <4>1, ReachedWithin
      <4> QED BY <3>3, <4>2 DEF Ancestors
    <3>6. EdgeOK(y, approvals)
      BY <3>5 DEF LineageInv
    <3>7. PICK r \in ToSet(approvals) : \E i \in r.items :
            /\ r.decision = "approve"
            /\ \/ y.edge = "approved_as" /\ y.from = <<"proposed", i>> /\ y.to = ApprovedNode(i)
               \/ y.edge = "governed_by" /\ y.from = ApprovedNode(i) /\ y.to = <<"approval", r.id>>
      BY <3>3, <3>6, HumanEdge
    <3>8. ASSUME NEW i, y.to = ApprovedNode(i) PROVE i = k[1]
      BY <3>5, <3>8 DEF ApprovedNode
    <3>9. y.to # <<"approval", r.id>>
      BY <3>5 DEF ApprovedNode
    <3> QED BY <3>2, <3>7, <3>8, <3>9
  <2> QED BY <2>1, <2>2 DEF LineageNeverOverclaims
<1>2. IInv /\ LineageInv /\ [Next]_vars => (IInv /\ LineageInv)'
  BY NextInv, LineageNext
<1> QED BY <1>1, <1>2, InitInv, LineageInit, PTL DEF Spec

=============================================================================
