------------------------ MODULE ArtifactStoreProofs ------------------------
(***************************************************************************)
(* The artifact store keeps its promises for any processes, investigations *)
(* and contents, and however hashes and ids collide: types, RefsOnlyExpire *)
(* and LiveRefResolves.                                                    *)
(*                                                                         *)
(* LiveRefResolves is not inductive.  What is (StoreInv): whatever lies    *)
(* torn at an address is spoiled, and a content that a live row names, or  *)
(* that a put has found or written and not yet registered, is there whole  *)
(* or is spoiled.  A removal looks at exactly those two when it decides    *)
(* what it spoils.                                                         *)
(***************************************************************************)
EXTENDS ArtifactStore, FiniteSetTheorems, TLAPS

Local ==
  [pc : PC, inv : Investigation \cup {None}, blob : Blob \cup {None}, run : Run \cup {None},
   todo : SUBSET Id, id : Id \cup {None}]

\* What a command has in hand at each of its steps.
InHand(r, ids) ==
  /\ r.pc \in {"write", "insert"} => r.inv \in Investigation /\ r.blob \in Blob
  /\ r.pc \in {"checkRefs", "remove"} => r.id \in ids
  /\ r.todo \subseteq ids

TypeInv ==
  /\ file \in [Investigation \X Blob -> {"absent", "partial", "whole"}]
  /\ refs \in [Id -> Row \cup {NoRow}]
  /\ IsFiniteSet(Registered)
  /\ proc \in [Process -> Local]
  /\ \A p \in Process : InHand(proc[p], Registered)
  /\ spoiled \subseteq Investigation \X Blob
  /\ started \in 0 .. MaxCommands

Sound(i, b) == file[<<i, b>>] = "whole" \/ <<i, b>> \in spoiled

Torn       == \A i \in Investigation, b \in Blob : file[<<i, b>>] = "partial" => <<i, b>> \in spoiled
RowsSound  == \A id \in Live : Sound(refs[id].inv, refs[id].blob)
PutsSound  == \A p \in Process : proc[p].pc = "insert" => Sound(proc[p].inv, proc[p].blob)

StoreInv == TypeInv /\ Torn /\ RowsSound /\ PutsSound

-----------------------------------------------------------------------------
(* Types.                                                                  *)

\* The id of a put is one of the table's.
LEMMA IdOfPut == ASSUME NEW b \in Blob, NEW r \in Run \cup {None} PROVE artifactId(b, r) \in Id
  BY DEF artifactId, Id

\* Idle is a state of a command, and holds nothing.
LEMMA IdleIsLocal == Idle \in Local /\ \A ids : InHand(Idle, ids)
  BY DEF Idle, Local, InHand, PC

\* A registered id has a row, and every row names a content.
LEMMA RegisteredRows ==
  ASSUME TypeInv
  PROVE  /\ Live \subseteq Registered /\ Registered \subseteq Id
         /\ \A id \in Registered : refs[id] \in Row
  BY DEF TypeInv, Registered, Live, Row, NoRow

\* A command that moves on keeps the types of all, when no row disappears.
LEMMA ProcTyped ==
  ASSUME TypeInv, NEW p \in Process, NEW new \in Local, NEW ids,
         Registered \subseteq ids, InHand(new, ids), proc' = [proc EXCEPT ![p] = new]
  PROVE  proc' \in [Process -> Local] /\ \A q \in Process : InHand(proc'[q], ids)
<1>1. proc \in [Process -> Local] /\ \A q \in Process : InHand(proc[q], Registered)
  BY DEF TypeInv
<1>2. proc' \in [Process -> Local]
  BY <1>1
<1>3. ASSUME NEW q \in Process PROVE InHand(proc'[q], ids)
  <2>1. CASE q = p
    BY <1>1, <2>1
  <2>2. CASE q # p
    <3>1. proc'[q] = proc[q] /\ InHand(proc[q], Registered)
      BY <1>1, <2>2
    <3> QED
      BY <3>1 DEF InHand
  <2> QED
    BY <2>1, <2>2
<1> QED
  BY <1>2, <1>3

\* What the steps of a command make of its locals.
LEMMA LocalMoves ==
  ASSUME NEW r \in Local, NEW ids \in SUBSET Id, InHand(r, ids)
  PROVE  /\ r.pc = "write" => At(r, "insert") \in Local /\ InHand(At(r, "insert"), ids)
         /\ r.pc = "checkRefs" => At(r, "remove") \in Local /\ InHand(At(r, "remove"), ids)
         /\ \A id \in r.todo : Selected(r, id) \in Local /\ InHand(Selected(r, id), ids)
         /\ Onwards(r) \in Local /\ InHand(Onwards(r), ids)
<1>1. r.pc = "write" => At(r, "insert") \in Local /\ InHand(At(r, "insert"), ids)
  BY DEF Local, InHand, At, PC
<1>2. r.pc = "checkRefs" => At(r, "remove") \in Local /\ InHand(At(r, "remove"), ids)
  BY DEF Local, InHand, At, PC
<1>3. ASSUME NEW id \in r.todo PROVE Selected(r, id) \in Local /\ InHand(Selected(r, id), ids)
  BY DEF Local, InHand, Selected, PC
<1>4. Onwards(r) \in Local /\ InHand(Onwards(r), ids)
  BY IdleIsLocal DEF Local, InHand, Onwards, PC
<1> QED
  BY <1>1, <1>2, <1>3, <1>4

\* The locals of a command that starts.
LEMMA LocalStarts ==
  /\ \A pc \in {"write", "insert"}, i \in Investigation, b \in Blob, r \in Run \cup {None} : \A ids :
       Putting(pc, i, b, r) \in Local /\ InHand(Putting(pc, i, b, r), ids)
  /\ \A eligible \in SUBSET Id : \A ids :
       eligible \subseteq ids => Retaining(eligible) \in Local /\ InHand(Retaining(eligible), ids)
<1>1. ASSUME NEW pc \in {"write", "insert"}, NEW i \in Investigation, NEW b \in Blob, NEW r \in Run \cup {None}, NEW ids
      PROVE  Putting(pc, i, b, r) \in Local /\ InHand(Putting(pc, i, b, r), ids)
  BY DEF Putting, Idle, Local, InHand, PC
<1>2. ASSUME NEW eligible \in SUBSET Id, NEW ids, eligible \subseteq ids
      PROVE  Retaining(eligible) \in Local /\ InHand(Retaining(eligible), ids)
  BY <1>2 DEF Retaining, Idle, Local, InHand, PC
<1> QED
  BY <1>1, <1>2

-----------------------------------------------------------------------------
(* The table: what an insertion and an expiry make of it.                  *)

\* A row may be added or may expire; nothing else happens to the table.
Grows ==
  /\ refs' \in [Id -> Row \cup {NoRow}]
  /\ Registered \subseteq Registered' /\ IsFiniteSet(Registered')
  /\ \A id \in Registered : refs'[id] = refs[id] \/ refs'[id] = Expired(refs[id])

\* A table that stays as it is grows.
LEMMA UnchangedGrows ==
  ASSUME TypeInv, UNCHANGED refs PROVE Grows /\ Registered' = Registered /\ Live' = Live
  BY DEF TypeInv, Grows, Registered, Live

\* So does one with a row more.
LEMMA InsertGrows ==
  ASSUME TypeInv, NEW id \in Id, NEW row \in Row, row.state = "live", refs' = Inserted(id, row)
  PROVE  /\ Grows
         /\ \A x \in Live' : (x \in Live /\ refs'[x] = refs[x]) \/ (x = id /\ refs'[x] = row)
<1>1. CASE id \in Registered
  <2>1. UNCHANGED refs
    BY <1>1 DEF Inserted
  <2> QED
    BY <2>1, UnchangedGrows DEF Live
<1>2. CASE id \notin Registered
  <2>1. refs' = [refs EXCEPT ![id] = row] /\ refs \in [Id -> Row \cup {NoRow}]
    BY <1>2 DEF Inserted, TypeInv
  <2>2. refs' \in [Id -> Row \cup {NoRow}] /\ \A x \in Id : refs'[x] = IF x = id THEN row ELSE refs[x]
    BY <2>1
  <2>3. Registered' = Registered \cup {id}
    BY <2>2 DEF Registered
  <2>4. IsFiniteSet(Registered')
    BY <2>3, FS_AddElement DEF TypeInv
  <2>5. \A x \in Registered : refs'[x] = refs[x]
    BY <1>2, <2>2 DEF Registered
  <2>6. \A x \in Live' : (x \in Live /\ refs'[x] = refs[x]) \/ (x = id /\ refs'[x] = row)
    BY <2>2 DEF Live
  <2> QED
    BY <2>2, <2>3, <2>4, <2>5, <2>6 DEF Grows
<1> QED
  BY <1>1, <1>2

\* And one of which a row expires.
LEMMA ExpiryGrows ==
  ASSUME TypeInv, NEW id \in Registered, refs' = [refs EXCEPT ![id] = Expired(@)]
  PROVE  Grows /\ Registered' = Registered /\ \A x \in Live' : x \in Live /\ refs'[x] = refs[x]
<1>1. refs \in [Id -> Row \cup {NoRow}] /\ id \in Id /\ refs[id] \in Row
  BY RegisteredRows DEF TypeInv
<1>2. Expired(refs[id]) \in Row /\ Expired(refs[id]).state = "tombstoned"
  BY <1>1 DEF Row, Expired
<1>3. refs' \in [Id -> Row \cup {NoRow}] /\ \A x \in Id : refs'[x] = IF x = id THEN Expired(refs[id]) ELSE refs[x]
  BY <1>1, <1>2
<1>4. Registered' = Registered
  BY <1>2, <1>3 DEF Registered
<1>5. \A x \in Live' : x \in Live /\ refs'[x] = refs[x]
  BY <1>2, <1>3 DEF Live
<1>6. \A x \in Registered : refs'[x] = refs[x] \/ refs'[x] = Expired(refs[x])
  BY <1>3 DEF Registered
<1> QED
  BY <1>3, <1>4, <1>5, <1>6 DEF Grows, TypeInv

-----------------------------------------------------------------------------
(* Every step keeps the types and only lets the table grow.                *)

\* Command p takes a step that leaves its locals as new.
Moves(p, new) ==
  /\ proc' = [proc EXCEPT ![p] = new]
  /\ new \in Local /\ InHand(new, Registered')

\* What is left to say of a step: files, what is spoiled, and the bound.
Rest ==
  /\ file' \in [Investigation \X Blob -> {"absent", "partial", "whole"}]
  /\ spoiled' \subseteq Investigation \X Blob
  /\ started' \in 0 .. MaxCommands

LEMMA TypesAssemble ==
  ASSUME TypeInv, NEW p \in Process, NEW new, Moves(p, new), Grows, Rest PROVE TypeInv'
<1>1. proc' \in [Process -> Local] /\ \A q \in Process : InHand(proc'[q], Registered')
  BY ProcTyped DEF Moves, Grows
<1> QED
  BY <1>1 DEF TypeInv, Grows, Rest

\* A command that starts, from the locals it starts with.
LEMMA StartTypes ==
  ASSUME TypeInv, NEW p \in Process, NEW new \in Local, InHand(new, Registered), MayStart(p),
         proc' = [proc EXCEPT ![p] = new], UNCHANGED <<file, refs, spoiled>>
  PROVE  TypeInv' /\ Grows
<1>1. Grows /\ Registered' = Registered
  BY UnchangedGrows
<1>2. Moves(p, new)
  BY <1>1 DEF Moves
<1>3. Rest
  BY BoundAssumption DEF Rest, MayStart, TypeInv
<1> QED
  BY <1>1, <1>2, <1>3, TypesAssemble

LEMMA StartPutTypes ==
  ASSUME TypeInv, NEW p \in Process, NEW i \in Investigation, NEW r \in Run \cup {None}, NEW b \in Blob, StartPut(p, i, r, b)
  PROVE  TypeInv' /\ Grows
<1>1. AfterLookup(i, b) \in {"write", "insert"}
  BY DEF AfterLookup
<1>2. Putting(AfterLookup(i, b), i, b, r) \in Local /\ InHand(Putting(AfterLookup(i, b), i, b, r), Registered)
  BY <1>1, LocalStarts
<1> QED
  BY <1>2, StartTypes DEF StartPut

LEMMA StartRetentionTypes ==
  ASSUME TypeInv, NEW p \in Process, NEW cutoff, StartRetention(p, cutoff)
  PROVE  TypeInv' /\ Grows
<1> DEFINE eligible == { id \in Live : refs[id].at < cutoff /\ ~Exempt(KindOf[refs[id].blob]) }
<1>1. eligible \subseteq Registered /\ eligible \in SUBSET Id
  BY RegisteredRows
<1>2. Retaining(eligible) \in Local /\ InHand(Retaining(eligible), Registered)
  BY <1>1, LocalStarts
<1>3. MayStart(p) /\ proc' = [proc EXCEPT ![p] = Retaining(eligible)] /\ UNCHANGED <<file, refs, spoiled>>
  BY DEF StartRetention
<1> QED
  BY <1>2, <1>3, StartTypes

LEMMA StepTypes ==
  ASSUME TypeInv, NEW p \in Process, Step(p) \/ Crash(p)
  PROVE  TypeInv' /\ Grows
<1> DEFINE r == proc[p]
<1>1. r \in Local /\ InHand(r, Registered) /\ Registered \in SUBSET Id
  BY RegisteredRows DEF TypeInv
<1>2. /\ r.pc \in {"write", "insert"} => r.inv \in Investigation /\ r.blob \in Blob /\ <<r.inv, r.blob>> \in Investigation \X Blob
      /\ r.run \in Run \cup {None}
      /\ r.pc \in {"checkRefs", "remove"} => r.id \in Registered
  BY <1>1 DEF InHand, Local
<1>3. CASE WriteFile(p)
  <2>1. Grows /\ Registered' = Registered
    BY <1>3, UnchangedGrows DEF WriteFile
  <2>2. Moves(p, At(r, "insert"))
    BY <1>1, <1>3, <2>1, LocalMoves DEF Moves, WriteFile
  <2>3. Rest
    BY <1>2, <1>3 DEF Rest, WriteFile, TypeInv
  <2> QED
    BY <2>1, <2>2, <2>3, TypesAssemble
<1>4. CASE WriteFails(p)
  <2>1. Grows /\ Registered' = Registered
    BY <1>4, UnchangedGrows DEF WriteFails
  <2>2. Moves(p, Idle)
    BY <1>4, IdleIsLocal DEF Moves, WriteFails
  <2>3. Rest
    BY <1>2, <1>4 DEF Rest, WriteFails, TypeInv
  <2> QED
    BY <2>1, <2>2, <2>3, TypesAssemble
<1>5. CASE InsertRow(p)
  <2> DEFINE row == [state |-> "live", inv |-> r.inv, blob |-> r.blob, at |-> Cardinality(Registered)]
  <2>1. artifactId(r.blob, r.run) \in Id
    BY <1>2, <1>5, IdOfPut DEF InsertRow
  <2>2. Cardinality(Registered) \in Nat
    BY FS_CardinalityType DEF TypeInv
  <2>3. row \in Row /\ row.state = "live"
    BY <1>2, <1>5, <2>2 DEF Row, InsertRow
  <2>4. refs' = Inserted(artifactId(r.blob, r.run), row)
    BY <1>5 DEF InsertRow
  <2>5. Grows
    BY <2>1, <2>3, <2>4, InsertGrows
  <2>6. Moves(p, Idle)
    BY <1>5, IdleIsLocal DEF Moves, InsertRow
  <2>7. Rest
    BY <1>5 DEF Rest, InsertRow, TypeInv
  <2> QED
    BY <2>5, <2>6, <2>7, TypesAssemble
<1>6. CASE Tombstone(p)
  <2>1. PICK id \in r.todo :
          IF refs[id].state = "live"
          THEN refs' = [refs EXCEPT ![id] = Expired(@)] /\ proc' = [proc EXCEPT ![p] = Selected(@, id)]
          ELSE proc' = [proc EXCEPT ![p] = Idle] /\ UNCHANGED refs
    BY <1>6 DEF Tombstone
  <2>2. id \in Registered
    BY <1>1, <2>1 DEF InHand
  <2>3. Rest
    BY <1>6 DEF Rest, Tombstone, TypeInv
  <2>4. CASE refs[id].state = "live"
    <3>1. Grows /\ Registered' = Registered
      BY <2>1, <2>2, <2>4, ExpiryGrows
    <3>2. Moves(p, Selected(r, id))
      BY <1>1, <2>1, <2>4, <3>1, LocalMoves DEF Moves
    <3> QED
      BY <2>3, <3>1, <3>2, TypesAssemble
  <2>5. CASE refs[id].state # "live"
    <3>1. Grows
      BY <2>1, <2>5, UnchangedGrows
    <3>2. Moves(p, Idle)
      BY <2>1, <2>5, IdleIsLocal DEF Moves
    <3> QED
      BY <2>3, <3>1, <3>2, TypesAssemble
  <2> QED
    BY <2>4, <2>5
<1>7. CASE CheckRefs(p)
  <2>1. Grows /\ Registered' = Registered
    BY <1>7, UnchangedGrows DEF CheckRefs
  <2>2. r.pc = "checkRefs" /\ (proc' = [proc EXCEPT ![p] = At(r, "remove")] \/ proc' = [proc EXCEPT ![p] = Onwards(r)])
    BY <1>7 DEF CheckRefs, NextArtifact
  <2>3. Moves(p, At(r, "remove")) \/ Moves(p, Onwards(r))
    BY <1>1, <2>1, <2>2, LocalMoves DEF Moves
  <2>4. Rest
    BY <1>7 DEF Rest, CheckRefs, TypeInv
  <2> QED
    BY <2>1, <2>3, <2>4, TypesAssemble
<1>8. CASE RemoveFile(p)
  <2>1. Grows /\ Registered' = Registered
    BY <1>8, UnchangedGrows DEF RemoveFile
  <2>2. Moves(p, Onwards(r))
    BY <1>1, <1>8, <2>1, LocalMoves DEF Moves, RemoveFile, NextArtifact
  <2>3. refs[r.id].inv \in Investigation /\ refs[r.id].blob \in Blob
    BY <1>2, <1>8, RegisteredRows DEF RemoveFile, Row
  <2>4. Rest
    BY <1>8, <2>3 DEF Rest, RemoveFile, TypeInv
  <2> QED
    BY <2>1, <2>2, <2>4, TypesAssemble
<1>9. CASE Crash(p)
  <2>1. Grows /\ Registered' = Registered
    BY <1>9, UnchangedGrows DEF Crash
  <2>2. Moves(p, Idle)
    BY <1>9, IdleIsLocal DEF Moves, Crash
  <2>3. Rest
    BY <1>9 DEF Rest, Crash, TypeInv
  <2> QED
    BY <2>1, <2>2, <2>3, TypesAssemble
<1> QED
  BY <1>3, <1>4, <1>5, <1>6, <1>7, <1>8, <1>9 DEF Step

-----------------------------------------------------------------------------
(* Every step keeps the contents sound.                                    *)

Contents == Torn /\ RowsSound /\ PutsSound

\* A step that adds no live row and lets no put pass its lookup.
NothingNew ==
  /\ \A id \in Live' : id \in Live /\ refs'[id] = refs[id]
  /\ \A q \in Process : proc'[q].pc = "insert" => proc'[q] = proc[q]

\* Such a step damages nothing when it leaves the files alone.
LEMMA FilesUntouched ==
  ASSUME StoreInv, NothingNew, UNCHANGED <<file, spoiled>> PROVE Contents'
  BY DEF StoreInv, NothingNew, Contents, Torn, RowsSound, PutsSound, Sound

\* The same of the state after a step.
SoundAfter(i, b) == file'[<<i, b>>] = "whole" \/ <<i, b>> \in spoiled'

\* It damages nothing either when what was sound still is.
LEMMA KeepsWhatIsSound ==
  ASSUME StoreInv, NothingNew, Torn', \A i \in Investigation, b \in Blob : Sound(i, b) => SoundAfter(i, b)
  PROVE  Contents'
<1>1. \A id \in Live : SoundAfter(refs[id].inv, refs[id].blob)
  BY RegisteredRows DEF StoreInv, RowsSound, Row
<1>2. \A q \in Process : proc[q].pc = "insert" => SoundAfter(proc[q].inv, proc[q].blob)
  BY DEF StoreInv, PutsSound, TypeInv, InHand
<1> QED
  BY <1>1, <1>2 DEF Contents, RowsSound, PutsSound, NothingNew, Sound, SoundAfter

\* The locals that cannot be those of a put past its lookup.
LEMMA NotInserting ==
  ASSUME TypeInv, NEW p \in Process, NEW new, new.pc # "insert", proc' = [proc EXCEPT ![p] = new],
         \A id \in Live' : id \in Live /\ refs'[id] = refs[id]
  PROVE  NothingNew
  BY DEF NothingNew, TypeInv

LEMMA PcOfLocals ==
  ASSUME NEW r \in Local
  PROVE  /\ Idle.pc # "insert" /\ Onwards(r).pc # "insert" /\ At(r, "remove").pc # "insert"
         /\ \A id : Selected(r, id).pc # "insert"
         /\ \A eligible : Retaining(eligible).pc # "insert"
  BY DEF Local, Idle, Onwards, At, Selected, Retaining

\* A put that begins finds a file that is whole, or torn and so spoiled.
LEMMA StartPutSound ==
  ASSUME StoreInv, NEW p \in Process, NEW i \in Investigation, NEW r \in Run \cup {None}, NEW b \in Blob, StartPut(p, i, r, b)
  PROVE  Contents'
<1> DEFINE new == Putting(AfterLookup(i, b), i, b, r)
<1>1. /\ proc' = [proc EXCEPT ![p] = new] /\ UNCHANGED <<file, refs, spoiled>>
      /\ Live' = Live /\ proc \in [Process -> Local]
  BY UnchangedGrows DEF StartPut, StoreInv, TypeInv
<1>2. new.pc = AfterLookup(i, b) /\ new.inv = i /\ new.blob = b
  BY DEF Putting, Idle
<1>3. AfterLookup(i, b) = "insert" => Sound(i, b)
  <2>1. file[<<i, b>>] \in {"absent", "partial", "whole"}
    BY DEF StoreInv, TypeInv
  <2> QED
    BY <2>1 DEF AfterLookup, Sound, StoreInv, Torn
<1>4. PutsSound'
  <2> SUFFICES ASSUME NEW q \in Process, proc'[q].pc = "insert" PROVE Sound(proc'[q].inv, proc'[q].blob)
    BY <1>1 DEF PutsSound, Sound
  <2>1. CASE q = p
    BY <1>1, <1>2, <1>3, <2>1
  <2>2. CASE q # p
    BY <1>1, <2>2 DEF StoreInv, PutsSound
  <2> QED
    BY <2>1, <2>2
<1>5. Torn' /\ RowsSound'
  BY <1>1 DEF StoreInv, Torn, RowsSound, Sound
<1> QED
  BY <1>4, <1>5 DEF Contents

\* A whole file serves every row and put of its content.
LEMMA WriteSound ==
  ASSUME StoreInv, NEW p \in Process, WriteFile(p) PROVE Contents'
<1> DEFINE r == proc[p]  at == <<r.inv, r.blob>>
<1>1. r \in Local /\ r.inv \in Investigation /\ r.blob \in Blob /\ at \in Investigation \X Blob
  BY DEF StoreInv, TypeInv, InHand, WriteFile
<1>2. /\ \A x \in Investigation \X Blob : file'[x] = IF x = at THEN "whole" ELSE file[x]
      /\ spoiled' = spoiled \ {at}
      /\ proc' = [proc EXCEPT ![p] = At(r, "insert")] /\ proc \in [Process -> Local]
      /\ UNCHANGED refs /\ Live' = Live
  BY <1>1, UnchangedGrows DEF StoreInv, TypeInv, WriteFile
<1>3. \A i \in Investigation, b \in Blob : Sound(i, b) => SoundAfter(i, b)
  BY <1>2 DEF Sound, SoundAfter
<1>4. SoundAfter(r.inv, r.blob)
  BY <1>1, <1>2 DEF SoundAfter
<1>5. Torn'
  BY <1>2 DEF StoreInv, Torn
<1>6. \A id \in Live : SoundAfter(refs[id].inv, refs[id].blob)
  BY <1>3, RegisteredRows DEF StoreInv, RowsSound, Row
<1>7. RowsSound'
  BY <1>2, <1>6 DEF RowsSound, Sound, SoundAfter
<1>8. ASSUME NEW q \in Process, proc'[q].pc = "insert" PROVE SoundAfter(proc'[q].inv, proc'[q].blob)
  <2>1. CASE q = p
    <3>1. proc'[q] = At(r, "insert") /\ At(r, "insert").inv = r.inv /\ At(r, "insert").blob = r.blob
      BY <1>1, <1>2, <2>1 DEF At, Local
    <3> QED
      BY <1>4, <3>1
  <2>2. CASE q # p
    <3>1. proc'[q] = proc[q]
      BY <1>2, <2>2
    <3> QED
      BY <1>3, <1>8, <3>1 DEF StoreInv, PutsSound, TypeInv, InHand
  <2> QED
    BY <2>1, <2>2
<1>9. PutsSound'
  BY <1>8 DEF PutsSound, Sound, SoundAfter
<1> QED
  BY <1>5, <1>7, <1>9 DEF Contents

\* A torn write spoils what it leaves.
LEMMA TornWriteSound ==
  ASSUME StoreInv, NEW p \in Process, WriteFails(p) PROVE Contents'
<1> DEFINE r == proc[p]  at == <<r.inv, r.blob>>
<1>1. r \in Local /\ r.inv \in Investigation /\ r.blob \in Blob /\ at \in Investigation \X Blob
  BY DEF StoreInv, TypeInv, InHand, WriteFails
<1>2. /\ \A x \in Investigation \X Blob : file'[x] = IF x = at THEN "partial" ELSE file[x]
      /\ spoiled' = spoiled \cup {at}
      /\ proc' = [proc EXCEPT ![p] = Idle] /\ UNCHANGED refs /\ Live' = Live
  BY <1>1, UnchangedGrows DEF StoreInv, TypeInv, WriteFails
<1>3. \A i \in Investigation, b \in Blob : Sound(i, b) => SoundAfter(i, b)
  BY <1>2 DEF Sound, SoundAfter
<1>4. NothingNew
  BY <1>1, <1>2, NotInserting, PcOfLocals DEF StoreInv
<1>5. Torn'
  BY <1>2 DEF StoreInv, Torn
<1> QED
  BY <1>3, <1>4, <1>5, KeepsWhatIsSound

\* An expired row needs no bytes: a removal spoils what another still needs.
LEMMA RemovalSound ==
  ASSUME StoreInv, NEW p \in Process, RemoveFile(p) PROVE Contents'
<1> DEFINE r == proc[p]  row == refs[r.id]  at == <<row.inv, row.blob>>
<1>1. r \in Local /\ row \in Row /\ row.inv \in Investigation /\ row.blob \in Blob /\ at \in Investigation \X Blob
  BY RegisteredRows DEF StoreInv, TypeInv, InHand, RemoveFile, Row
<1>2. /\ \A x \in Investigation \X Blob : file'[x] = IF x = at THEN "absent" ELSE file[x]
      /\ spoiled' = IF UnderPut(row.inv, row.blob) THEN spoiled \cup {at} ELSE spoiled \ {at}
      /\ proc' = [proc EXCEPT ![p] = Onwards(r)] /\ UNCHANGED refs /\ Live' = Live
  BY <1>1, UnchangedGrows DEF StoreInv, TypeInv, RemoveFile, NextArtifact
<1>3. NothingNew
  BY <1>1, <1>2, NotInserting, PcOfLocals DEF StoreInv
<1>4. Torn'
  BY <1>2 DEF StoreInv, Torn
<1>5. ASSUME NEW id \in Live PROVE SoundAfter(refs[id].inv, refs[id].blob)
  <2>1. refs[id].inv \in Investigation /\ refs[id].blob \in Blob /\ Sound(refs[id].inv, refs[id].blob)
    BY RegisteredRows DEF StoreInv, RowsSound, Row
  <2>2. CASE <<refs[id].inv, refs[id].blob>> = at
    <3>1. UnderPut(row.inv, row.blob)
      BY <2>2 DEF UnderPut, Unreferenced
    <3> QED
      BY <1>2, <2>2, <3>1 DEF SoundAfter
  <2>3. CASE <<refs[id].inv, refs[id].blob>> # at
    BY <1>2, <2>1, <2>3 DEF Sound, SoundAfter
  <2> QED
    BY <2>2, <2>3
<1>6. ASSUME NEW q \in Process, proc[q].pc = "insert" PROVE SoundAfter(proc[q].inv, proc[q].blob)
  <2>1. proc[q].inv \in Investigation /\ proc[q].blob \in Blob /\ Sound(proc[q].inv, proc[q].blob)
    BY <1>6 DEF StoreInv, PutsSound, TypeInv, InHand
  <2>2. CASE <<proc[q].inv, proc[q].blob>> = at
    <3>1. UnderPut(row.inv, row.blob)
      BY <1>6, <2>2 DEF UnderPut
    <3> QED
      BY <1>2, <2>2, <3>1 DEF SoundAfter
  <2>3. CASE <<proc[q].inv, proc[q].blob>> # at
    BY <1>2, <2>1, <2>3 DEF Sound, SoundAfter
  <2> QED
    BY <2>2, <2>3
<1>7. RowsSound' /\ PutsSound'
  BY <1>3, <1>5, <1>6 DEF RowsSound, PutsSound, Sound, SoundAfter, NothingNew
<1> QED
  BY <1>4, <1>7 DEF Contents

\* The row of a put names the content the put found or wrote.
LEMMA InsertSound ==
  ASSUME StoreInv, NEW p \in Process, InsertRow(p) PROVE Contents'
<1> DEFINE r == proc[p]
           row == [state |-> "live", inv |-> r.inv, blob |-> r.blob, at |-> Cardinality(Registered)]
<1>1. r \in Local /\ r.inv \in Investigation /\ r.blob \in Blob /\ r.run \in Run \cup {None} /\ Sound(r.inv, r.blob)
  BY DEF StoreInv, TypeInv, InHand, PutsSound, InsertRow, Local
<1>2. refs' = Inserted(artifactId(r.blob, r.run), row) /\ proc' = [proc EXCEPT ![p] = Idle] /\ UNCHANGED <<file, spoiled>>
  BY DEF InsertRow
<1>3. artifactId(r.blob, r.run) \in Id /\ row \in Row /\ row.state = "live"
  BY <1>1, IdOfPut, FS_CardinalityType DEF StoreInv, TypeInv, Row
<1>4. \A x \in Live' : (x \in Live /\ refs'[x] = refs[x]) \/ refs'[x] = row
  BY <1>2, <1>3, InsertGrows DEF StoreInv
<1>5. RowsSound'
  BY <1>1, <1>2, <1>4 DEF StoreInv, RowsSound, Sound
<1>6. PutsSound'
  BY <1>1, <1>2, PcOfLocals DEF StoreInv, TypeInv, PutsSound, Sound
<1>7. Torn'
  BY <1>2 DEF StoreInv, Torn
<1> QED
  BY <1>5, <1>6, <1>7 DEF Contents

\* What is left of the steps touches no file and adds no row.
LEMMA OthersSound ==
  ASSUME StoreInv, NEW p \in Process,
         \/ \E cutoff \in 1 .. Cardinality(Id) : StartRetention(p, cutoff)
         \/ Tombstone(p) \/ CheckRefs(p) \/ Crash(p)
  PROVE  Contents'
<1>1. proc[p] \in Local /\ InHand(proc[p], Registered)
  BY DEF StoreInv, TypeInv
<1>2. UNCHANGED <<file, spoiled>>
  BY DEF StartRetention, Tombstone, CheckRefs, Crash
<1>3. \A id \in Live' : id \in Live /\ refs'[id] = refs[id]
  <2>1. CASE UNCHANGED refs
    BY <2>1, UnchangedGrows DEF StoreInv
  <2>2. CASE \E id \in proc[p].todo : refs' = [refs EXCEPT ![id] = Expired(@)]
    BY <1>1, <2>2, ExpiryGrows DEF StoreInv, InHand
  <2> QED
    BY <2>1, <2>2 DEF StartRetention, Tombstone, CheckRefs, Crash
<1>4. PICK new : new.pc # "insert" /\ proc' = [proc EXCEPT ![p] = new]
  BY <1>1, PcOfLocals DEF StartRetention, Tombstone, CheckRefs, NextArtifact, Crash
<1>5. NothingNew
  BY <1>3, <1>4, NotInserting DEF StoreInv
<1> QED
  BY <1>2, <1>5, FilesUntouched

-----------------------------------------------------------------------------
(* The theorems.                                                           *)

LEMMA Initially == Init => StoreInv
<1> SUFFICES ASSUME Init PROVE StoreInv
  OBVIOUS
<1>1. Registered = {} /\ Live = {}
  BY DEF Init, Registered, Live, NoRow
<1>2. TypeInv
  BY <1>1, IdleIsLocal, FS_EmptySet, BoundAssumption DEF Init, TypeInv
<1>3. Torn /\ RowsSound /\ PutsSound
  BY <1>1 DEF Init, Torn, RowsSound, PutsSound, Idle
<1> QED
  BY <1>2, <1>3 DEF StoreInv

LEMMA Inductive == StoreInv /\ [Next]_vars => StoreInv' /\ Grows
<1> SUFFICES ASSUME StoreInv, [Next]_vars PROVE StoreInv' /\ Grows
  OBVIOUS
<1>1. TypeInv
  BY DEF StoreInv
<1>2. ASSUME NEW p \in Process, NEW i \in Investigation, NEW r \in Run \cup {None}, NEW b \in Blob, StartPut(p, i, r, b)
      PROVE  TypeInv' /\ Grows /\ Contents'
  BY <1>1, <1>2, StartPutTypes, StartPutSound
<1>3. ASSUME NEW p \in Process, NEW cutoff \in 1 .. Cardinality(Id), StartRetention(p, cutoff)
      PROVE  TypeInv' /\ Grows /\ Contents'
  BY <1>1, <1>3, StartRetentionTypes, OthersSound
<1>4. ASSUME NEW p \in Process, Step(p) \/ Crash(p)
      PROVE  TypeInv' /\ Grows /\ Contents'
  BY <1>1, <1>4, StepTypes, WriteSound, TornWriteSound, InsertSound, RemovalSound, OthersSound DEF Step
<1>5. CASE UNCHANGED vars
  <2>1. Grows /\ Registered' = Registered /\ Live' = Live
    BY <1>1, <1>5, UnchangedGrows DEF vars
  <2>2. TypeInv'
    BY <1>1, <1>5, <2>1 DEF vars, TypeInv
  <2>3. Torn' /\ RowsSound' /\ PutsSound'
    BY <1>5, <2>1 DEF vars, StoreInv, Torn, RowsSound, PutsSound, Sound
  <2> QED
    BY <2>1, <2>2, <2>3 DEF StoreInv
<1> QED
  BY <1>2, <1>3, <1>4, <1>5 DEF Next, StoreInv, Contents

\* The table, the files and the locals of every command keep their types.
THEOREM StoreTyped == Spec => []TypeOK
<1>1. StoreInv => TypeOK
  BY DEF StoreInv, TypeInv, TypeOK, InHand, Local, Registered
<1> QED
  BY <1>1, Initially, Inductive, PTL DEF Spec

\* A live reference names bytes that are there, or that a torn write or a
\* removal under a put has damaged (put and tombstone, local-artifact-store.ts).
THEOREM Resolves == Spec => []LiveRefResolves
<1>1. StoreInv => LiveRefResolves
  BY DEF StoreInv, TypeInv, RowsSound, Sound, Live, LiveRefResolves, get, Row, NoRow
<1> QED
  BY <1>1, Initially, Inductive, PTL DEF Spec

\* No command rewrites a row, whichever ids collide: it may only expire.
THEOREM RowsOnlyExpire == Spec => RefsOnlyExpire
<1> DEFINE OnlyExpires == \A id \in Id :
                            refs[id].state # "none" =>
                              \/ refs'[id] = refs[id]
                              \/ refs'[id] = Expired(refs[id])
<1>1. Grows => OnlyExpires
  BY DEF Grows, Registered
<1>2. StoreInv /\ [Next]_vars => [OnlyExpires]_refs
  BY <1>1, Inductive
<1> QED
  BY <1>2, Initially, Inductive, PTL DEF Spec, RefsOnlyExpire
=============================================================================
