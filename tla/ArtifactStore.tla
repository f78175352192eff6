--------------------------- MODULE ArtifactStore ---------------------------
(***************************************************************************)
(* The local artifact store (packages/storage/src/local-artifact-store.ts) *)
(* with the artifact_refs table and the one command that deletes bytes,    *)
(* `investigate retention apply' (apps/cli/src/commands/retention.ts).     *)
(*                                                                         *)
(* Bytes live in a file named by their hash, and are written and removed   *)
(* outside any transaction; the row that refers to them is written in one. *)
(* A process can die between any two of these steps.  A blob stands for    *)
(* its bytes and hash; its kind is part of the path and of the id.         *)
(***************************************************************************)
EXTENDS Naturals, FiniteSets

CONSTANTS
  Process,         \* processes that may have the workspace open
  Investigation,
  Run,             \* run ids, which every investigation counts from RUN-0001
  Blob,            \* contents
  KindOf,          \* the kind a content is stored as
  Short,           \* the first eight hex digits of a content's hash
  None,
  KeepReproducers, \* storage.retention.keepReproducers
  MaxCommands      \* bound on the commands started

ASSUME FlagAssumption == KeepReproducers \in BOOLEAN
ASSUME NoneAssumption == None \notin Run
ASSUME BoundAssumption == MaxCommands \in Nat

Kind == {"trace", "run-manifest"}

ASSUME KindAssumption == KindOf \in [Blob -> Kind]

VARIABLES
  file,    \* file[<<i, b>>]: what is at the content address of b in i's directory
  refs,    \* refs[id]: the artifact_refs row of an id, or NoRow
  proc,    \* proc[p]: program counter and local variables
  spoiled, \* contents a torn write or a removal under a put has damaged (history)
  started  \* how many commands were started

vars == <<file, refs, proc, spoiled, started>>

Id == { <<KindOf[b], r, Short[b]>> : b \in Blob, r \in Run \cup {None} }

\* The generated artifact id: prefix of the kind, run number if there is one,
\* and a prefix of the hash.  Nothing of the investigation is in it.
artifactId(b, r) == <<KindOf[b], r, Short[b]>>

NoRow == [state |-> "none"]
Row == [state : {"live", "tombstoned"}, inv : Investigation, blob : Blob, at : Nat]

PC == {"off", "write", "insert", "tombstone", "checkRefs", "remove"}

Idle == [pc |-> "off", inv |-> None, blob |-> None, run |-> None, todo |-> {}, id |-> None]

At(r, pc) == [r EXCEPT !.pc = pc]

Registered == { id \in Id : refs[id].state # "none" }
Live       == { id \in Id : refs[id].state = "live" }

\* Another live row of the investigation and kind with the same hash.
NoOtherRef(i, b) == TRUE  \* mutant: remove the file without looking

Unreferenced(i, b) == \A id \in Live : refs[id].inv # i \/ refs[id].blob # b

Init ==
  /\ file = [at \in Investigation \X Blob |-> "absent"]
  /\ refs = [id \in Id |-> NoRow]
  /\ proc = [p \in Process |-> Idle]
  /\ spoiled = {}
  /\ started = 0

-----------------------------------------------------------------------------

MayStart(p) ==
  /\ proc[p].pc = "off"
  /\ started < MaxCommands
  /\ started' = started + 1

\* put: hash the bytes, and write the file unless something is at its path.
AfterLookup(i, b) == IF file[<<i, b>>] = "absent" THEN "write" ELSE "insert"

Putting(pc, i, b, r) == [Idle EXCEPT !.pc = pc, !.inv = i, !.blob = b, !.run = r]

StartPut(p, i, r, b) ==
  /\ MayStart(p)
  /\ proc' = [proc EXCEPT ![p] = Putting(AfterLookup(i, b), i, b, r)]
  /\ UNCHANGED <<file, refs, spoiled>>

WriteFile(p) ==
  /\ proc[p].pc = "write"
  /\ file' = [file EXCEPT ![<<proc[p].inv, proc[p].blob>>] = "whole"]
  /\ spoiled' = spoiled \ {<<proc[p].inv, proc[p].blob>>}
  /\ proc' = [proc EXCEPT ![p] = At(@, "insert")]
  /\ UNCHANGED <<refs, started>>

\* The disk fills up, or the process is killed in mid-write: writeFileSync has
\* truncated or created the file, and nothing removes what it left.
WriteFails(p) ==
  /\ proc[p].pc = "write"
  /\ file' = [file EXCEPT ![<<proc[p].inv, proc[p].blob>>] = "partial"]
  /\ spoiled' = spoiled \cup {<<proc[p].inv, proc[p].blob>>}
  /\ proc' = [proc EXCEPT ![p] = Idle]
  /\ UNCHANGED <<refs, started>>

Replaced(id, row) == [refs EXCEPT ![id] = row]  \* mutant: INSERT OR REPLACE

Inserted(id, row) == IF id \in Registered THEN refs ELSE [refs EXCEPT ![id] = row]

\* The transaction of put.  An id that is taken keeps its row: with the same
\* hash that counts as stored, with another the put throws.
InsertRow(p) ==
  /\ proc[p].pc = "insert"
  /\ LET id == artifactId(proc[p].blob, proc[p].run) IN
     refs' = Inserted(id, [state |-> "live", inv |-> proc[p].inv, blob |-> proc[p].blob,
                           at |-> Cardinality(Registered)])
  /\ proc' = [proc EXCEPT ![p] = Idle]
  /\ UNCHANGED <<file, spoiled, started>>

\* The kinds retention leaves alone; the only ones.

Exempt(kind) == KeepReproducers /\ kind = "run-manifest"

Retaining(ids) == [Idle EXCEPT !.pc = "tombstone", !.todo = ids]

\* retention apply --confirm: what is old enough and not exempt, listed once.
StartRetention(p, cutoff) ==
  /\ MayStart(p)
  /\ LET eligible == { id \in Live : refs[id].at < cutoff /\ ~Exempt(KindOf[refs[id].blob]) } IN
     /\ eligible # {}
     /\ proc' = [proc EXCEPT ![p] = Retaining(eligible)]
  /\ UNCHANGED <<file, refs, spoiled>>

Expired(row) == [row EXCEPT !.state = "tombstoned"]

Selected(r, id) == [r EXCEPT !.pc = "checkRefs", !.id = id, !.todo = @ \ {id}]

\* tombstone: the UPDATE.  A row another command has tombstoned meanwhile
\* makes the trigger abort, which ends the command with the rest undone.
Tombstone(p) ==
  /\ proc[p].pc = "tombstone"
  /\ \E id \in proc[p].todo :
       IF refs[id].state = "live"
       THEN /\ refs' = [refs EXCEPT ![id] = Expired(@)]
            /\ proc' = [proc EXCEPT ![p] = Selected(@, id)]
       ELSE /\ proc' = [proc EXCEPT ![p] = Idle]
            /\ UNCHANGED refs
  /\ UNCHANGED <<file, spoiled, started>>

Onwards(r) == IF r.todo = {} THEN Idle ELSE [r EXCEPT !.pc = "tombstone", !.id = None]

NextArtifact(p) == proc' = [proc EXCEPT ![p] = Onwards(@)]

\* Then: is the file there, and does another live row need it?
CheckRefs(p) ==
  /\ proc[p].pc = "checkRefs"
  /\ LET row == refs[proc[p].id] IN
     IF file[<<row.inv, row.blob>>] # "absent" /\ Unreferenced(row.inv, row.blob)
     THEN proc' = [proc EXCEPT ![p] = At(@, "remove")]
     ELSE NextArtifact(p)
  /\ UNCHANGED <<file, refs, spoiled, started>>

\* A put of this content found or wrote the file and has not inserted its row,
\* or has inserted it since CheckRefs looked.
UnderPut(i, b) ==
  \/ ~Unreferenced(i, b)
  \/ \E q \in Process : proc[q].pc = "insert" /\ proc[q].inv = i /\ proc[q].blob = b

RemoveFile(p) ==
  /\ proc[p].pc = "remove"
  /\ LET row == refs[proc[p].id] IN
     /\ file' = [file EXCEPT ![<<row.inv, row.blob>>] = "absent"]
     /\ spoiled' = IF UnderPut(row.inv, row.blob)
                   THEN spoiled \cup {<<row.inv, row.blob>>}
                   ELSE spoiled \ {<<row.inv, row.blob>>}
  /\ NextArtifact(p)
  /\ UNCHANGED <<refs, started>>

Crash(p) ==
  /\ proc[p].pc # "off"
  /\ proc' = [proc EXCEPT ![p] = Idle]
  /\ UNCHANGED <<file, refs, spoiled, started>>

Step(p) ==
  \/ WriteFile(p) \/ WriteFails(p) \/ InsertRow(p)
  \/ Tombstone(p) \/ CheckRefs(p) \/ RemoveFile(p)

Next ==
  \E p \in Process :
    \/ \E i \in Investigation, r \in Run \cup {None}, b \in Blob : StartPut(p, i, r, b)
    \/ \E cutoff \in 1 .. Cardinality(Id) : StartRetention(p, cutoff)
    \/ Step(p)
    \/ Crash(p)

Spec == Init /\ [][Next]_vars

-----------------------------------------------------------------------------
(* What a reader of the store gets.                                        *)

get(id) ==
  CASE refs[id].state = "none"       -> "unknown"
    [] refs[id].state = "tombstoned" -> "expired"
    [] OTHER -> IF file[<<refs[id].inv, refs[id].blob>>] = "whole" THEN "bytes" ELSE "corrupted"

-----------------------------------------------------------------------------
(* Properties.                                                             *)

TypeOK ==
  /\ file \in [Investigation \X Blob -> {"absent", "partial", "whole"}]
  /\ refs \in [Id -> Row \cup {NoRow}]
  /\ \A p \in Process : proc[p].pc \in PC /\ proc[p].todo \subseteq Id
  /\ spoiled \subseteq Investigation \X Blob
  /\ started \in 0 .. MaxCommands

\* A reference is readable or honestly expired, never corrupted: bytes are on
\* disk before their row is, and go only when no live row needs them (ADR-0002,
\* ADR-0004).  Commands overlap and die anywhere; the two things that damage a
\* content are a torn write of it and its removal under a put.
LiveRefResolves ==
  \A id \in Id : get(id) = "corrupted" => <<refs[id].inv, refs[id].blob>> \in spoiled

\* A row, once written, refers to the same content of the same investigation
\* for good, and an expired one stays expired (artifacts_tombstone_only).
RefsOnlyExpire ==
  [][\A id \in Id :
       refs[id].state # "none" =>
         \/ refs'[id] = refs[id]
         \/ refs'[id] = Expired(refs[id]) ]_refs
=============================================================================
