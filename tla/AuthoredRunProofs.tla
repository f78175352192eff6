------------------------- MODULE AuthoredRunProofs -------------------------
(***************************************************************************)
(* For any experiments, any ceiling and any traffic of the page: what is   *)
(* sealed of a run is what its log says.                                   *)
(*                                                                         *)
(* CollectorOK is the invariant of the collector, for the action that is   *)
(* being executed: a start without an end is that action's, unless the log *)
(* is full, and an event belongs to the one action whose window it is in   *)
(* (WindowsOK); a request is in the log before what comes of it, unless    *)
(* the log is full (RequestsOK); the notes are one for a category and      *)
(* code, and only those the collector ever makes (NotesOK).  When the log  *)
(* is full nothing but notes is ever added, so that what the ceiling cuts  *)
(* off is cut off at the end.                                              *)
(*                                                                         *)
(* A recording is translated statement by statement: what the run and the  *)
(* suite act on is compared with the locator the statement reads as.  Of a *)
(* list filtered to some places, Places and Enumerated say that the n-th   *)
(* is at the n-th of them (ResultsOK, for the results of a run).           *)
(*                                                                         *)
(* BatchInv is the invariant of the redactor over a batch of runs: a field *)
(* in a log is what one redaction, with the one policy and the one order   *)
(* of the literals, left of it.  FoundBehind is why literals, tried the    *)
(* longest first, leave none of each other.                                *)
(***************************************************************************)
EXTENDS AuthoredRun, Redaction, FiniteSetTheorems, WellFoundedInduction, TLAPS

\* What a part of the log or of the collector may be.
What ==
  Code \cup {"start", "ok", "timeout", "failed", "event", "request", "response", "requestFailed",
             "captured", "withheld", "snapshot", "area"}

EventRec ==
  [cat : Category, what : What, of : Nat, during : Nat, note : BOOLEAN, artifact : BOOLEAN]

CollectorRec ==
  [events : Seq(EventRec), dropped : Nat, notes : Seq(EventRec), requests : UNION {[S -> Nat] : S \in SUBSET Nat},
   awaited : SUBSET Nat, seen : Nat, detached : BOOLEAN, flushed : BOOLEAN]

IsStart(e)    == e.cat = "actions" /\ e.what = "start"
IsEnd(e)      == e.cat = "actions" /\ e.what # "start"
IsRequest(e)  == e.cat = "networkMetadata" /\ e.what = "request"
IsOutcome(e)  == e.cat = "networkMetadata" /\ e.what # "request"

Full(log) == Len(log) >= MaxEvents

\* The event at i lies in the window that starts at s.
InWindow(log, s, i) ==
  /\ IsStart(log[s]) /\ s <= i
  /\ \A e \in DOMAIN log : IsEnd(log[e]) /\ log[e].of = log[s].of => i <= e

\* x is the action being executed, or 0; the actions below n have been.
Numbered(log, x, n) ==
  /\ \A i \in DOMAIN log : IsStart(log[i]) => log[i].of # 0 /\ (log[i].of < n \/ log[i].of = x)
  /\ \A i \in DOMAIN log : IsEnd(log[i]) => log[i].of < n

Started(log, a) == \E s \in DOMAIN log : IsStart(log[s]) /\ log[s].of = a
Ended(log, a)   == \E e \in DOMAIN log : IsEnd(log[e]) /\ log[e].of = a

Closed(log, x) == \A s \in DOMAIN log : IsStart(log[s]) => log[s].of = x \/ Ended(log, log[s].of)

Placed(log, i) ==
  /\ log[i].during # 0 => \E s \in DOMAIN log : InWindow(log, s, i) /\ log[s].of = log[i].during
  /\ \A s \in DOMAIN log : InWindow(log, s, i) => log[i].during = log[s].of

WindowsOK(log, x, n) ==
  /\ Numbered(log, x, n)
  /\ ~Full(log) => Closed(log, x)
  /\ ~Full(log) /\ x # 0 => Started(log, x)
  /\ \A i \in DOMAIN log : ~IsOutcome(log[i]) => Placed(log, i)

\* The requests that are not over, and the ids given so far.
Known(log, uid, during) ==
  \E r \in DOMAIN log : IsRequest(log[r]) /\ log[r].of = uid /\ log[r].during = during

Answers(log, i) ==
  \E r \in DOMAIN log : IsRequest(log[r]) /\ r <= i /\ log[r].of = log[i].of /\ log[r].during = log[i].during

RequestsOK(log, requests, seen) ==
  /\ \A i \in DOMAIN log : log[i].cat = "networkMetadata" => log[i].of <= seen
  /\ \A i, j \in DOMAIN log : IsRequest(log[i]) /\ IsRequest(log[j]) /\ log[i].of = log[j].of => i = j
  /\ \A i \in DOMAIN log : IsOutcome(log[i]) => Answers(log, i)
  /\ \A uid \in DOMAIN requests : uid <= seen /\ (~Full(log) => Known(log, uid, requests[uid]))

Losses == {"TARGET_DETACHED", "SIZE_LIMIT", "DROPPED_BACKPRESSURE"}

\* The notes the collector and the worker make.
NoteMade(cat, code) ==
  /\ cat \in Category /\ code \in Code
  /\ code = "COLLECTOR_UNSUPPORTED" => cat = "webSocketFrames"
  /\ code = "PERSISTED_UNREDACTED" => cat = "video"
  /\ code = "CONFIG_OFF" => cat = "video" \/ (cat = "responseBodies" /\ ~CaptureBodies)
  /\ code \in Losses => \/ cat \in {"domSnapshots", "storage", "console"}
                        \/ (cat = "responseBodies" /\ CaptureBodies)

NotesOK(notes) ==
  /\ \A k \in DOMAIN notes : notes[k].note = TRUE /\ notes[k].of # 0 /\ NoteMade(notes[k].cat, notes[k].what)
  /\ \A j, k \in DOMAIN notes : notes[j].cat = notes[k].cat /\ notes[j].what = notes[k].what => j = k

LogOK(log, requests, seen, x, n) ==
  /\ \A i \in DOMAIN log : log[i].note = FALSE
  /\ WindowsOK(log, x, n)
  /\ RequestsOK(log, requests, seen)

CollectorOK(c, x, n) ==
  /\ c \in CollectorRec /\ c.flushed = FALSE
  /\ LogOK(c.events, c.requests, c.seen, x, n)
  /\ NotesOK(c.notes)
  /\ \A k \in DOMAIN c.notes : c.notes[k].what # "DROPPED_BACKPRESSURE"
  /\ c.awaited \subseteq 0 .. c.seen
  /\ c.awaited # {} => CaptureBodies

-----------------------------------------------------------------------------
(* The invariant of a run.                                                 *)

IntFields == {"pc", "next", "manifest", "navigated", "infra", "automation", "results", "failedAt"}

\* How many actions have been reached.
Reached == IF int.failedAt = 0 THEN int.next ELSE int.next + 1

InterpreterOK ==
  /\ DOMAIN int = IntFields
  /\ int.pc \in {"idle", "launch", "start", "execute", "close", "seal", "sealed"}
  /\ int.next \in Nat \ {0} /\ int.failedAt \in Nat
  /\ int.manifest \in BOOLEAN
  /\ int.pc \in {"idle", "launch"} => ~int.navigated
  /\ int.pc \in {"idle", "launch", "start", "execute"} => int.infra = FALSE /\ int.failedAt = 0
  /\ int.pc \in {"start", "execute"} => int.manifest = TRUE
  /\ int.manifest = FALSE => ~int.navigated
  /\ int.infra # FALSE => ~int.navigated
  /\ int.failedAt # 0 => int.infra = TRUE \/ int.automation = TRUE

SealedOK ==
  /\ col \in CollectorRec /\ col.awaited = {}
  /\ raw = col.events
  /\ sealed = IF int.manifest
              THEN runPlane(raw, col.notes, int.infra, int.automation, int.results, flow.required)
              ELSE finishWithoutBrowser
  /\ \E log \in Seq(EventRec) :
       raw = log \o col.notes /\ LogOK(log, col.requests, col.seen, 0, Reached)
  /\ NotesOK(col.notes)
  /\ col.dropped > 0 => \E k \in DOMAIN col.notes :
       col.notes[k].cat = "console" /\ col.notes[k].what = "DROPPED_BACKPRESSURE" /\ col.notes[k].of = col.dropped
  /\ col.detached => \E k \in DOMAIN col.notes :
       col.notes[k].cat = "domSnapshots" /\ col.notes[k].what = "TARGET_DETACHED"

IInv ==
  /\ InterpreterOK
  /\ ~At("sealed") => CollectorOK(col, Executing, Reached) /\ sealed = Unsealed
  /\ At("seal") => col.awaited = {}
  /\ At("sealed") => SealedOK

-----------------------------------------------------------------------------
(* Sequences.                                                              *)

LEMMA CeilingIsNumber == MaxEvents \in Nat /\ Traffic \in Nat
BY RunAssumption

\* What is where in a log that another was appended to.
LEMMA ConcatParts ==
  ASSUME NEW S, NEW log \in Seq(S), NEW more \in Seq(S)
  PROVE  /\ log \o more \in Seq(S)
         /\ Len(log \o more) = Len(log) + Len(more)
         /\ \A i \in DOMAIN log : i \in DOMAIN (log \o more) /\ (log \o more)[i] = log[i]
         /\ \A k \in DOMAIN more : /\ Len(log) + k \in DOMAIN (log \o more)
                                   /\ (log \o more)[Len(log) + k] = more[k]
         /\ \A i \in DOMAIN (log \o more) :
              i \in DOMAIN log \/ \E k \in DOMAIN more : i = Len(log) + k
<1> DEFINE new == log \o more
<1>1. /\ new \in Seq(S) /\ Len(new) = Len(log) + Len(more)
      /\ DOMAIN new = 1 .. Len(new) /\ DOMAIN log = 1 .. Len(log) /\ DOMAIN more = 1 .. Len(more)
      /\ Len(log) \in Nat /\ Len(more) \in Nat
  OBVIOUS
<1>2. \A i \in DOMAIN log : new[i] = log[i]
  OBVIOUS
<1>3. \A k \in DOMAIN more : new[Len(log) + k] = more[k]
  OBVIOUS
<1> HIDE DEF new
<1>4. \A i \in DOMAIN new : i \in DOMAIN log \/ \E k \in DOMAIN more : i = Len(log) + k
  <2> SUFFICES ASSUME NEW i \in DOMAIN new, i \notin DOMAIN log
               PROVE  \E k \in DOMAIN more : i = Len(log) + k
    OBVIOUS
  <2>1. i - Len(log) \in DOMAIN more /\ i = Len(log) + (i - Len(log))
    BY <1>1
  <2> QED BY <2>1
<1>5. \A k \in DOMAIN more : Len(log) + k \in DOMAIN new
  BY <1>1
<1>6. \A i \in DOMAIN log : i \in DOMAIN new
  BY <1>1
<1> QED BY <1>1, <1>2, <1>3, <1>4, <1>5, <1>6 DEF new

LEMMA EntryType ==
  ASSUME NEW log \in Seq(EventRec), NEW i \in DOMAIN log
  PROVE  /\ log[i] \in EventRec
         /\ log[i].cat \in Category /\ log[i].what \in What
         /\ log[i].of \in Nat /\ log[i].during \in Nat /\ log[i].note \in BOOLEAN
<1>1. log[i] \in EventRec
  OBVIOUS
<1> QED BY <1>1 DEF EventRec

LEMMA AppendIsConcat ==
  ASSUME NEW S, NEW log \in Seq(S), NEW e \in S
  PROVE  /\ Append(log, e) = log \o <<e>>
         /\ <<e>> \in Seq(S) /\ DOMAIN <<e>> = {1} /\ <<e>>[1] = e /\ <<e>> # <<>>
OBVIOUS

-----------------------------------------------------------------------------
(* Windows.                                                                *)

\* What is appended does not move the windows of what is there.
LEMMA WindowKept ==
  ASSUME NEW log \in Seq(EventRec), NEW more \in Seq(EventRec), NEW s \in DOMAIN log, NEW i \in DOMAIN log
  PROVE  InWindow(log \o more, s, i) <=> InWindow(log, s, i)
<1> DEFINE new == log \o more
<1>1. /\ \A j \in DOMAIN log : j \in DOMAIN new /\ new[j] = log[j]
      /\ \A j \in DOMAIN new : j \in DOMAIN log \/ \E k \in DOMAIN more : j = Len(log) + k
  BY ConcatParts
<1>2. \A j \in DOMAIN new : j \in DOMAIN log \/ i <= j
  <2> HIDE DEF new
  <2>1. DOMAIN more \subseteq Nat /\ i \in 1 .. Len(log) /\ Len(log) \in Nat
    OBVIOUS
  <2> QED BY <1>1, <2>1
<1> HIDE DEF new
<1>3. InWindow(new, s, i) => InWindow(log, s, i)
  BY <1>1 DEF InWindow
<1>4. InWindow(log, s, i) => InWindow(new, s, i)
  BY <1>1, <1>2 DEF InWindow
<1> QED BY <1>3, <1>4 DEF new

\* Events that neither start nor end an action, while x is being executed.
LEMMA WindowsExtend ==
  ASSUME NEW log \in Seq(EventRec), NEW more \in Seq(EventRec), NEW n \in Nat, NEW x \in {0, n},
         WindowsOK(log, x, n), more # <<>> => ~Full(log),
         \A k \in DOMAIN more : more[k].cat # "actions" /\ (IsOutcome(more[k]) \/ more[k].during = x)
  PROVE  WindowsOK(log \o more, x, n)
<1> DEFINE new == log \o more
<1>1. /\ new \in Seq(EventRec)
      /\ Len(new) = Len(log) + Len(more)
      /\ \A j \in DOMAIN log : j \in DOMAIN new /\ new[j] = log[j]
      /\ \A j \in DOMAIN new : j \in DOMAIN log \/ \E k \in DOMAIN more : j = Len(log) + k /\ new[j] = more[k]
  BY ConcatParts
<1>2. \A s, i \in DOMAIN log : InWindow(new, s, i) <=> InWindow(log, s, i)
  BY WindowKept
<1>3. Len(log) \in Nat /\ Len(more) \in Nat /\ (Full(log) => Full(new))
  BY <1>1, CeilingIsNumber DEF Full
<1>4. DOMAIN log = 1 .. Len(log) /\ DOMAIN more \subseteq Nat \ {0} /\ DOMAIN new \subseteq Nat
  BY <1>1
<1>5. \A j \in DOMAIN new : IsStart(new[j]) \/ IsEnd(new[j]) => j \in DOMAIN log
  <2> HIDE DEF new
  <2> QED BY <1>1 DEF IsStart, IsEnd
<1> HIDE DEF new
<1>6. Numbered(new, x, n)
  BY <1>1, <1>5 DEF WindowsOK, Numbered
<1>7. ~Full(log) => Closed(new, x)
  <2> SUFFICES ASSUME ~Full(log), NEW s \in DOMAIN new, IsStart(new[s])
               PROVE  new[s].of = x \/ Ended(new, new[s].of)
    BY DEF Closed
  <2>1. s \in DOMAIN log /\ new[s] = log[s]
    BY <1>1, <1>5
  <2>2. log[s].of = x \/ Ended(log, log[s].of)
    BY <2>1 DEF WindowsOK, Closed
  <2> QED BY <1>1, <2>1, <2>2 DEF Ended
<1>8. ~Full(log) /\ x # 0 => Started(new, x)
  <2> SUFFICES ASSUME ~Full(log), x # 0 PROVE Started(new, x)
    OBVIOUS
  <2>1. PICK s \in DOMAIN log : IsStart(log[s]) /\ log[s].of = x
    BY DEF WindowsOK, Started
  <2> QED BY <1>1, <2>1 DEF Started
<1>10. ASSUME NEW i \in DOMAIN new, ~IsOutcome(new[i])
       PROVE  Placed(new, i)
  <2>1. CASE i \in DOMAIN log
    <3>1. \A s \in DOMAIN new : InWindow(new, s, i) => s \in DOMAIN log
      BY <1>5 DEF InWindow
    <3>2. new[i] = log[i]
      BY <1>1, <2>1
    <3>3. Placed(log, i)
      BY <1>10, <2>1, <3>2 DEF WindowsOK
    <3> QED BY <1>1, <1>2, <2>1, <3>1, <3>2, <3>3 DEF Placed
  <2>2. CASE i \notin DOMAIN log
    <3>1. /\ new[i].during = x /\ ~Full(log) /\ i > Len(log)
      <4>1. PICK k \in DOMAIN more : i = Len(log) + k /\ new[i] = more[k]
        BY <1>1, <2>2
      <4>2. more # <<>>
        BY <4>1
      <4> QED BY <1>3, <1>4, <1>10, <4>1, <4>2
    <3>2. \A e \in DOMAIN new : IsEnd(new[e]) => e < i
      BY <1>4, <1>5, <3>1
    <3>3. x # 0 => \E s \in DOMAIN new : InWindow(new, s, i) /\ new[s].of = x
      <4> SUFFICES ASSUME x # 0 PROVE \E s \in DOMAIN new : InWindow(new, s, i) /\ new[s].of = x
        OBVIOUS
      <4>1. PICK s \in DOMAIN new : IsStart(new[s]) /\ new[s].of = x
        BY <1>8, <3>1 DEF Started
      <4>2. s \in DOMAIN log
        BY <1>5, <4>1
      <4>3. \A e \in DOMAIN new : IsEnd(new[e]) => new[e].of # x
        BY <1>6 DEF Numbered
      <4> QED BY <1>4, <3>1, <4>1, <4>2, <4>3 DEF InWindow
    <3>4. \A s \in DOMAIN new : InWindow(new, s, i) => new[s].of = x
      <4> SUFFICES ASSUME NEW s \in DOMAIN new, InWindow(new, s, i), new[s].of # x PROVE FALSE
        OBVIOUS
      <4>1. IsStart(new[s])
        BY DEF InWindow
      <4>2. PICK e \in DOMAIN new : IsEnd(new[e]) /\ new[e].of = new[s].of
        BY <1>7, <3>1, <4>1 DEF Closed, Ended
      <4>3. i <= e /\ e < i
        BY <3>2, <4>2 DEF InWindow
      <4> QED BY <1>4, <4>2, <4>3
    <3> QED BY <3>1, <3>3, <3>4 DEF Placed
  <2> QED BY <2>1, <2>2
<1> QED
  BY <1>3, <1>6, <1>7, <1>8, <1>10 DEF WindowsOK, new

\* Under a full log nothing about windows depends on what is executed.
LEMMA WindowsFull ==
  ASSUME NEW log, NEW n \in Nat, NEW x, NEW y, NEW m \in Nat, WindowsOK(log, x, n), Full(log),
         x \in {0, n}, m \in {n, n + 1}, x = n /\ y = 0 => m = n + 1, log \in Seq(EventRec),
         y \in {0, n}
  PROVE  WindowsOK(log, y, m)
<1>1. \A i \in DOMAIN log : log[i].of \in Nat
  BY EntryType
<1>2. Numbered(log, x, n) /\ \A i \in DOMAIN log : ~IsOutcome(log[i]) => Placed(log, i)
  BY DEF WindowsOK
<1>3. Numbered(log, y, m)
  BY <1>1, <1>2 DEF Numbered
<1> QED BY <1>2, <1>3 DEF WindowsOK

\* The start of an action while none is being executed.
LEMMA WindowsStart ==
  ASSUME NEW log \in Seq(EventRec), NEW n \in Nat \ {0}, NEW e \in EventRec,
         WindowsOK(log, 0, n), ~Full(log), IsStart(e), e.of = n, e.during = n
  PROVE  WindowsOK(Append(log, e), n, n)
<1> DEFINE new  == Append(log, e)
           last == Len(log) + 1
<1>1. /\ new \in Seq(EventRec) /\ last \in DOMAIN new /\ new[last] = e
      /\ \A j \in DOMAIN log : j \in DOMAIN new /\ new[j] = log[j] /\ j < last
      /\ \A j \in DOMAIN new : j \in DOMAIN log \/ j = last
      /\ DOMAIN new \subseteq Nat /\ last \in Nat
  OBVIOUS
<1>2. \A s, i \in DOMAIN log : InWindow(new, s, i) <=> InWindow(log, s, i)
  <2> HIDE DEF new
  <2>1. new = log \o <<e>> /\ <<e>> \in Seq(EventRec)
    BY AppendIsConcat DEF new
  <2> QED BY <2>1, WindowKept
<1>3. \A j \in DOMAIN log : log[j].of \in Nat
  BY EntryType
<1>4. ~IsEnd(e) /\ ~IsOutcome(e)
  BY DEF IsEnd, IsStart, IsOutcome
<1> HIDE DEF new, last
<1>5. Numbered(new, n, n)
  BY <1>1, <1>3, <1>4 DEF WindowsOK, Numbered
<1>6. \A s \in DOMAIN log : IsStart(log[s]) => Ended(new, log[s].of)
  <2> SUFFICES ASSUME NEW s \in DOMAIN log, IsStart(log[s]) PROVE Ended(new, log[s].of)
    OBVIOUS
  <2>1. Ended(log, log[s].of)
    BY DEF WindowsOK, Closed, Numbered
  <2> QED BY <1>1, <2>1 DEF Ended
<1>7. Closed(new, n)
  BY <1>1, <1>6 DEF Closed
<1>8. Started(new, n)
  BY <1>1 DEF Started
<1>9. \A k \in DOMAIN new : IsEnd(new[k]) => k \in DOMAIN log /\ new[k].of # n
  BY <1>1, <1>4, <1>5 DEF Numbered
<1>10. \A i \in DOMAIN log : ~IsOutcome(log[i]) => Placed(new, i)
  <2> SUFFICES ASSUME NEW i \in DOMAIN log, ~IsOutcome(log[i]) PROVE Placed(new, i)
    OBVIOUS
  <2>1. Placed(log, i)
    BY DEF WindowsOK
  <2>2. \A s \in DOMAIN new : InWindow(new, s, i) => s \in DOMAIN log
    BY <1>1 DEF InWindow
  <2> QED BY <1>1, <1>2, <2>1, <2>2 DEF Placed
<1>11. Placed(new, last)
  <2>1. InWindow(new, last, last)
    BY <1>1, <1>9 DEF InWindow
  <2>2. ASSUME NEW s \in DOMAIN new, InWindow(new, s, last) PROVE new[s].of = n
    <3>1. CASE s \in DOMAIN log
      <4>1. PICK k \in DOMAIN new : IsEnd(new[k]) /\ new[k].of = new[s].of
        BY <1>1, <1>6, <2>2, <3>1 DEF Ended, InWindow
      <4>2. last <= k /\ k < last
        BY <1>1, <1>9, <2>2, <4>1 DEF InWindow
      <4> QED BY <1>1, <4>1, <4>2
    <3> QED BY <1>1, <3>1
  <2> QED BY <1>1, <2>1, <2>2 DEF Placed
<1> QED BY <1>1, <1>5, <1>7, <1>8, <1>10, <1>11 DEF WindowsOK, new

\* The end of the action that is being executed.
LEMMA WindowsEnd ==
  ASSUME NEW log \in Seq(EventRec), NEW n \in Nat \ {0}, NEW e \in EventRec,
         WindowsOK(log, n, n), ~Full(log), IsEnd(e), e.of = n, e.during = n
  PROVE  WindowsOK(Append(log, e), 0, n + 1)
<1> DEFINE new  == Append(log, e)
           last == Len(log) + 1
<1>1. /\ new \in Seq(EventRec) /\ last \in DOMAIN new /\ new[last] = e
      /\ \A j \in DOMAIN log : j \in DOMAIN new /\ new[j] = log[j] /\ j < last
      /\ \A j \in DOMAIN new : j \in DOMAIN log \/ j = last
      /\ DOMAIN new \subseteq Nat /\ last \in Nat
  OBVIOUS
<1>2. \A s, i \in DOMAIN log : InWindow(new, s, i) <=> InWindow(log, s, i)
  <2> HIDE DEF new
  <2>1. new = log \o <<e>> /\ <<e>> \in Seq(EventRec)
    BY AppendIsConcat DEF new
  <2> QED BY <2>1, WindowKept
<1>3. \A j \in DOMAIN log : log[j].of \in Nat
  BY EntryType
<1>4. ~IsStart(e) /\ ~IsOutcome(e)
  BY DEF IsEnd, IsStart, IsOutcome
<1> HIDE DEF new, last
<1>5. Numbered(new, 0, n + 1)
  <2>1. \A i \in DOMAIN log : /\ IsStart(log[i]) => log[i].of # 0 /\ log[i].of < n + 1
                              /\ IsEnd(log[i]) => log[i].of < n + 1
    BY <1>3 DEF WindowsOK, Numbered
  <2>2. \A i \in DOMAIN new : IsStart(new[i]) => new[i].of # 0 /\ new[i].of < n + 1
    BY <1>1, <1>4, <2>1
  <2>3. \A i \in DOMAIN new : IsEnd(new[i]) => new[i].of < n + 1
    <3>1. n < n + 1
      OBVIOUS
    <3> QED BY <1>1, <2>1, <3>1
  <2> QED BY <2>2, <2>3 DEF Numbered
<1>6. ASSUME NEW s \in DOMAIN new, IsStart(new[s])
      PROVE  /\ s \in DOMAIN log /\ IsStart(log[s]) /\ new[s] = log[s]
             /\ log[s].of = n \/ Ended(log, log[s].of)
  <2>1. s \in DOMAIN log /\ IsStart(log[s]) /\ new[s] = log[s]
    BY <1>1, <1>4, <1>6
  <2> QED BY <2>1 DEF WindowsOK, Closed
<1>7. Closed(new, 0)
  <2> SUFFICES ASSUME NEW s \in DOMAIN new, IsStart(new[s]) PROVE Ended(new, new[s].of)
    BY DEF Closed
  <2>1. CASE log[s].of = n
    BY <1>1, <1>6, <2>1 DEF Ended
  <2>2. CASE Ended(log, log[s].of)
    BY <1>1, <1>6, <2>2 DEF Ended
  <2> QED BY <1>6, <2>1, <2>2
<1>8. \A i \in DOMAIN log : ~IsOutcome(log[i]) => Placed(new, i)
  <2> SUFFICES ASSUME NEW i \in DOMAIN log, ~IsOutcome(log[i]) PROVE Placed(new, i)
    OBVIOUS
  <2>1. Placed(log, i)
    BY DEF WindowsOK
  <2>2. \A s \in DOMAIN new : InWindow(new, s, i) => s \in DOMAIN log
    BY <1>6 DEF InWindow
  <2> QED BY <1>1, <1>2, <2>1, <2>2 DEF Placed
<1>9. Placed(new, last)
  <2>1. PICK s \in DOMAIN log : IsStart(log[s]) /\ log[s].of = n
    BY DEF WindowsOK, Started
  <2>2. \A k \in DOMAIN new : IsEnd(new[k]) /\ new[k].of = n => k = last
    <3>1. \A k \in DOMAIN log : IsEnd(log[k]) => log[k].of # n
      BY DEF WindowsOK, Numbered
    <3> QED BY <1>1, <3>1
  <2>3. InWindow(new, s, last)
    BY <1>1, <2>1, <2>2 DEF InWindow
  <2>4. ASSUME NEW r \in DOMAIN new, InWindow(new, r, last) PROVE new[r].of = n
    <3>1. r \in DOMAIN log /\ new[r] = log[r] /\ (log[r].of = n \/ Ended(log, log[r].of))
      BY <1>6, <2>4 DEF InWindow
    <3>2. CASE Ended(log, log[r].of)
      <4>1. PICK k \in DOMAIN log : IsEnd(log[k]) /\ log[k].of = log[r].of
        BY <3>2 DEF Ended
      <4>2. last <= k /\ k < last
        BY <1>1, <2>4, <3>1, <4>1 DEF InWindow
      <4> QED BY <1>1, <4>1, <4>2
    <3> QED BY <3>1, <3>2
  <2> QED BY <1>1, <2>1, <2>3, <2>4 DEF Placed
<1> QED BY <1>1, <1>5, <1>7, <1>8, <1>9 DEF WindowsOK, new

-----------------------------------------------------------------------------
(* Requests.                                                               *)

LEMMA RequestsExtend ==
  ASSUME NEW log \in Seq(EventRec), NEW more \in Seq(EventRec), NEW requests, NEW seen \in Nat,
         RequestsOK(log, requests, seen), \A k \in DOMAIN more : more[k].cat # "networkMetadata"
  PROVE  RequestsOK(log \o more, requests, seen)
<1> DEFINE new == log \o more
<1>1. /\ new \in Seq(EventRec)
      /\ Len(new) = Len(log) + Len(more)
      /\ \A j \in DOMAIN log : j \in DOMAIN new /\ new[j] = log[j]
      /\ \A j \in DOMAIN new : j \in DOMAIN log \/ \E k \in DOMAIN more : j = Len(log) + k /\ new[j] = more[k]
  BY ConcatParts
<1>2. Full(log) => Full(new)
  BY <1>1, CeilingIsNumber DEF Full
<1> HIDE DEF new
<1>3. \A j \in DOMAIN new : new[j].cat = "networkMetadata" => j \in DOMAIN log /\ new[j] = log[j]
  BY <1>1
<1>4. \A j \in DOMAIN new : IsRequest(new[j]) \/ IsOutcome(new[j]) => j \in DOMAIN log /\ new[j] = log[j]
  BY <1>3 DEF IsRequest, IsOutcome
<1>5. \A i \in DOMAIN new : IsOutcome(new[i]) => Answers(new, i)
  BY <1>1, <1>4 DEF RequestsOK, Answers
<1>6. \A uid \in DOMAIN requests : uid <= seen /\ (~Full(new) => Known(new, uid, requests[uid]))
  BY <1>1, <1>2 DEF RequestsOK, Known
<1> QED BY <1>3, <1>4, <1>5, <1>6 DEF RequestsOK, new

LEMMA RequestsFewer ==
  ASSUME NEW log \in Seq(EventRec), NEW requests, NEW fewer, NEW seen \in Nat, NEW more \in Nat,
         RequestsOK(log, requests, seen), seen <= more, DOMAIN fewer \subseteq DOMAIN requests,
         DOMAIN requests \subseteq Nat, \A uid \in DOMAIN fewer : fewer[uid] = requests[uid]
  PROVE  RequestsOK(log, fewer, more)
<1>1. \A i \in DOMAIN log : log[i].of \in Nat
  BY EntryType
<1> QED BY <1>1 DEF RequestsOK

\* A request is given an id that no other has.
LEMMA RequestBegins ==
  ASSUME NEW log \in Seq(EventRec), NEW requests \in UNION {[S -> Nat] : S \in SUBSET Nat}, NEW seen \in Nat,
         NEW e \in EventRec, NEW x \in Nat, RequestsOK(log, requests, seen),
         IsRequest(e), e.of = seen + 1, e.during = x,
         NEW more, DOMAIN more = DOMAIN requests \cup {seen + 1}, more[seen + 1] = x,
         \A u \in DOMAIN requests : u # seen + 1 => more[u] = requests[u]
  PROVE  RequestsOK(IF Full(log) THEN log ELSE Append(log, e), more, seen + 1)
<1> DEFINE uid  == seen + 1
           new  == Append(log, e)
<1>1. /\ DOMAIN more = DOMAIN requests \cup {uid}
      /\ more[uid] = x
      /\ \A u \in DOMAIN requests : more[u] = requests[u]
  <2>1. \A u \in DOMAIN requests : u \in Nat /\ u <= seen
    BY DEF RequestsOK
  <2> QED BY <2>1
<1>2. DOMAIN requests \subseteq Nat
  OBVIOUS
<1>4. \A i \in DOMAIN log : log[i].of \in Nat
  BY EntryType
<1>5. CASE Full(log)
  <2>1. \A u \in DOMAIN requests : u \in Nat /\ u <= seen
    BY <1>2 DEF RequestsOK
  <2>2. \A i \in DOMAIN log : log[i].cat = "networkMetadata" => log[i].of <= uid
    BY <1>4 DEF RequestsOK
  <2>3. \A u \in DOMAIN more : u <= uid
    BY <1>1, <2>1
  <2>4. RequestsOK(log, more, uid)
    BY <1>5, <2>2, <2>3 DEF RequestsOK
  <2> QED BY <1>5, <2>4
<1>6. CASE ~Full(log)
  <2> DEFINE last == Len(log) + 1
  <2>1. /\ last \in DOMAIN new /\ new[last] = e
        /\ \A j \in DOMAIN log : j \in DOMAIN new /\ new[j] = log[j]
        /\ \A j \in DOMAIN new : j \in DOMAIN log \/ j = last
    OBVIOUS
  <2> HIDE DEF new, last
  <2>2. \A i \in DOMAIN new : new[i].cat = "networkMetadata" => new[i].of <= uid
    BY <1>4, <2>1 DEF RequestsOK
  <2>3. \A i, j \in DOMAIN new : IsRequest(new[i]) /\ IsRequest(new[j]) /\ new[i].of = new[j].of => i = j
    <3>1. \A i \in DOMAIN log : IsRequest(log[i]) => log[i].of # uid
      BY <1>4 DEF RequestsOK, IsRequest
    <3> QED BY <2>1, <3>1 DEF RequestsOK
  <2>4. \A i \in DOMAIN new : IsOutcome(new[i]) => Answers(new, i)
    <3>1. ~IsOutcome(e)
      BY DEF IsOutcome, IsRequest
    <3> QED BY <2>1, <3>1 DEF RequestsOK, Answers
  <2>5. \A u \in DOMAIN more : u <= uid /\ (~Full(new) => Known(new, u, more[u]))
    <3>1. Known(new, uid, more[uid])
      BY <1>1, <2>1 DEF Known
    <3>2. ASSUME NEW u \in DOMAIN requests PROVE u <= uid /\ Known(new, u, more[u])
      <4>1. u \in Nat /\ u <= seen /\ Known(log, u, requests[u])
        BY <1>2, <1>6 DEF RequestsOK
      <4> QED BY <1>1, <2>1, <4>1 DEF Known
    <3> QED BY <1>1, <3>1, <3>2
  <2>6. RequestsOK(new, more, uid)
    BY <2>2, <2>3, <2>4, <2>5 DEF RequestsOK
  <2> QED BY <1>6, <2>6 DEF new
<1> QED BY <1>5, <1>6

\* What comes of a request belongs where the request does.
LEMMA RequestEnds ==
  ASSUME NEW log \in Seq(EventRec), NEW requests, NEW seen \in Nat, NEW e \in EventRec, NEW uid \in DOMAIN requests,
         RequestsOK(log, requests, seen), ~Full(log),
         IsOutcome(e), e.of = uid, e.during = requests[uid]
  PROVE  RequestsOK(Append(log, e), requests, seen)
<1> DEFINE new  == Append(log, e)
           last == Len(log) + 1
<1>1. /\ last \in DOMAIN new /\ new[last] = e
      /\ \A j \in DOMAIN log : j \in DOMAIN new /\ new[j] = log[j] /\ j <= last
      /\ \A j \in DOMAIN new : j \in DOMAIN log \/ j = last
  OBVIOUS
<1>2. ~IsRequest(e)
  BY DEF IsOutcome, IsRequest
<1> HIDE DEF new, last
<1>3. \A i \in DOMAIN new : new[i].cat = "networkMetadata" => new[i].of <= seen
  BY <1>1 DEF RequestsOK
<1>4. \A i, j \in DOMAIN new : IsRequest(new[i]) /\ IsRequest(new[j]) /\ new[i].of = new[j].of => i = j
  BY <1>1, <1>2 DEF RequestsOK
<1>5. \A i \in DOMAIN log : IsOutcome(log[i]) => Answers(new, i)
  BY <1>1 DEF RequestsOK, Answers
<1>6. Answers(new, last)
  <2>1. PICK r \in DOMAIN log : IsRequest(log[r]) /\ log[r].of = uid /\ log[r].during = requests[uid]
    BY DEF RequestsOK, Known
  <2> QED BY <1>1, <2>1 DEF Answers
<1>7. \A u \in DOMAIN requests : u <= seen /\ Known(new, u, requests[u])
  BY <1>1 DEF RequestsOK, Known
<1>8. \A i \in DOMAIN new : IsOutcome(new[i]) => Answers(new, i)
  BY <1>1, <1>5, <1>6
<1> QED BY <1>3, <1>4, <1>7, <1>8 DEF RequestsOK, new

-----------------------------------------------------------------------------
(* Events and notes.                                                       *)

LEMMA EventIs ==
  ASSUME NEW cat \in Category, NEW what \in What, NEW of \in Nat, NEW during \in Nat
  PROVE  /\ Event(cat, what, of, during) \in EventRec
         /\ Event(cat, what, of, during).cat = cat /\ Event(cat, what, of, during).what = what
         /\ Event(cat, what, of, during).of = of /\ Event(cat, what, of, during).during = during
         /\ Event(cat, what, of, during).note = FALSE
BY DEF Event, EventRec

LEMMA NoteEventIs ==
  ASSUME NEW cat \in Category, NEW code \in Code, NEW count \in Nat
  PROVE  /\ NoteEvent(cat, code, count) \in EventRec
         /\ NoteEvent(cat, code, count).cat = cat /\ NoteEvent(cat, code, count).what = code
         /\ NoteEvent(cat, code, count).of = count /\ NoteEvent(cat, code, count).note = TRUE
BY DEF NoteEvent, Event, EventRec, What

LEMMA CollectorFields ==
  ASSUME NEW c \in CollectorRec
  PROVE  /\ c.events \in Seq(EventRec) /\ c.dropped \in Nat /\ c.notes \in Seq(EventRec)
         /\ c.requests \in UNION {[S -> Nat] : S \in SUBSET Nat}
         /\ c.awaited \in SUBSET Nat /\ c.seen \in Nat /\ c.detached \in BOOLEAN /\ c.flushed \in BOOLEAN
BY DEF CollectorRec

\* All but the log.
SameButLog(c, d) ==
  /\ d.notes = c.notes /\ d.requests = c.requests /\ d.awaited = c.awaited
  /\ d.seen = c.seen /\ d.detached = c.detached /\ d.flushed = c.flushed

LEMMA PushIs ==
  ASSUME NEW c \in CollectorRec, NEW e \in EventRec
  PROVE  /\ push(c, e) \in CollectorRec /\ SameButLog(c, push(c, e))
         /\ Full(c.events) => push(c, e).events = c.events /\ push(c, e).dropped = c.dropped + 1
         /\ ~Full(c.events) => push(c, e).events = Append(c.events, e)
<1>1. c.dropped + 1 \in Nat /\ Append(c.events, e) \in Seq(EventRec)
  BY CollectorFields
<1>2. CASE Full(c.events)
  <2>1. push(c, e) = [c EXCEPT !.dropped = c.dropped + 1]
    BY <1>2 DEF push, Full
  <2> QED BY <1>1, <1>2, <2>1 DEF CollectorRec, SameButLog
<1>3. CASE ~Full(c.events)
  <2>1. push(c, e) = [c EXCEPT !.events = Append(c.events, e)]
    BY <1>3 DEF push, Full
  <2> QED BY <1>1, <1>3, <2>1 DEF CollectorRec, SameButLog
<1> QED BY <1>2, <1>3

LEMMA PushAllIs ==
  ASSUME NEW c \in CollectorRec, NEW es \in Seq(EventRec)
  PROVE  /\ pushAll(c, es) \in CollectorRec /\ SameButLog(c, pushAll(c, es))
         /\ \E kept \in 0 .. Len(es) :
              /\ pushAll(c, es).events = c.events \o SubSeq(es, 1, kept)
              /\ kept # 0 => ~Full(c.events)
<1> DEFINE kept == IF Len(c.events) + Len(es) <= MaxEvents THEN Len(es)
                   ELSE IF Len(c.events) <= MaxEvents THEN MaxEvents - Len(c.events) ELSE 0
<1>1. /\ Len(c.events) \in Nat /\ Len(es) \in Nat /\ MaxEvents \in Nat /\ c.dropped \in Nat
      /\ c.events \in Seq(EventRec)
  BY CollectorFields, CeilingIsNumber
<1>2. kept \in 0 .. Len(es) /\ (kept # 0 => ~Full(c.events))
  BY <1>1 DEF Full
<1>3. pushAll(c, es) = [c EXCEPT !.events = c.events \o SubSeq(es, 1, kept), !.dropped = c.dropped + (Len(es) - kept)]
  BY DEF pushAll
<1> HIDE DEF kept
<1>4. /\ SubSeq(es, 1, kept) \in Seq(EventRec)
      /\ c.dropped + (Len(es) - kept) \in Nat
  BY <1>1, <1>2
<1>5. c.events \o SubSeq(es, 1, kept) \in Seq(EventRec)
  BY <1>1, <1>4
<1> DEFINE log == c.events \o SubSeq(es, 1, kept)
           lost == c.dropped + (Len(es) - kept)
<1>6. log \in Seq(EventRec) /\ lost \in Nat
  BY <1>4, <1>5
<1>7. pushAll(c, es) = [c EXCEPT !.events = log, !.dropped = lost]
  BY <1>3
<1> HIDE DEF log, lost
<1>8. pushAll(c, es) \in CollectorRec /\ SameButLog(c, pushAll(c, es)) /\ pushAll(c, es).events = log
  BY <1>6, <1>7 DEF CollectorRec, SameButLog
<1> QED BY <1>2, <1>8 DEF log

\* All but the notes.
SameButNotes(c, d) ==
  /\ d.events = c.events /\ d.dropped = c.dropped /\ d.requests = c.requests /\ d.awaited = c.awaited
  /\ d.seen = c.seen /\ d.detached = c.detached /\ d.flushed = c.flushed

Says(n, cat, code) == n.cat = cat /\ n.what = code

\* One note for a category and code, however often it is made.
LEMMA NoteIs ==
  ASSUME NEW c \in CollectorRec, NEW cat, NEW code, NEW m \in Nat \ {0},
         NotesOK(c.notes), NoteMade(cat, code)
  PROVE  /\ note(c, cat, code, m) \in CollectorRec
         /\ SameButNotes(c, note(c, cat, code, m))
         /\ NotesOK(note(c, cat, code, m).notes)
         /\ DOMAIN c.notes \subseteq DOMAIN note(c, cat, code, m).notes
         /\ \A k \in DOMAIN note(c, cat, code, m).notes :
              \/ Says(note(c, cat, code, m).notes[k], cat, code)
              \/ k \in DOMAIN c.notes /\ note(c, cat, code, m).notes[k] = c.notes[k]
         /\ \A k \in DOMAIN c.notes :
              \/ note(c, cat, code, m).notes[k] = c.notes[k]
              \/ Says(c.notes[k], cat, code) /\ Says(note(c, cat, code, m).notes[k], cat, code)
         /\ \E k \in DOMAIN note(c, cat, code, m).notes :
              /\ Says(note(c, cat, code, m).notes[k], cat, code)
              /\ (\A j \in DOMAIN c.notes : ~Says(c.notes[j], cat, code)) => note(c, cat, code, m).notes[k].of = m
<1> DEFINE this(k) == c.notes[k].cat = cat /\ c.notes[k].what = code
<1>1. /\ c.notes \in Seq(EventRec) /\ cat \in Category /\ code \in Code
      /\ \A k \in DOMAIN c.notes : c.notes[k] \in EventRec /\ c.notes[k].of \in Nat
  BY CollectorFields, EntryType DEF NoteMade
<1>2. CASE \E k \in DOMAIN c.notes : this(k)
  <2> DEFINE notes == [k \in DOMAIN c.notes |->
                         IF this(k) THEN NoteEvent(cat, code, c.notes[k].of + m) ELSE c.notes[k]]
  <2>1. note(c, cat, code, m) = [c EXCEPT !.notes = notes]
    BY <1>2 DEF note
  <2>2. /\ DOMAIN notes = DOMAIN c.notes
        /\ \A k \in DOMAIN c.notes : this(k) => notes[k] = NoteEvent(cat, code, c.notes[k].of + m)
        /\ \A k \in DOMAIN c.notes : ~this(k) => notes[k] = c.notes[k]
    OBVIOUS
  <2>3. \A k \in DOMAIN c.notes : /\ NoteEvent(cat, code, c.notes[k].of + m) \in EventRec
                                  /\ Says(NoteEvent(cat, code, c.notes[k].of + m), cat, code)
                                  /\ NoteEvent(cat, code, c.notes[k].of + m).of # 0
                                  /\ NoteEvent(cat, code, c.notes[k].of + m).note = TRUE
    <3> SUFFICES ASSUME NEW k \in DOMAIN c.notes
                 PROVE  /\ NoteEvent(cat, code, c.notes[k].of + m) \in EventRec
                        /\ Says(NoteEvent(cat, code, c.notes[k].of + m), cat, code)
                        /\ NoteEvent(cat, code, c.notes[k].of + m).of # 0
                        /\ NoteEvent(cat, code, c.notes[k].of + m).note = TRUE
      OBVIOUS
    <3>1. c.notes[k].of + m \in Nat /\ c.notes[k].of + m # 0
      BY <1>1
    <3> DEFINE q == c.notes[k].of + m
    <3>2. q \in Nat /\ q # 0
      BY <3>1
    <3> HIDE DEF q
    <3>3. /\ NoteEvent(cat, code, q) \in EventRec
          /\ NoteEvent(cat, code, q).cat = cat /\ NoteEvent(cat, code, q).what = code
          /\ NoteEvent(cat, code, q).of = q /\ NoteEvent(cat, code, q).note = TRUE
      BY <1>1, <3>2, NoteEventIs
    <3> QED BY <3>2, <3>3 DEF Says, q
  <2>4. notes \in Seq(EventRec)
    <3>1. notes \in [1 .. Len(c.notes) -> EventRec]
      BY <1>1, <2>3
    <3>2. Len(c.notes) \in Nat
      BY <1>1
    <3> QED BY <3>1, <3>2
  <2> HIDE DEF notes
  <2>5. NotesOK(notes)
    <3>1. \A k \in DOMAIN notes : notes[k].note = TRUE /\ notes[k].of # 0 /\ NoteMade(notes[k].cat, notes[k].what)
      BY <2>2, <2>3 DEF NotesOK, Says
    <3>2. \A k \in DOMAIN notes : notes[k].cat = c.notes[k].cat /\ notes[k].what = c.notes[k].what
      BY <2>2, <2>3 DEF Says
    <3> QED BY <2>2, <3>1, <3>2 DEF NotesOK
  <2>6. /\ note(c, cat, code, m) \in CollectorRec
        /\ SameButNotes(c, note(c, cat, code, m))
        /\ note(c, cat, code, m).notes = notes
    BY <2>1, <2>4 DEF CollectorRec, SameButNotes
  <2>7. \A k \in DOMAIN c.notes : \/ notes[k] = c.notes[k]
                                  \/ Says(c.notes[k], cat, code) /\ Says(notes[k], cat, code)
    BY <2>2, <2>3 DEF Says
  <2>8. \A k \in DOMAIN notes : \/ Says(notes[k], cat, code)
                                \/ k \in DOMAIN c.notes /\ notes[k] = c.notes[k]
    BY <2>2, <2>3
  <2>9. \E k \in DOMAIN notes : /\ Says(notes[k], cat, code)
                                /\ (\A j \in DOMAIN c.notes : ~Says(c.notes[j], cat, code)) => notes[k].of = m
    BY <1>2, <2>2, <2>3 DEF Says
  <2> QED BY <2>2, <2>5, <2>6, <2>7, <2>8, <2>9
<1>3. CASE ~\E k \in DOMAIN c.notes : this(k)
  <2> DEFINE n == NoteEvent(cat, code, m)
             notes == Append(c.notes, n)
             last == Len(c.notes) + 1
  <2>1. note(c, cat, code, m) = [c EXCEPT !.notes = notes]
    BY <1>3 DEF note
  <2>2. n \in EventRec /\ Says(n, cat, code) /\ n.of = m /\ n.note = TRUE
    <3>1. m \in Nat
      OBVIOUS
    <3>2. cat \in Category /\ code \in Code
      BY <1>1
    <3>3. /\ NoteEvent(cat, code, m) \in EventRec
          /\ NoteEvent(cat, code, m).cat = cat /\ NoteEvent(cat, code, m).what = code
          /\ NoteEvent(cat, code, m).of = m /\ NoteEvent(cat, code, m).note = TRUE
      BY <3>1, <3>2, NoteEventIs
    <3> HIDE DEF n
    <3> QED BY <3>3 DEF Says, n
  <2> HIDE DEF n
  <2>3. /\ notes \in Seq(EventRec) /\ last \in DOMAIN notes /\ notes[last] = n
        /\ \A k \in DOMAIN c.notes : k \in DOMAIN notes /\ notes[k] = c.notes[k]
        /\ \A k \in DOMAIN notes : k \in DOMAIN c.notes \/ k = last
    BY <1>1, <2>2
  <2> HIDE DEF notes, last
  <2>4. NotesOK(notes)
    <3>1. \A k \in DOMAIN notes : notes[k].note = TRUE /\ notes[k].of # 0 /\ NoteMade(notes[k].cat, notes[k].what)
      BY <2>2, <2>3 DEF NotesOK, Says
    <3> QED BY <1>3, <2>2, <2>3, <3>1 DEF NotesOK, Says
  <2>5. /\ note(c, cat, code, m) \in CollectorRec
        /\ SameButNotes(c, note(c, cat, code, m))
        /\ note(c, cat, code, m).notes = notes
    BY <2>1, <2>3 DEF CollectorRec, SameButNotes
  <2> QED BY <2>2, <2>3, <2>4, <2>5
<1> QED BY <1>2, <1>3

-----------------------------------------------------------------------------
(* The collector.                                                          *)

\* What the page, the snapshots and the storage add.
Plain(e, x) == e.note = FALSE /\ e.cat # "actions" /\ e.cat # "networkMetadata" /\ e.during = x

LEMMA LogExtend ==
  ASSUME NEW log \in Seq(EventRec), NEW more \in Seq(EventRec), NEW requests, NEW seen \in Nat,
         NEW n \in Nat, NEW x \in {0, n}, LogOK(log, requests, seen, x, n),
         more # <<>> => ~Full(log), \A k \in DOMAIN more : Plain(more[k], x)
  PROVE  LogOK(log \o more, requests, seen, x, n)
<1>1. WindowsOK(log \o more, x, n)
  BY WindowsExtend DEF LogOK, Plain
<1>2. RequestsOK(log \o more, requests, seen)
  BY RequestsExtend DEF LogOK, Plain
<1>3. \A i \in DOMAIN (log \o more) : (log \o more)[i].note = FALSE
  <2> DEFINE new == log \o more
  <2>1. /\ \A j \in DOMAIN log : new[j] = log[j]
        /\ \A j \in DOMAIN new : j \in DOMAIN log \/ \E k \in DOMAIN more : j = Len(log) + k /\ new[j] = more[k]
    BY ConcatParts
  <2> HIDE DEF new
  <2>2. \A i \in DOMAIN new : new[i].note = FALSE
    BY <2>1 DEF LogOK, Plain
  <2> QED BY <2>2 DEF new
<1> QED BY <1>1, <1>2, <1>3 DEF LogOK

\* A collector that differs in its log only.
LEMMA OtherLogOK ==
  ASSUME NEW c, NEW x, NEW n, CollectorOK(c, x, n), NEW d \in CollectorRec, SameButLog(c, d),
         NEW y, NEW m, LogOK(d.events, c.requests, c.seen, y, m)
  PROVE  CollectorOK(d, y, m)
BY DEF CollectorOK, SameButLog

LEMMA PushOK ==
  ASSUME NEW c, NEW n \in Nat, NEW x \in {0, n}, CollectorOK(c, x, n), NEW e \in EventRec, Plain(e, x)
  PROVE  CollectorOK(push(c, e), x, n) /\ SameButLog(c, push(c, e))
<1>1. /\ c \in CollectorRec /\ c.events \in Seq(EventRec) /\ c.seen \in Nat
      /\ LogOK(c.events, c.requests, c.seen, x, n)
  BY CollectorFields DEF CollectorOK
<1>2. /\ push(c, e) \in CollectorRec /\ SameButLog(c, push(c, e))
      /\ Full(c.events) => push(c, e).events = c.events
      /\ ~Full(c.events) => push(c, e).events = Append(c.events, e)
  BY <1>1, PushIs
<1>3. ~Full(c.events) => LogOK(c.events \o <<e>>, c.requests, c.seen, x, n)
  <2>1. <<e>> \in Seq(EventRec) /\ \A k \in DOMAIN <<e>> : Plain(<<e>>[k], x)
    OBVIOUS
  <2> QED BY <1>1, <2>1, LogExtend
<1>4. Append(c.events, e) = c.events \o <<e>>
  BY <1>1, AppendIsConcat
<1>5. LogOK(push(c, e).events, c.requests, c.seen, x, n)
  BY <1>1, <1>2, <1>3, <1>4
<1> QED BY <1>2, <1>5, OtherLogOK

LEMMA PushAllOK ==
  ASSUME NEW c, NEW n \in Nat, NEW x \in {0, n}, CollectorOK(c, x, n), NEW es \in Seq(EventRec),
         \A k \in DOMAIN es : Plain(es[k], x)
  PROVE  CollectorOK(pushAll(c, es), x, n) /\ SameButLog(c, pushAll(c, es))
<1>1. /\ c \in CollectorRec /\ c.events \in Seq(EventRec) /\ c.seen \in Nat
      /\ LogOK(c.events, c.requests, c.seen, x, n)
  BY CollectorFields DEF CollectorOK
<1>2. pushAll(c, es) \in CollectorRec /\ SameButLog(c, pushAll(c, es))
  BY <1>1, PushAllIs
<1>3. PICK kept \in 0 .. Len(es) :
        /\ pushAll(c, es).events = c.events \o SubSeq(es, 1, kept)
        /\ kept # 0 => ~Full(c.events)
  BY <1>1, PushAllIs
<1> DEFINE more == SubSeq(es, 1, kept)
<1>4. /\ more \in Seq(EventRec) /\ DOMAIN more = 1 .. kept
      /\ \A k \in DOMAIN more : k \in DOMAIN es /\ more[k] = es[k]
  OBVIOUS
<1>5. more # <<>> => ~Full(c.events)
  <2>1. kept = 0 => more = <<>>
    OBVIOUS
  <2> QED BY <1>3, <2>1
<1> HIDE DEF more
<1>6. LogOK(c.events \o more, c.requests, c.seen, x, n)
  BY <1>1, <1>4, <1>5, LogExtend
<1> QED BY <1>2, <1>3, <1>6, OtherLogOK DEF more

LEMMA StartOK ==
  ASSUME NEW c, NEW n \in Nat \ {0}, CollectorOK(c, 0, n)
  PROVE  CollectorOK(push(c, Event("actions", "start", n, n)), n, n)
<1> DEFINE e == Event("actions", "start", n, n)
<1>1. /\ c \in CollectorRec /\ c.events \in Seq(EventRec) /\ c.seen \in Nat
      /\ LogOK(c.events, c.requests, c.seen, 0, n)
  BY CollectorFields DEF CollectorOK
<1>2. e \in EventRec /\ IsStart(e) /\ e.of = n /\ e.during = n /\ e.note = FALSE /\ e.cat = "actions"
  <2>1. "actions" \in Category /\ "start" \in What /\ n \in Nat
    BY DEF Category, What
  <2>2. /\ Event("actions", "start", n, n) \in EventRec
        /\ Event("actions", "start", n, n).cat = "actions" /\ Event("actions", "start", n, n).what = "start"
        /\ Event("actions", "start", n, n).of = n /\ Event("actions", "start", n, n).during = n
        /\ Event("actions", "start", n, n).note = FALSE
    BY <2>1 DEF Event, EventRec
  <2> HIDE DEF e
  <2> QED BY <2>1, <2>2 DEF e, IsStart
<1> HIDE DEF e
<1>3. /\ push(c, e) \in CollectorRec /\ SameButLog(c, push(c, e))
      /\ Full(c.events) => push(c, e).events = c.events
      /\ ~Full(c.events) => push(c, e).events = Append(c.events, e)
  BY <1>1, <1>2, PushIs
<1>4. CASE Full(c.events)
  <2>1. WindowsOK(c.events, n, n)
    BY <1>1, <1>4, WindowsFull DEF LogOK
  <2> QED BY <1>1, <1>3, <1>4, <2>1, OtherLogOK DEF LogOK, e
<1>5. CASE ~Full(c.events)
  <2>1. WindowsOK(Append(c.events, e), n, n)
    BY <1>1, <1>2, <1>5, WindowsStart DEF LogOK
  <2>2. RequestsOK(Append(c.events, e), c.requests, c.seen)
    <3>1. <<e>> \in Seq(EventRec) /\ \A k \in DOMAIN <<e>> : <<e>>[k].cat # "networkMetadata"
      BY <1>2
    <3>2. RequestsOK(c.events \o <<e>>, c.requests, c.seen)
      BY <1>1, <3>1, RequestsExtend DEF LogOK
    <3> QED BY <1>1, <1>2, <3>2, AppendIsConcat
  <2>3. \A i \in DOMAIN Append(c.events, e) : Append(c.events, e)[i].note = FALSE
    BY <1>1, <1>2 DEF LogOK
  <2>4. LogOK(Append(c.events, e), c.requests, c.seen, n, n)
    BY <2>1, <2>2, <2>3 DEF LogOK
  <2> QED BY <1>3, <1>5, <2>4, OtherLogOK DEF e
<1> QED BY <1>4, <1>5

LEMMA EndOK ==
  ASSUME NEW c, NEW n \in Nat \ {0}, CollectorOK(c, n, n), NEW how \in {"ok", "timeout", "failed"}
  PROVE  CollectorOK(push(c, Event("actions", how, n, n)), 0, n + 1)
<1> DEFINE e == Event("actions", how, n, n)
<1>1. /\ c \in CollectorRec /\ c.events \in Seq(EventRec) /\ c.seen \in Nat
      /\ LogOK(c.events, c.requests, c.seen, n, n)
  BY CollectorFields DEF CollectorOK
<1>2. e \in EventRec /\ IsEnd(e) /\ e.of = n /\ e.during = n /\ e.note = FALSE /\ e.cat = "actions"
  <2>1. "actions" \in Category /\ how \in What /\ how # "start" /\ n \in Nat
    BY DEF Category, What
  <2>2. /\ Event("actions", how, n, n) \in EventRec
        /\ Event("actions", how, n, n).cat = "actions" /\ Event("actions", how, n, n).what = how
        /\ Event("actions", how, n, n).of = n /\ Event("actions", how, n, n).during = n
        /\ Event("actions", how, n, n).note = FALSE
    BY <2>1 DEF Event, EventRec
  <2> HIDE DEF e
  <2> QED BY <2>1, <2>2 DEF e, IsEnd
<1> HIDE DEF e
<1>3. /\ push(c, e) \in CollectorRec /\ SameButLog(c, push(c, e))
      /\ Full(c.events) => push(c, e).events = c.events
      /\ ~Full(c.events) => push(c, e).events = Append(c.events, e)
  BY <1>1, <1>2, PushIs
<1>4. CASE Full(c.events)
  <2>1. WindowsOK(c.events, 0, n + 1)
    BY <1>1, <1>4, WindowsFull DEF LogOK
  <2> QED BY <1>1, <1>3, <1>4, <2>1, OtherLogOK DEF LogOK, e
<1>5. CASE ~Full(c.events)
  <2>1. WindowsOK(Append(c.events, e), 0, n + 1)
    BY <1>1, <1>2, <1>5, WindowsEnd DEF LogOK
  <2>2. RequestsOK(Append(c.events, e), c.requests, c.seen)
    <3>1. <<e>> \in Seq(EventRec) /\ \A k \in DOMAIN <<e>> : <<e>>[k].cat # "networkMetadata"
      BY <1>2
    <3>2. RequestsOK(c.events \o <<e>>, c.requests, c.seen)
      BY <1>1, <3>1, RequestsExtend DEF LogOK
    <3> QED BY <1>1, <1>2, <3>2, AppendIsConcat
  <2>3. \A i \in DOMAIN Append(c.events, e) : Append(c.events, e)[i].note = FALSE
    BY <1>1, <1>2 DEF LogOK
  <2>4. LogOK(Append(c.events, e), c.requests, c.seen, 0, n + 1)
    BY <2>1, <2>2, <2>3 DEF LogOK
  <2> QED BY <1>3, <1>5, <2>4, OtherLogOK DEF e
<1> QED BY <1>4, <1>5

LEMMA NoteOK ==
  ASSUME NEW c, NEW x, NEW n, CollectorOK(c, x, n), NEW cat, NEW code, NEW m \in Nat \ {0},
         NoteMade(cat, code), code # "DROPPED_BACKPRESSURE"
  PROVE  CollectorOK(note(c, cat, code, m), x, n) /\ SameButNotes(c, note(c, cat, code, m))
<1>1. c \in CollectorRec /\ NotesOK(c.notes)
  BY DEF CollectorOK
<1> DEFINE d == note(c, cat, code, m)
<1>2. /\ d \in CollectorRec /\ SameButNotes(c, d) /\ NotesOK(d.notes)
      /\ \A k \in DOMAIN d.notes : \/ Says(d.notes[k], cat, code)
                                   \/ k \in DOMAIN c.notes /\ d.notes[k] = c.notes[k]
  BY <1>1, NoteIs
<1> HIDE DEF d
<1>3. \A k \in DOMAIN d.notes : d.notes[k].what # "DROPPED_BACKPRESSURE"
  BY <1>2 DEF CollectorOK, Says
<1>4. CollectorOK(d, x, n)
  BY <1>2, <1>3 DEF CollectorOK, SameButNotes
<1> QED BY <1>2, <1>4 DEF d

LEMMA RequestOK ==
  ASSUME NEW c, NEW n \in Nat, NEW x \in {0, n}, CollectorOK(c, x, n)
  PROVE  CollectorOK(push([c EXCEPT !.seen = c.seen + 1,
                                    !.requests = [r \in DOMAIN c.requests \cup {c.seen + 1} |->
                                                    IF r = c.seen + 1 THEN x ELSE c.requests[r]]],
                          Event("networkMetadata", "request", c.seen + 1, x)), x, n)
<1> DEFINE uid  == c.seen + 1
           more == [r \in DOMAIN c.requests \cup {uid} |-> IF r = uid THEN x ELSE c.requests[r]]
           d    == [c EXCEPT !.seen = uid, !.requests = more]
           e    == Event("networkMetadata", "request", uid, x)
           log  == IF Full(c.events) THEN c.events ELSE Append(c.events, e)
<1>1. /\ c \in CollectorRec /\ c.events \in Seq(EventRec) /\ c.seen \in Nat /\ uid \in Nat
      /\ c.requests \in UNION {[S -> Nat] : S \in SUBSET Nat} /\ c.awaited \subseteq 0 .. c.seen
      /\ LogOK(c.events, c.requests, c.seen, x, n)
  BY CollectorFields DEF CollectorOK
<1>2. e \in EventRec /\ IsRequest(e) /\ e.of = uid /\ e.during = x /\ e.note = FALSE
  <2> HIDE DEF uid
  <2>1. "networkMetadata" \in Category /\ "request" \in What /\ x \in Nat
    BY DEF Category, What
  <2>2. /\ e \in EventRec /\ e.cat = "networkMetadata" /\ e.what = "request" /\ e.of = uid /\ e.during = x
        /\ e.note = FALSE
    BY <1>1, <2>1 DEF Event, EventRec
  <2> HIDE DEF e
  <2> QED BY <2>2 DEF IsRequest
<1> HIDE DEF e
<1>0. /\ DOMAIN more = DOMAIN c.requests \cup {c.seen + 1}
      /\ more[c.seen + 1] = x
      /\ \A u \in DOMAIN c.requests : u # c.seen + 1 => more[u] = c.requests[u]
  OBVIOUS
<1>3. more \in UNION {[S -> Nat] : S \in SUBSET Nat} /\ RequestsOK(log, more, uid)
  <2>1. x \in Nat /\ RequestsOK(c.events, c.requests, c.seen)
    BY <1>1 DEF LogOK
  <2>2. more \in UNION {[S -> Nat] : S \in SUBSET Nat}
    <3>1. DOMAIN c.requests \subseteq Nat /\ \A u \in DOMAIN c.requests : c.requests[u] \in Nat
      BY <1>1
    <3>2. more \in [DOMAIN c.requests \cup {uid} -> Nat] /\ DOMAIN c.requests \cup {uid} \in SUBSET Nat
      BY <1>1, <2>1, <3>1
    <3> HIDE DEF more
    <3> QED BY <3>2
  <2> HIDE DEF more
  <2>3. /\ c.events \in Seq(EventRec) /\ c.requests \in UNION {[S -> Nat] : S \in SUBSET Nat} /\ c.seen \in Nat
        /\ e \in EventRec /\ IsRequest(e) /\ e.of = c.seen + 1 /\ e.during = x
    BY <1>1, <1>2
  <2>4. RequestsOK(IF Full(c.events) THEN c.events ELSE Append(c.events, e), more, c.seen + 1)
    BY <1>0, <2>1, <2>3, RequestBegins
  <2> QED BY <2>2, <2>4
<1> HIDE DEF more
<1>4. /\ d \in CollectorRec /\ d.events = c.events /\ d.seen = uid /\ d.requests = more
      /\ d.awaited = c.awaited /\ d.notes = c.notes /\ d.flushed = c.flushed
  BY <1>1, <1>3 DEF CollectorRec
<1> HIDE DEF d
<1>5. /\ push(d, e) \in CollectorRec /\ SameButLog(d, push(d, e)) /\ push(d, e).events = log
  BY <1>2, <1>4, PushIs
<1>6. WindowsOK(log, x, n)
  <2>1. CASE Full(c.events)
    BY <1>1, <2>1 DEF LogOK
  <2>2. CASE ~Full(c.events)
    <3>1. <<e>> \in Seq(EventRec) /\ \A k \in DOMAIN <<e>> : <<e>>[k].cat # "actions" /\ <<e>>[k].during = x
      BY <1>2 DEF IsRequest
    <3>2. WindowsOK(c.events \o <<e>>, x, n)
      BY <1>1, <2>2, <3>1, WindowsExtend DEF LogOK
    <3> QED BY <1>1, <1>2, <2>2, <3>2, AppendIsConcat
  <2> QED BY <2>1, <2>2
<1>7. \A i \in DOMAIN log : log[i].note = FALSE
  <2>1. \A i \in DOMAIN c.events : c.events[i].note = FALSE
    BY <1>1 DEF LogOK
  <2>2. CASE Full(c.events)
    BY <2>1, <2>2
  <2>3. CASE ~Full(c.events)
    <3>1. \A i \in DOMAIN Append(c.events, e) : IF i = Len(c.events) + 1 THEN Append(c.events, e)[i] = e
            ELSE i \in DOMAIN c.events /\ Append(c.events, e)[i] = c.events[i]
      BY <1>1
    <3>2. log = Append(c.events, e)
      BY <2>3
    <3> HIDE DEF log
    <3> QED BY <1>2, <2>1, <3>1, <3>2
  <2> QED BY <2>2, <2>3
<1> HIDE DEF log
<1>8. LogOK(log, more, uid, x, n)
  BY <1>3, <1>6, <1>7 DEF LogOK
<1>9. c.awaited \subseteq 0 .. uid
  BY <1>1
<1> HIDE DEF uid
<1>10. CollectorOK(push(d, e), x, n)
  BY <1>4, <1>5, <1>8, <1>9 DEF CollectorOK, SameButLog
<1> QED BY <1>10 DEF d, e, more, uid

LEMMA OutcomeOK ==
  ASSUME NEW c, NEW n \in Nat, NEW x \in {0, n}, CollectorOK(c, x, n), NEW uid \in DOMAIN c.requests,
         NEW what \in {"response", "requestFailed"}
  PROVE  LET p == push([c EXCEPT !.requests = [r \in DOMAIN c.requests \ {uid} |-> c.requests[r]]],
                       Event("networkMetadata", what, uid, c.requests[uid]))
         IN CollectorOK(p, x, n) /\ p.seen = c.seen /\ uid \in 0 .. p.seen
<1> DEFINE fewer == [r \in DOMAIN c.requests \ {uid} |-> c.requests[r]]
           d     == [c EXCEPT !.requests = fewer]
           e     == Event("networkMetadata", what, uid, c.requests[uid])
           log   == IF Full(c.events) THEN c.events ELSE Append(c.events, e)
<1>1. /\ c \in CollectorRec /\ c.events \in Seq(EventRec) /\ c.seen \in Nat
      /\ c.requests \in UNION {[S -> Nat] : S \in SUBSET Nat} /\ c.awaited \subseteq 0 .. c.seen
      /\ LogOK(c.events, c.requests, c.seen, x, n)
  BY CollectorFields DEF CollectorOK
<1>2. DOMAIN c.requests \subseteq Nat /\ \A u \in DOMAIN c.requests : c.requests[u] \in Nat
  BY <1>1
<1>3. e \in EventRec /\ IsOutcome(e) /\ e.of = uid /\ e.during = c.requests[uid] /\ e.note = FALSE
  BY <1>2 DEF Event, EventRec, Category, What, IsOutcome
<1> HIDE DEF e
<1>4. RequestsOK(log, c.requests, c.seen)
  BY <1>1, <1>3, RequestEnds DEF LogOK
<1>5. log \in Seq(EventRec)
  BY <1>1, <1>3
<1>6. /\ fewer \in UNION {[S -> Nat] : S \in SUBSET Nat}
      /\ DOMAIN fewer \subseteq DOMAIN c.requests /\ \A u \in DOMAIN fewer : fewer[u] = c.requests[u]
  <2>1. fewer \in [DOMAIN c.requests \ {uid} -> Nat]
    BY <1>2
  <2> QED BY <1>2, <2>1
<1> HIDE DEF fewer
<1>7. WindowsOK(log, x, n)
  <2>1. CASE Full(c.events)
    BY <1>1, <2>1 DEF LogOK
  <2>2. CASE ~Full(c.events)
    <3>1. <<e>> \in Seq(EventRec) /\ \A k \in DOMAIN <<e>> : <<e>>[k].cat # "actions" /\ IsOutcome(<<e>>[k])
      BY <1>3 DEF IsOutcome
    <3>2. WindowsOK(c.events \o <<e>>, x, n)
      BY <1>1, <2>2, <3>1, WindowsExtend DEF LogOK
    <3> QED BY <1>1, <1>3, <2>2, <3>2, AppendIsConcat
  <2> QED BY <2>1, <2>2
<1>8. \A i \in DOMAIN log : log[i].note = FALSE
  BY <1>1, <1>3 DEF LogOK
<1>9. /\ d \in CollectorRec /\ d.events = c.events /\ d.seen = c.seen /\ d.requests = fewer
      /\ d.awaited = c.awaited /\ d.notes = c.notes /\ d.flushed = c.flushed
  BY <1>1, <1>6 DEF CollectorRec
<1> HIDE DEF d
<1>10. /\ push(d, e) \in CollectorRec /\ SameButLog(d, push(d, e)) /\ push(d, e).events = log
  BY <1>3, <1>9, PushIs
<1> HIDE DEF log
<1>11. LogOK(log, fewer, c.seen, x, n)
  <2>1. RequestsOK(log, fewer, c.seen)
    <3>1. c.seen <= c.seen
      BY <1>1
    <3> QED BY <1>1, <1>2, <1>4, <1>5, <1>6, <3>1, RequestsFewer
  <2> QED BY <1>7, <1>8, <2>1 DEF LogOK
<1>12. CollectorOK(push(d, e), x, n) /\ push(d, e).seen = c.seen
  BY <1>9, <1>10, <1>11 DEF CollectorOK, SameButLog
<1>13. uid \in 0 .. c.seen
  BY <1>1, <1>2 DEF LogOK, RequestsOK
<1> QED BY <1>12, <1>13 DEF d, e, fewer

\* The artifact of a snapshot that is stored.
LEMMA AttachOK ==
  ASSUME NEW c, NEW x, NEW n, CollectorOK(c, x, n), NEW seq \in DOMAIN c.events
  PROVE  CollectorOK(attachArtifact(c, seq), x, n)
<1> DEFINE e   == [c.events[seq] EXCEPT !.artifact = TRUE]
           log == [c.events EXCEPT ![seq] = e]
           d   == [c EXCEPT !.events = log]
<1>1. attachArtifact(c, seq) = d
  BY DEF attachArtifact
<1>2. /\ c \in CollectorRec /\ c.events \in Seq(EventRec)
      /\ c.events[seq] \in EventRec
      /\ LogOK(c.events, c.requests, c.seen, x, n)
  BY CollectorFields, EntryType DEF CollectorOK
<1>3. /\ e \in EventRec /\ e.cat = c.events[seq].cat /\ e.what = c.events[seq].what /\ e.of = c.events[seq].of
      /\ e.during = c.events[seq].during /\ e.note = c.events[seq].note
  BY <1>2 DEF EventRec
<1> HIDE DEF e
<1>4. /\ log \in Seq(EventRec) /\ DOMAIN log = DOMAIN c.events /\ Len(log) = Len(c.events)
      /\ log[seq] = e /\ \A i \in DOMAIN c.events : i # seq => log[i] = c.events[i]
  BY <1>2, <1>3
<1> HIDE DEF log
<1>5. \A i \in DOMAIN log :
        /\ log[i].cat = c.events[i].cat /\ log[i].what = c.events[i].what /\ log[i].of = c.events[i].of
        /\ log[i].during = c.events[i].during /\ log[i].note = c.events[i].note
  BY <1>3, <1>4
<1>6. \A i \in DOMAIN log : /\ IsStart(log[i]) <=> IsStart(c.events[i])
                            /\ IsEnd(log[i]) <=> IsEnd(c.events[i])
                            /\ IsRequest(log[i]) <=> IsRequest(c.events[i])
                            /\ IsOutcome(log[i]) <=> IsOutcome(c.events[i])
  BY <1>5 DEF IsStart, IsEnd, IsRequest, IsOutcome
<1>7. Full(log) <=> Full(c.events)
  BY <1>4 DEF Full
<1>8. WindowsOK(log, x, n)
  <2>1. \A s, i \in DOMAIN log : InWindow(log, s, i) <=> InWindow(c.events, s, i)
    BY <1>4, <1>5, <1>6 DEF InWindow
  <2>2. Numbered(log, x, n)
    BY <1>2, <1>4, <1>5, <1>6 DEF LogOK, WindowsOK, Numbered
  <2>3. \A a : /\ Ended(log, a) <=> Ended(c.events, a)
               /\ Started(log, a) <=> Started(c.events, a)
    BY <1>4, <1>5, <1>6 DEF Ended, Started
  <2>4. ~Full(log) => Closed(log, x)
    BY <1>2, <1>4, <1>5, <1>6, <1>7, <2>3 DEF LogOK, WindowsOK, Closed
  <2>5. \A i \in DOMAIN log : Placed(log, i) <=> Placed(c.events, i)
    BY <1>4, <1>5, <2>1 DEF Placed
  <2> QED BY <1>2, <1>4, <1>6, <1>7, <2>2, <2>3, <2>4, <2>5 DEF LogOK, WindowsOK
<1>9. RequestsOK(log, c.requests, c.seen)
  <2>1. \A u, during : Known(log, u, during) <=> Known(c.events, u, during)
    BY <1>4, <1>5, <1>6 DEF Known
  <2>2. \A i \in DOMAIN log : Answers(log, i) <=> Answers(c.events, i)
    BY <1>4, <1>5, <1>6 DEF Answers
  <2> QED BY <1>2, <1>4, <1>5, <1>6, <1>7, <2>1, <2>2 DEF LogOK, RequestsOK
<1>10. LogOK(log, c.requests, c.seen, x, n)
  BY <1>2, <1>4, <1>5, <1>8, <1>9 DEF LogOK
<1>11. d \in CollectorRec /\ SameButLog(c, d) /\ d.events = log
  BY <1>2, <1>4 DEF CollectorRec, SameButLog
<1> HIDE DEF d
<1> QED BY <1>1, <1>10, <1>11, OtherLogOK

\* An event of a category that neither windows nor requests are about.
LEMMA EventOK ==
  ASSUME NEW c, NEW n \in Nat, NEW x \in {0, n}, CollectorOK(c, x, n),
         NEW cat \in Category \ {"actions", "networkMetadata"}, NEW what \in What, NEW of \in Nat
  PROVE  /\ Event(cat, what, of, x) \in EventRec /\ Plain(Event(cat, what, of, x), x)
         /\ CollectorOK(push(c, Event(cat, what, of, x)), x, n)
<1> DEFINE e == Event(cat, what, of, x)
<1>1. e \in EventRec /\ e.cat = cat /\ e.during = x /\ e.note = FALSE
  BY DEF Event, EventRec
<1> HIDE DEF e
<1>2. Plain(e, x)
  BY <1>1 DEF Plain
<1>3. CollectorOK(push(c, e), x, n)
  BY <1>1, <1>2, PushOK
<1> QED BY <1>1, <1>2, <1>3 DEF e

LEMMA AwaitedOK ==
  ASSUME NEW c, NEW x, NEW n, CollectorOK(c, x, n), NEW A \in SUBSET (0 .. c.seen), A # {} => CaptureBodies
  PROVE  CollectorOK([c EXCEPT !.awaited = A], x, n)
<1> DEFINE d == [c EXCEPT !.awaited = A]
<1>1. c \in CollectorRec /\ c.seen \in Nat
  BY CollectorFields DEF CollectorOK
<1>2. A \in SUBSET Nat
  BY <1>1
<1>3. /\ d \in CollectorRec /\ d.events = c.events /\ d.requests = c.requests /\ d.seen = c.seen
      /\ d.notes = c.notes /\ d.flushed = c.flushed /\ d.awaited = A
  BY <1>1, <1>2 DEF CollectorRec
<1> HIDE DEF d
<1>4. CollectorOK(d, x, n)
  BY <1>3 DEF CollectorOK
<1> QED BY <1>4 DEF d

LEMMA SeenOK ==
  ASSUME NEW c, NEW x, NEW n, CollectorOK(c, x, n)
  PROVE  CollectorOK([c EXCEPT !.seen = c.seen + 1], x, n)
<1> DEFINE d == [c EXCEPT !.seen = c.seen + 1]
<1>1. /\ c \in CollectorRec /\ c.seen \in Nat /\ c.events \in Seq(EventRec)
      /\ c.requests \in UNION {[S -> Nat] : S \in SUBSET Nat}
  BY CollectorFields DEF CollectorOK
<1>2. /\ d \in CollectorRec /\ d.events = c.events /\ d.requests = c.requests /\ d.seen = c.seen + 1
      /\ d.notes = c.notes /\ d.flushed = c.flushed /\ d.awaited = c.awaited
  BY <1>1 DEF CollectorRec
<1>3. RequestsOK(c.events, c.requests, c.seen + 1)
  <2>1. RequestsOK(c.events, c.requests, c.seen) /\ DOMAIN c.requests \subseteq Nat
    BY <1>1 DEF CollectorOK, LogOK
  <2>2. c.seen + 1 \in Nat /\ c.seen <= c.seen + 1
    BY <1>1
  <2> QED BY <1>1, <2>1, <2>2, RequestsFewer
<1>4. c.awaited \subseteq 0 .. c.seen + 1
  BY <1>1 DEF CollectorOK
<1> HIDE DEF d
<1>5. CollectorOK(d, x, n)
  BY <1>2, <1>3, <1>4 DEF CollectorOK, LogOK
<1> QED BY <1>5 DEF d

LEMMA NotesThatAreMade ==
  /\ NoteMade("domSnapshots", "TARGET_DETACHED") /\ NoteMade("domSnapshots", "SIZE_LIMIT")
  /\ NoteMade("storage", "TARGET_DETACHED") /\ NoteMade("storage", "POLICY_REDACTED")
  /\ NoteMade("webSocketFrames", "COLLECTOR_UNSUPPORTED") /\ NoteMade("trace", "POLICY_REDACTED")
  /\ NoteMade("video", "CONFIG_OFF") /\ NoteMade("console", "DROPPED_BACKPRESSURE")
  /\ \A code \in {"PERSISTED_UNREDACTED", "NO_RECORDING_PRODUCED", "PERSIST_FAILED"} : NoteMade("video", code)
  /\ NoteMade("responseBodies", "CONTENT_TYPE_NOT_CAPTURED") /\ NoteMade("responseBodies", "POLICY_REDACTED")
  /\ ~CaptureBodies => NoteMade("responseBodies", "CONFIG_OFF")
  /\ CaptureBodies => NoteMade("responseBodies", "SIZE_LIMIT")
BY DEF NoteMade, Category, Code, Losses

LEMMA SnapshotOK ==
  ASSUME NEW c, NEW n \in Nat, NEW x \in {0, n}, CollectorOK(c, x, n), NEW d \in captureDomSnapshot(c, x)
  PROVE  CollectorOK(d, x, n)
<1> DEFINE e == Event("domSnapshots", "snapshot", 0, x)
           p == push(c, e)
<1>1. "domSnapshots" \in Category \ {"actions", "networkMetadata"} /\ "snapshot" \in What /\ 0 \in Nat
  BY DEF Category, What
<1>2. e \in EventRec /\ CollectorOK(p, x, n)
  BY <1>1, EventOK
<1>3. \/ d = note(c, "domSnapshots", "TARGET_DETACHED", 1)
      \/ d = note(c, "domSnapshots", "SIZE_LIMIT", 1)
      \/ d = note(p, "domSnapshots", "TARGET_DETACHED", 1)
      \/ p.dropped > c.dropped /\ d = p
      \/ ~(p.dropped > c.dropped) /\ d = attachArtifact(p, Len(p.events))
  BY DEF captureDomSnapshot
<1> HIDE DEF e
<1>4. ~(p.dropped > c.dropped) => Len(p.events) \in DOMAIN p.events
  <2>1. c \in CollectorRec /\ c.events \in Seq(EventRec) /\ c.dropped \in Nat
    BY CollectorFields DEF CollectorOK
  <2>2. /\ Full(c.events) => p.dropped = c.dropped + 1
        /\ ~Full(c.events) => p.events = Append(c.events, e)
    BY <1>2, <2>1, PushIs
  <2> HIDE DEF p
  <2> QED BY <1>2, <2>1, <2>2
<1> HIDE DEF p
<1>5. /\ "TARGET_DETACHED" # "DROPPED_BACKPRESSURE" /\ "SIZE_LIMIT" # "DROPPED_BACKPRESSURE" /\ 1 \in Nat \ {0}
  OBVIOUS
<1>6. /\ CollectorOK(note(c, "domSnapshots", "TARGET_DETACHED", 1), x, n)
      /\ CollectorOK(note(c, "domSnapshots", "SIZE_LIMIT", 1), x, n)
      /\ CollectorOK(note(p, "domSnapshots", "TARGET_DETACHED", 1), x, n)
  BY <1>2, <1>5, NotesThatAreMade, NoteOK
<1>7. ~(p.dropped > c.dropped) => CollectorOK(attachArtifact(p, Len(p.events)), x, n)
  BY <1>2, <1>4, AttachOK
<1> QED BY <1>2, <1>3, <1>6, <1>7

LEMMA CapturedOK ==
  ASSUME NEW c, NEW n \in Nat, NEW x \in {0, n}, CollectorOK(c, x, n), NEW trigger, NEW d \in Captured(c, trigger, x)
  PROVE  CollectorOK(d, x, n)
BY SnapshotOK DEF Captured

LEMMA StorageOK ==
  ASSUME NEW c, NEW n \in Nat, CollectorOK(c, 0, n), NEW d \in captureStorage(c)
  PROVE  CollectorOK(d, 0, n)
<1> DEFINE e  == Event("storage", "area", 0, 0)
           es == [k \in 1 .. 3 |-> e]
           p  == pushAll(c, es)
<1>1. "storage" \in Category \ {"actions", "networkMetadata"} /\ "area" \in What /\ 0 \in Nat
  BY DEF Category, What
<1>2. e \in EventRec /\ Plain(e, 0)
  BY <1>1, EventOK
<1>3. d = note(c, "storage", "TARGET_DETACHED", 1) \/ d = p \/ d = note(p, "storage", "POLICY_REDACTED", 1)
  BY DEF captureStorage
<1> HIDE DEF e
<1>4. es \in Seq(EventRec) /\ \A k \in DOMAIN es : Plain(es[k], 0)
  BY <1>2
<1> HIDE DEF es
<1>5. CollectorOK(p, 0, n)
  BY <1>4, PushAllOK
<1> HIDE DEF p
<1>6. "TARGET_DETACHED" # "DROPPED_BACKPRESSURE" /\ "POLICY_REDACTED" # "DROPPED_BACKPRESSURE" /\ 1 \in Nat \ {0}
  OBVIOUS
<1>7. /\ CollectorOK(note(c, "storage", "TARGET_DETACHED", 1), 0, n)
      /\ CollectorOK(note(p, "storage", "POLICY_REDACTED", 1), 0, n)
  BY <1>5, <1>6, NotesThatAreMade, NoteOK
<1> QED BY <1>3, <1>5, <1>7

-----------------------------------------------------------------------------
(* The steps of the page.                                                  *)

LEMMA WhereItIs ==
  ASSUME IInv, ~At("sealed")
  PROVE  /\ Reached \in Nat \ {0} /\ Executing \in {0, Reached}
         /\ CollectorOK(col, Executing, Reached)
         /\ At("execute") => Executing = int.next
         /\ ~At("execute") => Executing = 0
         /\ int.pc \in {"idle", "launch", "start", "execute"} => Reached = int.next
BY DEF IInv, InterpreterOK, At, Executing, Reached

LEMMA PageStep ==
  ASSUME IInv, ~At("sealed"), ~At("seal"), UNCHANGED <<flow, int, raw, sealed>>,
         CollectorOK(col', Executing, Reached)
  PROVE  IInv'
BY DEF IInv, InterpreterOK, At, Executing, Reached

LEMMA AttachedIs ==
  ASSUME IInv, Attached
  PROVE  ~At("sealed") /\ ~At("seal")
BY DEF Attached, At

LEMMA PageEvents ==
  ASSUME IInv, onPageEvent PROVE IInv'
<1> USE AttachedIs DEF onPageEvent
<1>1. PICK cat \in Noise : col' = push([col EXCEPT !.seen = col.seen + 1], Event(cat, "event", 0, Executing))
  OBVIOUS
<1>2. cat \in Category \ {"actions", "networkMetadata"} /\ "event" \in What /\ 0 \in Nat
  BY RunAssumption DEF Category, What
<1>3. Reached \in Nat /\ Executing \in {0, Reached} /\ CollectorOK(col, Executing, Reached)
  BY WhereItIs
<1> DEFINE c == [col EXCEPT !.seen = col.seen + 1]
<1>4. CollectorOK(c, Executing, Reached)
  BY <1>3, SeenOK
<1> HIDE DEF c
<1>5. CollectorOK(push(c, Event(cat, "event", 0, Executing)), Executing, Reached)
  BY <1>2, <1>3, <1>4, EventOK
<1> QED BY <1>1, <1>5, PageStep DEF c

LEMMA Requests ==
  ASSUME IInv, onRequest PROVE IInv'
<1> USE AttachedIs DEF onRequest
<1>1. Reached \in Nat /\ Executing \in {0, Reached} /\ CollectorOK(col, Executing, Reached)
  BY WhereItIs
<1>2. CollectorOK(push([col EXCEPT !.seen = col.seen + 1,
                                   !.requests = [r \in DOMAIN col.requests \cup {col.seen + 1} |->
                                                   IF r = col.seen + 1 THEN Executing ELSE col.requests[r]]],
                       Event("networkMetadata", "request", col.seen + 1, Executing)), Executing, Reached)
  BY <1>1, RequestOK
<1> QED BY <1>2, PageStep

LEMMA Failures ==
  ASSUME IInv, onRequestFailed PROVE IInv'
<1> USE AttachedIs DEF onRequestFailed
<1>1. Reached \in Nat /\ Executing \in {0, Reached} /\ CollectorOK(col, Executing, Reached)
  BY WhereItIs
<1>2. PICK uid \in DOMAIN col.requests :
        col' = push([col EXCEPT !.requests = [r \in DOMAIN col.requests \ {uid} |-> col.requests[r]]],
                    Event("networkMetadata", "requestFailed", uid, col.requests[uid]))
  OBVIOUS
<1>3. CollectorOK(col', Executing, Reached)
  BY <1>1, <1>2, OutcomeOK
<1> QED BY <1>3, PageStep

LEMMA Responses ==
  ASSUME IInv, onResponse PROVE IInv'
<1>0. ~At("sealed") /\ ~At("seal") /\ UNCHANGED <<flow, int, raw, sealed>>
  BY AttachedIs DEF onResponse
<1>1. Reached \in Nat /\ Executing \in {0, Reached} /\ CollectorOK(col, Executing, Reached)
  BY <1>0, WhereItIs
<1>1a. PICK uid \in DOMAIN col.requests :
        LET c == push([col EXCEPT !.requests = [r \in DOMAIN col.requests \ {uid} |-> col.requests[r]]],
                      Event("networkMetadata", "response", uid, col.requests[uid])) IN
        \/ /\ ~CaptureBodies
           /\ col' = note(push(c, Event("responseBodies", "CONFIG_OFF", uid, Executing)), "responseBodies", "CONFIG_OFF", 1)
        \/ col' = note(push(c, Event("responseBodies", "CONTENT_TYPE_NOT_CAPTURED", uid, Executing)),
                       "responseBodies", "CONTENT_TYPE_NOT_CAPTURED", 1)
        \/ CaptureBodies /\ col' = [c EXCEPT !.awaited = c.awaited \cup {uid}]
  BY DEF onResponse
<1>2. PICK c :
        /\ c = push([col EXCEPT !.requests = [r \in DOMAIN col.requests \ {uid} |-> col.requests[r]]],
                    Event("networkMetadata", "response", uid, col.requests[uid]))
        /\ \/ /\ ~CaptureBodies
              /\ col' = note(push(c, Event("responseBodies", "CONFIG_OFF", uid, Executing)), "responseBodies", "CONFIG_OFF", 1)
           \/ col' = note(push(c, Event("responseBodies", "CONTENT_TYPE_NOT_CAPTURED", uid, Executing)),
                          "responseBodies", "CONTENT_TYPE_NOT_CAPTURED", 1)
           \/ CaptureBodies /\ col' = [c EXCEPT !.awaited = c.awaited \cup {uid}]
  BY <1>1a
<1>3. CollectorOK(c, Executing, Reached) /\ uid \in 0 .. c.seen
  BY <1>1, <1>2, OutcomeOK
<1>4. /\ "responseBodies" \in Category \ {"actions", "networkMetadata"} /\ uid \in Nat
      /\ "CONFIG_OFF" \in What /\ "CONTENT_TYPE_NOT_CAPTURED" \in What
  <2>1. c \in CollectorRec /\ c.seen \in Nat
    BY <1>3, CollectorFields DEF CollectorOK
  <2> QED BY <1>3, <2>1 DEF Category, What, Code
<1> DEFINE Skipped(code) == push(c, Event("responseBodies", code, uid, Executing))
<1>5. /\ CollectorOK(Skipped("CONFIG_OFF"), Executing, Reached)
      /\ CollectorOK(Skipped("CONTENT_TYPE_NOT_CAPTURED"), Executing, Reached)
  BY <1>1, <1>3, <1>4, EventOK
<1> HIDE DEF Skipped
<1>6. 1 \in Nat \ {0} /\ "CONFIG_OFF" # "DROPPED_BACKPRESSURE" /\ "CONTENT_TYPE_NOT_CAPTURED" # "DROPPED_BACKPRESSURE"
  OBVIOUS
<1>7. /\ ~CaptureBodies => CollectorOK(note(Skipped("CONFIG_OFF"), "responseBodies", "CONFIG_OFF", 1), Executing, Reached)
      /\ CollectorOK(note(Skipped("CONTENT_TYPE_NOT_CAPTURED"), "responseBodies", "CONTENT_TYPE_NOT_CAPTURED", 1),
                     Executing, Reached)
  BY <1>5, <1>6, NotesThatAreMade, NoteOK
<1>8. CaptureBodies => CollectorOK([c EXCEPT !.awaited = c.awaited \cup {uid}], Executing, Reached)
  <2>1. c.awaited \cup {uid} \in SUBSET (0 .. c.seen)
    BY <1>3 DEF CollectorOK
  <2> QED BY <1>3, <2>1, AwaitedOK
<1>9. CollectorOK(col', Executing, Reached)
  BY <1>2, <1>7, <1>8 DEF Skipped
<1> QED BY <1>0, <1>9, PageStep

LEMMA Bodies ==
  ASSUME IInv, maybeCaptureBody PROVE IInv'
<1>0. ~At("sealed") /\ ~At("seal") /\ UNCHANGED <<flow, int, raw, sealed>>
  BY DEF maybeCaptureBody, IInv, SealedOK
<1>1. Reached \in Nat /\ Executing \in {0, Reached} /\ CollectorOK(col, Executing, Reached)
  BY <1>0, WhereItIs
<1>1a. PICK uid \in col.awaited :
        LET c == [col EXCEPT !.awaited = col.awaited \ {uid}] IN
        \/ col' = push(c, Event("responseBodies", "captured", uid, Executing))
        \/ col' = push(c, Event("responseBodies", "CONFIG_OFF", uid, Executing))
        \/ col' = push(note(c, "responseBodies", "SIZE_LIMIT", 1), Event("responseBodies", "captured", uid, Executing))
        \/ col' = push(note(c, "responseBodies", "POLICY_REDACTED", 1), Event("responseBodies", "withheld", uid, Executing))
  BY DEF maybeCaptureBody
<1>2. PICK c :
        /\ c = [col EXCEPT !.awaited = col.awaited \ {uid}]
        /\ \/ col' = push(c, Event("responseBodies", "captured", uid, Executing))
           \/ col' = push(c, Event("responseBodies", "CONFIG_OFF", uid, Executing))
           \/ col' = push(note(c, "responseBodies", "SIZE_LIMIT", 1), Event("responseBodies", "captured", uid, Executing))
           \/ col' = push(note(c, "responseBodies", "POLICY_REDACTED", 1), Event("responseBodies", "withheld", uid, Executing))
  BY <1>1a
<1>3. CollectorOK(c, Executing, Reached)
  <2>1. col.awaited \ {uid} \in SUBSET (0 .. col.seen) /\ (col.awaited \ {uid} # {} => CaptureBodies)
    BY <1>1 DEF CollectorOK
  <2> QED BY <1>1, <1>2, <2>1, AwaitedOK
<1>4. CaptureBodies /\ uid \in Nat
  <2>1. col \in CollectorRec /\ col.seen \in Nat /\ uid \in 0 .. col.seen /\ CaptureBodies
    BY <1>1, CollectorFields DEF CollectorOK
  <2> QED BY <2>1
<1>5. /\ "responseBodies" \in Category \ {"actions", "networkMetadata"}
      /\ {"captured", "withheld", "CONFIG_OFF"} \subseteq What
      /\ 1 \in Nat \ {0} /\ "SIZE_LIMIT" # "DROPPED_BACKPRESSURE" /\ "POLICY_REDACTED" # "DROPPED_BACKPRESSURE"
  BY DEF Category, What, Code
<1>6. /\ CollectorOK(note(c, "responseBodies", "SIZE_LIMIT", 1), Executing, Reached)
      /\ CollectorOK(note(c, "responseBodies", "POLICY_REDACTED", 1), Executing, Reached)
  BY <1>3, <1>4, <1>5, NotesThatAreMade, NoteOK
<1>7. CollectorOK(col', Executing, Reached)
  BY <1>1, <1>2, <1>3, <1>4, <1>5, <1>6, EventOK
<1> QED BY <1>0, <1>7, PageStep

LEMMA PageCloses ==
  ASSUME IInv, onClose PROVE IInv'
<1>0. ~At("sealed") /\ ~At("seal") /\ UNCHANGED <<flow, int, raw, sealed>>
  BY AttachedIs DEF onClose
<1>1. CollectorOK(col, Executing, Reached)
  BY <1>0, WhereItIs
<1>2. /\ col' \in CollectorRec /\ col'.events = col.events /\ col'.requests = col.requests /\ col'.seen = col.seen
      /\ col'.notes = col.notes /\ col'.flushed = col.flushed /\ col'.awaited = col.awaited
  <2>1. col \in CollectorRec /\ col' = [col EXCEPT !.detached = TRUE]
    BY <1>1 DEF CollectorOK, onClose
  <2> QED BY <2>1 DEF CollectorRec
<1>3. CollectorOK(col', Executing, Reached)
  BY <1>1, <1>2 DEF CollectorOK
<1> QED BY <1>0, <1>3, PageStep

-----------------------------------------------------------------------------
(* The steps of the worker.                                                *)

LEMMA WorkerStep ==
  ASSUME IInv, ~At("sealed"), sealed' = sealed, InterpreterOK', int'.pc # "sealed",
         CollectorOK(col', Executing', Reached'), int'.pc = "seal" => col'.awaited = {}
  PROVE  IInv'
BY DEF IInv, At

LEMMA Enqueues ==
  ASSUME IInv, NEW e, Enqueue(e) PROVE IInv'
<1>1. int' = [int EXCEPT !.pc = "launch"] /\ int.pc = "idle" /\ sealed' = sealed /\ col' = col
  BY DEF Enqueue, At
<1>2. InterpreterOK /\ CollectorOK(col, Executing, Reached)
  BY <1>1 DEF IInv, At
<1>3. InterpreterOK' /\ int'.pc = "launch" /\ Executing' = Executing /\ Reached' = Reached
  BY <1>1, <1>2 DEF InterpreterOK, IntFields, Executing, Reached, At
<1> QED BY <1>1, <1>2, <1>3, WorkerStep DEF At

LEMMA Launches ==
  ASSUME IInv, Launch PROVE IInv'
<1>1. int.pc = "launch" /\ sealed' = sealed
  BY DEF Launch, At
<1>2. InterpreterOK /\ CollectorOK(col, Executing, Reached) /\ Executing = 0 /\ Reached = int.next
  BY <1>1, WhereItIs DEF IInv, At
<1>3. \/ int' = [int EXCEPT !.pc = "close", !.infra = TRUE]
      \/ \E block : /\ int' = [int EXCEPT !.pc = IF block THEN "close" ELSE "start", !.manifest = TRUE,
                                          !.automation = block]
                    /\ col' = note(col, "webSocketFrames", "COLLECTOR_UNSUPPORTED", 1)
  BY DEF Launch
<1>4. InterpreterOK' /\ Executing' = 0 /\ Reached' = int.next /\ int'.pc \in {"close", "start"}
  <2>1. CASE int' = [int EXCEPT !.pc = "close", !.infra = TRUE]
    BY <1>1, <1>2, <2>1 DEF InterpreterOK, IntFields, Executing, Reached, At
  <2>2. ASSUME NEW block, int' = [int EXCEPT !.pc = IF block THEN "close" ELSE "start", !.manifest = TRUE,
                                              !.automation = block]
        PROVE  InterpreterOK' /\ Executing' = 0 /\ Reached' = int.next /\ int'.pc \in {"close", "start"}
    <3>1. /\ DOMAIN int' = IntFields /\ int'.pc \in {"close", "start"} /\ int'.manifest = TRUE
          /\ int'.next = int.next /\ int'.failedAt = int.failedAt /\ int'.infra = int.infra
          /\ int'.navigated = int.navigated
      BY <1>2, <2>2 DEF InterpreterOK, IntFields
    <3>2. int.failedAt = 0 /\ int.infra = FALSE /\ ~int.navigated
      BY <1>1, <1>2 DEF InterpreterOK
    <3> QED BY <1>2, <3>1, <3>2 DEF InterpreterOK, Executing, Reached, At
  <2> QED BY <1>3, <2>1, <2>2
<1>5. col' \in {col, note(col, "webSocketFrames", "COLLECTOR_UNSUPPORTED", 1)}
  BY DEF Launch
<1>6. CollectorOK(note(col, "webSocketFrames", "COLLECTOR_UNSUPPORTED", 1), 0, int.next)
  <2>1. "COLLECTOR_UNSUPPORTED" # "DROPPED_BACKPRESSURE" /\ 1 \in Nat \ {0}
    OBVIOUS
  <2> QED BY <1>2, <2>1, NotesThatAreMade, NoteOK
<1>7. CollectorOK(col', Executing', Reached')
  BY <1>2, <1>4, <1>5, <1>6
<1> QED BY <1>1, <1>4, <1>7, WorkerStep DEF At

LEMMA StartsAction ==
  ASSUME IInv, ActionStart PROVE IInv'
<1>1. /\ int.pc = "start" /\ sealed' = sealed /\ int' = [int EXCEPT !.pc = "execute"]
      /\ col' = push(col, Event("actions", "start", int.next, int.next))
  BY DEF ActionStart, At
<1>2. InterpreterOK /\ CollectorOK(col, 0, int.next) /\ int.next \in Nat \ {0}
  BY <1>1, WhereItIs DEF IInv, At
<1>3. InterpreterOK' /\ Executing' = int.next /\ Reached' = int.next /\ int'.pc = "execute"
  BY <1>1, <1>2 DEF InterpreterOK, IntFields, Executing, Reached, At
<1>4. CollectorOK(col', int.next, int.next)
  BY <1>1, <1>2, StartOK
<1> QED BY <1>1, <1>3, <1>4, WorkerStep DEF At

LEMMA Succeeds ==
  ASSUME IInv, ActionSucceeds PROVE IInv'
<1>1. PICK r, c, nav, results :
        /\ int.pc = "execute" /\ sealed' = sealed
        /\ int' = [int EXCEPT !.pc = "start", !.next = int.next + 1, !.navigated = nav, !.results = results]
        /\ c \in IF r = "fail" THEN Captured(col, "failure", int.next) ELSE {col}
        /\ col' \in Captured(push(c, Event("actions", "ok", int.next, int.next)), "action", 0)
  BY DEF ActionSucceeds, At
<1>2. InterpreterOK /\ CollectorOK(col, int.next, int.next) /\ int.next \in Nat \ {0}
  BY <1>1, WhereItIs DEF IInv, At
<1>3. InterpreterOK' /\ Executing' = 0 /\ Reached' = int.next + 1 /\ int'.pc = "start"
  <2>1. /\ DOMAIN int' = IntFields /\ int'.pc = "start" /\ int'.manifest = int.manifest
        /\ int'.next = int.next + 1 /\ int'.failedAt = int.failedAt /\ int'.infra = int.infra
    BY <1>1, <1>2 DEF InterpreterOK, IntFields
  <2>2. int.failedAt = 0 /\ int.infra = FALSE /\ int.manifest = TRUE
    BY <1>1, <1>2 DEF InterpreterOK
  <2>3. int'.next \in Nat \ {0} /\ int'.failedAt = 0 /\ int'.infra = FALSE /\ int'.manifest = TRUE
    BY <1>2, <2>1, <2>2
  <2>4. InterpreterOK'
    <3>1. DOMAIN int' = IntFields /\ int'.pc \in {"idle", "launch", "start", "execute", "close", "seal", "sealed"}
      BY <2>1
    <3>2. int'.next \in Nat \ {0} /\ int'.failedAt \in Nat
      BY <2>3
    <3>3. int'.manifest \in BOOLEAN /\ int'.manifest # FALSE
      BY <2>3
    <3>4. ~(int'.infra # FALSE) /\ ~(int'.failedAt # 0)
      BY <2>3
    <3>5. ~(int'.pc \in {"idle", "launch"})
      BY <2>1
    <3> QED BY <2>3, <3>1, <3>2, <3>3, <3>4, <3>5 DEF InterpreterOK
  <2> QED BY <2>1, <2>2, <2>4 DEF Executing, Reached, At
<1>4. CollectorOK(c, int.next, int.next)
  BY <1>1, <1>2, CapturedOK
<1>5. CollectorOK(push(c, Event("actions", "ok", int.next, int.next)), 0, int.next + 1)
  BY <1>2, <1>4, EndOK
<1>6. CollectorOK(col', 0, int.next + 1)
  BY <1>1, <1>2, <1>5, CapturedOK
<1> QED BY <1>1, <1>3, <1>6, WorkerStep DEF At

\* The environment is blamed only while nothing was ever reached.
LEMMA ExecuteIs ==
  ASSUME NEW a, NEW e \in execute(a)
  PROVE  /\ e.how \in {"ok", "timeout", "failed"}
         /\ e.error = "EXEC_TARGET_UNREACHABLE" => ~int.navigated
BY DEF execute, Ending, Success

LEMMA Fails ==
  ASSUME IInv, ActionFails PROVE IInv'
<1>1. PICK e \in execute(flow.actions[int.next]) \ {Success} :
        \E c \in Captured(push(col, Event("actions", e.how, int.next, int.next)), "failure", 0) :
          IF e.error = "EXEC_TARGET_UNREACHABLE"
          THEN /\ int' = [int EXCEPT !.pc = "close", !.infra = TRUE, !.results = <<>>, !.failedAt = int.next]
               /\ col' = c
          ELSE /\ int' = [StopAll(int) EXCEPT !.pc = "close", !.automation = TRUE, !.failedAt = int.next]
               /\ col' \in captureStorage(c)
  BY DEF ActionFails
<1>9. PICK c \in Captured(push(col, Event("actions", e.how, int.next, int.next)), "failure", 0) :
        \/ /\ e.error = "EXEC_TARGET_UNREACHABLE"
           /\ int' = [int EXCEPT !.pc = "close", !.infra = TRUE, !.results = <<>>, !.failedAt = int.next]
           /\ col' = c
        \/ /\ int' = [StopAll(int) EXCEPT !.pc = "close", !.automation = TRUE, !.failedAt = int.next]
           /\ col' \in captureStorage(c)
  BY <1>1
<1>0. int.pc = "execute" /\ sealed' = sealed
  BY DEF ActionFails, At
<1>2. InterpreterOK /\ CollectorOK(col, int.next, int.next) /\ int.next \in Nat \ {0}
  BY <1>0, WhereItIs DEF IInv, At
<1>3. e.how \in {"ok", "timeout", "failed"} /\ (e.error = "EXEC_TARGET_UNREACHABLE" => ~int.navigated)
  BY ExecuteIs
<1>4. CollectorOK(c, 0, int.next + 1)
  <2>1. CollectorOK(push(col, Event("actions", e.how, int.next, int.next)), 0, int.next + 1)
    BY <1>2, <1>3, EndOK
  <2> QED BY <1>2, <2>1, CapturedOK
<1>5. CollectorOK(col', 0, int.next + 1)
  BY <1>9, <1>2, <1>4, StorageOK
<1>6. InterpreterOK' /\ Executing' = 0 /\ Reached' = int.next + 1 /\ int'.pc = "close"
  <2>1. CASE /\ e.error = "EXEC_TARGET_UNREACHABLE"
             /\ int' = [int EXCEPT !.pc = "close", !.infra = TRUE, !.results = <<>>, !.failedAt = int.next]
    BY <1>0, <1>2, <1>3, <2>1 DEF InterpreterOK, IntFields, Executing, Reached, At
  <2>2. CASE int' = [StopAll(int) EXCEPT !.pc = "close", !.automation = TRUE, !.failedAt = int.next]
    <3>1. PICK results : StopAll(int) = [int EXCEPT !.results = results]
      BY DEF StopAll
    <3> QED BY <1>0, <1>2, <2>2, <3>1 DEF InterpreterOK, IntFields, Executing, Reached, At
  <2> QED BY <1>9, <2>1, <2>2
<1> QED BY <1>0, <1>5, <1>6, WorkerStep DEF At

LEMMA Asserts ==
  ASSUME IInv, AssertNext PROVE IInv'
<1>1. PICK r, results :
        /\ int.pc = "start" /\ sealed' = sealed
        /\ int' = [int EXCEPT !.results = results]
        /\ col' \in IF r = "fail" THEN Captured(col, "failure", 0) ELSE {col}
  BY DEF AssertNext, At
<1>2. InterpreterOK /\ CollectorOK(col, 0, int.next) /\ int.next \in Nat
  BY <1>1, WhereItIs DEF IInv, At
<1>3. InterpreterOK' /\ Executing' = 0 /\ Reached' = int.next /\ int'.pc = "start"
  BY <1>1, <1>2 DEF InterpreterOK, IntFields, Executing, Reached, At
<1>4. CollectorOK(col', 0, int.next)
  BY <1>1, <1>2, CapturedOK
<1> QED BY <1>1, <1>3, <1>4, WorkerStep DEF At

LEMMA Finishes ==
  ASSUME IInv, Finish PROVE IInv'
<1>1. /\ int.pc = "start" /\ sealed' = sealed /\ int' = [int EXCEPT !.pc = "close"]
      /\ col' \in captureStorage(col)
  BY DEF Finish, At
<1>2. InterpreterOK /\ CollectorOK(col, 0, int.next) /\ int.next \in Nat
  BY <1>1, WhereItIs DEF IInv, At
<1>3. InterpreterOK' /\ Executing' = 0 /\ Reached' = int.next /\ int'.pc = "close"
  BY <1>1, <1>2 DEF InterpreterOK, IntFields, Executing, Reached, At
<1>4. CollectorOK(col', 0, int.next)
  BY <1>1, <1>2, StorageOK
<1> QED BY <1>1, <1>3, <1>4, WorkerStep DEF At

\* The members of a finite set in some order.
LEMMA SetToSeqIs ==
  ASSUME NEW S, IsFiniteSet(S)
  PROVE  SetToSeq(S) \in Seq(S)
<1>1. Cardinality(S) \in Nat /\ \E f : f \in Bijection(1 .. Cardinality(S), S)
  BY FS_CardinalityType DEF ExistsBijection
<1>2. PICK f : f \in Bijection(1 .. Cardinality(S), S)
  BY <1>1
<1>3. f \in [1 .. Cardinality(S) -> S] /\ IsInjective(f)
  BY <1>2 DEF Bijection, Injection, IsInjective
<1>4. SetToSeq(S) \in [1 .. Cardinality(S) -> S]
  BY <1>3 DEF SetToSeq
<1> QED BY <1>1, <1>4

LEMMA Closes ==
  ASSUME IInv, Close PROVE IInv'
<1> DEFINE order == SetToSeq(col.awaited)
           es    == [k \in DOMAIN order |-> Event("responseBodies", "CONFIG_OFF", order[k], 0)]
           p     == pushAll(col, es)
           c     == [p EXCEPT !.awaited = {}, !.requests = <<>>]
<1>1. /\ int.pc = "close" /\ sealed' = sealed /\ int' = [int EXCEPT !.pc = "seal"]
      /\ col' = c \/ \E code \in {"PERSISTED_UNREDACTED", "NO_RECORDING_PRODUCED", "PERSIST_FAILED"} :
                       col' = note(c, "video", code, 1)
  BY DEF Close, At
<1>2. InterpreterOK /\ CollectorOK(col, 0, Reached) /\ Reached \in Nat
  BY <1>1, WhereItIs DEF IInv, At
<1>3. InterpreterOK' /\ Executing' = 0 /\ Reached' = Reached /\ int'.pc = "seal"
  BY <1>1, <1>2 DEF InterpreterOK, IntFields, Executing, Reached, At
<1>4. order \in Seq(Nat)
  <2>1. col.seen \in Nat /\ col.awaited \subseteq 0 .. col.seen
    BY <1>2, CollectorFields DEF CollectorOK
  <2>2. IsFiniteSet(col.awaited)
    <3>1. IsFiniteSet(0 .. col.seen)
      <4>1. \A m \in Nat : IsFiniteSet(0 .. m)
        <5> SUFFICES ASSUME NEW m \in Nat PROVE IsFiniteSet(0 .. m)
          OBVIOUS
        <5>1. 0 \in Int /\ m \in Int
          OBVIOUS
        <5> QED BY <5>1, FS_Interval, Zenon
      <4> QED BY <2>1, <4>1, Zenon
    <3> QED BY <2>1, <3>1, FS_Subset
  <2>3. order \in Seq(col.awaited)
    BY <2>2, SetToSeqIs
  <2>4. col.awaited \subseteq Nat
    BY <2>1
  <2> HIDE DEF order
  <2> QED BY <2>3, <2>4
<1> HIDE DEF order
<1>5. es \in Seq(EventRec) /\ \A k \in DOMAIN es : Plain(es[k], 0)
  <2>1. \A k \in DOMAIN order : /\ Event("responseBodies", "CONFIG_OFF", order[k], 0) \in EventRec
                                /\ Plain(Event("responseBodies", "CONFIG_OFF", order[k], 0), 0)
    <3> SUFFICES ASSUME NEW k \in DOMAIN order
                 PROVE  /\ Event("responseBodies", "CONFIG_OFF", order[k], 0) \in EventRec
                        /\ Plain(Event("responseBodies", "CONFIG_OFF", order[k], 0), 0)
      OBVIOUS
    <3>1. /\ "responseBodies" \in Category \ {"actions", "networkMetadata"} /\ "CONFIG_OFF" \in What
          /\ order[k] \in Nat /\ 0 \in {0, Reached}
      BY <1>4 DEF Category, What, Code
    <3> QED BY <1>2, <3>1, EventOK
  <2>2. DOMAIN order = 1 .. Len(order) /\ Len(order) \in Nat
    BY <1>4
  <2>3. es \in [1 .. Len(order) -> EventRec]
    BY <2>1, <2>2
  <2> QED BY <2>1, <2>2, <2>3
<1> HIDE DEF es
<1>6. CollectorOK(p, 0, Reached)
  BY <1>2, <1>5, PushAllOK
<1> HIDE DEF p
<1>7. CollectorOK(c, 0, Reached) /\ c.awaited = {}
  <2>1. /\ p \in CollectorRec /\ p.events \in Seq(EventRec) /\ p.seen \in Nat
        /\ p.requests \in UNION {[S -> Nat] : S \in SUBSET Nat}
    BY <1>6, CollectorFields DEF CollectorOK
  <2>2. <<>> \in UNION {[S -> Nat] : S \in SUBSET Nat} /\ DOMAIN <<>> = {}
    <3>1. <<>> \in [{} -> Nat] /\ {} \in SUBSET Nat
      OBVIOUS
    <3> QED BY <3>1
  <2>3. PICK none : none = <<>>
    OBVIOUS
  <2>4. c = [p EXCEPT !.awaited = {}, !.requests = none]
    BY <2>3
  <2>5. /\ c \in CollectorRec /\ c.events = p.events /\ c.requests = none /\ c.seen = p.seen
        /\ c.notes = p.notes /\ c.flushed = p.flushed /\ c.awaited = {}
    <3> HIDE DEF c
    <3> QED BY <2>1, <2>2, <2>3, <2>4 DEF CollectorRec
  <2>6. RequestsOK(p.events, none, p.seen)
    <3>1. RequestsOK(p.events, p.requests, p.seen)
      BY <1>6 DEF CollectorOK, LogOK
    <3>2. DOMAIN none = {} /\ p.seen <= p.seen /\ DOMAIN p.requests \subseteq Nat
      <4>1. DOMAIN none = {} /\ p.seen <= p.seen
        BY <2>1, <2>2, <2>3
      <4>2. PICK S \in SUBSET Nat : p.requests \in [S -> Nat]
        BY <2>1
      <4> QED BY <4>1, <4>2
    <3> QED BY <2>1, <3>1, <3>2, RequestsFewer
  <2> HIDE DEF c
  <2> QED BY <1>6, <2>5, <2>6 DEF CollectorOK, LogOK
<1> HIDE DEF c
<1>8. ASSUME NEW code \in {"PERSISTED_UNREDACTED", "NO_RECORDING_PRODUCED", "PERSIST_FAILED"}
      PROVE  CollectorOK(note(c, "video", code, 1), 0, Reached) /\ note(c, "video", code, 1).awaited = {}
  <2>1. code # "DROPPED_BACKPRESSURE" /\ 1 \in Nat \ {0} /\ NoteMade("video", code)
    BY NotesThatAreMade
  <2>2. CollectorOK(note(c, "video", code, 1), 0, Reached) /\ SameButNotes(c, note(c, "video", code, 1))
    BY <1>7, <2>1, NoteOK
  <2> QED BY <1>7, <2>2 DEF SameButNotes
<1>9. CollectorOK(col', 0, Reached) /\ col'.awaited = {}
  BY <1>1, <1>7, <1>8
<1> QED BY <1>1, <1>3, <1>9, WorkerStep DEF At

LEMMA NotesOfIs ==
  ASSUME NEW c, NEW n, CollectorOK(c, 0, n)
  PROVE  /\ NotesOf(c) \in CollectorRec /\ SameButNotes(c, NotesOf(c)) /\ NotesOK(NotesOf(c).notes)
         /\ c.dropped > 0 => \E k \in DOMAIN NotesOf(c).notes :
              Says(NotesOf(c).notes[k], "console", "DROPPED_BACKPRESSURE") /\ NotesOf(c).notes[k].of = c.dropped
         /\ c.detached => \E k \in DOMAIN NotesOf(c).notes :
              Says(NotesOf(c).notes[k], "domSnapshots", "TARGET_DETACHED")
<1> DEFINE lost == note(c, "console", "DROPPED_BACKPRESSURE", c.dropped)
           a    == IF c.dropped > 0 THEN lost ELSE c
           b    == note(a, "domSnapshots", "TARGET_DETACHED", 1)
<1>1. /\ c \in CollectorRec /\ NotesOK(c.notes) /\ c.dropped \in Nat /\ c.detached \in BOOLEAN
      /\ \A k \in DOMAIN c.notes : ~Says(c.notes[k], "console", "DROPPED_BACKPRESSURE")
  BY CollectorFields DEF CollectorOK, Says
<1>2. c.dropped > 0 =>
        /\ lost \in CollectorRec /\ SameButNotes(c, lost) /\ NotesOK(lost.notes)
        /\ \E k \in DOMAIN lost.notes :
             Says(lost.notes[k], "console", "DROPPED_BACKPRESSURE") /\ lost.notes[k].of = c.dropped
  <2> SUFFICES ASSUME c.dropped > 0
               PROVE  /\ lost \in CollectorRec /\ SameButNotes(c, lost) /\ NotesOK(lost.notes)
                      /\ \E k \in DOMAIN lost.notes :
                           /\ Says(lost.notes[k], "console", "DROPPED_BACKPRESSURE")
                           /\ lost.notes[k].of = c.dropped
    OBVIOUS
  <2>1. PICK m \in Nat \ {0} : m = c.dropped
    BY <1>1
  <2>2. NoteMade("console", "DROPPED_BACKPRESSURE")
    BY NotesThatAreMade
  <2>3. lost = note(c, "console", "DROPPED_BACKPRESSURE", m)
    BY <2>1
  <2> HIDE DEF lost
  <2>4. lost \in CollectorRec /\ SameButNotes(c, lost) /\ NotesOK(lost.notes)
    BY <1>1, <2>2, <2>3, NoteIs
  <2>5. \E k \in DOMAIN lost.notes :
          /\ Says(lost.notes[k], "console", "DROPPED_BACKPRESSURE")
          /\ (\A j \in DOMAIN c.notes : ~Says(c.notes[j], "console", "DROPPED_BACKPRESSURE")) => lost.notes[k].of = m
    BY <1>1, <2>2, <2>3, NoteIs
  <2> QED BY <1>1, <2>1, <2>4, <2>5
<1> HIDE DEF lost
<1>3. SameButNotes(c, c)
  BY DEF SameButNotes
<1>4. /\ a \in CollectorRec /\ SameButNotes(c, a) /\ NotesOK(a.notes)
      /\ c.dropped > 0 => \E k \in DOMAIN a.notes :
           Says(a.notes[k], "console", "DROPPED_BACKPRESSURE") /\ a.notes[k].of = c.dropped
  BY <1>1, <1>2, <1>3
<1> HIDE DEF a
<1>5. /\ b \in CollectorRec /\ SameButNotes(a, b) /\ NotesOK(b.notes)
      /\ DOMAIN a.notes \subseteq DOMAIN b.notes
      /\ \A k \in DOMAIN a.notes : \/ b.notes[k] = a.notes[k]
                                   \/ Says(a.notes[k], "domSnapshots", "TARGET_DETACHED")
      /\ \E k \in DOMAIN b.notes : Says(b.notes[k], "domSnapshots", "TARGET_DETACHED")
  <2>1. 1 \in Nat \ {0}
    OBVIOUS
  <2> QED BY <1>4, <2>1, NotesThatAreMade, NoteIs
<1> HIDE DEF b
<1>6. SameButNotes(c, b)
  BY <1>4, <1>5 DEF SameButNotes
<1>7. c.dropped > 0 => \E k \in DOMAIN b.notes :
        Says(b.notes[k], "console", "DROPPED_BACKPRESSURE") /\ b.notes[k].of = c.dropped
  BY <1>4, <1>5 DEF Says
<1>8. NotesOf(c) = IF c.detached THEN b ELSE a
  BY <1>4 DEF NotesOf, SameButNotes, a, b, lost
<1> QED BY <1>1, <1>4, <1>5, <1>6, <1>7, <1>8

LEMMA Seals ==
  ASSUME IInv, Seal PROVE IInv'
<1> DEFINE t == note(col, "trace", "POLICY_REDACTED", 1)
           v == IF Video THEN t ELSE note(t, "video", "CONFIG_OFF", 1)
           m == NotesOf(v)
<1>1. /\ int.pc = "seal" /\ int' = [int EXCEPT !.pc = "sealed"] /\ flow' = flow
      /\ col' = flushNotesToLog(v) /\ raw' = col'.events
      /\ sealed' = IF int.manifest
                   THEN runPlane(col'.events, col'.notes, int.infra, int.automation, int.results, flow.required)
                   ELSE finishWithoutBrowser
  BY DEF Seal, At
<1>2. InterpreterOK /\ CollectorOK(col, 0, Reached) /\ col.awaited = {}
  BY <1>1, WhereItIs DEF IInv, At
<1>3. /\ InterpreterOK' /\ Reached' = Reached /\ int'.pc = "sealed"
      /\ int'.manifest = int.manifest /\ int'.infra = int.infra /\ int'.automation = int.automation
      /\ int'.results = int.results
  BY <1>1, <1>2 DEF InterpreterOK, IntFields, Reached
<1>4. CollectorOK(v, 0, Reached) /\ v.awaited = {}
  <2>1. /\ "POLICY_REDACTED" # "DROPPED_BACKPRESSURE" /\ "CONFIG_OFF" # "DROPPED_BACKPRESSURE" /\ 1 \in Nat \ {0}
    OBVIOUS
  <2>2. CollectorOK(t, 0, Reached) /\ SameButNotes(col, t)
    BY <1>2, <2>1, NotesThatAreMade, NoteOK
  <2> HIDE DEF t
  <2>3. CollectorOK(note(t, "video", "CONFIG_OFF", 1), 0, Reached) /\ SameButNotes(t, note(t, "video", "CONFIG_OFF", 1))
    BY <2>1, <2>2, NotesThatAreMade, NoteOK
  <2> QED BY <1>2, <2>2, <2>3 DEF SameButNotes
<1> HIDE DEF t, v
<1>5. /\ m \in CollectorRec /\ SameButNotes(v, m) /\ NotesOK(m.notes)
      /\ v.dropped > 0 => \E k \in DOMAIN m.notes :
           Says(m.notes[k], "console", "DROPPED_BACKPRESSURE") /\ m.notes[k].of = v.dropped
      /\ v.detached => \E k \in DOMAIN m.notes : Says(m.notes[k], "domSnapshots", "TARGET_DETACHED")
  BY <1>4, NotesOfIs
<1>6. m.events \in Seq(EventRec) /\ m.notes \in Seq(EventRec) /\ m.events \o m.notes \in Seq(EventRec)
  BY <1>5, CollectorFields, ConcatParts
<1> DEFINE log == m.events \o m.notes
<1>7. col' = [m EXCEPT !.flushed = TRUE, !.events = log]
  BY <1>1, <1>4 DEF flushNotesToLog, CollectorOK
<1>8. log \in Seq(EventRec)
  BY <1>6
<1> HIDE DEF m, log
<1>9. /\ col' \in CollectorRec /\ col'.events = log /\ col'.notes = m.notes /\ col'.dropped = m.dropped
      /\ col'.detached = m.detached /\ col'.awaited = m.awaited /\ col'.requests = m.requests /\ col'.seen = m.seen
  BY <1>5, <1>7, <1>8 DEF CollectorRec
<1>10. LogOK(m.events, m.requests, m.seen, 0, Reached) /\ m.awaited = {}
  BY <1>4, <1>5 DEF CollectorOK, SameButNotes
<1>11. \E events \in Seq(EventRec) :
         raw' = events \o col'.notes /\ LogOK(events, col'.requests, col'.seen, 0, Reached')
  <2>1. /\ m.events \in Seq(EventRec) /\ raw' = m.events \o col'.notes
        /\ LogOK(m.events, col'.requests, col'.seen, 0, Reached')
    BY <1>1, <1>3, <1>6, <1>9, <1>10 DEF log
  <2> QED BY <2>1
<1>12. /\ col'.dropped > 0 => \E k \in DOMAIN col'.notes :
            /\ col'.notes[k].cat = "console" /\ col'.notes[k].what = "DROPPED_BACKPRESSURE"
            /\ col'.notes[k].of = col'.dropped
       /\ col'.detached => \E k \in DOMAIN col'.notes :
            col'.notes[k].cat = "domSnapshots" /\ col'.notes[k].what = "TARGET_DETACHED"
  BY <1>5, <1>9 DEF Says, SameButNotes
<1>13. sealed' = IF int'.manifest
                 THEN runPlane(raw', col'.notes, int'.infra, int'.automation, int'.results, flow'.required)
                 ELSE finishWithoutBrowser
  BY <1>1, <1>3
<1>14. SealedOK'
  BY <1>1, <1>5, <1>6, <1>9, <1>10, <1>11, <1>12, <1>13 DEF SealedOK
<1> QED BY <1>3, <1>14 DEF IInv, At

-----------------------------------------------------------------------------
(* The invariant.                                                          *)

LEMMA Initially == Init => IInv
<1> SUFFICES ASSUME Init PROVE IInv
  OBVIOUS
<1>1. int = Ready /\ col = Silent /\ sealed = Unsealed
  BY DEF Init, RunInit
<1>2. InterpreterOK /\ int.pc = "idle" /\ Reached = 1 /\ Executing = 0
  <2>1. DOMAIN int = IntFields
    BY <1>1 DEF Ready, IntFields
  <2>2. /\ int.pc = "idle" /\ int.next = 1 /\ int.manifest = FALSE /\ ~int.navigated
        /\ int.infra = FALSE /\ int.failedAt = 0
    BY <1>1 DEF Ready
  <2>3. InterpreterOK
    <3>1. int.pc \in {"idle", "launch", "start", "execute", "close", "seal", "sealed"}
      BY <2>2
    <3>2. int.next \in Nat \ {0} /\ int.failedAt \in Nat
      <4>1. int.next = 1 /\ int.failedAt = 0
        BY <2>2
      <4> QED BY <4>1
    <3>3. ~(int.pc \in {"start", "execute"})
      BY <2>2
    <3>4. int.manifest \in BOOLEAN
      BY <2>2, Zenon
    <3> QED BY <2>1, <2>2, <3>1, <3>2, <3>3, <3>4 DEF InterpreterOK
  <2> QED BY <2>2, <2>3 DEF Reached, Executing, At
<1>3. PICK none : none = <<>>
  OBVIOUS
<1>4. none \in Seq(EventRec) /\ DOMAIN none = {} /\ none \in UNION {[S -> Nat] : S \in SUBSET Nat}
  <2>1. <<>> \in [{} -> Nat] /\ {} \in SUBSET Nat
    OBVIOUS
  <2>2. <<>> \in Seq(EventRec) /\ DOMAIN <<>> = {}
    OBVIOUS
  <2>3. <<>> \in UNION {[S -> Nat] : S \in SUBSET Nat}
    BY <2>1
  <2> QED BY <1>3, <2>2, <2>3
<1>5. col = [events |-> none, dropped |-> 0, notes |-> none, requests |-> none, awaited |-> {}, seen |-> 0,
             detached |-> FALSE, flushed |-> FALSE]
  BY <1>1, <1>3 DEF Silent
<1>6. /\ col \in CollectorRec /\ col.events = none /\ col.notes = none /\ col.requests = none /\ col.seen = 0
      /\ col.awaited = {} /\ col.flushed = FALSE
  BY <1>4, <1>5 DEF CollectorRec
<1>7. LogOK(none, none, 0, 0, 1)
  BY <1>4 DEF LogOK, WindowsOK, Numbered, Closed, RequestsOK
<1>8. NotesOK(none)
  BY <1>4 DEF NotesOK
<1>9. CollectorOK(col, 0, 1)
  BY <1>4, <1>6, <1>7, <1>8 DEF CollectorOK
<1> QED BY <1>1, <1>2, <1>9 DEF IInv, At

LEMMA Preserved == IInv /\ [Next]_vars => IInv'
<1> SUFFICES ASSUME IInv, [Next]_vars PROVE IInv'
  OBVIOUS
<1>1. CASE EnqueueAuthored \/ EnqueuePlanned
  BY <1>1, Enqueues DEF EnqueueAuthored, EnqueuePlanned
<1>2. CASE Page
  BY <1>2, PageEvents, Requests, Responses, Failures, Bodies, PageCloses DEF Page
<1>3. CASE Worker
  BY <1>3, Launches, StartsAction, Succeeds, Fails, Asserts, Finishes, Closes, Seals DEF Worker
<1>4. CASE Record \/ UNCHANGED vars
  <2>1. UNCHANGED runVars
    BY <1>4 DEF Record, vars
  <2> QED BY <2>1
        DEF runVars, IInv, InterpreterOK, At, Executing, Reached, SealedOK
<1> QED BY <1>1, <1>2, <1>3, <1>4 DEF Next

\* The invariant of a run holds in every state of every one.
THEOREM RunInvariant == Spec => []IInv
BY Initially, Preserved, PTL DEF Spec

-----------------------------------------------------------------------------
(* The persisted log: events, and after them the notes.                    *)

AsPersisted(log, notes, all) ==
  /\ log \in Seq(EventRec) /\ notes \in Seq(EventRec) /\ all = log \o notes
  /\ \A i \in DOMAIN log : log[i].note = FALSE
  /\ NotesOK(notes)

LEMMA PersistedParts ==
  ASSUME NEW log, NEW notes, NEW all, AsPersisted(log, notes, all)
  PROVE  /\ all \in Seq(EventRec) /\ Evidence(all) = DOMAIN log
         /\ \A i \in DOMAIN log : i \in DOMAIN all /\ all[i] = log[i]
         /\ \A k \in DOMAIN notes : Len(log) + k \in Notes(all) /\ all[Len(log) + k] = notes[k]
         /\ \A i \in Notes(all) : \E k \in DOMAIN notes : i = Len(log) + k /\ all[i] = notes[k]
<1>1. /\ log \in Seq(EventRec) /\ notes \in Seq(EventRec) /\ all = log \o notes
      /\ \A i \in DOMAIN log : log[i].note = FALSE
      /\ \A k \in DOMAIN notes : notes[k].note = TRUE
  BY DEF AsPersisted, NotesOK
<1>2. /\ all \in Seq(EventRec)
      /\ \A i \in DOMAIN log : i \in DOMAIN all /\ all[i] = log[i]
      /\ \A k \in DOMAIN notes : Len(log) + k \in DOMAIN all /\ all[Len(log) + k] = notes[k]
      /\ \A i \in DOMAIN all : i \in DOMAIN log \/ \E k \in DOMAIN notes : i = Len(log) + k
  BY <1>1, ConcatParts
<1>3. \A i \in DOMAIN log : i \notin Notes(all)
  BY <1>1, <1>2 DEF Notes
<1>4. \A k \in DOMAIN notes : Len(log) + k \in Notes(all)
  BY <1>1, <1>2 DEF Notes
<1>5. \A i \in Notes(all) : \E k \in DOMAIN notes : i = Len(log) + k /\ all[i] = notes[k]
  <2> SUFFICES ASSUME NEW i \in Notes(all)
               PROVE  \E k \in DOMAIN notes : i = Len(log) + k /\ all[i] = notes[k]
    OBVIOUS
  <2>1. i \in DOMAIN all /\ i \notin DOMAIN log
    BY <1>3 DEF Notes
  <2>2. PICK k \in DOMAIN notes : i = Len(log) + k
    BY <1>2, <2>1
  <2> QED BY <1>2, <2>2
<1>6. Evidence(all) = DOMAIN log
  <2>1. \A i \in Evidence(all) : i \in DOMAIN log
    BY <1>2, <1>4 DEF Evidence
  <2>2. \A i \in DOMAIN log : i \in Evidence(all)
    BY <1>2, <1>3 DEF Evidence
  <2> QED BY <2>1, <2>2
<1> QED BY <1>2, <1>4, <1>5, <1>6

\* The count of a note in the log is the one it was made with.
LEMMA Counted ==
  ASSUME NEW log, NEW notes, NEW all, AsPersisted(log, notes, all), NEW cat, NEW code
  PROVE  /\ (\A k \in DOMAIN notes : ~Says(notes[k], cat, code)) => CountIn(all, cat, code) = 0
         /\ \A k \in DOMAIN notes : Says(notes[k], cat, code) => CountIn(all, cat, code) = notes[k].of
<1> DEFINE at == {i \in Notes(all) : all[i].cat = cat /\ all[i].what = code}
<1>1. CountIn(all, cat, code) = IF at = {} THEN 0 ELSE all[CHOOSE i \in at : TRUE].of
  BY DEF CountIn
<1>2. \A i \in at : \E k \in DOMAIN notes : i = Len(log) + k /\ all[i] = notes[k] /\ Says(notes[k], cat, code)
  BY PersistedParts DEF Says
<1>3. \A k \in DOMAIN notes : Says(notes[k], cat, code) => Len(log) + k \in at
  BY PersistedParts DEF Says
<1> HIDE DEF at
<1>4. ASSUME NEW k \in DOMAIN notes, Says(notes[k], cat, code)
      PROVE  CountIn(all, cat, code) = notes[k].of
  <2>1. PICK i \in at : i = CHOOSE j \in at : TRUE
    BY <1>3, <1>4
  <2>2. CountIn(all, cat, code) = all[i].of
    BY <1>1, <2>1
  <2>3. PICK j \in DOMAIN notes : all[i] = notes[j] /\ Says(notes[j], cat, code)
    BY <1>2
  <2>4. j = k
    BY <1>4, <2>3 DEF AsPersisted, NotesOK, Says
  <2> QED BY <2>2, <2>3, <2>4
<1>5. (\A k \in DOMAIN notes : ~Says(notes[k], cat, code)) => CountIn(all, cat, code) = 0
  BY <1>1, <1>2
<1> QED BY <1>4, <1>5

LEMMA NotCounted ==
  ASSUME NEW notes, NEW cat, NEW code, \A k \in DOMAIN notes : ~Says(notes[k], cat, code)
  PROVE  CountIn(notes, cat, code) = 0
BY DEF CountIn, Notes, Says

\* What the collector remembers adds nothing to what its log says.
LEMMA NothingFromMemory ==
  ASSUME NEW log, NEW notes, NEW all, AsPersisted(log, notes, all), NEW cat, NEW code
  PROVE  FromMemory(all, notes, cat, code) = 0 /\ FromMemory(all, <<>>, cat, code) = 0
<1>1. FromMemory(all, <<>>, cat, code) = 0
  <2>1. CountIn(<<>>, cat, code) = 0
    <3>1. DOMAIN <<>> = {}
      OBVIOUS
    <3> QED BY <3>1, NotCounted
  <2> QED BY <2>1 DEF FromMemory
<1>2. CASE \A k \in DOMAIN notes : ~Says(notes[k], cat, code)
  BY <1>1, <1>2, NotCounted DEF FromMemory
<1>3. CASE \E k \in DOMAIN notes : Says(notes[k], cat, code)
  <2>1. CountIn(all, cat, code) # 0
    <3>1. PICK k \in DOMAIN notes : Says(notes[k], cat, code)
      BY <1>3
    <3>2. CountIn(all, cat, code) = notes[k].of
      BY <3>1, Counted
    <3> QED BY <3>2 DEF AsPersisted, NotesOK
  <2> QED BY <1>1, <2>1 DEF FromMemory
<1> QED BY <1>2, <1>3

Said(log, memory, cat) ==
  {log[i].what : i \in OfCategory(log, cat) \cup Notes(log)} \cup {memory[k].what : k \in DOMAIN memory}

Reasons(log, memory, cat) ==
  {c \in Code \cap (Said(log, memory, cat) \cup {"RUN_INTERRUPTED"}) : ReasonCount(log, memory, cat, c) > 0}

StatusOf(log, memory, cat) ==
  [status  |-> deriveStatus(Reasons(log, memory, cat), Collected(log, memory, cat), Expected(log, cat)),
   reasons |-> [code \in Reasons(log, memory, cat) |-> ReasonCount(log, memory, cat, code)]]

LEMMA CaptureIs ==
  ASSUME NEW log, NEW memory, NEW cat \in Category
  PROVE  /\ buildCaptureStatus(log, memory) = [k \in Category |-> StatusOf(log, memory, k)]
         /\ buildCaptureStatus(log, memory)[cat] = StatusOf(log, memory, cat)
         /\ StatusOf(log, memory, cat).status =
              deriveStatus(Reasons(log, memory, cat), Collected(log, memory, cat), Expected(log, cat))
<1>1. \A k : DOMAIN [code \in Reasons(log, memory, k) |-> ReasonCount(log, memory, k, code)] = Reasons(log, memory, k)
  OBVIOUS
<1>2. buildCaptureStatus(log, memory) = [k \in Category |-> StatusOf(log, memory, k)]
  BY <1>1 DEF buildCaptureStatus, StatusOf, Reasons, Said
<1>3. buildCaptureStatus(log, memory)[cat] = StatusOf(log, memory, cat)
  BY <1>2
<1>4. StatusOf(log, memory, cat).status =
        deriveStatus(Reasons(log, memory, cat), Collected(log, memory, cat), Expected(log, cat))
  BY DEF StatusOf
<1> QED BY <1>2, <1>3, <1>4

LEMMA CaptureWithoutMemory ==
  ASSUME NEW log, NEW notes, NEW all, AsPersisted(log, notes, all)
  PROVE  buildCaptureStatus(all, notes) = buildCaptureStatus(all, <<>>)
<1>1. ASSUME NEW cat \in Category
      PROVE  StatusOf(all, notes, cat) = StatusOf(all, <<>>, cat)
  <2>1. \A code : Noted(all, notes, cat, code) = Noted(all, <<>>, cat, code)
    BY NothingFromMemory DEF Noted
  <2>2. \A code : ReasonCount(all, notes, cat, code) = ReasonCount(all, <<>>, cat, code)
    BY <2>1 DEF ReasonCount
  <2>3. Collected(all, notes, cat) = Collected(all, <<>>, cat)
    BY <2>1 DEF Collected
  <2>4. Said(all, notes, cat) = Said(all, <<>>, cat)
    <3>1. DOMAIN <<>> = {}
      OBVIOUS
    <3>2. \A k \in DOMAIN notes : Len(log) + k \in Notes(all) /\ all[Len(log) + k].what = notes[k].what
      BY PersistedParts
    <3> QED BY <3>1, <3>2 DEF Said
  <2>5. Reasons(all, notes, cat) = Reasons(all, <<>>, cat)
    BY <2>2, <2>4 DEF Reasons
  <2> QED BY <2>2, <2>3, <2>5 DEF StatusOf
<1>2. "actions" \in Category
  BY DEF Category
<1> QED BY <1>1, <1>2, CaptureIs

-----------------------------------------------------------------------------
(* Attribution.                                                            *)

LEMMA LeastOfNumbers ==
  ASSUME NEW S \in SUBSET Nat, S # {}
  PROVE  Min(S) \in S /\ \A m \in S : Min(S) <= m
<1>1. PICK n \in S : \A m \in S : ~(<<m, n>> \in OpToRel(<, Nat))
  BY NatLessThanWellFounded, WFMin
<1>2. \A m \in S : n <= m
  <2> SUFFICES ASSUME NEW m \in S PROVE n <= m
    OBVIOUS
  <2>1. <<m, n>> \notin OpToRel(<, Nat)
    BY <1>1
  <2> QED BY <2>1 DEF OpToRel
<1> QED BY <1>2 DEF Min

\* The end of the window that starts at s.
WindowEnd(log, s) == Min({Len(log)} \cup {e \in Ends(log) : log[e].of = log[s].of})

\* The windows of the timeline around an event are those it is in.
LEMMA WindowAround ==
  ASSUME NEW log, NEW notes, NEW all, AsPersisted(log, notes, all), NEW i \in DOMAIN log, NEW s
  PROVE  s \in Starts(all) /\ s <= i /\ i <= WindowEnd(all, s) <=> s \in DOMAIN log /\ InWindow(log, s, i)
<1>1. /\ all \in Seq(EventRec) /\ Evidence(all) = DOMAIN log /\ log \in Seq(EventRec)
      /\ \A j \in DOMAIN log : j \in DOMAIN all /\ all[j] = log[j]
  <2>1. log \in Seq(EventRec)
    BY DEF AsPersisted
  <2> QED BY <2>1, PersistedParts
<1>2. /\ Starts(all) = {j \in DOMAIN log : IsStart(log[j])}
      /\ Ends(all) = {j \in DOMAIN log : IsEnd(log[j])}
  BY <1>1 DEF Starts, Ends, OfCategory, IsStart, IsEnd
<1>3. i \in Nat /\ i <= Len(all) /\ Len(all) \in Nat /\ DOMAIN log \subseteq Nat
  BY <1>1
<1>4. ASSUME s \in DOMAIN log
      PROVE  i <= WindowEnd(all, s) <=> \A e \in DOMAIN log : IsEnd(log[e]) /\ log[e].of = log[s].of => i <= e
  <2> DEFINE S == {Len(all)} \cup {e \in Ends(all) : all[e].of = all[s].of}
  <2>1. S \in SUBSET Nat /\ S # {}
    BY <1>2, <1>3
  <2>2. Min(S) \in S /\ \A m \in S : Min(S) <= m
    BY <2>1, LeastOfNumbers
  <2>3. WindowEnd(all, s) = Min(S)
    BY DEF WindowEnd
  <2>4. \A m : m \in S <=> m = Len(all) \/ (m \in DOMAIN log /\ IsEnd(log[m]) /\ log[m].of = log[s].of)
    <3>1. \A m : m \in S <=> m = Len(all) \/ (m \in Ends(all) /\ all[m].of = all[s].of)
      OBVIOUS
    <3>2. \A m : m \in Ends(all) <=> m \in DOMAIN log /\ IsEnd(log[m])
      BY <1>2
    <3>3. all[s] = log[s]
      BY <1>1, <1>4
    <3> HIDE DEF S
    <3> QED BY <1>1, <3>1, <3>2, <3>3
  <2> HIDE DEF S
  <2>5. i <= Min(S) <=> \A m \in S : i <= m
    <3>1. PICK least \in Nat : least = Min(S)
      BY <2>1, <2>2
    <3>2. least \in S /\ \A m \in S : m \in Nat /\ least <= m
      BY <2>1, <2>2, <3>1
    <3>3. i <= least <=> \A m \in S : i <= m
      BY <1>3, <3>2
    <3> QED BY <3>1, <3>3
  <2> QED BY <1>3, <2>3, <2>4, <2>5
<1> QED BY <1>2, <1>4 DEF InWindow

LEMMA AttributeIs ==
  ASSUME NEW log, NEW notes, NEW all, AsPersisted(log, notes, all), NEW i \in DOMAIN log, Placed(log, i)
  PROVE  attribute(all, i) = log[i].during
<1> DEFINE around == {w \in buildActionWindows(all) : w.start <= i /\ i <= w.end}
<1>1. attribute(all, i) = IF around = {} THEN 0 ELSE (CHOOSE w \in around : TRUE).action
  BY DEF attribute
<1>2. \A s \in DOMAIN log : all[s] = log[s]
  BY PersistedParts
<1>3. \A w \in around : w.action = log[i].during
  <2> SUFFICES ASSUME NEW w \in around PROVE w.action = log[i].during
    OBVIOUS
  <2>1. PICK s \in Starts(all) : w = [action |-> all[s].of, start |-> s, end |-> WindowEnd(all, s)]
    BY DEF buildActionWindows, WindowEnd
  <2>2. s <= i /\ i <= WindowEnd(all, s) /\ w.action = all[s].of
    BY <2>1
  <2>3. s \in DOMAIN log /\ InWindow(log, s, i)
    BY <2>2, WindowAround
  <2> QED BY <1>2, <2>2, <2>3 DEF Placed
<1>4. log[i].during # 0 => around # {}
  <2> SUFFICES ASSUME log[i].during # 0 PROVE around # {}
    OBVIOUS
  <2>1. PICK s \in DOMAIN log : InWindow(log, s, i)
    BY DEF Placed
  <2>2. s \in Starts(all) /\ s <= i /\ i <= WindowEnd(all, s)
    BY <2>1, WindowAround
  <2> DEFINE w == [action |-> all[s].of, start |-> s, end |-> WindowEnd(all, s)]
  <2>3. w \in buildActionWindows(all) /\ w.start = s /\ w.end = WindowEnd(all, s)
    BY <2>2 DEF buildActionWindows, WindowEnd
  <2> QED BY <2>2, <2>3
<1> HIDE DEF around
<1>5. CASE around = {}
  BY <1>1, <1>4, <1>5
<1>6. CASE around # {}
  <2>1. (CHOOSE w \in around : TRUE) \in around
    BY <1>6
  <2> QED BY <1>1, <1>3, <1>6, <2>1
<1> QED BY <1>5, <1>6

\* An event of the network goes by the request it belongs to, of which there is one.
LEMMA RequestIs ==
  ASSUME NEW log, NEW notes, NEW all, AsPersisted(log, notes, all), NEW requests, NEW seen,
         RequestsOK(log, requests, seen), NEW i \in DOMAIN log, log[i].cat = "networkMetadata"
  PROVE  \E r \in DOMAIN log :
           RequestOf(all, i) = {r} /\ IsRequest(log[r]) /\ log[r].during = log[i].during
<1>1. Evidence(all) = DOMAIN log /\ log \in Seq(EventRec) /\ \A j \in DOMAIN log : all[j] = log[j]
  <2>1. log \in Seq(EventRec)
    BY DEF AsPersisted
  <2> QED BY <2>1, PersistedParts
<1>2. RequestOf(all, i) = {r \in DOMAIN log : IsRequest(log[r]) /\ log[r].of = log[i].of /\ r <= i}
  BY <1>1 DEF RequestOf, OfCategory, IsRequest
<1>3. PICK r \in DOMAIN log : /\ IsRequest(log[r]) /\ r <= i /\ log[r].of = log[i].of
                              /\ log[r].during = log[i].during
  <2>1. CASE IsRequest(log[i])
    <3>1. i <= i
      BY <1>1
    <3> QED BY <2>1, <3>1
  <2>2. CASE IsOutcome(log[i])
    BY <2>2 DEF RequestsOK, Answers
  <2> QED BY <2>1, <2>2 DEF IsRequest, IsOutcome
<1>4. \A j \in RequestOf(all, i) : j = r
  BY <1>2, <1>3 DEF RequestsOK
<1>5. RequestOf(all, i) = {r}
  BY <1>2, <1>3, <1>4
<1> QED BY <1>3, <1>5

-----------------------------------------------------------------------------
(* What is sealed.                                                         *)

LEMMA SealedIs ==
  ASSUME IInv, Sealed
  PROVE  /\ SealedOK
         /\ \E log : AsPersisted(log, col.notes, raw) /\ LogOK(log, col.requests, col.seen, 0, Reached)
         /\ sealed = runPlane(raw, <<>>, int.infra, int.automation, int.results, flow.required)
<1>1. SealedOK /\ int.manifest
  BY DEF IInv, Sealed
<1>2. PICK log \in Seq(EventRec) : raw = log \o col.notes /\ LogOK(log, col.requests, col.seen, 0, Reached)
  BY <1>1 DEF SealedOK
<1>3. AsPersisted(log, col.notes, raw)
  <2>1. col.notes \in Seq(EventRec) /\ NotesOK(col.notes)
    BY <1>1, CollectorFields DEF SealedOK
  <2> QED BY <1>2, <2>1 DEF AsPersisted, LogOK
<1>4. sealed = runPlane(raw, col.notes, int.infra, int.automation, int.results, flow.required)
  BY <1>1 DEF SealedOK
<1>5. buildCaptureStatus(raw, col.notes) = buildCaptureStatus(raw, <<>>)
  BY <1>3, CaptureWithoutMemory
<1>6. runPlane(raw, col.notes, int.infra, int.automation, int.results, flow.required)
        = runPlane(raw, <<>>, int.infra, int.automation, int.results, flow.required)
  BY <1>5 DEF runPlane
<1> QED BY <1>1, <1>2, <1>3, <1>4, <1>6

LEMMA OutcomeIs ==
  ASSUME IInv, Sealed
  PROVE  sealed.outcome = decideOutcome(int.infra, int.automation, int.results,
                            requiredEvidenceUsable(buildCaptureStatus(raw, <<>>), flow.required))
BY SealedIs DEF runPlane

\* The sealed record is what a rebuild from the persisted log alone comes to,
\* for any ceiling and whatever the page did (runPlane in plane.ts, over the
\* log that flushNotesToLog completes).
THEOREM RebuildIsFaithful == Spec => []LiveEqualsRebuild
<1>1. IInv => LiveEqualsRebuild
  BY SealedIs DEF LiveEqualsRebuild
<1> QED BY <1>1, RunInvariant, PTL

\* A run is blamed on its environment only if no page was ever reached
\* (executeStep in action-interpreter.ts, decideOutcome in outcome.ts).
THEOREM BlameNeedsNoTarget == Spec => []InfraOnlyBeforeNavigation
<1>1. IInv => InfraOnlyBeforeNavigation
  <2> SUFFICES ASSUME IInv, sealed.outcome = "INFRASTRUCTURE_FAILED" PROVE ~int.navigated
    BY DEF InfraOnlyBeforeNavigation
  <2>1. InterpreterOK
    BY DEF IInv
  <2>2. CASE ~At("sealed")
    <3>1. sealed.outcome = "none"
      BY <2>2 DEF IInv, Unsealed
    <3> QED BY <3>1
  <2>3. CASE At("sealed") /\ ~int.manifest
    BY <2>1, <2>3 DEF InterpreterOK
  <2>4. CASE Sealed
    <3>1. int.infra # FALSE
      BY <2>4, OutcomeIs DEF decideOutcome
    <3> QED BY <2>1, <3>1 DEF InterpreterOK
  <2> QED BY <2>2, <2>3, <2>4 DEF Sealed
<1> QED BY <1>1, RunInvariant, PTL

\* Every event of a sealed run is attributed to the action it came about in,
\* and what comes of a request to the action that the request began in
\* (buildActionWindows and buildTimeline in timeline.ts).
THEOREM EventsGoToTheirAction == Spec => []AttributedToItsAction
<1>1. ASSUME IInv PROVE AttributedToItsAction
  <2> SUFFICES ASSUME Sealed, NEW i \in Evidence(raw)
               PROVE  sealed.actions[i] = raw[i].during
    BY DEF AttributedToItsAction
  <2>1. PICK log : AsPersisted(log, col.notes, raw) /\ LogOK(log, col.requests, col.seen, 0, Reached)
    BY <1>1, SealedIs
  <2>2. i \in DOMAIN log /\ Evidence(raw) = DOMAIN log /\ \A j \in DOMAIN log : raw[j] = log[j]
    BY <2>1, PersistedParts
  <2>3. /\ RequestsOK(log, col.requests, col.seen)
        /\ \A j \in DOMAIN log : ~IsOutcome(log[j]) => attribute(raw, j) = log[j].during
    BY <2>1, AttributeIs DEF LogOK, WindowsOK
  <2>4. sealed.actions[i] = IF raw[i].cat = "networkMetadata" /\ RequestOf(raw, i) # {}
                            THEN attribute(raw, CHOOSE r \in RequestOf(raw, i) : TRUE)
                            ELSE attribute(raw, i)
    <3>1. sealed.actions = buildTimeline(raw)
      BY <1>1, SealedIs DEF runPlane
    <3> QED BY <3>1 DEF buildTimeline
  <2>5. CASE raw[i].cat = "networkMetadata"
    <3>1. PICK r \in DOMAIN log : RequestOf(raw, i) = {r} /\ IsRequest(log[r]) /\ log[r].during = log[i].during
      BY <2>1, <2>2, <2>3, <2>5, RequestIs
    <3>2. (CHOOSE q \in RequestOf(raw, i) : TRUE) = r
      BY <3>1
    <3>3. ~IsOutcome(log[r])
      BY <3>1 DEF IsRequest, IsOutcome
    <3> QED BY <2>2, <2>3, <2>4, <2>5, <3>1, <3>2, <3>3
  <2>6. CASE raw[i].cat # "networkMetadata"
    BY <2>2, <2>3, <2>4, <2>6 DEF IsOutcome
  <2> QED BY <2>5, <2>6
<1> QED BY <1>1, RunInvariant, PTL

\* The notes of a sealed run say how much the ceiling dropped, and that a page
\* was closed (push and flushNotesToLog in collector.ts).
THEOREM LossIsSaid == Spec => []LossIsRecorded
<1>1. ASSUME IInv PROVE LossIsRecorded
  <2> SUFFICES ASSUME Sealed
               PROVE  /\ col.dropped > 0 => CountIn(raw, "console", "DROPPED_BACKPRESSURE") = col.dropped
                      /\ col.detached => CountIn(raw, "domSnapshots", "TARGET_DETACHED") > 0
    BY DEF LossIsRecorded
  <2>1. SealedOK /\ \E log : AsPersisted(log, col.notes, raw)
    BY <1>1, SealedIs
  <2>2. PICK log : AsPersisted(log, col.notes, raw)
    BY <2>1
  <2>3. \A k \in DOMAIN col.notes : CountIn(raw, col.notes[k].cat, col.notes[k].what) = col.notes[k].of
    BY <2>2, Counted DEF Says
  <2>4. \A k \in DOMAIN col.notes : col.notes[k].of \in Nat /\ col.notes[k].of # 0
    BY <2>2, EntryType DEF AsPersisted, NotesOK
  <2>5. col.dropped > 0 => CountIn(raw, "console", "DROPPED_BACKPRESSURE") = col.dropped
    BY <2>1, <2>3 DEF SealedOK
  <2>6. ASSUME col.detached PROVE CountIn(raw, "domSnapshots", "TARGET_DETACHED") > 0
    <3>1. PICK k \in DOMAIN col.notes : col.notes[k].cat = "domSnapshots" /\ col.notes[k].what = "TARGET_DETACHED"
      BY <2>1, <2>6 DEF SealedOK
    <3>2. CountIn(raw, "domSnapshots", "TARGET_DETACHED") = col.notes[k].of
      BY <2>3, <3>1
    <3> QED BY <2>4, <3>2
  <2> QED BY <2>5, <2>6
<1> QED BY <1>1, RunInvariant, PTL

\* A category whose events were all lost, and none of whose reasons excuses
\* it, is missing.
LEMMA AllLostIsMissing ==
  ASSUME NEW log, NEW notes, NEW all, AsPersisted(log, notes, all), NEW cat, NEW k \in DOMAIN notes,
         notes[k].cat = cat, notes[k].what \in Losses, OfCategory(all, cat) = {},
         \A j \in DOMAIN notes : ~Says(notes[j], cat, "POLICY_REDACTED")
  PROVE  buildCaptureStatus(all, <<>>)[cat].status = "missing"
<1>1. /\ NoteMade(cat, notes[k].what) /\ notes[k].of \in Nat /\ notes[k].of # 0
  BY EntryType DEF AsPersisted, NotesOK
<1>2. /\ cat \in Category /\ notes[k].what \in Code
      /\ cat \in {"domSnapshots", "storage", "console"} \/ (cat = "responseBodies" /\ CaptureBodies)
  BY <1>1 DEF NoteMade
<1>3. \A j \in DOMAIN notes : /\ ~Says(notes[j], cat, "COLLECTOR_UNSUPPORTED")
                              /\ ~Says(notes[j], cat, "CONFIG_OFF")
                              /\ ~Says(notes[j], cat, "PERSISTED_UNREDACTED")
  <2>1. \A j \in DOMAIN notes : NoteMade(notes[j].cat, notes[j].what)
    BY DEF AsPersisted, NotesOK
  <2> QED BY <1>2, <2>1 DEF NoteMade, Says
<1>4. \A code : Noted(all, <<>>, cat, code) = CountIn(all, cat, code) + 0
  BY NothingFromMemory DEF Noted
<1>5. /\ CountIn(all, cat, "COLLECTOR_UNSUPPORTED") = 0 /\ CountIn(all, cat, "CONFIG_OFF") = 0
      /\ CountIn(all, cat, "POLICY_REDACTED") = 0 /\ CountIn(all, cat, "PERSISTED_UNREDACTED") = 0
      /\ CountIn(all, cat, notes[k].what) = notes[k].of
  BY <1>3, Counted DEF Says
<1>6. \A code : ReasonCount(all, <<>>, cat, code) = CountIn(all, cat, code) + 0 + 0 + 0
  <2>1. \A code : {i \in OfCategory(all, "responseBodies") : cat = "responseBodies" /\ all[i].what = code} = {}
    OBVIOUS
  <2>2. Cardinality({}) = 0
    BY FS_EmptySet
  <2>3. \A code : <<cat, code>> # <<"actions", "RUN_INTERRUPTED">>
    BY <1>2
  <2> QED BY <1>4, <2>1, <2>2, <2>3 DEF ReasonCount
<1>7. Collected(all, <<>>, cat) = 0
  <2>1. Cardinality(OfCategory(all, cat)) = 0
    BY FS_EmptySet
  <2>2. Noted(all, <<>>, cat, "PERSISTED_UNREDACTED") = 0
    BY <1>4, <1>5
  <2> QED BY <2>1, <2>2 DEF Collected
<1>8. /\ {"COLLECTOR_UNSUPPORTED", "CONFIG_OFF", "POLICY_REDACTED"} \cap Reasons(all, <<>>, cat) = {}
      /\ notes[k].what \in Reasons(all, <<>>, cat)
  <2>1. notes[k].what \in Said(all, <<>>, cat)
    BY PersistedParts DEF Said
  <2>2. \A code \in {"COLLECTOR_UNSUPPORTED", "CONFIG_OFF", "POLICY_REDACTED"} :
          ~(ReasonCount(all, <<>>, cat, code) > 0)
    BY <1>5, <1>6
  <2>3. ReasonCount(all, <<>>, cat, notes[k].what) > 0
    BY <1>1, <1>5, <1>6
  <2> QED BY <1>2, <2>1, <2>2, <2>3 DEF Reasons
<1>9. deriveStatus(Reasons(all, <<>>, cat), 0, Expected(all, cat)) = "missing"
  BY <1>8 DEF deriveStatus, LossCodes, Losses
<1> QED BY <1>2, <1>7, <1>9, CaptureIs

\* A script that broke finds nothing about the product, and a run that ended
\* green evaluated something, found nothing, and has no required category of
\* which everything was lost (decideOutcome in outcome.ts over deriveStatus in
\* capture-status.ts).
THEOREM GreenIsProved == Spec => []OnlyProofIsGreen
<1>1. ASSUME IInv PROVE OnlyProofIsGreen
  <2> SUFFICES ASSUME Sealed
               PROVE  OnlyProofIsGreen
    BY DEF OnlyProofIsGreen
  <2> DEFINE capture == buildCaptureStatus(raw, <<>>)
             usable  == requiredEvidenceUsable(capture, flow.required)
  <2>1. sealed.outcome = decideOutcome(int.infra, int.automation, int.results, usable)
    BY <1>1, OutcomeIs
  <2>2. int.failedAt # 0 => sealed.outcome \notin {"PRODUCT_FAILED", "VALID_COMPLETED"}
    BY <1>1, <2>1 DEF IInv, InterpreterOK, decideOutcome
  <2>3. ASSUME sealed.outcome = "VALID_COMPLETED"
        PROVE  /\ usable /\ \E i \in DOMAIN int.results : int.results[i].result # "not-evaluated"
               /\ ~Failing(int.results)
    BY <2>1, <2>3 DEF decideOutcome
  <2>4. ASSUME sealed.outcome = "VALID_COMPLETED"
        PROVE  (\E o \in Results : o.result # "not-evaluated") /\ ~\E o \in Results : o.result = "fail"
    BY <2>3, <2>4 DEF Results, Range, Failing
  <2>5. ASSUME sealed.outcome = "VALID_COMPLETED", NEW cat \in flow.required,
               NEW i \in Notes(raw), raw[i].cat = cat, raw[i].what \in Losses, OfCategory(raw, cat) = {}
        PROVE  \E j \in Notes(raw) : raw[j].cat = cat /\ raw[j].what = "POLICY_REDACTED"
    <3>1. PICK log : AsPersisted(log, col.notes, raw)
      BY <1>1, SealedIs
    <3>2. PICK k \in DOMAIN col.notes : raw[i] = col.notes[k]
      BY <3>1, PersistedParts
    <3>3. capture[cat].status # "missing"
      BY <2>3, <2>5 DEF requiredEvidenceUsable
    <3>4. ~\A j \in DOMAIN col.notes : ~Says(col.notes[j], cat, "POLICY_REDACTED")
      BY <2>5, <3>1, <3>2, <3>3, AllLostIsMissing
    <3> QED BY <3>1, <3>4, PersistedParts DEF Says
  <2> HIDE DEF usable
  <2> QED BY <2>2, <2>4, <2>5 DEF OnlyProofIsGreen, Losses
<1> QED BY <1>1, RunInvariant, PTL

-----------------------------------------------------------------------------
(* Places, and what is selected of a sequence.                             *)

\* The places of a finite set of numbers are its elements, each once and in order.
LEMMA Places ==
  ASSUME NEW K \in SUBSET Nat, IsFiniteSet(K)
  PROVE  /\ Cardinality(K) \in Nat
         /\ \A n \in 1 .. Cardinality(K) : Place(K, n) \in K
         /\ \A m, n \in 1 .. Cardinality(K) : m < n => Place(K, m) < Place(K, n)
         /\ \A k \in K : \E n \in 1 .. Cardinality(K) : Place(K, n) = k
<1> DEFINE Below(k) == {x \in K : x <= k}
           rank == [k \in K |-> Cardinality(Below(k))]
           N == 1 .. Cardinality(K)
<1>1. Cardinality(K) \in Nat /\ IsFiniteSet(N) /\ Cardinality(N) = Cardinality(K)
  <2>1. Cardinality(K) \in Nat
    BY FS_CardinalityType
  <2> QED BY <2>1, FS_Interval
<1>2. \A k \in K : IsFiniteSet(Below(k)) /\ Cardinality(Below(k)) \in N
  <2> TAKE k \in K
  <2>1. IsFiniteSet(Below(k)) /\ Cardinality(Below(k)) <= Cardinality(K)
    BY FS_Subset
  <2>2. Cardinality(Below(k)) \in Nat /\ Cardinality(Below(k)) # 0
    <3>1. k \in Below(k)
      OBVIOUS
    <3> HIDE DEF Below
    <3> QED BY <2>1, <3>1, FS_CardinalityType, FS_EmptySet
  <2> HIDE DEF Below
  <2> QED BY <1>1, <2>1, <2>2
<1>3. \A k, l \in K : k < l => Cardinality(Below(k)) < Cardinality(Below(l))
  <2> SUFFICES ASSUME NEW k \in K, NEW l \in K, k < l PROVE Cardinality(Below(k)) < Cardinality(Below(l))
    OBVIOUS
  <2>1. Below(k) \in SUBSET Below(l) /\ Below(k) # Below(l)
    <3>1. k \in Nat /\ l \in Nat /\ \A x \in K : x \in Nat
      OBVIOUS
    <3>2. \A x \in Below(k) : x \in Below(l)
      BY <3>1
    <3>3. l \in Below(l) /\ l \notin Below(k)
      BY <3>1
    <3> QED BY <3>2, <3>3
  <2>2. Cardinality(Below(k)) <= Cardinality(Below(l)) /\ Cardinality(Below(k)) # Cardinality(Below(l))
    <3> HIDE DEF Below
    <3> QED BY <1>2, <2>1, FS_Subset
  <2> HIDE DEF Below
  <2> QED BY <1>1, <1>2, <2>2 DEF N
<1>4. rank \in [K -> N] /\ \A k \in K : rank[k] = Cardinality(Below(k))
  BY <1>2
<1> HIDE DEF rank, N
<1>5. \A k, l \in K : rank[k] = rank[l] => k = l
  <2> SUFFICES ASSUME NEW k \in K, NEW l \in K, k # l PROVE rank[k] # rank[l]
    OBVIOUS
  <2>1. rank[k] \in Nat /\ rank[l] \in Nat
    BY <1>1, <1>4 DEF N
  <2>2. k < l \/ l < k
    OBVIOUS
  <2>3. rank[k] < rank[l] \/ rank[l] < rank[k]
    BY <1>3, <1>4, <2>2
  <2> QED BY <2>1, <2>3
<1>6. rank \in Surjection(K, N)
  <2>1. rank \in Injection(K, N)
    BY <1>4, <1>5 DEF Injection, IsInjective
  <2> QED BY <1>1, <2>1, FS_Injection
<1>7. \A n \in N : \E k \in K : Cardinality(Below(k)) = n
  BY <1>4, <1>6 DEF Surjection
<1>8. \A n \in N : Place(K, n) \in K /\ Cardinality(Below(Place(K, n))) = n
  BY <1>7 DEF Place
<1> HIDE DEF Below
<1>9. \A m, n \in N : m < n => Place(K, m) < Place(K, n)
  <2> SUFFICES ASSUME NEW m \in N, NEW n \in N, m < n PROVE Place(K, m) < Place(K, n)
    OBVIOUS
  <2>1. /\ m \in Nat /\ n \in Nat /\ Place(K, m) \in K /\ Place(K, n) \in K
        /\ Place(K, m) \in Nat /\ Place(K, n) \in Nat
    <3>1. m \in Nat /\ n \in Nat
      BY <1>1 DEF N
    <3>2. Place(K, m) \in K /\ Place(K, n) \in K
      BY <1>8
    <3> QED BY <3>1, <3>2
  <2>2. Place(K, m) # Place(K, n)
    BY <1>8, <2>1
  <2>3. ~(Place(K, n) < Place(K, m))
    BY <1>3, <1>8, <2>1
  <2> QED BY <2>1, <2>2, <2>3
<1>10. \A k \in K : \E n \in N : Place(K, n) = k
  <2> TAKE k \in K
  <2>1. rank[k] \in N
    BY <1>4
  <2>2. Place(K, rank[k]) \in K /\ rank[Place(K, rank[k])] = rank[k]
    BY <1>4, <1>8, <2>1
  <2> QED BY <1>5, <2>1, <2>2
<1> QED BY <1>1, <1>8, <1>9, <1>10 DEF N

\* What is selected of a sequence is a sequence, of what the sequence has at the places.
LEMMA SelectedIs ==
  ASSUME NEW s, NEW L \in Nat, DOMAIN s = 1 .. L, NEW K \in SUBSET DOMAIN s
  PROVE  /\ IsFiniteSet(K) /\ K \in SUBSET Nat /\ Cardinality(K) \in Nat
         /\ DOMAIN Selected(s, K) = 1 .. Cardinality(K) /\ Len(Selected(s, K)) = Cardinality(K)
         /\ \A n \in 1 .. Cardinality(K) :
              /\ Place(K, n) \in K /\ Place(K, n) \in DOMAIN s
              /\ Selected(s, K)[n] = s[Place(K, n)]
         /\ \A k \in K : \E n \in DOMAIN Selected(s, K) : Selected(s, K)[n] = s[k]
         /\ \A n \in DOMAIN Selected(s, K) : \E k \in K : Selected(s, K)[n] = s[k]
<1>1. IsFiniteSet(K) /\ K \in SUBSET Nat
  BY FS_Interval, FS_Subset
<1>2. /\ Cardinality(K) \in Nat
      /\ \A n \in 1 .. Cardinality(K) : Place(K, n) \in K
      /\ \A k \in K : \E n \in 1 .. Cardinality(K) : Place(K, n) = k
  BY <1>1, Places
<1>3. Selected(s, K) = [n \in 1 .. Cardinality(K) |-> s[Place(K, n)]]
  BY DEF Selected
<1>4. DOMAIN Selected(s, K) = 1 .. Cardinality(K) /\ Len(Selected(s, K)) = Cardinality(K)
  BY <1>2, <1>3
<1> QED BY <1>1, <1>2, <1>3, <1>4

\* All places leave the sequence as it is.
LEMMA WholeIsKept ==
  ASSUME NEW s, NEW L \in Nat, s = [i \in 1 .. L |-> s[i]]
  PROVE  Selected(s, DOMAIN s) = s
<1>1. DOMAIN s = 1 .. L /\ Cardinality(1 .. L) = L /\ IsFiniteSet(1 .. L) /\ (1 .. L) \in SUBSET Nat
  BY FS_Interval
<1>2. \A n \in 1 .. L : Place(1 .. L, n) \in 1 .. L /\ Cardinality({x \in 1 .. L : x <= Place(1 .. L, n)}) = n
  <2> TAKE n \in 1 .. L
  <2>1. {x \in 1 .. L : x <= n} = 1 .. n
    OBVIOUS
  <2>2. Cardinality(1 .. n) = n
    BY FS_Interval
  <2> QED BY <2>1, <2>2 DEF Place
<1>3. \A n \in 1 .. L : Place(1 .. L, n) = n
  <2> TAKE n \in 1 .. L
  <2> DEFINE p == Place(1 .. L, n)
  <2>1. p \in 1 .. L /\ Cardinality({x \in 1 .. L : x <= p}) = n
    BY <1>2
  <2> HIDE DEF p
  <2>2. {x \in 1 .. L : x <= p} = 1 .. p
    BY <2>1
  <2>3. Cardinality(1 .. p) = p
    BY <2>1, FS_Interval
  <2> QED BY <2>1, <2>2, <2>3 DEF p
<1>4. Selected(s, DOMAIN s) = [n \in 1 .. L |-> s[Place(1 .. L, n)]]
  BY <1>1 DEF Selected
<1> QED BY <1>3, <1>4

-----------------------------------------------------------------------------
(* The optional screens.                                                   *)

\* What is recorded is a list, and so are the steps of it, none of them empty.
LEMMA RecordingIsList == Spec => [](recording \in Seq(Alphabet))
<1>1. Init => recording \in Seq(Alphabet)
  BY DEF Init
<1>2. recording \in Seq(Alphabet) /\ [Next]_vars => (recording \in Seq(Alphabet))'
  <2> SUFFICES ASSUME recording \in Seq(Alphabet), [Next]_vars PROVE recording' \in Seq(Alphabet)
    OBVIOUS
  <2>1. recording' = recording \/ \E s \in Alphabet : recording' = Append(recording, s)
    BY DEF Next, vars, Record, EnqueueAuthored, EnqueuePlanned
  <2> QED BY <2>1
<1> QED BY <1>1, <1>2, PTL DEF Spec

\* The steps of a recording are a list, and each has a statement.
LEMMA StepsAre ==
  ASSUME recording \in Seq(Alphabet)
  PROVE  /\ Len(Steps) \in Nat /\ DOMAIN Steps = 1 .. Len(Steps)
         /\ \A i \in DOMAIN Steps : Steps[i].chain # <<>>
<1> DEFINE K == {i \in DOMAIN recording : recording[i].chain # <<>>}
<1>1. Len(recording) \in Nat /\ DOMAIN recording = 1 .. Len(recording) /\ K \in SUBSET DOMAIN recording
  OBVIOUS
<1>2. Steps = Selected(recording, K)
  BY DEF Steps, extractAuthoredSteps
<1>3. \A k \in K : recording[k].chain # <<>>
  OBVIOUS
<1> HIDE DEF K
<1> QED BY <1>1, <1>2, <1>3, SelectedIs

\* A block ends in an action, and has nothing but actions and screenshots.
BlockOK(steps, b) ==
  /\ b.start \in Nat /\ b.end \in Nat /\ b.end \in DOMAIN steps /\ isInteraction(steps[b.end])
  /\ \A i \in b.start .. b.end : isInteraction(steps[i]) \/ isScreenshot(steps[i])

\* Every block that a declaration may have is one.
LEMMA BlocksFromAre ==
  ASSUME NEW steps, Len(steps) \in Nat, DOMAIN steps = 1 .. Len(steps), NEW screen, NEW from \in Nat \ {0}
  PROVE  /\ IsFiniteSet(BlocksFrom(steps, screen, from))
         /\ \A b \in BlocksFrom(steps, screen, from) : BlockOK(steps, b)
<1> DEFINE S == {i \in from .. Len(steps) : isInteraction(steps[i]) /\ Mentions(steps[i], screen.trigger)}
           E == from .. Len(steps)
           B == [start : S, end : E, trigger : {screen.trigger}]
<1>1. BlocksFrom(steps, screen, from) \in SUBSET B
  BY DEF BlocksFrom
<1>2. IsFiniteSet(B)
  <2>1. IsFiniteSet(E) /\ S \in SUBSET E
    BY FS_Interval
  <2> HIDE DEF S, E
  <2>2. IsFiniteSet(S \X E)
    BY <2>1, FS_Subset, FS_Product
  <2> DEFINE T == {[start |-> p[1], end |-> p[2], trigger |-> screen.trigger] : p \in S \X E}
  <2>3. IsFiniteSet(T)
    <3> DEFINE f == [p \in S \X E |-> [start |-> p[1], end |-> p[2], trigger |-> screen.trigger]]
    <3>1. f \in Surjection(S \X E, T)
      BY DEF Surjection
    <3> HIDE DEF f, T
    <3> QED BY <2>2, <3>1, FS_Surjection
  <2>4. B \subseteq T
    <3> SUFFICES ASSUME NEW b \in B PROVE b \in T
      OBVIOUS
    <3>1. <<b.start, b.end>> \in S \X E /\ b = [start |-> b.start, end |-> b.end, trigger |-> screen.trigger]
      OBVIOUS
    <3> QED BY <3>1
  <2> HIDE DEF T, B
  <2> QED BY <2>3, <2>4, FS_Subset
<1>3. IsFiniteSet(BlocksFrom(steps, screen, from))
  BY <1>1, <1>2, FS_Subset
<1>4. ASSUME NEW b \in BlocksFrom(steps, screen, from) PROVE BlockOK(steps, b)
  <2>1. b.start \in S /\ b.end \in E
    BY <1>1, <1>4
  <2>2. b.start \in Nat /\ b.end \in Nat /\ b.end \in DOMAIN steps
    BY <2>1
  <2>3. /\ isInteraction(steps[b.end])
        /\ \A i \in b.start .. b.end : isInteraction(steps[i]) \/ isScreenshot(steps[i])
    BY <1>4 DEF BlocksFrom
  <2> QED BY <2>2, <2>3 DEF BlockOK
<1> QED BY <1>3, <1>4

\* Where the next block may begin, and the blocks taken of one declaration after another.
Begin(blocks) == IF blocks = <<>> THEN 1 ELSE Last(blocks).end + 1

Taken(steps, screens, n, f) ==
  f = [d \in 0 .. n |->
         IF d = 0 THEN <<>> ELSE f[d - 1] \o SetToSeq(BlocksFrom(steps, screens[d], Begin(f[d - 1])))]

\* The declarations are read one after the other.
LEMMA TakenExists ==
  ASSUME NEW steps, NEW screens, NEW N \in Nat
  PROVE  \E f : Taken(steps, screens, N, f)
<1> DEFINE More(d, blocks) == blocks \o SetToSeq(BlocksFrom(steps, screens[d], Begin(blocks)))
           Levels(f, n) == f = [d \in 0 .. n |-> IF d = 0 THEN <<>> ELSE More(d, f[d - 1])]
           Bad == { n \in Nat : ~ \E f : Levels(f, n) }
<1> SUFFICES ASSUME N \in Bad PROVE FALSE
  BY DEF Taken
<1>1. PICK m \in Bad : \A y \in Bad : ~(<<y, m>> \in OpToRel(<, Nat))
  <2>1. Bad \subseteq Nat /\ Bad # {}
    OBVIOUS
  <2> HIDE DEF Bad
  <2> QED BY <2>1, NatLessThanWellFounded, WFMin
<1> HIDE DEF More
<1>2. m \in Nat /\ (\A f : ~Levels(f, m)) /\ \A y \in Bad : ~(y < m)
  BY <1>1 DEF OpToRel
<1>3. m # 0
  <2>1. Levels([d \in 0 .. 0 |-> <<>>], 0)
    OBVIOUS
  <2> QED BY <2>1, <1>2
<1>4. m - 1 \in Nat /\ m - 1 \notin Bad
  <2>1. m - 1 \in Nat /\ m - 1 < m
    BY <1>2, <1>3
  <2> HIDE DEF Bad
  <2> QED BY <1>2, <2>1
<1>5. PICK g : Levels(g, m - 1)
  BY <1>4
<1> DEFINE h == [d \in 0 .. m |-> IF d = m THEN More(m, g[m - 1]) ELSE g[d]]
<1>6. \A d \in 0 .. m - 1 : g[d] = IF d = 0 THEN <<>> ELSE More(d, g[d - 1])
  BY <1>5
<1>7. ASSUME NEW d \in 0 .. m
      PROVE  h[d] = IF d = 0 THEN <<>> ELSE More(d, h[d - 1])
  <2>1. CASE d = m
    <3>1. h[d - 1] = g[m - 1]
      BY <2>1, <1>2, <1>3
    <3> QED BY <3>1, <2>1, <1>3
  <2>2. CASE d # m
    <3>1. d \in 0 .. m - 1 /\ h[d] = g[d]
      BY <2>2, <1>2
    <3>2. d # 0 => h[d - 1] = g[d - 1]
      BY <3>1, <1>2
    <3> QED BY <3>1, <3>2, <1>6
  <2> QED BY <2>1, <2>2
<1>8. Levels(h, m)
  <2>1. h = [d \in 0 .. m |-> h[d]]
    OBVIOUS
  <2> HIDE DEF h
  <2> QED BY <1>7, <2>1
<1> QED BY <1>2, <1>8

\* Every block of a plan is one.
LEMMA PlanIs ==
  ASSUME NEW steps, Len(steps) \in Nat, DOMAIN steps = 1 .. Len(steps), NEW screens, Len(screens) \in Nat,
         NEW k \in DOMAIN planOptionalBlocks(steps, screens)
  PROVE  BlockOK(steps, planOptionalBlocks(steps, screens)[k])
<1> DEFINE N == Len(screens)
           f == CHOOSE g : Taken(steps, screens, N, g)
           Fine(blocks) == /\ Len(blocks) \in Nat /\ DOMAIN blocks = 1 .. Len(blocks)
                           /\ blocks = [i \in 1 .. Len(blocks) |-> blocks[i]]
                           /\ \A i \in DOMAIN blocks : BlockOK(steps, blocks[i])
           More(d, blocks) == blocks \o SetToSeq(BlocksFrom(steps, screens[d], Begin(blocks)))
<1>1. f = [d \in 0 .. N |-> IF d = 0 THEN <<>> ELSE More(d, f[d - 1])]
  <2>1. Taken(steps, screens, N, f)
    <3>1. N \in Nat
      OBVIOUS
    <3> HIDE DEF N
    <3> QED BY <3>1, TakenExists
  <2> HIDE DEF f, N
  <2> QED BY <2>1 DEF Taken
<1>2. planOptionalBlocks(steps, screens) = f[N]
  BY DEF planOptionalBlocks, Taken, Begin
<1> HIDE DEF f, N
<1>3. ASSUME NEW d, NEW blocks, Fine(blocks) PROVE Fine(More(d, blocks))
  <2>1. Begin(blocks) \in Nat \ {0}
    <3>1. CASE blocks = <<>>
      BY <3>1 DEF Begin
    <3>2. CASE blocks # <<>>
      <4>1. Len(blocks) # 0
        BY <1>3, <3>2
      <4>2. Len(blocks) \in DOMAIN blocks
        BY <1>3, <4>1
      <4>3. Last(blocks) = blocks[Len(blocks)]
        BY DEF Last
      <4>4. Last(blocks).end \in Nat
        BY <1>3, <4>2, <4>3 DEF BlockOK
      <4> QED BY <3>2, <4>4 DEF Begin
    <3> QED BY <3>1, <3>2
  <2> DEFINE S == BlocksFrom(steps, screens[d], Begin(blocks))
             s == SetToSeq(S)
  <2>2. IsFiniteSet(S) /\ \A b \in S : BlockOK(steps, b)
    BY <2>1, BlocksFromAre
  <2>3. s \in Seq(S)
    <3> HIDE DEF S
    <3> QED BY <2>2, SetToSeqIs
  <2> HIDE DEF S, s
  <2> DEFINE all == blocks \o s
             T == {blocks[i] : i \in DOMAIN blocks} \cup S
  <2>8. blocks \in Seq(T) /\ s \in Seq(T) /\ Len(blocks) \in Nat
    BY <1>3, <2>3
  <2> HIDE DEF T
  <2>4. /\ all \in Seq(T)
        /\ \A i \in DOMAIN blocks : all[i] = blocks[i]
        /\ \A j \in DOMAIN s : all[Len(blocks) + j] = s[j]
        /\ \A i \in DOMAIN all : i \in DOMAIN blocks \/ \E j \in DOMAIN s : i = Len(blocks) + j
    BY <2>8, ConcatParts
  <2> HIDE DEF all
  <2>5. ASSUME NEW i \in DOMAIN all PROVE BlockOK(steps, all[i])
    <3>1. CASE i \in DOMAIN blocks
      BY <1>3, <2>4, <3>1
    <3>2. CASE \E j \in DOMAIN s : i = Len(blocks) + j
      <4>1. PICK j \in DOMAIN s : i = Len(blocks) + j
        BY <3>2
      <4>2. s[j] \in S
        BY <2>3
      <4> QED BY <2>2, <2>4, <4>1, <4>2
    <3> QED BY <2>4, <3>1, <3>2
  <2>6. Len(all) \in Nat /\ DOMAIN all = 1 .. Len(all) /\ all = [i \in 1 .. Len(all) |-> all[i]]
    BY <2>4
  <2>7. Fine(all)
    BY <2>5, <2>6
  <2> QED BY <2>7 DEF all, s, S
<1>4. Fine(<<>>)
  OBVIOUS
<1> HIDE DEF More, Fine
<1>7. N \in Nat
  BY DEF N
<1>5. \A d \in 0 .. N : Fine(f[d])
  <2> DEFINE Bad == {d \in 0 .. N : ~Fine(f[d])}
  <2> SUFFICES ASSUME Bad # {} PROVE FALSE
    OBVIOUS
  <2>1. PICK m \in Bad : \A y \in Bad : ~(<<y, m>> \in OpToRel(<, Nat))
    <3>1. Bad \subseteq Nat
      BY <1>7
    <3> HIDE DEF Bad
    <3> QED BY <3>1, NatLessThanWellFounded, WFMin
  <2>7. m \in 0 .. N /\ ~Fine(f[m]) /\ \A y \in Bad : y \in Nat
    BY <1>7
  <2>8. \A y \in 0 .. N : y < m => Fine(f[y])
    BY <1>7, <2>1, <2>7 DEF OpToRel
  <2>2. m \in 0 .. N /\ ~Fine(f[m])
    BY <2>7
  <2>3. m # 0
    BY <1>1, <1>4, <2>2
  <2>4. m - 1 \in 0 .. N /\ m - 1 < m
    BY <1>7, <2>2, <2>3
  <2>5. Fine(f[m - 1])
    BY <2>4, <2>8
  <2>6. f[m] = More(m, f[m - 1])
    BY <1>1, <2>2, <2>3
  <2> QED BY <1>3, <2>2, <2>5, <2>6
<1>6. Fine(f[N])
  BY <1>5, <1>7
<1> QED BY <1>2, <1>6 DEF Fine

\* What an optional screen lets a script skip is actions and screenshots, and
\* never the check a script that can measure ends in.
THEOREM OptionalStepsAreFound == Spec => []OptionalStepsAreActions
<1>1. ASSUME recording \in Seq(Alphabet) PROVE OptionalStepsAreActions
  <2> DEFINE screens == readOptionalScreens(Screens)
             blocks  == planOptionalBlocks(Steps, screens)
             spec    == renderAuthoredSpec(Steps, screens)
  <2>1. Len(Steps) \in Nat /\ DOMAIN Steps = 1 .. Len(Steps)
    BY <1>1, StepsAre
  <2>2. Len(screens) \in Nat
    <3> DEFINE K == {k \in DOMAIN Screens : Screens[k].trigger # "" /\ Screens[k].actions > 0}
    <3>1. Len(Screens) \in Nat /\ DOMAIN Screens = 1 .. Len(Screens) /\ K \in SUBSET DOMAIN Screens
      <4>1. Screens \in Seq(Range(Screens))
        BY RecordingAssumption
      <4>2. Len(Screens) \in Nat /\ DOMAIN Screens = 1 .. Len(Screens)
        BY <4>1
      <4> QED BY <4>2
    <3>2. screens = Selected(Screens, K)
      BY DEF readOptionalScreens
    <3> HIDE DEF K
    <3> QED BY <3>1, <3>2, SelectedIs
  <2> SUFFICES ASSUME NEW i \in DOMAIN Steps, spec[i].optional
               PROVE  /\ isInteraction(Steps[i]) \/ isScreenshot(Steps[i])
                      /\ CanMeasure(Steps) => i # Len(Steps)
    BY DEF OptionalStepsAreActions
  <2>3. PICK k \in DOMAIN blocks : i \in blocks[k].start .. blocks[k].end
    BY DEF renderAuthoredSpec
  <2> HIDE DEF screens
  <2>4. BlockOK(Steps, blocks[k])
    BY <2>1, <2>2, PlanIs
  <2> HIDE DEF blocks, spec
  <2>5. isInteraction(Steps[i]) \/ isScreenshot(Steps[i])
    BY <2>3, <2>4 DEF BlockOK
  <2>6. ASSUME CanMeasure(Steps), i = Len(Steps) PROVE FALSE
    <3>1. blocks[k].end = Len(Steps)
      BY <2>1, <2>3, <2>4, <2>6 DEF BlockOK
    <3>2. isInteraction(Steps[Len(Steps)])
      BY <2>4, <3>1 DEF BlockOK
    <3>3. isFailableCheck(Steps[Len(Steps)])
      BY <2>6 DEF CanMeasure, Last
    <3> QED BY <3>2, <3>3 DEF isInteraction, isFailableCheck
  <2> QED BY <2>5, <2>6
<1> QED BY <1>1, RecordingIsList, PTL DEF Spec

-----------------------------------------------------------------------------
(* A locator, there and back.                                              *)

\* One call of a locator, on what is found so far.
Narrow(s, c) ==
  CASE c.call = "nth"    -> Nth(s, c.arg)
    [] c.call = "filter" -> Selected(s, {i \in DOMAIN s :
         /\ "hasText" \in DOMAIN c.opts => c.opts.hasText \in s[i].texts
         /\ "hasNotText" \in DOMAIN c.opts => c.opts.hasNotText \notin s[i].texts})
    [] OTHER -> Selected(s, {i \in DOMAIN s : <<FACTORY_STRATEGY[c.call], c.arg, c.opts>> \in s[i].answers})

Found(chain, page, f) ==
  f = [n \in 0 .. Len(chain) |-> IF n = 0 THEN page ELSE Narrow(f[n - 1], chain[n])]

\* A selector is written as at most three calls.
LEMMA LocateIs ==
  ASSUME NEW chain, Len(chain) \in 1 .. 3, NEW page
  PROVE  Locate(chain, page) =
           IF Len(chain) = 1 THEN Narrow(page, chain[1])
           ELSE IF Len(chain) = 2 THEN Narrow(Narrow(page, chain[1]), chain[2])
           ELSE Narrow(Narrow(Narrow(page, chain[1]), chain[2]), chain[3])
<1> DEFINE N == Len(chain)
           one == Narrow(page, chain[1])
           two == Narrow(one, chain[2])
           h == [n \in 0 .. N |-> IF n = 0 THEN page ELSE IF n = 1 THEN one ELSE IF n = 2 THEN two
                                  ELSE Narrow(two, chain[3])]
           f == CHOOSE g : Found(chain, page, g)
           Link(s, n) == Narrow(s, chain[n])
<1>1. Found(chain, page, h)
  <2>1. N \in {1, 2, 3}
    OBVIOUS
  <2> DEFINE g == [n \in 0 .. N |-> IF n = 0 THEN page ELSE Link(h[n - 1], n)]
  <2>2. ASSUME NEW n \in 0 .. N PROVE h[n] = g[n]
    <3>1. n \in {0, 1, 2, 3}
      <4> HIDE DEF N
      <4> QED BY <2>1
    <3>2. CASE n = 0
      BY <3>2
    <3>3. CASE n = 1
      <4>1. h[0] = page /\ h[1] = Link(page, 1)
        BY <2>1
      <4> HIDE DEF h, Link, one, two
      <4> QED BY <2>1, <3>3, <4>1
    <3>4. CASE n = 2
      <4>1. h[1] = one /\ h[2] = Link(one, 2)
        BY <2>1, <3>4
      <4> HIDE DEF h, Link, one
      <4> QED BY <2>1, <3>4, <4>1
    <3>5. CASE n = 3
      <4>1. h[2] = two /\ h[3] = Link(two, 3)
        BY <2>1, <3>5
      <4> HIDE DEF h, Link, two
      <4> QED BY <2>1, <3>5, <4>1
    <3> QED BY <3>1, <3>2, <3>3, <3>4, <3>5
  <2>3. h = g
    <3>1. h = [n \in 0 .. N |-> h[n]] /\ g = [n \in 0 .. N |-> g[n]]
      OBVIOUS
    <3> HIDE DEF h, g
    <3> QED BY <2>2, <3>1
  <2> HIDE DEF h
  <2> QED BY <2>3 DEF Found
<1>2. Found(chain, page, f)
  <2> HIDE DEF h
  <2> QED BY <1>1
<1>3. Locate(chain, page) = f[N]
  BY DEF Locate, Found, Narrow
<1> HIDE DEF f, h
<1>4. f = [n \in 0 .. N |-> IF n = 0 THEN page ELSE Link(f[n - 1], n)]
  BY <1>2 DEF Found
<1> HIDE DEF Link
<1>5. \A n \in 0 .. N : f[n] = IF n = 0 THEN page ELSE Link(f[n - 1], n)
  BY <1>4
<1>6. N \in {1, 2, 3}
  OBVIOUS
<1> HIDE DEF N
<1>7. /\ f[0] = page /\ f[1] = Link(page, 1)
      /\ N \in {2, 3} => f[2] = Link(Link(page, 1), 2)
      /\ N = 3 => f[3] = Link(Link(Link(page, 1), 2), 3)
  <2>1. f[0] = page /\ f[1] = Link(f[0], 1)
    BY <1>5, <1>6
  <2>2. N \in {2, 3} => f[2] = Link(f[1], 2)
    BY <1>5
  <2>3. N = 3 => f[3] = Link(f[2], 3)
    BY <1>5
  <2> QED BY <2>1, <2>2, <2>3
<1>8. Link(page, 1) = one /\ Link(Link(page, 1), 2) = two /\ Link(Link(Link(page, 1), 2), 3) = Narrow(two, chain[3])
  BY DEF Link
<1> QED BY <1>3, <1>6, <1>7, <1>8 DEF N

\* What a modifier leaves alone.
SameTarget(s, t) == s.strategy = t.strategy /\ s.value = t.value /\ s.opts = t.opts

\* A modifier leaves what the factory asks for as it is.
LEMMA ModifierKeepsTarget ==
  ASSUME NEW s, DOMAIN s = DOMAIN NoSelector, NEW c, NEW t \in applyModifier(s, c)
  PROVE  SameTarget(t, s) /\ DOMAIN t = DOMAIN s
<1>1. DOMAIN s = {"strategy", "value", "opts", "hasText", "hasNotText", "nth"}
  BY DEF NoSelector, Bare
<1>2. CASE \E text, not : t = [s EXCEPT !.hasText = text, !.hasNotText = not]
  BY <1>1, <1>2 DEF SameTarget
<1>3. CASE t = [s EXCEPT !.nth = c.arg]
  BY <1>1, <1>3 DEF SameTarget
<1> QED BY <1>2, <1>3 DEF applyModifier

Read(chain, f) ==
  f = [n \in DOMAIN chain |->
         IF n = 1 THEN selectorFromFactory(chain[1])
         ELSE UNION {applyModifier(s, chain[n]) : s \in f[n - 1]}]

\* A selector asks for what the first call of its chain asks for.
LEMMA SelectorOfIs ==
  ASSUME NEW chain, Len(chain) \in 1 .. 3, DOMAIN chain = 1 .. Len(chain), NEW sel \in SelectorOf(chain)
  PROVE  \E bare \in selectorFromFactory(chain[1]) : SameTarget(sel, bare)
<1> DEFINE N == Len(chain)
           Modified(S, n) == UNION {applyModifier(s, chain[n]) : s \in S}
           one == selectorFromFactory(chain[1])
           two == Modified(one, 2)
           h == [n \in 1 .. N |-> IF n = 1 THEN one ELSE IF n = 2 THEN two ELSE Modified(two, 3)]
           f == CHOOSE g : Read(chain, g)
<1>0. N \in {1, 2, 3}
  OBVIOUS
<1>1. Read(chain, h)
  <2> DEFINE g == [n \in 1 .. N |-> IF n = 1 THEN one ELSE Modified(h[n - 1], n)]
  <2>1. ASSUME NEW n \in 1 .. N PROVE h[n] = g[n]
    <3>1. n \in {1, 2, 3}
      BY <1>0
    <3>2. CASE n = 1
      BY <3>2
    <3>3. CASE n = 2
      <4>1. h[1] = one /\ h[2] = Modified(one, 2)
        BY <1>0, <3>3
      <4> HIDE DEF h, Modified, one, two
      <4> QED BY <1>0, <3>3, <4>1
    <3>4. CASE n = 3
      <4>1. h[2] = two /\ h[3] = Modified(two, 3)
        BY <1>0, <3>4
      <4> HIDE DEF h, Modified, one, two
      <4> QED BY <1>0, <3>4, <4>1
    <3> QED BY <3>1, <3>2, <3>3, <3>4
  <2>2. h = g
    <3>1. h = [n \in 1 .. N |-> h[n]] /\ g = [n \in 1 .. N |-> g[n]]
      OBVIOUS
    <3> HIDE DEF h, g
    <3> QED BY <2>1, <3>1
  <2> HIDE DEF h
  <2> QED BY <2>2 DEF Read
<1>2. Read(chain, f)
  <2> HIDE DEF h
  <2> QED BY <1>1
<1>3. SelectorOf(chain) = f[N]
  BY DEF SelectorOf, Read
<1> HIDE DEF f, h
<1>4. f = [n \in 1 .. N |-> IF n = 1 THEN one ELSE Modified(f[n - 1], n)]
  BY <1>2 DEF Read
<1> DEFINE Kept(S) == \A s \in S : DOMAIN s = DOMAIN NoSelector /\ \E bare \in one : SameTarget(s, bare)
<1>5. Kept(one)
  BY DEF selectorFromFactory, Bare, NoSelector, SameTarget
<1>6. ASSUME NEW S, Kept(S), NEW n PROVE Kept(Modified(S, n))
  <2> SUFFICES ASSUME NEW t \in Modified(S, n)
               PROVE  DOMAIN t = DOMAIN NoSelector /\ \E bare \in one : SameTarget(t, bare)
    OBVIOUS
  <2>1. PICK s \in S : t \in applyModifier(s, chain[n])
    OBVIOUS
  <2> HIDE DEF one
  <2>2. DOMAIN s = DOMAIN NoSelector /\ \E bare \in one : SameTarget(s, bare)
    BY <1>6
  <2>3. SameTarget(t, s) /\ DOMAIN t = DOMAIN s
    BY <2>1, <2>2, ModifierKeepsTarget
  <2> QED BY <2>2, <2>3 DEF SameTarget
<1> HIDE DEF one, Modified, Kept
<1>7. f[1] = one /\ (N \in {2, 3} => f[2] = Modified(f[1], 2)) /\ (N = 3 => f[3] = Modified(f[2], 3))
  <2>1. \A n \in 1 .. N : f[n] = IF n = 1 THEN one ELSE Modified(f[n - 1], n)
    BY <1>4
  <2> HIDE DEF N
  <2> QED BY <1>0, <2>1
<1>8. Kept(f[N])
  <2>1. Kept(f[1])
    BY <1>5, <1>7
  <2>2. N \in {2, 3} => Kept(f[2])
    BY <1>6, <1>7, <2>1
  <2>3. N = 3 => Kept(f[3])
    BY <1>6, <1>7, <2>2
  <2> QED BY <1>0, <2>1, <2>2, <2>3
<1> QED BY <1>3, <1>8 DEF Kept, one

\* Without what was put at the end, a list is as it was.
LEMMA FrontConcat ==
  ASSUME NEW T, NEW r \in Seq(T), NEW last \in T
  PROVE  Front(r \o <<last>>) = r
<1> DEFINE all == r \o <<last>>
<1>1. all \in Seq(T) /\ Len(all) = Len(r) + 1 /\ \A i \in 1 .. Len(r) : all[i] = r[i]
  OBVIOUS
<1> HIDE DEF all
<1>2. Len(all) - 1 = Len(r) /\ Len(r) \in Nat
  BY <1>1
<1>3. Front(all) = SubSeq(all, 1, Len(r))
  BY <1>2 DEF Front
<1>4. /\ SubSeq(all, 1, Len(r)) \in Seq(T) /\ Len(SubSeq(all, 1, Len(r))) = Len(r)
      /\ \A i \in 1 .. Len(r) : SubSeq(all, 1, Len(r))[i] = r[i]
  BY <1>1, <1>2
<1>5. SubSeq(all, 1, Len(r)) = r
  BY <1>4
<1> QED BY <1>3, <1>5 DEF all

\* A list made of one piece and two that may be left out.
LEMMA Pieces ==
  ASSUME NEW a, NEW b, NEW c
  PROVE  /\ <<a>> \o <<>> \o <<>> = <<a>> /\ <<a>> \o <<>> \o <<c>> = <<a, c>>
         /\ <<a>> \o <<b>> \o <<>> = <<a, b>> /\ <<a>> \o <<b>> \o <<c>> = <<a, b, c>>
         /\ \A r \in {<<a>>, <<a, b>>, <<a, c>>, <<a, b, c>>} : \A last : Front(r \o <<last>>) = r
<1>1. /\ <<a>> \o <<>> \o <<>> = <<a>> /\ <<a>> \o <<>> \o <<c>> = <<a, c>>
      /\ <<a>> \o <<b>> \o <<>> = <<a, b>> /\ <<a>> \o <<b>> \o <<c>> = <<a, b, c>>
  <2> DEFINE T == {a, b, c}
  <2>1. a \in T /\ b \in T /\ c \in T
    OBVIOUS
  <2> HIDE DEF T
  <2>2. <<>> \in Seq(T) /\ <<a>> \in Seq(T) /\ <<b>> \in Seq(T) /\ <<c>> \in Seq(T) /\ <<a, b>> \in Seq(T)
    BY <2>1
  <2>3. \A s \in Seq(T) : s \o <<>> = s
    OBVIOUS
  <2>7. \A s \in Seq(T) : /\ Len(s) = 2 => s = <<s[1], s[2]>>
                         /\ Len(s) = 3 => s = <<s[1], s[2], s[3]>>
    OBVIOUS
  <2>4. ASSUME NEW x \in T PROVE <<a>> \o <<x>> = <<a, x>>
    <3> DEFINE s == <<a>> \o <<x>>
    <3>1. s \in Seq(T) /\ Len(s) = 2 /\ s[1] = a /\ s[2] = x
      BY <2>1
    <3> HIDE DEF s
    <3>2. s = <<s[1], s[2]>>
      BY <2>7, <3>1
    <3> QED BY <3>1, <3>2 DEF s
  <2>5. <<a, b>> \o <<c>> = <<a, b, c>>
    <3> DEFINE s == <<a, b>> \o <<c>>
    <3>1. s \in Seq(T) /\ Len(s) = 3 /\ s[1] = a /\ s[2] = b /\ s[3] = c
      BY <2>1
    <3> HIDE DEF s
    <3>2. s = <<s[1], s[2], s[3]>>
      BY <2>7, <3>1
    <3> QED BY <3>1, <3>2 DEF s
  <2>6. <<a>> \o <<>> = <<a>> /\ <<a, b>> \o <<>> = <<a, b>>
    BY <2>2, <2>3
  <2>8. <<a>> \o <<c>> = <<a, c>> /\ <<a>> \o <<b>> = <<a, b>>
    BY <2>1, <2>4
  <2> QED BY <2>5, <2>6, <2>8, Zenon
<1>2. ASSUME NEW r \in {<<a>>, <<a, b>>, <<a, c>>, <<a, b, c>>}, NEW last
      PROVE  Front(r \o <<last>>) = r
  <2> DEFINE T == {a, b, c, last}
  <2>1. a \in T /\ b \in T /\ c \in T /\ last \in T
    OBVIOUS
  <2> HIDE DEF T
  <2>2. <<a>> \in Seq(T) /\ <<a, c>> \in Seq(T) /\ <<a, b>> \in Seq(T) /\ <<a, b, c>> \in Seq(T)
    BY <2>1
  <2>3. r \in Seq(T)
    BY <2>2, Zenon
  <2> QED BY <2>1, <2>3, FrontConcat
<1> QED BY <1>1, <1>2

\* What a selector asks of a page before nth, and which of that its filters leave.
Asked(sel, page) == Selected(page, {i \in DOMAIN page : <<sel.strategy, sel.value, sel.opts>> \in page[i].answers})
Left(sel, base) ==
  Selected(base, {i \in DOMAIN base :
    /\ sel.hasText \in base[i].texts \cup {""}
    /\ sel.hasNotText = "" \/ sel.hasNotText \notin base[i].texts})

\* What a selector finds is a list, before its filters and after them.
LEMMA AskedIs ==
  ASSUME NEW sel, NEW page, page \in Seq(Range(page))
  PROVE  LET base == Asked(sel, page) IN
         /\ base = [i \in 1 .. Len(base) |-> base[i]] /\ Len(base) \in Nat /\ DOMAIN base = 1 .. Len(base)
         /\ DOMAIN Left(sel, base) = 1 .. Len(Left(sel, base)) /\ Len(Left(sel, base)) \in Nat
         /\ Left(sel, base) = [i \in 1 .. Len(Left(sel, base)) |-> Left(sel, base)[i]]
<1> DEFINE base == Asked(sel, page)
           K == {i \in DOMAIN page : <<sel.strategy, sel.value, sel.opts>> \in page[i].answers}
           J == {i \in DOMAIN base : /\ sel.hasText \in base[i].texts \cup {""}
                                     /\ sel.hasNotText = "" \/ sel.hasNotText \notin base[i].texts}
<1>1. Len(page) \in Nat /\ DOMAIN page = 1 .. Len(page) /\ K \in SUBSET DOMAIN page
  <2>1. Len(page) \in Nat /\ DOMAIN page = 1 .. Len(page)
    OBVIOUS
  <2> QED BY <2>1
<1>2. base = Selected(page, K) /\ Left(sel, base) = Selected(base, J) /\ J \in SUBSET DOMAIN base
  BY DEF Asked, Left
<1> HIDE DEF base, K, J
<1>3. Len(base) \in Nat /\ DOMAIN base = 1 .. Len(base)
  BY <1>1, <1>2, SelectedIs
<1>4. Len(Left(sel, base)) \in Nat /\ DOMAIN Left(sel, base) = 1 .. Len(Left(sel, base))
  BY <1>2, <1>3, SelectedIs
<1>5. base = [i \in DOMAIN base |-> base[i]] /\ Left(sel, base) = [i \in DOMAIN Left(sel, base) |-> Left(sel, base)[i]]
  BY <1>2 DEF Selected
<1> QED BY <1>3, <1>4, <1>5 DEF base

\* A selector is written as a list, to which the verb is put.
LEMMA RenderedIs ==
  ASSUME NEW sel, sel # NoSelector
  PROVE  LET filters == [o \in {x \in {"hasText", "hasNotText"} : sel[x] # ""} |-> sel[o]]
             first  == Call(CHOOSE f \in DOMAIN FACTORY_STRATEGY : FACTORY_STRATEGY[f] = sel.strategy,
                            sel.value, IF sel.strategy \in {"css", "testid"} THEN None ELSE sel.opts)
             second == Call("filter", "", filters)
             third  == Call("nth", sel.nth, None)
             r == renderSelector(sel)
         IN /\ DOMAIN filters = {} /\ sel.nth = "none" => r = <<first>>
            /\ DOMAIN filters = {} /\ sel.nth # "none" => r = <<first, third>>
            /\ DOMAIN filters # {} /\ sel.nth = "none" => r = <<first, second>>
            /\ DOMAIN filters # {} /\ sel.nth # "none" => r = <<first, second, third>>
            /\ \A last : Front(r \o <<last>>) = r
<1> DEFINE filters == [o \in {x \in {"hasText", "hasNotText"} : sel[x] # ""} |-> sel[o]]
           first == Call(CHOOSE f \in DOMAIN FACTORY_STRATEGY : FACTORY_STRATEGY[f] = sel.strategy,
                         sel.value, IF sel.strategy \in {"css", "testid"} THEN None ELSE sel.opts)
           second == Call("filter", "", filters)
           third == Call("nth", sel.nth, None)
           D == DOMAIN filters
           r == renderSelector(sel)
<1>1. r = <<first>> \o (IF D = {} THEN <<>> ELSE <<second>>) \o (IF sel.nth = "none" THEN <<>> ELSE <<third>>)
  BY DEF renderSelector
<1> HIDE DEF first, second, third, r, D
<1>2. /\ <<first>> \o <<>> \o <<>> = <<first>> /\ <<first>> \o <<>> \o <<third>> = <<first, third>>
      /\ <<first>> \o <<second>> \o <<>> = <<first, second>>
      /\ <<first>> \o <<second>> \o <<third>> = <<first, second, third>>
      /\ \A s \in {<<first>>, <<first, second>>, <<first, third>>, <<first, second, third>>} :
           \A last : Front(s \o <<last>>) = s
  <2>1. /\ <<first>> \o <<>> \o <<>> = <<first>> /\ <<first>> \o <<>> \o <<third>> = <<first, third>>
        /\ <<first>> \o <<second>> \o <<>> = <<first, second>>
        /\ <<first>> \o <<second>> \o <<third>> = <<first, second, third>>
    BY Pieces, Zenon
  <2>2. \A s \in {<<first>>, <<first, second>>, <<first, third>>, <<first, second, third>>} :
          \A last : Front(s \o <<last>>) = s
    BY Pieces, Zenon
  <2> QED BY <2>1, <2>2
<1>3. /\ D = {} /\ sel.nth = "none" => r = <<first>>
      /\ D = {} /\ sel.nth # "none" => r = <<first, third>>
      /\ D # {} /\ sel.nth = "none" => r = <<first, second>>
      /\ D # {} /\ sel.nth # "none" => r = <<first, second, third>>
  BY <1>1, <1>2, Zenon
<1>4. r \in {<<first>>, <<first, second>>, <<first, third>>, <<first, second, third>>}
  BY <1>3, Zenon
<1> QED BY <1>2, <1>3, <1>4, Zenon DEF first, second, third, r, D

\* A selector that is read back from its own text finds by that text what it finds itself.
LEMMA LocatesItself ==
  ASSUME NEW sel, sel # NoSelector, NEW page, page \in Seq(Range(page)),
         sel \in SelectorOf(renderSelector(sel))
  PROVE  /\ Locate(renderSelector(sel), page) = resolveLocator(sel, page)
         /\ sel.strategy # "described"
<1> DEFINE filters == [o \in {x \in {"hasText", "hasNotText"} : sel[x] # ""} |-> sel[o]]
           first == Call(CHOOSE f \in DOMAIN FACTORY_STRATEGY : FACTORY_STRATEGY[f] = sel.strategy,
                         sel.value, IF sel.strategy \in {"css", "testid"} THEN None ELSE sel.opts)
           second == Call("filter", "", filters)
           third == Call("nth", sel.nth, None)
           r == renderSelector(sel)
           base == Asked(sel, page)
           left == Left(sel, base)
           p == DOMAIN filters = {}
           q == sel.nth = "none"
<1>1. /\ p /\ q => r = <<first>>
      /\ p /\ ~q => r = <<first, third>>
      /\ ~p /\ q => r = <<first, second>>
      /\ ~p /\ ~q => r = <<first, second, third>>
  BY RenderedIs, Zenon
<1>2. /\ second.call = "filter" /\ second.opts = filters
      /\ third.call = "nth" /\ third.arg = sel.nth
  BY DEF Call
<1>3. p <=> sel.hasText = "" /\ sel.hasNotText = ""
  OBVIOUS
<1>4. /\ "hasText" \in DOMAIN filters <=> sel.hasText # ""
      /\ "hasNotText" \in DOMAIN filters <=> sel.hasNotText # ""
      /\ sel.hasText # "" => filters.hasText = sel.hasText
      /\ sel.hasNotText # "" => filters.hasNotText = sel.hasNotText
  OBVIOUS
<1> HIDE DEF first, filters, second, third, p, q, r
<1>6. Len(r) \in 1 .. 3 /\ DOMAIN r = 1 .. Len(r) /\ r[1] = first
  <2>1. r = <<first>> \/ r = <<first, second>> \/ r = <<first, third>> \/ r = <<first, second, third>>
    BY <1>1, Zenon
  <2> QED BY <2>1
<1>7. PICK bare \in selectorFromFactory(first) : SameTarget(sel, bare)
  <2>1. sel \in SelectorOf(r)
    BY DEF r
  <2> QED BY <1>6, <2>1, SelectorOfIs
<1>8. /\ first.call \in DOMAIN FACTORY_STRATEGY
      /\ sel.strategy = FACTORY_STRATEGY[first.call] /\ sel.value = first.arg /\ sel.opts = first.opts
  <2>1. /\ first.call \in DOMAIN FACTORY_STRATEGY
        /\ bare = Bare(FACTORY_STRATEGY[first.call], first.arg, first.opts)
    BY <1>7 DEF selectorFromFactory
  <2> QED BY <1>7, <2>1 DEF Bare, SameTarget
<1>9. first.call \notin {"nth", "filter"} /\ sel.strategy # "described"
  BY <1>8 DEF FACTORY_STRATEGY
<1>10. Narrow(page, first) = base
  BY <1>8, <1>9 DEF Narrow, Asked
<1>11. Narrow(base, second) = left
  <2>1. Narrow(base, second) = Selected(base, {i \in DOMAIN base :
          /\ "hasText" \in DOMAIN filters => filters.hasText \in base[i].texts
          /\ "hasNotText" \in DOMAIN filters => filters.hasNotText \notin base[i].texts})
    BY <1>2 DEF Narrow
  <2> HIDE DEF base
  <2>2. {i \in DOMAIN base :
           /\ "hasText" \in DOMAIN filters => filters.hasText \in base[i].texts
           /\ "hasNotText" \in DOMAIN filters => filters.hasNotText \notin base[i].texts}
        = {i \in DOMAIN base :
             /\ sel.hasText \in base[i].texts \cup {""}
             /\ sel.hasNotText = "" \/ sel.hasNotText \notin base[i].texts}
    BY <1>4
  <2> QED BY <2>1, <2>2 DEF Left
<1>12. p => left = base
  <2> SUFFICES ASSUME p PROVE left = base
    OBVIOUS
  <2>1. base = [i \in 1 .. Len(base) |-> base[i]] /\ Len(base) \in Nat
    BY AskedIs
  <2> HIDE DEF base
  <2>2. {i \in DOMAIN base :
             /\ sel.hasText \in base[i].texts \cup {""}
             /\ sel.hasNotText = "" \/ sel.hasNotText \notin base[i].texts} = DOMAIN base
    BY <1>3
  <2>3. Selected(base, DOMAIN base) = base
    BY <2>1, WholeIsKept
  <2> QED BY <2>2, <2>3 DEF Left
<1>13. Narrow(left, third) = Nth(left, sel.nth)
  BY <1>2 DEF Narrow
<1>14. resolveLocator(sel, page) = IF q THEN left ELSE Nth(left, sel.nth)
  BY <1>9 DEF resolveLocator, Asked, Left, q
<1> HIDE DEF base, left
<1>15. Locate(r, page) = IF Len(r) = 1 THEN Narrow(page, r[1])
                         ELSE IF Len(r) = 2 THEN Narrow(Narrow(page, r[1]), r[2])
                         ELSE Narrow(Narrow(Narrow(page, r[1]), r[2]), r[3])
  BY <1>6, LocateIs
<1>16. Locate(r, page) = IF q THEN left ELSE Nth(left, sel.nth)
  <2>1. CASE p /\ q
    <3>1. r = <<first>>
      BY <1>1, <2>1
    <3>2. Len(r) = 1
      BY <3>1
    <3> QED BY <1>6, <1>10, <1>12, <1>15, <2>1, <3>2
  <2>2. CASE p /\ ~q
    <3>1. r = <<first, third>>
      BY <1>1, <2>2
    <3>2. Len(r) = 2 /\ r[2] = third
      BY <3>1
    <3> QED BY <1>6, <1>10, <1>12, <1>13, <1>15, <2>2, <3>2
  <2>3. CASE ~p /\ q
    <3>1. r = <<first, second>>
      BY <1>1, <2>3
    <3>2. Len(r) = 2 /\ r[2] = second
      BY <3>1
    <3> QED BY <1>6, <1>10, <1>11, <1>15, <2>3, <3>2
  <2>4. CASE ~p /\ ~q
    <3>1. r = <<first, second, third>>
      BY <1>1, <2>4
    <3>2. Len(r) = 3 /\ r[2] = second /\ r[3] = third
      BY <3>1
    <3> QED BY <1>6, <1>10, <1>11, <1>13, <1>15, <2>4, <3>2
  <2> QED BY <2>1, <2>2, <2>3, <2>4
<1> QED BY <1>9, <1>14, <1>16 DEF r

\* What is kept of a page by a narrower question is kept by a wider one, and
\* filters and nth leave nothing that was not there.
LEMMA SuiteFinds ==
  ASSUME NEW sel, sel.strategy # "described", NEW page \in Pages
  PROVE  Range(resolveLocator(sel, page)) \subseteq Range(resolveLocator(suiteLocator(sel), page))
<1> DEFINE wide == suiteLocator(sel)
           base == Asked(sel, page)
           left == Left(sel, base)
           K == {i \in DOMAIN page : <<sel.strategy, sel.value, sel.opts>> \in page[i].answers}
           J == {i \in DOMAIN base : /\ sel.hasText \in base[i].texts \cup {""}
                                     /\ sel.hasNotText = "" \/ sel.hasNotText \notin base[i].texts}
           all == Asked(wide, page)
           M == {i \in DOMAIN page : <<wide.strategy, wide.value, wide.opts>> \in page[i].answers}
<1>1. page \in Seq(Range(page))
  BY RecordingAssumption
<1>2. /\ wide.strategy = sel.strategy /\ wide.value = sel.value /\ wide.opts = OnlyName(sel.opts)
      /\ wide.hasText = "" /\ wide.hasNotText = "" /\ wide.nth = "none"
  BY DEF suiteLocator, Bare
<1> HIDE DEF wide
<1>3. K \subseteq M
  <2> SUFFICES ASSUME NEW i \in K PROVE i \in M
    OBVIOUS
  <2>1. i \in DOMAIN page /\ <<sel.strategy, sel.value, sel.opts>> \in page[i].answers
    OBVIOUS
  <2> DEFINE answer == <<sel.strategy, sel.value, sel.opts>>
  <2>2. answer[1] = sel.strategy /\ answer[2] = sel.value /\ answer[3] = sel.opts /\ answer \in page[i].answers
    BY <2>1
  <2> HIDE DEF answer
  <2>3. <<answer[1], answer[2], OnlyName(answer[3])>> \in page[i].answers
    BY <2>1, <2>2, ExactNarrows
  <2> QED BY <1>2, <2>1, <2>2, <2>3
<1>4. /\ Len(page) \in Nat /\ DOMAIN page = 1 .. Len(page)
      /\ base = Selected(page, K) /\ all = Selected(page, M) /\ left = Selected(base, J)
      /\ Len(base) \in Nat /\ DOMAIN base = 1 .. Len(base)
  <2>1. Len(page) \in Nat /\ DOMAIN page = 1 .. Len(page)
    BY <1>1
  <2>2. Len(base) \in Nat /\ DOMAIN base = 1 .. Len(base)
    BY <1>1, AskedIs
  <2> QED BY <2>1, <2>2 DEF Asked, Left
<1>5. /\ \A n \in DOMAIN base : \E k \in K : base[n] = page[k]
      /\ \A k \in M : \E n \in DOMAIN all : all[n] = page[k]
  <2>1. K \in SUBSET DOMAIN page /\ M \in SUBSET DOMAIN page
    OBVIOUS
  <2> HIDE DEF base, all, K, M
  <2>2. Selected(page, K) = base /\ Selected(page, M) = all
    BY <1>4
  <2>3. \A n \in DOMAIN Selected(page, K) : \E k \in K : Selected(page, K)[n] = page[k]
    BY <1>4, <2>1, SelectedIs
  <2>4. \A k \in M : \E n \in DOMAIN Selected(page, M) : Selected(page, M)[n] = page[k]
    BY <1>4, <2>1, SelectedIs
  <2> QED BY <2>2, <2>3, <2>4
<1>6. \A n \in DOMAIN left : \E k \in DOMAIN base : left[n] = base[k]
  <2>1. J \in SUBSET DOMAIN base
    OBVIOUS
  <2> HIDE DEF base, left, J
  <2>2. Len(base) \in Nat /\ DOMAIN base = 1 .. Len(base) /\ left = Selected(base, J)
    BY <1>4
  <2>3. \A n \in DOMAIN Selected(base, J) : \E k \in J : Selected(base, J)[n] = base[k]
    BY <2>1, <2>2, SelectedIs
  <2> QED BY <2>1, <2>2, <2>3
<1>7. resolveLocator(sel, page) = left \/ resolveLocator(sel, page) = Nth(left, sel.nth)
  BY DEF resolveLocator, Asked, Left
<1>8. resolveLocator(wide, page) = all
  <2>1. resolveLocator(wide, page) = Left(wide, all)
    BY <1>2 DEF resolveLocator, Asked, Left
  <2>2. all = [i \in 1 .. Len(all) |-> all[i]] /\ Len(all) \in Nat
    BY <1>1, AskedIs
  <2> HIDE DEF all
  <2>3. {i \in DOMAIN all :
             /\ wide.hasText \in all[i].texts \cup {""}
             /\ wide.hasNotText = "" \/ wide.hasNotText \notin all[i].texts} = DOMAIN all
    BY <1>2
  <2>4. Selected(all, DOMAIN all) = all
    BY <2>2, WholeIsKept
  <2> QED BY <2>1, <2>3, <2>4 DEF Left
<1> HIDE DEF base, left, all, K, J, M
<1>9. \A n \in DOMAIN left : left[n] \in Range(all)
  BY <1>3, <1>5, <1>6 DEF Range
<1>10. \A e \in Range(Nth(left, sel.nth)) : \E n \in DOMAIN left : e = left[n]
  <2>1. Nth(left, sel.nth) = <<>> \/ \E n \in DOMAIN left : Nth(left, sel.nth) = <<left[n]>>
    BY DEF Nth
  <2>2. Range(<<>>) = {} /\ \A x : Range(<<x>>) = {x}
    BY DEF Range
  <2> QED BY <2>1, <2>2
<1>11. \A e \in Range(left) : \E n \in DOMAIN left : e = left[n]
  BY DEF Range
<1>12. Range(resolveLocator(sel, page)) \subseteq Range(all)
  BY <1>7, <1>9, <1>10, <1>11
<1> QED BY <1>8, <1>12 DEF wide

\* A statement that is translated, and the locator the suite has for it, reach
\* on every page what the recorded statement reached.
THEOREM TranslationReachesTheSame == Spec => []TranslationKeepsTarget
<1>1. ASSUME recording \in Seq(Alphabet) PROVE TranslationKeepsTarget
  <2> SUFFICES ASSUME NEW i \in DOMAIN Steps, NEW a \in translate(Steps[i], Secrets), a.selector # NoSelector,
                      NEW page \in Pages
               PROVE  /\ resolveLocator(a.selector, page) = Locate(locator(Steps[i]), page)
                      /\ Range(resolveLocator(a.selector, page))
                           \subseteq Range(resolveLocator(suiteLocator(a.selector), page))
    BY DEF TranslationKeepsTarget
  <2> DEFINE step == Steps[i]
             sel == a.selector
             last == Call(CHOOSE v \in DOMAIN VERB_TYPE : VERB_TYPE[v] = a.type,
                          IF a.type = "waitFor" THEN "" ELSE a.value.text,
                          IF a.type = "waitFor"
                          THEN [state |-> CHOOSE s \in DOMAIN WAIT_CONDITION : WAIT_CONDITION[s] = a.value.text]
                          ELSE None)
  <2>1. RoundTrips(a, step.chain) /\ sel \in SelectorOf(locator(step))
    <3>1. ~isSleep(step)
      BY DEF translate, Action
    <3>2. /\ RoundTrips(a, step.chain)
          /\ \E t \in IF Len(step.chain) = 1 THEN {NoSelector} ELSE SelectorOf(locator(step)) :
               a \in actionForVerb(verb(step), t, Secrets)
      BY <3>1 DEF translate
    <3>3. PICK t \in IF Len(step.chain) = 1 THEN {NoSelector} ELSE SelectorOf(locator(step)) :
            a \in actionForVerb(verb(step), t, Secrets)
      BY <3>2
    <3>4. sel = t
      <4>1. \E type, value : a = Action(type, t, value)
        BY <3>3 DEF actionForVerb
      <4> QED BY <4>1 DEF Action
    <3> QED BY <3>2, <3>3, <3>4
  <2>2. step.chain = renderSelector(sel) \o <<last>>
    BY <2>1 DEF RoundTrips, renderActionStatement
  <2> HIDE DEF step, last, sel
  <2>3. Front(renderSelector(sel) \o <<last>>) = renderSelector(sel)
    BY RenderedIs, Zenon DEF sel
  <2>4. locator(step) = renderSelector(sel)
    BY <2>2, <2>3 DEF locator
  <2>5. page \in Seq(Range(page))
    BY RecordingAssumption
  <2>6. Locate(renderSelector(sel), page) = resolveLocator(sel, page) /\ sel.strategy # "described"
    BY <2>1, <2>4, <2>5, LocatesItself DEF sel
  <2> QED BY <2>4, <2>6, SuiteFinds DEF sel, step
<1> QED BY <1>1, RecordingIsList, PTL DEF Spec

\* A set of numbers whose elements are numbered upwards has them at these places.
LEMMA Enumerated ==
  ASSUME NEW n \in Nat, NEW K \in SUBSET Nat, NEW e \in [1 .. n -> K],
         \A i, j \in 1 .. n : i < j => e[i] < e[j],
         \A k \in K : \E i \in 1 .. n : e[i] = k
  PROVE  IsFiniteSet(K) /\ Cardinality(K) = n /\ \A i \in 1 .. n : Place(K, i) = e[i]
<1>1. \A i, j \in 1 .. n : /\ e[i] \in Nat /\ e[i] \in K
                           /\ e[i] = e[j] => i = j
                           /\ e[i] <= e[j] <=> i <= j
  <2>1. \A i \in 1 .. n : e[i] \in K /\ e[i] \in Nat
    OBVIOUS
  <2> SUFFICES ASSUME NEW i \in 1 .. n, NEW j \in 1 .. n PROVE (e[i] = e[j] => i = j) /\ (e[i] <= e[j] <=> i <= j)
    BY <2>1
  <2>2. i < j \/ j < i \/ i = j
    OBVIOUS
  <2>3. (i < j => e[i] < e[j]) /\ (j < i => e[j] < e[i])
    OBVIOUS
  <2> QED BY <2>1, <2>2, <2>3
<1>2. \A m \in 0 .. n : IsFiniteSet(1 .. m) /\ Cardinality(1 .. m) = m
  BY FS_Interval
<1>3. IsFiniteSet(K) /\ Cardinality(K) = n
  <2>1. e \in Surjection(1 .. n, K) /\ e \in Injection(1 .. n, K)
    BY <1>1 DEF Surjection, Injection, IsInjective
  <2> QED BY <1>2, <2>1, FS_Surjection
<1>4. ASSUME NEW i \in 1 .. n PROVE Cardinality({x \in K : x <= e[i]}) = i
  <2> DEFINE B == {x \in K : x <= e[i]}
             f == [j \in 1 .. i |-> e[j]]
  <2>1. \A j \in 1 .. i : j \in 1 .. n /\ j <= i
    OBVIOUS
  <2>2. \A j \in 1 .. i : f[j] = e[j] /\ e[j] \in B
    BY <1>1, <2>1
  <2>3. \A x \in B : \E j \in 1 .. i : e[j] = x
    <3> SUFFICES ASSUME NEW x \in K, x <= e[i] PROVE \E j \in 1 .. i : e[j] = x
      OBVIOUS
    <3>1. PICK j \in 1 .. n : e[j] = x
      OBVIOUS
    <3>2. j <= i
      BY <1>1, <3>1
    <3> QED BY <3>1, <3>2
  <2> HIDE DEF B
  <2>4. f \in Surjection(1 .. i, B) /\ f \in Injection(1 .. i, B)
    BY <1>1, <2>1, <2>2, <2>3 DEF Surjection, Injection, IsInjective
  <2> HIDE DEF f
  <2>5. IsFiniteSet(1 .. i) /\ Cardinality(1 .. i) = i
    BY <1>2
  <2>6. Cardinality(B) = Cardinality(1 .. i)
    BY <2>4, <2>5, FS_Surjection
  <2> QED BY <2>5, <2>6 DEF B
<1>5. ASSUME NEW i \in 1 .. n PROVE Place(K, i) = e[i]
  <2>1. e[i] \in K /\ Cardinality({x \in K : x <= e[i]}) = i
    BY <1>1, <1>4
  <2>2. \A k \in K : Cardinality({x \in K : x <= k}) = i => k = e[i]
    <3> SUFFICES ASSUME NEW k \in K, Cardinality({x \in K : x <= k}) = i PROVE k = e[i]
      OBVIOUS
    <3>1. PICK j \in 1 .. n : e[j] = k
      OBVIOUS
    <3>2. Cardinality({x \in K : x <= k}) = j
      BY <1>4, <3>1
    <3> QED BY <3>1, <3>2
  <2> QED BY <2>1, <2>2 DEF Place
<1> QED BY <1>3, <1>5

\* The places of the first c numbers.
LEMMA FirstOnes ==
  ASSUME NEW c \in Nat
  PROVE  IsFiniteSet(1 .. c) /\ Cardinality(1 .. c) = c /\ \A i \in 1 .. c : Place(1 .. c, i) = i
<1> DEFINE K == 1 .. c
           same == [n \in 1 .. c |-> n]
<1>1. K \in SUBSET Nat
  OBVIOUS
<1>2. /\ same \in [1 .. c -> K] /\ \A i, j \in 1 .. c : i < j => same[i] < same[j]
      /\ \A k \in K : \E i \in 1 .. c : same[i] = k
      /\ \A i \in 1 .. c : same[i] = i
  OBVIOUS
<1> HIDE DEF same, K
<1>3. IsFiniteSet(K) /\ Cardinality(K) = c /\ \A i \in 1 .. c : Place(K, i) = same[i]
  BY <1>1, <1>2, Enumerated
<1> QED BY <1>2, <1>3 DEF K

\* A place after all the others is the last.
LEMMA Grown ==
  ASSUME NEW W \in SUBSET Nat, IsFiniteSet(W), NEW p \in Nat, \A x \in W : x < p
  PROVE  /\ Cardinality(W) \in Nat /\ W \cup {p} \in SUBSET Nat /\ IsFiniteSet(W \cup {p})
         /\ Cardinality(W \cup {p}) = Cardinality(W) + 1
         /\ \A i \in 1 .. Cardinality(W) : Place(W \cup {p}, i) = Place(W, i)
         /\ Place(W \cup {p}, Cardinality(W) + 1) = p
<1> DEFINE n == Cardinality(W)
           e == [i \in 1 .. n + 1 |-> IF i <= n THEN Place(W, i) ELSE p]
           K == W \cup {p}
<1>1. /\ n \in Nat
      /\ \A i \in 1 .. n : Place(W, i) \in W
      /\ \A i, j \in 1 .. n : i < j => Place(W, i) < Place(W, j)
      /\ \A k \in W : \E i \in 1 .. n : Place(W, i) = k
  BY Places
<1>2. \A i \in 1 .. n + 1 : i \in 1 .. n \/ i = n + 1
  BY <1>1
<1>3. /\ \A i \in 1 .. n : i \in 1 .. n + 1 /\ e[i] = Place(W, i)
      /\ n + 1 \in 1 .. n + 1 /\ e[n + 1] = p
  BY <1>1
<1>4. e \in [1 .. n + 1 -> K]
  BY <1>1
<1>5. K \in SUBSET Nat /\ n + 1 \in Nat
  BY <1>1
<1> HIDE DEF n, e
<1>6. \A i, j \in 1 .. n + 1 : i < j => e[i] < e[j]
  <2> SUFFICES ASSUME NEW i \in 1 .. n + 1, NEW j \in 1 .. n + 1, i < j PROVE e[i] < e[j]
    OBVIOUS
  <2>1. i \in 1 .. n
    BY <1>1
  <2>2. CASE j \in 1 .. n
    BY <1>1, <1>3, <2>1, <2>2
  <2>3. CASE j = n + 1
    BY <1>1, <1>3, <2>1, <2>3
  <2> QED BY <1>2, <2>2, <2>3
<1>7. \A k \in K : \E i \in 1 .. n + 1 : e[i] = k
  <2> SUFFICES ASSUME NEW k \in K PROVE \E i \in 1 .. n + 1 : e[i] = k
    OBVIOUS
  <2>1. CASE k = p
    BY <1>3, <2>1
  <2>2. CASE k \in W
    <3>1. PICK i \in 1 .. n : Place(W, i) = k
      BY <1>1, <2>2
    <3> QED BY <1>3, <3>1
  <2> QED BY <2>1, <2>2
<1> HIDE DEF K
<1>8. IsFiniteSet(K) /\ Cardinality(K) = n + 1 /\ \A i \in 1 .. n + 1 : Place(K, i) = e[i]
  BY <1>4, <1>5, <1>6, <1>7, Enumerated
<1>9. \A i \in 1 .. n : Place(K, i) = Place(W, i)
  BY <1>3, <1>8
<1>10. Place(K, n + 1) = p
  BY <1>3, <1>8
<1> QED BY <1>1, <1>5, <1>8, <1>9, <1>10 DEF n, K

-----------------------------------------------------------------------------
(* What is checked of an experiment, and in which order.                   *)

IsFlow(e) ==
  /\ Len(e.actions) \in Nat /\ DOMAIN e.actions = 1 .. Len(e.actions)
  /\ Len(e.assertions) \in Nat /\ DOMAIN e.assertions = 1 .. Len(e.assertions)

\* The declared assertions that are not inline, each id once.
Firsts(e) ==
  {k \in DOMAIN e.assertions :
     e.assertions[k].id \notin InlineIds(e) \cup {e.assertions[j].id : j \in 1 .. k - 1}}

\* The places before b at which something is checked: actions, and after them assertions.
Checking(e, b) == {p \in Inline(e) \cup {Len(e.actions) + k : k \in Firsts(e)} : p < b}

CheckAt(e, p) ==
  IF p <= Len(e.actions) THEN e.actions[p].value.id ELSE e.assertions[p - Len(e.actions)].id

\* Results, in the order of the places they are of.
Listed(e, rs, W) ==
  /\ Len(rs) = Cardinality(W)
  /\ \A i \in 1 .. Cardinality(W) : rs[i].id = CheckAt(e, Place(W, i))

IsList(rs) == \E S : rs \in Seq(S)

\* No two results share an id that is not shared inline.
Once(e, rs) ==
  \A i, j \in DOMAIN rs : rs[i].id = rs[j].id =>
    i = j \/ \E x, y \in Inline(e) : {e.actions[x].value.id, e.actions[y].value.id} = {rs[i].id} /\ x # y

\* And every declared id has one.
Accounted(e, rs) ==
  Once(e, rs) /\ \A k \in DOMAIN e.assertions : \E i \in DOMAIN rs : rs[i].id = e.assertions[k].id

After(e) == Len(e.actions) + Len(e.assertions) + 1

\* A list, and what it is with one more.
LEMMA ListIs ==
  ASSUME NEW rs, IsList(rs)
  PROVE  /\ Len(rs) \in Nat /\ DOMAIN rs = 1 .. Len(rs)
         /\ \A o : /\ IsList(Append(rs, o)) /\ Len(Append(rs, o)) = Len(rs) + 1
                   /\ \A i \in 1 .. Len(rs) : Append(rs, o)[i] = rs[i]
                   /\ Append(rs, o)[Len(rs) + 1] = o
<1>1. PICK S : rs \in Seq(S)
  BY DEF IsList
<1>2. Len(rs) \in Nat /\ DOMAIN rs = 1 .. Len(rs)
  BY <1>1
<1>3. ASSUME NEW o
      PROVE  /\ IsList(Append(rs, o)) /\ Len(Append(rs, o)) = Len(rs) + 1
             /\ \A i \in 1 .. Len(rs) : Append(rs, o)[i] = rs[i]
             /\ Append(rs, o)[Len(rs) + 1] = o
  <2> DEFINE T == S \cup {o}
  <2>1. rs \in Seq(T) /\ o \in T
    BY <1>1
  <2> HIDE DEF T
  <2>2. /\ Append(rs, o) \in Seq(T) /\ Len(Append(rs, o)) = Len(rs) + 1
        /\ \A i \in 1 .. Len(rs) : Append(rs, o)[i] = rs[i]
        /\ Append(rs, o)[Len(rs) + 1] = o
    BY <2>1
  <2> QED BY <2>2 DEF IsList
<1> QED BY <1>2, <1>3

\* A result of the next place is the next result.
LEMMA ListedGrows ==
  ASSUME NEW e, NEW rs, IsList(rs), NEW W \in SUBSET Nat, IsFiniteSet(W), Listed(e, rs, W),
         NEW p \in Nat, \A x \in W : x < p, NEW o, o.id = CheckAt(e, p)
  PROVE  IsList(Append(rs, o)) /\ Listed(e, Append(rs, o), W \cup {p})
<1> DEFINE n == Cardinality(W)
           K == W \cup {p}
           more == Append(rs, o)
<1>1. /\ n \in Nat /\ Cardinality(K) = n + 1 /\ \A i \in 1 .. n : Place(K, i) = Place(W, i)
      /\ Place(K, n + 1) = p
  BY Grown
<1>2. /\ Len(rs) = n /\ IsList(more) /\ Len(more) = n + 1
      /\ \A i \in 1 .. n : more[i] = rs[i]
      /\ more[n + 1] = o
  BY ListIs DEF Listed
<1>3. \A i \in 1 .. n : rs[i].id = CheckAt(e, Place(W, i))
  BY DEF Listed
<1> HIDE DEF n, K, more
<1>4. \A i \in 1 .. n + 1 : i \in 1 .. n \/ i = n + 1
  BY <1>1
<1>5. \A i \in 1 .. n + 1 : more[i].id = CheckAt(e, Place(K, i))
  BY <1>1, <1>2, <1>3, <1>4
<1>6. Listed(e, more, K)
  BY <1>1, <1>2, <1>5 DEF Listed
<1> QED BY <1>2, <1>6 DEF K, more

\* Of the declared assertions that are not inline, the first of each id.
LEMMA FirstsAre ==
  ASSUME NEW e, IsFlow(e)
  PROVE  /\ \A k \in Firsts(e) : k \in DOMAIN e.assertions /\ k \in Nat /\ k > 0 /\ e.assertions[k].id \notin InlineIds(e)
         /\ \A k, l \in Firsts(e) : e.assertions[k].id = e.assertions[l].id => k = l
         /\ \A k \in DOMAIN e.assertions : e.assertions[k].id \notin InlineIds(e) =>
              \E f \in Firsts(e) : f <= k /\ e.assertions[f].id = e.assertions[k].id
<1> DEFINE id(k) == e.assertions[k].id
<1>1. DOMAIN e.assertions = 1 .. Len(e.assertions) /\ Len(e.assertions) \in Nat
  BY DEF IsFlow
<1>2. \A k : k \in Firsts(e) <=> /\ k \in DOMAIN e.assertions /\ id(k) \notin InlineIds(e)
                                 /\ \A j \in 1 .. k - 1 : id(j) # id(k)
  BY DEF Firsts
<1> HIDE DEF id
<1>3. \A k \in Firsts(e) : k \in DOMAIN e.assertions /\ k \in Nat /\ k > 0 /\ id(k) \notin InlineIds(e)
  BY <1>1, <1>2
<1>4. ASSUME NEW k \in Firsts(e), NEW l \in Firsts(e), id(k) = id(l) PROVE k = l
  <2>1. ~(k < l) /\ ~(l < k)
    BY <1>2, <1>3, <1>4
  <2> QED BY <1>3, <2>1
<1>5. ASSUME NEW k \in DOMAIN e.assertions, id(k) \notin InlineIds(e)
      PROVE  \E f \in Firsts(e) : f <= k /\ id(f) = id(k)
  <2> DEFINE S == {j \in DOMAIN e.assertions : id(j) = id(k)}
  <2>1. S \in SUBSET Nat /\ S # {} /\ k \in S
    BY <1>1
  <2>2. PICK f \in S : \A j \in S : f <= j
    <3> HIDE DEF S
    <3> QED BY <2>1, LeastOfNumbers
  <2>3. \A j \in 1 .. f - 1 : j \in DOMAIN e.assertions /\ ~(f <= j)
    BY <1>1
  <2>4. \A j \in 1 .. f - 1 : id(j) # id(k)
    BY <2>2, <2>3
  <2> QED BY <1>2, <1>5, <2>1, <2>2, <2>4
<1> QED BY <1>3, <1>4, <1>5 DEF id

\* The places at which something is checked, and what is checked there.
LEMMA CheckingIs ==
  ASSUME NEW e, IsFlow(e), NEW b \in Nat
  PROVE  /\ Checking(e, b) \in SUBSET Nat /\ IsFiniteSet(Checking(e, b))
         /\ \A p \in Checking(e, b) :
              /\ p < b
              /\ \/ p \in Inline(e) /\ p <= Len(e.actions) /\ CheckAt(e, p) = e.actions[p].value.id
                                    /\ CheckAt(e, p) \in InlineIds(e)
                 \/ \E k \in Firsts(e) : /\ p = Len(e.actions) + k /\ p > Len(e.actions)
                                         /\ CheckAt(e, p) = e.assertions[k].id
         /\ \A p \in Inline(e) : p < b => p \in Checking(e, b)
         /\ \A k \in Firsts(e) : Len(e.actions) + k < b => Len(e.actions) + k \in Checking(e, b)
         /\ \A p \in Inline(e) : p \in 1 .. Len(e.actions) /\ CheckAt(e, p) = e.actions[p].value.id
         /\ \A k \in Firsts(e) : CheckAt(e, Len(e.actions) + k) = e.assertions[k].id
<1> DEFINE N == Len(e.actions)
           W == Checking(e, b)
<1>1. N \in Nat /\ DOMAIN e.actions = 1 .. N
  BY DEF IsFlow
<1>2. \A p \in Inline(e) : p \in 1 .. N /\ e.actions[p].value.id \in InlineIds(e)
  BY <1>1 DEF Inline, InlineIds
<1>3. \A k \in Firsts(e) : k \in Nat /\ k > 0
  BY FirstsAre
<1>4. \A p : p \in W <=> p < b /\ (p \in Inline(e) \/ \E k \in Firsts(e) : p = N + k)
  BY DEF Checking
<1>5. /\ \A p \in Inline(e) : CheckAt(e, p) = e.actions[p].value.id
      /\ \A k \in Firsts(e) : CheckAt(e, N + k) = e.assertions[k].id
  <2>1. \A p : CheckAt(e, p) = IF p <= N THEN e.actions[p].value.id ELSE e.assertions[p - N].id
    BY DEF CheckAt
  <2>2. \A p \in Inline(e) : p <= N
    BY <1>1, <1>2
  <2>3. \A k \in Firsts(e) : ~(N + k <= N) /\ (N + k) - N = k
    BY <1>1, <1>3
  <2> QED BY <2>1, <2>2, <2>3
<1> HIDE DEF N, W
<1>6. W \in SUBSET Nat
  BY <1>1, <1>2, <1>3, <1>4
<1>7. IsFiniteSet(W)
  <2>1. \A p \in W : p <= b
    BY <1>4, <1>6
  <2> QED BY <1>6, <2>1, FS_BoundedSetOfNaturals
<1>8. ASSUME NEW p \in W
      PROVE  /\ p < b
             /\ \/ p \in Inline(e) /\ p <= N /\ CheckAt(e, p) = e.actions[p].value.id /\ CheckAt(e, p) \in InlineIds(e)
                \/ \E k \in Firsts(e) : p = N + k /\ p > N /\ CheckAt(e, p) = e.assertions[k].id
  <2>1. CASE p \in Inline(e)
    BY <1>1, <1>2, <1>4, <1>5, <2>1
  <2>2. ASSUME NEW k \in Firsts(e), p = N + k
        PROVE  p > N /\ CheckAt(e, p) = e.assertions[k].id
    BY <1>1, <1>3, <1>5, <2>2
  <2> QED BY <1>4, <2>1, <2>2
<1> QED BY <1>2, <1>4, <1>5, <1>6, <1>7, <1>8 DEF N, W

\* No id is checked at two places, unless both are inline.
LEMMA CheckedOnce ==
  ASSUME NEW e, IsFlow(e), NEW b \in Nat, NEW p \in Checking(e, b), NEW q \in Checking(e, b),
         CheckAt(e, p) = CheckAt(e, q)
  PROVE  \/ p = q
         \/ /\ p # q /\ p \in Inline(e) /\ q \in Inline(e)
            /\ {e.actions[p].value.id, e.actions[q].value.id} = {CheckAt(e, p)}
<1> DEFINE N == Len(e.actions)
<1>1. /\ \/ p \in Inline(e) /\ CheckAt(e, p) = e.actions[p].value.id /\ CheckAt(e, p) \in InlineIds(e)
         \/ \E k \in Firsts(e) : p = N + k /\ CheckAt(e, p) = e.assertions[k].id
      /\ \/ q \in Inline(e) /\ CheckAt(e, q) = e.actions[q].value.id /\ CheckAt(e, q) \in InlineIds(e)
         \/ \E k \in Firsts(e) : q = N + k /\ CheckAt(e, q) = e.assertions[k].id
  BY CheckingIs
<1>2. /\ \A k \in Firsts(e) : e.assertions[k].id \notin InlineIds(e)
      /\ \A k, l \in Firsts(e) : e.assertions[k].id = e.assertions[l].id => k = l
  BY FirstsAre
<1> HIDE DEF N
<1> QED BY <1>1, <1>2

\* What a list of results has is what is checked at its places.
LEMMA ListedAre ==
  ASSUME NEW e, IsFlow(e), NEW b \in Nat, NEW rs, IsList(rs), Listed(e, rs, Checking(e, b))
  PROVE  /\ \A i \in DOMAIN rs : \E p \in Checking(e, b) : rs[i].id = CheckAt(e, p)
         /\ \A p \in Checking(e, b) : \E i \in DOMAIN rs : rs[i].id = CheckAt(e, p)
         /\ Once(e, rs)
<1> DEFINE W == Checking(e, b)
           n == Cardinality(W)
<1>1. W \in SUBSET Nat /\ IsFiniteSet(W)
  BY CheckingIs
<1>2. DOMAIN rs = 1 .. n /\ \A i \in 1 .. n : rs[i].id = CheckAt(e, Place(W, i))
  BY ListIs DEF Listed
<1> HIDE DEF W
<1>3. /\ n \in Nat
      /\ \A i \in 1 .. n : Place(W, i) \in W
      /\ \A i, j \in 1 .. n : i < j => Place(W, i) < Place(W, j)
      /\ \A k \in W : \E i \in 1 .. n : Place(W, i) = k
  BY <1>1, Places
<1> HIDE DEF n
<1>4. ASSUME NEW i \in DOMAIN rs, NEW j \in DOMAIN rs, rs[i].id = rs[j].id
      PROVE  i = j \/ \E x, y \in Inline(e) : {e.actions[x].value.id, e.actions[y].value.id} = {rs[i].id} /\ x # y
  <2> DEFINE p == Place(W, i)
             q == Place(W, j)
  <2>1. p \in W /\ q \in W /\ CheckAt(e, p) = CheckAt(e, q) /\ rs[i].id = CheckAt(e, p)
    BY <1>2, <1>3, <1>4
  <2>2. p = q => i = j
    <3>0. \A x \in W : x \in Nat
      BY <1>1
    <3>3. p \in Nat /\ q \in Nat
      BY <2>1, <3>0
    <3>1. i \in Nat /\ j \in Nat
      BY <1>2, <1>3
    <3>2. (i < j => p < q) /\ (j < i => q < p)
      BY <1>2, <1>3
    <3> HIDE DEF p, q
    <3> QED BY <3>1, <3>2, <3>3
  <2> HIDE DEF p, q
  <2>3. \/ p = q
        \/ p # q /\ p \in Inline(e) /\ q \in Inline(e) /\ {e.actions[p].value.id, e.actions[q].value.id} = {CheckAt(e, p)}
    BY <2>1, CheckedOnce DEF W
  <2> QED BY <2>1, <2>2, <2>3
<1>5. Once(e, rs)
  BY <1>4 DEF Once
<1> QED BY <1>2, <1>3, <1>5 DEF W

\* The next assertion after the actions is the next place at which something is checked.
LEMMA NextChecked ==
  ASSUME IsFlow(flow), IsList(int.results), NEW b \in Nat, b > Len(flow.actions),
         Listed(flow, int.results, Checking(flow, b)), NEW k, k = Min(Remaining), Remaining # {}
  PROVE  /\ k \in DOMAIN flow.assertions /\ Len(flow.actions) + k \in Nat
         /\ \A p \in Checking(flow, b) : p < Len(flow.actions) + k
         /\ Checking(flow, Len(flow.actions) + k + 1) = Checking(flow, b) \cup {Len(flow.actions) + k}
         /\ CheckAt(flow, Len(flow.actions) + k) = flow.assertions[k].id
<1> DEFINE id(j) == flow.assertions[j].id
           N == Len(flow.actions)
           F == Firsts(flow)
           W == Checking(flow, b)
           R == Remaining
           I == InlineIds(flow)
           D == DOMAIN flow.assertions
<1>1. N \in Nat /\ D = 1 .. Len(flow.assertions) /\ Len(flow.assertions) \in Nat
  BY DEF IsFlow
<1>2. \A j : j \in R <=> j \in D /\ id(j) \notin I /\ \A p \in W : CheckAt(flow, p) # id(j)
  <2>1. \A x : x \in Evaluated(int) <=> \E i \in DOMAIN int.results : x = int.results[i].id
    BY DEF Evaluated
  <2>2. /\ \A i \in DOMAIN int.results : \E p \in W : int.results[i].id = CheckAt(flow, p)
        /\ \A p \in W : \E i \in DOMAIN int.results : int.results[i].id = CheckAt(flow, p)
    BY ListedAre, SMTT(30)
  <2>3. \A j : j \in R <=> j \in D /\ id(j) \notin I /\ id(j) \notin Evaluated(int)
    BY DEF Remaining
  <2> HIDE DEF id, W, R, I, D
  <2> QED BY <2>1, <2>2, <2>3
<1>3. k \in R /\ \A j \in R : k <= j
  <2>1. R \in SUBSET Nat
    BY <1>1 DEF Remaining
  <2> HIDE DEF R
  <2>2. Min(R) \in R /\ \A j \in R : Min(R) <= j
    BY <2>1, LeastOfNumbers DEF R
  <2> QED BY <2>2 DEF R
<1>4. /\ \A f \in F : f \in D /\ f \in Nat /\ f > 0 /\ id(f) \notin I
      /\ \A f, g \in F : id(f) = id(g) => f = g
      /\ \A j \in D : id(j) \notin I => \E f \in F : f <= j /\ id(f) = id(j)
  BY FirstsAre
<1>5. /\ \A p \in W : \/ p \in Inline(flow) /\ p <= N /\ CheckAt(flow, p) \in I
                      \/ \E f \in F : p = N + f /\ CheckAt(flow, p) = id(f)
      /\ \A p \in W : p < b /\ p \in Nat
      /\ \A p \in Inline(flow) : p < b => p \in W
      /\ \A f \in F : N + f < b => N + f \in W
      /\ \A p \in Inline(flow) : p \in 1 .. N
      /\ \A f \in F : CheckAt(flow, N + f) = id(f)
  <2>1. W \in SUBSET Nat
    BY CheckingIs
  <2> QED BY <2>1, CheckingIs
<1>6. \A x, y : x \in Checking(flow, y) <=> x < y /\ (x \in Inline(flow) \/ \E f \in F : x = N + f)
  BY DEF Checking
<1> HIDE DEF N, F, W, R, I, D, id
<1>7. k \in D /\ id(k) \notin I /\ k \in Nat
  BY <1>1, <1>2, <1>3
<1>8. k \in F
  <2>1. PICK f \in F : f <= k /\ id(f) = id(k)
    BY <1>4, <1>7
  <2>2. f \in R
    BY <1>2, <1>3, <1>4, <2>1
  <2>3. f = k
    BY <1>3, <1>4, <1>7, <2>1, <2>2
  <2> QED BY <2>1, <2>3
\* What was evaluated of the assertions is what comes before it.
<1>9. \A f \in F : N + f < b <=> f < k
  <2> SUFFICES ASSUME NEW f \in F PROVE N + f < b <=> f < k
    OBVIOUS
  <2>1. ASSUME N + f < b PROVE f < k
    <3>1. N + f \in W /\ CheckAt(flow, N + f) = id(f)
      BY <1>5, <2>1
    <3>2. f \notin R
      BY <1>2, <3>1
    <3>3. f # k
      BY <1>3, <3>2
    <3>4. ~(k < f)
      <4>1. ASSUME k < f PROVE FALSE
        <5>1. N + k < b
          BY <1>1, <1>4, <1>5, <1>7, <2>1, <4>1
        <5>2. N + k \in W /\ CheckAt(flow, N + k) = id(k)
          BY <1>5, <1>8, <5>1
        <5> QED BY <1>2, <1>3, <5>2
      <4> QED BY <4>1
    <3> QED BY <1>4, <1>7, <3>3, <3>4
  <2>2. ASSUME f < k PROVE N + f < b
    <3>1. f \notin R
      BY <1>3, <1>4, <1>7, <2>2
    <3>2. PICK p \in W : CheckAt(flow, p) = id(f)
      BY <1>2, <1>4, <3>1
    <3>3. PICK g \in F : p = N + g /\ CheckAt(flow, p) = id(g)
      BY <1>4, <1>5, <3>2
    <3>4. g = f
      BY <1>4, <3>2, <3>3
    <3> QED BY <1>5, <3>3, <3>4
  <2> QED BY <2>1, <2>2
<1>10. \A p \in W : p < N + k
  <2> TAKE p \in W
  <2>1. CASE p <= N
    BY <1>1, <1>5, <1>4, <1>8, <2>1
  <2>2. ASSUME NEW f \in F, p = N + f PROVE p < N + k
    <3>1. f < k
      BY <1>5, <1>9, <2>2
    <3> QED BY <1>1, <1>4, <1>7, <2>2, <3>1
  <2> QED BY <1>5, <2>1, <2>2
<1>11. \A x : x \in Checking(flow, N + k + 1) <=> x \in W \/ x = N + k
  <2> TAKE x
  <2>1. CASE x \in Inline(flow)
    <3>1. x \in Nat /\ x <= N /\ x < b /\ x < N + k + 1
      BY <1>1, <1>5, <1>7, <2>1 DEF N
    <3> QED BY <1>5, <1>6, <2>1, <3>1
  <2>2. ASSUME NEW f \in F, x = N + f
        PROVE  x \in Checking(flow, N + k + 1) <=> x \in W \/ x = N + k
    <3>1. x \in W <=> f < k
      BY <1>5, <1>9, <2>2
    <3>2. x < N + k + 1 <=> f < k \/ f = k
      BY <1>1, <1>4, <1>7, <2>2
    <3>3. x = N + k <=> f = k
      BY <1>1, <1>4, <1>7, <2>2
    <3> QED BY <1>6, <2>2, <3>1, <3>2, <3>3
  <2>3. CASE x \notin Inline(flow) /\ ~\E f \in F : x = N + f
    <3>1. x \notin W
      BY <1>5, <2>3
    <3>2. x # N + k
      BY <1>8, <2>3
    <3> QED BY <1>6, <2>3, <3>1, <3>2
  <2> QED BY <2>1, <2>2, <2>3
<1>12. Checking(flow, N + k + 1) = W \cup {N + k}
  BY <1>11
<1> QED BY <1>1, <1>5, <1>7, <1>8, <1>10, <1>12 DEF N, F, W, D, id

\* When nothing remains all that is to be checked was.
LEMMA AllChecked ==
  ASSUME IsFlow(flow), IsList(int.results), NEW b \in Nat, b > Len(flow.actions),
         Listed(flow, int.results, Checking(flow, b)), Remaining = {}
  PROVE  /\ Listed(flow, int.results, Checking(flow, After(flow)))
         /\ Accounted(flow, int.results)
<1> DEFINE id(j) == flow.assertions[j].id
           N == Len(flow.actions)
           F == Firsts(flow)
           W == Checking(flow, b)
           I == InlineIds(flow)
           D == DOMAIN flow.assertions
<1>1. N \in Nat /\ D = 1 .. Len(flow.assertions) /\ Len(flow.assertions) \in Nat
  BY DEF IsFlow
<1>2. /\ \A i \in DOMAIN int.results : \E p \in W : int.results[i].id = CheckAt(flow, p)
      /\ \A p \in W : \E i \in DOMAIN int.results : int.results[i].id = CheckAt(flow, p)
      /\ Once(flow, int.results)
  BY ListedAre
<1>3. \A j \in D : id(j) \in I \/ \E i \in DOMAIN int.results : int.results[i].id = id(j)
  BY DEF Remaining, Evaluated
<1>4. /\ \A f \in F : f \in D /\ f \in Nat /\ f > 0 /\ id(f) \notin I
      /\ \A f, g \in F : id(f) = id(g) => f = g
  BY FirstsAre
<1>5. /\ \A p \in W : \/ p \in Inline(flow) /\ p <= N /\ CheckAt(flow, p) \in I
                      \/ \E f \in F : p = N + f /\ CheckAt(flow, p) = id(f)
      /\ \A p \in W : p < b /\ p \in Nat
      /\ \A p \in Inline(flow) : p < b => p \in W
      /\ \A f \in F : N + f < b => N + f \in W
      /\ \A p \in Inline(flow) : p \in 1 .. N /\ CheckAt(flow, p) = flow.actions[p].value.id
  <2>1. W \in SUBSET Nat
    BY CheckingIs
  <2> QED BY <2>1, CheckingIs
<1>6. \A x, y : x \in Checking(flow, y) <=> x < y /\ (x \in Inline(flow) \/ \E f \in F : x = N + f)
  BY DEF Checking
<1>7. \A x \in I : \E p \in Inline(flow) : x = flow.actions[p].value.id
  BY DEF InlineIds
<1>8. After(flow) = N + Len(flow.assertions) + 1
  BY DEF After
<1> HIDE DEF N, F, W, I, D, id
<1>9. \A f \in F : N + f < b
  <2> TAKE f \in F
  <2>1. PICK i \in DOMAIN int.results : int.results[i].id = id(f)
    BY <1>3, <1>4
  <2>2. PICK p \in W : CheckAt(flow, p) = id(f)
    BY <1>2, <2>1
  <2>3. PICK g \in F : p = N + g /\ CheckAt(flow, p) = id(g)
    BY <1>4, <1>5, <2>2
  <2> QED BY <1>4, <1>5, <2>2, <2>3
<1>10. \A x : x \in Checking(flow, After(flow)) <=> x \in W
  <2> TAKE x
  <2>1. CASE x \in Inline(flow)
    <3>2. x \in 1 .. N /\ b > N
      BY <1>5, <2>1 DEF N
    <3>1. x < b /\ x < After(flow)
      BY <1>1, <1>8, <3>2
    <3> QED BY <1>5, <1>6, <2>1, <3>1
  <2>2. ASSUME NEW f \in F, x = N + f PROVE x \in Checking(flow, After(flow)) <=> x \in W
    <3>1. x \in W
      BY <1>5, <1>9, <2>2
    <3>2. x < After(flow)
      BY <1>1, <1>4, <1>8, <2>2
    <3> QED BY <1>6, <2>2, <3>1, <3>2
  <2>3. CASE x \notin Inline(flow) /\ ~\E f \in F : x = N + f
    BY <1>5, <1>6, <2>3
  <2> QED BY <2>1, <2>2, <2>3
<1>11. Checking(flow, After(flow)) = W
  BY <1>10
<1>12. \A k \in D : \E i \in DOMAIN int.results : int.results[i].id = id(k)
  <2> TAKE k \in D
  <2>1. CASE id(k) \in I
    <3>1. PICK p \in Inline(flow) : id(k) = flow.actions[p].value.id
      BY <1>7, <2>1
    <3>2. p \in W /\ CheckAt(flow, p) = id(k)
      <4>1. p < b
        BY <1>1, <1>5 DEF N
      <4> QED BY <1>5, <3>1, <4>1
    <3> QED BY <1>2, <3>2
  <2> QED BY <1>3, <2>1
<1> QED BY <1>2, <1>11, <1>12 DEF Accounted, W, D, id

\* A run that is stopped has a result of every assertion that was declared.
LEMMA StopAccounts ==
  ASSUME IsFlow(flow), DOMAIN int = IntFields, IsList(int.results), NEW b \in Nat,
         Listed(flow, int.results, Checking(flow, b))
  PROVE  /\ StopAll(int) = [int EXCEPT !.results = StopAll(int).results]
         /\ IsList(StopAll(int).results) /\ Accounted(flow, StopAll(int).results)
<1> DEFINE id(j) == flow.assertions[j].id
           L == Len(flow.assertions)
           D == DOMAIN flow.assertions
           rs == int.results
           declared == [k \in DOMAIN flow.assertions |-> Outcome(flow.assertions[k], "not-evaluated")]
           missing == {k \in DOMAIN declared :
                         declared[k].id \notin Evaluated(int) \cup {declared[j].id : j \in 1 .. k - 1}}
           more == Selected(declared, missing)
           all == rs \o more
<1>1. D = 1 .. L /\ L \in Nat
  BY DEF IsFlow
<1>2. StopAll(int) = [int EXCEPT !.results = all]
  BY DEF StopAll
<1>3. DOMAIN declared = D /\ \A k \in D : declared[k].id = id(k)
  BY DEF Outcome
<1>4. missing \in SUBSET D
  BY <1>3
<1>5. \A k \in D : k \in missing <=> /\ \A i \in DOMAIN rs : rs[i].id # id(k)
                                     /\ \A j \in 1 .. k - 1 : id(j) # id(k)
  <2> TAKE k \in D
  <2>1. \A j \in 1 .. k - 1 : j \in D
    BY <1>1
  <2>2. {declared[j].id : j \in 1 .. k - 1} = {id(j) : j \in 1 .. k - 1}
    BY <1>3, <2>1
  <2>3. k \in missing <=> id(k) \notin Evaluated(int) \cup {declared[j].id : j \in 1 .. k - 1}
    BY <1>3
  <2>4. id(k) \in Evaluated(int) <=> \E i \in DOMAIN rs : rs[i].id = id(k)
    BY DEF Evaluated
  <2> HIDE DEF declared, missing, id
  <2> QED BY <2>2, <2>3, <2>4
<1> HIDE DEF declared, missing
<1>6. /\ Cardinality(missing) \in Nat /\ missing \in SUBSET Nat /\ IsFiniteSet(missing)
      /\ DOMAIN more = 1 .. Cardinality(missing) /\ Len(more) = Cardinality(missing)
      /\ \A n \in 1 .. Cardinality(missing) : Place(missing, n) \in missing /\ more[n] = declared[Place(missing, n)]
      /\ \A k \in missing : \E n \in DOMAIN more : more[n] = declared[k]
  <2>1. L \in Nat /\ DOMAIN declared = 1 .. L /\ missing \in SUBSET DOMAIN declared
    BY <1>1, <1>3, <1>4
  <2> HIDE DEF L
  <2> QED BY <2>1, SelectedIs
<1>7. \A m, n \in 1 .. Cardinality(missing) : m < n => Place(missing, m) < Place(missing, n)
  BY <1>6, Places
<1>8. IsList(more)
  <2>1. more = [n \in 1 .. Cardinality(missing) |-> declared[Place(missing, n)]]
    BY DEF Selected
  <2> DEFINE T == {declared[Place(missing, n)] : n \in 1 .. Cardinality(missing)}
  <2>2. more \in Seq(T)
    BY <1>6, <2>1
  <2> QED BY <2>2 DEF IsList
<1> HIDE DEF more, rs, id, D
<1>9. /\ IsList(all) /\ Len(rs) \in Nat
      /\ \A i \in DOMAIN rs : i \in DOMAIN all /\ all[i] = rs[i]
      /\ \A k \in DOMAIN more : Len(rs) + k \in DOMAIN all /\ all[Len(rs) + k] = more[k]
      /\ \A i \in DOMAIN all : i \in DOMAIN rs \/ \E k \in DOMAIN more : i = Len(rs) + k
  <2>1. PICK S : rs \in Seq(S)
    BY DEF IsList, rs
  <2>2. PICK T : more \in Seq(T)
    BY <1>8 DEF IsList
  <2> DEFINE V == S \cup T
  <2>3. rs \in Seq(V) /\ more \in Seq(V) /\ Len(rs) \in Nat
    BY <2>1, <2>2
  <2> HIDE DEF V
  <2>4. all \in Seq(V)
    BY <2>3, ConcatParts
  <2>5. IsList(all)
    BY <2>4 DEF IsList
  <2> QED BY <2>3, <2>5, ConcatParts
<1> HIDE DEF all
<1>10. Once(flow, rs) /\ \A i \in DOMAIN rs : \E p \in Checking(flow, b) : rs[i].id = CheckAt(flow, p)
  BY ListedAre DEF rs
<1>11. ASSUME NEW i \in DOMAIN more, NEW j \in DOMAIN more, more[i].id = more[j].id PROVE i = j
  <2> DEFINE k == Place(missing, i)
             l == Place(missing, j)
  <2>1. k \in missing /\ l \in missing /\ k \in D /\ l \in D /\ id(k) = id(l)
    BY <1>3, <1>4, <1>6, <1>11
  <2>2. (i < j => k < l) /\ (j < i => l < k)
    BY <1>6, <1>7
  <2> HIDE DEF k, l
  <2>3. ~(k < l) /\ ~(l < k)
    BY <1>1, <1>5, <2>1
  <2>4. i \in Nat /\ j \in Nat
    BY <1>6
  <2> QED BY <2>2, <2>3, <2>4
<1>12. ASSUME NEW i \in DOMAIN rs, NEW j \in DOMAIN more PROVE rs[i].id # more[j].id
  <2> DEFINE k == Place(missing, j)
  <2>1. k \in missing /\ more[j] = declared[k]
    BY <1>6
  <2> HIDE DEF k
  <2>2. k \in D /\ more[j].id = id(k)
    BY <1>3, <1>4, <2>1
  <2> QED BY <1>5, <2>1, <2>2
<1>13. Once(flow, all)
  <2> SUFFICES ASSUME NEW i \in DOMAIN all, NEW j \in DOMAIN all, all[i].id = all[j].id, i # j
               PROVE  \E x, y \in Inline(flow) :
                        {flow.actions[x].value.id, flow.actions[y].value.id} = {all[i].id} /\ x # y
    BY DEF Once
  <2>1. CASE i \in DOMAIN rs /\ j \in DOMAIN rs
    <3>1. all[i] = rs[i] /\ all[j] = rs[j]
      BY <1>9, <2>1
    <3>2. Once(flow, rs) /\ rs[i].id = rs[j].id
      BY <1>10, <3>1
    <3>3. \E x, y \in Inline(flow) : {flow.actions[x].value.id, flow.actions[y].value.id} = {rs[i].id} /\ x # y
      BY <2>1, <3>2, Zenon DEF Once
    <3> QED BY <3>1, <3>3
  <2>2. ASSUME i \in DOMAIN rs, NEW k \in DOMAIN more, j = Len(rs) + k PROVE FALSE
    BY <1>9, <1>12, <2>2
  <2>3. ASSUME j \in DOMAIN rs, NEW k \in DOMAIN more, i = Len(rs) + k PROVE FALSE
    BY <1>9, <1>12, <2>3
  <2>4. ASSUME NEW k \in DOMAIN more, i = Len(rs) + k, NEW l \in DOMAIN more, j = Len(rs) + l PROVE FALSE
    BY <1>9, <1>11, <2>4
  <2> QED BY <1>9, <2>1, <2>2, <2>3, <2>4
<1>14. \A k \in D : \E i \in DOMAIN all : all[i].id = id(k)
  <2> TAKE k \in D
  <2>1. CASE \E i \in DOMAIN rs : rs[i].id = id(k)
    BY <1>9, <2>1
  <2>2. CASE \A i \in DOMAIN rs : rs[i].id # id(k)
    <3> DEFINE S == {j \in D : id(j) = id(k)}
    <3>1. S \in SUBSET Nat /\ S # {}
      BY <1>1
    <3>2. PICK f \in S : \A j \in S : f <= j
      <4> HIDE DEF S
      <4> QED BY <3>1, LeastOfNumbers
    <3>3. \A j \in 1 .. f - 1 : j \in D /\ ~(f <= j)
      BY <1>1
    <3>4. \A j \in 1 .. f - 1 : id(j) # id(f)
      BY <3>2, <3>3
    <3>5. f \in missing
      BY <1>5, <2>2, <3>4
    <3>6. PICK n \in DOMAIN more : more[n] = declared[f]
      BY <1>6, <3>5
    <3>7. more[n].id = id(k)
      BY <1>3, <3>6
    <3> QED BY <1>9, <3>7
  <2> QED BY <2>1, <2>2
<1>15. StopAll(int).results = all
  BY <1>2 DEF IntFields
<1> QED BY <1>2, <1>9, <1>13, <1>14, <1>15 DEF Accounted, D, id

-----------------------------------------------------------------------------
(* The order of the generated suite.                                       *)

Both(A, N, J) == A \cup {N + k : k \in J}

\* The places of two sets, of which one comes after the other.
LEMMA Joined ==
  ASSUME NEW N \in Nat, NEW A \in SUBSET (1 .. N), NEW J \in SUBSET (Nat \ {0}), IsFiniteSet(J)
  PROVE  LET U == Both(A, N, J) IN
         /\ Cardinality(A) \in Nat /\ Cardinality(J) \in Nat
         /\ Cardinality(U) = Cardinality(A) + Cardinality(J)
         /\ \A i \in 1 .. Cardinality(A) : Place(U, i) = Place(A, i) /\ Place(A, i) \in A
         /\ \A j \in 1 .. Cardinality(J) : Place(U, Cardinality(A) + j) = N + Place(J, j) /\ Place(J, j) \in J
<1> DEFINE U == Both(A, N, J)
           a == Cardinality(A)
           c == Cardinality(J)
           e == [i \in 1 .. a + c |-> IF i <= a THEN Place(A, i) ELSE N + Place(J, i - a)]
<1>1. IsFiniteSet(A) /\ A \in SUBSET Nat /\ J \in SUBSET Nat
  <2>1. IsFiniteSet(1 .. N)
    BY FS_Interval
  <2>2. IsFiniteSet(A)
    BY <2>1, FS_Subset
  <2> QED BY <2>2
<1>2. /\ a \in Nat
      /\ \A i \in 1 .. a : Place(A, i) \in A
      /\ \A i, j \in 1 .. a : i < j => Place(A, i) < Place(A, j)
      /\ \A k \in A : \E i \in 1 .. a : Place(A, i) = k
  BY <1>1, Places
<1>3. /\ c \in Nat
      /\ \A i \in 1 .. c : Place(J, i) \in J
      /\ \A i, j \in 1 .. c : i < j => Place(J, i) < Place(J, j)
      /\ \A k \in J : \E i \in 1 .. c : Place(J, i) = k
  BY <1>1, Places
<1>4. \A k \in A : k \in Nat /\ k <= N /\ k \in U
  BY DEF Both
<1>5. \A k \in J : k \in Nat /\ k > 0 /\ N + k \in U /\ N + k > N
  BY DEF Both
<1>6. \A k \in U : k \in A \/ \E j \in J : k = N + j
  BY DEF Both
<1>7. U \in SUBSET Nat
  <2>1. \A k \in J : N + k \in Nat
    BY <1>5
  <2> QED BY <1>4, <1>6, <2>1
<1> HIDE DEF U, a, c
<1>8. /\ \A i \in 1 .. a : i \in 1 .. a + c /\ i <= a
      /\ \A j \in 1 .. c : a + j \in 1 .. a + c /\ ~(a + j <= a) /\ (a + j) - a = j
      /\ \A i \in 1 .. a + c : i \in 1 .. a \/ (i - a \in 1 .. c /\ i = a + (i - a))
      /\ a + c \in Nat
  BY <1>2, <1>3
<1>9. /\ \A i \in 1 .. a : e[i] = Place(A, i) /\ e[i] \in U
      /\ \A j \in 1 .. c : e[a + j] = N + Place(J, j) /\ e[a + j] \in U
  BY <1>2, <1>3, <1>4, <1>5, <1>8
<1>10. e \in [1 .. a + c -> U]
  <2>1. \A i \in 1 .. a + c : e[i] \in U
    <3> HIDE DEF e
    <3> TAKE i \in 1 .. a + c
    <3>1. i \in 1 .. a \/ \E j \in 1 .. c : i = a + j
      BY <1>8
    <3> QED BY <1>9, <3>1
  <2>2. e = [i \in 1 .. a + c |-> e[i]]
    OBVIOUS
  <2> HIDE DEF e
  <2> QED BY <2>1, <2>2
<1> HIDE DEF e
<1>11. \A i, j \in 1 .. a + c : i < j => e[i] < e[j]
  <2> SUFFICES ASSUME NEW i \in 1 .. a + c, NEW j \in 1 .. a + c, i < j PROVE e[i] < e[j]
    OBVIOUS
  <2>1. CASE i \in 1 .. a /\ j \in 1 .. a
    BY <1>2, <1>9, <2>1
  <2>2. CASE i \in 1 .. a /\ j - a \in 1 .. c /\ j = a + (j - a)
    <3>1. e[i] \in A
      BY <1>2, <1>9, <2>2
    <3>2. PICK l \in 1 .. c : j = a + l
      BY <2>2
    <3>3. e[j] = N + Place(J, l) /\ Place(J, l) \in J
      BY <1>3, <1>9, <3>2
    <3> DEFINE k == Place(J, l)
    <3>6. k \in J /\ e[j] = N + k
      BY <3>3
    <3> HIDE DEF k
    <3>7. k \in Nat /\ k > 0
      BY <1>5, <3>6
    <3>4. e[j] > N /\ e[j] \in Nat
      BY <3>6, <3>7
    <3>5. e[i] \in Nat /\ e[i] <= N
      BY <1>4, <3>1
    <3> QED BY <3>4, <3>5
  <2>3. CASE /\ i - a \in 1 .. c /\ i = a + (i - a)
             /\ j - a \in 1 .. c /\ j = a + (j - a)
    <3> DEFINE k == i - a
               l == j - a
    <3>1. k < l
      BY <1>2, <2>3
    <3>2. e[i] = N + Place(J, k) /\ e[j] = N + Place(J, l) /\ k \in 1 .. c /\ l \in 1 .. c
      BY <1>9, <2>3
    <3> HIDE DEF k, l
    <3>3. Place(J, k) < Place(J, l) /\ Place(J, k) \in Nat /\ Place(J, l) \in Nat
      BY <1>3, <1>5, <3>1, <3>2
    <3> QED BY <3>2, <3>3
  <2>4. CASE i - a \in 1 .. c /\ j \in 1 .. a
    BY <1>2, <1>3, <2>4
  <2> QED BY <1>8, <2>1, <2>2, <2>3, <2>4
<1>12. \A k \in U : \E i \in 1 .. a + c : e[i] = k
  <2> SUFFICES ASSUME NEW k \in U PROVE \E i \in 1 .. a + c : e[i] = k
    OBVIOUS
  <2>1. CASE k \in A
    <3>1. PICK i \in 1 .. a : Place(A, i) = k
      BY <1>2, <2>1
    <3> QED BY <1>8, <1>9, <3>1
  <2>2. ASSUME NEW l \in J, k = N + l PROVE \E i \in 1 .. a + c : e[i] = k
    <3>1. PICK j \in 1 .. c : Place(J, j) = l
      BY <1>3
    <3> QED BY <1>8, <1>9, <2>2, <3>1
  <2> QED BY <1>6, <2>1, <2>2
<1>13. Cardinality(U) = a + c /\ \A i \in 1 .. a + c : Place(U, i) = e[i]
  BY <1>7, <1>8, <1>10, <1>11, <1>12, Enumerated
<1>14. /\ \A i \in 1 .. a : Place(U, i) = Place(A, i)
       /\ \A j \in 1 .. c : Place(U, a + j) = N + Place(J, j)
  BY <1>8, <1>9, <1>13
<1>15. a \in Nat /\ c \in Nat /\ Cardinality(U) = a + c
  BY <1>2, <1>3, <1>13
<1>16. \A i \in 1 .. a : Place(U, i) = Place(A, i) /\ Place(A, i) \in A
  BY <1>2, <1>14
<1>17. \A j \in 1 .. c : Place(U, a + j) = N + Place(J, j) /\ Place(J, j) \in J
  BY <1>3, <1>14
<1> QED BY <1>15, <1>16, <1>17, Zenon DEF U, a, c

\* With every id declared once, what the generated suite checks is in the order
\* of the results of a run that was not stopped.
LEMMA SuiteOrder ==
  ASSUME NEW e, IsFlow(e), NEW rs, IsList(rs), Listed(e, rs, Checking(e, After(e))),
         \A j, k \in DOMAIN e.assertions : e.assertions[j].id = e.assertions[k].id => j = k,
         NEW suite \in suiteGenerate(e)
  PROVE  LET checks == Selected(suite, {k \in DOMAIN suite : suite[k].checks # <<>>})
         IN [i \in DOMAIN rs |-> <<rs[i].id>>] = [k \in DOMAIN checks |-> checks[k].checks]
<1> DEFINE id(j) == e.assertions[j].id
           N == Len(e.actions)
           A == Inline(e)
           J == {k \in DOMAIN e.assertions : e.assertions[k].id \notin InlineIds(e)}
           remaining == Selected(e.assertions, J)
           a == Cardinality(A)
           c == Cardinality(J)
           first == [i \in DOMAIN e.actions |-> actionLines(e.actions[i])]
           rest == [k \in DOMAIN remaining |-> assertionLines(remaining[k])]
           lines == first \o rest
           C == {k \in DOMAIN suite : suite[k].checks # <<>>}
           checks == Selected(suite, C)
           W == Checking(e, After(e))
<1>1. /\ N \in Nat /\ DOMAIN e.actions = 1 .. N
      /\ Len(e.assertions) \in Nat /\ DOMAIN e.assertions = 1 .. Len(e.assertions)
  BY DEF IsFlow
<1>0. After(e) = N + Len(e.assertions) + 1 /\ After(e) \in Nat
  <2>1. After(e) = N + Len(e.assertions) + 1
    BY DEF After
  <2> HIDE DEF N
  <2> QED BY <1>1, <2>1
<1>2. A \in SUBSET (1 .. N) /\ J \in SUBSET DOMAIN e.assertions
  BY <1>1 DEF Inline
<1>3. /\ c \in Nat /\ IsFiniteSet(J) /\ DOMAIN remaining = 1 .. c /\ Len(remaining) = c
      /\ \A n \in 1 .. c : Place(J, n) \in J /\ remaining[n] = e.assertions[Place(J, n)]
  <2> HIDE DEF J
  <2> QED BY <1>1, <1>2, SelectedIs
<1>4. J \in SUBSET (Nat \ {0})
  BY <1>1
<1>5. Firsts(e) = J
  <2>1. \A k \in DOMAIN e.assertions : \A j \in 1 .. k - 1 : j \in DOMAIN e.assertions /\ j # k
    BY <1>1
  <2>2. \A k \in DOMAIN e.assertions : id(k) \notin {id(j) : j \in 1 .. k - 1}
    BY <2>1
  <2> QED BY <2>2 DEF Firsts
<1>6. W = Both(A, N, J)
  <2>1. \A p : p \in W <=> p < After(e) /\ (p \in A \/ \E k \in J : p = N + k)
    BY <1>5 DEF Checking
  <2> HIDE DEF W, A, J, N
  <2>2. \A p \in A : p < After(e)
    <3>1. \A p \in A : p \in 1 .. N
      BY <1>2
    <3> QED BY <1>0, <1>1, <3>1
  <2>3. \A k \in J : N + k < After(e)
    <3>1. \A k \in J : k \in 1 .. Len(e.assertions)
      BY <1>1, <1>2
    <3> QED BY <1>0, <1>1, <3>1
  <2> QED BY <2>1, <2>2, <2>3 DEF Both
\* The lines of the suite.
<1>7. /\ Len(first) = N /\ DOMAIN first = 1 .. N /\ Len(rest) = c /\ DOMAIN rest = 1 .. c
      /\ IsList(first) /\ IsList(rest)
      /\ \A i \in 1 .. N : first[i] = actionLines(e.actions[i])
      /\ \A n \in 1 .. c : rest[n] = assertionLines(e.assertions[Place(J, n)])
  <2> DEFINE S == {actionLines(e.actions[i]) : i \in 1 .. N}
             T == {assertionLines(remaining[k]) : k \in 1 .. c}
  <2> HIDE DEF J, remaining, c, N
  <2>1. first = [i \in 1 .. N |-> actionLines(e.actions[i])]
        /\ rest = [k \in 1 .. c |-> assertionLines(remaining[k])]
    BY <1>1, <1>3 DEF N
  <2> HIDE DEF first, rest
  <2>2. first \in Seq(S) /\ rest \in Seq(T)
    BY <1>1, <1>3, <2>1
  <2>3. IsList(first) /\ IsList(rest)
    BY <2>2 DEF IsList
  <2>4. \A n \in 1 .. c : rest[n] = assertionLines(e.assertions[Place(J, n)])
    BY <1>3, <2>1
  <2> QED BY <1>1, <1>3, <2>1, <2>3, <2>4
<1> HIDE DEF first, rest
<1>8. /\ DOMAIN lines = 1 .. N + c
      /\ \A i \in 1 .. N : lines[i] = actionLines(e.actions[i])
      /\ \A n \in 1 .. c : lines[N + n] = assertionLines(e.assertions[Place(J, n)])
  <2>1. PICK S : first \in Seq(S)
    BY <1>7 DEF IsList
  <2>2. PICK T : rest \in Seq(T)
    BY <1>7 DEF IsList
  <2> DEFINE V == S \cup T
  <2>3. first \in Seq(V) /\ rest \in Seq(V)
    BY <2>1, <2>2
  <2> HIDE DEF V, N, c, J
  <2>4. /\ lines \in Seq(V) /\ Len(lines) = Len(first) + Len(rest)
        /\ \A i \in DOMAIN first : lines[i] = first[i]
        /\ \A k \in DOMAIN rest : lines[Len(first) + k] = rest[k]
    BY <2>3, ConcatParts
  <2>5. DOMAIN lines = 1 .. N + c
    BY <1>7, <2>4
  <2> HIDE DEF lines
  <2> QED BY <1>7, <2>4, <2>5
<1>9. {} \notin Range(lines) /\ suite = [k \in DOMAIN lines |-> CHOOSE l \in lines[k] : TRUE]
  <2>1. suite \in IF {} \in Range(lines) THEN {} ELSE {[k \in DOMAIN lines |-> CHOOSE l \in lines[k] : TRUE]}
    BY DEF suiteGenerate, first, rest
  <2> HIDE DEF lines
  <2> QED BY <2>1
<1> HIDE DEF lines
<1>10. DOMAIN suite = 1 .. N + c /\ \A k \in DOMAIN suite : suite[k] \in lines[k]
  <2>1. \A k \in DOMAIN lines : lines[k] # {}
    BY <1>9 DEF Range
  <2> QED BY <1>8, <1>9, <2>1
<1>11. \A x : \A l \in assertionLines(x) : l.checks = <<x.id>>
  BY DEF assertionLines
<1>12. \A x : \A l \in actionLines(x) : l.checks = IF x.type = "assert" THEN <<x.value.id>> ELSE <<>>
  BY <1>11 DEF actionLines
<1>13. \A i \in 1 .. N : i \in DOMAIN suite /\ suite[i].checks = IF i \in A THEN <<e.actions[i].value.id>> ELSE <<>>
  <2> TAKE i \in 1 .. N
  <2>1. i \in DOMAIN suite /\ suite[i] \in actionLines(e.actions[i])
    BY <1>1, <1>3, <1>8, <1>10
  <2>2. i \in A <=> e.actions[i].type = "assert"
    BY <1>1 DEF Inline
  <2> QED BY <1>12, <2>1, <2>2
<1>14. \A n \in 1 .. c : N + n \in DOMAIN suite /\ suite[N + n].checks = <<id(Place(J, n))>>
  <2> TAKE n \in 1 .. c
  <2> HIDE DEF N, c, J
  <2>2. N + n \in 1 .. N + c
    BY <1>1, <1>3
  <2>1. N + n \in DOMAIN suite /\ suite[N + n] \in assertionLines(e.assertions[Place(J, n)])
    BY <1>8, <1>10, <2>2
  <2> QED BY <1>11, <2>1
<1> HIDE DEF id, A, J, N
<1>15. \A x : <<x>> # <<>>
  OBVIOUS
<1>16. C = Both(A, N, 1 .. c)
  <2>1. \A k \in DOMAIN suite : k \in 1 .. N \/ \E n \in 1 .. c : k = N + n
    <3> TAKE k \in DOMAIN suite
    <3>1. k \in 1 .. N \/ (k - N \in 1 .. c /\ k = N + (k - N))
      BY <1>1, <1>3, <1>10
    <3> QED BY <3>1
  <2>2. \A k : k \in C <=> k \in DOMAIN suite /\ suite[k].checks # <<>>
    OBVIOUS
  <2> HIDE DEF C
  <2>3. \A k \in A : k \in C
    BY <1>2, <1>13, <1>15, <2>2
  <2>4. \A n \in 1 .. c : N + n \in C
    BY <1>14, <1>15, <2>2
  <2>5. \A k \in C : k \in A \/ \E n \in 1 .. c : k = N + n
    BY <1>13, <2>1, <2>2
  <2> QED BY <2>3, <2>4, <2>5 DEF Both
\* Both are numbered alike.
<1>17. /\ a \in Nat /\ Cardinality(W) = a + c
       /\ \A i \in 1 .. a : Place(W, i) = Place(A, i) /\ Place(A, i) \in A
       /\ \A j \in 1 .. c : Place(W, a + j) = N + Place(J, j) /\ Place(J, j) \in J
  <2> HIDE DEF W
  <2>1. N \in Nat /\ IsFiniteSet(J)
    BY <1>1, <1>3
  <2>3. A \in SUBSET (1 .. N) /\ J \in SUBSET (Nat \ {0})
    BY <1>2, <1>4
  <2> HIDE DEF c, C, a
  <2>2. LET U == Both(A, N, J) IN
        /\ Cardinality(A) \in Nat /\ Cardinality(J) \in Nat
        /\ Cardinality(U) = Cardinality(A) + Cardinality(J)
        /\ \A i \in 1 .. Cardinality(A) : Place(U, i) = Place(A, i) /\ Place(A, i) \in A
        /\ \A j \in 1 .. Cardinality(J) : Place(U, Cardinality(A) + j) = N + Place(J, j) /\ Place(J, j) \in J
    BY <2>1, <2>3, Joined
  <2> QED BY <1>6, <2>2, Zenon DEF a, c
<1>18. /\ Cardinality(C) = a + c
       /\ \A i \in 1 .. a : Place(C, i) = Place(A, i)
       /\ \A j \in 1 .. c : Place(C, a + j) = N + j
  <2> DEFINE K == 1 .. c
  <2> HIDE DEF A, C, J
  <2>1. K \in SUBSET (Nat \ {0}) /\ K \in SUBSET Nat
    BY <1>3
  <2>2. c \in Nat
    BY <1>3
  <2> HIDE DEF c
  <2>3. IsFiniteSet(K) /\ Cardinality(K) = c /\ \A i \in 1 .. c : Place(K, i) = i
    BY <2>2, FirstOnes
  <2> HIDE DEF K
  <2>4. C = Both(A, N, K)
    BY <1>16 DEF K
  <2>5. N \in Nat /\ c \in Nat
    BY <1>1, <1>3
  <2>6. /\ Cardinality(C) = a + Cardinality(K)
        /\ \A i \in 1 .. a : Place(C, i) = Place(A, i)
        /\ \A j \in 1 .. Cardinality(K) : Place(C, a + j) = N + Place(K, j)
    <3> HIDE DEF C, c
    <3>1. LET U == Both(A, N, K) IN
          /\ Cardinality(U) = a + Cardinality(K)
          /\ \A i \in 1 .. a : Place(U, i) = Place(A, i)
          /\ \A j \in 1 .. Cardinality(K) : Place(U, a + j) = N + Place(K, j)
      BY <1>2, <2>1, <2>3, <2>5, Joined
    <3> QED BY <2>4, <3>1, Zenon
  <2> HIDE DEF C, c
  <2> QED BY <2>3, <2>6
<1>19. /\ Len(checks) = a + c /\ DOMAIN checks = 1 .. a + c
       /\ \A n \in 1 .. a + c : checks[n] = suite[Place(C, n)]
  <2>1. C \in SUBSET DOMAIN suite /\ N + c \in Nat
    BY <1>1, <1>3
  <2> HIDE DEF C, a, c
  <2> QED BY <1>10, <1>18, <2>1, SelectedIs
<1>20. /\ DOMAIN rs = 1 .. a + c
       /\ \A i \in 1 .. a + c : rs[i].id = CheckAt(e, Place(W, i))
  BY <1>17, ListIs DEF Listed
<1>21. /\ \A p \in A : CheckAt(e, p) = e.actions[p].value.id
       /\ \A k \in J : CheckAt(e, N + k) = id(k)
  <2>2. /\ \A p \in Inline(e) : CheckAt(e, p) = e.actions[p].value.id
        /\ \A k \in Firsts(e) : CheckAt(e, Len(e.actions) + k) = e.assertions[k].id
    BY <1>0, CheckingIs
  <2> QED BY <1>5, <2>2 DEF A, N, id
<1> HIDE DEF C, checks, W, a, c
<1>22. ASSUME NEW i \in 1 .. a + c PROVE <<rs[i].id>> = checks[i].checks
  <2>1. CASE i \in 1 .. a
    <3>1. rs[i].id = e.actions[Place(A, i)].value.id /\ Place(A, i) \in A
      BY <1>17, <1>20, <1>21, <2>1
    <3>2. checks[i] = suite[Place(A, i)]
      BY <1>18, <1>19, <2>1
    <3>3. Place(A, i) \in 1 .. N
      BY <1>2, <3>1
    <3> QED BY <1>13, <3>1, <3>2, <3>3
  <2>2. ASSUME NEW j \in 1 .. c, i = a + j PROVE <<rs[i].id>> = checks[i].checks
    <3>1. rs[i].id = id(Place(J, j))
      BY <1>17, <1>20, <1>21, <2>2
    <3>2. checks[i] = suite[N + j]
      BY <1>18, <1>19, <2>2
    <3> QED BY <1>14, <3>1, <3>2
  <2>3. i \in 1 .. a \/ \E j \in 1 .. c : i = a + j
    <3>1. i \in 1 .. a \/ (i - a \in 1 .. c /\ i = a + (i - a))
      BY <1>3, <1>17
    <3> QED BY <3>1
  <2> QED BY <2>1, <2>2, <2>3
<1> QED BY <1>19, <1>20, <1>22 DEF checks, C

\* While the run is under way its results are those of the places it has passed.
Underway(e, i) ==
  \E b \in Nat : /\ i.next <= Len(e.actions) => b = i.next
                 /\ i.next > Len(e.actions) => b > Len(e.actions)
                 /\ Listed(e, i.results, Checking(e, b))

\* What is on record of a run that came to its end.
OnRecord(e, i) ==
  /\ Accounted(e, i.results)
  /\ ~i.automation => Listed(e, i.results, Checking(e, After(e)))

ResultsOf(e, i) ==
  /\ IsFlow(e) /\ IsList(i.results)
  /\ i.pc \in {"idle", "launch"} => i.next = 1 /\ i.results = <<>>
  /\ i.pc \in {"start", "execute"} => i.next <= Len(e.actions) + 1 /\ Underway(e, i)
  /\ i.pc = "execute" => i.next <= Len(e.actions)
  /\ i.pc \in {"close", "seal", "sealed"} /\ ~i.infra /\ ~shouldBlockDestructiveExecution(e) => OnRecord(e, i)

ResultsOK == ResultsOf(flow, int)

\* A proposal is a list of actions and one assertion.
LEMMA SuggestedIsFlow ==
  ASSUME recording \in Seq(Alphabet), NEW p \in Suggested
  PROVE  IsFlow(Authored(p))
<1> DEFINE actions == ProposedActions(Steps, readOptionalScreens(Screens), Secrets)
           K == {i \in DOMAIN Steps : ~isDropped(Steps[i])}
           kept == Selected(Steps, K)
<1>1. DOMAIN kept = 1 .. Cardinality(K) /\ Cardinality(K) \in Nat
  <2>1. Len(Steps) \in Nat /\ DOMAIN Steps = 1 .. Len(Steps) /\ K \in SUBSET DOMAIN Steps
    BY StepsAre
  <2> HIDE DEF K
  <2> QED BY <2>1, SelectedIs
<1>2. actions = <<>> \/ DOMAIN actions = DOMAIN kept
  BY DEF ProposedActions, translateAuthoredSteps
<1>3. \E n \in Nat : DOMAIN actions = 1 .. n
  <2>1. DOMAIN <<>> = 1 .. 0
    OBVIOUS
  <2> HIDE DEF actions, kept, K
  <2> QED BY <1>1, <1>2, <2>1
<1>4. PICK a : /\ DOMAIN p.actions = DOMAIN actions /\ p.assertions = <<a>>
               /\ \E f : p.actions = [i \in DOMAIN actions |-> f[i]]
  BY DEF Suggested, buildAuthoredGateProposal
<1> HIDE DEF actions
<1>5. DOMAIN p.actions = 1 .. Len(p.actions) /\ Len(p.actions) \in Nat
  BY <1>3, <1>4
<1>6. DOMAIN p.assertions = 1 .. Len(p.assertions) /\ Len(p.assertions) \in Nat
  BY <1>4
<1> QED BY <1>5, <1>6 DEF IsFlow, Authored

\* The list of no results.
LEMMA EmptyList ==
  IsList(<<>>) /\ Len(<<>>) = 0
<1>1. <<>> \in Seq({})
  OBVIOUS
<1> QED BY <1>1 DEF IsList

\* The steps of ResultsOK, action by action.
LEMMA ResultsInitially == Init => ResultsOK
<1> SUFFICES ASSUME Init PROVE ResultsOK
  OBVIOUS
<1>1. flow = NoFlow /\ int = Ready
  BY DEF Init, RunInit
<1>2. IsFlow(flow)
  BY <1>1 DEF IsFlow, NoFlow
<1>3. int.pc = "idle" /\ int.next = 1 /\ int.results = <<>>
  BY <1>1 DEF Ready
<1> QED BY <1>2, <1>3, EmptyList DEF ResultsOK, ResultsOf

\* Nothing is checked before the first place.
LEMMA NothingBefore ==
  ASSUME NEW e, IsFlow(e)
  PROVE  Listed(e, <<>>, Checking(e, 1))
<1>1. \A p \in Checking(e, 1) : p < 1 /\ p \in Nat /\ p > 0
  <2>1. 1 \in Nat /\ Len(e.actions) \in Nat
    BY DEF IsFlow
  <2>2. Checking(e, 1) \in SUBSET Nat
    BY <2>1, CheckingIs
  <2>3. \A p \in Checking(e, 1) : p < 1 /\ (p \in Inline(e) \/ p > Len(e.actions))
    BY <2>1, CheckingIs
  <2>4. \A p \in Inline(e) : p \in 1 .. Len(e.actions)
    BY <2>1, CheckingIs
  <2> QED BY <2>1, <2>2, <2>3, <2>4
<1>2. Checking(e, 1) = {}
  BY <1>1
<1> QED BY <1>2, FS_EmptySet, EmptyList DEF Listed

\* A step that leaves the results, the experiment and the place as they are.
LEMMA ResultsStay ==
  ASSUME IInv, ResultsOK, flow' = flow, NEW pc, int' = [int EXCEPT !.pc = pc],
         \/ int.pc = "close" /\ pc = "seal"
         \/ int.pc = "seal" /\ pc = "sealed"
  PROVE  ResultsOK'
<1>1. DOMAIN int = IntFields
  BY DEF IInv, InterpreterOK
<1>2. /\ int'.pc = pc /\ int'.results = int.results /\ int'.infra = int.infra
      /\ int'.automation = int.automation /\ pc \in {"seal", "sealed"}
  BY <1>1 DEF IntFields
<1>3. OnRecord(flow, int) => OnRecord(flow, int')
  BY <1>2 DEF OnRecord
<1> QED BY <1>2, <1>3 DEF ResultsOK, ResultsOf

\* An experiment that is queued has no results.
LEMMA ResultsEnqueue ==
  ASSUME IInv, ResultsOK, NEW e, IsFlow(e), Enqueue(e)
  PROVE  ResultsOK'
<1>1. DOMAIN int = IntFields
  BY DEF IInv, InterpreterOK
<1>2. flow' = e /\ int.pc = "idle" /\ int' = [int EXCEPT !.pc = "launch"]
  BY DEF Enqueue, At
<1>3. int'.pc = "launch" /\ int'.next = int.next /\ int'.results = int.results
  BY <1>1, <1>2 DEF IntFields
<1> QED BY <1>2, <1>3 DEF ResultsOK, ResultsOf

\* A run that begins has none either, and one that is refused is not counted.
LEMMA ResultsLaunch ==
  ASSUME IInv, ResultsOK, Launch
  PROVE  ResultsOK'
<1> DEFINE block == shouldBlockDestructiveExecution(flow)
<1>1. DOMAIN int = IntFields
  BY DEF IInv, InterpreterOK
<1>2. /\ flow' = flow /\ int.pc = "launch"
      /\ \/ int' = [int EXCEPT !.pc = "close", !.infra = TRUE]
         \/ int' = [int EXCEPT !.pc = IF block THEN "close" ELSE "start", !.manifest = TRUE, !.automation = block]
  BY DEF Launch, At
<1>3. IsFlow(flow) /\ IsList(int.results) /\ int.next = 1 /\ int.results = <<>> /\ Len(flow.actions) \in Nat
  BY <1>2 DEF ResultsOK, ResultsOf, IsFlow
<1> HIDE DEF block
<1>4. CASE int' = [int EXCEPT !.pc = "close", !.infra = TRUE]
  <2>1. int'.pc = "close" /\ int'.infra = TRUE /\ int'.results = int.results
    BY <1>1, <1>4 DEF IntFields
  <2> QED BY <1>2, <1>3, <2>1 DEF ResultsOK, ResultsOf
<1>5. CASE int' = [int EXCEPT !.pc = IF block THEN "close" ELSE "start", !.manifest = TRUE, !.automation = block]
  <2>1. int'.pc = (IF block THEN "close" ELSE "start") /\ int'.results = <<>> /\ int'.next = 1
    BY <1>1, <1>3, <1>5 DEF IntFields
  <2>2. CASE block
    BY <1>2, <1>3, <2>1, <2>2 DEF ResultsOK, ResultsOf, block
  <2>3. CASE ~block
    <3>1. Underway(flow, int')
      <4>1. 1 \in Nat /\ (1 > Len(flow.actions) => 1 > Len(flow.actions))
        OBVIOUS
      <4>2. Listed(flow, int'.results, Checking(flow, 1))
        BY <1>3, <2>1, NothingBefore
      <4> QED BY <2>1, <4>1, <4>2 DEF Underway
    <3>2. int'.pc = "start" /\ int'.next <= Len(flow.actions) + 1
      BY <1>3, <2>1, <2>3
    <3> QED BY <1>2, <1>3, <2>1, <3>1, <3>2 DEF ResultsOK, ResultsOf
  <2> QED BY <2>2, <2>3
<1> QED BY <1>2, <1>4, <1>5

\* An action that starts changes no result.
LEMMA ResultsStart ==
  ASSUME IInv, ResultsOK, ActionStart
  PROVE  ResultsOK'
<1>1. DOMAIN int = IntFields
  BY DEF IInv, InterpreterOK
<1>2. flow' = flow /\ int.pc = "start" /\ int' = [int EXCEPT !.pc = "execute"] /\ int.next <= Len(flow.actions)
  BY DEF ActionStart, At
<1>3. int'.pc = "execute" /\ int'.next = int.next /\ int'.results = int.results
  BY <1>1, <1>2 DEF IntFields
<1>4. Underway(flow, int')
  BY <1>2, <1>3 DEF ResultsOK, ResultsOf, Underway
<1> QED BY <1>2, <1>3, <1>4 DEF ResultsOK, ResultsOf

\* An inline assertion is checked at its own place.
LEMMA ResultsSucceed ==
  ASSUME IInv, ResultsOK, ActionSucceeds
  PROVE  ResultsOK'
<1> DEFINE n == int.next
           N == Len(flow.actions)
           a == flow.actions[n]
           W == Checking(flow, n)
<1>1. DOMAIN int = IntFields /\ n \in Nat \ {0}
  BY DEF IInv, InterpreterOK
<1>2. /\ flow' = flow /\ int.pc = "execute"
      /\ \E r : \E nav :
           int' = [int EXCEPT !.pc = "start", !.next = @ + 1, !.navigated = nav,
                              !.results = IF a.type = "assert" THEN Append(@, Outcome(a.value, r)) ELSE @]
  BY DEF ActionSucceeds, At
<1>3. PICK r, nav :
        int' = [int EXCEPT !.pc = "start", !.next = @ + 1, !.navigated = nav,
                           !.results = IF a.type = "assert" THEN Append(@, Outcome(a.value, r)) ELSE @]
  BY <1>2
<1>4. /\ IsFlow(flow) /\ IsList(int.results) /\ n <= N /\ N \in Nat /\ DOMAIN flow.actions = 1 .. N
      /\ Listed(flow, int.results, W)
  <2>1. IsFlow(flow) /\ IsList(int.results) /\ n <= N /\ Underway(flow, int)
    BY <1>2 DEF ResultsOK, ResultsOf
  <2> QED BY <2>1 DEF Underway, IsFlow
<1>5. /\ int'.pc = "start" /\ int'.next = n + 1
      /\ int'.results = IF a.type = "assert" THEN Append(int.results, Outcome(a.value, r)) ELSE int.results
  BY <1>1, <1>3 DEF IntFields
<1>6. n \in Inline(flow) <=> a.type = "assert"
  BY <1>1, <1>4 DEF Inline
<1>7. \A x : x \in Checking(flow, n + 1) <=> x \in W \/ (x = n /\ a.type = "assert")
  <2>1. \A x, b : x \in Checking(flow, b) <=> x < b /\ (x \in Inline(flow) \/ \E k \in Firsts(flow) : x = N + k)
    BY DEF Checking
  <2>2. \A x \in Inline(flow) : x \in 1 .. N
    BY <1>4 DEF Inline
  <2>3. \A k \in Firsts(flow) : k \in Nat /\ k > 0
    BY <1>4, FirstsAre
  <2> HIDE DEF N, W, a, n
  <2> TAKE x
  <2>4. CASE x \in Inline(flow)
    <3>1. x < n + 1 <=> x < n \/ x = n
      BY <1>1, <1>4, <2>2, <2>4
    <3> QED BY <1>6, <2>1, <2>4, <3>1 DEF W
  <2>5. ASSUME NEW k \in Firsts(flow), x = N + k
        PROVE  x \in Checking(flow, n + 1) <=> x \in W \/ (x = n /\ a.type = "assert")
    <3>1. ~(x < n + 1) /\ ~(x < n) /\ x # n
      BY <1>1, <1>4, <2>3, <2>5
    <3> QED BY <2>1, <3>1 DEF W
  <2>6. CASE x \notin Inline(flow) /\ ~\E k \in Firsts(flow) : x = N + k
    BY <1>6, <2>1, <2>6 DEF W
  <2> QED BY <2>4, <2>5, <2>6
<1>8. IsList(int'.results) /\ Listed(flow, int'.results, Checking(flow, n + 1))
  <2>1. CASE a.type # "assert"
    <3>1. Checking(flow, n + 1) = W
      BY <1>7, <2>1
    <3> HIDE DEF W, a, n
    <3> QED BY <1>4, <1>5, <2>1, <3>1
  <2>2. CASE a.type = "assert"
    <3> DEFINE o == Outcome(a.value, r)
    <3>1. Checking(flow, n + 1) = W \cup {n}
      BY <1>7, <2>2
    <3>2. W \in SUBSET Nat /\ IsFiniteSet(W) /\ \A x \in W : x < n
      BY <1>1, <1>4, CheckingIs
    <3>3. o.id = CheckAt(flow, n)
      BY <1>4 DEF CheckAt, Outcome
    <3> HIDE DEF W, a, n, o
    <3>4. IsList(Append(int.results, o)) /\ Listed(flow, Append(int.results, o), W \cup {n})
      BY <1>1, <1>4, <3>2, <3>3, ListedGrows
    <3> QED BY <1>5, <2>2, <3>1, <3>4 DEF o
  <2> QED BY <2>1, <2>2
<1>9. Underway(flow, int') /\ int'.next <= N + 1
  <2>1. n + 1 \in Nat /\ n + 1 <= N + 1 /\ (n + 1 > N => n + 1 > N)
    BY <1>1, <1>4
  <2> HIDE DEF n
  <2> QED BY <1>5, <1>8, <2>1 DEF Underway
<1> QED BY <1>2, <1>4, <1>5, <1>8, <1>9 DEF ResultsOK, ResultsOf

\* A run that is stopped accounts for what it leaves.
LEMMA ResultsFail ==
  ASSUME IInv, ResultsOK, ActionFails
  PROVE  ResultsOK'
<1>1. DOMAIN int = IntFields /\ int.next \in Nat \ {0}
  BY DEF IInv, InterpreterOK
<1>2. /\ flow' = flow /\ int.pc = "execute"
      /\ \/ int' = [int EXCEPT !.pc = "close", !.infra = TRUE, !.results = <<>>, !.failedAt = int.next]
         \/ int' = [StopAll(int) EXCEPT !.pc = "close", !.automation = TRUE, !.failedAt = int.next]
  BY DEF ActionFails, At
<1>3. IsFlow(flow) /\ IsList(int.results) /\ Underway(flow, int)
  BY <1>2 DEF ResultsOK, ResultsOf
<1>4. CASE int' = [int EXCEPT !.pc = "close", !.infra = TRUE, !.results = <<>>, !.failedAt = int.next]
  <2>1. int'.pc = "close" /\ int'.infra = TRUE /\ int'.results = <<>>
    BY <1>1, <1>4 DEF IntFields
  <2> QED BY <1>2, <1>3, <2>1, EmptyList DEF ResultsOK, ResultsOf
<1>5. CASE int' = [StopAll(int) EXCEPT !.pc = "close", !.automation = TRUE, !.failedAt = int.next]
  <2>1. PICK b \in Nat : Listed(flow, int.results, Checking(flow, b))
    BY <1>3 DEF Underway
  <2>2. /\ StopAll(int) = [int EXCEPT !.results = StopAll(int).results]
        /\ IsList(StopAll(int).results) /\ Accounted(flow, StopAll(int).results)
    BY <1>1, <1>3, <2>1, StopAccounts
  <2>3. PICK results : results = StopAll(int).results
    OBVIOUS
  <2>4. int' = [[int EXCEPT !.results = results] EXCEPT !.pc = "close", !.automation = TRUE, !.failedAt = int.next]
    BY <1>5, <2>2, <2>3
  <2>5. int'.pc = "close" /\ int'.automation = TRUE /\ int'.results = results
    BY <1>1, <2>4 DEF IntFields
  <2>6. OnRecord(flow, int') /\ IsList(int'.results)
    BY <2>2, <2>3, <2>5 DEF OnRecord
  <2> QED BY <1>2, <1>3, <2>5, <2>6 DEF ResultsOK, ResultsOf
<1> QED BY <1>2, <1>4, <1>5

\* After the actions the assertions are checked in their order, each id once.
LEMMA ResultsAssert ==
  ASSUME IInv, ResultsOK, AssertNext
  PROVE  ResultsOK'
<1> DEFINE N == Len(flow.actions)
           k == Min(Remaining)
           a == flow.assertions[k]
<1>1. DOMAIN int = IntFields /\ int.next \in Nat \ {0}
  BY DEF IInv, InterpreterOK
<1>2. /\ flow' = flow /\ int.pc = "start" /\ int.next > N /\ Remaining # {}
      /\ \E r : int' = [int EXCEPT !.results = Append(@, Outcome(a, r))]
  BY DEF AssertNext, At
<1>3. PICK r : int' = [int EXCEPT !.results = Append(@, Outcome(a, r))]
  BY <1>2
<1>4. IsFlow(flow) /\ IsList(int.results) /\ Underway(flow, int) /\ int.next <= N + 1 /\ N \in Nat
  BY <1>2 DEF ResultsOK, ResultsOf, IsFlow
<1>5. PICK b \in Nat : b > N /\ Listed(flow, int.results, Checking(flow, b))
  BY <1>2, <1>4 DEF Underway
<1>6. /\ k \in DOMAIN flow.assertions /\ N + k \in Nat
      /\ \A p \in Checking(flow, b) : p < N + k
      /\ Checking(flow, N + k + 1) = Checking(flow, b) \cup {N + k}
      /\ CheckAt(flow, N + k) = a.id
  BY <1>2, <1>4, <1>5, NextChecked
<1>7. int'.pc = "start" /\ int'.next = int.next /\ int'.results = Append(int.results, Outcome(a, r))
  BY <1>1, <1>2, <1>3 DEF IntFields
<1>8. Checking(flow, b) \in SUBSET Nat /\ IsFiniteSet(Checking(flow, b))
  BY <1>4, CheckingIs
<1>9. Outcome(a, r).id = a.id
  BY DEF Outcome
<1> DEFINE o == Outcome(a, r)
           p == N + k
           W == Checking(flow, b)
<1> HIDE DEF k, a, o, p, W, N
<1>10. IsList(Append(int.results, o)) /\ Listed(flow, Append(int.results, o), W \cup {p})
  <2>1. p \in Nat /\ (\A x \in W : x < p) /\ W \in SUBSET Nat /\ IsFiniteSet(W) /\ o.id = CheckAt(flow, p)
    BY <1>6, <1>8, <1>9 DEF o, p, W
  <2>2. Listed(flow, int.results, W)
    BY <1>5 DEF W
  <2> QED BY <1>4, <2>1, <2>2, ListedGrows
<1>11. Underway(flow, int')
  <2>1. p + 1 \in Nat /\ p + 1 > N
    <3>1. k \in Nat
      BY <1>4, <1>6 DEF IsFlow
    <3> QED BY <1>4, <3>1 DEF p
  <2>2. Listed(flow, int'.results, Checking(flow, p + 1))
    BY <1>6, <1>7, <1>10 DEF p, o, W
  <2>3. int'.next > N /\ ~(int'.next <= N)
    BY <1>1, <1>2, <1>4, <1>7
  <2> HIDE DEF p
  <2> QED BY <2>1, <2>2, <2>3 DEF Underway, N
<1>12. IsList(int'.results)
  BY <1>7, <1>10 DEF o
<1> QED BY <1>2, <1>4, <1>7, <1>11, <1>12 DEF ResultsOK, ResultsOf, N

\* A run that is not stopped has checked everything.
LEMMA ResultsFinish ==
  ASSUME IInv, ResultsOK, Finish
  PROVE  ResultsOK'
<1>1. DOMAIN int = IntFields
  BY DEF IInv, InterpreterOK
<1>2. /\ flow' = flow /\ int.pc = "start" /\ int.next > Len(flow.actions) /\ Remaining = {}
      /\ int' = [int EXCEPT !.pc = "close"]
  BY DEF Finish, At
<1>3. IsFlow(flow) /\ IsList(int.results) /\ Underway(flow, int)
  BY <1>2 DEF ResultsOK, ResultsOf
<1>4. PICK b \in Nat : b > Len(flow.actions) /\ Listed(flow, int.results, Checking(flow, b))
  BY <1>2, <1>3 DEF Underway
<1>5. Listed(flow, int.results, Checking(flow, After(flow))) /\ Accounted(flow, int.results)
  BY <1>2, <1>3, <1>4, AllChecked
<1>6. int'.pc = "close" /\ int'.results = int.results
  BY <1>1, <1>2 DEF IntFields
<1>7. OnRecord(flow, int')
  BY <1>5, <1>6 DEF OnRecord
<1> QED BY <1>2, <1>3, <1>6, <1>7 DEF ResultsOK, ResultsOf

\* Every step keeps the results of a run in order.
LEMMA ResultsPreserved ==
  IInv /\ recording \in Seq(Alphabet) /\ ResultsOK /\ [Next]_vars => ResultsOK'
<1> SUFFICES ASSUME IInv, recording \in Seq(Alphabet), ResultsOK, [Next]_vars PROVE ResultsOK'
  OBVIOUS
<1>1. CASE flow' = flow /\ int' = int
  BY <1>1 DEF ResultsOK
<1>2. CASE Record
  BY <1>1, <1>2 DEF Record, runVars
<1>3. CASE EnqueueAuthored
  <2>1. PICK p \in Suggested : Enqueue(Authored(p))
    BY <1>3 DEF EnqueueAuthored
  <2> QED BY <2>1, SuggestedIsFlow, ResultsEnqueue
<1>4. CASE EnqueuePlanned
  <2>1. PICK e \in Flows : Enqueue(e)
    BY <1>4 DEF EnqueuePlanned
  <2>2. IsFlow(e)
    <3>1. e.actions \in Seq(Range(e.actions)) /\ e.assertions \in Seq(Range(e.assertions))
      BY FlowsAssumption
    <3> QED BY <3>1 DEF IsFlow
  <2> QED BY <2>1, <2>2, ResultsEnqueue
<1>5. CASE Page
  <2>1. flow' = flow /\ int' = int
    BY <1>5 DEF Page, onPageEvent, onRequest, onResponse, onRequestFailed, maybeCaptureBody, onClose
  <2> QED BY <1>1, <2>1
<1>6. CASE Worker
  <2>1. CASE Close
    <3>1. flow' = flow /\ int.pc = "close" /\ int' = [int EXCEPT !.pc = "seal"]
      BY <2>1 DEF Close, At
    <3> QED BY <3>1, ResultsStay
  <2>2. CASE Seal
    <3>1. flow' = flow /\ int.pc = "seal" /\ int' = [int EXCEPT !.pc = "sealed"]
      BY <2>2 DEF Seal, At
    <3> QED BY <3>1, ResultsStay
  <2> QED BY <1>6, <2>1, <2>2, ResultsLaunch, ResultsStart, ResultsSucceed, ResultsFail, ResultsAssert,
             ResultsFinish DEF Worker
<1>7. CASE UNCHANGED vars
  BY <1>1, <1>7 DEF vars, runVars
<1> QED BY <1>2, <1>3, <1>4, <1>5, <1>6, <1>7 DEF Next

\* The results of a run are in order in every state.
LEMMA ResultsInvariant == Spec => []ResultsOK
<1> QED BY ResultsInitially, ResultsPreserved, RunInvariant, RecordingIsList, PTL DEF Spec

\* Every declared assertion of a run that came to an end has its one result, and
\* a run that was not stopped has them in the order of the generated suite.
THEOREM AssertionsAreAccounted == Spec => []EveryAssertionAccounted
<1>1. ASSUME IInv, ResultsOK PROVE EveryAssertionAccounted
  <2> DEFINE OneInline(id) == \A x, y \in Inline(flow) :
                                {flow.actions[x].value.id, flow.actions[y].value.id} = {id} => x = y
             AllDistinct == \A j, k \in DOMAIN flow.assertions : flow.assertions[j].id = flow.assertions[k].id => j = k
             rs == int.results
             Of(id) == {i \in DOMAIN rs : rs[i].id = id}
  <2> SUFFICES ASSUME Sealed, ~int.infra, ~shouldBlockDestructiveExecution(flow)
               PROVE  /\ \A k \in DOMAIN flow.assertions :
                           LET id == flow.assertions[k].id IN Of(id) # {} /\ (OneInline(id) => Cardinality(Of(id)) = 1)
                      /\ ~int.automation /\ AllDistinct => \A suite \in suiteGenerate(flow) :
                           LET checks == Selected(suite, {k \in DOMAIN suite : suite[k].checks # <<>>})
                           IN [i \in DOMAIN int.results |-> <<int.results[i].id>>] = [k \in DOMAIN checks |-> checks[k].checks]
    BY DEF EveryAssertionAccounted
  <2>1. IsFlow(flow) /\ IsList(rs) /\ OnRecord(flow, int)
    BY <1>1 DEF ResultsOK, ResultsOf, Sealed, At
  <2>2. Accounted(flow, rs)
    BY <2>1 DEF OnRecord
  <2>3. ASSUME NEW k \in DOMAIN flow.assertions
        PROVE  LET id == flow.assertions[k].id IN Of(id) # {} /\ (OneInline(id) => Cardinality(Of(id)) = 1)
    <3> DEFINE id == flow.assertions[k].id
    <3>1. PICK i \in DOMAIN rs : rs[i].id = id
      BY <2>2 DEF Accounted
    <3>2. ASSUME OneInline(id), NEW j \in DOMAIN rs, rs[j].id = id PROVE j = i
      <4>1. j = i \/ \E x, y \in Inline(flow) :
                       {flow.actions[x].value.id, flow.actions[y].value.id} = {rs[j].id} /\ x # y
        BY <2>2, <3>1, <3>2 DEF Accounted, Once
      <4> HIDE DEF id
      <4> QED BY <3>2, <4>1
    <3>3. ASSUME OneInline(id) PROVE Cardinality(Of(id)) = 1
      <4>1. Of(id) = {i}
        BY <3>1, <3>2, <3>3
      <4> HIDE DEF Of, id
      <4> QED BY <4>1, FS_Singleton
    <3> QED BY <3>1, <3>3
  <2>4. ASSUME ~int.automation, AllDistinct, NEW suite \in suiteGenerate(flow)
        PROVE  LET checks == Selected(suite, {k \in DOMAIN suite : suite[k].checks # <<>>})
               IN [i \in DOMAIN int.results |-> <<int.results[i].id>>] = [k \in DOMAIN checks |-> checks[k].checks]
    <3>1. Listed(flow, rs, Checking(flow, After(flow)))
      BY <2>1, <2>4 DEF OnRecord
    <3> QED BY <2>1, <2>4, <3>1, SuiteOrder
  <2> QED BY <2>3, <2>4
<1> QED BY <1>1, RunInvariant, ResultsInvariant, PTL

-----------------------------------------------------------------------------
(* The redactor.                                                           *)

-----------------------------------------------------------------------------
(* Redaction.                                                              *)

\* What holds of 0, and of a number's successor if it does of the number, holds up to N.
LEMMA CountUp ==
  ASSUME NEW N \in Nat, NEW P, 0 \in P, \A n \in 0 .. N - 1 : n \in P => n + 1 \in P
  PROVE  0 .. N \subseteq P
<1> DEFINE Bad == {n \in Nat : n <= N /\ n \notin P}
<1> SUFFICES ASSUME Bad # {} PROVE FALSE
  OBVIOUS
<1>1. PICK m \in Bad : \A y \in Bad : ~(<<y, m>> \in OpToRel(<, Nat))
  <2>1. Bad \subseteq Nat
    OBVIOUS
  <2> HIDE DEF Bad
  <2> QED BY <2>1, NatLessThanWellFounded, WFMin
<1>2. m \in Nat /\ m <= N /\ m \notin P /\ \A y \in Bad : ~(y < m)
  BY <1>1 DEF OpToRel
<1>3. m # 0
  BY <1>2
<1>4. m - 1 \in Nat /\ m - 1 < m /\ m - 1 <= N /\ m - 1 \in 0 .. N - 1
  BY <1>2, <1>3
<1>5. m - 1 \in P
  BY <1>2, <1>4
<1> QED BY <1>2, <1>4, <1>5

\* f goes from x0 by the steps of F.
Follows(f, N, F, x0) == f[0] = x0 /\ \A n \in 1 .. N : f[n] = F[n][f[n - 1]]

\* A definition that goes from one number to the next has a solution.
LEMMA Iterated ==
  ASSUME NEW X, NEW N \in Nat, NEW F \in [1 .. N -> [X -> X]], NEW x0 \in X
  PROVE  \E f \in [0 .. N -> X] : Follows(f, N, F, x0)
<1> DEFINE Sol(f, n) == f \in [0 .. n -> X] /\ f[0] = x0 /\ \A k \in 1 .. n : f[k] = F[k][f[k - 1]]
           P == {n \in 0 .. N : \E f : Sol(f, n)}
<1>1. 0 \in P
  <2> DEFINE g == [k \in 0 .. 0 |-> x0]
  <2>1. Sol(g, 0)
    OBVIOUS
  <2> HIDE DEF g, Sol
  <2> QED BY <2>1
<1>2. ASSUME NEW n \in 0 .. N - 1, n \in P PROVE n + 1 \in P
  <2>1. PICK g : Sol(g, n)
    BY <1>2
  <2> DEFINE h == [k \in 0 .. n + 1 |-> IF k = n + 1 THEN F[n + 1][g[n]] ELSE g[k]]
  <2>2. n \in Nat /\ n + 1 \in 1 .. N /\ n \in 0 .. n
    OBVIOUS
  <2>3. F[n + 1] \in [X -> X] /\ g[n] \in X
    BY <2>1, <2>2
  <2>4. F[n + 1][g[n]] \in X
    BY <2>3
  <2>5. h \in [0 .. n + 1 -> X] /\ h[0] = x0
    BY <2>1, <2>2, <2>4
  <2>6. ASSUME NEW k \in 1 .. n + 1 PROVE h[k] = F[k][h[k - 1]]
    <3>1. CASE k = n + 1
      BY <3>1, <2>2
    <3>2. CASE k # n + 1
      <4>1. k \in 1 .. n /\ k - 1 \in 0 .. n /\ k - 1 # n + 1
        BY <3>2, <2>2
      <4>2. h[k] = g[k] /\ h[k - 1] = g[k - 1]
        BY <4>1, <3>2
      <4> QED BY <4>1, <4>2, <2>1
    <3> QED BY <3>1, <3>2
  <2>7. Sol(h, n + 1)
    <3> HIDE DEF h
    <3> QED BY <2>5, <2>6
  <2> HIDE DEF Sol, h
  <2> QED BY <2>7, <2>2
<1>3. N \in P
  <2> HIDE DEF P
  <2>1. 0 .. N \subseteq P
    BY <1>1, <1>2, CountUp
  <2> QED BY <2>1
<1> QED BY <1>3 DEF Follows

\* Where split finds a literal: no two overlap, and what is not found is overlapped.
LEMMA StartsAre ==
  ASSUME NEW value \in Seq(Symbols), NEW literal \in Seq(Symbols)
  PROVE  LET S == StartsOf(value, literal) IN
         /\ S \subseteq DOMAIN value
         /\ \A i \in DOMAIN value : i \in S <=> OccursAt(value, literal, i)
                                               /\ \A j \in S : j < i => j + Len(literal) <= i
<1> DEFINE N == Len(value)
           Take(n, T) == IF OccursAt(value, literal, n) /\ \A j \in T : j + Len(literal) <= n
                         THEN T \cup {n} ELSE T
           X == SUBSET (1 .. N)
           F == [n \in 1 .. N |-> [T \in X |-> Take(n, T)]]
           Sol(f) == f = [n \in 0 .. N |-> IF n = 0 THEN {} ELSE Take(n, f[n - 1])]
           g == CHOOSE f : Sol(f)
<1>1. N \in Nat /\ DOMAIN value = 1 .. N /\ Len(literal) \in Nat
  OBVIOUS
<1> HIDE DEF N
<1>2. F \in [1 .. N -> [X -> X]]
  OBVIOUS
<1>3. PICK f \in [0 .. N -> X] : f[0] = {} /\ \A n \in 1 .. N : f[n] = F[n][f[n - 1]]
  <2> HIDE DEF F
  <2>1. {} \in X
    OBVIOUS
  <2> HIDE DEF X
  <2> DEFINE none == {}
  <2>2. none \in X
    BY <2>1
  <2> HIDE DEF none
  <2>3. \E f \in [0 .. N -> X] : Follows(f, N, F, none)
    BY <1>1, <1>2, <2>2, Iterated
  <2> QED BY <2>3 DEF none, Follows
<1>4. \A n \in 1 .. N : f[n - 1] \in X /\ f[n] = Take(n, f[n - 1])
  <2> TAKE n \in 1 .. N
  <2>1. n - 1 \in 0 .. N
    BY <1>1
  <2>2. f[n - 1] \in X
    BY <1>3, <2>1
  <2> HIDE DEF Take, X
  <2> QED BY <2>2, <1>3
<1>5. Sol(f)
  <2> HIDE DEF Take, X
  <2>1. f = [n \in 0 .. N |-> f[n]]
    BY <1>3
  <2>2. \A n \in 0 .. N : n # 0 => n \in 1 .. N
    BY <1>1
  <2> QED BY <1>3, <1>4, <2>1, <2>2
<1>6. Sol(g)
  <2> HIDE DEF Sol
  <2> QED BY <1>5
<1>7. StartsOf(value, literal) = g[N]
  BY DEF StartsOf, N
<1> HIDE DEF g
<1>8. g[0] = {} /\ \A n \in 1 .. N : g[n] = Take(n, g[n - 1])
  <2>1. 0 \in 0 .. N /\ \A n \in 1 .. N : n \in 0 .. N /\ n # 0
    BY <1>1
  <2> HIDE DEF Take
  <2>2. g = [n \in 0 .. N |-> IF n = 0 THEN {} ELSE Take(n, g[n - 1])]
    BY <1>6
  <2> QED BY <2>1, <2>2
<1> DEFINE Good(n) == /\ g[n] \subseteq 1 .. n
                      /\ \A i \in 1 .. n : i \in g[n] <=> OccursAt(value, literal, i)
                                                 /\ \A j \in g[n] : j < i => j + Len(literal) <= i
           P == {n \in 0 .. N : Good(n)}
<1>9. 0 \in P
  BY <1>1, <1>8
<1>10. ASSUME NEW n \in 0 .. N - 1, n \in P PROVE n + 1 \in P
  <2>1. n \in Nat /\ n + 1 \in 1 .. N /\ Good(n) /\ g[n + 1] = Take(n + 1, g[n])
    <3>1. n \in Nat /\ n + 1 \in 1 .. N /\ n + 1 - 1 = n
      BY <1>1
    <3>2. g[n + 1] = Take(n + 1, g[n])
      <4> HIDE DEF Take
      <4> QED BY <3>1, <1>8
    <3> HIDE DEF Take, Good
    <3> QED BY <3>1, <3>2, <1>10
  <2>2. g[n + 1] \subseteq 1 .. n + 1 /\ g[n] \subseteq g[n + 1] /\ \A i \in 1 .. n : i \in g[n + 1] <=> i \in g[n]
    BY <2>1
  <2>3. ASSUME NEW i \in 1 .. n + 1
        PROVE  i \in g[n + 1] <=> OccursAt(value, literal, i)
                                   /\ \A j \in g[n + 1] : j < i => j + Len(literal) <= i
    <3>1. \A j \in g[n + 1] : j < i => j \in g[n] /\ j \in 1 .. n
      BY <2>1, <2>2
    <3>2. (\A j \in g[n + 1] : j < i => j + Len(literal) <= i) <=> (\A j \in g[n] : j < i => j + Len(literal) <= i)
      BY <3>1, <2>2
    <3>3. CASE i \in 1 .. n
      BY <3>2, <3>3, <2>1, <2>2
    <3>4. CASE i = n + 1
      <4>1. n + 1 \notin g[n] /\ \A j \in g[n] : j < n + 1
        BY <2>1
      <4>2. (n + 1 \in g[n + 1]) <=> OccursAt(value, literal, n + 1) /\ \A j \in g[n] : j + Len(literal) <= n + 1
        BY <2>1, <4>1
      <4> QED BY <4>1, <4>2, <3>2, <3>4
    <3> QED BY <2>1, <3>3, <3>4
  <2> QED BY <2>1, <2>2, <2>3
<1>11. Good(N)
  <2> HIDE DEF P
  <2>1. 0 .. N \subseteq P
    BY <1>1, <1>9, <1>10, CountUp
  <2> QED BY <1>1, <2>1 DEF P
<1> QED BY <1>1, <1>7, <1>11

\* The places masking a literal leaves: those in no occurrence but at its start.
LeftBy(value, literal) == {i \in DOMAIN value : ~\E j \in StartsOf(value, literal) : j < i /\ i < j + Len(literal)}

\* A text in which nothing is the redactor's.
Clean(text) == text \in Seq(Symbols) /\ Len(text) > 0 /\ ToSet(text) \cap Written = {}

LEMMA CleanIs ==
  ASSUME NEW text, Clean(text)
  PROVE  /\ text \in Seq(Symbols) /\ Len(text) \in Nat \ {0} /\ DOMAIN text = 1 .. Len(text) /\ 1 \in DOMAIN text
         /\ \A d \in DOMAIN text : text[d] \notin Written /\ text[d] # Mark /\ text[d] \in Symbols
<1>1. text \in Seq(Symbols) /\ Len(text) \in Nat \ {0} /\ DOMAIN text = 1 .. Len(text) /\ 1 \in DOMAIN text
  BY DEF Clean
<1>2. \A d \in DOMAIN text : text[d] \in ToSet(text) /\ text[d] \in Symbols
  BY <1>1 DEF ToSet
<1> QED BY <1>1, <1>2 DEF Clean, Written

\* What masking a literal leaves, place by place.
LEMMA MaskedIs ==
  ASSUME NEW value \in Seq(Symbols), NEW literal \in Seq(Symbols)
  PROVE  LET K == LeftBy(value, literal)
             S == StartsOf(value, literal)
             w == MaskLiteral(value, literal)
         IN /\ w \in Seq(Symbols) /\ DOMAIN w = 1 .. Cardinality(K) /\ Cardinality(K) \in Nat
            /\ K \subseteq DOMAIN value /\ IsFiniteSet(K)
            /\ \A n \in DOMAIN w : /\ Place(K, n) \in K
                                   /\ w[n] = IF Place(K, n) \in S THEN Mark ELSE value[Place(K, n)]
<1> DEFINE K == LeftBy(value, literal)
           S == StartsOf(value, literal)
           w == MaskLiteral(value, literal)
           N == Len(value)
           s == [i \in DOMAIN value |-> IF i \in S THEN Mark ELSE value[i]]
<1>1. N \in Nat /\ DOMAIN value = 1 .. N /\ \A i \in DOMAIN value : value[i] \in Symbols
  OBVIOUS
<1>2. w = Selected(s, K)
  BY DEF MaskLiteral, LeftBy
<1>3. K \subseteq DOMAIN value /\ DOMAIN s = 1 .. N
  BY <1>1 DEF LeftBy
<1>4. \A i \in DOMAIN value : s[i] = (IF i \in S THEN Mark ELSE value[i]) /\ s[i] \in Symbols
  <2>1. Mark \in Symbols
    BY RedactionAssumption DEF Written
  <2> HIDE DEF S
  <2> QED BY <1>1, <2>1
<1> HIDE DEF s, K, S, w, N
<1>5. /\ IsFiniteSet(K) /\ Cardinality(K) \in Nat /\ DOMAIN w = 1 .. Cardinality(K)
      /\ \A n \in 1 .. Cardinality(K) : Place(K, n) \in K /\ Place(K, n) \in DOMAIN s /\ w[n] = s[Place(K, n)]
  <2>1. K \in SUBSET DOMAIN s
    BY <1>1, <1>3
  <2> QED BY <1>1, <1>2, <1>3, <2>1, SelectedIs
<1>6. w \in Seq(Symbols)
  <2>1. w = [n \in 1 .. Cardinality(K) |-> s[Place(K, n)]]
    BY <1>2 DEF Selected
  <2>2. \A n \in 1 .. Cardinality(K) : s[Place(K, n)] \in Symbols
    BY <1>1, <1>3, <1>4, <1>5
  <2>3. w \in [1 .. Cardinality(K) -> Symbols]
    BY <2>1, <2>2
  <2> QED BY <2>3, <1>5
<1>7. \A n \in DOMAIN w : /\ Place(K, n) \in K
                          /\ w[n] = IF Place(K, n) \in S THEN Mark ELSE value[Place(K, n)]
  BY <1>1, <1>3, <1>4, <1>5
<1> QED BY <1>3, <1>5, <1>6, <1>7 DEF K, S, w

\* What is found in what masking left was there before, at a place that was left and not found.
LEMMA FoundBehind ==
  ASSUME NEW value \in Seq(Symbols), NEW literal \in Seq(Symbols), Len(literal) > 0, NEW other, Clean(other),
         NEW k \in DOMAIN MaskLiteral(value, literal), OccursAt(MaskLiteral(value, literal), other, k)
  PROVE  \E i \in LeftBy(value, literal) \ StartsOf(value, literal) : OccursAt(value, other, i)
<1> DEFINE K == LeftBy(value, literal)
           S == StartsOf(value, literal)
           w == MaskLiteral(value, literal)
           L == Len(other)
           P(n) == Place(K, n)
           C == Cardinality(K)
           i == P(k)
<1>1. /\ DOMAIN w = 1 .. C /\ C \in Nat /\ K \subseteq DOMAIN value /\ IsFiniteSet(K)
      /\ \A n \in DOMAIN w : P(n) \in K /\ w[n] = IF P(n) \in S THEN Mark ELSE value[P(n)]
  BY MaskedIs
<1>2. /\ DOMAIN value = 1 .. Len(value) /\ Len(value) \in Nat /\ Len(literal) \in Nat /\ S \subseteq DOMAIN value
  BY StartsAre
<1>3. K \in SUBSET Nat
  BY <1>1, <1>2
<1>4. /\ \A m, n \in 1 .. C : m < n => P(m) < P(n)
      /\ \A x \in K : \E n \in 1 .. C : P(n) = x
  BY <1>1, <1>3, Places
<1>5. \A x \in DOMAIN value : x \in K <=> ~\E j \in S : j < x /\ x < j + Len(literal)
  BY DEF LeftBy
<1>6. /\ L \in Nat \ {0} /\ DOMAIN other = 1 .. L
      /\ \A d \in 1 .. L : other[d] # Mark /\ k + d - 1 \in DOMAIN w /\ w[k + d - 1] = other[d]
  BY CleanIs DEF OccursAt
<1>7. k \in 1 .. C /\ k \in DOMAIN w
  BY <1>1
<1> HIDE DEF K, S, w, L, P, C
<1>8. \A d \in 1 .. L : P(k + d - 1) \in K /\ P(k + d - 1) \notin S /\ value[P(k + d - 1)] = other[d]
  BY <1>1, <1>6
<1>20. i \in Nat
  <2>1. P(k) \in K
    BY <1>1, <1>7
  <2> QED BY <2>1, <1>3
<1> DEFINE Q == {d \in 0 .. L - 1 : P(k + d) = i + d}
<1>9. 0 \in Q
  <2>1. 0 \in 0 .. L - 1 /\ k + 0 = k
    BY <1>1, <1>6, <1>7
  <2>2. P(k + 0) = P(k) /\ P(k) + 0 = P(k)
    BY <2>1, <1>20
  <2> QED BY <2>1, <2>2
<1>10. ASSUME NEW d \in 0 .. (L - 1) - 1, d \in Q PROVE d + 1 \in Q
  <2> DEFINE p == P(k + d)
             q == P(k + d + 1)
  <2>1. d + 1 \in 1 .. L /\ d + 2 \in 1 .. L /\ d \in Nat /\ k \in Nat
    BY <1>1, <1>6, <1>7
  <2>2. p \in K /\ p \notin S /\ p = i + d
    BY <1>8, <1>10, <2>1
  <2>3. q \in K /\ k + d + 1 \in 1 .. C /\ k + d \in 1 .. C
    <3>1. k + (d + 2) - 1 = k + d + 1 /\ k + (d + 1) - 1 = k + d
      BY <2>1
    <3> QED BY <1>1, <1>6, <1>8, <2>1, <3>1
  <2>4. p < q
    BY <1>4, <2>1, <2>3
  <2>5. p \in 1 .. Len(value) /\ q \in 1 .. Len(value) /\ p + 1 \in DOMAIN value /\ p \in DOMAIN value
    BY <1>1, <1>2, <2>2, <2>3, <2>4
  <2>6. p + 1 \in K
    <3> SUFFICES ASSUME NEW j \in S, j < p + 1, p + 1 < j + Len(literal) PROVE FALSE
      BY <1>5, <2>5
    <3>1. j \in Nat
      BY <1>2
    <3>2. j # p
      BY <2>2
    <3>3. j < p /\ p < j + Len(literal)
      BY <1>2, <2>5, <3>1, <3>2
    <3> QED BY <1>5, <2>2, <2>5, <3>3
  <2>7. PICK m \in 1 .. C : P(m) = p + 1
    BY <1>4, <2>6
  <2>8. m = k + d + 1
    <3>1. ~(m < k + d) /\ m # k + d
      <4>1. m < k + d => P(m) < p
        BY <1>4, <2>3, <2>7
      <4> QED BY <4>1, <2>5, <2>7
    <3>2. ~(k + d + 1 < m)
      <4>1. k + d + 1 < m => q < P(m)
        BY <1>4, <2>3, <2>7
      <4> QED BY <4>1, <2>4, <2>5, <2>7
    <3> QED BY <3>1, <3>2, <2>1, <1>1
  <2>9. P(k + (d + 1)) = i + (d + 1)
    <3>1. k + d + 1 = k + (d + 1)
      BY <2>1
    <3>2. P(k + (d + 1)) = (i + d) + 1
      BY <2>2, <2>7, <2>8, <3>1
    <3> HIDE DEF i
    <3> QED BY <1>20, <2>1, <3>2
  <2>10. d + 1 \in 0 .. L - 1
    BY <2>1, <1>6
  <2> QED BY <2>9, <2>10
<1>11. 0 .. L - 1 \subseteq Q
  <2>1. L - 1 \in Nat
    BY <1>6
  <2> HIDE DEF Q
  <2> QED BY <2>1, <1>9, <1>10, CountUp
<1>12. \A d \in 1 .. L : i + d - 1 \in DOMAIN value /\ value[i + d - 1] = other[d]
  <2> TAKE d \in 1 .. L
  <2>1. d - 1 \in 0 .. L - 1 /\ k + (d - 1) = k + d - 1
    BY <1>6, <1>7, <1>1
  <2>2. P(k + d - 1) = i + (d - 1)
    BY <1>11, <2>1
  <2>4. i + (d - 1) = i + d - 1
    <3> HIDE DEF i
    <3> QED BY <1>20, <1>6
  <2> QED BY <1>1, <1>8, <2>2, <2>4
<1>13. i \in K \ S
  <2>1. 1 \in 1 .. L /\ k + 1 - 1 = k
    BY <1>1, <1>6, <1>7
  <2> QED BY <1>8, <2>1
<1>14. OccursAt(value, other, i)
  BY <1>6, <1>12 DEF OccursAt
<1> QED BY <1>13, <1>14 DEF K, S

\* Masking a literal leaves none of it, brings up no other, and leaves a text without it as it was.
LEMMA MaskingLeaves ==
  ASSUME NEW value \in Seq(Symbols), NEW literal, Clean(literal)
  PROVE  LET w == MaskLiteral(value, literal) IN
         /\ w \in Seq(Symbols)
         /\ ~Occurs(w, literal)
         /\ \A other : Clean(other) /\ Occurs(w, other) => Occurs(value, other)
         /\ ~Occurs(value, literal) => w = value
         /\ value = literal => w = Replacement
<1> DEFINE K == LeftBy(value, literal)
           S == StartsOf(value, literal)
           w == MaskLiteral(value, literal)
           N == Len(value)
           L == Len(literal)
<1>1. /\ literal \in Seq(Symbols) /\ L \in Nat \ {0} /\ DOMAIN literal = 1 .. L
      /\ N \in Nat /\ DOMAIN value = 1 .. N
  BY CleanIs
<1>2. /\ S \subseteq DOMAIN value
      /\ \A i \in DOMAIN value : i \in S <=> OccursAt(value, literal, i) /\ \A j \in S : j < i => j + L <= i
  BY <1>1, StartsAre
<1>3. \A x \in DOMAIN value : x \in K <=> ~\E j \in S : j < x /\ x < j + L
  BY DEF LeftBy
<1>4. w \in Seq(Symbols) /\ K \subseteq DOMAIN value
  BY <1>1, MaskedIs
<1>5. ASSUME NEW other, Clean(other), Occurs(w, other)
      PROVE  \E i \in K \ S : OccursAt(value, other, i)
  <2>1. PICK k \in DOMAIN w : OccursAt(w, other, k)
    BY <1>5 DEF Occurs
  <2> QED BY <1>1, <1>5, <2>1, FoundBehind
<1>11. w = Selected([i \in DOMAIN value |-> IF i \in S THEN Mark ELSE value[i]], K)
  BY DEF MaskLiteral, LeftBy
<1> HIDE DEF K, S, w, N, L
<1>6. ~Occurs(w, literal)
  <2> SUFFICES ASSUME Occurs(w, literal) PROVE FALSE
    OBVIOUS
  <2>1. PICK i \in K \ S : OccursAt(value, literal, i)
    BY <1>5
  <2>2. PICK j \in S : j < i /\ ~(j + L <= i)
    BY <1>2, <1>4, <2>1
  <2>3. i < j + L
    BY <1>1, <1>2, <1>4, <2>1, <2>2
  <2> QED BY <1>3, <1>4, <2>1, <2>2, <2>3
<1>7. \A other : Clean(other) /\ Occurs(w, other) => Occurs(value, other)
  BY <1>4, <1>5 DEF Occurs
<1>8. ASSUME ~Occurs(value, literal) PROVE w = value
  <2>1. S = {}
    BY <1>2, <1>8 DEF Occurs
  <2>2. K = DOMAIN value
    BY <1>3, <1>4, <2>1
  <2>3. value = [i \in 1 .. N |-> value[i]]
    BY <1>1
  <2>4. [i \in DOMAIN value |-> IF i \in S THEN Mark ELSE value[i]] = value
    BY <1>1, <2>1, <2>3
  <2> QED BY <1>1, <1>11, <2>2, <2>3, <2>4, WholeIsKept
<1>9. ASSUME value = literal PROVE w = Replacement
  <2>1. N = L
    BY <1>9 DEF N, L
  <2>2. 1 \in DOMAIN value /\ OccursAt(value, literal, 1)
    BY <1>1, <1>9 DEF OccursAt
  <2>3. 1 \in S /\ \A i \in S : i = 1
    <3>1. 1 \in S
      <4>1. \A j \in S : ~(j < 1)
        BY <1>1, <1>2
      <4> QED BY <4>1, <1>2, <2>2
    <3>2. ASSUME NEW i \in S PROVE i = 1
      <4>1. i \in 1 .. L
        BY <1>1, <1>2, <2>1
      <4>2. 1 < i => 1 + L <= i
        BY <1>1, <1>2, <3>1
      <4> QED BY <1>1, <4>1, <4>2
    <3> QED BY <3>1, <3>2
  <2>4. K = {1}
    <3>1. 1 \in K
      <4>1. ~\E j \in S : j < 1 /\ 1 < j + L
        BY <2>3
      <4> QED BY <1>3, <2>2, <4>1
    <3>2. ASSUME NEW x \in K PROVE x = 1
      <4>1. x \in 1 .. L
        BY <1>1, <1>4, <2>1
      <4>2. 1 < x => x < 1 + L
        BY <1>1, <4>1
      <4> QED BY <1>3, <1>4, <2>3, <4>1, <4>2, <1>1
    <3> QED BY <3>1, <3>2
  <2>5. Cardinality({1}) = 1
    BY FS_Singleton
  <2>6. DOMAIN w = 1 .. 1 /\ w[1] = Mark
    <3>1. /\ DOMAIN w = 1 .. Cardinality(K)
          /\ \A n \in DOMAIN w : /\ Place(K, n) \in K
                                 /\ w[n] = IF Place(K, n) \in S THEN Mark ELSE value[Place(K, n)]
      BY <1>1, MaskedIs DEF K, S, w
    <3>2. 1 \in DOMAIN w
      BY <3>1, <2>4, <2>5
    <3> QED BY <3>1, <3>2, <2>3, <2>4, <2>5
  <2> QED BY <1>4, <2>6 DEF Replacement
<1> QED BY <1>4, <1>6, <1>7, <1>8, <1>9 DEF w

\* f goes from the text through what masking one literal after the other leaves.
Passes(f, value, literals, N) ==
  /\ MaskAll(value, literals) = f[N] /\ f[0] = value
  /\ \A n \in 0 .. N : f[n] \in Seq(Symbols)
  /\ \A n \in 1 .. N : f[n] = MaskLiteral(f[n - 1], literals[n])

LEMMA MaskAllIs ==
  ASSUME NEW value \in Seq(Symbols), NEW literals, NEW N \in Nat, DOMAIN literals = 1 .. N, Len(literals) = N,
         \A n \in 1 .. N : Clean(literals[n])
  PROVE  \E f : Passes(f, value, literals, N)
<1> DEFINE X == Seq(Symbols)
           F == [n \in 1 .. N |-> [w \in X |-> MaskLiteral(w, literals[n])]]
           Sol(f) == f = [n \in 0 .. N |-> IF n = 0 THEN value ELSE MaskLiteral(f[n - 1], literals[n])]
           g == CHOOSE f : Sol(f)
<1>1. \A n \in 1 .. N : \A w \in X : MaskLiteral(w, literals[n]) \in X
  BY MaskingLeaves
<1>2. F \in [1 .. N -> [X -> X]]
  <2> HIDE DEF X
  <2> QED BY <1>1
<1>3. PICK f \in [0 .. N -> X] : Follows(f, N, F, value)
  <2> HIDE DEF F
  <2>1. value \in X
    OBVIOUS
  <2> HIDE DEF X
  <2> QED BY <1>2, <2>1, Iterated
<1>4. f[0] = value /\ \A n \in 1 .. N : f[n - 1] \in X /\ f[n] = MaskLiteral(f[n - 1], literals[n])
  <2>1. \A n \in 1 .. N : n - 1 \in 0 .. N
    OBVIOUS
  <2> HIDE DEF X
  <2>2. \A n \in 1 .. N : f[n - 1] \in X
    BY <1>3, <2>1
  <2> QED BY <1>3, <2>2 DEF Follows
<1>5. Sol(f)
  <2> HIDE DEF X
  <2>1. f = [n \in 0 .. N |-> f[n]]
    BY <1>3
  <2>2. \A n \in 0 .. N : n # 0 => n \in 1 .. N
    OBVIOUS
  <2> QED BY <1>4, <2>1, <2>2
<1>6. Sol(g)
  <2> HIDE DEF Sol
  <2> QED BY <1>5
<1>7. MaskAll(value, literals) = g[N]
  BY DEF MaskAll
<1> HIDE DEF g
<1>8. g[0] = value /\ \A n \in 1 .. N : g[n] = MaskLiteral(g[n - 1], literals[n])
  <2>1. 0 \in 0 .. N /\ \A n \in 1 .. N : n \in 0 .. N /\ n # 0
    OBVIOUS
  <2>2. g = [n \in 0 .. N |-> IF n = 0 THEN value ELSE MaskLiteral(g[n - 1], literals[n])]
    BY <1>6
  <2> QED BY <2>1, <2>2
<1>9. \A n \in 0 .. N : g[n] \in X
  <2> DEFINE P == {n \in 0 .. N : g[n] \in X}
  <2>1. 0 \in P
    BY <1>8
  <2>2. ASSUME NEW n \in 0 .. N - 1, n \in P PROVE n + 1 \in P
    <3>1. n + 1 \in 1 .. N /\ n + 1 \in 0 .. N /\ n + 1 - 1 = n
      OBVIOUS
    <3> HIDE DEF X
    <3>2. g[n + 1] = MaskLiteral(g[n], literals[n + 1])
      BY <1>8, <3>1
    <3> QED BY <1>1, <2>2, <3>1, <3>2
  <2>3. 0 .. N \subseteq P
    <3> HIDE DEF P
    <3> QED BY <2>1, <2>2, CountUp
  <2> QED BY <2>3
<1> QED BY <1>7, <1>8, <1>9 DEF Passes

\* Literals in the order they are tried: longest first, and no text twice.
Ordered(literals) ==
  /\ literals \in Seq(Seq(Symbols)) /\ \A n \in DOMAIN literals : Clean(literals[n])
  /\ \A i, j \in DOMAIN literals : i < j => literals[i] # literals[j] /\ Len(literals[i]) >= Len(literals[j])

\* All of them masked, none is left, and one that is the whole text goes whole.
LEMMA MaskAllLeaves ==
  ASSUME NEW value \in Seq(Symbols), NEW literals, Ordered(literals)
  PROVE  LET w == MaskAll(value, literals) IN
         /\ w \in Seq(Symbols)
         /\ \A n \in DOMAIN literals : ~Occurs(w, literals[n])
         /\ (\A n \in DOMAIN literals : ~Occurs(value, literals[n])) => w = value
         /\ \A n \in DOMAIN literals : value = literals[n] => w = Replacement
<1> DEFINE w == MaskAll(value, literals)
           N == Len(literals)
<1>1. /\ N \in Nat /\ DOMAIN literals = 1 .. N /\ \A n \in 1 .. N : Clean(literals[n])
      /\ \A i, j \in 1 .. N : i < j => literals[i] # literals[j] /\ Len(literals[i]) >= Len(literals[j])
  BY DEF Ordered
<1>2. PICK f : /\ w = f[N] /\ f[0] = value
               /\ \A n \in 0 .. N : f[n] \in Seq(Symbols)
               /\ \A n \in 1 .. N : f[n] = MaskLiteral(f[n - 1], literals[n])
  <2>1. Len(literals) = N
    OBVIOUS
  <2> HIDE DEF N
  <2>2. \E f : Passes(f, value, literals, N)
    BY <1>1, <2>1, MaskAllIs
  <2> QED BY <2>2 DEF Passes
<1> HIDE DEF w, N
<1>3. ASSUME NEW n \in 0 .. N - 1
      PROVE  /\ n + 1 \in 1 .. N /\ n \in 0 .. N /\ n + 1 \in 0 .. N /\ f[n] \in Seq(Symbols)
             /\ ~Occurs(f[n + 1], literals[n + 1])
             /\ \A other : Clean(other) /\ Occurs(f[n + 1], other) => Occurs(f[n], other)
             /\ ~Occurs(f[n], literals[n + 1]) => f[n + 1] = f[n]
             /\ f[n] = literals[n + 1] => f[n + 1] = Replacement
  <2>1. n + 1 \in 1 .. N /\ n \in 0 .. N /\ n + 1 \in 0 .. N /\ n + 1 - 1 = n
    BY <1>1
  <2>2. f[n] \in Seq(Symbols) /\ f[n + 1] = MaskLiteral(f[n], literals[n + 1]) /\ Clean(literals[n + 1])
    BY <1>1, <1>2, <2>1
  <2> QED BY <2>1, <2>2, MaskingLeaves
<1>4. \A n \in 1 .. N : ~Occurs(w, literals[n])
  <2> DEFINE P == {n \in 0 .. N : \A m \in 1 .. N : m <= n => ~Occurs(f[n], literals[m])}
  <2>1. 0 \in P
    BY <1>1
  <2>2. ASSUME NEW n \in 0 .. N - 1, n \in P PROVE n + 1 \in P
    <3>1. ASSUME NEW m \in 1 .. N, m <= n + 1 PROVE ~Occurs(f[n + 1], literals[m])
      <4>1. CASE m = n + 1
        BY <1>3, <4>1
      <4>2. CASE m # n + 1
        <5>1. m <= n
          BY <1>1, <3>1, <4>2
        <5> QED BY <1>1, <1>3, <2>2, <5>1
      <4> QED BY <4>1, <4>2
    <3> QED BY <1>3, <3>1
  <2>3. 0 .. N \subseteq P
    <3> HIDE DEF P
    <3> QED BY <1>1, <2>1, <2>2, CountUp
  <2> QED BY <1>1, <1>2, <2>3
<1>5. ASSUME \A n \in 1 .. N : ~Occurs(value, literals[n]) PROVE w = value
  <2> DEFINE P == {n \in 0 .. N : f[n] = value}
  <2>1. 0 \in P
    BY <1>1, <1>2
  <2>2. ASSUME NEW n \in 0 .. N - 1, n \in P PROVE n + 1 \in P
    BY <1>3, <1>5, <2>2
  <2>3. 0 .. N \subseteq P
    <3> HIDE DEF P
    <3> QED BY <1>1, <2>1, <2>2, CountUp
  <2> QED BY <1>1, <1>2, <2>3
<1>6. ASSUME NEW k \in 1 .. N, value = literals[k] PROVE w = Replacement
  <2>1. ASSUME NEW m \in 1 .. N, m < k PROVE ~Occurs(value, literals[m])
    <3> DEFINE a == literals[m]
               b == literals[k]
    <3>1. Clean(a) /\ Clean(b) /\ a # b /\ Len(a) >= Len(b)
      BY <1>1, <2>1
    <3> HIDE DEF a, b
    <3>2. /\ a \in Seq(Symbols) /\ b \in Seq(Symbols) /\ Len(a) \in Nat \ {0} /\ Len(b) \in Nat \ {0}
          /\ DOMAIN a = 1 .. Len(a) /\ DOMAIN b = 1 .. Len(b)
      BY <3>1, CleanIs
    <3>3. ASSUME NEW i \in DOMAIN b, OccursAt(b, a, i) PROVE FALSE
      <4>1. \A d \in 1 .. Len(a) : i + d - 1 \in 1 .. Len(b) /\ b[i + d - 1] = a[d]
        BY <3>2, <3>3 DEF OccursAt
      <4>2. i \in Nat /\ i >= 1 /\ Len(a) \in 1 .. Len(a)
        BY <3>2
      <4>3. i + Len(a) - 1 <= Len(b)
        <5>1. i + Len(a) - 1 \in 1 .. Len(b)
          BY <4>1, <4>2
        <5> QED BY <5>1
      <4>4. i = 1 /\ Len(a) = Len(b)
        <5> DEFINE x == Len(a)
                   y == Len(b)
        <5>1. x \in Nat /\ y \in Nat /\ i \in Nat /\ i >= 1 /\ x >= y /\ i + x - 1 <= y
          BY <3>1, <3>2, <4>2, <4>3
        <5> HIDE DEF x, y
        <5>2. i = 1 /\ x = y
          BY <5>1
        <5> QED BY <5>2 DEF x, y
      <4>5. \A d \in 1 .. Len(a) : b[d] = a[d]
        <5> TAKE d \in 1 .. Len(a)
        <5>1. i + d - 1 = d
          BY <4>4
        <5> QED BY <4>1, <5>1
      <4>6. a = b
        BY <3>2, <4>4, <4>5
      <4> QED BY <3>1, <4>6
    <3>4. ~Occurs(b, a)
      BY <3>3 DEF Occurs
    <3> QED BY <1>6, <3>4 DEF a, b
  <2>2. \A n \in 1 .. N : ~Occurs(Replacement, literals[n])
    <3> SUFFICES ASSUME NEW n \in 1 .. N, NEW i \in DOMAIN Replacement, OccursAt(Replacement, literals[n], i)
                 PROVE  FALSE
      BY DEF Occurs
    <3>1. Clean(literals[n])
      BY <1>1
    <3>2. 1 \in DOMAIN literals[n] /\ literals[n][1] # Mark
      BY <3>1, CleanIs
    <3>3. i + 1 - 1 \in DOMAIN Replacement /\ Replacement[i + 1 - 1] = literals[n][1]
      BY <3>2 DEF OccursAt
    <3>4. \A x \in DOMAIN Replacement : Replacement[x] = Mark
      BY DEF Replacement
    <3> QED BY <3>2, <3>3, <3>4
  <2> DEFINE P == {n \in 0 .. N : f[n] = IF n < k THEN value ELSE Replacement}
  <2>3. 0 \in P
    BY <1>1, <1>2
  <2>4. ASSUME NEW n \in 0 .. N - 1, n \in P PROVE n + 1 \in P
    <3>1. CASE n + 1 < k
      <4>1. n < k /\ n + 1 \in 1 .. N
        BY <1>1, <1>3, <3>1
      <4> QED BY <1>3, <2>1, <2>4, <3>1, <4>1
    <3>2. CASE n + 1 = k
      <4>1. n < k /\ ~(n + 1 < k)
        BY <1>1, <3>2
      <4> QED BY <1>3, <1>6, <2>4, <3>2, <4>1
    <3>3. CASE n + 1 > k
      <4>1. ~(n < k) /\ ~(n + 1 < k)
        BY <1>1, <3>3
      <4> QED BY <1>3, <2>2, <2>4, <4>1
    <3> QED BY <1>1, <3>1, <3>2, <3>3
  <2>5. 0 .. N \subseteq P
    <3> HIDE DEF P
    <3> QED BY <1>1, <2>3, <2>4, CountUp
  <2>6. N \in 0 .. N /\ ~(N < k)
    BY <1>1
  <2> QED BY <1>2, <2>5, <2>6
<1>7. w \in Seq(Symbols)
  BY <1>1, <1>2
<1> QED BY <1>1, <1>4, <1>5, <1>6, <1>7 DEF w

\* What may remain of a text: marks only, or the text with marks at some places.
Remains(w, text) ==
  /\ w \in Seq(Symbols)
  /\ \/ ToSet(w) \subseteq Written
     \/ DOMAIN w = DOMAIN text /\ \A i \in DOMAIN w : w[i] \in {text[i], Mark}

\* The values the redactor puts in a field's place.
LEMMA WrittenIs ==
  ASSUME NEW w \in {Replacement, Gone, Hash}
  PROVE  w \in Seq(Symbols) /\ ToSet(w) \subseteq Written /\ \A i \in DOMAIN w : w[i] \in Written
<1>1. {Mark, "gone", "#"} \subseteq Symbols
  BY RedactionAssumption DEF Written
<1>2. PICK x \in {Mark, "gone", "#"} : w = <<x>>
  BY DEF Replacement, Gone, Hash
<1>3. w \in Seq(Symbols) /\ DOMAIN w = {1} /\ w[1] = x
  BY <1>1, <1>2
<1> QED BY <1>2, <1>3 DEF ToSet, Written

\* No literal comes up in what remains of a text.
LEMMA RemainsHides ==
  ASSUME NEW text \in Seq(Symbols), NEW w, Remains(w, text), NEW literal, Clean(literal), Occurs(w, literal)
  PROVE  Occurs(text, literal)
<1>1. /\ DOMAIN literal = 1 .. Len(literal) /\ 1 \in DOMAIN literal
      /\ \A d \in DOMAIN literal : literal[d] \notin Written /\ literal[d] # Mark
  BY CleanIs
<1>2. PICK i \in DOMAIN w : OccursAt(w, literal, i)
  BY DEF Occurs
<1>3. \A d \in DOMAIN literal : i + d - 1 \in DOMAIN w /\ w[i + d - 1] = literal[d]
  BY <1>2 DEF OccursAt
<1>4. CASE ToSet(w) \subseteq Written
  <2>1. i + 1 - 1 \in DOMAIN w /\ w[i + 1 - 1] \in ToSet(w)
    BY <1>1, <1>3 DEF ToSet
  <2> QED BY <1>1, <1>3, <1>4, <2>1
<1>5. CASE DOMAIN w = DOMAIN text /\ \A j \in DOMAIN w : w[j] \in {text[j], Mark}
  <2>1. \A d \in DOMAIN literal : i + d - 1 \in DOMAIN text /\ text[i + d - 1] = literal[d]
    BY <1>1, <1>3, <1>5
  <2>2. OccursAt(text, literal, i) /\ i \in DOMAIN text
    BY <1>5, <2>1 DEF OccursAt
  <2> QED BY <2>2 DEF Occurs
<1> QED BY <1>4, <1>5 DEF Remains

\* What a masking rule does to a text.
LEMMA MaskMatchIs ==
  ASSUME NEW rule, NEW w \in Seq(Symbols)
  PROVE  LET m == MaskMatch(rule, w) IN
         /\ m \in Seq(Symbols)
         /\ ToSet(m) \subseteq ToSet(w) \cup Written
         /\ \A text : Remains(w, text) => Remains(m, text)
         /\ rule.pattern \cap Written = {} => ToSet(m) \cap rule.pattern = {}
<1> DEFINE m == MaskMatch(rule, w)
           p == rule.pattern
<1>1. CASE p = {}
  <2>1. m = Replacement
    BY <1>1 DEF MaskMatch
  <2> HIDE DEF m, p
  <2>2. m \in Seq(Symbols) /\ ToSet(m) \subseteq Written
    BY <2>1, WrittenIs
  <2> QED BY <1>1, <2>2 DEF Remains, m, p
<1>2. CASE p # {}
  <2>1. m = [i \in DOMAIN w |-> IF w[i] \in p THEN Mark ELSE w[i]]
    BY <1>2 DEF MaskMatch
  <2> HIDE DEF m, p
  <2>2. Mark \in Written /\ Mark \in Symbols
    BY RedactionAssumption DEF Written
  <2>3. DOMAIN w = 1 .. Len(w) /\ Len(w) \in Nat /\ \A i \in DOMAIN w : w[i] \in Symbols
    OBVIOUS
  <2>4. DOMAIN m = DOMAIN w /\ \A i \in DOMAIN w : m[i] = IF w[i] \in p THEN Mark ELSE w[i]
    BY <2>1
  <2>5. m \in [1 .. Len(w) -> Symbols]
    BY <2>1, <2>2, <2>3
  <2>6. m \in Seq(Symbols)
    BY <2>3, <2>5
  <2>7. \A i \in DOMAIN m : m[i] \in ToSet(w) \cup {Mark}
    BY <2>4 DEF ToSet
  <2>8. ToSet(m) \subseteq ToSet(w) \cup Written
    BY <2>2, <2>7 DEF ToSet
  <2>9. ASSUME NEW text, Remains(w, text) PROVE Remains(m, text)
    <3>1. CASE ToSet(w) \subseteq Written
      BY <2>6, <2>8, <3>1 DEF Remains
    <3>2. CASE DOMAIN w = DOMAIN text /\ \A i \in DOMAIN w : w[i] \in {text[i], Mark}
      BY <2>4, <2>6, <3>2 DEF Remains
    <3> QED BY <2>9, <3>1, <3>2 DEF Remains
  <2>10. ASSUME p \cap Written = {} PROVE ToSet(m) \cap p = {}
    <3>1. \A i \in DOMAIN m : m[i] \notin p
      BY <2>2, <2>4, <2>10
    <3> QED BY <3>1 DEF ToSet
  <2> QED BY <2>6, <2>8, <2>9, <2>10 DEF m, p
<1> QED BY <1>1, <1>2

ScanRec == [value : Seq(Symbols), fired : Seq(STRING), over : BOOLEAN]

\* Whether the rule does something when the scan comes to it.
Acts(scan, rule, field) ==
  /\ ~scan.over /\ ~Exempt(rule, field) /\ matches(rule, scan.value, field.key) /\ ~excepted(rule, scan.value)

\* A rule adds marks, and ends the scan if it does not mask.
LEMMA ConsideredIs ==
  ASSUME NEW scan \in ScanRec, NEW rule \in PolicyRule, NEW field
  PROVE  LET next == Considered(scan, rule, field) IN
         /\ next \in ScanRec
         /\ ToSet(next.value) \subseteq ToSet(scan.value) \cup Written
         /\ \A text : Remains(scan.value, text) => Remains(next.value, text)
         /\ ~Acts(scan, rule, field) => next = scan
         /\ Acts(scan, rule, field) /\ rule.action = "mask-match"
            => next.value = MaskMatch(rule, scan.value) /\ next.over = FALSE
<1> DEFINE next == Considered(scan, rule, field)
           val == CASE rule.action = "mask-match" -> MaskMatch(rule, scan.value)
                    [] rule.action = "mask-value" -> Replacement
                    [] rule.action = "hash-value" -> Hash
                    [] rule.action = "drop-value" -> Gone
                    [] rule.action = "keep"       -> scan.value
           fired == Append(scan.fired, rule.id)
<1>1. CASE ~Acts(scan, rule, field)
  <2>1. next = scan
    BY <1>1 DEF Considered, Acts
  <2> HIDE DEF next
  <2> QED BY <1>1, <2>1 DEF next
<1>2. CASE Acts(scan, rule, field)
  <2>1. next = [value |-> val, fired |-> fired, over |-> rule.action # "mask-match"]
    BY <1>2 DEF Considered, Acts
  <2>2. scan.value \in Seq(Symbols) /\ fired \in Seq(STRING)
    <3>1. scan.fired \in Seq(STRING) /\ rule.id \in STRING /\ scan.value \in Seq(Symbols)
      BY DEF ScanRec, PolicyRule
    <3> QED BY <3>1
  <2>3. /\ val \in Seq(Symbols) /\ ToSet(val) \subseteq ToSet(scan.value) \cup Written
        /\ \A text : Remains(scan.value, text) => Remains(val, text)
        /\ rule.action = "mask-match" => val = MaskMatch(rule, scan.value)
    <3>1. CASE rule.action = "mask-match"
      <4>1. val = MaskMatch(rule, scan.value)
        BY <3>1
      <4> HIDE DEF val
      <4> QED BY <2>2, <4>1, MaskMatchIs
    <3>2. CASE rule.action \in {"mask-value", "hash-value", "drop-value"}
      <4>1. val \in {Replacement, Gone, Hash}
        BY <3>2
      <4>2. rule.action # "mask-match"
        BY <3>2
      <4> HIDE DEF val
      <4>3. val \in Seq(Symbols) /\ ToSet(val) \subseteq Written
        BY <4>1, WrittenIs
      <4> QED BY <4>2, <4>3 DEF Remains
    <3>3. CASE rule.action = "keep"
      <4>1. val = scan.value /\ rule.action # "mask-match"
        BY <3>3
      <4> HIDE DEF val
      <4> QED BY <2>2, <4>1
    <3>4. rule.action \in {"mask-match", "mask-value", "hash-value", "drop-value", "keep"}
      BY DEF PolicyRule
    <3> QED BY <3>1, <3>2, <3>3, <3>4
  <2> HIDE DEF next, val, fired
  <2>4. next.value = val /\ next.fired = fired /\ next.over = (rule.action # "mask-match")
    BY <2>1
  <2>5. next \in ScanRec
    BY <2>1, <2>2, <2>3 DEF ScanRec
  <2>6. rule.action = "mask-match" => next.over = FALSE
    BY <2>1
  <2> QED BY <1>2, <2>3, <2>4, <2>5, <2>6 DEF next
<1> QED BY <1>1, <1>2

\* The rules of a scope are rules, and about nothing the redactor writes.
LEMMA RulesAre ==
  ASSUME NEW p \in Policies, NEW scope
  PROVE  /\ Len(Rules(p, scope)) \in Nat /\ DOMAIN Rules(p, scope) = 1 .. Len(Rules(p, scope))
         /\ \A n \in DOMAIN Rules(p, scope) :
              Rules(p, scope)[n] \in PolicyRule
              /\ (Rules(p, scope)[n].pattern \cup Rules(p, scope)[n].exceptions) \cap Written = {}
<1> DEFINE K == {n \in DOMAIN p : scope \in p[n].appliesTo}
           L == Len(p)
<1>1. /\ L \in Nat /\ DOMAIN p = 1 .. L
      /\ \A n \in DOMAIN p : p[n] \in PolicyRule
  <2>1. p \in Seq(PolicyRule)
    BY RedactionAssumption
  <2> QED BY <2>1
<1>2. \A n \in DOMAIN p : (p[n].pattern \cup p[n].exceptions) \cap Written = {}
  BY WrittenApart
<1>3. K \in SUBSET DOMAIN p /\ Rules(p, scope) = Selected(p, K)
  BY DEF Rules
<1> HIDE DEF K, L
<1>4. /\ Cardinality(K) \in Nat
      /\ DOMAIN Selected(p, K) = 1 .. Cardinality(K) /\ Len(Selected(p, K)) = Cardinality(K)
      /\ \A n \in 1 .. Cardinality(K) :
           Place(K, n) \in DOMAIN p /\ Selected(p, K)[n] = p[Place(K, n)]
  BY <1>1, <1>3, SelectedIs
<1> QED BY <1>1, <1>2, <1>3, <1>4

\* f goes through the rules of a scan.
Scans(f, field, value, rules, N) ==
  /\ f[0] = [value |-> value, fired |-> <<>>, over |-> FALSE]
  /\ \A n \in 0 .. N : f[n] \in ScanRec
  /\ \A n \in 1 .. N : f[n] = Considered(f[n - 1], rules[n], field)
  /\ ByRules(rules, field, value).value = IF Strict /\ rules = <<>> THEN Replacement ELSE f[N].value

LEMMA ByRulesIs ==
  ASSUME NEW p \in Policies, NEW field, NEW value \in Seq(Symbols)
  PROVE  \E f : Scans(f, field, value, Rules(p, field.scope), Len(Rules(p, field.scope)))
<1> DEFINE rules == Rules(p, field.scope)
           N == Len(rules)
           X == ScanRec
           x0 == [value |-> value, fired |-> <<>>, over |-> FALSE]
           F == [n \in 1 .. N |-> [w \in X |-> Considered(w, rules[n], field)]]
           Sol(f) == f = [n \in 0 .. N |-> IF n = 0 THEN x0 ELSE Considered(f[n - 1], rules[n], field)]
           g == CHOOSE f : Sol(f)
<1>1. N \in Nat /\ DOMAIN rules = 1 .. N /\ \A n \in 1 .. N : rules[n] \in PolicyRule
  BY RulesAre
<1>2. x0 \in X
  <2>1. <<>> \in Seq(STRING)
    OBVIOUS
  <2> QED BY <2>1 DEF ScanRec
<1>7. ByRules(Rules(p, field.scope), field, value).value = IF Strict /\ rules = <<>> THEN Replacement ELSE g[N].value
  BY DEF ByRules, RedactionOutcome
<1> HIDE DEF rules, N, X
<1>3. \A n \in 1 .. N : \A w \in X : Considered(w, rules[n], field) \in X
  BY <1>1, ConsideredIs DEF X
<1>4. F \in [1 .. N -> [X -> X]]
  BY <1>3
<1>5. PICK f \in [0 .. N -> X] : Follows(f, N, F, x0)
  <2> HIDE DEF F, x0
  <2> QED BY <1>1, <1>2, <1>4, Iterated
<1> HIDE DEF x0
<1>6. f[0] = x0 /\ \A n \in 1 .. N : f[n - 1] \in X /\ f[n] = Considered(f[n - 1], rules[n], field)
  <2>1. \A n \in 1 .. N : n - 1 \in 0 .. N
    BY <1>1
  <2>2. \A n \in 1 .. N : f[n - 1] \in X
    BY <1>5, <2>1
  <2> QED BY <1>5, <2>2 DEF Follows
<1>8. Sol(f)
  <2>1. f = [n \in 0 .. N |-> f[n]]
    BY <1>5
  <2>2. \A n \in 0 .. N : n # 0 => n \in 1 .. N
    BY <1>1
  <2> QED BY <1>6, <2>1, <2>2
<1>9. Sol(g)
  <2> HIDE DEF Sol
  <2> QED BY <1>8
<1> HIDE DEF g
<1>10. g[0] = x0 /\ \A n \in 1 .. N : g[n] = Considered(g[n - 1], rules[n], field)
  <2>1. 0 \in 0 .. N /\ \A n \in 1 .. N : n \in 0 .. N /\ n # 0
    BY <1>1
  <2>2. g = [n \in 0 .. N |-> IF n = 0 THEN x0 ELSE Considered(g[n - 1], rules[n], field)]
    BY <1>9
  <2> QED BY <2>1, <2>2
<1>11. \A n \in 0 .. N : g[n] \in X
  <2> DEFINE P == {n \in 0 .. N : g[n] \in X}
  <2>1. 0 \in P
    BY <1>1, <1>2, <1>10
  <2>2. ASSUME NEW n \in 0 .. N - 1, n \in P PROVE n + 1 \in P
    <3>1. n + 1 \in 1 .. N /\ n + 1 \in 0 .. N /\ n + 1 - 1 = n
      BY <1>1
    <3>2. g[n + 1] = Considered(g[n], rules[n + 1], field)
      BY <1>10, <3>1
    <3> QED BY <1>3, <2>2, <3>1, <3>2
  <2>3. 0 .. N \subseteq P
    <3> HIDE DEF P
    <3> QED BY <1>1, <2>1, <2>2, CountUp
  <2> QED BY <2>3
<1> QED BY <1>7, <1>10, <1>11 DEF Scans, rules, N, X, x0

\* What the rules leave of a text remains of it.
LEMMA ByRulesLeaves ==
  ASSUME NEW p \in Policies, NEW field, NEW value \in Seq(Symbols)
  PROVE  Remains(ByRules(Rules(p, field.scope), field, value).value, value)
<1> DEFINE rules == Rules(p, field.scope)
           N == Len(rules)
<1>1. N \in Nat /\ DOMAIN rules = 1 .. N /\ \A n \in 1 .. N : rules[n] \in PolicyRule
  BY RulesAre
<1>2. PICK f : Scans(f, field, value, rules, N)
  BY ByRulesIs
<1> HIDE DEF rules, N
<1> DEFINE P == {n \in 0 .. N : Remains(f[n].value, value)}
<1>3. 0 \in P
  <2>1. f[0].value = value
    BY <1>2 DEF Scans
  <2> QED BY <1>1, <2>1 DEF Remains
<1>4. ASSUME NEW n \in 0 .. N - 1, n \in P PROVE n + 1 \in P
  <2>1. n + 1 \in 1 .. N /\ n \in 0 .. N /\ n + 1 \in 0 .. N /\ n + 1 - 1 = n
    BY <1>1
  <2>2. f[n] \in ScanRec /\ f[n + 1] = Considered(f[n], rules[n + 1], field) /\ rules[n + 1] \in PolicyRule
    BY <1>1, <1>2, <2>1 DEF Scans
  <2> QED BY <1>4, <2>1, <2>2, ConsideredIs
<1>5. Remains(f[N].value, value)
  <2>1. 0 .. N \subseteq P
    <3> HIDE DEF P
    <3> QED BY <1>1, <1>3, <1>4, CountUp
  <2> QED BY <1>1, <2>1
<1>6. Remains(Replacement, value)
  BY WrittenIs DEF Remains
<1>7. ByRules(rules, field, value).value \in {Replacement, f[N].value}
  BY <1>2 DEF Scans
<1> QED BY <1>5, <1>6, <1>7 DEF rules

\* What the redactor makes of a value: marks, or what is left of it by the
\* literals, or what is left of it by the rules if no literal is in it.
LEMMA RedactCases ==
  ASSUME NEW p, NEW field, NEW value, NEW literals
  PROVE  \/ redact(p, field, value, literals).value \in {Replacement, Gone}
         \/ redact(p, field, value, literals).value = MaskAll(value, literals) /\ value # Gone
            /\ MaskAll(value, literals) # value
         \/ redact(p, field, value, literals) = ByRules(Rules(p, field.scope), field, value) /\ value # Gone
            /\ MaskAll(value, literals) = value
<1> DEFINE o == redactField(Rules(p, field.scope), field, value, literals)
<1>1. \/ o.value \in {Replacement, Gone}
      \/ o.value = MaskAll(value, literals) /\ value # Gone /\ MaskAll(value, literals) # value
      \/ o = ByRules(Rules(p, field.scope), field, value) /\ value # Gone /\ MaskAll(value, literals) = value
  BY DEF redactField, RedactionOutcome
<1>2. redactQuery(Rules(p, field.scope), field, value, literals) = o \/ redactQuery(Rules(p, field.scope), field, value, literals).value \in {Replacement, Gone}
  <2> HIDE DEF o
  <2> QED BY DEF redactQuery, RedactionOutcome, o
<1> HIDE DEF o
<1>3. redact(p, field, value, literals) = o \/ redact(p, field, value, literals).value \in {Replacement, Gone}
  BY <1>2 DEF redact, o
<1> QED BY <1>1, <1>3

\* No literal is left in what the redactor makes of a value, and one that is the value goes whole.
LEMMA RedactHides ==
  ASSUME NEW p \in Policies, NEW field, NEW value \in Seq(Symbols), NEW literals, Ordered(literals)
  PROVE  LET w == redact(p, field, value, literals).value IN
         /\ w \in Seq(Symbols)
         /\ \A n \in DOMAIN literals : ~Occurs(w, literals[n])
         /\ \A n \in DOMAIN literals : value = literals[n] => ToSet(w) \subseteq Written
<1> DEFINE w == redact(p, field, value, literals).value
           masked == MaskAll(value, literals)
<1>1. /\ masked \in Seq(Symbols)
      /\ \A n \in DOMAIN literals : ~Occurs(masked, literals[n])
      /\ \A n \in DOMAIN literals : value = literals[n] => masked = Replacement
  BY MaskAllLeaves
<1>2. \/ w \in {Replacement, Gone}
      \/ w = masked
      \/ w = ByRules(Rules(p, field.scope), field, value).value /\ masked = value
  BY RedactCases
<1>3. \A n \in DOMAIN literals : Clean(literals[n])
  BY DEF Ordered
<1> HIDE DEF w, masked
<1>4. CASE w \in {Replacement, Gone}
  <2>1. w \in Seq(Symbols) /\ ToSet(w) \subseteq Written
    BY <1>4, WrittenIs
  <2>3. ASSUME NEW n \in DOMAIN literals, Occurs(w, literals[n]) PROVE FALSE
    <3>1. Remains(w, <<>>) /\ <<>> \in Seq(Symbols)
      BY <2>1 DEF Remains
    <3>2. Occurs(<<>>, literals[n])
      BY <1>3, <2>3, <3>1, RemainsHides
    <3> QED BY <3>2 DEF Occurs
  <2> QED BY <2>1, <2>3 DEF w
<1>5. CASE w = masked
  <2>1. masked = Replacement => ToSet(masked) \subseteq Written
    BY WrittenIs
  <2> QED BY <1>1, <1>5, <2>1 DEF w
<1>6. CASE w = ByRules(Rules(p, field.scope), field, value).value /\ masked = value
  <2>1. Remains(w, value)
    BY <1>6, ByRulesLeaves
  <2>2. \A n \in DOMAIN literals : ~Occurs(w, literals[n])
    BY <1>1, <1>3, <1>6, <2>1, RemainsHides
  <2>3. ASSUME NEW n \in DOMAIN literals, value = literals[n] PROVE FALSE
    <3>1. value = Replacement
      BY <1>1, <1>6, <2>3
    <3>2. Clean(Replacement)
      BY <1>3, <2>3, <3>1
    <3>3. 1 \in DOMAIN Replacement /\ Replacement[1] = Mark
      BY DEF Replacement
    <3> QED BY <3>2, <3>3, CleanIs
  <2> QED BY <2>1, <2>2, <2>3 DEF Remains, w
<1> QED BY <1>2, <1>4, <1>5, <1>6

\* To a value that has no literal, it makes no difference whether the redactor knows any.
LEMMA RedactForgets ==
  ASSUME NEW p, NEW field, NEW value \in Seq(Symbols), NEW literals, Ordered(literals),
         \A n \in DOMAIN literals : ~Occurs(value, literals[n])
  PROVE  redact(p, field, value, literals) = redact(p, field, value, <<>>)
<1>1. MaskAll(value, literals) = value
  BY MaskAllLeaves
<1>2. MaskAll(value, <<>>) = value
  <2>1. Ordered(<<>>) /\ DOMAIN <<>> = {}
    BY DEF Ordered
  <2> QED BY <2>1, MaskAllLeaves
<1>3. redactField(Rules(p, field.scope), field, value, literals) = redactField(Rules(p, field.scope), field, value, <<>>)
  BY <1>1, <1>2 DEF redactField
<1> QED BY <1>3 DEF redact, redactQuery

-----------------------------------------------------------------------------
(* A batch.                                                                *)

\* What a field may be in the log.
Entries(p, literals) ==
  {[field |-> f, value |-> Persisted(f, redact(p, f, f.value, literals).value)] : f \in Fields}

\* What a log may be sealed with.
SealedRecs(p, literals) ==
  {[raw |-> log, evidence |-> Normalized(p, log, resetCounters, literals).evidence,
    stamp |-> Normalized(p, log, resetCounters, literals).stamp] : log \in Seq(Entries(p, literals))}

\* The invariant of a batch: every field was redacted by the one policy and the
\* one list of literals, and every run sealed from reset counters.
BatchInv ==
  /\ policy \in Policies /\ Ordered(secretLiterals)
  /\ \A n \in DOMAIN secretLiterals : Len(secretLiterals[n]) >= MinLiteral
  /\ rawLog \in Seq(Entries(policy, secretLiterals))
  /\ sealedRuns \in Seq(SealedRecs(policy, secretLiterals))

\* What is registered is tried longest first.
LEMMA RegisteredIsOrdered ==
  ASSUME NEW values \in Credentials, NEW literals \in maskValues(values)
  PROVE  Ordered(literals) /\ \A n \in DOMAIN literals : Len(literals[n]) >= MinLiteral
<1> DEFINE kept == {v \in ToSet(values) : Len(v) >= MinLiteral}
           C == Cardinality(kept)
<1>1. values \in Seq(Seq(Symbols)) /\ \A i \in DOMAIN values : ToSet(values[i]) \cap Written = {}
  BY RedactionAssumption, WrittenApart
<1>2. MinLiteral \in Nat /\ MinLiteral > 0
  BY RedactionAssumption
<1>3. \A v \in kept : v \in Seq(Symbols) /\ Clean(v) /\ Len(v) >= MinLiteral
  <2> TAKE v \in kept
  <2>1. PICK i \in DOMAIN values : v = values[i]
    BY DEF ToSet
  <2>2. v \in Seq(Symbols) /\ Len(v) >= MinLiteral /\ Len(v) \in Nat
    BY <1>1, <2>1
  <2> QED BY <1>1, <1>2, <2>1, <2>2 DEF Clean
<1>4. literals \in [1 .. C -> kept]
      /\ \A i, j \in DOMAIN literals : i < j => literals[i] # literals[j] /\ Len(literals[i]) >= Len(literals[j])
  BY DEF maskValues
<1>5. IsFiniteSet(kept)
  <2>1. IsFiniteSet(ToSet(values))
    <3>1. Len(values) \in Nat /\ DOMAIN values = 1 .. Len(values)
      BY <1>1
    <3>2. IsFiniteSet(1 .. Len(values))
      BY <3>1, FS_Interval
    <3> DEFINE T == ToSet(values)
               g == [i \in 1 .. Len(values) |-> values[i]]
    <3>3. g \in Surjection(1 .. Len(values), T)
      BY <3>1 DEF Surjection, ToSet
    <3> HIDE DEF g, T
    <3>4. IsFiniteSet(T)
      BY <3>2, <3>3, FS_Surjection
    <3> QED BY <3>4 DEF T
  <2> QED BY <2>1, FS_Subset
<1> HIDE DEF kept
<1>6. C \in Nat
  BY <1>5, FS_CardinalityType
<1> HIDE DEF C
<1>7. \A n \in 1 .. C : literals[n] \in kept
  BY <1>4
<1>8. literals \in Seq(Seq(Symbols)) /\ DOMAIN literals = 1 .. C
  <2>1. literals \in [1 .. C -> Seq(Symbols)]
    BY <1>3, <1>4
  <2> QED BY <1>6, <2>1
<1> QED BY <1>3, <1>4, <1>7, <1>8 DEF Ordered

LEMMA BatchInitially == BatchInit => BatchInv
<1> SUFFICES ASSUME BatchInit PROVE BatchInv
  OBVIOUS
<1>1. PICK values \in Credentials : secretLiterals \in maskValues(values)
  BY DEF BatchInit
<1>2. Ordered(secretLiterals) /\ \A n \in DOMAIN secretLiterals : Len(secretLiterals[n]) >= MinLiteral
  BY <1>1, RegisteredIsOrdered
<1> DEFINE E == Entries(policy, secretLiterals)
           S == SealedRecs(policy, secretLiterals)
<1> HIDE DEF E, S
<1>3. <<>> \in Seq(E) /\ <<>> \in Seq(S)
  OBVIOUS
<1> QED BY <1>2, <1>3 DEF BatchInit, BatchInv, E, S

LEMMA BatchPreserved == BatchInv /\ [BatchNext]_batchVars => BatchInv'
<1> SUFFICES ASSUME BatchInv, [BatchNext]_batchVars PROVE BatchInv'
  OBVIOUS
<1> DEFINE E(p, l) == Entries(p, l)
           S(p, l) == SealedRecs(p, l)
<1>1. CASE Collect
  <2>1. PICK f \in Fields :
          rawLog' = Append(rawLog, [field |-> f, value |-> Persisted(f, redact(policy, f, f.value, secretLiterals).value)])
    BY <1>1 DEF Collect
  <2>2. policy' = policy /\ secretLiterals' = secretLiterals /\ sealedRuns' = sealedRuns
    BY <1>1 DEF Collect
  <2>3. rawLog' \in Seq(E(policy, secretLiterals))
    <3> DEFINE e == [field |-> f, value |-> Persisted(f, redact(policy, f, f.value, secretLiterals).value)]
    <3>1. e \in E(policy, secretLiterals)
      BY DEF Entries
    <3> HIDE DEF e, E
    <3>2. rawLog' = Append(rawLog, e)
      BY <2>1 DEF e
    <3>3. rawLog \in Seq(E(policy, secretLiterals))
      BY DEF BatchInv, E
    <3> QED BY <3>1, <3>2, <3>3
  <2> QED BY <2>2, <2>3 DEF BatchInv
<1>2. CASE SealRun
  <2> DEFINE t == Normalized(policy, rawLog, resetCounters, secretLiterals)
             r == [raw |-> rawLog, evidence |-> t.evidence, stamp |-> t.stamp]
  <2>1. sealedRuns' = Append(sealedRuns, r) /\ rawLog' = <<>>
    BY <1>2 DEF SealRun
  <2>2. policy' = policy /\ secretLiterals' = secretLiterals
    BY <1>2 DEF SealRun
  <2>3. r \in S(policy, secretLiterals)
    BY DEF BatchInv, SealedRecs
  <2> HIDE DEF r, t, S, E
  <2>4. sealedRuns' \in Seq(S(policy, secretLiterals))
    <3>1. sealedRuns \in Seq(S(policy, secretLiterals))
      BY DEF BatchInv, S
    <3> QED BY <2>1, <2>3, <3>1
  <2>5. rawLog' \in Seq(E(policy, secretLiterals))
    BY <2>1
  <2> QED BY <2>2, <2>4, <2>5 DEF BatchInv, E, S
<1>3. CASE UNCHANGED batchVars
  BY <1>3 DEF BatchInv, batchVars
<1> QED BY <1>1, <1>2, <1>3 DEF BatchNext

\* The invariant of a batch, for any policies, fields and registered values.
THEOREM BatchInvariant == BatchSpec => []BatchInv
<1> QED BY BatchInitially, BatchPreserved, PTL DEF BatchSpec

\* Where an entry came from.
LEMMA LoggedIs ==
  ASSUME BatchInv, NEW e \in Logged
  PROVE  /\ e.field \in Fields /\ e.field.value \in Seq(Symbols)
         /\ e.value = Persisted(e.field, redact(policy, e.field, e.field.value, secretLiterals).value)
<1> DEFINE E == Entries(policy, secretLiterals)
<1>1. rawLog \in Seq(E) /\ sealedRuns \in Seq(SealedRecs(policy, secretLiterals))
  BY DEF BatchInv
<1>2. \A k \in DOMAIN sealedRuns : sealedRuns[k].raw \in Seq(E)
  <2> TAKE k \in DOMAIN sealedRuns
  <2>1. sealedRuns[k] \in SealedRecs(policy, secretLiterals)
    BY <1>1
  <2> QED BY <2>1 DEF SealedRecs
<1> HIDE DEF E
<1>3. \A s \in Seq(E) : ToSet(s) \subseteq E
  BY DEF ToSet
<1>4. e \in E
  BY <1>1, <1>2, <1>3 DEF Logged
<1>5. PICK f \in Fields : e = [field |-> f, value |-> Persisted(f, redact(policy, f, f.value, secretLiterals).value)]
  BY <1>4 DEF E, Entries
<1> QED BY <1>5, RedactionAssumption

\* What the log keeps in place of a dropped value has no literal either.
LEMMA PersistedIs ==
  ASSUME NEW field, NEW w \in Seq(Symbols)
  PROVE  /\ Persisted(field, w) \in Seq(Symbols)
         /\ Persisted(field, w) # w => ToSet(Persisted(field, w)) \subseteq Written
         /\ \A l : Clean(l) /\ Occurs(Persisted(field, w), l) => Occurs(w, l)
         /\ ToSet(Persisted(field, w)) \subseteq ToSet(w) \cup Written
<1> DEFINE q == Persisted(field, w)
<1>1. q \in {w, <<>>, Replacement, Gone}
  BY DEF Persisted
<1> HIDE DEF q
<1>2. CASE q = w
  BY <1>2 DEF q
<1>3. CASE q \in {<<>>, Replacement, Gone}
  <2>1. <<>> \in Seq(Symbols) /\ ToSet(<<>>) = {}
    BY DEF ToSet
  <2>2. q \in Seq(Symbols) /\ ToSet(q) \subseteq Written
    BY <1>3, <2>1, WrittenIs
  <2>3. ASSUME NEW l, Clean(l), Occurs(q, l) PROVE FALSE
    <3>1. Remains(q, <<>>)
      BY <2>2 DEF Remains
    <3>2. Occurs(<<>>, l)
      BY <2>1, <2>3, <3>1, RemainsHides
    <3> QED BY <3>2 DEF Occurs
  <2> QED BY <2>2, <2>3 DEF q
<1> QED BY <1>1, <1>2, <1>3

\* No registered value is left in a log, whatever rules there are and in whatever order values are registered.
THEOREM NoSecretIsLeft == BatchSpec => []LiteralsGoWhole
<1>1. ASSUME BatchInv PROVE LiteralsGoWhole
  <2> SUFFICES ASSUME NEW e \in Logged, NEW k \in DOMAIN secretLiterals
               PROVE  /\ ~Occurs(e.value, secretLiterals[k])
                      /\ e.field.value = secretLiterals[k] => ToSet(e.value) \subseteq Written
    BY DEF LiteralsGoWhole
  <2> DEFINE f == e.field
             w == redact(policy, f, f.value, secretLiterals).value
  <2>1. f.value \in Seq(Symbols) /\ e.value = Persisted(f, w)
    BY <1>1, LoggedIs
  <2>2. policy \in Policies /\ Ordered(secretLiterals) /\ Clean(secretLiterals[k])
    BY <1>1 DEF BatchInv, Ordered
  <2>3. /\ w \in Seq(Symbols) /\ ~Occurs(w, secretLiterals[k])
        /\ f.value = secretLiterals[k] => ToSet(w) \subseteq Written
    BY <2>1, <2>2, RedactHides
  <2> HIDE DEF w
  <2> QED BY <2>1, <2>2, <2>3, PersistedIs
<1> QED BY <1>1, BatchInvariant, PTL

\* A rebuild redacts again without the registered values, and finds none: it
\* comes to the evidence and the counts of the seal.
THEOREM RebuildRedactsAlike == BatchSpec => []RebuildIsIdentical
<1>1. ASSUME BatchInv, LiteralsGoWhole PROVE RebuildIsIdentical
  <2> SUFFICES ASSUME NEW k \in DOMAIN sealedRuns
               PROVE  Normalized(policy, sealedRuns[k].raw, <<>>, <<>>) =
                        [evidence |-> sealedRuns[k].evidence, stamp |-> sealedRuns[k].stamp]
    BY DEF RebuildIsIdentical
  <2> DEFINE log == sealedRuns[k].raw
             Shown(e, l) == IF e.field.scope \in TwiceScopes THEN redact(policy, e.field, e.value, l)
                            ELSE RedactionOutcome(e.value, <<>>)
             T(l) == Normalized(policy, log, <<>>, l)
  <2>1. log \in Seq(Entries(policy, secretLiterals))
        /\ sealedRuns[k].evidence = T(secretLiterals).evidence /\ sealedRuns[k].stamp = T(secretLiterals).stamp
    <3>1. sealedRuns[k] \in SealedRecs(policy, secretLiterals)
      BY <1>1 DEF BatchInv
    <3> QED BY <3>1 DEF SealedRecs, resetCounters
  <2>2. \A i \in DOMAIN log : log[i] \in Logged
    BY DEF Logged, ToSet
  <2>3. \A i \in DOMAIN log : Shown(log[i], secretLiterals) = Shown(log[i], <<>>)
    <3> TAKE i \in DOMAIN log
    <3> DEFINE e == log[i]
    <3>1. e \in Logged
      BY <2>2
    <3> HIDE DEF e
    <3>2. e.value \in Seq(Symbols)
      <4>1. /\ e.field.value \in Seq(Symbols)
            /\ e.value = Persisted(e.field, redact(policy, e.field, e.field.value, secretLiterals).value)
        BY <1>1, <3>1, LoggedIs
      <4>2. redact(policy, e.field, e.field.value, secretLiterals).value \in Seq(Symbols)
        BY <1>1, <4>1, RedactHides DEF BatchInv
      <4> QED BY <4>1, <4>2, PersistedIs
    <3>3. Ordered(secretLiterals) /\ \A n \in DOMAIN secretLiterals : ~Occurs(e.value, secretLiterals[n])
      BY <1>1, <3>1 DEF BatchInv, LiteralsGoWhole
    <3>4. redact(policy, e.field, e.value, secretLiterals) = redact(policy, e.field, e.value, <<>>)
      BY <3>2, <3>3, RedactForgets
    <3> QED BY <3>4 DEF e
  <2>4. \A l : T(l) = [evidence |-> [i \in DOMAIN log |-> Shown(log[i], l).value],
                       stamp    |-> NoteAll(<<>>, [i \in DOMAIN log |-> Shown(log[i], l).fired])]
    BY DEF Normalized
  <2> HIDE DEF Shown, T, log
  <2>5. /\ [i \in DOMAIN log |-> Shown(log[i], secretLiterals).value] = [i \in DOMAIN log |-> Shown(log[i], <<>>).value]
        /\ [i \in DOMAIN log |-> Shown(log[i], secretLiterals).fired] = [i \in DOMAIN log |-> Shown(log[i], <<>>).fired]
    BY <2>3
  <2>6. T(secretLiterals) = T(<<>>)
    BY <2>4, <2>5
  <2>7. T(<<>>) = [evidence |-> T(<<>>).evidence, stamp |-> T(<<>>).stamp]
    BY <2>4
  <2>8. Normalized(policy, sealedRuns[k].raw, <<>>, <<>>) = T(<<>>)
    BY DEF T, log
  <2> QED BY <2>1, <2>6, <2>7, <2>8
<1> QED BY <1>1, BatchInvariant, NoSecretIsLeft, PTL

\* A rule adds nothing but what the redactor writes, and one that masks goes on.
LEMMA ConsideredAdds ==
  ASSUME NEW scan \in ScanRec, NEW rule \in PolicyRule, NEW field
  PROVE  /\ ToSet(Considered(scan, rule, field).value) \subseteq ToSet(scan.value) \cup Written
         /\ Acts(scan, rule, field) /\ rule.action = "mask-match" => Considered(scan, rule, field).over = FALSE
<1>1. ToSet(Considered(scan, rule, field).value) \subseteq ToSet(scan.value) \cup Written
  BY ConsideredIs
<1>2. Acts(scan, rule, field) /\ rule.action = "mask-match" => Considered(scan, rule, field).over = FALSE
  BY ConsideredIs
<1> QED BY <1>1, <1>2

\* A rule that matches what the rules before it left matches the value too, and
\* is excepted there if it is excepted by what they left.
LEMMA LeftMatches ==
  ASSUME NEW rule, (rule.pattern \cup rule.exceptions) \cap Written = {}, NEW value, NEW w,
         ToSet(w) \subseteq ToSet(value) \cup Written, NEW key
  PROVE  /\ matches(rule, w, key) => matches(rule, value, key)
         /\ excepted(rule, w) => excepted(rule, value)
<1> DEFINE A == ToSet(w)
           B == ToSet(value)
           M == Written
<1>1. A \subseteq B \cup M /\ rule.pattern \cap M = {} /\ rule.exceptions \cap M = {}
  OBVIOUS
<1>2. matches(rule, w, key) => matches(rule, value, key)
  <2>1. matches(rule, w, key) <=> /\ rule.keys # {} => key \in rule.keys
                                  /\ rule.pattern # {} => A \cap rule.pattern # {}
                                  /\ rule.any \/ rule.keys # {} \/ rule.pattern # {}
    BY DEF matches
  <2>2. matches(rule, value, key) <=> /\ rule.keys # {} => key \in rule.keys
                                      /\ rule.pattern # {} => B \cap rule.pattern # {}
                                      /\ rule.any \/ rule.keys # {} \/ rule.pattern # {}
    BY DEF matches
  <2> HIDE DEF A, B, M
  <2>3. A \cap rule.pattern # {} => B \cap rule.pattern # {}
    BY <1>1
  <2> QED BY <2>1, <2>2, <2>3
<1>3. excepted(rule, w) => excepted(rule, value)
  <2>1. (excepted(rule, w) <=> A \cap rule.exceptions # {}) /\ (excepted(rule, value) <=> B \cap rule.exceptions # {})
    BY DEF excepted
  <2> HIDE DEF A, B, M
  <2> QED BY <1>1, <2>1
<1> QED BY <1>2, <1>3

\* A masking rule that is reached leaves nothing of what it is about.
LEMMA ReachedMasks ==
  ASSUME NEW p \in Policies, NEW field, NEW value \in Seq(Symbols), NEW k \in DOMAIN Rules(p, field.scope),
         \A j \in 1 .. k - 1 : \/ Rules(p, field.scope)[j].action = "mask-match"
                               \/ ~matches(Rules(p, field.scope)[j], value, field.key),
         Rules(p, field.scope)[k].action = "mask-match",
         matches(Rules(p, field.scope)[k], value, field.key),
         ~Exempt(Rules(p, field.scope)[k], field), ~excepted(Rules(p, field.scope)[k], value)
  PROVE  ToSet(ByRules(Rules(p, field.scope), field, value).value) \cap Rules(p, field.scope)[k].pattern = {}
<1> DEFINE rules == Rules(p, field.scope)
           N == Len(rules)
           rule == rules[k]
<1>1. /\ N \in Nat /\ DOMAIN rules = 1 .. N
      /\ \A n \in 1 .. N : rules[n] \in PolicyRule /\ (rules[n].pattern \cup rules[n].exceptions) \cap Written = {}
  BY RulesAre
<1>2. PICK g : Scans(g, field, value, rules, N)
  BY ByRulesIs
<1>3. /\ k \in 1 .. N /\ rule.action = "mask-match" /\ matches(rule, value, field.key)
      /\ ~Exempt(rule, field) /\ ~excepted(rule, value)
      /\ \A j \in 1 .. k - 1 : rules[j].action = "mask-match" \/ ~matches(rules[j], value, field.key)
  BY <1>1
<1>4. ByRules(rules, field, value).value = g[N].value
  <2>1. rules # <<>>
    <3> SUFFICES ASSUME rules = <<>> PROVE FALSE
      OBVIOUS
    <3>1. DOMAIN <<>> = {}
      OBVIOUS
    <3> HIDE DEF rules
    <3> QED BY <1>1, <1>3, <3>1
  <2> HIDE DEF rules
  <2> QED BY <1>2, <2>1 DEF Scans
<1> HIDE DEF rules, N
<1>5. rule \in PolicyRule /\ (rule.pattern \cup rule.exceptions) \cap Written = {}
  BY <1>1, <1>3
<1> HIDE DEF rule
<1>6. \A n \in 0 .. N - 1 : /\ n + 1 \in 1 .. N /\ n \in 0 .. N /\ g[n] \in ScanRec
                            /\ rules[n + 1] \in PolicyRule /\ g[n + 1] = Considered(g[n], rules[n + 1], field)
  <2> TAKE n \in 0 .. N - 1
  <2>1. n + 1 \in 1 .. N /\ n \in 0 .. N /\ n + 1 - 1 = n
    BY <1>1
  <2> QED BY <1>1, <1>2, <2>1 DEF Scans
<1> DEFINE P == {n \in 0 .. k - 1 : g[n].over = FALSE /\ ToSet(g[n].value) \subseteq ToSet(value) \cup Written}
<1>7. 0 \in P
  <2>1. g[0].over = FALSE /\ g[0].value = value
    BY <1>2 DEF Scans
  <2> QED BY <1>1, <1>3, <2>1
<1>8. ASSUME NEW n \in 0 .. (k - 1) - 1, n \in P PROVE n + 1 \in P
  <2> DEFINE r == rules[n + 1]
             s == g[n]
  <2>1. n \in 0 .. N - 1 /\ n + 1 \in 1 .. k - 1 /\ n + 1 \in 0 .. k - 1 /\ n + 1 \in 1 .. N
    BY <1>1, <1>3
  <2>2. /\ s \in ScanRec /\ r \in PolicyRule /\ g[n + 1] = Considered(s, r, field)
        /\ s.over = FALSE /\ ToSet(s.value) \subseteq ToSet(value) \cup Written
        /\ (r.pattern \cup r.exceptions) \cap Written = {}
    BY <1>1, <1>6, <1>8, <2>1
  <2>3. r.action = "mask-match" \/ ~matches(r, value, field.key)
    BY <1>3, <2>1
  <2> HIDE DEF r, s
  <2>4. CASE ~Acts(s, r, field)
    <3>1. g[n + 1] = s
      BY <2>2, <2>4, ConsideredIs
    <3> QED BY <2>1, <2>2, <3>1
  <2>5. CASE Acts(s, r, field)
    <3>1. matches(r, s.value, field.key)
      BY <2>5 DEF Acts
    <3>2. r.action = "mask-match"
      BY <2>2, <2>3, <3>1, LeftMatches
    <3>3. Considered(s, r, field).over = FALSE
      BY <2>2, <2>5, <3>2, ConsideredAdds
    <3>4. ToSet(g[n + 1].value) \subseteq ToSet(s.value) \cup Written
      BY <2>2, ConsideredAdds
    <3> QED BY <2>1, <2>2, <3>3, <3>4
  <2> QED BY <2>4, <2>5
<1>9. k - 1 \in P /\ k - 1 \in 0 .. N - 1 /\ k - 1 + 1 = k
  <2>1. k - 1 \in Nat /\ k - 1 \in 0 .. N - 1 /\ k - 1 + 1 = k
    BY <1>1, <1>3
  <2>2. 0 .. k - 1 \subseteq P
    <3> HIDE DEF P
    <3> QED BY <1>7, <1>8, <2>1, CountUp
  <2> QED BY <2>1, <2>2
<1>10. ToSet(g[k].value) \cap rule.pattern = {}
  <2> DEFINE s == g[k - 1]
  <2>1. /\ s \in ScanRec /\ g[k] = Considered(s, rule, field)
        /\ s.over = FALSE /\ ToSet(s.value) \subseteq ToSet(value) \cup Written
    BY <1>6, <1>9 DEF rule
  <2> HIDE DEF s
  <2>2. s.value \in Seq(Symbols)
    BY <2>1 DEF ScanRec
  <2>3. CASE Acts(s, rule, field)
    <3>1. g[k].value = MaskMatch(rule, s.value)
      BY <1>3, <1>5, <2>1, <2>3, ConsideredIs
    <3> QED BY <1>5, <2>2, <3>1, MaskMatchIs
  <2>4. CASE ~Acts(s, rule, field)
    <3>1. g[k] = s
      BY <1>5, <2>1, <2>4, ConsideredIs
    <3>2. ~excepted(rule, s.value)
      BY <1>3, <1>5, <2>1, LeftMatches
    <3>3. ~matches(rule, s.value, field.key)
      BY <1>3, <2>1, <2>4, <3>2 DEF Acts
    <3>4. ToSet(s.value) \cap rule.pattern = {}
      BY <1>3, <3>3 DEF matches
    <3> QED BY <3>1, <3>4
  <2> QED BY <2>3, <2>4
<1> DEFINE Q == {n \in 0 .. N - k : ToSet(g[k + n].value) \cap rule.pattern = {}}
<1>11. 0 \in Q
  <2>1. k + 0 = k /\ 0 \in 0 .. N - k
    BY <1>1, <1>3
  <2> QED BY <1>10, <2>1
<1>12. ASSUME NEW n \in 0 .. (N - k) - 1, n \in Q PROVE n + 1 \in Q
  <2>1. k + n \in 0 .. N - 1 /\ k + n + 1 = k + (n + 1) /\ n + 1 \in 0 .. N - k
    <3>1. N \in Nat
      BY <1>1
    <3>2. k \in 1 .. N
      BY <1>3
    <3> HIDE DEF Q
    <3> QED BY <3>1, <3>2
  <2>2. ToSet(g[k + n + 1].value) \subseteq ToSet(g[k + n].value) \cup Written
    <3> DEFINE s == g[k + n]
               r == rules[k + n + 1]
               t == g[k + n + 1]
    <3>1. s \in ScanRec /\ r \in PolicyRule /\ t = Considered(s, r, field)
      BY <1>6, <2>1
    <3> HIDE DEF s, r, t
    <3>2. ToSet(Considered(s, r, field).value) \subseteq ToSet(s.value) \cup Written
      BY <3>1, ConsideredAdds
    <3>3. ToSet(t.value) \subseteq ToSet(s.value) \cup Written
      BY <3>1, <3>2
    <3> QED BY <3>3 DEF s, t
  <2>3. ToSet(g[k + n + 1].value) \cap rule.pattern = {}
    BY <1>5, <1>12, <2>2
  <2> QED BY <2>1, <2>3
<1>13. ToSet(g[N].value) \cap rule.pattern = {}
  <2>1. N - k \in Nat /\ k + (N - k) = N
    BY <1>1, <1>3
  <2>2. 0 .. N - k \subseteq Q
    <3> HIDE DEF Q
    <3> QED BY <1>11, <1>12, <2>1, CountUp
  <2>3. N - k \in Q
    BY <2>1, <2>2
  <2> QED BY <2>1, <2>3
<1> QED BY <1>4, <1>13 DEF rules, rule

\* Whatever the rules of a policy and their order, those that mask mask together.
THEOREM MasksAddUp == BatchSpec => []MasksCompose
<1>1. ASSUME BatchInv PROVE MasksCompose
  <2> SUFFICES ASSUME NEW e \in Logged,
                      \A i \in DOMAIN secretLiterals : ~Occurs(e.field.value, secretLiterals[i]),
                      NEW k \in DOMAIN Rules(policy, e.field.scope),
                      \A j \in 1 .. k - 1 : \/ Rules(policy, e.field.scope)[j].action = "mask-match"
                                            \/ ~matches(Rules(policy, e.field.scope)[j], e.field.value, e.field.key),
                      Rules(policy, e.field.scope)[k].action = "mask-match",
                      matches(Rules(policy, e.field.scope)[k], e.field.value, e.field.key),
                      ~Exempt(Rules(policy, e.field.scope)[k], e.field),
                      ~excepted(Rules(policy, e.field.scope)[k], e.field.value)
               PROVE  ToSet(e.value) \cap Rules(policy, e.field.scope)[k].pattern = {}
    BY DEF MasksCompose
  <2> DEFINE f == e.field
             pattern == Rules(policy, f.scope)[k].pattern
             w == redact(policy, f, f.value, secretLiterals).value
  <2>1. f.value \in Seq(Symbols) /\ e.value = Persisted(f, w)
    BY <1>1, LoggedIs
  <2>2. policy \in Policies /\ Ordered(secretLiterals)
    BY <1>1 DEF BatchInv
  <2>3. pattern \cap Written = {}
    <3>1. (Rules(policy, f.scope)[k].pattern \cup Rules(policy, f.scope)[k].exceptions) \cap Written = {}
      BY <2>2, RulesAre
    <3> QED BY <3>1
  <2>4. w \in Seq(Symbols)
    BY <2>1, <2>2, RedactHides
  <2>5. ToSet(e.value) \subseteq ToSet(w) \cup Written
    <3> HIDE DEF w
    <3> QED BY <2>1, <2>4, PersistedIs
  <2>6. MaskAll(f.value, secretLiterals) = f.value
    BY <2>1, <2>2, MaskAllLeaves
  <2>7. \/ w \in {Replacement, Gone}
        \/ w = ByRules(Rules(policy, f.scope), f, f.value).value
    BY <2>6, RedactCases
  <2>8. ToSet(w) \cap pattern = {}
    <3>1. CASE w \in {Replacement, Gone}
      <4> HIDE DEF w
      <4>1. ToSet(w) \subseteq Written
        BY <3>1, WrittenIs
      <4> QED BY <2>3, <4>1
    <3>2. CASE w = ByRules(Rules(policy, f.scope), f, f.value).value
      <4>1. ToSet(ByRules(Rules(policy, f.scope), f, f.value).value) \cap pattern = {}
        BY <2>1, <2>2, ReachedMasks
      <4> HIDE DEF w
      <4> QED BY <3>2, <4>1
    <3> QED BY <2>7, <3>1, <3>2
  <2> HIDE DEF w, pattern
  <2>9. ToSet(e.value) \cap pattern = {}
    BY <2>3, <2>5, <2>8
  <2> QED BY <2>9 DEF pattern
<1> QED BY <1>1, BatchInvariant, PTL
=============================================================================
