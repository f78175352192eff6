----------------------------- MODULE Redaction -----------------------------
(***************************************************************************)
(* The redactor (packages/evidence/src/redaction.ts) and where a batch of  *)
(* runs passes through it: a field is redacted when it is collected        *)
(* (packages/execution/src/collector.ts), and fields of some scopes again  *)
(* when the plane normalises the log (packages/evidence/src/timeline.ts).  *)
(* One redactor, with its counters, serves all the runs of a batch.        *)
(*                                                                         *)
(* A value is a sequence of symbols; a pattern is a set of symbols, and    *)
(* what it matches are the symbols of the value that are in it.            *)
(***************************************************************************)
EXTENDS Naturals, Sequences, FiniteSets, SequencesExt, TLC, Selecting

CONSTANTS
  Symbols,     \* what a text is made of
  Policies,    \* the lists of rules a policy may have
  Strict,      \* mode is "strict" and unknownFieldAction "mask-value"
  Fields,      \* the fields a run may collect
  Credentials, \* the lists of values an operator may register
  MaxLength,   \* defaults.maxFieldBytesScanned
  MinLiteral,  \* a shorter value is not masked by identity
  TwiceScopes, \* the scopes the plane redacts again
  MaxRuns, MaxFields \* bounds: runs of a batch, fields of a run

Mark == "*"                  \* defaults.valueReplacement
Replacement == <<Mark>>
Gone == <<"gone">>           \* undefined
Hash == <<"#">>
Written == {Mark, "gone", "#"}
Oversize == "oversize-field-masked"
Literal  == "operator-credential-value"
Unknown  == "unknown-field-default"

PolicyRule ==
  [id : STRING, appliesTo : SUBSET STRING, any : BOOLEAN,
   action : {"mask-match", "mask-value", "hash-value", "drop-value", "keep"},
   keys : SUBSET STRING, queryKeys : SUBSET STRING, pattern : SUBSET Symbols, exceptions : SUBSET Symbols,
   unless : SUBSET STRING]

ASSUME RedactionAssumption ==
  /\ {MaxLength, MinLiteral, MaxRuns, MaxFields} \subseteq Nat /\ MinLiteral > 0
  /\ Written \subseteq Symbols
  /\ Policies \subseteq Seq(PolicyRule)
  /\ \A f \in Fields : f.value \in Seq(Symbols)
  /\ \A c \in Credentials : c \in Seq(Seq(Symbols))

\* No registered value and no rule is about what the redactor itself writes: a
\* part of the replacement would be found again in what it replaced.
ASSUME WrittenApart ==
  /\ \A c \in Credentials : \A i \in DOMAIN c : ToSet(c[i]) \cap Written = {}
  /\ \A p \in Policies : \A i \in DOMAIN p : (p[i].pattern \cup p[i].exceptions) \cap Written = {}

VARIABLES
  policy,         \* the rules, in the order of the file
  secretLiterals, \* the registered values, in the order they are tried
  applied,        \* the redactor's counters
  rawLog,         \* the raw log of the run in progress
  sealedRuns      \* the runs that are sealed

batchVars == <<policy, secretLiterals, applied, rawLog, sealedRuns>>

-----------------------------------------------------------------------------
(* One field.                                                              *)

AsRegistered(values) == {Selected(values, {i \in DOMAIN values : Len(values[i]) >= MinLiteral})}  \* mutant: no order
\* The registered values, longest first; those of one length in any order.
maskValues(values) ==
  LET kept == {v \in ToSet(values) : Len(v) >= MinLiteral}
  IN {order \in [1 .. Cardinality(kept) -> kept] :
        \A i, j \in DOMAIN order : i < j => order[i] # order[j] /\ Len(order[i]) >= Len(order[j])}

OccursAt(value, literal, i) ==
  \A d \in DOMAIN literal : i + d - 1 \in DOMAIN value /\ value[i + d - 1] = literal[d]
Occurs(value, literal) == \E i \in DOMAIN value : OccursAt(value, literal, i)

\* Where split finds the literal: from the left, none within another.
StartsOf(value, literal) ==
  LET upTo[n \in 0 .. Len(value)] ==
        IF n = 0 THEN {}
        ELSE IF OccursAt(value, literal, n) /\ \A j \in upTo[n - 1] : j + Len(literal) <= n
        THEN upTo[n - 1] \cup {n} ELSE upTo[n - 1]
  IN upTo[Len(value)]

MaskLiteral(value, literal) ==
  LET starts == StartsOf(value, literal)
      Inside(i) == \E j \in starts : j < i /\ i < j + Len(literal)
  IN Selected([i \in DOMAIN value |-> IF i \in starts THEN Mark ELSE value[i]],
              {i \in DOMAIN value : ~Inside(i)})

\* One literal after the other, each in what the ones before it left.
MaskAll(value, literals) ==
  LET masked[n \in 0 .. Len(literals)] ==
        IF n = 0 THEN value ELSE MaskLiteral(masked[n - 1], literals[n])
  IN masked[Len(literals)]

\* What a rule asks of a key and of a value; one that asks nothing is a mistake, unless it says any.
matches(rule, value, key) ==
  /\ rule.keys # {} => key \in rule.keys
  /\ rule.pattern # {} => ToSet(value) \cap rule.pattern # {}
  /\ rule.any \/ rule.keys # {} \/ rule.pattern # {}

\* An exempt domain anywhere in the value excuses the whole of it.
excepted(rule, value) == ToSet(value) \cap rule.exceptions # {}

\* unless: content types that are captured, once the run opted in.
Exempt(rule, field) == field.contentType \in rule.unless /\ field.optIn

Rules(p, scope) == Selected(p, {n \in DOMAIN p : scope \in p[n].appliesTo})

MaskMatch(rule, value) ==
  IF rule.pattern = {} THEN Replacement
  ELSE [i \in DOMAIN value |-> IF value[i] \in rule.pattern THEN Mark ELSE value[i]]

RedactionOutcome(value, fired) == [value |-> value, fired |-> fired]

\* Masks compose, each on what the ones before it left; any other action ends
\* the scan.  A hash is of the value as it came.
Considered(scan, rule, field) ==
  IF scan.over \/ Exempt(rule, field) \/ ~matches(rule, scan.value, field.key) \/ excepted(rule, scan.value)
  THEN scan
  ELSE [value |-> CASE rule.action = "mask-match" -> MaskMatch(rule, scan.value)
                    [] rule.action = "mask-value" -> Replacement
                    [] rule.action = "hash-value" -> Hash
                    [] rule.action = "drop-value" -> Gone
                    [] rule.action = "keep"       -> scan.value,
        fired |-> Append(scan.fired, rule.id),
        over  |-> rule.action # "mask-match"]

FirstRuleOnly(rules, field, value) ==  \* mutant: a mask ends the scan
  LET hits == {n \in DOMAIN rules : matches(rules[n], value, field.key) /\ ~excepted(rules[n], value)}
  IN IF hits = {} THEN RedactionOutcome(value, <<>>)
     ELSE RedactionOutcome(MaskMatch(rules[Place(hits, 1)], value), <<rules[Place(hits, 1)].id>>)
ByRules(rules, field, value) ==
  LET scan[n \in 0 .. Len(rules)] ==
        IF n = 0 THEN [value |-> value, fired |-> <<>>, over |-> FALSE]
        ELSE Considered(scan[n - 1], rules[n], field)
      last == scan[Len(rules)]
  IN IF Strict /\ rules = <<>> THEN RedactionOutcome(Replacement, <<Unknown>>)
     ELSE RedactionOutcome(last.value, last.fired)

\* A registered value in the field is masked, and no rule is tried then.
redactField(rules, field, value, literals) ==
  IF value = Gone THEN RedactionOutcome(Gone, <<>>)
  ELSE IF Len(value) > MaxLength THEN RedactionOutcome(Replacement, <<Oversize>>)
  ELSE IF MaskAll(value, literals) # value THEN RedactionOutcome(MaskAll(value, literals), <<Literal>>)
  ELSE ByRules(rules, field, value)

\* A query value is decided by its key first.
redactQuery(rules, field, value, literals) ==
  LET hits  == {n \in DOMAIN rules : field.key \in rules[n].queryKeys}
      first == rules[Place(hits, 1)]
  IN IF hits = {} THEN redactField(rules, field, value, literals)
     ELSE RedactionOutcome(IF first.action = "drop-value" THEN Gone ELSE Replacement, <<first.id>>)

redact(p, field, value, literals) ==
  IF field.inUrl THEN redactQuery(Rules(p, field.scope), field, value, literals)
  ELSE redactField(Rules(p, field.scope), field, value, literals)

\* What the log has where a value was dropped: text says so, and a query is put together without it.
Persisted(field, value) ==
  IF value # Gone THEN value
  ELSE IF field.inUrl THEN <<>>
  ELSE IF field.scope \in {"console.text", "exception.message", "dom.attributes"} THEN Replacement
  ELSE Gone

NoteRules(counters, fired) ==
  FoldLeft(LAMBDA c, id : (id :> 1 + (IF id \in DOMAIN c THEN c[id] ELSE 0)) @@ c, counters, fired)
NoteAll(counters, firings) == FoldLeft(NoteRules, counters, firings)

-----------------------------------------------------------------------------
(* A batch.                                                                *)

BatchInit ==
  /\ policy \in Policies
  /\ \E values \in Credentials : secretLiterals \in maskValues(values)
  /\ applied = <<>> /\ rawLog = <<>> /\ sealedRuns = <<>>

\* A field as the log has it; what it came from is no part of the log.
Collect ==
  /\ Len(sealedRuns) < MaxRuns /\ Len(rawLog) < MaxFields
  /\ \E f \in Fields :
       LET o == redact(policy, f, f.value, secretLiterals) IN
       /\ rawLog' = Append(rawLog, [field |-> f, value |-> Persisted(f, o.value)])
       /\ applied' = NoteRules(applied, o.fired)
  /\ UNCHANGED <<policy, secretLiterals, sealedRuns>>

\* The plane over a log, from the counters it starts with.
Normalized(p, raw, counters, literals) ==
  LET Shown(e) == IF e.field.scope \in TwiceScopes THEN redact(p, e.field, e.value, literals)
                  ELSE RedactionOutcome(e.value, <<>>)
  IN [evidence |-> [i \in DOMAIN raw |-> Shown(raw[i]).value],
      stamp    |-> NoteAll(counters, [i \in DOMAIN raw |-> Shown(raw[i]).fired])]

CarryOn == applied  \* mutant: the counters of the batch so far
resetCounters == <<>>

SealRun ==
  /\ Len(sealedRuns) < MaxRuns
  /\ LET p == Normalized(policy, rawLog, resetCounters, secretLiterals) IN
     /\ sealedRuns' = Append(sealedRuns, [raw |-> rawLog, evidence |-> p.evidence, stamp |-> p.stamp])
     /\ applied' = p.stamp
  /\ rawLog' = <<>>
  /\ UNCHANGED <<policy, secretLiterals>>

BatchNext == Collect \/ SealRun

BatchSpec == BatchInit /\ [][BatchNext]_batchVars

-----------------------------------------------------------------------------
(* Properties.                                                             *)

Logged == ToSet(rawLog) \cup UNION {ToSet(sealedRuns[k].raw) : k \in DOMAIN sealedRuns}
Within(e) == Len(e.field.value) <= MaxLength

BatchTypeOK ==
  /\ policy \in Policies
  /\ \A e \in Logged : e.field \in Fields /\ e.value \in Seq(Symbols)
  /\ \A n \in DOMAIN secretLiterals : secretLiterals[n] \in Seq(Symbols) /\ Len(secretLiterals[n]) >= MinLiteral

\* No registered value is left in a persisted field, and one that is the whole
\* field goes whole, masked or dropped, though another that is a part of it is
\* registered before it (redaction.ts: or the shorter "leaves the rest of a
\* real secret").
LiteralsGoWhole ==
  \A e \in Logged : \A k \in DOMAIN secretLiterals :
    /\ ~Occurs(e.value, secretLiterals[k])
    /\ e.field.value = secretLiterals[k] => ToSet(e.value) \subseteq Written

\* One field may hold what several rules are about.  Each rule that is reached
\* masks all of what it matches, whatever the others did, and a rule that
\* keeps a field gives back nothing that was masked before it (redaction.ts:
\* returning on the first match "was a false-assurance bug").
MasksCompose ==
  \A e \in Logged :
    LET f == e.field
        rules == Rules(policy, f.scope)
        Reached(k) == \A j \in 1 .. k - 1 : rules[j].action = "mask-match" \/ ~matches(rules[j], f.value, f.key)
    IN Within(e) /\ (\A i \in DOMAIN secretLiterals : ~Occurs(f.value, secretLiterals[i])) =>
         \A k \in DOMAIN rules :
           /\ Reached(k) /\ rules[k].action = "mask-match" /\ matches(rules[k], f.value, f.key)
           /\ ~Exempt(rules[k], f) /\ ~excepted(rules[k], f.value)
           => ToSet(e.value) \cap rules[k].pattern = {}

\* What a run was sealed with, counts included, is what is rebuilt from its
\* log by a redactor that knows the policy and no registered value, whatever
\* the runs before it and its own collection counted.
RebuildIsIdentical ==
  \A k \in DOMAIN sealedRuns :
    Normalized(policy, sealedRuns[k].raw, <<>>, <<>>) =
      [evidence |-> sealedRuns[k].evidence, stamp |-> sealedRuns[k].stamp]
=============================================================================
