-------------------------- MODULE AuthoredScript --------------------------
(***************************************************************************)
(* From the statements an authoring session recorded to the script, the    *)
(* measurable actions and the proposal made of them (apps/cli/src:         *)
(* authoring-script.ts, authoring-actions.ts, authoring-proposal.ts).      *)
(*                                                                         *)
(* A statement is a chain of calls on the page: a locator's factory, its   *)
(* modifiers, and a verb.  Scanning and quoting are left out; what a parse *)
(* keeps of a call is its name, its first argument and its options, in the *)
(* order Playwright's own code generator writes them.                      *)
(***************************************************************************)
EXTENDS Naturals, Sequences, FiniteSets, SequencesExt, Selecting

\* A call: opts is a function from the names of its options.
Call(name, arg, opts) == [call |-> name, arg |-> arg, opts |-> opts]

None == <<>>  \* no options; no argument is ""

\* What nth leaves of a sequence of elements.
Nth(found, arg) ==
  LET k == CASE arg = "0" -> 1 [] arg = "1" -> 2
  IN IF k \in DOMAIN found THEN <<found[k]>> ELSE <<>>

\* A recorded step.  A tool that produced no statement left none.
Step(chain, tool) == [chain |-> chain, tool |-> tool]

verb(step)    == Last(step.chain)
locator(step) == Front(step.chain)

-----------------------------------------------------------------------------
(* authoring-script.ts                                                     *)

\* extractAuthoredSteps: the steps of a log, in order, without the calls that have no code.
extractAuthoredSteps(log) == Selected(log, {i \in DOMAIN log : log[i].chain # <<>>})

isFailableCheck(step) == verb(step).call = "waitFor"

\* null is TRUE here: the steps can measure.
CanMeasure(steps) ==
  /\ steps # <<>>
  /\ \E i \in DOMAIN steps : isFailableCheck(steps[i])
  /\ isFailableCheck(Last(steps))

isInteraction(step) ==
  Len(step.chain) > 1 /\ verb(step).call \in {"click", "dblclick", "fill", "check", "uncheck", "press", "selectOption", "hover"}

isScreenshot(step) == step.tool = "browser_take_screenshot" \/ verb(step).call = "screenshot"

\* null is the empty chain.
locatorOfStep(step) == IF isInteraction(step) \/ isFailableCheck(step) THEN locator(step) ELSE <<>>

Mentions(step, trigger) == \E i \in DOMAIN step.chain : step.chain[i].arg = trigger

AnyBlock(steps, screen, from) ==  \* mutant: what lies between the actions is not looked at
  {b \in [start : from .. Len(steps), end : from .. Len(steps), trigger : {screen.trigger}] :
     /\ b.start <= b.end /\ isInteraction(steps[b.start]) /\ Mentions(steps[b.start], screen.trigger)
     /\ isInteraction(steps[b.end])
     /\ Cardinality({i \in b.start .. b.end : isInteraction(steps[i])}) = screen.actions}

\* The block of a declared screen begins at the first recorded action that
\* mentions it, takes as many actions, the screenshots between them, and
\* nothing else.  Refused declarations have no block.
BlocksFrom(steps, screen, from) ==
  LET starts == {i \in from .. Len(steps) : isInteraction(steps[i]) /\ Mentions(steps[i], screen.trigger)}
      Acts(block) == Cardinality({i \in block : isInteraction(steps[i])})
  IN {b \in [start : starts, end : from .. Len(steps), trigger : {screen.trigger}] :
        /\ \A i \in starts : b.start <= i
        /\ b.start <= b.end /\ isInteraction(steps[b.end]) /\ Acts(b.start .. b.end) = screen.actions
        /\ \A i \in b.start .. b.end : isInteraction(steps[i]) \/ isScreenshot(steps[i])}

\* Declarations are taken in the order of the message, each after the block before it.
planOptionalBlocks(steps, screens) ==
  LET After(blocks) == IF blocks = <<>> THEN 1 ELSE Last(blocks).end + 1
      taken[n \in 0 .. Len(screens)] ==
        IF n = 0 THEN <<>>
        ELSE taken[n - 1] \o SetToSeq(BlocksFrom(steps, screens[n], After(taken[n - 1])))
  IN taken[Len(screens)]

\* readOptionalScreens keeps declarations that name a text and at least one action.
readOptionalScreens(declared) ==
  Selected(declared, {k \in DOMAIN declared : declared[k].trigger # "" /\ declared[k].actions > 0})

\* renderAuthoredSpec: each statement once and in its order, some of them under
\* a condition, which waits for the screen or for what comes after it.
renderAuthoredSpec(steps, screens) ==
  LET blocks   == planOptionalBlocks(steps, screens)
      Of(i)    == {k \in DOMAIN blocks : i \in blocks[k].start .. blocks[k].end}
      After(k) == {i \in blocks[k].end + 1 .. Len(steps) : ~isScreenshot(steps[i])}
      Next(k)  == IF After(k) = {} THEN <<>> ELSE locatorOfStep(steps[Min(After(k))])
  IN [i \in DOMAIN steps |->
        [code     |-> steps[i].chain,
         optional |-> Of(i) # {},
         awaits   |-> UNION {{locatorOfStep(steps[blocks[k].start]), Next(k)} \ {<<>>} : k \in Of(i)}]]

-----------------------------------------------------------------------------
(* authoring-actions.ts: a selector is a set, empty when it is refused.    *)

FACTORY_STRATEGY ==
  [getByTestId |-> "testid", getByRole |-> "role", getByLabel |-> "label",
   getByPlaceholder |-> "placeholder", getByText |-> "text", locator |-> "css"]

Bare(strategy, value, opts) ==
  [strategy |-> strategy, value |-> value, opts |-> opts,
   hasText |-> "", hasNotText |-> "", nth |-> "none"]

selectorFromFactory(c) ==
  IF c.call \notin DOMAIN FACTORY_STRATEGY \/ c.arg = "" THEN {}
  ELSE LET strategy == FACTORY_STRATEGY[c.call]
           known    == IF strategy = "role" THEN {"name", "exact"} ELSE {"exact"}
       IN IF DOMAIN c.opts \subseteq known THEN {Bare(strategy, c.arg, c.opts)} ELSE {}

\* A later filter of the same kind overwrites the one before it.
applyModifier(sel, c) ==
  IF c.call = "filter" /\ c.opts # None /\ DOMAIN c.opts \subseteq {"hasText", "hasNotText"}
  THEN {[sel EXCEPT !.hasText    = IF "hasText" \in DOMAIN c.opts THEN c.opts.hasText ELSE @,
                    !.hasNotText = IF "hasNotText" \in DOMAIN c.opts THEN c.opts.hasNotText ELSE @]}
  ELSE IF c.call = "nth" THEN {[sel EXCEPT !.nth = c.arg]} ELSE {}

SelectorOf(chain) ==
  LET read[n \in DOMAIN chain] ==
        IF n = 1 THEN selectorFromFactory(chain[1])
        ELSE UNION {applyModifier(s, chain[n]) : s \in read[n - 1]}
  IN read[Len(chain)]

NoSelector == Bare("none", "", None)

\* The value of a fill that is a supplied credential becomes a reference to it.
valueFor(text, secrets) == [kind |-> IF text \in secrets THEN "secretRef" ELSE "literal", text |-> text]

WAIT_CONDITION ==
  [visible |-> "selectorVisible", hidden |-> "selectorHidden",
   attached |-> "selectorAttached", detached |-> "selectorDetached"]

\* An action: its type, its selector, and what it takes besides.
\* The description, as the set of its words, is the proposal's.
Action(type, sel, value) == [type |-> type, selector |-> sel, value |-> value, description |-> {}]

VERB_TYPE ==
  [goto |-> "goto", reload |-> "reload", goBack |-> "goBack", goForward |-> "goForward",
   click |-> "click", dblclick |-> "dblclick", hover |-> "hover", check |-> "check", uncheck |-> "uncheck",
   fill |-> "fill", selectOption |-> "select", press |-> "press", waitFor |-> "waitFor"]

OnPage == {"goto", "reload", "goBack", "goForward"}
NoArgument == {"reload", "goBack", "goForward", "click", "dblclick", "hover", "check", "uncheck"}

actionForVerb(c, sel, secrets) ==
  IF \/ c.call \notin DOMAIN VERB_TYPE
     \/ (c.call \in OnPage) # (sel = NoSelector)
     \/ (c.arg # "" \/ c.opts # None) /\ c.call \in NoArgument
     \/ c.arg = "" /\ c.call \in {"goto", "fill", "selectOption", "press"}
     \/ c.call = "waitFor" /\ ~(DOMAIN c.opts = {"state"} /\ c.opts.state \in DOMAIN WAIT_CONDITION)
  THEN {}
  ELSE {Action(VERB_TYPE[c.call], sel,
               IF c.call = "waitFor" THEN [kind |-> "condition", text |-> WAIT_CONDITION[c.opts.state]]
               ELSE IF c.call = "fill" THEN valueFor(c.arg, secrets)
               ELSE [kind |-> "literal", text |-> c.arg])}

\* Rendering back.  A selector has one order: factory, filter, nth.
renderSelector(sel) ==
  LET filters == [o \in {x \in {"hasText", "hasNotText"} : sel[x] # ""} |-> sel[o]]
  IN IF sel = NoSelector THEN <<>>
     ELSE <<Call(CHOOSE f \in DOMAIN FACTORY_STRATEGY : FACTORY_STRATEGY[f] = sel.strategy,
                 sel.value, IF sel.strategy \in {"css", "testid"} THEN None ELSE sel.opts)>>
          \o (IF DOMAIN filters = {} THEN <<>> ELSE <<Call("filter", "", filters)>>)
          \o (IF sel.nth = "none" THEN <<>> ELSE <<Call("nth", sel.nth, None)>>)

renderActionStatement(a) ==
  renderSelector(a.selector) \o
    <<Call(CHOOSE v \in DOMAIN VERB_TYPE : VERB_TYPE[v] = a.type,
           IF a.type = "waitFor" THEN "" ELSE a.value.text,
           IF a.type = "waitFor"
           THEN [state |-> CHOOSE s \in DOMAIN WAIT_CONDITION : WAIT_CONDITION[s] = a.value.text]
           ELSE None)>>

\* The two sides are compared with every credential masked alike.
RoundTrips(a, chain) == renderActionStatement(a) = chain

\* The sleep idiom is not a page call; it is in the vocabulary nevertheless.
isSleep(step) == verb(step).call = "sleep"

TrustTheParser(step, secrets) ==  \* mutant: no round trip
  IF isSleep(step) THEN {Action("waitForTimeout", NoSelector, [kind |-> "literal", text |-> verb(step).arg])}
  ELSE UNION {actionForVerb(verb(step), sel, secrets) :
                sel \in IF Len(step.chain) = 1 THEN {NoSelector} ELSE SelectorOf(locator(step))}
translate(step, secrets) ==
  IF isSleep(step) THEN {Action("waitForTimeout", NoSelector, [kind |-> "literal", text |-> verb(step).arg])}
  ELSE {a \in UNION {actionForVerb(verb(step), sel, secrets) :
                       sel \in IF Len(step.chain) = 1 THEN {NoSelector} ELSE SelectorOf(locator(step))} :
          RoundTrips(a, step.chain)}

\* droppedReason: a screenshot of the page is the tool's own bookkeeping.
isDropped(step) == Len(step.chain) = 1 /\ verb(step).call = "screenshot"

\* All the steps or none of them; the result is empty when it is refused.
translateAuthoredSteps(steps, secrets) ==
  LET kept == Selected(steps, {i \in DOMAIN steps : ~isDropped(steps[i])})
  IN IF \A i \in DOMAIN kept : translate(kept[i], secrets) # {}
     THEN [i \in DOMAIN kept |-> CHOOSE a \in translate(kept[i], secrets) : TRUE]
     ELSE <<>>

-----------------------------------------------------------------------------
(* authoring-proposal.ts                                                   *)

ASSERTION_KIND ==
  [selectorVisible |-> "elementVisible", selectorAttached |-> "elementVisible",
   selectorHidden  |-> "elementHidden",  selectorDetached |-> "elementHidden"]

Waits(actions) == {i \in DOMAIN actions : actions[i].type = "waitFor"}

\* The last check becomes the assertion a run is classified by; none refuses.
assertionFromActions(actions) ==
  {[id |-> "AS1", kind |-> ASSERTION_KIND[actions[i].value.text], selector |-> actions[i].selector,
    isFailurePredicate |-> FALSE] : i \in {x \in Waits(actions) : \A y \in Waits(actions) : y <= x}}

\* The words of the statement an action was translated from.
Words(chain) == UNION {{chain[i].arg} \cup {chain[i].opts[o] : o \in DOMAIN chain[i].opts} : i \in DOMAIN chain} \ {""}

\* The check stays among the actions, and each action is described by its
\* statement.  The declared actions are classified before they are described.
\* What varies is left out: the prose and the count.
buildAuthoredGateProposal(actions, declared) ==
  {[actions    |-> [i \in DOMAIN actions |->
                      [actions[i] EXCEPT !.description =
                         IF actions[i].type = "waitForTimeout" THEN {} ELSE Words(renderActionStatement(actions[i]))]],
    assertions |-> <<a>>,
    declared   |-> declared] : a \in assertionFromActions(actions)}

\* emitSuite: a script with an optional screen has no actions to propose.
ProposedActions(steps, screens, secrets) ==
  IF planOptionalBlocks(steps, screens) # <<>> THEN <<>> ELSE translateAuthoredSteps(steps, secrets)
=============================================================================
