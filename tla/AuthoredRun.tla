---------------------------- MODULE AuthoredRun ----------------------------
(***************************************************************************)
(* From a browser session to a sealed run.  An authoring session records   *)
(* statements one by one; when they can measure, they are translated into  *)
(* a proposal, and the run of an approved proposal is MeasuredRun's.       *)
(* Experiments that an investigation planned are run beside them.          *)
(***************************************************************************)
EXTENDS MeasuredRun

CONSTANTS
  Alphabet,     \* the statements a session may record
  MaxSteps, MaxRunSteps, \* bounds: statements of a recording, and of one that is run
  Screens,      \* the optional screens the session declared
  Secrets,      \* the supplied credentials
  Pages         \* the pages a locator is tried on, for TranslationKeepsTarget

ASSUME RecordingAssumption ==
  /\ {MaxSteps, MaxRunSteps} \subseteq Nat
  /\ Screens \in Seq(Range(Screens))
  /\ \A page \in Pages : page \in Seq(Range(page))

\* A locator's options but for the role's name.
OnlyName(opts) == [o \in DOMAIN opts \cap {"name"} |-> opts[o]]

\* Playwright's: `exact' only narrows what a factory finds.
ASSUME ExactNarrows ==
  \A page \in Pages : \A i \in DOMAIN page : \A answer \in page[i].answers :
    <<answer[1], answer[2], OnlyName(answer[3])>> \in page[i].answers

VARIABLE recording  \* the session's tool calls with their code

vars == <<runVars, recording>>

Steps == extractAuthoredSteps(recording)

Init == RunInit /\ recording = <<>>

Record ==
  /\ At("idle") /\ Len(recording) < MaxSteps
  /\ \E s \in Alphabet : recording' = Append(recording, s)
  /\ UNCHANGED runVars

\* The evidence an authored experiment asks for.
REQUIRED_EVIDENCE ==
  {"actions", "navigation", "console", "exceptions", "networkMetadata", "video", "trace"}

\* The whole of it, as it is approved: a fresh context is all the reset it names.
Authored(p) ==
  [actions |-> p.actions, assertions |-> p.assertions, required |-> REQUIRED_EVIDENCE,
   acknowledged |-> p.declared, reset |-> "fresh-context"]

-----------------------------------------------------------------------------
(* suite.ts: an approved experiment as a test of its own.                  *)

EMITTED_ACTIONS ==
  {"goto", "click", "dblclick", "check", "uncheck", "hover", "fill", "press", "waitForTimeout", "waitFor", "assert"}

EMITTED_ASSERTIONS ==
  {"elementCountAtLeast", "elementCountEquals", "elementVisible", "elementHidden", "textContains",
   "textEquals", "urlMatches", "noConsoleErrors", "noUncaughtExceptions"}

\* The locator, as the selector it stands for: exact, the filters and nth are
\* not emitted, and a phrase takes the first.
suiteLocator(sel) ==
  [Bare(sel.strategy, sel.value, OnlyName(sel.opts)) EXCEPT
     !.nth = IF sel.strategy = "described" THEN "0" ELSE @]

\* A statement of the test, or none because it is refused.
assertionLines(a) ==
  IF a.kind \in EMITTED_ASSERTIONS THEN {[checks |-> <<a.id>>, on |-> suiteLocator(a.selector)]} ELSE {}

\* A key is pressed on the page and a wait is one for a state of the page, whatever the selector.
actionLines(a) ==
  IF a.type \notin EMITTED_ACTIONS \/ NoUrl(a) \/ NoWords(a) THEN {}
  ELSE IF a.type = "assert" THEN assertionLines(a.value)
  ELSE {[checks |-> <<>>, on |-> IF a.type \in {"press", "waitFor"} THEN NoSelector ELSE suiteLocator(a.selector)]}

\* The actions, and after them the assertions that are not among them; a
\* statement that is refused refuses the experiment.
suiteGenerate(e) ==
  LET remaining == Selected(e.assertions, {k \in DOMAIN e.assertions : e.assertions[k].id \notin InlineIds(e)})
      lines     == [i \in DOMAIN e.actions |-> actionLines(e.actions[i])]
                   \o [k \in DOMAIN remaining |-> assertionLines(remaining[k])]
  IN IF {} \in Range(lines) THEN {} ELSE {[k \in DOMAIN lines |-> CHOOSE l \in lines[k] : TRUE]}

-----------------------------------------------------------------------------
(* The next step.                                                          *)

\* emitProposal; the declared actions are classified as they are.
Suggested ==
  LET actions == ProposedActions(Steps, readOptionalScreens(Screens), Secrets)
  IN buildAuthoredGateProposal(actions, destructiveActions(actions))

EnqueueAuthored ==
  /\ CanMeasure(Steps) /\ Len(recording) <= MaxRunSteps
  /\ \E p \in Suggested : Enqueue(Authored(p))
  /\ UNCHANGED recording

EnqueuePlanned ==
  /\ recording = <<>>
  /\ \E e \in Flows : Enqueue(e)
  /\ UNCHANGED recording

Next ==
  \/ Record \/ EnqueueAuthored \/ EnqueuePlanned
  \/ (Page \/ Worker) /\ UNCHANGED recording

Spec == Init /\ [][Next]_vars

-----------------------------------------------------------------------------
(* Properties.                                                             *)

\* Playwright's own reading of a locator chain, call by call.
Locate(chain, page) ==
  LET Narrow(s, c) ==
        CASE c.call = "nth"    -> Nth(s, c.arg)
          [] c.call = "filter" -> Selected(s, {i \in DOMAIN s :
               /\ "hasText" \in DOMAIN c.opts => c.opts.hasText \in s[i].texts
               /\ "hasNotText" \in DOMAIN c.opts => c.opts.hasNotText \notin s[i].texts})
          [] OTHER -> Selected(s, {i \in DOMAIN s : <<FACTORY_STRATEGY[c.call], c.arg, c.opts>> \in s[i].answers})
      found[n \in 0 .. Len(chain)] == IF n = 0 THEN page ELSE Narrow(found[n - 1], chain[n])
  IN found[Len(chain)]

\* A statement that is translated reaches, on every page, the element the
\* recorded statement reached (authoring-actions.ts: the alternative is an
\* action that "means something else" with no error anywhere).  The locator
\* `suite generate' emits for it may find more, but that element among them.
TranslationKeepsTarget ==
  At("idle") => \A i \in DOMAIN Steps : \A a \in translate(Steps[i], Secrets) :
    a.selector # NoSelector =>
      \A page \in Pages :
        LET found == resolveLocator(a.selector, page) IN
        /\ found = Locate(locator(Steps[i]), page)
        /\ Range(found) \subseteq Range(resolveLocator(suiteLocator(a.selector), page))

\* Every assertion the experiment declares has one result in a run that came
\* to an end, evaluated or not, inline or after the actions, if no two of the
\* inline ones share its id; and a run that was not stopped evaluated what the
\* generated suite checks, in its order, if no two that are declared share an
\* id.  Nothing refuses an experiment in which they do.
EveryAssertionAccounted ==
  LET OneInline(id) == \A x, y \in Inline(flow) : {flow.actions[x].value.id, flow.actions[y].value.id} = {id} => x = y
      AllDistinct   == \A j, k \in DOMAIN flow.assertions : flow.assertions[j].id = flow.assertions[k].id => j = k
      Of(id)        == {i \in DOMAIN int.results : int.results[i].id = id}
  IN Sealed /\ ~int.infra /\ ~shouldBlockDestructiveExecution(flow) =>
       /\ \A k \in DOMAIN flow.assertions :
            LET id == flow.assertions[k].id
            IN Of(id) # {} /\ (OneInline(id) => Cardinality(Of(id)) = 1)
       /\ ~int.automation /\ AllDistinct => \A suite \in suiteGenerate(flow) :
            LET checks == Selected(suite, {k \in DOMAIN suite : suite[k].checks # <<>>})
            IN [i \in DOMAIN int.results |-> <<int.results[i].id>>] = [k \in DOMAIN checks |-> checks[k].checks]

\* What a script skips when an optional screen does not show is clicks and the
\* screenshots between them: never a check, never the last statement of a
\* script that can measure.
OptionalStepsAreActions ==
  LET spec == renderAuthoredSpec(Steps, readOptionalScreens(Screens)) IN
  At("idle") => \A i \in DOMAIN Steps : spec[i].optional =>
    /\ isInteraction(Steps[i]) \/ isScreenshot(Steps[i])
    /\ CanMeasure(Steps) => i # Len(Steps)
=============================================================================
