--------------------------- MODULE MCAuthoredRun ---------------------------
EXTENDS AuthoredRun

button == Call("getByRole", "button", [name |-> "Delete"])
row    == Call("getByText", "row", None)
has    == Call("filter", "", [hasText |-> "mine"])

MCAlphabet ==
  {Step(<<Call("goto", "/", None)>>, "browser_navigate"),
   Step(<<button, Call("click", "", None)>>, "browser_click"),
   Step(<<row, has, Call("nth", "0", None), Call("waitFor", "", [state |-> "visible"])>>, "browser_wait_for"),
   Step(<<button, Call("waitFor", "", [state |-> "hidden"])>>, "browser_wait_for"),
   Step(<<row, Call("nth", "0", None), has, Call("click", "", None)>>, "browser_click"),
   Step(<<Call("screenshot", "", None)>>, "browser_take_screenshot")}

MCScreens == <<[trigger |-> "row", actions |-> 2], [trigger |-> "", actions |-> 1]>>

Elements == [answers : {{<<"text", "row", None>>}, {<<"role", "button", [name |-> "Delete"]>>}}, texts : {{}, {"mine"}}]
MCPages == {<<a, b>> : a, b \in Elements}

Literal(text) == [kind |-> "literal", text |-> text]
Check(id, kind, predicate) ==
  [id |-> id, kind |-> kind, selector |-> NoSelector, isFailurePredicate |-> predicate]
Experiment(actions, assertions, reset) ==
  [actions |-> actions, assertions |-> assertions, required |-> {"actions", "domSnapshots"},
   acknowledged |-> DOMAIN actions, reset |-> reset]

Goto(to) == Action("goto", NoSelector, to)
On(type, what) == Action(type, Bare("text", what, None), Literal(""))

MCFlows ==
  {Experiment(<<Goto(Literal("/")), Action("assert", NoSelector, Check("AS1", "elementHidden", TRUE))>>,
              <<Check("AS1", "elementHidden", TRUE), Check("AS2", "noConsoleErrors", FALSE)>>, "none"),
   Experiment(<<Goto(Literal("/")), On("click", "Delete")>>, <<Check("AS1", "elementVisible", FALSE)>>, "api-reset"),
   Experiment(<<Goto([kind |-> "pending", text |-> ""])>>,
              <<Check("AS1", "elementVisible", FALSE), Check("AS1", "elementHidden", FALSE)>>, "none"),
   Experiment(<<Action("fill", Bare("described", "the field", None), [kind |-> "missingSecret", text |-> ""])>>,
              <<Check("AS1", "elementVisible", FALSE)>>, "none")}
=============================================================================
