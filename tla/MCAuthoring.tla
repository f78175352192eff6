---------------------------- MODULE MCAuthoring ----------------------------
EXTENDS Authoring

go    == Step(<<Call("goto", "/", None)>>, "browser_navigate")
check == Step(<<Call("getByText", "saved", None), Call("waitFor", "", [state |-> "visible"])>>, "browser_wait_for")

MCRecordings == {<<go>>, <<go, check>>}
=============================================================================
