---------------------------- MODULE MCSuiteRuns ----------------------------
EXTENDS SuiteRuns

go    == Step(<<Call("goto", "/", None)>>, "browser_navigate")
check == Step(<<Call("getByText", "saved", None), Call("waitFor", "", [state |-> "visible"])>>, "browser_wait_for")

\* A script, and the same one with its check recorded once more.
MCSuites == <<renderAuthoredSpec(<<go, check>>, <<>>), renderAuthoredSpec(<<go, go, check>>, <<>>)>>

quiet == <<Event("navigation", "goto", 0, 0)>>
loud  == Append(quiet, Event("console", "boom", 0, 0))
lossy == Append(quiet, NoteEvent("networkMetadata", "DROPPED_BACKPRESSURE", 1))

Happens(status, where, log) == [status |-> status, where |-> where, log |-> log]
MCHappenings ==
  {Happens("passed", "none", quiet), Happens("passed", "none", lossy), Happens("failed", "check", loud),
   Happens("timedOut", "early", quiet), Happens("failed", "none", <<>>)}

Finding(claim, run) == [claim |-> claim, cites |-> {run}]
MCAnswers == {{Finding("network", 0), Finding("any", 0)}, {Finding("network", 7)}}

MCOrder(analysis, block) == (analysis + block) % 2 = 0
=============================================================================
