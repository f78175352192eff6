SPECIFICATION FairSpec
CONSTANTS
  Page = {p1, p2}
  Session = {s1, s2}
  Job = {j1}
  None = None
  Ttl = 2
  MaxLines = 2
INVARIANTS
  RunningJobKeepsSession
  StreamShowsWholeJob
PROPERTIES
  GoneForGood
  StreamsEnd
