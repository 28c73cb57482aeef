SPECIFICATION FairSpec
CONSTANTS
  c1 = c1
  c2 = c2
  d1 = d1
  d2 = d2
  s1 = s1
  s2 = s2
  Commits = {c1, c2}
  Dirs = {d1}
  StacksOf <- MCStacksOf
  Main = Main
  None = None
  NoSHA = NoSHA
  Torn = Torn
  Repos = {r1}
  Stacks = {s1}
  Workers = {w1}
  MaxFailures = 2
  QueueCap = 1
  Faults = {"git"}
INVARIANT BackoffConsistent
PROPERTIES Converges RetriedOrSuspended ApplyEnds
