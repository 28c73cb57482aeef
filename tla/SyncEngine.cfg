SPECIFICATION Spec
CONSTANTS
  c1 = c1
  c2 = c2
  d1 = d1
  d2 = d2
  s1 = s1
  s2 = s2
  Commits = {c1, c2}
  Dirs = {d1}
  StacksOf <- MCStacksOf
  Main = Main
  None = None
  NoSHA = NoSHA
  Torn = Torn
  Repos = {r1}
  Stacks = {s1, s2}
  Workers = {w1, w2}
  MaxFailures = 1
  QueueCap = 1
  Faults = {"git", "compose", "db", "crash", "shutdown"}
SYMMETRY Symmetry
CONSTRAINT RowsEnabled
INVARIANTS TypeOK RepoLockExclusive SyncAppliesHead ApplyingIsLive OneApplyPerStack RecordedShaApplied SyncingIsLive
PROPERTY SuspensionEndsByTrigger
