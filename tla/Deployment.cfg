SPECIFICATION DeploySpec
CONSTANTS
  c1 = c1
  c2 = c2
  d1 = d1
  d2 = d2
  s1 = s1
  s2 = s2
  Commits = {c1, c2}
  Dirs = {d1, d2}
  StacksOf <- MCStacksOf
  web = web
  Projects = {web}
  Project <- MCProject
  Main = Main
  None = None
  NoSHA = NoSHA
  Torn = Torn
  Repos = {r1}
  Stacks = {s1, s2}
  Workers = {w1}
  MaxFailures = 1
  QueueCap = 1
  Faults = {"compose"}
CONSTRAINT Scheduled
INVARIANTS DeployedIsRecorded RecordedShaApplied
