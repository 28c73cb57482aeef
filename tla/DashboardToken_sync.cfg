SPECIFICATION TokenSpec
CONSTANTS
  Generated = {g1, g2}
  Chosen = {t1, t2}
  NoToken = NoToken
  Requests = {q1, q2}
  Faults = {"write"}
INVARIANT LiveInSync
