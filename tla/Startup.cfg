SPECIFICATION StartupFairSpec
CONSTANTS
  Generated = {g1, g2, g3}
  Chosen = {t1, t2}
  NoToken = NoToken
  Requests = {q1, q2}
  Faults = {"write", "late", "file", "crash"}
INVARIANTS NoLockout LiveWasStored OpenIsCurrent
PROPERTIES PersistedKept SettingsSurvive OpensAgain
