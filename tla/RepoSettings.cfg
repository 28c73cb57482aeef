SPECIFICATION SettingsFairSpec
CONSTANTS
  Ids = {1, 2}
  Names = {"n1", "n2"}
  SSHKeys = {"k1"}
  NewRows <- MCNewRows
  q1 = q1
  q2 = q2
  Body <- MCBody
  Puts = {q1, q2}
  Main = Main
  Applies = {}
  None = None
  Deleted = Deleted
  Faults = {"git", "kill", "crash"}
INVARIANTS SettingsTypeOK KeyFilesOwned CloneIsRows
PROPERTY RowsSettle
