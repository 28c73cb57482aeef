SPECIFICATION ContainersFairSpec
CONSTANTS
  Keys = {k1}
  Project <- MCProject
  Main = Main
  Appliers = {w1}
  Asyncs = {a1}
  Clients = {x1, x2}
  NoClient = NoClient
  States = {up, stopped}
  Nothing = Nothing
  Faults = {"connect", "list", "compose"}
INVARIANTS ContainersTypeOK ClientsAccounted NotReverted
PROPERTIES ViewSettles ReadyAgain
