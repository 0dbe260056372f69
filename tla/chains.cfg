SPECIFICATION FairSpec
CONSTANTS
  Devices = {d}
  Groups = {g, h}
  Payloads = {p}
  None = None
  SetWindow = 1
  GetWindow = 2
  Lateness = 1
  RedundantWindow = 1
  ForgetAfter = 1
  Doubts = {0}
  Members <- MCMembers
  MaxCommands = 2
  MaxEchoes = 1
  MaxFailures = 1
  MaxRestarts = 1
INVARIANT ChainsSound
PROPERTY SettledIsFinal
PROPERTY CommandsSettle
