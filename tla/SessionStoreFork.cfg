\* The branch a fork copies, against the branch the new session holds.
SPECIFICATION StoreSpec
CONSTANTS
  AppendedKinds = {"user", "assistant", "other"}
  MaxIds = 4
  MaxFiles = 2
  MaxKills = 1
  None = None
PROPERTIES ForkCopiesBranch
CHECK_DEADLOCK FALSE
