CONSTANTS
  None = None
  EntropyThreshold = 1
  EntropyBlockSize = 2
  Levels = {0, 1}
  Calls = 2
  trngList <- MCtrngList
  Generators <- MCGenerators
SPECIFICATION Spec
INVARIANTS FeedsOnlyWhatItRead HoldsItsDevices
PROPERTY KeepsWatching
CHECK_DEADLOCK FALSE
