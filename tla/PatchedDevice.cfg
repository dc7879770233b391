CONSTANTS
  Segments = {1, 2, 3}
  TrampLen = 3
  SlotLen = 2
  VaddrBase = 100
  SlotOffset = 1
  Dirs = {"Evil", "Scripts"}
  Names = {"Evil", "evil", "libnam_hook.so", "libnam_preload.so", "kept"}
  Inodes = {1, 2, 3, 4, 5, 6, 7}
  Blocks = {1, 2, 3, 4, 5, 6, 7, 8, 9, 10, 11, 12, 13}
  DirRoom = 2
  DescriptionMax = 3
  CompatibleMax = 2
  DevicesMax = 2
  CellLen = 2
  DepthMax = 4
  Stocks <- MCStocks
  Targets <- MCTargets
  NoModel = NoModel
  NullSlack = 4
  Attempts = 2
  MishapKinds = {"tail", "lookup", "flush"}
  MaxMishaps = 1
  MaxRounds = 2
  MaxStarts = 2
SPECIFICATION DeviceSpec
INVARIANTS
  HijacksSound
  FilesystemKept
  BystandersUntouched
  ShippedHijack
  StockPartsSurvive
  CallsAnswered
  HooksReached
  WritesInHookSlots
  PatchedOnce
CHECK_DEADLOCK FALSE
