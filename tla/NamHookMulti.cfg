SPECIFICATION Spec
CONSTANTS
  Pedals = {p1, p2, p3}
  NoPedal = NoPedal
  kMaxInstances = 2
  kKnobSteps = 1
  FileCounts = {1}
  Slimmable = {0}
  MinSwitchTicks = 0
  SettleTicks = 0
  FadeOutBlocks = 1
  FadeInBlocks = 1
  SMP = TRUE
  MaxKnobMoves = 0
  MaxBypassToggles = 0
  MaxLoadFailures = 0
  MaxSpawnFailures = 0
INVARIANTS CalibrationCoversItsEpoch EachPedalItsOwnState
SYMMETRY PedalSymmetry
