SPECIFICATION Spec
CONSTANTS
  Pedals = {p1, p2}
  NoPedal = NoPedal
  kMaxInstances = 2
  kKnobSteps = 2
  FileCounts = {2}
  Slimmable = {0}
  MinSwitchTicks = 1
  SettleTicks = 1
  FadeOutBlocks = 1
  FadeInBlocks = 1
  SMP = FALSE
  MaxKnobMoves = 0
  MaxBypassToggles = 0
  MaxLoadFailures = 0
  MaxSpawnFailures = 0
INVARIANTS TierCoversBoard
