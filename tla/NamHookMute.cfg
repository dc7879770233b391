SPECIFICATION FairSpec
CONSTANTS
  Pedals = {p1}
  NoPedal = NoPedal
  kMaxInstances = 1
  kKnobSteps = 2
  FileCounts = {2}
  Slimmable = {0}
  MinSwitchTicks = 1
  SettleTicks = 1
  FadeOutBlocks = 1
  FadeInBlocks = 1
  SMP = FALSE
  MaxKnobMoves = 2
  MaxBypassToggles = 0
  MaxLoadFailures = 0
  MaxSpawnFailures = 0
PROPERTIES NoPermanentMute
