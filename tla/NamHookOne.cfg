SPECIFICATION FairSpec
CONSTANTS
  Pedals = {p1}
  NoPedal = NoPedal
  kMaxInstances = 1
  kKnobSteps = 3
  FileCounts = {0, 2}
  Slimmable = {0}
  MinSwitchTicks = 2
  SettleTicks = 1
  FadeOutBlocks = 2
  FadeInBlocks = 2
  SMP = FALSE
  MaxKnobMoves = 2
  MaxBypassToggles = 1
  MaxLoadFailures = 1
  MaxSpawnFailures = 1
INVARIANTS TypeOK RenderedModelIsInstalled LoadsOnlyUnheard PendingHasOneOwner
PROPERTIES NoHardCut InstalledIsWanted KeepsTheVoicePromise FirstModelLoads SettledKnobIsHeard
