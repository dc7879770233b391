SPECIFICATION Spec
CONSTANTS
  Models = {1, 2, 3, 4}
  Broken = {3}
  Bases = {0, 1, 2}
  LongTitles = {1, 2}
  LongBases = {2}
  Prefixes = {0}
  Starts <- SomeStarts
  MaxModels = 3
  Options <- SomeOptions
  Replacing = {TRUE, FALSE}
  Mishaps = {"fail", "undo", "crash", "copy", "write", "close"}
  MaxMishaps = 2
  MaxApplies = 2
INVARIANTS TypeOK AppliedAsPlanned BlocksComplete RankIsIndexLessSkipped
PROPERTIES LossNeedsAMishap HiddenNeedsAMishap RollbackRestores RescanClosesGaps
