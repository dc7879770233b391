SPECIFICATION Spec
CONSTANTS
  Models = {1, 2, 3, 4}
  Broken = {3}
  Bases = {0, 1, 2}
  LongTitles = {1, 2}
  LongBases = {2}
  Prefixes = {0}
  Starts <- SomeStarts
  MaxModels = 3
  Options <- SomeOptions
  Replacing = {TRUE}
  Mishaps = {"fail"}
  MaxMishaps = 1
  MaxApplies = 1
PROPERTIES RollbackAlwaysRestores
