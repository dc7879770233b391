SPECIFICATION Spec
CONSTANTS
  Workers = {1}
  Models = {"mx5"}
  Wishes <- MCWishes
  Platforms = {"win"}
  MaxMishaps = 1
  MaxLaunches = 1
PROPERTIES
  NoBrokenInstallerInPlace
CHECK_DEADLOCK FALSE
