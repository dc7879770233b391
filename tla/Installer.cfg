SPECIFICATION Spec
CONSTANTS
  Workers = {1, 2}
  Models = {"mx5"}
  Wishes <- MCWishes
  Platforms = {"mac", "win", "linux"}
  MaxMishaps = 1
  MaxLaunches = 2
INVARIANTS
  OneActiveWorker
  MutexOutlivesWorkers
  DoneIsThisRunsImage
  StockCopyIsStock
PROPERTIES
  QuitEnds
  DownloadedJobEnds
  PipelineJobsCleanUp
CHECK_DEADLOCK FALSE
