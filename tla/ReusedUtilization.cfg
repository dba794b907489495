SPECIFICATION MCSpec
CONSTANTS
  SlashShells <- MCSlashShells
  VitisPlatforms <- MCVitisPlatforms
  HostParallelism = 2
  Projects <- MCUtilProjects
  Candidates = {0, 1}
  FmaxValues <- MCFmaxValues
  HLS_MAX_ATTEMPTS = 2
  Problems <- MCNoProblem
INVARIANT MeasuredForThisDevice
