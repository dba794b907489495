SPECIFICATION MCSpec
CONSTANTS
  SlashShells <- MCSlashShells
  VitisPlatforms <- MCVitisPlatforms
  HostParallelism = 2
  Projects <- MCProjects
  Candidates = {0, 1}
  FmaxValues <- MCFmaxValues
  HLS_MAX_ATTEMPTS = 2
  Problems <- MCProblems
INVARIANTS CacheIsSound SynthesisIsWhole PublicationIsWhole OutputsAreWhole
  SettledAtLowestRung InternalErrorsUnreachable PublishedPlanIsSound ShortcutsAreSound
