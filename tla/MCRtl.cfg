SPECIFICATION MCSpec
CONSTANTS
  Projects <- MCProjects
  Designs <- MCDesigns
  MaxResets = 1
INVARIANTS NetlistIsLegal EveryStreamKeepsItsEnds HalvesMeet
  LaunchesAreExact StreamHoldsWhatWasSent
PROPERTY FabricMakesProgress
