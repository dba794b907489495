SPECIFICATION MCSpec
CONSTANTS
  Projects <- MCSharedBridge
  Designs <- MCDesigns
  MaxResets = 1
INVARIANT NetlistIsLegal
