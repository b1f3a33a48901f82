SPECIFICATION Spec
CONSTANTS
  Masters <- Two
  Hold = 3
  Selects <- HighOnly
INVARIANT NeverTogether
