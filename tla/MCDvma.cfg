SPECIFICATION FairSpec
CONSTANTS
  Masters <- Two
  Hold = 2
  Selects <- LongOrHigh
INVARIANT NeverTogether
PROPERTIES StoppedDead Answered
