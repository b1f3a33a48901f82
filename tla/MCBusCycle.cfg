SPECIFICATION FairSpec
CONSTANTS
  Pages <- MCPages
  Entry <- MCEntry
  Rewritten = {"m"}
  CardLatest = 9
INVARIANTS RefusedReachesNothing AckOrError
PROPERTIES OnlyOwnStatistics StatisticsKept ReportTrue VectorOrAutovector CycleEnds
