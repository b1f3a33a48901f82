SPECIFICATION ScanSpec
CONSTANTS
  BEATS_PER_LINE = 2
  BEAT = 2
  FB_H = 3
  X0 = 3
  Y0 = 1
  TotalW = 8
  TotalH = 5
  FetchRows = 4
INVARIANTS PictureTrue BeatForBeat
