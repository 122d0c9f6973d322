\* The verdict when the clock reaches zero.
CONSTANTS
  P1Xs <- P1Places
  Gaps <- BothSides
  Ys <- Heights
  Ground = 352
SPECIFICATION ESpec
INVARIANT NearestWins
CHECK_DEADLOCK FALSE
