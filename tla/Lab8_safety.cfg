\* One match of the whole game on coarse steps: seven frames up, seven down.
CONSTANTS
  P1_Ball_X_Center = 213
  P2_Ball_X_Center = 423
  Ball_X_Min = 4
  Ball_X_Max = 639
  Ball_Y_Min = 61
  Ball_Y_Max = 399
  Ball_X_Step = 30
  Ball_Y_Step = 40
  Ball_Height = 44
  Ball_Width = 30
  SECOND = 2
  HALF_SECOND = 2
  MaxPoints = 1
SPECIFICATION LSpec
INVARIANTS
  OnTheirMarks
  HitsOnlyInRound
PROPERTIES
  BannerShowsVerdict
  QuietVerdictStands
