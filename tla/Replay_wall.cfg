\* The real arena and steps of playerone.sv; sixty frames to a second.
CONSTANTS
  P1_Ball_X_Center = 213
  P2_Ball_X_Center = 426
  Ball_X_Min = 4
  Ball_X_Max = 639
  Ball_Y_Min = 61
  Ball_Y_Max = 399
  Ball_X_Step = 3
  Ball_Y_Step = 3
  Ball_Height = 44
  Ball_Width = 30
  SECOND = 180
  HALF_SECOND = 90
  MaxPoints = 0
  FRAME = 3
SPECIFICATION RSpec
INVARIANT RightmostPoint
