\* The parameters of playerone.sv:13-23, player one, and every edge of every pair
\* of boxes, from the middle and from player one's half.
CONSTANTS
  P1_Ball_X_Center = 213
  P2_Ball_X_Center = 426
  Ball_X_Min = 4
  Ball_X_Max = 639
  Ball_Y_Min = 61
  Ball_Y_Max = 399
  Ball_X_Step = 3
  Ball_Y_Step = 3
  Ball_Height = 44
  Ball_Width = 30
  PlayerNum = 1
  OtherXs <- AnyOpponent
  P1Xs <- P1Places
  Gaps <- BothSides
  Ys <- Heights
  Ground = 352
SPECIFICATION MCSpec
INVARIANTS
  TypeOK
  VerticalBounds
  PoseMatchesMotion
  IdleIsLow
  KickIsOverlap
  MirrorFair
  DoubleHitIsLevel
  PicturesFit
  BodyIsDrawn
PROPERTIES
  KickCommitted
  MotionEnds
\* The round of an arrangement is over when its time is.
CHECK_DEADLOCK FALSE
