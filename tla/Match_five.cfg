\* Do five points end the match?
CONSTANTS
  SECOND = 4
  HALF_SECOND = 2
SPECIFICATION Spec
PROPERTY MatchEndsAtFive
