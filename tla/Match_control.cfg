\* The control of a match: rules, clocks and progress, on the full score range.
CONSTANTS
  SECOND = 6
  HALF_SECOND = 3
SPECIFICATION TSpec
INVARIANTS
  RoundStartsFresh
  RoundLength
  ScreenTells
PROPERTIES
  ClockOutHolds
  ImplementsRules
  BannerLengths
  MatchMovesOn
