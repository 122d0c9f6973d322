\* Does a round last the seconds its clock has?
CONSTANTS
  SECOND = 6
  HALF_SECOND = 3
SPECIFICATION TSpec
INVARIANT FifteenSeconds
