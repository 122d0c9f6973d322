\* A keyboard that is pulled out and put in at any time and reports two keys, and
\* a bus of one-bit words.
CONSTANTS
  Reports <- TwoKeys
  N = 2
  GAP = 4
  ACCESS = 1
  KEEP = 1
SPECIFICATION MCSpec
INVARIANTS
  RunsWholeLists
  OneDriver
PROPERTIES
  KeyboardAnswered
  NoGhostKey
  StableStrobe
  CallsReach
