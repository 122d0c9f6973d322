\* A keyboard that is pulled out and put in at any time and reports two keys.
CONSTANTS
  Reports <- TwoKeys
SPECIFICATION Spec
PROPERTY
  SentAgain
