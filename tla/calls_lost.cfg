\* The texts of the syntax run.
CONSTANTS
  ForeignBytes <- MCForeignBytes
  ForeignUnits <- MCForeignUnits
  Alphabets <- Alphabet
  MaxFragments = 4
SPECIFICATION Spec
INVARIANT EveryCallHasAnEdge
CHECK_DEADLOCK FALSE
