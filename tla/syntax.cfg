\* Every text of up to four fragments of each alphabet.
CONSTANTS
  ForeignBytes <- MCForeignBytes
  ForeignUnits <- MCForeignUnits
  Alphabets <- Alphabet
  MaxFragments = 4
SPECIFICATION Spec
INVARIANTS
  StatementsResume
  CallsAreSelected
  FieldsAreKept
CHECK_DEADLOCK FALSE
