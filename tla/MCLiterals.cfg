SPECIFICATION Spec
CONSTANTS
  Letters <- MCLetters
  Alphabets <- MCAlphabets
  Variables <- MCVariables
  Contents <- MCContents
  Comments <- MCComments
  None = None
  LongBits = 11
  IntBits = 7
  Precision = 2
CHECK_DEADLOCK FALSE
INVARIANTS TypeOK IntegersAsWritten DoublesRounded FlavoursAgree StringsReadBack CommentsAreBlanks
PROPERTIES LoadedOnce
