\* A connection ends, and so does the process: no step follows.
CONSTANTS
  None = None
  page = page
  index = index
  Paths = {page, index}
  IndexOf <- MCIndexOf
  Requests <- MCRequests
  Lengths = {0, 1, 3, 9}
  Word = 8
  TextLength = 2
  MaxRequests = 2
  MaxChange = 2
SPECIFICATION FairSpec
CHECK_DEADLOCK FALSE
INVARIANTS
  TypeOK
  OneAnswerEach
  FramedAsAnnounced
  OneFileAnswered
  EndsAsTold
  AllSentBeforeClose
  DiesOnlyOf
PROPERTIES
  ConnectionEnds
