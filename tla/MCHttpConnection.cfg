\* A connection ends: its last state has no successor.
CONSTANTS
  Letters = {"0", "1", "2", "3", "C", "K", "L", "T", "f", "k",
             "a", "b", "c", "d", "g", "p", "u", "v", "w", "x", "y"}
  Forms <- MCForms
  MaxRequests = 3
SPECIFICATION Spec
CHECK_DEADLOCK FALSE
INVARIANTS
  TypeOK
  RequestsAsSent
  NoneLeftInBuffer
