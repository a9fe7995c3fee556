\* All packets are sent and handled in the end.
CONSTANTS
  Base = 4
  Signature = 7
  Known = {5}
  Types = {5, 2}
  Forms <- MCForms
  MaxPackets = 2
  MaxChunks = 2
SPECIFICATION Spec
CHECK_DEADLOCK FALSE
INVARIANTS
  TypeOK
  FramesAsSent
  ChunksAsAppended
  NoneLeftInBuffer
