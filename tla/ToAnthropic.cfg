\* Three chunks of any kind, with the stream ending or cut anywhere.
SPECIFICATION Spec
CONSTANTS
  piece1 = piece1  piece2 = piece2  call0 = call0  call1 = call1  None = None
  Pieces = {piece1, piece2}
  Indexes = {call0, call1}
  MaxChunks = 3
  Chunks <- MCChunks
INVARIANTS TypeOK WellFormed Unmixed AsInOnePiece EndsOnce
CHECK_DEADLOCK FALSE
