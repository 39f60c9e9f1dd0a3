\* Messages of text and tool calls, interleaved at will, ended, cut or failed anywhere.
SPECIFICATION Spec
CONSTANTS
  piece1 = piece1  piece2 = piece2  None = None
  Pieces = {piece1, piece2}
  Kinds = {"text", "tool_use"}
  MaxBlocks = 3
  MaxPieces = 2
INVARIANTS TypeOK WellFormed Unmixed AsInOnePiece
CHECK_DEADLOCK FALSE
