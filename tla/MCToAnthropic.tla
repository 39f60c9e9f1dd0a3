---------------------------- MODULE MCToAnthropic ---------------------------
(* An instance of ToAnthropic for TLC.                                     *)
EXTENDS ToAnthropic

CONSTANTS piece1, piece2, call0, call1

Call(i, d) == [index |-> i, args |-> d]

\* Text, calls that begin, go on and interleave, alone or in the same chunk.
MCChunks ==
  [text   : {piece1, piece2, None},
   calls  : {<<>>, <<Call(call0, None)>>, <<Call(call0, piece1)>>, <<Call(call1, piece2)>>,
             <<Call(call0, piece2), Call(call1, piece1)>>},
   finish : {None, "stop", "tool_calls"}]
=============================================================================
