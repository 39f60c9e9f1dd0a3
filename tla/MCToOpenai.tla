----------------------------- MODULE MCToOpenai -----------------------------
(* Instances of ToOpenai for TLC.                                          *)
EXTENDS ToOpenai

CONSTANTS piece1, piece2
=============================================================================
