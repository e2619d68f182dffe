-------------------------------- MODULE MCBuffer --------------------------------
(* Small instances of Buffer; no operation tells one block or one variable *)
(* from another.                                                           *)
EXTENDS Buffer, TLC

CONSTANTS x, zero

MCSources == {<<>>, <<x>>, <<x, zero>>}
MCSymmetry == Permutations(Blocks) \cup Permutations(Buffers)
===============================================================================
