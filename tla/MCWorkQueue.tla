----------------------------- MODULE MCWorkQueue -----------------------------
(* The instance of WorkQueue that TLC checks; it is named apart from the   *)
(* module so that the proofs and the runs extend WorkQueue independently.  *)
EXTENDS WorkQueue
=============================================================================
