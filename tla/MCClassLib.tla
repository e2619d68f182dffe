------------------------------ MODULE MCClassLib ------------------------------
(* Small instances of ClassLib; the bounds are in the configurations. *)
EXTENDS ClassLib
===============================================================================
