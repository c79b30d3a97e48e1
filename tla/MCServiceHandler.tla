--------------------------- MODULE MCServiceHandler ---------------------------
(* ServiceHandler for TLC: the devices are interchangeable. *)
EXTENDS ServiceHandler, TLC

Symmetry == Permutations(Devices)

===============================================================================
