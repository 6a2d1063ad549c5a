--------------------------- MODULE MCProcessPool ---------------------------
(* ProcessPool on small instances; the cfg files give the constants.       *)
EXTENDS ProcessPoolProps, TLC

(* Clients are interchangeable, in runs without liveness properties.       *)
ConnSymmetry == Permutations(Conns)
=============================================================================
