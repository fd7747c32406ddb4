------------------------------ MODULE MCDataCall ------------------------------
(* Instances of DataCall for TLC.                                                 *)
EXTENDS DataCall, TLC

WorkerSymmetry == Permutations(Workers)

===============================================================================
