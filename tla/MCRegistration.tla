---------------------------- MODULE MCRegistration ----------------------------
(* Instances of Registration for TLC.                                             *)
EXTENDS Registration, TLC

ThreadSymmetry == Permutations(Workers) \cup Permutations(Callers)

===============================================================================
