----------------------------- MODULE MCAtChannel -----------------------------
(* Instances of AtChannel for TLC.                                                *)
EXTENDS AtChannel, TLC

ClientSymmetry == Permutations(Clients)

===============================================================================
