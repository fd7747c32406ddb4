-------------------------- MODULE MCQmiTransaction ----------------------------
(* Instances of QmiTransaction for TLC.                                           *)
EXTENDS QmiTransaction, TLC

SenderSymmetry == Permutations(Senders)

===============================================================================
