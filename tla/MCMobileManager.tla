--------------------------- MODULE MCMobileManager ---------------------------
(* Instances of MobileManager for TLC.  The threads are told apart by their jobs.  *)
EXTENDS MobileManager

MCThreads == {"main", "bus", "timer"}

===============================================================================
