-------------------------- MODULE MCEventIngestion --------------------------
(* A small instance of EventIngestion: one run long enough for its session *)
(* to be poisoned, repaired and used again, and a short one beside it.     *)
EXTENDS EventIngestion, TLC

CONSTANTS r1, r2

MCBudget == r1 :> 3 @@ r2 :> 1

MCOutages == r1 :> 1 @@ r2 :> 0
=============================================================================
