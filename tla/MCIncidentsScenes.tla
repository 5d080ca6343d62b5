------------------------- MODULE MCIncidentsScenes -------------------------
(***************************************************************************)
(* Two small instances of Incidents with the same thresholds, of which a   *)
(* behaviour is one.  In "corrections" two operators correct incidents     *)
(* while one run of "all" clusters and ages them, and anything may fail.   *)
(* In "aging" nobody corrects: two runs of any of the three jobs overlap,  *)
(* both clustering jobs included, from the first event until incidents are *)
(* stale.                                                                  *)
(***************************************************************************)
EXTENDS MCIncidents

CONSTANT LastCorrection  \* bound: the last tick of "corrections"

VARIABLE scene

(* The thresholds meet the hypothesis of the theorems about aging. *)
ASSUME AgingInstance == StaleIsOutOfReach

MCInit == Init /\ scene \in {"corrections", "aging"}

MCNext ==
  /\ Next
  /\ UNCHANGED scene
  /\ scene = "corrections" =>
       /\ clock' <= LastCorrection
       /\ e3 \notin events'
       /\ runs' <= 1
       /\ \A p \in Jobs \ {"all"} : job'[p] = IdleJob
  /\ scene = "aging" => requests' = 0 /\ faults' = 0

MCSpec == MCInit /\ [][MCNext]_<<scene, vars>> /\ Fairness
=============================================================================
