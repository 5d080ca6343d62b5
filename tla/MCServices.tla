----------------------------- MODULE MCServices -----------------------------
(***************************************************************************)
(* A small instance of each of the Services.  They share no state, so that *)
(* a behaviour moves one of them only: "part" says which.  The panel is    *)
(* checked with both buttons and one job, and with the button of one       *)
(* script and two jobs, one after the other.                               *)
(***************************************************************************)
EXTENDS Services, FiniteSets

CONSTANTS a1, a2, i1, i2

VARIABLE part

vars == <<part, parts>>

(* One aircraft, which only the list being written has. *)
MCListed == [f \in {"missing", "old", "partial", "new"} |->
               IF f = "new" THEN {"h1"} ELSE {}]

(* Two areas, one within the other. *)
MCWhere == [a \in Aois |-> IF a = a1 THEN {"p1"} ELSE {"p1", "p2"}]

MCBound == [n \in Names |-> IF n = "all" THEN 1 ELSE 2]

BothButtons == drawn' \subseteq {i1}

OneButton ==
  /\ button'["all"] = "idle"
  /\ \A id \in Ids : jobs'[id] # Off => jobs'[id].name # "all"
  /\ Cardinality(answers') <= 1

(* A part that does not move is in one of its initial states. *)
MCInit ==
  /\ part \in {"military", "ais", "cr360", "panel", "button"}
  /\ Init
  /\ part # "military" => provider = "adsb" /\ file = "missing"
  /\ part # "ais" => socket = "off"

MCNext ==
  /\ UNCHANGED part
  /\ \/ part = "military" /\ MilitaryStep
     \/ part = "ais" /\ AisStep
     \/ part = "cr360" /\ Cr360Step
     \/ part = "panel" /\ PanelStep /\ BothButtons
     \/ part = "button" /\ PanelStep /\ OneButton

(* No action that fairness is stated of is enabled in a part at rest.      *)
MCSpec == MCInit /\ [][MCNext]_vars /\ Ais!Fairness /\ Panel!Fairness
=============================================================================
