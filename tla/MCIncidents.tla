---------------------------- MODULE MCIncidents ----------------------------
(* Small instances of Incidents: up to three events, with all that can     *)
(* differ between them, and thresholds in half days (a tick is 12 hours).  *)
EXTENDS Incidents, EventMetric, TLC

CONSTANTS e1, e2, e3

All(x)        == [e \in Events |-> x]
Each(a, b, c) == [e \in Events |-> (e1 :> a @@ e2 :> b @@ e3 :> c)[e]]

(* Half a day from one to the next: each is close to its neighbours only.  *)
ChainTime == Each(0, 1, 2)

(* Two events close to each other, and one that comes when the incident of *)
(* those two can be stale.                                                 *)
LateTime  == Each(0, 1, 8)

(* Two events, of different sources, that both extend the incident of the  *)
(* first.                                                                  *)
TwinTime  == Each(0, 1, 1)

SamePlace   == All(0)
NearPlace   == Each(0, 1, 0)
OneCategory == All("conflict")
OneEach     == Each("usgs", "firms", "gdelt")

MCCentroid(S) == CanonicalPoint(S, EventPos, All(1))
=============================================================================
