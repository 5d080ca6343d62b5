---------------------------- MODULE EventMetric ----------------------------
(***************************************************************************)
(* Pure functions of backend/jobs/clustering_job.py over sets of events.   *)
(***************************************************************************)
EXTENDS Integers, FiniteSetsExt

(* compute_canonical_point, in one dimension and rounded down: the mean of *)
(* the positions weighted by confidence, or the position of the first      *)
(* event if no event has any.                                              *)
CanonicalPoint(S, pos, confidence) ==
  LET total == MapThenSumSet(LAMBDA e : confidence[e], S)
  IN  IF S = {} THEN 0
      ELSE IF total = 0 THEN pos[CHOOSE e \in S : TRUE]
      ELSE MapThenSumSet(LAMBDA e : pos[e] * confidence[e], S) \div total
=============================================================================
