---------------------------- MODULE EventStore -----------------------------
(***************************************************************************)
(* What ingestion promises to whoever reads the events and the counts the  *)
(* runs report: every event has one row; a run counts an event as new in   *)
(* the same step that makes its row, as known only when it has one, and    *)
(* everything else as refused, whatever the other runs do meanwhile.  The  *)
(* one exception is a run that is interrupted while it stores, or does not *)
(* hear that its commit is done: its row may be made and counted as        *)
(* refused.                                                                *)
(***************************************************************************)
EXTENDS Naturals

CONSTANTS Runs, Keys

VARIABLES
  stored,     \* the events that have a row
  count       \* what each run has counted

vars == <<stored, count>>

Zero == [new |-> 0, known |-> 0, refused |-> 0]

Init == stored = {} /\ count = [r \in Runs |-> Zero]

StoreNew(r, k) ==
  /\ k \in Keys \ stored
  /\ stored' = stored \cup {k}
  /\ count' = [count EXCEPT ![r].new = @ + 1]

FindKnown(r, k) ==
  /\ k \in stored
  /\ count' = [count EXCEPT ![r].known = @ + 1]
  /\ UNCHANGED stored

Refuse(r) ==
  /\ count' = [count EXCEPT ![r].refused = @ + 1]
  /\ UNCHANGED stored

StoreInterrupted(r, k) ==
  /\ k \in Keys \ stored
  /\ stored' = stored \cup {k}
  /\ count' = [count EXCEPT ![r].refused = @ + 1]

Next ==
  \E r \in Runs :
    \/ Refuse(r)
    \/ \E k \in Keys : StoreNew(r, k) \/ FindKnown(r, k) \/ StoreInterrupted(r, k)

Spec == Init /\ [][Next]_vars
=============================================================================
