--------------------------- MODULE AisRelayProofs ---------------------------
(***************************************************************************)
(* Proofs about AisRelay, for any ships, places, areas and waiting times.  *)
(***************************************************************************)
EXTENDS AisRelay, TLAPS

Assumptions == BoundsAreNatural /\ AreasAreOfPlaces /\ NothingHeardIsNoVessel

(* A connection renews the patience, and nothing uses it up meanwhile.     *)
SocketAgrees ==
  socket = "open" => backoff = BackoffBase

(* A ship is stored under its own number, so that no listing has two       *)
(* vessels with the same id, and neither has what is merged of them.       *)
UniqueIds(S) == \A v, w \in S : Id(v) = Id(w) => v = w

KeyedByShip ==
  \A s \in Ships : vessels[s] # NoShip => vessels[s].ship = s

IdsAreUnique ==
  /\ \A a \in Aois : fetched[a].phase = "back" => UniqueIds(fetched[a].got)
  /\ UniqueIds(merged)

IInv == TypeOK /\ SocketAgrees /\ KeyedByShip /\ IdsAreUnique

LEMMA NumbersOfBounds ==
  ASSUME Assumptions
  PROVE  /\ BackoffBase \in Nat /\ BackoffMax \in Nat /\ MaxTime \in Nat
         /\ BackoffBase <= BackoffMax
  BY DEF Assumptions, BoundsAreNatural

LEMMA InitIInv == ASSUME Assumptions, Init PROVE IInv
<1>1. TypeOK
  <2>1. fetched \in [Aois -> Calls]
    <3>1. [phase |-> "none"] \in Calls
      BY DEF Calls
    <3> QED BY <3>1 DEF Init
  <2>2. vessels \in [Ships -> Vessel \cup {NoShip}]
    BY DEF Init
  <2>3. clock \in 0 .. MaxTime /\ backoff \in BackoffBase .. BackoffMax
    BY NumbersOfBounds DEF Init
  <2> QED BY <2>1, <2>2, <2>3 DEF Init, TypeOK
<1>2. SocketAgrees /\ KeyedByShip /\ IdsAreUnique
  BY DEF Init, SocketAgrees, KeyedByShip, IdsAreUnique, UniqueIds
<1> QED BY <1>1, <1>2 DEF IInv

-----------------------------------------------------------------------------
(***************************************************************************)
(* Listings.                                                               *)
(***************************************************************************)

(* Whatever the endpoint answers is a set of vessels without two of one id. *)
LEMMA ListingIsUnique ==
  ASSUME Assumptions, IInv, NEW a \in Aois,
         NEW listing \in Listings(a) \cup {{}}
  PROVE  listing \in SUBSET Vessel /\ UniqueIds(listing)
<1>1. CASE listing = InArea(a)
  <2>1. \A v \in InArea(a) :
          \E s \in Ships : v = vessels[s] /\ v \in Vessel /\ v.ship = s
    BY DEF InArea, IInv, TypeOK, KeyedByShip
  <2>2. InArea(a) \in SUBSET Vessel
    BY <2>1
  <2>3. UniqueIds(InArea(a))
    <3> SUFFICES ASSUME NEW v \in InArea(a), NEW w \in InArea(a), Id(v) = Id(w)
                 PROVE  v = w
      BY DEF UniqueIds
    <3>1. v.ship = w.ship
      BY DEF Id
    <3> QED BY <2>1, <3>1
  <2> QED BY <1>1, <2>2, <2>3
<1>2. CASE listing = {}
  BY <1>2 DEF UniqueIds
<1>3. ASSUME NEW p \in Where[a],
             listing = {[ship |-> Mock, at |-> clock, place |-> p]}
      PROVE  listing \in SUBSET Vessel /\ UniqueIds(listing)
  <2>1. p \in Places /\ clock \in Nat
    BY <1>3 DEF Assumptions, BoundsAreNatural, AreasAreOfPlaces, IInv, TypeOK
  <2>2. listing \in SUBSET Vessel
    BY <1>3, <2>1 DEF Vessel
  <2>3. \A v, w \in listing : v = w
    BY <1>3
  <2> QED BY <2>2, <2>3 DEF UniqueIds
<1> QED BY <1>1, <1>2, <1>3 DEF Listings

(* Merging keeps one vessel of each id, and loses no id.                   *)
LEMMA MergeKeepsIds ==
  ASSUME NEW S, NEW T, UniqueIds(S), UniqueIds(T)
  PROVE  LET U == S \cup {w \in T : \A v \in S : Id(v) # Id(w)}
         IN  /\ UniqueIds(U)
             /\ \A w \in S \cup T : \E v \in U : Id(v) = Id(w)
  BY DEF UniqueIds

-----------------------------------------------------------------------------
(***************************************************************************)
(* The steps.                                                              *)
(***************************************************************************)

LEMMA ListenerIInv == ASSUME Assumptions, IInv, Listener PROVE IInv'
<1> USE DEF IInv, TypeOK, SocketAgrees, IdsAreUnique, UniqueIds
<1>1. UNCHANGED <<clock, fetched, merged>>
  BY DEF Listener, Connects, Receive, Drops, Closes, Wakes
<1>2. ASSUME NEW s \in Ships, Receive(s) PROVE IInv'
  <2>1. PICK p \in Places :
          vessels' = [vessels EXCEPT
                        ![s] = [ship |-> s, at |-> clock, place |-> p]]
    BY <1>2 DEF Receive
  <2>2. [ship |-> s, at |-> clock, place |-> p] \in Vessel
    BY DEF Vessel, Assumptions, BoundsAreNatural
  <2>3. vessels' \in [Ships -> Vessel \cup {NoShip}] /\ KeyedByShip'
    BY <2>1, <2>2 DEF KeyedByShip
  <2> QED BY <1>1, <1>2, <2>3 DEF Receive
<1>3. CASE Connects
  BY <1>1, <1>3, NumbersOfBounds DEF Connects, KeyedByShip
<1>4. CASE Drops \/ Closes
  BY <1>1, <1>4 DEF Drops, Closes, KeyedByShip
<1>5. CASE Wakes
  BY <1>1, <1>5, NumbersOfBounds DEF Wakes, KeyedByShip
<1> QED BY <1>2, <1>3, <1>4, <1>5 DEF Listener

LEMMA RouteIInv == ASSUME Assumptions, IInv, Route PROVE IInv'
<1>1. UNCHANGED <<clock, socket, backoff, connected, vessels>>
  BY DEF Route, Ask, Fetch, Merge
<1>2. SocketAgrees' /\ KeyedByShip'
  BY <1>1 DEF IInv, SocketAgrees, KeyedByShip
<1>3. SUFFICES /\ fetched' \in [Aois -> Calls]
               /\ merged' \in SUBSET Vessel
               /\ IdsAreUnique'
  BY <1>1, <1>2, <1>3 DEF IInv, TypeOK
<1>4. CASE Ask
  BY <1>4 DEF Ask, Calls, IdsAreUnique, UniqueIds
<1>5. ASSUME NEW a \in Aois, Fetch(a)
      PROVE  /\ fetched' \in [Aois -> Calls]
             /\ merged' \in SUBSET Vessel
             /\ IdsAreUnique'
  <2>1. PICK listing \in Listings(a) \cup {{}} :
          fetched' = [fetched EXCEPT
                        ![a] = [phase |-> "back", got |-> listing]]
    BY <1>5 DEF Fetch
  <2>2. listing \in SUBSET Vessel /\ UniqueIds(listing)
    BY ListingIsUnique
  <2>3. [phase |-> "back", got |-> listing] \in Calls
    BY <2>2 DEF Calls
  <2>4. fetched' \in [Aois -> Calls]
    BY <2>1, <2>3 DEF IInv, TypeOK
  <2>5. \A b \in Aois : fetched'[b].phase = "back" => UniqueIds(fetched'[b].got)
    BY <2>1, <2>2 DEF IInv, TypeOK, IdsAreUnique
  <2> QED BY <1>5, <2>4, <2>5 DEF Fetch, IInv, TypeOK, IdsAreUnique, UniqueIds
<1>6. ASSUME NEW a \in Aois, Merge(a)
      PROVE  /\ fetched' \in [Aois -> Calls]
             /\ merged' \in SUBSET Vessel
             /\ IdsAreUnique'
  <2>1. /\ fetched' = [fetched EXCEPT ![a] = [phase |-> "merged"]]
        /\ merged' = merged \cup {w \in fetched[a].got :
                                    \A v \in merged : Id(v) # Id(w)}
        /\ fetched[a].phase = "back"
    BY <1>6 DEF Merge
  <2>2. /\ fetched[a].got \in SUBSET Vessel
        /\ UniqueIds(fetched[a].got) /\ UniqueIds(merged)
    BY <2>1 DEF IInv, TypeOK, Calls, IdsAreUnique
  <2>3. UniqueIds(merged')
    BY <2>1, <2>2, MergeKeepsIds
  <2>4. fetched' \in [Aois -> Calls]
    BY <2>1 DEF IInv, TypeOK, Calls
  <2>5. \A b \in Aois : fetched'[b].phase = "back" => UniqueIds(fetched'[b].got)
    BY <2>1 DEF IInv, TypeOK, IdsAreUnique
  <2>6. merged' \in SUBSET Vessel
    BY <2>1, <2>2 DEF IInv, TypeOK
  <2>7. UniqueIds(merged)' <=> UniqueIds(merged')
    BY DEF UniqueIds
  <2> QED BY <2>3, <2>4, <2>5, <2>6, <2>7 DEF IdsAreUnique, UniqueIds
<1> QED BY <1>4, <1>5, <1>6 DEF Route

LEMMA NextIInv == ASSUME Assumptions, IInv, [Next]_vars PROVE IInv'
<1> USE DEF IInv, TypeOK, SocketAgrees, KeyedByShip, IdsAreUnique, UniqueIds
<1>1. CASE Tick
  BY <1>1, NumbersOfBounds DEF Tick
<1>2. CASE UNCHANGED vars
  BY <1>2 DEF vars
<1> QED BY <1>1, <1>2, ListenerIInv, RouteIInv DEF Next

LEMMA Invariance == ASSUME Assumptions PROVE Spec => []IInv
<1>1. Init => IInv
  BY InitIInv
<1>2. IInv /\ [Next]_vars => IInv'
  BY NextIInv
<1> QED BY <1>1, <1>2, PTL DEF Spec

-----------------------------------------------------------------------------
(***************************************************************************)
(* The theorems.                                                           *)
(***************************************************************************)

LEMMA DropRenews ==
  ASSUME IInv, [Next]_vars, socket = "open", socket' = "waiting"
  PROVE  backoff' = BackoffBase
  BY DEF IInv, SocketAgrees, Next, Tick, Listener, Connects, Receive, Drops,
         Closes, Wakes, Route, Ask, Fetch, Merge, vars

LEMMA MergeLosesNone ==
  ASSUME IInv, [Next]_vars, NEW a \in Aois,
         fetched[a].phase = "back", fetched'[a].phase = "merged"
  PROVE  /\ \A w \in merged \cup fetched[a].got :
              \E v \in merged' : Id(v) = Id(w)
         /\ \A v, w \in merged' : Id(v) = Id(w) => v = w
<1>1. fetched \in [Aois -> Calls]
  BY DEF IInv, TypeOK
<1>2. fetched' # fetched
  OBVIOUS
<1>3. PICK b \in Aois : Merge(b)
  <2>1. \A b \in Aois : ~Fetch(b)
    BY <1>1 DEF Fetch
  <2>2. ~Ask
    BY DEF Ask
  <2> QED
    BY <1>2, <2>1, <2>2
    DEF Next, Tick, Listener, Connects, Receive, Drops, Closes, Wakes, Route,
        vars
<1>4. b = a
  BY <1>1, <1>3 DEF Merge
<1>5. UniqueIds(fetched[a].got) /\ UniqueIds(merged)
  BY DEF IInv, IdsAreUnique
<1> QED BY <1>3, <1>4, <1>5, MergeKeepsIds DEF Merge, UniqueIds

(* Every variable of the relay keeps its type, however the connection and  *)
(* the calls of the route interleave.                                      *)
THEOREM TypeCorrect == ASSUME Assumptions PROVE Spec => []TypeOK
  BY Invariance, PTL DEF IInv

(* The listener waits for the base time after any connection it has had.   *)
THEOREM Renewal == ASSUME Assumptions PROVE Spec => PatienceRenewed
<1>1. IInv /\ [Next]_vars
        => [socket = "open" /\ socket' = "waiting" => backoff' = BackoffBase]_vars
  BY DropRenews
<1> QED BY <1>1, Invariance, PTL DEF Spec, PatienceRenewed

(* In whatever order the calls complete, and the store changes meanwhile,  *)
(* the route's answer has every id that a call has brought, once.          *)
THEOREM MergedOnce == ASSUME Assumptions PROVE Spec => NoVesselLost
<1>1. IInv /\ [Next]_vars
        => [\A a \in Aois :
              fetched[a].phase = "back" /\ fetched'[a].phase = "merged" =>
                /\ \A w \in merged \cup fetched[a].got :
                     \E v \in merged' : Id(v) = Id(w)
                /\ \A v, w \in merged' : Id(v) = Id(w) => v = w]_vars
  BY MergeLosesNone
<1> QED BY <1>1, Invariance, PTL DEF Spec, NoVesselLost
=============================================================================
