------------------------------ MODULE AisRelay ------------------------------
(***************************************************************************)
(* The AIS vessel relay (services/ais_relay): the listener that keeps a    *)
(* WebSocket open and stores what it says of each ship, the endpoint that  *)
(* answers from the store, and the route of the API (backend/api/routes/   *)
(* ais.py) that asks it once per area of interest and merges the answers.  *)
(*                                                                         *)
(* The listener and the endpoint are coroutines of one event loop.  The    *)
(* route's calls are made by threads and merged as they complete.          *)
(***************************************************************************)
EXTENDS Naturals

CONSTANTS
  Ships,        \* MMSIs
  Places,       \* where a ship can be
  Aois,         \* the active areas of interest
  Where,        \* the places in each area; areas may overlap
  Mock,         \* the made-up ship
  BackoffBase,  \* RECONNECT_BACKOFF_BASE
  BackoffMax,   \* RECONNECT_BACKOFF_MAX
  MaxTime,      \* the clock stops there (a bound)
  NoShip        \* nothing has been heard of the ship

BoundsAreNatural ==
  /\ {BackoffBase, BackoffMax, MaxTime} \subseteq Nat
  /\ BackoffBase <= BackoffMax

AreasAreOfPlaces == Where \in [Aois -> SUBSET Places]

VARIABLES
  clock,        \* seconds
  socket,       \* where aisstream_listener is
  backoff,      \* how long it will wait next
  connected,    \* VesselStore.connected, which the health endpoint tells
  vessels,      \* VesselStore: what was last heard of each ship
  fetched,      \* the route's request: what each area's call has returned
  merged        \* and the vessels of the calls that have completed

vars == <<clock, socket, backoff, connected, vessels, fetched, merged>>

(* A vessel is known to clients by its id, mmsi and second of reception.   *)
Vessel == [ship: Ships \cup {Mock}, at: Nat, place: Places]

Id(v) == <<v.ship, v.at>>

NothingHeardIsNoVessel == NoShip \notin Vessel

(* The call for an area: not made, on its way, back with an answer, merged. *)
Calls ==
  [phase: {"none", "asked", "merged"}] \cup [phase: {"back"}, got: SUBSET Vessel]

TypeOK ==
  /\ clock \in 0 .. MaxTime
  /\ socket \in {"off", "connecting", "open", "waiting"}
  /\ backoff \in BackoffBase .. BackoffMax
  /\ connected \in BOOLEAN
  /\ vessels \in [Ships -> Vessel \cup {NoShip}]
  /\ fetched \in [Aois -> Calls]
  /\ merged \in SUBSET Vessel

(* Without AISSTREAM_API_KEY there is no listener.                         *)
Init ==
  /\ clock = 0
  /\ socket \in {"off", "connecting"}
  /\ backoff = BackoffBase
  /\ connected = FALSE
  /\ vessels = [s \in Ships |-> NoShip]
  /\ fetched = [a \in Aois |-> [phase |-> "none"]]
  /\ merged = {}

Tick ==
  /\ clock < MaxTime
  /\ clock' = clock + 1
  /\ UNCHANGED <<socket, backoff, connected, vessels, fetched, merged>>

-----------------------------------------------------------------------------
(***************************************************************************)
(* aisstream_listener.                                                     *)
(***************************************************************************)
ConnectsAsBefore ==    \* mutant of Connects: the waiting time is not reset
  /\ socket = "connecting"
  /\ socket' = "open"
  /\ connected' = TRUE
  /\ UNCHANGED <<clock, backoff, vessels, fetched, merged>>

(* The connection is made and the subscription sent.                       *)
Connects ==
  /\ socket = "connecting"
  /\ socket' = "open"
  /\ connected' = TRUE
  /\ backoff' = BackoffBase
  /\ UNCHANGED <<clock, vessels, fetched, merged>>

(* A message says where a ship is.  One that is no position, or that lacks *)
(* a field, changes nothing.                                               *)
Receive(s) ==
  /\ socket = "open"
  /\ \E p \in Places :
       vessels' = [vessels EXCEPT ![s] = [ship |-> s, at |-> clock, place |-> p]]
  /\ UNCHANGED <<clock, socket, backoff, connected, fetched, merged>>

(* The attempt fails, the connection breaks, or a message raises something *)
(* the inner except does not name (a name that is null, a latitude that is *)
(* no number): the listener waits before the next attempt.                 *)
Drops ==
  /\ socket \in {"connecting", "open"}
  /\ socket' = "waiting"
  /\ connected' = FALSE
  /\ UNCHANGED <<clock, backoff, vessels, fetched, merged>>

(* The server closes the connection as the protocol says: the loop over    *)
(* the messages ends, nothing is raised, and the next attempt is made at   *)
(* once, with the store still connected.                                   *)
Closes ==
  /\ socket = "open"
  /\ socket' = "connecting"
  /\ UNCHANGED <<clock, backoff, connected, vessels, fetched, merged>>

WakesOnce ==    \* mutant of Wakes: it gives up when it has waited longest
  /\ socket = "waiting"
  /\ socket' = IF backoff = BackoffMax THEN "waiting" ELSE "connecting"
  /\ backoff' = IF 2 * backoff < BackoffMax THEN 2 * backoff ELSE BackoffMax
  /\ UNCHANGED <<clock, connected, vessels, fetched, merged>>

Wakes ==
  /\ socket = "waiting"
  /\ socket' = "connecting"
  /\ backoff' = IF 2 * backoff < BackoffMax THEN 2 * backoff ELSE BackoffMax
  /\ UNCHANGED <<clock, connected, vessels, fetched, merged>>

-----------------------------------------------------------------------------
(***************************************************************************)
(* The endpoint and the route.                                             *)
(***************************************************************************)
InArea(a) ==
  {vessels[s] : s \in {t \in Ships : /\ vessels[t] # NoShip
                                     /\ vessels[t].place \in Where[a]}}

(* list_vessels: the stored vessels of the area, or made-up ones if there  *)
(* are none, whose positions are drawn anew for each answer.               *)
Listings(a) ==
  IF InArea(a) # {} THEN {InArea(a)}
  ELSE {{}} \cup {{[ship |-> Mock, at |-> clock, place |-> p]} : p \in Where[a]}

(* A request of the route: a call for each area is given to the pool.      *)
Ask ==
  /\ \A a \in Aois : fetched[a].phase \in {"none", "merged"}
  /\ fetched' = [a \in Aois |-> [phase |-> "asked"]]
  /\ merged' = {}
  /\ UNCHANGED <<clock, socket, backoff, connected, vessels>>

(* The relay answers the call for a, or the call fails and counts as an    *)
(* empty answer.  Whether the relay is connected shows in the body's       *)
(* isStale only, which the route does not read: it looks for a header      *)
(* X-Stale that the relay never sends.                                     *)
Fetch(a) ==
  /\ fetched[a].phase = "asked"
  /\ \E listing \in Listings(a) \cup {{}} :
       fetched' = [fetched EXCEPT ![a] = [phase |-> "back", got |-> listing]]
  /\ UNCHANGED <<clock, socket, backoff, connected, vessels, merged>>

MergeOver(a) ==    \* mutant of Merge: each call's ids in a table of their own
  /\ fetched[a].phase = "back"
  /\ merged' = fetched[a].got
  /\ fetched' = [fetched EXCEPT ![a] = [phase |-> "merged"]]
  /\ UNCHANGED <<clock, socket, backoff, connected, vessels>>

(* A call completes: of two vessels with one id the first is kept.         *)
Merge(a) ==
  /\ fetched[a].phase = "back"
  /\ merged' = merged \cup {w \in fetched[a].got : \A v \in merged : Id(v) # Id(w)}
  /\ fetched' = [fetched EXCEPT ![a] = [phase |-> "merged"]]
  /\ UNCHANGED <<clock, socket, backoff, connected, vessels>>

-----------------------------------------------------------------------------
Listener ==
  \/ Connects
  \/ \E s \in Ships : Receive(s)
  \/ Drops
  \/ Closes
  \/ Wakes

Route == Ask \/ \E a \in Aois : Fetch(a) \/ Merge(a)

Next == Tick \/ Listener \/ Route

(* asyncio.sleep ends.  A connection attempt, or a connection, may last.   *)
Fairness == WF_vars(Wakes)

Spec == Init /\ [][Next]_vars /\ Fairness

-----------------------------------------------------------------------------
(***************************************************************************)
(* Properties.                                                             *)
(***************************************************************************)

(* A connection that breaks, also by a bad message, is tried again after   *)
(* the base time, however long the listener had waited before it was made. *)
PatienceRenewed ==
  [][socket = "open" /\ socket' = "waiting" => backoff' = BackoffBase]_vars

(* No failure stops the listener for good: as long as it runs it tries to  *)
(* connect again and again, or is connected.                               *)
ListenerSurvives ==
  []<>(socket # "waiting")

(* The merged answer has each id once, although areas overlap, and every   *)
(* id that a call has returned: in whatever order the calls complete and   *)
(* the store changes between them, none is lost.                           *)
NoVesselLost ==
  [][\A a \in Aois :
       fetched[a].phase = "back" /\ fetched'[a].phase = "merged" =>
         /\ \A w \in merged \cup fetched[a].got :
              \E v \in merged' : Id(v) = Id(w)
         /\ \A v, w \in merged' : Id(v) = Id(w) => v = w]_vars
=============================================================================
