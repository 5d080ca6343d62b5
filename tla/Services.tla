------------------------------ MODULE Services ------------------------------
(***************************************************************************)
(* The parts behind the data layers of the map, and the panel that         *)
(* refreshes them, side by side: a step is one of one of them.  The parts  *)
(* are processes of their own and share no state; that none needs another  *)
(* to be correct is what the properties say here.                          *)
(***************************************************************************)
EXTENDS Naturals

CONSTANTS
  Aois,                                        \* the areas of interest
  Hexes, Listed, RelayTTL, Gap, MaxAge, MaxTrail, RelayTime,
  Ships, Places, Where, Mock, BackoffBase, BackoffMax, ListenerTime,
  Threads, Urls, ProxyTTL, Patience, ProxyTime,
  Ids, Names, MaxAnswers, MaxPolls,
  Off                                          \* nothing, where there may be

VARIABLES
  provider, clock, cache, trails, lastCall, file, memo, updater, handler,
  answer, answered,
  aisClock, socket, backoff, connected, vessels, fetched, merged,
  proxyClock, proxyCache, thread, stored,
  jobs, drawn, button, answers, polls, registered, resets, mounted

relay == <<provider, clock, cache, trails, lastCall, file, memo, updater,
           handler, answer, answered>>
ais   == <<aisClock, socket, backoff, connected, vessels, fetched, merged>>
proxy == <<proxyClock, proxyCache, thread, stored>>
panel == <<jobs, drawn, button, answers, polls, registered, resets, mounted>>
parts == <<relay, ais, proxy, panel>>

Military ==
  INSTANCE MilitaryRelay WITH
    Areas <- Aois, TTL <- RelayTTL, MaxTime <- RelayTime,
    NoEntry <- Off, NoList <- Off, NoAnswer <- Off

Ais ==
  INSTANCE AisRelay WITH
    clock <- aisClock, MaxTime <- ListenerTime, NoShip <- Off

Cr360 ==
  INSTANCE Cr360Proxy WITH
    clock <- proxyClock, cache <- proxyCache,
    TTL <- ProxyTTL, MaxTime <- ProxyTime, NoEntry <- Off

Panel == INSTANCE RefreshPanel WITH NoJob <- Off, NoId <- Off

ASSUME Bounds ==
  /\ Military!BoundsAreNatural
  /\ Ais!BoundsAreNatural
  /\ Cr360!BoundsAreNatural
  /\ Panel!BoundsAreNatural

ASSUME AreasOfShips == Ais!AreasAreOfPlaces

(* Nothing is no entry of a cache, and no vessel. *)
ASSUME OffIsNothing ==
  /\ Off \notin Military!Entries
  /\ Off \notin Cr360!Entries
  /\ Ais!NothingHeardIsNoVessel

-----------------------------------------------------------------------------
Init == Military!Init /\ Ais!Init /\ Cr360!Init /\ Panel!Init

MilitaryStep == Military!Next /\ UNCHANGED <<ais, proxy, panel>>
AisStep      == Ais!Next /\ UNCHANGED <<relay, proxy, panel>>
Cr360Step    == Cr360!Next /\ UNCHANGED <<relay, ais, panel>>
PanelStep    == Panel!Next /\ UNCHANGED <<relay, ais, proxy>>

Next == MilitaryStep \/ AisStep \/ Cr360Step \/ PanelStep

Spec == Init /\ [][Next]_parts /\ Ais!Fairness /\ Panel!Fairness

-----------------------------------------------------------------------------
(***************************************************************************)
(* Each property is of one part; its module says what it means.            *)
(***************************************************************************)

(* Every variable of every part has its type. *)
TypeOK ==
  Military!TypeOK /\ Ais!TypeOK /\ Cr360!TypeOK /\ Panel!TypeOK

(* MilitaryRelay: no flight is handed out as fresher than it is. *)
NothingOutdated == Military!NothingOutdated

(* MilitaryRelay: no call for an area whose last answer can be served. *)
SourceSpared == Military!SourceSpared

(* MilitaryRelay: a failure of the source is covered by the last answer. *)
FallbackServesLast == Military!FallbackServesLast

(* AisRelay: the waiting time starts from the base after a connection. *)
PatienceRenewed == Ais!PatienceRenewed

(* AisRelay: the listener never stops trying to connect. *)
ListenerSurvives == Ais!ListenerSurvives

(* AisRelay: merging the areas' answers loses and repeats no id. *)
NoVesselLost == Ais!NoVesselLost

(* Cr360Proxy: a payload from the cache is as recent as the TTL says. *)
PayloadRecent == Cr360!PayloadRecent

(* Cr360Proxy: a request that comes to a warm cache makes no call. *)
WarmNoCall == Cr360!WarmNoCall

(* RefreshPanel: DONE is said only of a job that is completed. *)
SuccessIsTrue == Panel!SuccessIsTrue

(* RefreshPanel: a button that spins has a poll or an answer under way. *)
RunningIsFollowed == Panel!RunningIsFollowed

(* RefreshPanel: no button spins for ever. *)
RunningEnds == Panel!RunningEnds
=============================================================================
