---------------------------- MODULE MilitaryRelay ----------------------------
(***************************************************************************)
(* The military flight relay (services/military_relay): the request        *)
(* handler with its cache of answers per area and its trails, the limiter  *)
(* in front of OpenSky, the list of military addresses, and the thread     *)
(* that downloads that list anew when the relay starts.                    *)
(*                                                                         *)
(* The handler is a coroutine that never awaits: it holds the event loop,  *)
(* so there is one request at a time.  The updater is a thread, which runs *)
(* beside it.  Filtering takes no time; the limiter and the source do.     *)
(***************************************************************************)
EXTENDS Integers, Sequences

CONSTANTS
  Areas,      \* the boxes clients ask for
  Hexes,      \* the addresses of aircraft
  Listed,     \* for each state of military_hex.txt, the addresses in it
  TTL,        \* CACHE_TTL_SECONDS
  Gap,        \* the least time between two calls of OpenSky
  MaxAge,     \* max_age_seconds of the trails
  MaxTrail,   \* MAX_TRAIL_LENGTH
  MaxTime,    \* the clock stops there (a bound)
  NoEntry,    \* the cache has no entry for the area
  NoList,     \* no list has been read
  NoAnswer    \* nobody has been answered

(* What the file can hold: nothing, a list from before, the part a thread  *)
(* has written of a new one, the new one.                                  *)
Files == {"missing", "old", "partial", "new"}

BoundsAreNatural ==
  /\ {TTL, Gap, MaxAge, MaxTime} \subseteq Nat
  /\ MaxTrail \in Nat \ {0}
  /\ Listed \in [Files -> SUBSET Hexes]
  /\ Listed["missing"] = {}

VARIABLES
  provider,   \* MILITARY_SOURCE
  clock,
  cache,      \* BBoxCache: the answer held for each area, and since when
  trails,     \* FlightHistoryBuffer: when each aircraft's positions came in
  lastCall,   \* when the limiter let the last call through
  file,       \* military_hex.txt
  memo,       \* the list that lru_cache keeps of load_military_hex_set
  updater,    \* where _background_db_update is
  handler,    \* where the request is
  answer,     \* what the last request was answered
  answered    \* when each area was last answered from the source (a history)

vars == <<provider, clock, cache, trails, lastCall, file, memo, updater,
          handler, answer, answered>>

-----------------------------------------------------------------------------
(* What the source says of an aircraft: not in the area, category 7, any   *)
(* other category (ADS-B Exchange has none), or without a position.        *)
Reports == {"absent", "military", "other", "nowhere"}

Idle == [phase |-> "idle"]

Handlers ==
  [phase: {"idle"}]
    \cup [phase: {"miss", "asked"}, area: Areas]
    \cup [phase: {"filter"}, area: Areas, raw: [Hexes -> Reports],
          read: Files \cup {NoList}]

Entries == [flights: SUBSET Hexes, at: Nat]

(* age: how old the positions of the flights are.  marked: isStale and the *)
(* header X-Stale.  An error is a 503.                                     *)
Answers ==
  [area: Areas, flights: SUBSET Hexes, age: Nat, marked: BOOLEAN,
   error: BOOLEAN]

TypeOK ==
  /\ provider \in {"opensky", "adsb"}
  /\ clock \in 0 .. MaxTime
  /\ cache \in [Areas -> Entries \cup {NoEntry}]
  /\ DOMAIN trails = Hexes
  /\ \A h \in Hexes : trails[h] \in Seq(Nat) /\ Len(trails[h]) <= MaxTrail
  /\ lastCall \in Int
  /\ file \in Files
  /\ memo \in Files \cup {NoList}
  /\ updater \in {"start", "write", "clear", "done"}
  /\ handler \in Handlers
  /\ answer \in Answers \cup {NoAnswer}
  /\ answered \in [Areas -> Nat \cup {NoEntry}]

Init ==
  /\ provider \in {"opensky", "adsb"}
  /\ clock = 0
  /\ cache = [a \in Areas |-> NoEntry]
  /\ trails = [h \in Hexes |-> <<>>]
  /\ lastCall = -Gap
  /\ file \in Files
  /\ memo = NoList
  /\ updater = "start"
  /\ handler = Idle
  /\ answer = NoAnswer
  /\ answered = [a \in Areas |-> NoEntry]

Tick ==
  /\ clock < MaxTime
  /\ handler.phase # "filter"
  /\ clock' = clock + 1
  /\ UNCHANGED <<provider, cache, trails, lastCall, file, memo, updater,
                 handler, answer, answered>>

-----------------------------------------------------------------------------
(***************************************************************************)
(* A request for area a: list_military_flights and BBoxCache.get.          *)
(***************************************************************************)
FreshTwice == 2 * TTL    \* mutant of Fresh: an old answer is not marked

Fresh == TTL             \* an entry is served as it is until then

ExpiredEarly == TTL      \* mutant of Expired: a stale entry is not served

Expired == 2 * TTL       \* and marked until then

Age(a) == clock - cache[a].at

FromCache(a, marked) ==
  [area |-> a, flights |-> cache[a].flights, age |-> Age(a),
   marked |-> marked, error |-> FALSE]

(* The entry is fresh, or stale: it is served, and marked in that case.    *)
ServeCached(a) ==
  /\ handler = Idle
  /\ cache[a] # NoEntry
  /\ Age(a) <= Expired \/ Age(a) <= Fresh
  /\ answer' = FromCache(a, Age(a) > Fresh)
  /\ UNCHANGED <<provider, clock, cache, trails, lastCall, file, memo,
                 updater, handler, answered>>

(* There is no entry, or it has expired: get deletes it before the source  *)
(* is asked.                                                               *)
Miss(a) ==
  /\ handler = Idle
  /\ cache[a] # NoEntry => Age(a) > Fresh /\ Age(a) > Expired
  /\ cache' = [cache EXCEPT ![a] = NoEntry]
  /\ handler' = [phase |-> "miss", area |-> a]
  /\ UNCHANGED <<provider, clock, trails, lastCall, file, memo, updater,
                 answer, answered>>

(* The limiter sleeps until Gap has passed.  ADS-B Exchange has none.      *)
AskSource ==
  /\ handler.phase = "miss"
  /\ provider = "opensky" => clock >= lastCall + Gap
  /\ lastCall' = IF provider = "opensky" THEN clock ELSE lastCall
  /\ handler' = [handler EXCEPT !.phase = "asked"]
  /\ UNCHANGED <<provider, clock, cache, trails, file, memo, updater, answer,
                 answered>>

Filter(a, raw) == [phase |-> "filter", area |-> a, raw |-> raw, read |-> NoList]

Nothing == [h \in Hexes |-> "absent"]

SourceAnswers ==
  /\ handler.phase = "asked"
  /\ \E raw \in [Hexes -> Reports] :
       /\ provider = "adsb" => \A h \in Hexes : raw[h] # "military"
       /\ handler' = Filter(handler.area, raw)
  /\ UNCHANGED <<provider, clock, cache, trails, lastCall, file, memo,
                 updater, answer, answered>>

(* OpenSky says 429, 401 or 403: fetch_flights returns an empty list, as   *)
(* it does where there is no aircraft.                                     *)
SourceRefuses ==
  /\ handler.phase = "asked"
  /\ provider = "opensky"
  /\ handler' = Filter(handler.area, Nothing)
  /\ UNCHANGED <<provider, clock, cache, trails, lastCall, file, memo,
                 updater, answer, answered>>

(* Any other failure, and a missing key of ADS-B Exchange: _fetch_from_    *)
(* source looks for the area's last entry, and answers 503 without one.    *)
SourceFails ==
  /\ handler.phase = "asked"
  /\ LET a == handler.area
     IN  IF cache[a] # NoEntry
         THEN handler' = Filter(a, Nothing) /\ UNCHANGED answer
         ELSE /\ handler' = Idle
              /\ answer' = [area |-> a, flights |-> {}, age |-> 0,
                            marked |-> FALSE, error |-> TRUE]
  /\ UNCHANGED <<provider, clock, cache, trails, lastCall, file, memo,
                 updater, answered>>

-----------------------------------------------------------------------------
(***************************************************************************)
(* The filter.  An aircraft of category 7 is military, any other when its  *)
(* address is listed; the list is read once, and lru_cache stores it when  *)
(* the reading is over.                                                    *)
(***************************************************************************)
NeedsList(raw) == \E h \in Hexes : raw[h] \in {"other", "nowhere"}

ReadList ==
  /\ handler.phase = "filter"
  /\ NeedsList(handler.raw)
  /\ memo = NoList
  /\ handler.read = NoList
  /\ handler' = [handler EXCEPT !.read = file]
  /\ UNCHANGED <<provider, clock, cache, trails, lastCall, file, memo,
                 updater, answer, answered>>

KeepList ==
  /\ handler.phase = "filter"
  /\ handler.read # NoList
  /\ memo' = handler.read
  /\ handler' = [handler EXCEPT !.read = NoList]
  /\ UNCHANGED <<provider, clock, cache, trails, lastCall, file, updater,
                 answer, answered>>

(* The military aircraft that have a position.                             *)
Military(raw) ==
  {h \in Hexes : \/ raw[h] = "military"
                 \/ raw[h] = "other" /\ h \in Listed[memo]}

TrailUncut(h, flights) ==    \* mutant of Trail: positions pile up
  IF h \in flights THEN Append(trails[h], clock) ELSE trails[h]

(* FlightHistoryBuffer.update: an aircraft of this answer gets one more    *)
(* position, of which the last MaxTrail are kept; any other loses its      *)
(* trail once its last position is too old.                                *)
Trail(h, flights) ==
  LET longer == Append(trails[h], clock)
      n      == Len(trails[h])
  IN  IF h \in flights
        THEN IF Len(longer) > MaxTrail THEN Tail(longer) ELSE longer
      ELSE IF n > 0 /\ clock - trails[h][n] > MaxAge THEN <<>>
      ELSE trails[h]

Respond ==
  /\ handler.phase = "filter"
  /\ NeedsList(handler.raw) => memo # NoList
  /\ handler.read = NoList
  /\ LET a       == handler.area
         flights == Military(handler.raw)
     IN  /\ cache' = [cache EXCEPT ![a] = [flights |-> flights, at |-> clock]]
         /\ trails' = [h \in Hexes |-> Trail(h, flights)]
         /\ answer' = [area |-> a, flights |-> flights, age |-> 0,
                       marked |-> FALSE, error |-> FALSE]
         /\ answered' = [answered EXCEPT ![a] = clock]
  /\ handler' = Idle
  /\ UNCHANGED <<provider, clock, lastCall, file, memo, updater>>

-----------------------------------------------------------------------------
(***************************************************************************)
(* _background_db_update.  A file with enough lines that is not too old is *)
(* left alone; which one is, the model leaves open.                        *)
(***************************************************************************)
UpdaterSkips ==
  /\ updater = "start"
  /\ file # "missing"
  /\ updater' = "done"
  /\ UNCHANGED <<provider, clock, cache, trails, lastCall, file, memo,
                 handler, answer, answered>>

(* No month could be downloaded, or nothing military was found in it.      *)
DownloadFails ==
  /\ updater = "start"
  /\ updater' = "done"
  /\ UNCHANGED <<provider, clock, cache, trails, lastCall, file, memo,
                 handler, answer, answered>>

(* The file is opened for writing, which empties it, and written.          *)
WriteList ==
  /\ updater = "start"
  /\ file' = "partial"
  /\ updater' = "write"
  /\ UNCHANGED <<provider, clock, cache, trails, lastCall, memo, handler,
                 answer, answered>>

(* All is written, or writing raises and the caches are not cleared.       *)
CloseList ==
  /\ updater = "write"
  /\ \/ file' = "new" /\ updater' = "clear"
     \/ file' = "partial" /\ updater' = "done"
  /\ UNCHANGED <<provider, clock, cache, trails, lastCall, memo, handler,
                 answer, answered>>

ClearMemo ==
  /\ updater = "clear"
  /\ memo' = NoList
  /\ updater' = "done"
  /\ UNCHANGED <<provider, clock, cache, trails, lastCall, file, handler,
                 answer, answered>>

(* The process dies and starts again: only the file is left, as it is.     *)
Restart ==
  /\ cache' = [a \in Areas |-> NoEntry]
  /\ trails' = [h \in Hexes |-> <<>>]
  /\ lastCall' = -Gap
  /\ memo' = NoList
  /\ updater' = "start"
  /\ handler' = Idle
  /\ answer' = NoAnswer
  /\ answered' = [a \in Areas |-> NoEntry]
  /\ UNCHANGED <<provider, clock, file>>

-----------------------------------------------------------------------------
Handler ==
  \/ \E a \in Areas : ServeCached(a) \/ Miss(a)
  \/ AskSource
  \/ SourceAnswers
  \/ SourceRefuses
  \/ SourceFails
  \/ ReadList
  \/ KeepList
  \/ Respond

Updater ==
  \/ UpdaterSkips
  \/ DownloadFails
  \/ WriteList
  \/ CloseList
  \/ ClearMemo

Next == Tick \/ Handler \/ Updater \/ Restart

Spec == Init /\ [][Next]_vars

-----------------------------------------------------------------------------
(***************************************************************************)
(* Properties.                                                             *)
(***************************************************************************)

(* What the API makes of the relay's answer (routes/military.py): the mark *)
(* is the header, and an error is an empty list that is not marked.        *)
Forwarded ==
  IF answer = NoAnswer \/ answer.error
  THEN [flights |-> {}, age |-> 0, isStale |-> FALSE]
  ELSE [flights |-> answer.flights, age |-> answer.age,
        isStale |-> answer.marked]

(* A flight the API hands out as current was in the air at most TTL ago by *)
(* the source's account, and one it marks as stale at most twice that: the *)
(* entry's age, the mark, the header and the API's reading of it agree.    *)
NothingOutdated ==
  Forwarded.flights # {} =>
    Forwarded.age <= (IF Forwarded.isStale THEN 2 * TTL ELSE TTL)

(* The source is not asked for an area while an answer of it can still be  *)
(* served, however its requests and those for other areas follow each      *)
(* other: the free plan of OpenSky has a daily quota.                      *)
SourceSpared ==
  [][\A a \in Areas :
       /\ handler.phase = "miss" /\ handler.area = a
       /\ handler'.phase = "asked"
       => answered[a] = NoEntry \/ clock - answered[a] > 2 * TTL]_vars

(* A relay that has had an answer for an area does not answer a failure of *)
(* the source with an error, but with that answer (documentacion/          *)
(* specs_funcionales/ingesta/military-flights.md:167-168).                 *)
FallbackServesLast ==
  answer # NoAnswer /\ answer.error => answered[answer.area] = NoEntry
=============================================================================
