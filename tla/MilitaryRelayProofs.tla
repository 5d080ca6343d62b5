------------------------- MODULE MilitaryRelayProofs -------------------------
(***************************************************************************)
(* Proofs about MilitaryRelay, for any areas, aircraft, lists and times to *)
(* live.                                                                   *)
(***************************************************************************)
EXTENDS MilitaryRelay, TLAPS

NoneIsNoEntry == NoEntry \notin Entries

(* The part of TypeOK the arguments need.                                  *)
Typed ==
  /\ clock \in Nat
  /\ cache \in [Areas -> Entries \cup {NoEntry}]
  /\ answered \in [Areas -> Nat \cup {NoEntry}]
  /\ handler \in Handlers
  /\ file \in Files

(* An answer says how old it is: within TTL, or marked and within twice    *)
(* that.  An error has no flights.                                         *)
Dated ==
  answer # NoAnswer =>
    /\ answer.error => answer.flights = {}
    /\ answer.age <= (IF answer.marked THEN 2 * TTL ELSE TTL)

(* The last answer of an area is in its entry, or too old to be served;    *)
(* a request that goes to the source has found the entry gone.             *)
KeptOrOld ==
  /\ \A a \in Areas :
       answered[a] # NoEntry =>
         \/ cache[a] # NoEntry /\ cache[a].at = answered[a]
         \/ clock - answered[a] > 2 * TTL
  /\ handler.phase \in {"miss", "asked"} => cache[handler.area] = NoEntry

IInv == Typed /\ Dated /\ KeptOrOld

LEMMA EntryFields ==
  ASSUME Typed, NEW a \in Areas
  PROVE  /\ cache[a] # NoEntry =>
              cache[a].at \in Nat /\ cache[a].flights \in SUBSET Hexes
         /\ answered[a] # NoEntry => answered[a] \in Nat
  BY DEF Typed, Entries

LEMMA HandlerFields ==
  ASSUME NEW h \in Handlers
  PROVE  /\ h.phase \in {"idle", "miss", "asked", "filter"}
         /\ h.phase # "idle" => h.area \in Areas
         /\ h.phase = "miss" =>
              [h EXCEPT !.phase = "asked"] = [phase |-> "asked", area |-> h.area]
         /\ h.phase = "filter" => \A f \in Files \cup {NoList} :
              /\ [h EXCEPT !.read = f] \in Handlers
              /\ [h EXCEPT !.read = f].phase = "filter"
              /\ [h EXCEPT !.read = f].area = h.area
  BY DEF Handlers

LEMMA NextIInv ==
  ASSUME BoundsAreNatural, NoneIsNoEntry, IInv, [Next]_vars
  PROVE  IInv'
<1>1. TTL \in Nat /\ clock \in Nat
  BY DEF BoundsAreNatural, IInv, Typed
<1>2. CASE UNCHANGED <<clock, cache, handler, answer, answered>> /\ file' \in Files
  BY <1>2 DEF IInv, Typed, Dated, KeptOrOld
<1>3. CASE Tick
  <2>1. clock' = clock + 1
        /\ UNCHANGED <<cache, handler, answer, answered, file>>
    BY <1>3 DEF Tick
  <2>2. ASSUME NEW a \in Areas, answered[a] # NoEntry,
               clock - answered[a] > 2 * TTL
        PROVE  clock' - answered[a] > 2 * TTL
    BY <1>1, <2>1, <2>2, EntryFields DEF IInv
  <2>3. Typed' /\ Dated'
    BY <1>1, <2>1 DEF IInv, Typed, Dated
  <2> QED BY <2>1, <2>2, <2>3 DEF IInv, KeptOrOld
<1>4. ASSUME NEW a \in Areas, ServeCached(a) PROVE IInv'
  <2>1. cache[a] # NoEntry /\ cache[a].at \in Nat
    BY <1>4, EntryFields DEF ServeCached, IInv
  <2>2. Age(a) <= 2 * TTL /\ Age(a) \in Int
    BY <1>1, <1>4, <2>1 DEF ServeCached, Expired, Fresh, Age
  <2>3. /\ answer' = [area |-> a, flights |-> cache[a].flights, age |-> Age(a),
                      marked |-> Age(a) > Fresh, error |-> FALSE]
        /\ UNCHANGED <<clock, cache, handler, answered, file>>
    BY <1>4 DEF ServeCached, FromCache
  <2>4. Dated'
    <3>1. CASE Age(a) > Fresh
      BY <2>2, <2>3, <3>1 DEF Dated
    <3>2. CASE ~(Age(a) > Fresh)
      BY <1>1, <2>2, <2>3, <3>2 DEF Dated, Fresh
    <3> QED BY <3>1, <3>2
  <2> QED BY <2>3, <2>4 DEF IInv, Typed, KeptOrOld
<1>5. ASSUME NEW a \in Areas, Miss(a) PROVE IInv'
  <2>1. /\ cache' = [cache EXCEPT ![a] = NoEntry]
        /\ handler' = [phase |-> "miss", area |-> a]
        /\ UNCHANGED <<clock, answer, answered, file>>
    BY <1>5 DEF Miss
  <2>2. Typed' /\ Dated'
    BY <2>1 DEF IInv, Typed, Dated, Handlers
  <2>3. ASSUME answered[a] # NoEntry PROVE clock - answered[a] > 2 * TTL
    BY <1>1, <1>5, <2>3, EntryFields DEF Miss, IInv, KeptOrOld, Expired, Age
  <2> QED BY <2>1, <2>2, <2>3 DEF IInv, Typed, KeptOrOld
<1>6. CASE AskSource
  <2>1. /\ handler' = [handler EXCEPT !.phase = "asked"]
        /\ handler.phase = "miss"
        /\ UNCHANGED <<clock, cache, answer, answered, file>>
    BY <1>6 DEF AskSource
  <2>2. /\ handler' = [phase |-> "asked", area |-> handler.area]
        /\ handler.area \in Areas
    BY <2>1, HandlerFields DEF IInv, Typed
  <2>3. handler' \in Handlers
    BY <2>2 DEF Handlers
  <2> QED BY <2>1, <2>2, <2>3 DEF IInv, Typed, Dated, KeptOrOld
<1>7. CASE SourceAnswers \/ SourceRefuses \/ SourceFails
  <2>1. /\ handler.phase = "asked"
        /\ UNCHANGED <<clock, cache, answered, file>>
    BY <1>7 DEF SourceAnswers, SourceRefuses, SourceFails
  <2>2. Nothing \in [Hexes -> Reports]
    BY DEF Nothing, Reports
  <2>3. \/ /\ \E raw \in [Hexes -> Reports] : handler' = Filter(handler.area, raw)
           /\ answer' = answer
        \/ /\ handler' = Idle
           /\ answer' = [area |-> handler.area, flights |-> {}, age |-> 0,
                         marked |-> FALSE, error |-> TRUE]
    BY <1>7, <2>2 DEF SourceAnswers, SourceRefuses, SourceFails
  <2>4. Dated'
    BY <1>1, <2>3 DEF IInv, Dated
  <2>5. handler.area \in Areas
    BY <2>1, HandlerFields DEF IInv, Typed
  <2>6. handler' \in Handlers /\ handler'.phase \in {"idle", "filter"}
    BY <2>3, <2>5 DEF Filter, Idle, Handlers
  <2> QED BY <2>1, <2>4, <2>6 DEF IInv, Typed, KeptOrOld
<1>8. CASE ReadList \/ KeepList
  <2>1. /\ handler.phase = "filter"
        /\ \E f \in Files \cup {NoList} : handler' = [handler EXCEPT !.read = f]
        /\ UNCHANGED <<clock, cache, answer, answered, file>>
    <3>1. file \in Files
      BY DEF IInv, Typed
    <3>2. CASE ReadList
      BY <3>1, <3>2 DEF ReadList
    <3>3. CASE KeepList
      BY <3>3 DEF KeepList
    <3> QED BY <1>8, <3>2, <3>3
  <2>2. PICK f \in Files \cup {NoList} : handler' = [handler EXCEPT !.read = f]
    BY <2>1
  <2>3. handler \in Handlers
    BY DEF IInv, Typed
  <2>4. /\ [handler EXCEPT !.read = f] \in Handlers
        /\ [handler EXCEPT !.read = f].phase = "filter"
    BY <2>1, <2>3, HandlerFields
  <2> QED BY <2>1, <2>2, <2>4 DEF IInv, Typed, Dated, KeptOrOld
<1>9. CASE Respond
  <2> DEFINE a       == handler.area
             flights == Military(handler.raw)
             entry   == [flights |-> flights, at |-> clock]
  <2>1. /\ cache' = [cache EXCEPT ![a] = entry]
        /\ answer' = [area |-> a, flights |-> flights, age |-> 0,
                      marked |-> FALSE, error |-> FALSE]
        /\ answered' = [answered EXCEPT ![a] = clock]
        /\ handler' = Idle /\ UNCHANGED <<clock, file>>
    BY <1>9 DEF Respond
  <2>2. a \in Areas
    BY <1>9, HandlerFields DEF Respond, IInv, Typed
  <2>3. entry \in Entries /\ entry # NoEntry
    BY <1>1 DEF Entries, Military, NoneIsNoEntry
  <2>4. Typed' /\ Dated'
    BY <1>1, <2>1, <2>2, <2>3 DEF IInv, Typed, Dated, Idle, Handlers
  <2> QED BY <2>1, <2>2, <2>3, <2>4 DEF IInv, Typed, KeptOrOld, Idle
<1>10. CASE Restart
  BY <1>10 DEF Restart, IInv, Typed, Dated, KeptOrOld, Idle, Handlers
<1>11. CASE Updater \/ UNCHANGED vars
  <2>1. UNCHANGED <<clock, cache, handler, answer, answered>> /\ file' \in Files
    BY <1>11
    DEF Updater, UpdaterSkips, DownloadFails, WriteList, CloseList, ClearMemo,
        vars, IInv, Typed, Files
  <2> QED BY <1>2, <2>1
<1> QED
  BY <1>3, <1>4, <1>5, <1>6, <1>7, <1>8, <1>9, <1>10, <1>11
  DEF Next, Handler

THEOREM Invariance ==
  ASSUME BoundsAreNatural, NoneIsNoEntry
  PROVE  Spec => []IInv
<1>1. Init => IInv
  BY DEF Init, IInv, Typed, Dated, KeptOrOld, Idle, Handlers
<1>2. IInv /\ [Next]_vars => IInv'
  BY NextIInv
<1> QED BY <1>1, <1>2, PTL DEF Spec

(* Whatever areas are asked for in whatever order, what the API hands out  *)
(* is as recent as its mark says.                                          *)
THEOREM HandedOutAsDated ==
  ASSUME BoundsAreNatural, NoneIsNoEntry
  PROVE  Spec => []NothingOutdated
<1>1. TTL \in Nat
  BY DEF BoundsAreNatural
<1>2. IInv => NothingOutdated
  BY <1>1 DEF IInv, Dated, NothingOutdated, Forwarded
<1> QED BY <1>2, Invariance, PTL

(* No call is spent on an area whose last answer can still be served.      *)
THEOREM CallsSpared ==
  ASSUME BoundsAreNatural, NoneIsNoEntry
  PROVE  Spec => SourceSpared
<1> DEFINE Spared ==
      \A a \in Areas :
        /\ handler.phase = "miss" /\ handler.area = a
        /\ handler'.phase = "asked"
        => answered[a] = NoEntry \/ clock - answered[a] > 2 * TTL
<1>1. IInv => Spared
  BY DEF IInv, KeptOrOld
<1>2. IInv /\ [Next]_vars => [Spared]_vars
  BY <1>1
<1> QED BY <1>2, Invariance, PTL DEF Spec, SourceSpared

-----------------------------------------------------------------------------
(***************************************************************************)
(* The types, of the trails and of the reader of the list too.  The age of *)
(* an answer is a number since no entry is from the future.                *)
(***************************************************************************)
NoneFromTheFuture ==
  \A a \in Areas : cache[a] # NoEntry => cache[a].at <= clock

TypedPast == TypeOK /\ NoneFromTheFuture

LEMMA NumbersOfBounds ==
  ASSUME BoundsAreNatural
  PROVE  /\ TTL \in Nat /\ Gap \in Nat /\ MaxAge \in Nat /\ MaxTime \in Nat
         /\ MaxTrail \in Nat /\ MaxTrail >= 1
  BY DEF BoundsAreNatural

LEMMA CachedFields ==
  ASSUME TypeOK, NEW a \in Areas, cache[a] # NoEntry
  PROVE  cache[a].at \in Nat /\ cache[a].flights \in SUBSET Hexes
  BY DEF TypeOK, Entries

(* A trail stays one of times, and no longer than it may be. *)
LEMMA TrailType ==
  ASSUME BoundsAreNatural, TypeOK, NEW h \in Hexes, NEW flights
  PROVE  Trail(h, flights) \in Seq(Nat) /\ Len(Trail(h, flights)) <= MaxTrail
<1> DEFINE longer == Append(trails[h], clock)
<1>1. trails[h] \in Seq(Nat) /\ Len(trails[h]) <= MaxTrail /\ clock \in Nat
  BY NumbersOfBounds DEF TypeOK
<1>2. /\ longer \in Seq(Nat) /\ Len(longer) = Len(trails[h]) + 1
      /\ longer # <<>>
  BY <1>1
<1>3. CASE h \in flights /\ Len(longer) > MaxTrail
  <2>1. Trail(h, flights) = Tail(longer)
    BY <1>3 DEF Trail
  <2>2. Tail(longer) \in Seq(Nat) /\ Len(Tail(longer)) = Len(longer) - 1
    BY <1>2
  <2> QED BY <1>1, <1>2, <2>1, <2>2, NumbersOfBounds
<1>4. CASE h \in flights /\ ~(Len(longer) > MaxTrail)
  <2>1. Trail(h, flights) = longer
    BY <1>4 DEF Trail
  <2> QED BY <1>1, <1>2, <1>4, <2>1, NumbersOfBounds
<1>5. CASE h \notin flights
  <2>1. Trail(h, flights) = <<>> \/ Trail(h, flights) = trails[h]
    BY <1>5 DEF Trail
  <2>2. <<>> \in Seq(Nat) /\ Len(<<>>) <= MaxTrail
    BY NumbersOfBounds
  <2>3. CASE Trail(h, flights) = <<>>
    BY <2>2, <2>3
  <2>4. CASE Trail(h, flights) = trails[h]
    BY <1>1, <2>4
  <2> QED BY <2>1, <2>3, <2>4
<1> QED BY <1>3, <1>4, <1>5

LEMMA InitTypedPast ==
  ASSUME BoundsAreNatural, Init PROVE TypedPast
<1>1. -Gap \in Int /\ 0 \in 0 .. MaxTime
  BY NumbersOfBounds
<1>2. <<>> \in Seq(Nat) /\ Len(<<>>) <= MaxTrail
  BY NumbersOfBounds
<1>3. Idle \in Handlers
  BY DEF Idle, Handlers
<1> QED
  BY <1>1, <1>2, <1>3 DEF Init, TypedPast, TypeOK, NoneFromTheFuture, Files

(* A request served from the cache, or that finds nothing there. *)
LEMMA CacheStepTyped ==
  ASSUME BoundsAreNatural, TypedPast, NEW a \in Areas,
         ServeCached(a) \/ Miss(a)
  PROVE  TypedPast'
<1> USE DEF TypedPast, TypeOK, NoneFromTheFuture
<1>1. clock \in Nat
  BY NumbersOfBounds
<1>2. CASE ServeCached(a)
  <2>1. Age(a) \in Nat /\ cache[a].flights \in SUBSET Hexes
    BY <1>1, <1>2, CachedFields DEF ServeCached, Age
  <2>2. FromCache(a, Age(a) > Fresh) \in Answers
    BY <2>1 DEF FromCache, Answers
  <2> QED BY <1>2, <2>2 DEF ServeCached
<1>3. CASE Miss(a)
  <2>1. [phase |-> "miss", area |-> a] \in Handlers
    BY DEF Handlers
  <2> QED BY <1>3, <2>1 DEF Miss
<1> QED BY <1>2, <1>3

(* The source is asked, and answers or does not. *)
LEMMA SourceStepTyped ==
  ASSUME BoundsAreNatural, TypedPast,
         AskSource \/ SourceAnswers \/ SourceRefuses \/ SourceFails
  PROVE  TypedPast'
<1> USE DEF TypedPast, TypeOK, NoneFromTheFuture
<1>1. ASSUME NEW raw \in [Hexes -> Reports], handler.phase = "asked"
      PROVE  Filter(handler.area, raw) \in Handlers
  BY <1>1, HandlerFields DEF Filter, Handlers
<1>2. Nothing \in [Hexes -> Reports]
  BY DEF Nothing, Reports
<1>3. CASE AskSource
  <2>1. handler' = [phase |-> "asked", area |-> handler.area]
        /\ handler.area \in Areas
    BY <1>3, HandlerFields DEF AskSource
  <2>2. handler' \in Handlers
    BY <2>1 DEF Handlers
  <2>3. lastCall' \in Int
    BY <1>3 DEF AskSource
  <2> QED BY <1>3, <2>2, <2>3 DEF AskSource
<1>4. CASE SourceAnswers
  BY <1>1, <1>4 DEF SourceAnswers
<1>5. CASE SourceRefuses
  BY <1>1, <1>2, <1>5 DEF SourceRefuses
<1>6. CASE SourceFails
  <2>1. handler.area \in Areas
    BY <1>6, HandlerFields DEF SourceFails
  <2>2. [area |-> handler.area, flights |-> {}, age |-> 0, marked |-> FALSE,
         error |-> TRUE] \in Answers
    BY <2>1 DEF Answers
  <2>3. Idle \in Handlers
    BY DEF Idle, Handlers
  <2>4. handler' \in Handlers /\ answer' \in Answers \cup {NoAnswer}
    BY <1>1, <1>2, <1>6, <2>2, <2>3 DEF SourceFails
  <2> QED BY <1>6, <2>4 DEF SourceFails
<1> QED BY <1>3, <1>4, <1>5, <1>6

(* The list is read and kept, and the answer goes out. *)
LEMMA FilterStepTyped ==
  ASSUME BoundsAreNatural, TypedPast, ReadList \/ KeepList \/ Respond
  PROVE  TypedPast'
<1> USE DEF TypedPast, TypeOK, NoneFromTheFuture
<1>1. clock \in Nat
  BY NumbersOfBounds
<1>2. handler.phase = "filter" =>
        handler.area \in Areas /\ handler.read \in Files \cup {NoList}
  BY DEF Handlers
<1>3. CASE ReadList
  BY <1>3, HandlerFields DEF ReadList
<1>4. CASE KeepList
  <2>1. memo' \in Files \cup {NoList}
    BY <1>2, <1>4 DEF KeepList
  <2> QED BY <1>4, <2>1, HandlerFields DEF KeepList
<1>5. CASE Respond
  <2> DEFINE a       == handler.area
             flights == Military(handler.raw)
  <2>1. a \in Areas /\ flights \in SUBSET Hexes
    BY <1>2, <1>5 DEF Respond, Military
  <2>2. /\ cache' = [cache EXCEPT ![a] = [flights |-> flights, at |-> clock]]
        /\ trails' = [h \in Hexes |-> Trail(h, flights)]
        /\ answer' = [area |-> a, flights |-> flights, age |-> 0,
                      marked |-> FALSE, error |-> FALSE]
        /\ answered' = [answered EXCEPT ![a] = clock]
        /\ handler' = Idle
        /\ UNCHANGED <<provider, clock, lastCall, file, memo, updater>>
    BY <1>5 DEF Respond
  <2> HIDE DEF a, flights
  <2>3. [flights |-> flights, at |-> clock] \in Entries
    BY <1>1, <2>1 DEF Entries
  <2>4. answer' \in Answers
    BY <2>1, <2>2 DEF Answers
  <2>5. Idle \in Handlers
    BY DEF Idle, Handlers
  <2>6. /\ DOMAIN trails' = Hexes
        /\ \A h \in Hexes : trails'[h] \in Seq(Nat) /\ Len(trails'[h]) <= MaxTrail
    BY <2>2, TrailType
  <2>7. cache' \in [Areas -> Entries \cup {NoEntry}] /\ NoneFromTheFuture'
    BY <1>1, <2>1, <2>2, <2>3
  <2> QED BY <1>1, <2>2, <2>4, <2>5, <2>6, <2>7
<1> QED BY <1>3, <1>4, <1>5

LEMMA NextTypedPast ==
  ASSUME BoundsAreNatural, TypedPast, [Next]_vars PROVE TypedPast'
<1>1. CASE Tick
  BY <1>1, NumbersOfBounds, CachedFields
  DEF Tick, TypedPast, TypeOK, NoneFromTheFuture
<1>2. CASE Handler
  BY <1>2, CacheStepTyped, SourceStepTyped, FilterStepTyped DEF Handler
<1>3. CASE Updater
  BY <1>3
  DEF Updater, UpdaterSkips, DownloadFails, WriteList, CloseList, ClearMemo,
      TypedPast, TypeOK, NoneFromTheFuture, Files
<1>4. CASE Restart
  <2>1. -Gap \in Int /\ Idle \in Handlers
    BY NumbersOfBounds DEF Idle, Handlers
  <2>2. <<>> \in Seq(Nat) /\ Len(<<>>) <= MaxTrail
    BY NumbersOfBounds
  <2> QED
    BY <1>4, <2>1, <2>2 DEF Restart, TypedPast, TypeOK, NoneFromTheFuture
<1>5. CASE UNCHANGED vars
  BY <1>5 DEF vars, TypedPast, TypeOK, NoneFromTheFuture
<1> QED BY <1>1, <1>2, <1>3, <1>4, <1>5 DEF Next

(* Every variable of the relay keeps its type: a trail is never longer     *)
(* than its bound, and no answer is younger than nothing.                  *)
THEOREM TypeCorrect == ASSUME BoundsAreNatural PROVE Spec => []TypeOK
<1>1. Init => TypedPast
  BY InitTypedPast
<1>2. TypedPast /\ [Next]_vars => TypedPast'
  BY NextTypedPast
<1>3. TypedPast => TypeOK
  BY DEF TypedPast
<1> QED BY <1>1, <1>2, <1>3, PTL DEF Spec
=============================================================================
