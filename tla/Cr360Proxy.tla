----------------------------- MODULE Cr360Proxy -----------------------------
(***************************************************************************)
(* The proxy to Conflict Radar 360 (backend/api/routes/cr360.py): its      *)
(* endpoints are synchronous functions, so the server runs each request in *)
(* a thread of a pool, and all of them share _cache, whose lock is held    *)
(* for the lookup and for the insertion but not for the call in between.   *)
(***************************************************************************)
EXTENDS Naturals

CONSTANTS
  Threads,    \* the threads of the pool
  Urls,       \* the upstream resources, each with its key in _cache
  TTL,        \* CR360_CACHE_TTL_SECONDS
  Patience,   \* how long a call of upstream lasts, at most
  MaxTime,    \* the clock stops there (a bound)
  NoEntry     \* _cache has no such key

BoundsAreNatural == {TTL, Patience, MaxTime} \subseteq Nat

VARIABLES
  clock,      \* time.monotonic()
  cache,      \* _cache: a payload and since when it is kept
  thread,     \* where each request is
  stored      \* when each url was last stored (a history)

vars == <<clock, cache, thread, stored>>

(* A payload is known by the time upstream produced it.                    *)
Entries == [at: Nat, payload: Nat]

Idle == [phase |-> "idle"]

(* now: the time read before the lookup.  began: when upstream was called. *)
(* cached: the payload answered comes from _cache.                         *)
Requests ==
  [phase: {"idle"}]
    \cup [phase: {"lookup"}, url: Urls, now: Nat]
    \cup [phase: {"fetch"}, url: Urls, now: Nat, began: Nat]
    \cup [phase: {"served"}, url: Urls, now: Nat, payload: Nat,
          cached: BOOLEAN]
    \cup [phase: {"error"}, url: Urls]

TypeOK ==
  /\ clock \in 0 .. MaxTime
  /\ cache \in [Urls -> Entries \cup {NoEntry}]
  /\ thread \in [Threads -> Requests]
  /\ stored \in [Urls -> Nat \cup {NoEntry}]

Init ==
  /\ clock = 0
  /\ cache = [u \in Urls |-> NoEntry]
  /\ thread = [t \in Threads |-> Idle]
  /\ stored = [u \in Urls |-> NoEntry]

(* CR360_UPSTREAM_TIMEOUT_SECONDS bounds each wait of a call; that the     *)
(* whole call is bounded is an assumption about upstream.                  *)
Tick ==
  /\ clock < MaxTime
  /\ \A t \in Threads :
       thread[t].phase = "fetch" => clock < thread[t].began + Patience
  /\ clock' = clock + 1
  /\ UNCHANGED <<cache, thread, stored>>

-----------------------------------------------------------------------------
(* A request of an endpoint: _fetch_cached reads the clock and goes for    *)
(* the lock.                                                               *)
Begin(t, u) ==
  /\ thread[t] = Idle
  /\ thread' = [thread EXCEPT ![t] = [phase |-> "lookup", url |-> u, now |-> clock]]
  /\ UNCHANGED <<clock, cache, stored>>

Kept(request) ==
  /\ cache[request.url] # NoEntry
  /\ request.now < cache[request.url].at + TTL

Served(request, payload, cached) ==
  [phase |-> "served", url |-> request.url, now |-> request.now,
   payload |-> payload, cached |-> cached]

HitAndKeep(t) ==    \* mutant of Hit: what is asked for is kept for longer
  LET request == thread[t]
  IN  /\ request.phase = "lookup"
      /\ Kept(request)
      /\ thread' = [thread EXCEPT ![t] =
                      Served(request, cache[request.url].payload, TRUE)]
      /\ cache' = [cache EXCEPT ![request.url].at = clock]
      /\ UNCHANGED <<clock, stored>>

Hit(t) ==
  LET request == thread[t]
  IN  /\ request.phase = "lookup"
      /\ Kept(request)
      /\ thread' = [thread EXCEPT ![t] =
                      Served(request, cache[request.url].payload, TRUE)]
      /\ UNCHANGED <<clock, cache, stored>>

Call(t) ==
  LET request == thread[t]
  IN  /\ request.phase = "lookup"
      /\ ~Kept(request)
      /\ thread' = [thread EXCEPT ![t] =
                      [phase |-> "fetch", url |-> request.url,
                       now |-> request.now, began |-> clock]]
      /\ UNCHANGED <<clock, cache, stored>>

StoreBackdated(t) ==    \* mutant of Store: the time read before the lookup
  LET request == thread[t]
  IN  /\ request.phase = "fetch"
      /\ \E payload \in request.began .. clock :
           /\ cache' = [cache EXCEPT ![request.url] =
                          [at |-> request.now, payload |-> payload]]
           /\ thread' = [thread EXCEPT ![t] = Served(request, payload, FALSE)]
      /\ stored' = [stored EXCEPT ![request.url] = clock]
      /\ UNCHANGED clock

(* The answer of upstream, which it produced at some time since it was     *)
(* called, is stored with the time of the insertion and returned.          *)
Store(t) ==
  LET request == thread[t]
  IN  /\ request.phase = "fetch"
      /\ \E payload \in request.began .. clock :
           /\ cache' = [cache EXCEPT ![request.url] =
                          [at |-> clock, payload |-> payload]]
           /\ thread' = [thread EXCEPT ![t] = Served(request, payload, FALSE)]
      /\ stored' = [stored EXCEPT ![request.url] = clock]
      /\ UNCHANGED clock

(* A timeout, an HTTP error or no JSON: 502, and nothing is stored.        *)
Fail(t) ==
  /\ thread[t].phase = "fetch"
  /\ thread' = [thread EXCEPT ![t] = [phase |-> "error", url |-> thread[t].url]]
  /\ UNCHANGED <<clock, cache, stored>>

(* The answer is sent and the thread is free.                              *)
Finish(t) ==
  /\ thread[t].phase \in {"served", "error"}
  /\ thread' = [thread EXCEPT ![t] = Idle]
  /\ UNCHANGED <<clock, cache, stored>>

Next ==
  \/ Tick
  \/ \E t \in Threads, u \in Urls : Begin(t, u)
  \/ \E t \in Threads : Hit(t) \/ Call(t) \/ Store(t) \/ Fail(t) \/ Finish(t)

Spec == Init /\ [][Next]_vars

-----------------------------------------------------------------------------
(***************************************************************************)
(* Properties.                                                             *)
(***************************************************************************)

(* What the cache answers was produced by upstream less than the TTL and   *)
(* one call's timeout before the request came: two threads may store their *)
(* answers in the other order, which dates an older payload anew, but by   *)
(* no more than one call can last.                                         *)
PayloadRecent ==
  \A t \in Threads :
    LET request == thread[t]
    IN  request.phase = "served" /\ request.cached =>
          request.now < request.payload + TTL + Patience

(* A request that came after an answer was stored, and less than the TTL   *)
(* after it, makes no call: only requests that were under way already do.  *)
(* The cache is there to respect upstream's limit of 100 requests.         *)
WarmNoCall ==
  [][\A t \in Threads :
       /\ thread[t].phase = "lookup"
       /\ thread'[t].phase = "fetch"
       /\ stored[thread[t].url] # NoEntry
       => \/ thread[t].now <= stored[thread[t].url]
          \/ thread[t].now >= stored[thread[t].url] + TTL]_vars
=============================================================================
