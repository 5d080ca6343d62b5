-------------------------- MODULE Cr360ProxyProofs --------------------------
(***************************************************************************)
(* Proofs about Cr360Proxy, for any threads, resources, times to live and  *)
(* upstream timeouts.                                                      *)
(***************************************************************************)
EXTENDS Cr360Proxy, TLAPS

NoneIsNoEntry == NoEntry \notin Entries

(* A request on its way, or with its answer, is not from the future, and   *)
(* a call lasts no longer than upstream's timeout.                         *)
Timely(t) ==
  LET request == thread[t]
  IN  /\ request.phase = "lookup" => request.now <= clock
      /\ request.phase = "fetch" =>
           /\ request.began <= clock
           /\ clock <= request.began + Patience
      /\ request.phase = "served" /\ request.cached =>
           request.now < request.payload + TTL + Patience

(* What is kept is what was stored last, and was stored while the call     *)
(* that brought it could last.                                             *)
KeptAsStored(u) ==
  /\ cache[u] # NoEntry => cache[u].at <= cache[u].payload + Patience
  /\ stored[u] # NoEntry => cache[u] # NoEntry /\ cache[u].at = stored[u]

IInv ==
  /\ TypeOK
  /\ \A t \in Threads : Timely(t)
  /\ \A u \in Urls : KeptAsStored(u)

(* A step of a thread changes that thread only, and the entry of one url.  *)
ThreadStep(t) ==
  \/ \E u \in Urls : Begin(t, u)
  \/ Hit(t) \/ Call(t) \/ Store(t) \/ Fail(t) \/ Finish(t)

LEMMA RequestFields ==
  ASSUME NEW request \in Requests
  PROVE  /\ request.phase = "lookup" => request.url \in Urls /\ request.now \in Nat
         /\ request.phase = "fetch" =>
              /\ request.url \in Urls
              /\ request.now \in Nat /\ request.began \in Nat
         /\ request.phase = "served" =>
              /\ request.url \in Urls /\ request.cached \in BOOLEAN
              /\ request.now \in Nat /\ request.payload \in Nat
         /\ request.phase = "error" => request.url \in Urls
  BY DEF Requests

LEMMA EntryFields ==
  ASSUME NEW entry \in Entries
  PROVE  entry.at \in Nat /\ entry.payload \in Nat
  BY DEF Entries

LEMMA NextIInv ==
  ASSUME BoundsAreNatural, NoneIsNoEntry, IInv, [Next]_vars
  PROVE  IInv'
<1> USE DEF BoundsAreNatural
<1>1. /\ clock \in Nat /\ {TTL, Patience, MaxTime} \subseteq Nat
      /\ \A t \in Threads : thread[t] \in Requests
      /\ \A u \in Urls : cache[u] # NoEntry => cache[u] \in Entries
  BY DEF IInv, TypeOK
<1>2. CASE Tick
  <2>1. TypeOK'
    BY <1>1, <1>2 DEF Tick, IInv, TypeOK
  <2>2. ASSUME NEW t \in Threads PROVE Timely(t)'
    <3>1. Timely(t) /\ thread'[t] = thread[t] /\ clock' = clock + 1
      BY <1>2 DEF Tick, IInv
    <3>2. thread[t].phase = "fetch" => clock < thread[t].began + Patience
      BY <1>2 DEF Tick
    <3> QED BY <1>1, <3>1, <3>2, RequestFields DEF Timely
  <2>3. ASSUME NEW u \in Urls PROVE KeptAsStored(u)'
    BY <1>2 DEF Tick, IInv, KeptAsStored
  <2> QED BY <2>1, <2>2, <2>3 DEF IInv
<1>3. ASSUME NEW t \in Threads, ThreadStep(t) PROVE IInv'
  <2>1. clock' = clock /\ thread[t] \in Requests
    BY <1>1, <1>3 DEF ThreadStep, Begin, Hit, Call, Store, Fail, Finish
  <2>2. SUFFICES /\ thread' = [thread EXCEPT ![t] = thread'[t]]
                 /\ thread'[t] \in Requests
                 /\ Timely(t)'
                 /\ cache' \in [Urls -> Entries \cup {NoEntry}]
                 /\ stored' \in [Urls -> Nat \cup {NoEntry}]
                 /\ \A u \in Urls : KeptAsStored(u)'
    <3>1. TypeOK'
      BY <2>1, <2>2 DEF IInv, TypeOK
    <3>2. ASSUME NEW o \in Threads \ {t} PROVE Timely(o)'
      <4>1. thread'[o] = thread[o] /\ Timely(o)
        BY <2>2 DEF IInv, TypeOK
      <4> QED BY <2>1, <4>1 DEF Timely
    <3> QED BY <2>2, <3>1, <3>2 DEF IInv
  <2>3. CASE UNCHANGED <<cache, stored>> /\ ~Store(t)
    <3>1. /\ cache' \in [Urls -> Entries \cup {NoEntry}]
          /\ stored' \in [Urls -> Nat \cup {NoEntry}]
          /\ \A u \in Urls : KeptAsStored(u)'
      BY <2>3 DEF IInv, TypeOK, KeptAsStored
    <3>2. CASE \E u \in Urls : Begin(t, u)
      <4>1. PICK u \in Urls : Begin(t, u)
        BY <3>2
      <4>2. thread'[t] = [phase |-> "lookup", url |-> u, now |-> clock]
        BY <4>1 DEF Begin, IInv, TypeOK
      <4>3. thread'[t] \in Requests
        BY <1>1, <4>2 DEF Requests
      <4>4. Timely(t)'
        BY <1>1, <2>1, <4>2 DEF Timely
      <4> QED BY <3>1, <4>1, <4>3, <4>4 DEF Begin, IInv, TypeOK
    <3>3. CASE Hit(t)
      <4> DEFINE u == thread[t].url
      <4>1. u \in Urls /\ thread[t].now \in Nat
        BY <2>1, <3>3, RequestFields DEF Hit
      <4>2. /\ cache[u] # NoEntry /\ thread[t].now < cache[u].at + TTL
            /\ cache[u] \in Entries
        BY <1>1, <3>3, <4>1 DEF Hit, Kept
      <4>3. cache[u].at <= cache[u].payload + Patience
        BY <4>1, <4>2 DEF IInv, KeptAsStored
      <4>4. thread[t].now < cache[u].payload + TTL + Patience
        BY <1>1, <4>1, <4>2, <4>3, EntryFields
      <4>5. thread'[t] = [phase |-> "served", url |-> u, now |-> thread[t].now,
                          payload |-> cache[u].payload, cached |-> TRUE]
        BY <3>3 DEF Hit, Served, IInv, TypeOK
      <4>6. thread'[t] \in Requests
        BY <4>1, <4>2, <4>5, EntryFields DEF Requests
      <4>7. Timely(t)'
        BY <4>4, <4>5 DEF Timely
      <4> QED BY <3>1, <3>3, <4>6, <4>7 DEF Hit, IInv, TypeOK
    <3>4. CASE Call(t)
      <4>1. thread[t].url \in Urls /\ thread[t].now \in Nat
        BY <2>1, <3>4, RequestFields DEF Call
      <4>2. thread'[t] = [phase |-> "fetch", url |-> thread[t].url,
                          now |-> thread[t].now, began |-> clock]
        BY <3>4 DEF Call, IInv, TypeOK
      <4>3. thread'[t] \in Requests
        BY <1>1, <4>1, <4>2 DEF Requests
      <4>4. Timely(t)'
        BY <1>1, <2>1, <4>2 DEF Timely
      <4> QED BY <3>1, <3>4, <4>3, <4>4 DEF Call, IInv, TypeOK
    <3>5. CASE Fail(t)
      BY <2>1, <3>1, <3>5, RequestFields DEF Fail, Timely, IInv, TypeOK, Requests
    <3>6. CASE Finish(t)
      BY <2>1, <3>1, <3>6 DEF Finish, Idle, Timely, IInv, TypeOK, Requests
    <3> QED BY <1>3, <2>3, <3>2, <3>3, <3>4, <3>5, <3>6 DEF ThreadStep
  <2>4. CASE Store(t)
    <3> DEFINE u == thread[t].url
    <3>1. PICK payload \in thread[t].began .. clock :
            /\ cache' = [cache EXCEPT ![u] = [at |-> clock, payload |-> payload]]
            /\ thread' = [thread EXCEPT ![t] = Served(thread[t], payload, FALSE)]
      BY <2>4 DEF Store
    <3>2. /\ u \in Urls /\ thread[t].now \in Nat /\ thread[t].began \in Nat
          /\ clock <= thread[t].began + Patience
      BY <2>1, <2>4, RequestFields DEF Store, IInv, Timely
    <3>3. /\ payload \in Nat /\ clock <= payload + Patience
          /\ [at |-> clock, payload |-> payload] \in Entries
      BY <1>1, <3>2 DEF Entries
    <3>4. /\ stored' = [stored EXCEPT ![u] = clock]
          /\ [at |-> clock, payload |-> payload] # NoEntry
      BY <2>4, <3>3 DEF Store, NoneIsNoEntry
    <3>5. /\ cache' \in [Urls -> Entries \cup {NoEntry}]
          /\ stored' \in [Urls -> Nat \cup {NoEntry}]
      BY <1>1, <3>1, <3>2, <3>3, <3>4 DEF IInv, TypeOK
    <3>6. ASSUME NEW v \in Urls PROVE KeptAsStored(v)'
      BY <3>1, <3>2, <3>3, <3>4 DEF IInv, TypeOK, KeptAsStored
    <3>7. thread'[t] = [phase |-> "served", url |-> u, now |-> thread[t].now,
                        payload |-> payload, cached |-> FALSE]
      BY <3>1 DEF Served, IInv, TypeOK
    <3>8. thread'[t] \in Requests
      BY <3>2, <3>3, <3>7 DEF Requests
    <3>9. Timely(t)'
      BY <3>7 DEF Timely
    <3> QED BY <3>1, <3>5, <3>6, <3>8, <3>9 DEF IInv, TypeOK
  <2> QED
    BY <1>3, <2>3, <2>4 DEF ThreadStep, Begin, Hit, Call, Fail, Finish
<1>4. CASE UNCHANGED vars
  BY <1>4 DEF vars, IInv, TypeOK, Timely, KeptAsStored
<1> QED BY <1>2, <1>3, <1>4 DEF Next, ThreadStep

LEMMA InitIInv ==
  ASSUME BoundsAreNatural, Init PROVE IInv
  BY DEF BoundsAreNatural, Init, IInv, TypeOK, Timely, KeptAsStored, Idle,
         Requests, Entries

THEOREM Invariance ==
  ASSUME BoundsAreNatural, NoneIsNoEntry
  PROVE  Spec => []IInv
<1>1. Init => IInv
  BY InitIInv
<1>2. IInv /\ [Next]_vars => IInv'
  BY NextIInv
<1> QED BY <1>1, <1>2, PTL DEF Spec

(* Every variable of the proxy keeps its type, whatever the threads do.    *)
THEOREM TypeCorrect ==
  ASSUME BoundsAreNatural, NoneIsNoEntry
  PROVE  Spec => []TypeOK
<1>1. IInv => TypeOK
  BY DEF IInv
<1> QED BY <1>1, Invariance, PTL

(* Whatever the threads, the calls and their order: what the cache answers *)
(* is younger than the time to live and one call together.                 *)
THEOREM CachedIsRecent ==
  ASSUME BoundsAreNatural, NoneIsNoEntry
  PROVE  Spec => []PayloadRecent
<1>1. IInv => PayloadRecent
  BY DEF IInv, Timely, PayloadRecent
<1> QED BY <1>1, Invariance, PTL

(* Only a request that was under way when an answer was stored calls       *)
(* upstream again within the time to live.                                 *)
THEOREM WarmCacheCallsNobody ==
  ASSUME BoundsAreNatural, NoneIsNoEntry
  PROVE  Spec => WarmNoCall
<1> DEFINE Spared ==
      \A t \in Threads :
        /\ thread[t].phase = "lookup"
        /\ thread'[t].phase = "fetch"
        /\ stored[thread[t].url] # NoEntry
        => \/ thread[t].now <= stored[thread[t].url]
           \/ thread[t].now >= stored[thread[t].url] + TTL
<1>1. ASSUME IInv, Next PROVE Spared
  <2> SUFFICES ASSUME NEW t \in Threads,
                      thread[t].phase = "lookup", thread'[t].phase = "fetch",
                      stored[thread[t].url] # NoEntry
               PROVE  thread[t].now >= stored[thread[t].url] + TTL
    OBVIOUS
  <2>1. Call(t)
    <3>1. ~Tick
      BY DEF Tick
    <3>2. ASSUME NEW o \in Threads \ {t} PROVE ~ThreadStep(o)
      BY <1>1, <3>2
      DEF ThreadStep, Begin, Hit, Call, Store, Fail, Finish, IInv, TypeOK
    <3>3. ASSUME NEW u \in Urls PROVE ~Begin(t, u)
      BY DEF Begin, Idle
    <3>4. ~Hit(t)
      BY <1>1 DEF Hit, Served, IInv, TypeOK
    <3> QED
      BY <1>1, <3>1, <3>2, <3>3, <3>4
      DEF Next, ThreadStep, Store, Fail, Finish
  <2>2. thread[t].url \in Urls /\ thread[t].now \in Nat
    BY <1>1, RequestFields DEF IInv, TypeOK
  <2>3. /\ cache[thread[t].url] # NoEntry
        /\ cache[thread[t].url].at = stored[thread[t].url]
    BY <1>1, <2>2 DEF IInv, KeptAsStored
  <2>4. cache[thread[t].url].at \in Nat
    BY <1>1, <2>2, <2>3, EntryFields DEF IInv, TypeOK
  <2> QED
    BY <2>1, <2>2, <2>3, <2>4 DEF Call, Kept, BoundsAreNatural
<1>2. IInv /\ [Next]_vars => [Spared]_vars
  BY <1>1
<1> QED BY <1>2, Invariance, PTL DEF Spec, WarmNoCall
=============================================================================
