-------------------------- MODULE IncidentsProofs --------------------------
(***************************************************************************)
(* Proofs about Incidents, for every value of its constants.               *)
(***************************************************************************)
EXTENDS Incidents, FiniteSetTheorems, WellFoundedInduction, TLAPS

(* What a run works through exists, and what it is about to write it has   *)
(* loaded.                                                                 *)
JobHolds(p) ==
  /\ \A i \in job[p].work : rows[i] # NoRow
  /\ job[p].phase \in {"assign", "to_stale", "to_open"} =>
       /\ job[p].target \in job[p].work
       /\ cache[p][job[p].target] # NoRow

(* A request that is about to write has loaded its incidents. *)
OpHolds(o) ==
  op[o].phase = "apply" =>
    \A i \in {op[o].inc, op[o].target} : i \in Ids /\ cache[o][i] # NoRow

(* Incidents are not deleted, so what a session has loaded exists. *)
CacheExists ==
  \A s \in Sessions, i \in Ids : cache[s][i] # NoRow => rows[i] # NoRow

(* The inductive invariant: a commit keeps the types only if it writes a   *)
(* row that exists and was loaded.                                         *)
IInv ==
  /\ TypeOK
  /\ CacheExists
  /\ \A p \in Jobs : JobHolds(p)
  /\ \A o \in Operators : OpHolds(o)

LEMMA InitIInv == Init => IInv
  BY BoundAssumption
  DEF Init, IInv, TypeOK, CacheExists, JobHolds, OpHolds, Expired, IdleJob,
      JobState, IdleOp, OpState, AllKinds, Status, ClusterPhase, AgingPhase,
      AuditRow

(* No name is both a job's and an operator's. *)
LEMMA TwoKinds == Jobs \cap Operators = {}
  BY ActorAssumption

-----------------------------------------------------------------------------
(***************************************************************************)
(* Sessions.                                                               *)
(***************************************************************************)

(* An UPDATE of a row by a row is a row. *)
LEMMA UpdatedType ==
  ASSUME NEW row \in Row, NEW loaded \in Row, NEW new \in Row
  PROVE  Updated(row, loaded, new) \in Row
  BY DEF Updated, Row

(* Reading rows adds them to what the session has, and nothing else. *)
LEMMA LoadKeeps ==
  ASSUME TypeOK, CacheExists, NEW s \in Sessions, NEW S \in SUBSET Ids,
         Load(s, S), rows' = rows
  PROVE  /\ cache' \in [Sessions -> [Ids -> Row \cup {NoRow}]]
         /\ CacheExists'
         /\ \A q \in Sessions : q # s => cache'[q] = cache[q]
         /\ \A i \in S : rows[i] # NoRow => cache'[s][i] # NoRow
         /\ \A i \in Ids : cache[s][i] # NoRow => cache'[s][i] # NoRow
         /\ cache'[s] = Loaded(s, S)
<1>1. Loaded(s, S) \in [Ids -> Row \cup {NoRow}]
  BY DEF Loaded, TypeOK
<1>2. cache' = [cache EXCEPT ![s] = Loaded(s, S)]
  BY DEF Load
<1>3. /\ cache' \in [Sessions -> [Ids -> Row \cup {NoRow}]]
      /\ cache'[s] = Loaded(s, S)
      /\ \A q \in Sessions : q # s => cache'[q] = cache[q]
  BY <1>1, <1>2 DEF TypeOK
<1>4. \A i \in Ids : Loaded(s, S)[i] # NoRow => rows[i] # NoRow
  BY DEF Loaded, CacheExists
<1>5. CacheExists'
  BY <1>3, <1>4 DEF CacheExists
<1>6. /\ \A i \in S : rows[i] # NoRow => Loaded(s, S)[i] # NoRow
      /\ \A i \in Ids : cache[s][i] # NoRow => Loaded(s, S)[i] # NoRow
  BY DEF Loaded
<1> QED BY <1>3, <1>5, <1>6

(* A session that ends, or whose rows expire, has nothing loaded. *)
LEMMA ExpireKeeps ==
  ASSUME TypeOK, CacheExists, NEW s \in Sessions,
         cache' = [cache EXCEPT ![s] = Expired],
         \A i \in Ids : rows[i] # NoRow => rows'[i] # NoRow
  PROVE  /\ cache' \in [Sessions -> [Ids -> Row \cup {NoRow}]]
         /\ CacheExists'
         /\ \A q \in Sessions : q # s => cache'[q] = cache[q]
  BY DEF TypeOK, CacheExists, Expired

(* A commit of a loaded row writes that row only, and expires the session. *)
LEMMA CommitKeeps ==
  ASSUME TypeOK, CacheExists, NEW s \in Sessions, NEW i \in Ids,
         NEW new \in Row, cache[s][i] # NoRow, Commit(s, i, new)
  PROVE  /\ rows' \in [Ids -> Row \cup {NoRow}]
         /\ \A j \in Ids : rows'[j] # NoRow <=> rows[j] # NoRow
         /\ \A j \in Ids : j # i => rows'[j] = rows[j]
         /\ cache' \in [Sessions -> [Ids -> Row \cup {NoRow}]]
         /\ CacheExists'
         /\ \A q \in Sessions : q # s => cache'[q] = cache[q]
<1>1. rows[i] \in Row /\ cache[s][i] \in Row
  BY DEF TypeOK, CacheExists
<1>2. Updated(rows[i], cache[s][i], new) \in Row
  BY <1>1, UpdatedType
<1>3. /\ rows' \in [Ids -> Row \cup {NoRow}]
      /\ rows'[i] # NoRow
      /\ \A j \in Ids : j # i => rows'[j] = rows[j]
  BY <1>2, NoRowAssumption DEF Commit, TypeOK
<1>4. \A j \in Ids : rows'[j] # NoRow <=> rows[j] # NoRow
  BY <1>1, <1>3, NoRowAssumption
<1>5. cache' = [cache EXCEPT ![s] = Expired]
  BY DEF Commit
<1> QED BY <1>3, <1>4, <1>5, ExpireKeeps

-----------------------------------------------------------------------------
(***************************************************************************)
(* A step of one session leaves what the others hold.                      *)
(***************************************************************************)

(* What the step of session s may do to the others: nothing, and rows do   *)
(* not disappear.                                                          *)
OthersUntouched(s) ==
  /\ \A i \in Ids : rows[i] # NoRow => rows'[i] # NoRow
  /\ \A q \in Jobs : q # s => job'[q] = job[q] /\ cache'[q] = cache[q]
  /\ \A q \in Operators : q # s => op'[q] = op[q] /\ cache'[q] = cache[q]

LEMMA JobStepHolds ==
  ASSUME IInv, NEW p \in Jobs, OthersUntouched(p), JobHolds(p)'
  PROVE  /\ \A q \in Jobs : JobHolds(q)'
         /\ \A o \in Operators : OpHolds(o)'
<1>1. ASSUME NEW q \in Jobs, q # p PROVE JobHolds(q)'
  <2>1. job[q] \in JobState
    BY DEF IInv, TypeOK
  <2> QED BY <1>1, <2>1 DEF IInv, OthersUntouched, JobHolds, JobState
<1>2. ASSUME NEW o \in Operators PROVE OpHolds(o)'
  <2>1. o # p
    BY TwoKinds
  <2> QED BY <2>1 DEF IInv, OthersUntouched, OpHolds
<1> QED BY <1>1, <1>2

LEMMA OpStepHolds ==
  ASSUME IInv, NEW o \in Operators, OthersUntouched(o), OpHolds(o)'
  PROVE  /\ \A p \in Jobs : JobHolds(p)'
         /\ \A q \in Operators : OpHolds(q)'
<1>1. ASSUME NEW p \in Jobs PROVE JobHolds(p)'
  <2>1. p # o
    BY TwoKinds
  <2>2. job[p] \in JobState
    BY DEF IInv, TypeOK
  <2> QED BY <2>1, <2>2 DEF IInv, OthersUntouched, JobHolds, JobState
<1>2. ASSUME NEW q \in Operators, q # o PROVE OpHolds(q)'
  BY <1>2 DEF IInv, OthersUntouched, OpHolds
<1> QED BY <1>1, <1>2

(* The states of an idle run and of one that begins to age. *)
LEMMA IdleType ==
  /\ IdleJob \in JobState
  /\ \A p \in Jobs : AfterClustering(p) \in JobState
  /\ \A p \in Jobs : AfterClustering(p).work = {}
  /\ \A p \in Jobs : AfterClustering(p).phase \in {"idle", "age"}
  BY DEF IdleJob, JobState, AfterClustering, ClusterPhase, AgingPhase

-----------------------------------------------------------------------------
(***************************************************************************)
(* Time, ingestion, the beginning and the end of runs.                     *)
(***************************************************************************)

LEMMA TickIInv == ASSUME IInv, Tick PROVE IInv'
  BY DEF IInv, Tick, TypeOK, CacheExists, JobHolds, OpHolds, tables, counts

LEMMA IngestIInv ==
  ASSUME IInv, NEW e \in Events, Ingest(e) PROVE IInv'
  BY DEF IInv, Ingest, TypeOK, CacheExists, JobHolds, OpHolds, counts

LEMMA StartClusteringIInv ==
  ASSUME IInv, NEW p \in Jobs, StartClustering(p) PROVE IInv'
<1> DEFINE recent == {e \in events : EventTime[e] >= clock - Window}
           begun  == [IdleJob EXCEPT !.phase = "fetch", !.todo = recent,
                                     !.now = clock]
<1>1. /\ job' = [job EXCEPT ![p] = IF recent = {} THEN AfterClustering(p)
                                   ELSE begun]
      /\ runs' = runs + 1
      /\ UNCHANGED <<clock, tables, op, cache, requests, applied, void,
                     faults>>
  BY DEF StartClustering
<1>2. begun \in JobState /\ begun.work = {} /\ begun.phase = "fetch"
  BY DEF IInv, TypeOK, IdleJob, JobState, ClusterPhase
<1>3. /\ job' \in [Jobs -> JobState]
      /\ job'[p].work = {}
      /\ job'[p].phase \in {"idle", "age", "fetch"}
      /\ \A q \in Jobs : q # p => job'[q] = job[q]
  BY <1>1, <1>2, IdleType DEF IInv, TypeOK
<1>4. TypeOK'
  BY <1>1, <1>3 DEF IInv, TypeOK, tables
<1>5. CacheExists'
  BY <1>1 DEF IInv, CacheExists, tables
<1>6. JobHolds(p)'
  BY <1>3 DEF JobHolds
<1>7. OthersUntouched(p)
  BY <1>1, <1>3 DEF OthersUntouched, tables
<1> QED BY <1>4, <1>5, <1>6, <1>7, JobStepHolds DEF IInv

LEMMA StartLifecycleIInv ==
  ASSUME IInv, NEW p \in Jobs, StartLifecycle(p) PROVE IInv'
<1>1. /\ job' = [job EXCEPT ![p].phase = "age"]
      /\ runs' = runs + 1
      /\ UNCHANGED <<clock, tables, op, cache, requests, applied, void,
                     faults>>
  BY DEF StartLifecycle
<1>2. /\ job' \in [Jobs -> JobState]
      /\ job'[p].work = job[p].work /\ job'[p].phase = "age"
      /\ \A q \in Jobs : q # p => job'[q] = job[q]
  BY <1>1 DEF IInv, TypeOK, JobState, AgingPhase
<1>3. TypeOK' /\ CacheExists'
  BY <1>1, <1>2 DEF IInv, TypeOK, CacheExists, tables
<1>4. JobHolds(p)'
  BY <1>1, <1>2 DEF IInv, JobHolds, tables
<1>5. OthersUntouched(p)
  BY <1>1, <1>2 DEF OthersUntouched, tables
<1> QED BY <1>3, <1>4, <1>5, JobStepHolds DEF IInv

(* A run that ends, by itself or by a failure. *)
LEMMA RunEnds ==
  ASSUME IInv, NEW p \in Jobs,
         job' = [job EXCEPT ![p] = IdleJob],
         cache' = [cache EXCEPT ![p] = Expired],
         faults' \in Nat,
         UNCHANGED <<clock, tables, op, runs, requests, applied, void>>
  PROVE  IInv'
<1>1. p \in Sessions
  BY DEF Sessions
<1>2. /\ cache' \in [Sessions -> [Ids -> Row \cup {NoRow}]]
      /\ CacheExists'
      /\ \A q \in Sessions : q # p => cache'[q] = cache[q]
  BY <1>1, ExpireKeeps DEF IInv, tables
<1>3. /\ job' \in [Jobs -> JobState]
      /\ job'[p].work = {} /\ job'[p].phase = "idle"
      /\ \A q \in Jobs : q # p => job'[q] = job[q]
  BY IdleType DEF IInv, TypeOK, IdleJob
<1>4. TypeOK'
  BY <1>2, <1>3 DEF IInv, TypeOK, tables
<1>5. JobHolds(p)'
  BY <1>3 DEF JobHolds
<1>6. OthersUntouched(p)
  BY <1>2, <1>3 DEF OthersUntouched, Sessions, tables
<1> QED BY <1>2, <1>4, <1>5, <1>6, JobStepHolds DEF IInv

LEMMA RunFailsIInv ==
  ASSUME IInv, NEW p \in Jobs, RunFails(p) PROVE IInv'
<1>1. faults' \in Nat
  BY DEF RunFails, IInv, TypeOK
<1> QED BY <1>1, RunEnds DEF RunFails

LEMMA EndLifecycleIInv ==
  ASSUME IInv, NEW p \in Jobs, EndLifecycle(p) PROVE IInv'
  BY RunEnds DEF EndLifecycle, IInv, TypeOK, counts

LEMMA CrashIInv == ASSUME IInv, Crash PROVE IInv'
<1>1. TypeOK'
  BY IdleType DEF IInv, TypeOK, Crash, Expired, IdleOp, OpState, AllKinds,
                  Status, tables
<1>2. CacheExists' /\ \A p \in Jobs : JobHolds(p)'
  BY DEF Crash, CacheExists, JobHolds, Expired, IdleJob
<1>3. \A o \in Operators : OpHolds(o)'
  BY DEF Crash, OpHolds, IdleOp
<1> QED BY <1>1, <1>2, <1>3 DEF IInv

-----------------------------------------------------------------------------
(***************************************************************************)
(* The steps of a run.                                                     *)
(***************************************************************************)

(* What a step of run p changes of the runs is the state of p. *)
RunMoves(p) ==
  /\ job' \in [Jobs -> JobState]
  /\ \A q \in Jobs : q # p => job'[q] = job[q]

(* A run that goes to state st. *)
LEMMA RunMovesTo ==
  ASSUME IInv, NEW p \in Jobs, NEW st \in JobState,
         job' = [job EXCEPT ![p] = st]
  PROVE  RunMoves(p) /\ job'[p] = st
  BY DEF IInv, TypeOK, RunMoves

(* A step that reads: rows of S are loaded, no table changes. *)
LEMMA ReadStep ==
  ASSUME IInv, NEW p \in Jobs, NEW S \in SUBSET Ids, Load(p, S),
         RunMoves(p), UNCHANGED <<clock, tables, op, counts>>, JobHolds(p)'
  PROVE  IInv'
<1>1. p \in Sessions
  BY DEF Sessions
<1>2. /\ cache' \in [Sessions -> [Ids -> Row \cup {NoRow}]]
      /\ CacheExists'
      /\ \A q \in Sessions : q # p => cache'[q] = cache[q]
  BY <1>1, LoadKeeps DEF IInv, tables
<1>3. TypeOK'
  BY <1>2 DEF IInv, TypeOK, RunMoves, tables, counts
<1>4. OthersUntouched(p)
  BY <1>2 DEF OthersUntouched, RunMoves, Sessions, tables
<1> QED BY <1>2, <1>3, <1>4, JobStepHolds DEF IInv

(* A step that commits a loaded row, and leaves the run with nothing in    *)
(* hand and no more to work through than before.                           *)
LEMMA CommitStep ==
  ASSUME IInv, NEW p \in Jobs, NEW i \in Ids, NEW new \in Row,
         cache[p][i] # NoRow, Commit(p, i, new), RunMoves(p),
         job'[p].work \subseteq job[p].work,
         job'[p].phase \notin {"assign", "to_stale", "to_open"},
         UNCHANGED <<clock, events, audit, op, counts>>
  PROVE  IInv'
<1>1. p \in Sessions
  BY DEF Sessions
<1>2. /\ rows' \in [Ids -> Row \cup {NoRow}]
      /\ \A j \in Ids : rows'[j] # NoRow <=> rows[j] # NoRow
      /\ cache' \in [Sessions -> [Ids -> Row \cup {NoRow}]]
      /\ CacheExists'
      /\ \A q \in Sessions : q # p => cache'[q] = cache[q]
  BY <1>1, CommitKeeps DEF IInv
<1>3. TypeOK'
  BY <1>2 DEF IInv, TypeOK, RunMoves, counts
<1>4. job[p].work \subseteq Ids
  BY DEF IInv, TypeOK, JobState
<1>5. JobHolds(p)'
  BY <1>2, <1>4 DEF IInv, JobHolds
<1>6. OthersUntouched(p)
  BY <1>2 DEF OthersUntouched, RunMoves, Sessions
<1> QED BY <1>2, <1>3, <1>5, <1>6, JobStepHolds DEF IInv

LEMMA FetchActiveIInv ==
  ASSUME IInv, NEW p \in Jobs, FetchActive(p) PROVE IInv'
<1>1. PICK c \in Categories, S \in SUBSET Existing :
        /\ job' = [job EXCEPT ![p].phase = "match", ![p].category = {c},
                              ![p].work = S]
        /\ Load(p, S)
        /\ UNCHANGED <<clock, tables, op, counts>>
  <2>1. PICK c \in {EventCategory[e] : e \in job[p].todo} :
          LET active == {i \in Existing : /\ rows[i].category = c
                                          /\ rows[i].status \in ActiveStatus}
          IN  /\ job' = [job EXCEPT ![p].phase = "match",
                                    ![p].category = {c},
                                    ![p].work = active]
              /\ Load(p, active)
    BY DEF FetchActive
  <2>2. c \in Categories
    BY EventAssumption DEF IInv, TypeOK, JobState
  <2> QED BY <2>1, <2>2 DEF FetchActive
<1>2. S \in SUBSET Ids /\ \A i \in S : rows[i] # NoRow
  BY DEF Existing
<1>3. RunMoves(p) /\ job'[p].work = S /\ job'[p].phase = "match"
  <2> DEFINE st == [job[p] EXCEPT !.phase = "match", !.category = {c},
                                  !.work = S]
  <2>1. st \in JobState /\ st.work = S /\ st.phase = "match"
    BY <1>2 DEF IInv, TypeOK, JobState, ClusterPhase
  <2>2. job' = [job EXCEPT ![p] = st]
    BY <1>1
  <2> QED BY <2>1, <2>2, RunMovesTo
<1>4. JobHolds(p)'
  BY <1>1, <1>2, <1>3 DEF JobHolds, tables
<1> QED BY <1>1, <1>2, <1>3, <1>4, ReadStep

LEMMA MatchEventIInv ==
  ASSUME IInv, NEW p \in Jobs, MatchEvent(p) PROVE IInv'
<1> DEFINE S == job[p].work
<1>1. /\ S \in SUBSET Ids
      /\ \A i \in S : rows[i] # NoRow
      /\ p \in Sessions
  BY DEF IInv, TypeOK, JobState, JobHolds, Sessions
<1>2. Load(p, S) /\ UNCHANGED <<clock, tables, op, counts>>
  BY DEF MatchEvent
<1>3. \A i \in S : cache'[p][i] # NoRow
  BY <1>1, <1>2, LoadKeeps DEF IInv, tables
<1>4. PICK e \in Events :
        \/ \E i \in S :
             job' = [job EXCEPT ![p].phase = "assign",
                                ![p].event = {e}, ![p].target = i]
        \/ job' = [job EXCEPT ![p].phase = "create",
                              ![p].event = {e}, ![p].target = 0]
  BY DEF MatchEvent, InCategory, Closest, IInv, TypeOK, JobState
<1>5. CASE \E i \in S : job' = [job EXCEPT ![p].phase = "assign",
                                           ![p].event = {e}, ![p].target = i]
  <2>1. PICK i \in S : job' = [job EXCEPT ![p].phase = "assign",
                                          ![p].event = {e}, ![p].target = i]
    BY <1>5
  <2> DEFINE st == [job[p] EXCEPT !.phase = "assign", !.event = {e},
                                  !.target = i]
  <2>2. st \in JobState /\ st.work = S /\ st.target = i
    BY <1>1 DEF IInv, TypeOK, JobState, ClusterPhase
  <2>3. job' = [job EXCEPT ![p] = st]
    BY <2>1
  <2>4. RunMoves(p) /\ job'[p] = st
    BY <2>2, <2>3, RunMovesTo
  <2>5. JobHolds(p)'
    BY <1>1, <1>2, <1>3, <2>2, <2>4 DEF JobHolds, tables
  <2> QED BY <1>1, <1>2, <2>4, <2>5, ReadStep
<1>6. CASE job' = [job EXCEPT ![p].phase = "create",
                              ![p].event = {e}, ![p].target = 0]
  <2> DEFINE st == [job[p] EXCEPT !.phase = "create", !.event = {e},
                                  !.target = 0]
  <2>1. st \in JobState /\ st.work = S /\ st.phase = "create"
    BY <1>1 DEF IInv, TypeOK, JobState, ClusterPhase
  <2>2. job' = [job EXCEPT ![p] = st]
    BY <1>6
  <2>3. RunMoves(p) /\ job'[p] = st
    BY <2>1, <2>2, RunMovesTo
  <2>4. JobHolds(p)'
    BY <1>1, <1>2, <2>1, <2>3 DEF JobHolds, tables
  <2> QED BY <1>1, <1>2, <2>3, <2>4, ReadStep
<1> QED BY <1>4, <1>5, <1>6

(* A set of events has a number of elements. *)
LEMMA EventCount ==
  ASSUME NEW S \in SUBSET Events PROVE Cardinality(S) \in Nat
  BY EventAssumption, FS_Subset, FS_CardinalityType

(* After an event is placed the run has nothing in hand. *)
LEMMA EventPlacedMoves ==
  ASSUME IInv, NEW p \in Jobs, NEW next \in {"match", "fetch"},
         EventPlaced(p, next)
  PROVE  /\ RunMoves(p)
         /\ job'[p].work \subseteq job[p].work
         /\ job'[p].phase \in {"idle", "age", "fetch", "match"}
<1> DEFINE left == job[p].todo \ job[p].event
           other == [IdleJob EXCEPT !.phase = "fetch", !.todo = left,
                                    !.now = job[p].now]
           same  == [job[p] EXCEPT !.phase = next, !.todo = left,
                                   !.event = {}, !.target = 0]
           st    == IF left = {} THEN AfterClustering(p)
                    ELSE IF InCategory(left, job[p].category) = {}
                    THEN other ELSE same
<1>1. job[p] \in JobState
  BY DEF IInv, TypeOK
<1>2. other \in JobState /\ other.work = {} /\ other.phase = "fetch"
  BY <1>1 DEF JobState, IdleJob, ClusterPhase
<1>3. same \in JobState /\ same.work = job[p].work /\ same.phase = next
  BY <1>1 DEF JobState, ClusterPhase
<1>4. /\ st \in JobState
      /\ st.work \subseteq job[p].work
      /\ st.phase \in {"idle", "age", "fetch", "match"}
  BY <1>2, <1>3, IdleType
<1>5. job' = [job EXCEPT ![p] = st]
  BY DEF EventPlaced
<1> QED BY <1>4, <1>5, RunMovesTo

(* What assigning an event writes, of what the run has loaded. *)
LEMMA AssignEventWrites ==
  ASSUME IInv, NEW p \in Jobs, AssignEvent(p)
  PROVE  LET i   == job[p].target
             row == cache[p][i]
         IN  /\ i \in Ids /\ i \in job[p].work
             /\ row \in Row /\ row # NoRow
             /\ \E e \in job[p].event, new \in Row :
                  /\ Commit(p, i, new)
                  /\ e \in Events
                  /\ new.status = "updated"
                  /\ new.seen = Larger(row.seen, EventTime[e])
                  /\ new.pos = Centroid(row.linked \cup {e})
                  /\ new.sources = row.sources \cup {EventSource[e]}
                  /\ new.founder = row.founder /\ new.linked = row.linked
                  /\ new.category = row.category
<1> DEFINE i   == job[p].target
           row == cache[p][i]
           new(e) == [row EXCEPT
                        !.status = "updated", !.changed = clock,
                        !.seen = Larger(@, EventTime[e]),
                        !.pos = Centroid(row.linked \cup {e}),
                        !.count = Cardinality(row.linked \cup {e}),
                        !.sources = @ \cup {EventSource[e]}]
<1>1. /\ i \in Ids /\ i \in job[p].work
      /\ row \in Row
      /\ row # NoRow
  BY NoRowAssumption
  DEF AssignEvent, IInv, TypeOK, JobHolds, JobState, Sessions
<1>2. PICK e \in job[p].event : e \in Events /\ Commit(p, i, new(e))
  BY DEF AssignEvent, IInv, TypeOK, JobState
<1>3. new(e) \in Row
  <2>1. row.linked \cup {e} \in SUBSET Events
    BY <1>1, <1>2 DEF Row
  <2>2. /\ Cardinality(row.linked \cup {e}) \in Nat
        /\ Centroid(row.linked \cup {e}) \in Int
    BY <2>1, EventCount, EventAssumption
  <2>3. Larger(row.seen, EventTime[e]) \in Nat
    BY <1>1, <1>2, EventAssumption DEF Row, Larger
  <2>4. row.sources \cup {EventSource[e]} \in SUBSET Sources
    BY <1>1, <1>2 DEF Row, Sources
  <2>5. clock \in Nat
    BY DEF IInv, TypeOK
  <2> QED BY <1>1, <2>2, <2>3, <2>4, <2>5 DEF Row, Status
<1>4. /\ new(e).status = "updated"
      /\ new(e).seen = Larger(row.seen, EventTime[e])
      /\ new(e).pos = Centroid(row.linked \cup {e})
      /\ new(e).sources = row.sources \cup {EventSource[e]}
      /\ new(e).founder = row.founder /\ new(e).linked = row.linked
      /\ new(e).category = row.category
  BY <1>1 DEF Row
<1> HIDE DEF new
<1> QED BY <1>1, <1>2, <1>3, <1>4

LEMMA AssignEventIInv ==
  ASSUME IInv, NEW p \in Jobs, AssignEvent(p) PROVE IInv'
<1> DEFINE i == job[p].target
<1>1. i \in Ids /\ cache[p][i] # NoRow
  BY AssignEventWrites
<1>2. PICK new \in Row : Commit(p, i, new)
  BY AssignEventWrites
<1>3. /\ RunMoves(p)
      /\ job'[p].work \subseteq job[p].work
      /\ job'[p].phase \notin {"assign", "to_stale", "to_open"}
  BY EventPlacedMoves DEF AssignEvent
<1>4. UNCHANGED <<clock, events, audit, op, counts>>
  BY DEF AssignEvent
<1> QED BY <1>1, <1>2, <1>3, <1>4, CommitStep

LEMMA CreateIncidentIInv ==
  ASSUME IInv, NEW p \in Jobs, CreateIncident(p) PROVE IInv'
<1> DEFINE new(e) == [status |-> "open", changed |-> clock,
                      seen |-> EventTime[e], pos |-> EventPos[e],
                      category |-> EventCategory[e], founder |-> e,
                      linked |-> {e}, count |-> 1,
                      sources |-> {EventSource[e]}]
<1>1. PICK e \in Events, i \in Ids :
        /\ rows[i] = NoRow
        /\ rows' = [rows EXCEPT ![i] = new(e)]
        /\ EventPlaced(p, "fetch")
        /\ cache' = [cache EXCEPT ![p] = IF job'[p].phase = "fetch"
                                          THEN [Expired EXCEPT ![i] = new(e)]
                                          ELSE Expired]
  BY DEF CreateIncident, IInv, TypeOK, JobState
<1>2. new(e) \in Row
  BY EventAssumption DEF Row, Status, Sources, IInv, TypeOK
<1> HIDE DEF new
<1>3. /\ rows' \in [Ids -> Row \cup {NoRow}]
      /\ \A j \in Ids : rows[j] # NoRow => rows'[j] # NoRow
      /\ rows'[i] # NoRow
  BY <1>1, <1>2, NoRowAssumption DEF IInv, TypeOK
<1>4. /\ cache' \in [Sessions -> [Ids -> Row \cup {NoRow}]]
      /\ \A j \in Ids : j # i => cache'[p][j] = NoRow
      /\ \A q \in Sessions : q # p => cache'[q] = cache[q]
  BY <1>1, <1>2 DEF IInv, TypeOK, Expired, Sessions
<1>5. CacheExists'
  BY <1>3, <1>4 DEF IInv, CacheExists
<1>6. /\ RunMoves(p)
      /\ job'[p].work \subseteq job[p].work
      /\ job'[p].phase \notin {"assign", "to_stale", "to_open"}
  BY <1>1, EventPlacedMoves
<1>7. UNCHANGED <<clock, events, audit, op, counts>>
  BY DEF CreateIncident
<1>8. TypeOK'
  BY <1>3, <1>4, <1>6, <1>7 DEF IInv, TypeOK, RunMoves, counts
<1>9. job[p].work \subseteq Ids
  BY DEF IInv, TypeOK, JobState
<1>10. JobHolds(p)'
  BY <1>3, <1>6, <1>9 DEF IInv, JobHolds
<1>11. OthersUntouched(p)
  BY <1>3, <1>4, <1>6, <1>7 DEF OthersUntouched, RunMoves, Sessions
<1> QED BY <1>5, <1>8, <1>10, <1>11, JobStepHolds DEF IInv

(* A query of the lifecycle job: the run takes up existing incidents. *)
LEMMA SelectStep ==
  ASSUME IInv, NEW p \in Jobs, NEW S \in SUBSET Existing, Load(p, S),
         NEW st \in JobState, job' = [job EXCEPT ![p] = st], st.work = S,
         st.phase \in {"stale", "updated"},
         UNCHANGED <<clock, tables, op, counts>>
  PROVE  IInv'
<1>1. RunMoves(p) /\ job'[p] = st
  BY RunMovesTo
<1>2. S \in SUBSET Ids /\ \A i \in S : rows[i] # NoRow
  BY DEF Existing
<1>3. JobHolds(p)'
  BY <1>1, <1>2 DEF JobHolds, tables
<1> QED BY <1>1, <1>2, <1>3, ReadStep

LEMMA SelectStaleIInv ==
  ASSUME IInv, NEW p \in Jobs, SelectStale(p) PROVE IInv'
<1> DEFINE S  == {i \in Existing : Quiet(i, clock)}
           st == [job[p] EXCEPT !.phase = "stale", !.work = S, !.now = clock]
<1>1. S \in SUBSET Existing /\ S \in SUBSET Ids
  BY DEF Existing
<1>2. Load(p, S) /\ UNCHANGED <<clock, tables, op, counts>>
  BY DEF SelectStale
<1>3. job' = [job EXCEPT ![p].phase = "stale", ![p].work = S,
                         ![p].now = clock]
  BY DEF SelectStale
<1> HIDE DEF S
<1>4. job' = [job EXCEPT ![p] = st]
  BY <1>3
<1>5. st \in JobState /\ st.work = S /\ st.phase = "stale"
  BY <1>1 DEF IInv, TypeOK, JobState, AgingPhase
<1> QED BY <1>1, <1>2, <1>4, <1>5, SelectStep

LEMMA SelectUpdatedIInv ==
  ASSUME IInv, NEW p \in Jobs, SelectUpdated(p) PROVE IInv'
<1> DEFINE S  == {i \in Existing : Lapsed(i, job[p].now)}
           st == [job[p] EXCEPT !.phase = "updated", !.work = S]
<1>1. S \in SUBSET Existing /\ S \in SUBSET Ids
  BY DEF Existing
<1>2. Load(p, S) /\ UNCHANGED <<clock, tables, op, counts>>
  BY DEF SelectUpdated
<1>3. job' = [job EXCEPT ![p].phase = "updated", ![p].work = S]
  BY DEF SelectUpdated
<1> HIDE DEF S
<1>4. job' = [job EXCEPT ![p] = st]
  BY <1>3
<1>5. st \in JobState /\ st.work = S /\ st.phase = "updated"
  BY <1>1 DEF IInv, TypeOK, JobState, AgingPhase
<1> QED BY <1>1, <1>2, <1>4, <1>5, SelectStep

(* A turn of a loop takes the incident in hand or drops it. *)
LEMMA CheckIInv ==
  ASSUME IInv, NEW p \in Jobs, NEW phase \in {"stale", "updated"},
         NEW next \in {"to_stale", "to_open"}, NEW allowed,
         Check(p, phase, next, allowed)
  PROVE  IInv'
<1>1. PICK i \in job[p].work :
        /\ Load(p, {i})
        /\ \/ job' = [job EXCEPT ![p].phase = next, ![p].target = i]
           \/ job' = [job EXCEPT ![p].work = @ \ {i}]
  BY DEF Check
<1>2. /\ job[p] \in JobState
      /\ job[p].work \subseteq Ids
      /\ job[p].phase = phase
      /\ \A j \in job[p].work : rows[j] # NoRow
      /\ p \in Sessions
  BY DEF Check, IInv, TypeOK, JobState, JobHolds, Sessions
<1>3. UNCHANGED <<clock, tables, op, counts>>
  BY DEF Check
<1>4. cache'[p][i] # NoRow
  BY <1>1, <1>2, <1>3, LoadKeeps DEF IInv, tables
<1>5. CASE job' = [job EXCEPT ![p].phase = next, ![p].target = i]
  <2> DEFINE st == [job[p] EXCEPT !.phase = next, !.target = i]
  <2>1. job' = [job EXCEPT ![p] = st]
    BY <1>5
  <2>2. st \in JobState /\ st.work = job[p].work /\ st.target = i
    BY <1>1, <1>2 DEF JobState, AgingPhase
  <2>3. RunMoves(p) /\ job'[p] = st
    BY <2>1, <2>2, RunMovesTo
  <2>4. JobHolds(p)'
    BY <1>1, <1>2, <1>3, <1>4, <2>2, <2>3 DEF JobHolds, tables
  <2> QED BY <1>1, <1>2, <1>3, <2>3, <2>4, ReadStep
<1>6. CASE job' = [job EXCEPT ![p].work = @ \ {i}]
  <2> DEFINE st == [job[p] EXCEPT !.work = @ \ {i}]
  <2>1. job' = [job EXCEPT ![p] = st]
    BY <1>6
  <2>2. st \in JobState /\ st.work = job[p].work \ {i} /\ st.phase = phase
    BY <1>2 DEF JobState
  <2>3. RunMoves(p) /\ job'[p] = st
    BY <2>1, <2>2, RunMovesTo
  <2>4. JobHolds(p)'
    BY <1>2, <1>3, <2>2, <2>3 DEF JobHolds, tables
  <2> QED BY <1>1, <1>2, <1>3, <2>3, <2>4, ReadStep
<1> QED BY <1>1, <1>5, <1>6

(* A transition commits the incident in hand, which leaves the work list. *)
LEMMA TransitIInv ==
  ASSUME IInv, NEW p \in Jobs, NEW phase \in {"to_stale", "to_open"},
         NEW next \in {"stale", "updated"}, NEW status \in Status,
         Transit(p, phase, next, status)
  PROVE  IInv'
<1> DEFINE i   == job[p].target
           new == [cache[p][i] EXCEPT !.status = status, !.changed = clock]
           st  == [job[p] EXCEPT !.phase = next, !.work = @ \ {i},
                                 !.target = 0]
<1>1. /\ i \in Ids
      /\ cache[p][i] \in Row
      /\ cache[p][i] # NoRow
  BY NoRowAssumption
  DEF Transit, IInv, TypeOK, JobHolds, JobState, Sessions
<1>2. /\ Commit(p, i, new)
      /\ job' = [job EXCEPT ![p].phase = next, ![p].work = @ \ {i},
                            ![p].target = 0]
      /\ UNCHANGED <<clock, events, audit, op, counts>>
  BY DEF Transit
<1>3. new \in Row
  BY <1>1 DEF IInv, TypeOK, Row
<1>4. job' = [job EXCEPT ![p] = st]
  BY <1>2
<1>5. /\ st \in JobState
      /\ st.work = job[p].work \ {i}
      /\ st.phase = next
  BY DEF IInv, TypeOK, JobState, AgingPhase
<1>6. RunMoves(p) /\ job'[p] = st
  BY <1>4, <1>5, RunMovesTo
<1> QED BY <1>1, <1>2, <1>3, <1>5, <1>6, CommitStep

LEMMA JobStepIInv ==
  ASSUME IInv, NEW p \in Jobs, JobStep(p) PROVE IInv'
<1>1. CASE CheckStale(p)
  BY <1>1, CheckIInv DEF CheckStale
<1>2. CASE CheckOpen(p)
  BY <1>2, CheckIInv DEF CheckOpen
<1>3. CASE TransitionToStale(p)
  BY <1>3, TransitIInv DEF TransitionToStale, Status
<1>4. CASE TransitionToOpen(p)
  BY <1>4, TransitIInv DEF TransitionToOpen, Status
<1> QED
  BY <1>1, <1>2, <1>3, <1>4, FetchActiveIInv, MatchEventIInv,
     AssignEventIInv, CreateIncidentIInv, SelectStaleIInv, SelectUpdatedIInv,
     EndLifecycleIInv
  DEF JobStep

-----------------------------------------------------------------------------
(***************************************************************************)
(* The operators' steps.                                                   *)
(***************************************************************************)

(* What a step of operator o changes of the requests is its own. *)
RequestMoves(o) ==
  /\ op' \in [Operators -> OpState]
  /\ \A q \in Operators : q # o => op'[q] = op[q]

LEMMA RequestMovesTo ==
  ASSUME IInv, NEW o \in Operators, NEW st \in OpState,
         op' = [op EXCEPT ![o] = st]
  PROVE  RequestMoves(o) /\ op'[o] = st
  BY DEF IInv, TypeOK, RequestMoves

LEMMA RequestCorrectionIInv ==
  ASSUME IInv, NEW o \in Operators, RequestCorrection(o) PROVE IInv'
<1> DEFINE st(i, k, t) == [phase |-> "apply", kind |-> k, inc |-> i,
                           target |-> t, before |-> rows[i].status]
<1>1. PICK i \in Existing, k \in Kinds, t \in Existing :
        op' = [op EXCEPT ![o] = st(i, k, t)] /\ Load(o, {i, t})
  BY DEF RequestCorrection
<1>2. /\ {i, t} \in SUBSET Ids
      /\ rows[i] # NoRow /\ rows[t] # NoRow
      /\ o \in Sessions
  BY DEF Existing, Sessions
<1>3. st(i, k, t) \in OpState
  <2>1. rows[i] \in Row
    BY <1>2 DEF IInv, TypeOK
  <2>2. k \in AllKinds
    BY ActorAssumption
  <2> QED BY <1>2, <2>1, <2>2 DEF OpState, Row
<1>4. /\ RequestMoves(o)
      /\ op'[o].inc = i /\ op'[o].target = t
  <2>1. op' = [op EXCEPT ![o] = st(i, k, t)]
    BY <1>1
  <2>2. st(i, k, t).inc = i /\ st(i, k, t).target = t
    OBVIOUS
  <2> HIDE DEF st
  <2>3. RequestMoves(o) /\ op'[o] = st(i, k, t)
    BY <1>3, <2>1, RequestMovesTo
  <2> QED BY <2>2, <2>3
<1>5. /\ UNCHANGED <<clock, tables, job, runs, applied, void, faults>>
      /\ requests' \in Nat
  BY DEF RequestCorrection, IInv, TypeOK
<1>6. /\ cache' \in [Sessions -> [Ids -> Row \cup {NoRow}]]
      /\ CacheExists'
      /\ \A q \in Sessions : q # o => cache'[q] = cache[q]
      /\ \A j \in {i, t} : cache'[o][j] # NoRow
  BY <1>1, <1>2, <1>5, LoadKeeps DEF IInv, tables
<1>7. TypeOK'
  BY <1>4, <1>5, <1>6 DEF IInv, TypeOK, RequestMoves, tables
<1>8. OpHolds(o)'
  BY <1>2, <1>4, <1>6 DEF OpHolds
<1>9. OthersUntouched(o)
  BY <1>4, <1>5, <1>6 DEF OthersUntouched, RequestMoves, Sessions, tables
<1> QED BY <1>6, <1>7, <1>8, <1>9, OpStepHolds DEF IInv

(* An operator's commit of rows that exist, or of nothing, after which     *)
(* only the audit row is left to write.                                    *)
LEMMA OperatorCommits ==
  ASSUME IInv, NEW o \in Operators,
         rows' \in [Ids -> Row \cup {NoRow}],
         \A i \in Ids : rows[i] # NoRow => rows'[i] # NoRow,
         cache' = [cache EXCEPT ![o] = Expired],
         op' = [op EXCEPT ![o].phase = "audit"],
         applied' \in Nat, void' \in Nat,
         UNCHANGED <<clock, events, audit, job, runs, requests, faults>>
  PROVE  IInv'
<1> DEFINE st == [op[o] EXCEPT !.phase = "audit"]
<1>1. st \in OpState /\ st.phase = "audit" /\ op' = [op EXCEPT ![o] = st]
  BY DEF IInv, TypeOK, OpState
<1>2. RequestMoves(o) /\ op'[o].phase = "audit"
  BY <1>1, RequestMovesTo
<1>3. o \in Sessions
  BY DEF Sessions
<1>4. /\ cache' \in [Sessions -> [Ids -> Row \cup {NoRow}]]
      /\ CacheExists'
      /\ \A q \in Sessions : q # o => cache'[q] = cache[q]
  BY <1>3, ExpireKeeps DEF IInv
<1>5. TypeOK'
  BY <1>2, <1>4 DEF IInv, TypeOK, RequestMoves
<1>6. OpHolds(o)'
  BY <1>2 DEF OpHolds
<1>7. OthersUntouched(o)
  BY <1>2, <1>4 DEF OthersUntouched, RequestMoves, Sessions
<1> QED BY <1>4, <1>5, <1>6, <1>7, OpStepHolds DEF IInv

(* The incident a request is about to correct. *)
LEMMA InHandType ==
  ASSUME IInv, NEW o \in Operators, op[o].phase = "apply"
  PROVE  /\ op[o].inc \in Ids /\ op[o].target \in Ids
         /\ InHand(o) \in Row /\ InHand(o) # NoRow
         /\ cache[o][op[o].target] \in Row
         /\ cache[o][op[o].target] # NoRow
  BY NoRowAssumption DEF IInv, TypeOK, OpHolds, InHand, Sessions

LEMMA CorrectIInv ==
  ASSUME IInv, NEW o \in Operators, NEW kind, NEW new \in Row,
         Correct(o, kind, new)
  PROVE  IInv'
<1>1. /\ op[o].inc \in Ids
      /\ cache[o][op[o].inc] # NoRow
      /\ o \in Sessions
  BY InHandType DEF Correct, InHand, Sessions
<1>2. /\ rows' \in [Ids -> Row \cup {NoRow}]
      /\ \A i \in Ids : rows[i] # NoRow => rows'[i] # NoRow
  BY <1>1, CommitKeeps DEF IInv, Correct
<1>3. applied' \in Nat /\ void' \in Nat
  BY DEF Correct, IInv, TypeOK
<1> QED BY <1>2, <1>3, OperatorCommits DEF Correct, Commit

LEMMA AskNothingIInv ==
  ASSUME IInv, NEW o \in Operators, NEW kind, AskNothing(o, kind)
  PROVE  IInv'
<1>1. /\ rows' \in [Ids -> Row \cup {NoRow}]
      /\ applied' \in Nat /\ void' \in Nat /\ rows' = rows
  BY DEF AskNothing, tables, IInv, TypeOK
<1> QED BY <1>1, OperatorCommits DEF AskNothing, tables

(* A merge writes rows of the table. *)
LEMMA MergeRows ==
  ASSUME IInv, NEW o \in Operators, Merge(o)
  PROVE  /\ rows' \in [Ids -> Row \cup {NoRow}]
         /\ \A j \in Ids : rows[j] # NoRow <=> rows'[j] # NoRow
<1> DEFINE i     == op[o].inc
           t     == op[o].target
           links == cache[o][t].linked \cup cache[o][i].linked
           new   == [cache[o] EXCEPT ![t].linked = links,
                                     ![t].count = Cardinality(links),
                                     ![i].status = "closed"]
<1>1. /\ i \in Ids /\ t \in Ids
      /\ cache[o][i] \in Row /\ cache[o][t] \in Row
      /\ cache[o] \in [Ids -> Row \cup {NoRow}]
      /\ rows[i] \in Row /\ rows[t] \in Row
  BY InHandType DEF Merge, InHand, IInv, TypeOK, CacheExists, Sessions
<1>2. links \in SUBSET Events /\ Cardinality(links) \in Nat
  <2>1. links \in SUBSET Events
    BY <1>1 DEF Row
  <2> QED BY <2>1, EventCount
<1>3. new[i] \in Row /\ new[t] \in Row
  <2> HIDE DEF links
  <2> DEFINE linked  == [cache[o][t] EXCEPT !.linked = links]
             counted == [linked EXCEPT !.count = Cardinality(links)]
             n1 == [cache[o] EXCEPT ![t] = counted]
  <2>1. counted \in Row
    BY <1>1, <1>2 DEF Row
  <2>2. n1[i] \in Row /\ n1[t] \in Row /\ n1 \in [Ids -> Row \cup {NoRow}]
    BY <1>1, <2>1
  <2>3. new = [n1 EXCEPT ![i] = [n1[i] EXCEPT !.status = "closed"]]
    BY <1>1
  <2>4. [n1[i] EXCEPT !.status = "closed"] \in Row
    BY <2>2 DEF Row, Status
  <2> HIDE DEF n1
  <2> QED BY <1>1, <2>2, <2>3, <2>4
<1>4. rows' = [j \in Ids |-> IF j \in {i, t}
                               THEN Updated(rows[j], cache[o][j], new[j])
                               ELSE rows[j]]
  BY DEF Merge
<1> HIDE DEF new
<1>5. \A j \in {i, t} : Updated(rows[j], cache[o][j], new[j]) \in Row
  BY <1>1, <1>3, UpdatedType
<1> QED BY <1>1, <1>4, <1>5, NoRowAssumption DEF IInv, TypeOK

LEMMA MergeIInv ==
  ASSUME IInv, NEW o \in Operators, Merge(o) PROVE IInv'
<1>1. applied' \in Nat /\ void' \in Nat
  BY DEF Merge, IInv, TypeOK
<1> QED BY <1>1, MergeRows, OperatorCommits DEF Merge

LEMMA WriteAuditIInv ==
  ASSUME IInv, NEW o \in Operators, WriteAudit(o) PROVE IInv'
<1>1. IdleOp \in OpState /\ IdleOp.phase = "idle"
  BY DEF IdleOp, OpState, AllKinds, Status
<1>2. RequestMoves(o) /\ op'[o].phase = "idle"
  BY <1>1, RequestMovesTo DEF WriteAudit
<1>3. [inc |-> op[o].inc, kind |-> op[o].kind, before |-> op[o].before]
        \in AuditRow
  BY DEF IInv, TypeOK, OpState, AuditRow
<1>4. audit' \in Seq(AuditRow)
  BY <1>3 DEF WriteAudit, IInv, TypeOK
<1>5. TypeOK' /\ CacheExists'
  BY <1>2, <1>4
  DEF WriteAudit, IInv, TypeOK, CacheExists, RequestMoves, counts
<1>6. OpHolds(o)'
  BY <1>2 DEF OpHolds
<1>7. OthersUntouched(o)
  BY <1>2 DEF WriteAudit, OthersUntouched, RequestMoves
<1> QED BY <1>5, <1>6, <1>7, OpStepHolds DEF IInv

LEMMA OperatorStepIInv ==
  ASSUME IInv, NEW o \in Operators, OperatorStep(o) PROVE IInv'
<1> USE DEF Row, Status
<1>1. CASE op[o].phase = "apply"
  <2>1. InHand(o) \in Row /\ clock \in Nat
    BY <1>1, InHandType DEF IInv, TypeOK
  <2>2. CASE MarkFalsePositive(o)
    <3>1. [InHand(o) EXCEPT !.status = "false_positive", !.changed = clock]
            \in Row
      BY <2>1
    <3> QED BY <2>2, <3>1, CorrectIInv DEF MarkFalsePositive
  <2>3. CASE CloseIncident(o)
    <3>1. [InHand(o) EXCEPT !.status = "closed", !.changed = clock] \in Row
      BY <2>1
    <3> QED BY <2>3, <3>1, CorrectIInv DEF CloseIncident
  <2>4. CASE Reclassify(o)
    <3>1. [InHand(o) EXCEPT !.status = "open", !.changed = clock] \in Row
      BY <2>1
    <3>2. \A c \in Categories : [InHand(o) EXCEPT !.category = c] \in Row
      BY <2>1
    <3> QED BY <2>4, <3>1, <3>2, CorrectIInv, AskNothingIInv DEF Reclassify
  <2>5. CASE Relocate(o)
    <3>1. \A x \in Positions : [InHand(o) EXCEPT !.pos = x] \in Row
      BY <2>1, EventAssumption
    <3> QED BY <2>5, <3>1, CorrectIInv, AskNothingIInv DEF Relocate
  <2>6. CASE Merge(o)
    BY <2>6, MergeIInv
  <2>7. ~WriteAudit(o)
    BY <1>1 DEF WriteAudit
  <2> QED BY <2>2, <2>3, <2>4, <2>5, <2>6, <2>7 DEF OperatorStep
<1>2. CASE op[o].phase # "apply"
  BY <1>2, WriteAuditIInv
  DEF OperatorStep, MarkFalsePositive, CloseIncident, Reclassify, Relocate,
      Merge, Correct, AskNothing
<1> QED BY <1>1, <1>2

-----------------------------------------------------------------------------
(***************************************************************************)
(* The theorems.                                                           *)
(***************************************************************************)

LEMMA NextIInv == ASSUME IInv, [Next]_vars PROVE IInv'
<1>1. CASE Next
  BY <1>1, TickIInv, IngestIInv, StartClusteringIInv, StartLifecycleIInv,
     RunFailsIInv, JobStepIInv, RequestCorrectionIInv, OperatorStepIInv,
     CrashIInv
  DEF Next
<1>2. CASE UNCHANGED vars
  BY <1>2
  DEF IInv, TypeOK, CacheExists, JobHolds, OpHolds, vars, tables, counts
<1> QED BY <1>1, <1>2

(* At any time what the sessions of the jobs and of the operators hold     *)
(* exists, and what they are about to write they have loaded.              *)
THEOREM Invariance == Spec => []IInv
  BY InitIInv, NextIInv, PTL DEF Spec

(* Every row any interleaving of the jobs and the corrections writes is a  *)
(* row of the table: no commit writes a row that is not there.             *)
THEOREM TypeCorrect == Spec => []TypeOK
  BY Invariance, PTL DEF IInv

-----------------------------------------------------------------------------
(***************************************************************************)
(* Verdicts.                                                               *)
(***************************************************************************)

(* A step that leaves row i, and has no run take i up. *)
LEMMA SettledKept ==
  ASSUME NEW i \in Ids, Settled(i), rows'[i] = rows[i],
         \A p \in Jobs : i \in job'[p].work => i \in job[p].work
  PROVE  Settled(i)'
  BY DEF Settled

(* The queries of the runs select no settled incident. *)
LEMMA SelectionLeavesSettled ==
  ASSUME IInv, NEW p \in Jobs, NEW i \in Ids, Settled(i),
         FetchActive(p) \/ SelectStale(p) \/ SelectUpdated(p)
  PROVE  Settled(i)'
<1>1. /\ rows[i].status \notin ActiveStatus
      /\ \A now \in Int : ~Quiet(i, now) /\ ~Lapsed(i, now)
  BY DEF Settled, ActiveStatus, Quiet, Lapsed
<1>2. job \in [Jobs -> JobState] /\ clock \in Int /\ job[p].now \in Int
  BY DEF IInv, TypeOK, JobState
<1>3. PICK S \in SUBSET Existing :
        /\ i \notin S
        /\ job'[p].work = S
        /\ \A q \in Jobs : q # p => job'[q] = job[q]
  <2>1. CASE FetchActive(p)
    <3>1. PICK c \in {EventCategory[e] : e \in job[p].todo} :
            LET active == {j \in Existing : /\ rows[j].category = c
                                            /\ rows[j].status \in ActiveStatus}
            IN  job' = [job EXCEPT ![p].phase = "match",
                                   ![p].category = {c},
                                   ![p].work = active]
      BY <2>1 DEF FetchActive
    <3> QED BY <1>1, <1>2, <3>1 DEF JobState
  <2>2. CASE SelectStale(p)
    <3> DEFINE quiet == {j \in Existing : Quiet(j, clock)}
    <3>1. job' = [job EXCEPT ![p].phase = "stale", ![p].work = quiet,
                             ![p].now = clock]
      BY <2>2 DEF SelectStale
    <3>2. i \notin quiet /\ quiet \in SUBSET Existing
      BY <1>1, <1>2
    <3> HIDE DEF quiet
    <3> QED BY <1>2, <3>1, <3>2 DEF JobState
  <2>3. CASE SelectUpdated(p)
    <3>1. job' = [job EXCEPT ![p].phase = "updated",
                             ![p].work = {j \in Existing :
                                            Lapsed(j, job[p].now)}]
      BY <2>3 DEF SelectUpdated
    <3> QED BY <1>1, <1>2, <3>1 DEF JobState
  <2> QED BY <2>1, <2>2, <2>3
<1>4. rows' = rows
  BY DEF FetchActive, SelectStale, SelectUpdated, tables
<1> QED BY <1>3, <1>4, SettledKept

(* Nor does a step of a run write one: it writes an incident of its work   *)
(* or a new one.                                                           *)
LEMMA JobLeavesSettled ==
  ASSUME IInv, NEW p \in Jobs, NEW i \in Ids, Settled(i), JobStep(p)
  PROVE  Settled(i)'
<1>1. /\ job \in [Jobs -> JobState]
      /\ i \notin job[p].work
      /\ rows[i] # NoRow
  BY DEF IInv, TypeOK, Settled
<1>2. CASE FetchActive(p) \/ SelectStale(p) \/ SelectUpdated(p)
  BY <1>2, SelectionLeavesSettled
<1>3. CASE MatchEvent(p)
  <2>1. /\ rows' = rows
        /\ \A q \in Jobs : job'[q].work = job[q].work
    BY <1>1, <1>3 DEF MatchEvent, JobState, tables
  <2> QED BY <2>1, SettledKept
<1>4. CASE AssignEvent(p)
  <2>1. job[p].target \in Ids /\ i # job[p].target
    BY <1>1, <1>4 DEF AssignEvent, IInv, JobHolds, JobState
  <2>2. rows'[i] = rows[i]
    <3>1. PICK u : rows' = [rows EXCEPT ![job[p].target] = u]
      BY <1>4 DEF AssignEvent, Commit
    <3> QED BY <2>1, <3>1 DEF IInv, TypeOK
  <2>3. RunMoves(p) /\ job'[p].work \subseteq job[p].work
    BY <1>4, EventPlacedMoves DEF AssignEvent
  <2> QED BY <2>2, <2>3, SettledKept DEF RunMoves
<1>5. CASE CreateIncident(p)
  <2>1. rows'[i] = rows[i] /\ EventPlaced(p, "fetch")
    BY <1>1, <1>5 DEF CreateIncident, IInv, TypeOK
  <2>2. RunMoves(p) /\ job'[p].work \subseteq job[p].work
    BY <2>1, EventPlacedMoves
  <2> QED BY <2>1, <2>2, SettledKept DEF RunMoves
<1>6. ASSUME NEW phase, NEW next, NEW allowed, Check(p, phase, next, allowed)
      PROVE  Settled(i)'
  <2>1. /\ rows' = rows
        /\ \A q \in Jobs : job'[q].work \subseteq job[q].work
    BY <1>1, <1>6 DEF Check, JobState, tables
  <2> QED BY <2>1, SettledKept
<1>7. ASSUME NEW phase \in {"to_stale", "to_open"}, NEW next, NEW status,
             Transit(p, phase, next, status)
      PROVE  Settled(i)'
  <2>1. i # job[p].target
    BY <1>1, <1>7 DEF Transit, IInv, JobHolds
  <2>2. rows'[i] = rows[i]
    BY <1>7, <2>1 DEF Transit, Commit, IInv, TypeOK
  <2>3. \A q \in Jobs : job'[q].work \subseteq job[q].work
    BY <1>1, <1>7 DEF Transit, JobState
  <2> QED BY <2>2, <2>3, SettledKept
<1>8. CASE EndLifecycle(p)
  <2>1. /\ rows' = rows
        /\ \A q \in Jobs : job'[q].work \subseteq job[q].work
    BY <1>1, <1>8 DEF EndLifecycle, IdleJob, JobState, tables
  <2> QED BY <2>1, SettledKept
<1> QED
  BY <1>2, <1>3, <1>4, <1>5, <1>6, <1>7, <1>8
  DEF JobStep, CheckStale, CheckOpen, TransitionToStale, TransitionToOpen

(* A step of an operator is one: the phase of its request changes. *)
LEMMA OperatorStepActs ==
  ASSUME IInv, NEW o \in Operators, OperatorStep(o) PROVE OperatorActs
<1>1. op \in [Operators -> OpState]
  BY DEF IInv, TypeOK
<1>2. CASE Merge(o)
  BY <1>1, <1>2 DEF Merge, OperatorActs, OpState
<1>3. CASE WriteAudit(o)
  BY <1>1, <1>3 DEF WriteAudit, OperatorActs, OpState, IdleOp
<1>4. ASSUME NEW kind, NEW new, Correct(o, kind, new) PROVE OperatorActs
  BY <1>1, <1>4 DEF Correct, OperatorActs, OpState
<1>5. ASSUME NEW kind, AskNothing(o, kind) PROVE OperatorActs
  BY <1>1, <1>5 DEF AskNothing, OperatorActs, OpState
<1> QED
  BY <1>2, <1>3, <1>4, <1>5
  DEF OperatorStep, MarkFalsePositive, CloseIncident, Reclassify, Relocate

LEMMA NextKeepsSettled ==
  ASSUME IInv, [Next]_vars, ~OperatorActs, NEW i \in Ids, Settled(i)
  PROVE  Settled(i)'
<1>1. job \in [Jobs -> JobState]
  BY DEF IInv, TypeOK
<1>2. CASE /\ rows' = rows
           /\ \A q \in Jobs : job'[q].work \subseteq job[q].work
  BY <1>2, SettledKept
<1>3. CASE UNCHANGED vars
  BY <1>2, <1>3 DEF vars, tables
<1>4. CASE Tick \/ (\E e \in Events : Ingest(e))
  BY <1>2, <1>4 DEF Tick, Ingest, tables
<1>5. ASSUME NEW p \in Jobs, StartClustering(p) PROVE Settled(i)'
  <2> DEFINE recent == {e \in events : EventTime[e] >= clock - Window}
             begun  == [IdleJob EXCEPT !.phase = "fetch", !.todo = recent,
                                       !.now = clock]
             st == IF recent = {} THEN AfterClustering(p) ELSE begun
  <2>1. st.work = {}
    BY DEF AfterClustering, IdleJob
  <2>2. rows' = rows /\ job' = [job EXCEPT ![p] = st]
    BY <1>5 DEF StartClustering, tables
  <2> HIDE DEF st
  <2> QED BY <1>1, <1>2, <2>1, <2>2
<1>6. ASSUME NEW p \in Jobs, StartLifecycle(p) \/ RunFails(p)
      PROVE  Settled(i)'
  BY <1>1, <1>2, <1>6 DEF StartLifecycle, RunFails, IdleJob, JobState, tables
<1>7. ASSUME NEW o \in Operators, RequestCorrection(o) PROVE Settled(i)'
  BY <1>2, <1>7 DEF RequestCorrection, tables
<1>8. CASE Crash
  BY <1>2, <1>8 DEF Crash, IdleJob, tables
<1> QED
  BY <1>3, <1>4, <1>5, <1>6, <1>7, <1>8, JobLeavesSettled, OperatorStepActs
  DEF Next

(* What an operator closed or marked as false positive stays so, whatever  *)
(* the jobs do, unless a run had taken the incident up before.             *)
THEOREM SettledVerdictsStay == Spec => SettledStays
<1>1. IInv /\ [Next]_vars
        => [\A i \in Ids : Settled(i) /\ ~OperatorActs => Settled(i)']_vars
  BY NextKeepsSettled
<1> QED BY <1>1, Invariance, PTL DEF Spec, SettledStays
-----------------------------------------------------------------------------
(***************************************************************************)
(* What a step writes: the columns of a commit, and who writes which.      *)
(***************************************************************************)

Written(column, loaded, new) == IF new = loaded THEN column ELSE new

(* A commit writes one row, which exists; of it the columns that the       *)
(* session changed.                                                        *)
LEMMA CommitColumns ==
  ASSUME IInv, NEW s \in Sessions, NEW i \in Ids, NEW new \in Row,
         cache[s][i] # NoRow, Commit(s, i, new)
  PROVE  /\ rows[i] \in Row /\ cache[s][i] \in Row
         /\ rows'[i].seen = Written(rows[i].seen, cache[s][i].seen, new.seen)
         /\ rows'[i].status
              = Written(rows[i].status, cache[s][i].status, new.status)
         /\ rows'[i].sources
              = Written(rows[i].sources, cache[s][i].sources, new.sources)
         /\ rows'[i].pos
              = Written(rows[i].pos, cache[s][i].pos, new.pos)
         /\ rows'[i].category
              = Written(rows[i].category, cache[s][i].category, new.category)
         /\ rows'[i].founder
              = Written(rows[i].founder, cache[s][i].founder, new.founder)
         /\ rows'[i].linked
              = Written(rows[i].linked, cache[s][i].linked, new.linked)
         /\ \A j \in Ids : j # i => rows'[j] = rows[j]
         /\ \A j \in Ids : rows'[j] # NoRow <=> rows[j] # NoRow
         /\ cache' = [cache EXCEPT ![s] = Expired]
<1>1. rows[i] \in Row /\ cache[s][i] \in Row
  BY DEF IInv, TypeOK, CacheExists
<1>2. /\ \A j \in Ids : j # i => rows'[j] = rows[j]
      /\ \A j \in Ids : rows'[j] # NoRow <=> rows[j] # NoRow
  BY CommitKeeps DEF IInv
<1>3. rows'[i] = Updated(rows[i], cache[s][i], new)
  BY DEF Commit, IInv, TypeOK
<1>4. /\ rows'[i].seen = Written(rows[i].seen, cache[s][i].seen, new.seen)
      /\ rows'[i].status
              = Written(rows[i].status, cache[s][i].status, new.status)
      /\ rows'[i].sources
              = Written(rows[i].sources, cache[s][i].sources, new.sources)
      /\ rows'[i].pos
           = Written(rows[i].pos, cache[s][i].pos, new.pos)
      /\ rows'[i].category
           = Written(rows[i].category, cache[s][i].category, new.category)
      /\ rows'[i].founder
           = Written(rows[i].founder, cache[s][i].founder, new.founder)
      /\ rows'[i].linked
           = Written(rows[i].linked, cache[s][i].linked, new.linked)
  BY <1>3 DEF Updated, Written
<1> QED BY <1>1, <1>2, <1>4 DEF Commit

(* No incident is lost, nor what it has observed. *)
KeepsSightings ==
  \A i \in Ids : rows[i] # NoRow =>
    /\ rows'[i] # NoRow
    /\ rows'[i].seen = rows[i].seen /\ rows'[i].sources = rows[i].sources

NoneNew == \A i \in Ids : rows'[i] # NoRow => rows[i] # NoRow

NoneTurnsStale ==
  \A i \in Ids : rows[i] # NoRow /\ rows'[i].status = "stale"
                   => rows[i].status = "stale"

(* The runs and what they have loaded. *)
RunsRest ==
  /\ clock' = clock /\ job' = job
  /\ \A p \in Jobs : cache'[p] = cache[p]

(* A correction writes neither what was observed nor "stale". *)
LEMMA OperatorWrites ==
  ASSUME IInv, NEW o \in Operators, OperatorStep(o)
  PROVE  KeepsSightings /\ NoneNew /\ NoneTurnsStale /\ RunsRest
<1>1. o \in Sessions /\ o \notin Jobs
  BY TwoKinds DEF Sessions
<1>2. CASE WriteAudit(o)
  BY <1>2 DEF WriteAudit, KeepsSightings, NoneNew, NoneTurnsStale, RunsRest
<1>0. ASSUME NEW kind, AskNothing(o, kind)
      PROVE  KeepsSightings /\ NoneNew /\ NoneTurnsStale /\ RunsRest
  <2>1. rows' = rows /\ clock' = clock /\ job' = job
    BY <1>0 DEF AskNothing, tables
  <2>2. \A p \in Jobs : cache'[p] = cache[p]
    BY <1>0, <1>1 DEF AskNothing, IInv, TypeOK, Sessions
  <2> QED BY <2>1, <2>2 DEF KeepsSightings, NoneNew, NoneTurnsStale, RunsRest
<1>3. ASSUME NEW kind, NEW new \in Row, Correct(o, kind, new),
             new.seen = InHand(o).seen, new.sources = InHand(o).sources,
             new.status = InHand(o).status \/ new.status # "stale"
      PROVE  KeepsSightings /\ NoneNew /\ NoneTurnsStale /\ RunsRest
  <2>1. /\ op[o].inc \in Ids /\ cache[o][op[o].inc] # NoRow
        /\ Commit(o, op[o].inc, new)
        /\ clock' = clock /\ job' = job
    BY <1>3, InHandType DEF Correct, InHand
  <2>2. cache \in [Sessions -> [Ids -> Row \cup {NoRow}]]
    BY DEF IInv, TypeOK
  <2> QED
    BY <1>1, <1>3, <2>1, <2>2, CommitColumns
    DEF InHand, Written, KeepsSightings, NoneNew, NoneTurnsStale, RunsRest,
        Sessions
<1>4. ASSUME op[o].phase = "apply" PROVE InHand(o) \in Row /\ clock \in Nat
  BY <1>4, InHandType DEF IInv, TypeOK
<1>5. CASE \/ MarkFalsePositive(o) \/ CloseIncident(o)
           \/ Reclassify(o) \/ Relocate(o)
  <2> USE DEF Row, Status
  <2>1. op[o].phase = "apply"
    BY <1>5
    DEF MarkFalsePositive, CloseIncident, Reclassify, Relocate, Correct,
        AskNothing
  <2>2. /\ [InHand(o) EXCEPT !.status = "false_positive", !.changed = clock]
             \in Row
        /\ [InHand(o) EXCEPT !.status = "closed", !.changed = clock] \in Row
        /\ [InHand(o) EXCEPT !.status = "open", !.changed = clock] \in Row
        /\ \A c \in Categories : [InHand(o) EXCEPT !.category = c] \in Row
        /\ \A x \in Positions : [InHand(o) EXCEPT !.pos = x] \in Row
    BY <1>4, <2>1, EventAssumption
  <2>3. CASE MarkFalsePositive(o)
    BY <1>3, <1>4, <2>1, <2>2, <2>3 DEF MarkFalsePositive
  <2>4. CASE CloseIncident(o)
    BY <1>3, <1>4, <2>1, <2>2, <2>4 DEF CloseIncident
  <2>5. CASE Reclassify(o)
    BY <1>0, <1>3, <1>4, <2>1, <2>2, <2>5 DEF Reclassify
  <2>6. CASE Relocate(o)
    BY <1>0, <1>3, <1>4, <2>1, <2>2, <2>6 DEF Relocate
  <2> QED BY <1>5, <2>3, <2>4, <2>5, <2>6
<1>6. CASE Merge(o)
  <2> DEFINE i == op[o].inc
             t == op[o].target
             links == cache[o][t].linked \cup cache[o][i].linked
             new == [cache[o] EXCEPT ![t].linked = links,
                                     ![t].count = Cardinality(links),
                                     ![i].status = "closed"]
  <2>1. /\ i \in Ids /\ t \in Ids
        /\ cache[o][i] \in Row /\ cache[o][t] \in Row
        /\ cache[o] \in [Ids -> Row \cup {NoRow}]
    BY <1>1, <1>6, InHandType DEF Merge, InHand, IInv, TypeOK
  <2>2. /\ rows' = [j \in Ids |-> IF j \in {i, t}
                                   THEN Updated(rows[j], cache[o][j], new[j])
                                   ELSE rows[j]]
        /\ cache' = [cache EXCEPT ![o] = Expired]
        /\ clock' = clock /\ job' = job
    BY <1>6 DEF Merge
  <2>3. \A j \in {i, t} : /\ rows[j] \in Row
                          /\ rows'[j] = Updated(rows[j], cache[o][j], new[j])
    BY <1>1, <2>1, <2>2, NoRowAssumption DEF IInv, TypeOK, CacheExists
  <2>4. \A j \in {i, t} : /\ new[j].seen = cache[o][j].seen
                          /\ new[j].sources = cache[o][j].sources
                          /\ \/ new[j].status = cache[o][j].status
                             \/ new[j].status = "closed"
    BY <2>1 DEF Row
  <2> HIDE DEF new
  <2>5. \A j \in {i, t} :
          /\ rows'[j].seen = rows[j].seen /\ rows'[j].sources = rows[j].sources
          /\ rows'[j].status \in {rows[j].status, "closed"}
    BY <2>3, <2>4 DEF Updated
  <2>6. \A j \in Ids : rows[j] # NoRow <=> rows'[j] # NoRow
    BY <1>6, MergeRows
  <2> QED BY <1>1, <2>2, <2>3, <2>5, <2>6, NoRowAssumption
    DEF KeepsSightings, NoneNew, NoneTurnsStale, RunsRest, IInv, TypeOK,
        Sessions
<1> QED BY <1>2, <1>5, <1>6 DEF OperatorStep
-----------------------------------------------------------------------------
(***************************************************************************)
(* The audit trail.                                                        *)
(***************************************************************************)

(* The requests between their two commits. *)
Auditing == {o \in Operators : op[o].phase = "audit"}

Owed == applied + void - Len(audit) - Cardinality(Auditing)

AuditBound == Owed >= 0 /\ Owed <= faults * Cardinality(Operators)

LEMMA AuditingCount ==
  /\ IsFiniteSet(Auditing) /\ Cardinality(Auditing) \in Nat
  /\ Cardinality(Operators) \in Nat
  /\ Cardinality(Auditing) <= Cardinality(Operators)
<1>1. Auditing \subseteq Operators /\ IsFiniteSet(Operators)
  BY ActorAssumption DEF Auditing
<1> QED BY <1>1, FS_Subset, FS_CardinalityType

LEMMA NumbersTyped ==
  ASSUME IInv
  PROVE  /\ applied \in Nat /\ void \in Nat
         /\ Len(audit) \in Nat /\ faults \in Nat
  BY DEF IInv, TypeOK

(* A step that owes as much as before. *)
LEMMA SameOwed ==
  ASSUME IInv, AuditBound, faults' = faults, Owed' = Owed PROVE AuditBound'
  BY DEF AuditBound

(* What the counts are of does not change. *)
LEMMA NothingOwed ==
  ASSUME IInv, AuditBound, applied' = applied, void' = void, audit' = audit,
         faults' = faults, Auditing' = Auditing
  PROVE  AuditBound'
  BY DEF AuditBound, Owed

(* A correction is carried out: its request is between its commits. *)
LEMMA ApplyOwes ==
  ASSUME IInv, AuditBound, NEW o \in Operators, op[o].phase = "apply",
         op' = [op EXCEPT ![o].phase = "audit"],
         applied' + void' = applied + void + 1,
         applied' \in Nat, void' \in Nat,
         audit' = audit, faults' = faults
  PROVE  AuditBound'
<1>1. Auditing' = Auditing \cup {o} /\ o \notin Auditing
  BY DEF Auditing, IInv, TypeOK, OpState
<1>2. Cardinality(Auditing') = Cardinality(Auditing) + 1
  BY <1>1, AuditingCount, FS_AddElement
<1>3. /\ applied \in Nat /\ void \in Nat /\ Len(audit) \in Nat
      /\ Cardinality(Auditing) \in Nat /\ Len(audit') = Len(audit)
  BY AuditingCount, NumbersTyped
<1>4. Owed' = applied' + void' - Len(audit) - (Cardinality(Auditing) + 1)
  BY <1>2, <1>3 DEF Owed
<1>5. Owed' = Owed
  BY <1>3, <1>4 DEF Owed
<1> QED BY <1>5, SameOwed

(* The audit row is written: the request is over. *)
LEMMA AuditPays ==
  ASSUME IInv, AuditBound, NEW o \in Operators, WriteAudit(o)
  PROVE  AuditBound'
<1>1. /\ op' = [op EXCEPT ![o] = IdleOp]
      /\ applied' = applied /\ void' = void /\ faults' = faults
      /\ o \in Auditing
  BY DEF WriteAudit, counts, Auditing
<1>2. Len(audit') = Len(audit) + 1
  BY DEF WriteAudit, IInv, TypeOK
<1>3. Auditing' = Auditing \ {o}
  BY <1>1 DEF Auditing, IInv, TypeOK, IdleOp
<1>4. Cardinality(Auditing') = Cardinality(Auditing) - 1
  BY <1>1, <1>3, AuditingCount, FS_RemoveElement
<1>5. Owed' = Owed
  BY <1>1, <1>2, <1>4, AuditingCount, NumbersTyped DEF Owed
<1> QED BY <1>1, <1>5, SameOwed

LEMMA OneMoreFault ==
  ASSUME NEW f \in Nat, NEW n \in Nat PROVE (f + 1) * n = f * n + n
  OBVIOUS

(* A crash forgets the requests between their commits, of which there are  *)
(* no more than operators.                                                 *)
LEMMA CrashOwes ==
  ASSUME IInv, AuditBound, Crash PROVE AuditBound'
<1>1. Auditing' = {}
  BY DEF Crash, Auditing, IdleOp
<1>2. Cardinality(Auditing') = 0
  BY <1>1, FS_EmptySet
<1>3. Owed' = Owed + Cardinality(Auditing)
  BY <1>2, AuditingCount, NumbersTyped DEF Crash, tables, Owed
<1>4. faults' = faults + 1
  BY DEF Crash
<1>5. faults' * Cardinality(Operators)
        = faults * Cardinality(Operators) + Cardinality(Operators)
  BY <1>4, OneMoreFault, AuditingCount, NumbersTyped
<1>6. Owed \in Int /\ faults * Cardinality(Operators) \in Int
  BY AuditingCount, NumbersTyped DEF Owed
<1> QED BY <1>3, <1>5, <1>6, AuditingCount DEF AuditBound

LEMMA RunFailsOwes ==
  ASSUME IInv, AuditBound, NEW p \in Jobs, RunFails(p) PROVE AuditBound'
<1>1. Owed' = Owed /\ faults' = faults + 1
  BY DEF RunFails, tables, Owed, Auditing
<1>2. faults' * Cardinality(Operators)
        = faults * Cardinality(Operators) + Cardinality(Operators)
  BY <1>1, OneMoreFault, AuditingCount, NumbersTyped
<1>3. Owed \in Int /\ faults * Cardinality(Operators) \in Int
  BY AuditingCount, NumbersTyped DEF Owed
<1> QED BY <1>1, <1>2, <1>3, AuditingCount DEF AuditBound

LEMMA NextKeepsAudit ==
  ASSUME IInv, AuditBound, [Next]_vars PROVE AuditBound'
<1>1. CASE UNCHANGED <<audit, op, applied, void, faults>>
  BY <1>1, NothingOwed DEF Auditing
<1>2. CASE UNCHANGED vars
  BY <1>1, <1>2 DEF vars, tables, counts
<1>3. CASE Tick \/ (\E e \in Events : Ingest(e))
  BY <1>1, <1>3 DEF Tick, Ingest, tables, counts
<1>4. ASSUME NEW p \in Jobs, StartClustering(p) \/ StartLifecycle(p)
      PROVE  AuditBound'
  BY <1>1, <1>4 DEF StartClustering, StartLifecycle, tables
<1>5. ASSUME NEW p \in Jobs, RunFails(p) PROVE AuditBound'
  BY <1>5, RunFailsOwes
<1>6. ASSUME NEW p \in Jobs, JobStep(p) PROVE AuditBound'
  BY <1>1, <1>6
  DEF JobStep, FetchActive, MatchEvent, AssignEvent, CreateIncident,
      SelectStale, CheckStale, TransitionToStale, SelectUpdated, CheckOpen,
      TransitionToOpen, EndLifecycle, Check, Transit, tables, counts
<1>7. ASSUME NEW o \in Operators, RequestCorrection(o) PROVE AuditBound'
  <2>1. PICK i, k, t :
          op' = [op EXCEPT ![o] = [phase |-> "apply", kind |-> k, inc |-> i,
                                   target |-> t, before |-> rows[i].status]]
    BY <1>7 DEF RequestCorrection
  <2>2. Auditing' = Auditing
    BY <1>7, <2>1 DEF RequestCorrection, Auditing, IInv, TypeOK
  <2> QED BY <1>7, <2>2, NothingOwed DEF RequestCorrection, tables
<1>8. ASSUME NEW o \in Operators, OperatorStep(o) PROVE AuditBound'
  <2>1. CASE WriteAudit(o)
    BY <2>1, AuditPays
  <2>2. CASE ~WriteAudit(o)
    <3>1. /\ op[o].phase = "apply"
          /\ op' = [op EXCEPT ![o].phase = "audit"]
          /\ \/ applied' = applied + 1 /\ void' = void
             \/ void' = void + 1 /\ applied' = applied
          /\ UNCHANGED <<audit, faults>>
      BY <1>8, <2>2
      DEF OperatorStep, MarkFalsePositive, CloseIncident, Reclassify,
          Relocate, Merge, Correct, AskNothing, tables
    <3>2. /\ applied' + void' = applied + void + 1
          /\ applied' \in Nat /\ void' \in Nat
      BY <3>1, NumbersTyped
    <3> QED BY <3>1, <3>2, ApplyOwes
  <2> QED BY <2>1, <2>2
<1>9. CASE Crash
  BY <1>9, CrashOwes
<1> QED
  BY <1>2, <1>3, <1>4, <1>5, <1>6, <1>7, <1>8, <1>9 DEF Next

(* The audit trail never runs ahead of the corrections that were carried   *)
(* out, whether they changed anything or not, and a crash leaves it behind *)
(* by at most the requests then between their change and its record.       *)
THEOREM AuditFollows == Spec => []AuditAccounts
<1>1. Init => AuditBound
  <2> SUFFICES ASSUME Init PROVE AuditBound
    OBVIOUS
  <2>1. Auditing = {}
    BY DEF Init, Auditing, IdleOp
  <2>2. Owed = 0 /\ faults = 0
    BY <2>1, FS_EmptySet DEF Init, Owed
  <2> QED BY <2>2, AuditingCount DEF AuditBound
<1>2. IInv /\ AuditBound /\ [Next]_vars => AuditBound'
  BY NextKeepsAudit
<1>3. AuditBound => AuditAccounts
  BY DEF AuditBound, AuditAccounts, Owed, Auditing
<1> QED BY <1>1, <1>2, <1>3, Invariance, PTL DEF Spec
-----------------------------------------------------------------------------
(***************************************************************************)
(* Aging: how old what a run works on is.                                  *)
(***************************************************************************)

(* A clustering run reads events of its window and ends in time, and an    *)
(* incident it has loaded has meanwhile been seen only by the runs beside. *)
Timely(p) ==
  job[p].phase \in ClusterPhase =>
    /\ job[p].now <= clock /\ clock <= job[p].now + Timeout
    /\ job[p].event \subseteq job[p].todo
    /\ \A e \in job[p].todo : EventTime[e] >= job[p].now - Window
    /\ \A i \in Ids : cache[p][i] # NoRow =>
         \/ rows[i].seen = cache[p][i].seen
         \/ rows[i].seen >= job[p].now - Timeout - Window

(* An event is assigned to an incident last seen at about its time. *)
Near(p) ==
  job[p].phase = "assign" =>
    \A e \in job[p].event :
      TimeWeight * Distance(EventTime[e], cache[p][job[p].target].seen)
        < Epsilon

RestsExpired(p) == job[p].phase \in {"idle", "age"} => cache[p] = Expired

Ages(p) == job[p].phase \in AgingPhase \ {"age"}

(* The incidents that a lifecycle run takes for quiet are so still, and    *)
(* none that it is to reopen has become stale.                             *)
WorksOnQuiet(p) ==
  /\ job[p].phase \in {"stale", "to_stale"} =>
       \A i \in job[p].work : rows[i].seen < job[p].now - StaleAge
  /\ job[p].phase \in {"updated", "to_open"} =>
       \A i \in job[p].work : rows[i].status # "stale"
  /\ Ages(p) => job[p].now <= clock

Aged(p) == Timely(p) /\ Near(p) /\ RestsExpired(p) /\ WorksOnQuiet(p)

StaleIsOld ==
  \A i \in Ids :
    rows[i] # NoRow /\ rows[i].status = "stale"
      => rows[i].seen < clock - StaleAge

OneAges == \A p, q \in Jobs : Ages(p) /\ Ages(q) => p = q

AgeInv ==
  /\ IInv
  /\ \A p \in Jobs : Aged(p)
  /\ StaleIsOld
  /\ OneAges

LEMMA InitAgeInv == ASSUME Init PROVE AgeInv
<1>1. \A i \in Ids : rows[i] = NoRow
  BY DEF Init
<1>2. ASSUME NEW p \in Jobs PROVE Aged(p) /\ ~Ages(p)
  <2>1. job[p] = IdleJob /\ p \in Sessions /\ cache[p] = Expired
    BY DEF Init, Sessions
  <2>2. job[p].phase = "idle"
    BY <2>1 DEF IdleJob
  <2> QED BY <2>1, <2>2
          DEF Aged, Timely, Near, RestsExpired, WorksOnQuiet, Ages,
              ClusterPhase, AgingPhase
<1> QED BY <1>1, <1>2, InitIInv DEF AgeInv, StaleIsOld, OneAges

LEMMA Numbers ==
  /\ Window \in Nat /\ Timeout \in Nat /\ StaleAge \in Nat
  /\ TimeWeight \in Nat /\ Epsilon \in Nat
  BY BoundAssumption

-----------------------------------------------------------------------------
(* A row is seen again only if it has been seen lately, and turns stale    *)
(* only if it has not.                                                     *)
RowAges(i) ==
  /\ rows'[i] # NoRow
  /\ \/ rows'[i].seen = rows[i].seen
     \/ /\ rows[i].seen >= clock - StaleAge
        /\ rows'[i].seen >= clock - Timeout - Window
  /\ rows[i].status # "stale" /\ rows'[i].status = "stale" =>
       rows'[i].seen = rows[i].seen /\ rows[i].seen < clock - StaleAge

TurnsStale(i) == rows[i].status # "stale" /\ rows'[i].status = "stale"

(* What a step of session s does to the table. *)
RowsAge(s) ==
  \A i \in Ids :
    /\ rows[i] # NoRow =>
         RowAges(i) /\ (TurnsStale(i) => s \in Jobs /\ Ages(s))
    /\ rows[i] = NoRow /\ rows'[i] # NoRow => rows'[i].status = "open"

(* Such a step leaves every other session right. *)
LEMMA StepAges ==
  ASSUME AgeInv, IInv', NEW s, RowsAge(s), clock' = clock,
         \A q \in Jobs : q # s => job'[q] = job[q] /\ cache'[q] = cache[q],
         s \in Jobs => Aged(s)',
         s \in Jobs => \/ ~Ages(s)' \/ Ages(s)
                       \/ \A q \in Jobs : ~Ages(q)
  PROVE  AgeInv'
<1>1. /\ clock \in Nat /\ job \in [Jobs -> JobState]
      /\ rows \in [Ids -> Row \cup {NoRow}]
      /\ rows' \in [Ids -> Row \cup {NoRow}]
  BY DEF AgeInv, IInv, TypeOK
<1>2. ASSUME NEW q \in Jobs, q # s PROVE Aged(q)'
  <2>1. /\ job'[q] = job[q] /\ cache'[q] = cache[q]
        /\ job[q].now \in Nat /\ job[q].work \subseteq Ids
        /\ Aged(q) /\ JobHolds(q)
    BY <1>1, <1>2 DEF AgeInv, IInv, JobState
  <2>2. ASSUME job[q].phase \in ClusterPhase, NEW i \in Ids,
               cache[q][i] # NoRow
        PROVE  \/ rows'[i].seen = cache[q][i].seen
               \/ rows'[i].seen >= job[q].now - Timeout - Window
    <3>1. rows[i] # NoRow /\ q \in Sessions
      BY <2>2 DEF AgeInv, IInv, CacheExists, Sessions
    <3>2. rows[i].seen \in Nat /\ rows'[i].seen \in Nat
      BY <1>1, <3>1 DEF RowsAge, RowAges, Row
    <3>3. /\ \/ rows'[i].seen = rows[i].seen
             \/ rows'[i].seen >= clock - Timeout - Window
          /\ \/ rows[i].seen = cache[q][i].seen
             \/ rows[i].seen >= job[q].now - Timeout - Window
          /\ job[q].now <= clock
      BY <2>1, <2>2, <3>1 DEF RowsAge, RowAges, Aged, Timely
    <3> QED BY <1>1, <2>1, <3>2, <3>3, Numbers
  <2>3. Timely(q)'
    BY <2>1, <2>2 DEF Aged, Timely
  <2>4. Near(q)' /\ RestsExpired(q)'
    BY <2>1 DEF Aged, Near, RestsExpired
  <2>5. ASSUME job[q].phase \in {"stale", "to_stale"}, NEW i \in job[q].work
        PROVE  rows'[i].seen < job[q].now - StaleAge
    <3>1. /\ rows[i] # NoRow /\ i \in Ids
          /\ rows[i].seen < job[q].now - StaleAge
          /\ job[q].now <= clock
      BY <2>1, <2>5 DEF JobHolds, Aged, WorksOnQuiet, Ages, AgingPhase
    <3>2. rows[i].seen \in Nat
      BY <1>1, <3>1 DEF Row
    <3>3. ~(rows[i].seen >= clock - StaleAge)
      BY <1>1, <2>1, <3>1, <3>2, Numbers
    <3> QED BY <3>1, <3>3 DEF RowsAge, RowAges
  <2>6. ASSUME job[q].phase \in {"updated", "to_open"}, NEW i \in job[q].work
        PROVE  rows'[i].status # "stale"
    <3>1. rows[i] # NoRow /\ i \in Ids /\ rows[i].status # "stale"
      BY <2>1, <2>6 DEF JobHolds, Aged, WorksOnQuiet
    <3>2. ~(s \in Jobs /\ Ages(s))
      BY <1>2, <2>6 DEF AgeInv, OneAges, Ages, AgingPhase
    <3> QED BY <3>1, <3>2 DEF RowsAge, TurnsStale
  <2>7. WorksOnQuiet(q)'
    BY <2>1, <2>5, <2>6 DEF Aged, WorksOnQuiet, Ages
  <2> QED BY <2>3, <2>4, <2>7 DEF Aged
<1>3. StaleIsOld'
  <2> SUFFICES ASSUME NEW i \in Ids, rows'[i] # NoRow,
                      rows'[i].status = "stale"
               PROVE  rows'[i].seen < clock - StaleAge
    BY DEF StaleIsOld
  <2>1. rows[i] # NoRow
    BY DEF RowsAge
  <2>2. rows[i].seen \in Nat
    BY <1>1, <2>1 DEF Row
  <2>3. CASE rows[i].status = "stale"
    <3>1. ~(rows[i].seen >= clock - StaleAge)
      BY <1>1, <2>1, <2>2, <2>3, Numbers DEF AgeInv, StaleIsOld
    <3> QED BY <2>1, <2>3, <3>1, <1>1, <2>2, Numbers
            DEF RowsAge, RowAges, AgeInv, StaleIsOld
  <2>4. CASE rows[i].status # "stale"
    BY <2>1, <2>4 DEF RowsAge, RowAges
  <2> QED BY <2>3, <2>4
<1>4. \A q \in Jobs : q # s => (Ages(q)' <=> Ages(q))
  BY DEF Ages
<1>5. OneAges'
  BY <1>4 DEF AgeInv, OneAges
<1> QED BY <1>2, <1>3, <1>5 DEF AgeInv
-----------------------------------------------------------------------------
(* What a step of run p does: it keeps the table and itself right, and     *)
(* starts to age only when no other run does.                              *)
StaleStays ==
  \A i \in Ids : rows[i] # NoRow /\ rows[i].status = "stale"
                   => rows'[i].status = "stale"

RunAges(p) ==
  /\ clock' = clock
  /\ RowsAge(p) /\ StaleStays
  /\ Aged(p)'
  /\ Ages(p)' => Ages(p) \/ \A q \in Jobs : ~Ages(q)

(* A step that writes no row. *)
LEMMA ReadsOnly ==
  ASSUME rows' = rows, NEW s PROVE RowsAge(s) /\ StaleStays
  BY DEF RowsAge, RowAges, TurnsStale, StaleStays

(* A run that does nothing yet, or no longer. *)
LEMMA RestAges ==
  ASSUME NEW p, job'[p].phase \in {"idle", "age"}, cache'[p] = Expired
  PROVE  Aged(p)' /\ ~Ages(p)'
  BY DEF Aged, Timely, Near, RestsExpired, WorksOnQuiet, Ages, ClusterPhase,
         AgingPhase

(* A clustering run that reads rows of S. *)
LEMMA ReadAges ==
  ASSUME AgeInv, NEW p \in Jobs, NEW S \in SUBSET Ids, Load(p, S),
         rows' = rows, clock' = clock, job[p].phase \in ClusterPhase,
         job'[p].phase \in ClusterPhase, job'[p].now = job[p].now,
         job'[p].todo = job[p].todo, job'[p].event \subseteq job[p].todo,
         \A i \in S : rows[i] # NoRow,
         Near(p)'
  PROVE  RunAges(p)
<1>1. /\ clock \in Nat /\ job[p] \in JobState /\ p \in Sessions
      /\ cache \in [Sessions -> [Ids -> Row \cup {NoRow}]]
      /\ rows \in [Ids -> Row \cup {NoRow}]
  BY DEF AgeInv, IInv, TypeOK, Sessions
<1>2. cache'[p] = Loaded(p, S)
  BY <1>1 DEF Load
<1>3. Timely(p)
  BY DEF AgeInv, Aged
<1>4. \A i \in Ids : cache'[p][i] # NoRow =>
        \/ rows'[i].seen = cache'[p][i].seen
        \/ rows'[i].seen >= job'[p].now - Timeout - Window
  BY <1>1, <1>2, <1>3 DEF Loaded, Timely
<1>5. Timely(p)'
  BY <1>3, <1>4 DEF Timely
<1>6. Aged(p)' /\ ~Ages(p)'
  BY <1>5 DEF Aged, RestsExpired, WorksOnQuiet, Ages, ClusterPhase, AgingPhase
<1> QED BY <1>6, ReadsOnly DEF RunAges

LEMMA FetchActiveAges ==
  ASSUME AgeInv, NEW p \in Jobs, FetchActive(p) PROVE RunAges(p)
<1>1. PICK c \in {EventCategory[e] : e \in job[p].todo},
           S \in SUBSET Existing :
        /\ job' = [job EXCEPT ![p].phase = "match", ![p].category = {c},
                              ![p].work = S]
        /\ Load(p, S)
  <2>1. PICK c \in {EventCategory[e] : e \in job[p].todo} :
          LET active == {i \in Existing : /\ rows[i].category = c
                                          /\ rows[i].status \in ActiveStatus}
          IN  /\ job' = [job EXCEPT ![p].phase = "match",
                                    ![p].category = {c},
                                    ![p].work = active]
              /\ Load(p, active)
    BY DEF FetchActive
  <2> QED BY <2>1
<1>2. /\ job \in [Jobs -> JobState] /\ job[p].phase = "fetch"
      /\ rows' = rows /\ clock' = clock
      /\ Timely(p)
  BY DEF FetchActive, AgeInv, Aged, IInv, TypeOK, tables
<1>3. /\ job'[p].phase = "match" /\ job'[p].now = job[p].now
      /\ job'[p].todo = job[p].todo /\ job'[p].event = job[p].event
  BY <1>1, <1>2 DEF JobState
<1>4. job'[p].event \subseteq job[p].todo
  BY <1>2, <1>3 DEF Timely, ClusterPhase
<1>5. Near(p)'
  BY <1>3 DEF Near
<1>6. S \in SUBSET Ids /\ \A i \in S : rows[i] # NoRow
  BY DEF Existing
<1> QED BY <1>1, <1>2, <1>3, <1>4, <1>5, <1>6, ReadAges DEF ClusterPhase

(* An incident that an event is matched to is near in time. *)
LEMMA ClosestIsNear ==
  ASSUME NEW e \in Events, NEW S, NEW loaded, NEW i \in Closest(e, S, loaded),
         loaded[i] \in Row
  PROVE  TimeWeight * Distance(EventTime[e], loaded[i].seen) < Epsilon
<1>1. /\ EventPos[e] \in Int /\ EventTime[e] \in Nat
      /\ loaded[i].pos \in Int /\ loaded[i].seen \in Nat
  BY EventAssumption DEF Row
<1>2. Distance(EventPos[e], loaded[i].pos) >= 0
  BY <1>1 DEF Distance
<1>3. Distance(EventTime[e], loaded[i].seen) \in Int
  BY <1>1 DEF Distance
<1>4. TimeWeight * Distance(EventTime[e], loaded[i].seen) \in Int
  BY <1>3, Numbers
<1>5. Distance(EventPos[e], loaded[i].pos) \in Int
  BY <1>1 DEF Distance
<1>6. Distance(EventPos[e], loaded[i].pos)
        + TimeWeight * Distance(EventTime[e], loaded[i].seen) < Epsilon
  BY DEF Closest, MixedDistance
<1> QED BY <1>2, <1>4, <1>5, <1>6, Numbers

LEMMA MatchEventAges ==
  ASSUME AgeInv, NEW p \in Jobs, MatchEvent(p) PROVE RunAges(p)
<1> DEFINE S == job[p].work
           loaded == Loaded(p, S)
<1>1. /\ job \in [Jobs -> JobState] /\ job[p].phase = "match"
      /\ S \in SUBSET Ids /\ \A i \in S : rows[i] # NoRow
      /\ Load(p, S) /\ rows' = rows /\ clock' = clock
      /\ p \in Sessions /\ CacheExists /\ TypeOK
  BY DEF MatchEvent, AgeInv, IInv, TypeOK, JobState, JobHolds, Sessions, tables
<1>2. PICK e \in job[p].todo :
        \/ \E i \in Closest(e, S, loaded) :
             job' = [job EXCEPT ![p].phase = "assign",
                                ![p].event = {e}, ![p].target = i]
        \/ job' = [job EXCEPT ![p].phase = "create",
                              ![p].event = {e}, ![p].target = 0]
  BY DEF MatchEvent, InCategory
<1>3. /\ e \in Events
      /\ cache'[p] = loaded
      /\ \A i \in S : loaded[i] \in Row
  <2>1. e \in Events
    BY <1>1 DEF JobState
  <2>2. cache'[p] = loaded
    BY <1>1, LoadKeeps DEF tables
  <2>3. \A i \in S : loaded[i] \in Row
    BY <1>1 DEF Loaded, TypeOK
  <2> QED BY <2>1, <2>2, <2>3
<1>4. /\ job'[p].phase \in {"assign", "create"}
      /\ job'[p].now = job[p].now /\ job'[p].todo = job[p].todo
      /\ job'[p].event = {e}
  BY <1>1, <1>2 DEF JobState
<1>5. Near(p)'
  <2>1. CASE \E i \in Closest(e, S, loaded) :
               job' = [job EXCEPT ![p].phase = "assign",
                                  ![p].event = {e}, ![p].target = i]
    <3>1. PICK i \in Closest(e, S, loaded) :
            job' = [job EXCEPT ![p].phase = "assign",
                               ![p].event = {e}, ![p].target = i]
      BY <2>1
    <3>2. job'[p].target = i
      BY <1>1, <3>1 DEF JobState
    <3>3. i \in S
      BY DEF Closest
    <3>4. TimeWeight * Distance(EventTime[e], loaded[i].seen) < Epsilon
      BY <1>3, <3>3, ClosestIsNear
    <3> HIDE DEF loaded
    <3> QED BY <1>3, <1>4, <3>2, <3>4 DEF Near
  <2>2. CASE job' = [job EXCEPT ![p].phase = "create",
                                ![p].event = {e}, ![p].target = 0]
    BY <1>1, <2>2 DEF Near, JobState
  <2> QED BY <1>2, <2>1, <2>2
<1> QED BY <1>1, <1>4, <1>5, ReadAges DEF ClusterPhase
-----------------------------------------------------------------------------
(* After an event is placed the run goes on with fewer events, or rests.   *)
LEMMA PlacedAges ==
  ASSUME AgeInv, IInv', NEW p \in Jobs, NEW next \in {"match", "fetch"},
         EventPlaced(p, next), job[p].phase \in ClusterPhase, clock' = clock,
         \/ cache'[p] = Expired
         \/ /\ job'[p].phase = "fetch"
            /\ \A i \in Ids : cache'[p][i] # NoRow =>
                 rows'[i].seen = cache'[p][i].seen,
         job'[p].phase # "fetch" => cache'[p] = Expired
  PROVE  Aged(p)' /\ ~Ages(p)'
<1> DEFINE left == job[p].todo \ job[p].event
           other == [IdleJob EXCEPT !.phase = "fetch", !.todo = left,
                                    !.now = job[p].now]
           same  == [job[p] EXCEPT !.phase = next, !.todo = left,
                                   !.event = {}, !.target = 0]
           st    == IF left = {} THEN AfterClustering(p)
                    ELSE IF InCategory(left, job[p].category) = {}
                    THEN other ELSE same
<1>1. job[p] \in JobState /\ job \in [Jobs -> JobState] /\ Timely(p)
  BY DEF AgeInv, Aged, IInv, TypeOK
<1>2. job'[p] = st
  BY <1>1 DEF EventPlaced
<1>3. CASE left = {}
  <2>1. job'[p].phase \in {"idle", "age"}
    BY <1>2, <1>3 DEF AfterClustering, IdleJob
  <2> QED BY <2>1, RestAges
<1>4. CASE left # {}
  <2>1. /\ job'[p].phase \in {"match", "fetch"}
        /\ job'[p].todo \subseteq job[p].todo
        /\ job'[p].now = job[p].now /\ job'[p].event = {}
    <3>1. other.phase = "fetch" /\ other.todo = left /\ other.event = {}
          /\ other.now = job[p].now
      BY DEF IdleJob
    <3>2. same.phase = next /\ same.todo = left /\ same.event = {}
          /\ same.now = job[p].now
      BY <1>1 DEF JobState
    <3> QED BY <1>2, <1>4, <3>1, <3>2
  <2>2. \A i \in Ids : cache'[p][i] # NoRow =>
          rows'[i].seen = cache'[p][i].seen
    BY DEF Expired
  <2>3. Timely(p)'
    BY <1>1, <2>1, <2>2 DEF Timely
  <2> QED BY <2>1, <2>3
          DEF Aged, Near, RestsExpired, WorksOnQuiet, Ages, ClusterPhase,
              AgingPhase
<1> QED BY <1>3, <1>4

(* What holds of the distances up to StaleAge + 1 holds of all: no farther *)
(* event is a match.                                                       *)
LEMMA OutOfReach ==
  ASSUME StaleIsOutOfReach, NEW d \in Nat, TimeWeight * d < Epsilon
  PROVE  Window + 2 * Timeout + d <= StaleAge
<1>1. CASE d \in 0..(StaleAge + 1)
  BY <1>1 DEF StaleIsOutOfReach
<1>2. CASE d \notin 0..(StaleAge + 1)
  <2> DEFINE x == StaleAge + 1
  <2>1. x \in 0..(StaleAge + 1) /\ x \in Nat /\ d - x \in Nat
    BY <1>2, Numbers
  <2>2. ~(TimeWeight * x < Epsilon)
    BY <2>1, Numbers DEF StaleIsOutOfReach
  <2>3. TimeWeight * (d - x) \in Nat /\ TimeWeight * x \in Nat
    BY <2>1, Numbers
  <2>4. TimeWeight * d = TimeWeight * x + TimeWeight * (d - x)
    BY <2>1, Numbers
  <2>5. TimeWeight * d \in Nat
    BY Numbers
  <2> HIDE DEF x
  <2> QED BY <2>2, <2>3, <2>4, <2>5, Numbers
<1> QED BY <1>1, <1>2

(* What an event is assigned to has been seen lately, whoever has assigned *)
(* another to it since the run loaded it.                                  *)
LEMMA AssignedIsRecent ==
  ASSUME StaleIsOutOfReach, NEW now \in Nat, NEW c \in Nat, NEW t \in Nat,
         NEW loaded \in Nat, NEW seen \in Nat,
         now <= c, c <= now + Timeout, t >= now - Window,
         TimeWeight * Distance(t, loaded) < Epsilon,
         seen = loaded \/ seen >= now - Timeout - Window
  PROVE  seen >= c - StaleAge /\ t >= c - Timeout - Window
<1>1. Distance(t, loaded) \in Nat
  BY DEF Distance
<1>2. Window + 2 * Timeout + Distance(t, loaded) <= StaleAge
  BY <1>1, OutOfReach
<1>3. loaded >= t - Distance(t, loaded)
  BY DEF Distance
<1> HIDE DEF Distance
<1> QED BY <1>1, <1>2, <1>3, Numbers

LEMMA AssignEventAges ==
  ASSUME StaleIsOutOfReach, AgeInv, NEW p \in Jobs, AssignEvent(p)
  PROVE  RunAges(p)
<1> DEFINE i   == job[p].target
           row == cache[p][i]
<1>1. /\ i \in Ids /\ row # NoRow
      /\ clock \in Nat /\ p \in Sessions /\ job[p] \in JobState
  BY AssignEventWrites DEF AgeInv, IInv, TypeOK, Sessions
<1>2. PICK e \in job[p].event, new \in Row :
        /\ Commit(p, i, new)
        /\ e \in Events
        /\ new.status = "updated"
        /\ new.seen = Larger(row.seen, EventTime[e])
  BY AssignEventWrites DEF AgeInv
<1>3. /\ rows[i] \in Row /\ row \in Row
      /\ \A j \in Ids : j # i => rows'[j] = rows[j]
      /\ \A j \in Ids : rows'[j] # NoRow <=> rows[j] # NoRow
      /\ rows'[i].seen = Written(rows[i].seen, row.seen, new.seen)
      /\ rows'[i].status = Written(rows[i].status, row.status, new.status)
      /\ cache' = [cache EXCEPT ![p] = Expired]
  BY <1>1, <1>2, CommitColumns DEF AgeInv
<1>4. /\ job[p].now \in Nat /\ row.seen \in Nat /\ rows[i].seen \in Nat
      /\ EventTime[e] \in Nat
      /\ job[p].now <= clock /\ clock <= job[p].now + Timeout
      /\ EventTime[e] >= job[p].now - Window
      /\ TimeWeight * Distance(EventTime[e], row.seen) < Epsilon
      /\ \/ rows[i].seen = row.seen
         \/ rows[i].seen >= job[p].now - Timeout - Window
  <2>1. Timely(p) /\ Near(p) /\ job[p].phase = "assign"
    BY DEF AssignEvent, AgeInv, Aged
  <2> QED BY <1>1, <1>2, <1>3, <2>1, EventAssumption
          DEF Timely, Near, JobState, Row, ClusterPhase
<1>5. /\ rows[i].seen >= clock - StaleAge
      /\ EventTime[e] >= clock - Timeout - Window
  BY <1>1, <1>4, AssignedIsRecent
<1>6. rows[i].status # "stale" /\ rows'[i].status # "stale"
  <2>1. rows[i].status # "stale"
    BY <1>1, <1>3, <1>4, <1>5, Numbers, NoRowAssumption DEF AgeInv, StaleIsOld
  <2> QED BY <1>2, <1>3, <2>1 DEF Written
<1>7. \/ rows'[i].seen = rows[i].seen
      \/ rows'[i].seen >= clock - Timeout - Window
  BY <1>2, <1>3, <1>5 DEF Written, Larger
<1>8. RowsAge(p) /\ StaleStays
  BY <1>1, <1>3, <1>5, <1>6, <1>7, NoRowAssumption
  DEF RowsAge, RowAges, TurnsStale, StaleStays
<1>9. /\ clock' = clock /\ EventPlaced(p, "match")
      /\ job[p].phase \in ClusterPhase
      /\ cache'[p] = Expired
  BY <1>1, <1>3 DEF AssignEvent, ClusterPhase, AgeInv, IInv, TypeOK
<1>10. IInv'
  BY AssignEventIInv DEF AgeInv
<1>11. Aged(p)' /\ ~Ages(p)'
  BY <1>9, <1>10, PlacedAges
<1> QED BY <1>8, <1>9, <1>11 DEF RunAges
-----------------------------------------------------------------------------
LEMMA CreateIncidentAges ==
  ASSUME AgeInv, NEW p \in Jobs, CreateIncident(p) PROVE RunAges(p)
<1> DEFINE new(e) == [status |-> "open", changed |-> clock,
                      seen |-> EventTime[e], pos |-> EventPos[e],
                      category |-> EventCategory[e], founder |-> e,
                      linked |-> {e}, count |-> 1,
                      sources |-> {EventSource[e]}]
<1>1. PICK e \in Events, i \in Ids :
        /\ rows[i] = NoRow
        /\ rows' = [rows EXCEPT ![i] = new(e)]
        /\ EventPlaced(p, "fetch")
        /\ cache' = [cache EXCEPT ![p] = IF job'[p].phase = "fetch"
                                          THEN [Expired EXCEPT ![i] = new(e)]
                                          ELSE Expired]
  BY DEF CreateIncident, AgeInv, IInv, TypeOK, JobState
<1>2. new(e).status = "open"
  OBVIOUS
<1> HIDE DEF new
<1>3. /\ \A j \in Ids : j # i => rows'[j] = rows[j]
      /\ rows'[i] = new(e) /\ p \in Sessions
      /\ cache \in [Sessions -> [Ids -> Row \cup {NoRow}]]
  BY <1>1 DEF AgeInv, IInv, TypeOK, Sessions
<1>4. RowsAge(p) /\ StaleStays
  BY <1>1, <1>2, <1>3 DEF RowsAge, RowAges, TurnsStale, StaleStays
<1>5. /\ clock' = clock /\ job[p].phase \in ClusterPhase
  BY DEF CreateIncident, ClusterPhase
<1>6. CASE job'[p].phase = "fetch"
  <2>1. cache'[p] = [Expired EXCEPT ![i] = new(e)]
    BY <1>1, <1>3, <1>6
  <2>2. \A j \in Ids : cache'[p][j] # NoRow =>
          rows'[j].seen = cache'[p][j].seen
    BY <1>3, <2>1 DEF Expired
  <2>3. Aged(p)' /\ ~Ages(p)'
    BY <1>1, <1>5, <1>6, <2>2, CreateIncidentIInv, PlacedAges DEF AgeInv
  <2> QED BY <1>4, <1>5, <2>3 DEF RunAges
<1>7. CASE job'[p].phase # "fetch"
  <2>1. cache'[p] = Expired
    BY <1>1, <1>3, <1>7
  <2>2. Aged(p)' /\ ~Ages(p)'
    BY <1>1, <1>5, <1>7, <2>1, CreateIncidentIInv, PlacedAges DEF AgeInv
  <2> QED BY <1>4, <1>5, <2>2 DEF RunAges
<1> QED BY <1>6, <1>7

(* A lifecycle run in one of its loops. *)
LEMMA LoopAges ==
  ASSUME NEW p, job'[p].phase \in AgingPhase \ {"age"}, job'[p].now <= clock',
         job'[p].phase \in {"stale", "to_stale"} =>
           \A i \in job'[p].work : rows'[i].seen < job'[p].now - StaleAge,
         job'[p].phase \in {"updated", "to_open"} =>
           \A i \in job'[p].work : rows'[i].status # "stale"
  PROVE  Aged(p)'
  BY DEF Aged, Timely, Near, RestsExpired, WorksOnQuiet, Ages, ClusterPhase,
         AgingPhase

LEMMA SelectStaleAges ==
  ASSUME AgeInv, NEW p \in Jobs, SelectStale(p) PROVE RunAges(p)
<1> DEFINE S == {i \in Existing : Quiet(i, clock)}
<1>1. /\ job \in [Jobs -> JobState] /\ clock \in Nat
      /\ rows' = rows /\ clock' = clock
      /\ \A q \in Jobs : ~Ages(q)
      /\ job' = [job EXCEPT ![p].phase = "stale", ![p].work = S,
                            ![p].now = clock]
  BY DEF SelectStale, AgeInv, IInv, TypeOK, Ages, tables
<1>2. \A i \in S : rows[i].seen < clock - StaleAge
  BY DEF Quiet
<1> HIDE DEF S
<1>3. /\ job'[p].phase = "stale" /\ job'[p].now = clock /\ job'[p].work = S
  BY <1>1 DEF JobState
<1>4. Aged(p)'
  BY <1>1, <1>2, <1>3, LoopAges DEF AgingPhase
<1> QED BY <1>1, <1>4, ReadsOnly DEF RunAges

LEMMA SelectUpdatedAges ==
  ASSUME AgeInv, NEW p \in Jobs, SelectUpdated(p) PROVE RunAges(p)
<1> DEFINE S == {i \in Existing : Lapsed(i, job[p].now)}
<1>1. /\ job \in [Jobs -> JobState]
      /\ rows' = rows /\ clock' = clock
      /\ job[p].phase = "stale"
      /\ job' = [job EXCEPT ![p].phase = "updated", ![p].work = S]
  BY DEF SelectUpdated, AgeInv, IInv, TypeOK, tables
<1>2. \A i \in S : rows[i].status # "stale"
  BY DEF Lapsed
<1> HIDE DEF S
<1>3. /\ job'[p].phase = "updated" /\ job'[p].now = job[p].now
      /\ job'[p].work = S
  BY <1>1 DEF JobState
<1>4. Ages(p) /\ job[p].now <= clock
  BY <1>1 DEF AgeInv, Aged, WorksOnQuiet, Ages, AgingPhase
<1>5. Aged(p)'
  BY <1>1, <1>2, <1>3, <1>4, LoopAges DEF AgingPhase
<1> QED BY <1>1, <1>4, <1>5, ReadsOnly DEF RunAges

LEMMA CheckAges ==
  ASSUME AgeInv, NEW p \in Jobs,
         NEW phase, NEW next, NEW allowed, Check(p, phase, next, allowed),
         \/ phase = "stale" /\ next = "to_stale"
         \/ phase = "updated" /\ next = "to_open"
  PROVE  RunAges(p)
<1>1. /\ job \in [Jobs -> JobState]
      /\ rows' = rows /\ clock' = clock
      /\ job[p].phase = phase
  BY DEF Check, AgeInv, IInv, TypeOK, tables
<1>2. /\ job'[p].phase \in {phase, next} /\ job'[p].now = job[p].now
      /\ job'[p].work \subseteq job[p].work
  BY <1>1 DEF Check, JobState
<1>3. Ages(p) /\ WorksOnQuiet(p)
  BY <1>1 DEF AgeInv, Aged, Ages, AgingPhase
<1>4. Aged(p)'
  BY <1>1, <1>2, <1>3, LoopAges DEF AgingPhase, WorksOnQuiet
<1> QED BY <1>1, <1>3, <1>4, ReadsOnly DEF RunAges

(* What a transition writes, of the incident in hand. *)
LEMMA TransitWrites ==
  ASSUME IInv, NEW p \in Jobs, NEW phase \in {"to_stale", "to_open"},
         NEW next, NEW status \in Status, Transit(p, phase, next, status)
  PROVE  LET i == job[p].target
         IN  /\ i \in Ids /\ i \in job[p].work /\ rows[i] # NoRow
             /\ rows'[i].seen = rows[i].seen
             /\ rows'[i].sources = rows[i].sources
             /\ rows'[i].pos = rows[i].pos
             /\ rows'[i].category = rows[i].category
             /\ rows'[i].founder = rows[i].founder
             /\ rows'[i].linked = rows[i].linked
             /\ rows'[i].status \in {rows[i].status, status}
             /\ cache[p][i].status # status => rows'[i].status = status
             /\ \A j \in Ids : j # i => rows'[j] = rows[j]
             /\ \A j \in Ids : rows'[j] # NoRow <=> rows[j] # NoRow
             /\ cache'[p] = Expired
<1> DEFINE i   == job[p].target
           new == [cache[p][i] EXCEPT !.status = status, !.changed = clock]
<1>1. /\ i \in Ids /\ i \in job[p].work
      /\ cache[p][i] \in Row /\ cache[p][i] # NoRow /\ rows[i] # NoRow
      /\ p \in Sessions /\ clock \in Nat
      /\ cache \in [Sessions -> [Ids -> Row \cup {NoRow}]]
  BY NoRowAssumption
  DEF Transit, IInv, TypeOK, JobHolds, JobState, Sessions
<1>2. /\ new \in Row /\ Commit(p, i, new)
      /\ new.seen = cache[p][i].seen /\ new.sources = cache[p][i].sources
      /\ new.pos = cache[p][i].pos /\ new.category = cache[p][i].category
      /\ new.founder = cache[p][i].founder
      /\ new.linked = cache[p][i].linked
      /\ new.status = status
  BY <1>1 DEF Transit, Row
<1> HIDE DEF new
<1> QED BY <1>1, <1>2, CommitColumns DEF Written

LEMMA TransitAges ==
  ASSUME AgeInv, NEW p \in Jobs,
         TransitionToStale(p) \/ TransitionToOpen(p)
  PROVE  RunAges(p)
<1> DEFINE i == job[p].target
<1>1. /\ job \in [Jobs -> JobState] /\ clock' = clock /\ clock \in Nat
      /\ rows \in [Ids -> Row \cup {NoRow}]
      /\ job[p].work \subseteq Ids /\ JobHolds(p) /\ IInv
      /\ WorksOnQuiet(p) /\ job[p].now \in Nat
  BY DEF TransitionToStale, TransitionToOpen, Transit, AgeInv, Aged, IInv,
         TypeOK, JobState
<1>2. CASE TransitionToStale(p)
  <2>1. /\ job[p].phase = "to_stale" /\ job'[p].phase = "stale"
        /\ job'[p].now = job[p].now /\ job'[p].work \subseteq job[p].work
    BY <1>1, <1>2 DEF TransitionToStale, Transit, JobState
  <2>2. /\ i \in Ids /\ i \in job[p].work /\ rows[i] # NoRow
        /\ rows'[i].seen = rows[i].seen
        /\ rows'[i].status \in {rows[i].status, "stale"}
        /\ \A j \in Ids : j # i => rows'[j] = rows[j]
        /\ \A j \in Ids : rows'[j] # NoRow <=> rows[j] # NoRow
    BY <1>1, <1>2, TransitWrites DEF TransitionToStale, Status
  <2>3. /\ Ages(p) /\ job[p].now <= clock
        /\ \A j \in job[p].work : rows[j].seen < job[p].now - StaleAge
    BY <1>1, <2>1 DEF WorksOnQuiet, Ages, AgingPhase
  <2>4. rows[i].seen < clock - StaleAge
    <3>1. rows[i].seen \in Nat /\ rows[i].seen < job[p].now - StaleAge
      BY <1>1, <2>2, <2>3 DEF Row
    <3> QED BY <1>1, <2>3, <3>1, Numbers
  <2>5. RowsAge(p) /\ StaleStays
    BY <2>2, <2>3, <2>4 DEF RowsAge, RowAges, TurnsStale, StaleStays
  <2>6. Aged(p)'
    BY <1>1, <2>1, <2>2, <2>3, LoopAges DEF AgingPhase
  <2> QED BY <1>1, <2>3, <2>5, <2>6 DEF RunAges
<1>3. CASE TransitionToOpen(p)
  <2>1. /\ job[p].phase = "to_open" /\ job'[p].phase = "updated"
        /\ job'[p].now = job[p].now /\ job'[p].work \subseteq job[p].work
    BY <1>1, <1>3 DEF TransitionToOpen, Transit, JobState
  <2>2. /\ i \in Ids /\ i \in job[p].work /\ rows[i] # NoRow
        /\ rows'[i].seen = rows[i].seen
        /\ rows'[i].status \in {rows[i].status, "open"}
        /\ \A j \in Ids : j # i => rows'[j] = rows[j]
        /\ \A j \in Ids : rows'[j] # NoRow <=> rows[j] # NoRow
    BY <1>1, <1>3, TransitWrites DEF TransitionToOpen, Status
  <2>3. /\ Ages(p) /\ job[p].now <= clock
        /\ \A j \in job[p].work : rows[j].status # "stale"
    BY <1>1, <2>1 DEF WorksOnQuiet, Ages, AgingPhase
  <2>4. RowsAge(p) /\ StaleStays
    BY <2>2, <2>3 DEF RowsAge, RowAges, TurnsStale, StaleStays
  <2>5. Aged(p)'
    BY <1>1, <2>1, <2>2, <2>3, LoopAges DEF AgingPhase
  <2> QED BY <1>1, <2>3, <2>4, <2>5 DEF RunAges
<1> QED BY <1>2, <1>3

LEMMA EndLifecycleAges ==
  ASSUME AgeInv, NEW p \in Jobs, EndLifecycle(p) PROVE RunAges(p)
<1>1. /\ clock' = clock /\ rows' = rows
      /\ job'[p].phase = "idle" /\ cache'[p] = Expired
  BY DEF EndLifecycle, AgeInv, IInv, TypeOK, IdleJob, Sessions, tables
<1> QED BY <1>1, RestAges, ReadsOnly DEF RunAges

LEMMA JobStepAges ==
  ASSUME StaleIsOutOfReach, AgeInv, NEW p \in Jobs, JobStep(p)
  PROVE  RunAges(p)
<1>1. CASE CheckStale(p)
  BY <1>1, CheckAges DEF CheckStale
<1>2. CASE CheckOpen(p)
  BY <1>2, CheckAges DEF CheckOpen
<1> QED
  BY <1>1, <1>2, FetchActiveAges, MatchEventAges, AssignEventAges,
     CreateIncidentAges, SelectStaleAges, SelectUpdatedAges, TransitAges,
     EndLifecycleAges
  DEF JobStep
-----------------------------------------------------------------------------
(* The step of a run changes no other run, nor what it has loaded.         *)
LEMMA JobStepAlone ==
  ASSUME IInv, NEW p \in Jobs, JobStep(p), NEW q \in Jobs, q # p
  PROVE  job'[q] = job[q] /\ cache'[q] = cache[q]
<1>1. /\ job \in [Jobs -> JobState] /\ p \in Sessions /\ q \in Sessions
      /\ DOMAIN cache = Sessions
  BY DEF IInv, TypeOK, Sessions
<1>2. CASE FetchActive(p)
  BY <1>1, <1>2 DEF FetchActive, Load
<1>3. CASE MatchEvent(p)
  BY <1>1, <1>3 DEF MatchEvent, Load
<1>4. CASE AssignEvent(p)
  BY <1>1, <1>4 DEF AssignEvent, Commit, EventPlaced
<1>5. CASE CreateIncident(p)
  BY <1>1, <1>5 DEF CreateIncident, EventPlaced
<1>6. CASE SelectStale(p) \/ SelectUpdated(p)
  BY <1>1, <1>6 DEF SelectStale, SelectUpdated, Load
<1>7. CASE CheckStale(p) \/ CheckOpen(p)
  BY <1>1, <1>7 DEF CheckStale, CheckOpen, Check, Load
<1>8. CASE TransitionToStale(p) \/ TransitionToOpen(p)
  BY <1>1, <1>8 DEF TransitionToStale, TransitionToOpen, Transit, Commit
<1>9. CASE EndLifecycle(p)
  BY <1>1, <1>9 DEF EndLifecycle
<1> QED BY <1>2, <1>3, <1>4, <1>5, <1>6, <1>7, <1>8, <1>9 DEF JobStep

LEMMA StartAges ==
  ASSUME AgeInv, NEW p \in Jobs,
         StartClustering(p) \/ StartLifecycle(p) \/ RunFails(p)
  PROVE  RunAges(p) /\ \A q \in Jobs : q # p => /\ job'[q] = job[q]
                                                /\ cache'[q] = cache[q]
<1>1. /\ job \in [Jobs -> JobState] /\ clock \in Nat
      /\ DOMAIN cache = Sessions /\ p \in Sessions
      /\ RestsExpired(p)
  BY DEF AgeInv, Aged, IInv, TypeOK, Sessions
<1>2. CASE StartClustering(p)
  <2> DEFINE recent == {e \in events : EventTime[e] >= clock - Window}
             begun  == [IdleJob EXCEPT !.phase = "fetch", !.todo = recent,
                                       !.now = clock]
             st == IF recent = {} THEN AfterClustering(p) ELSE begun
  <2>1. /\ rows' = rows /\ clock' = clock /\ cache' = cache
        /\ cache[p] = Expired
        /\ job' = [job EXCEPT ![p] = st]
    BY <1>1, <1>2 DEF StartClustering, RestsExpired, tables
  <2>2. /\ AfterClustering(p).phase \in {"idle", "age"}
        /\ begun.phase = "fetch" /\ begun.todo = recent
        /\ begun.now = clock /\ begun.event = {}
    BY DEF AfterClustering, IdleJob
  <2>3. job'[p] = st /\ \A q \in Jobs : q # p => job'[q] = job[q]
    BY <1>1, <2>1
  <2> HIDE DEF begun, recent
  <2>4. CASE recent = {}
    BY <2>1, <2>2, <2>3, <2>4, RestAges, ReadsOnly DEF RunAges
  <2>5. CASE recent # {}
    <3>1. Timely(p)'
      <4>1. \A e \in recent : EventTime[e] >= clock - Window
        BY DEF recent
      <4>2. clock <= clock + Timeout
        BY <1>1, Numbers
      <4> QED BY <1>1, <2>1, <2>2, <2>3, <2>5, <4>1, <4>2 DEF Timely, Expired
    <3>2. Aged(p)' /\ ~Ages(p)'
      BY <2>2, <2>3, <2>5, <3>1
      DEF Aged, Near, RestsExpired, WorksOnQuiet, Ages, AgingPhase
    <3> QED BY <2>1, <2>3, <3>2, ReadsOnly DEF RunAges
  <2> QED BY <2>4, <2>5
<1>3. CASE StartLifecycle(p)
  <2>1. /\ rows' = rows /\ clock' = clock /\ cache' = cache
        /\ cache[p] = Expired /\ job'[p].phase = "age"
        /\ \A q \in Jobs : q # p => job'[q] = job[q]
    BY <1>1, <1>3 DEF StartLifecycle, RestsExpired, JobState, tables
  <2> QED BY <2>1, RestAges, ReadsOnly DEF RunAges
<1>4. CASE RunFails(p)
  <2>1. /\ rows' = rows /\ clock' = clock /\ cache'[p] = Expired
        /\ job'[p].phase = "idle"
        /\ \A q \in Jobs : q # p => job'[q] = job[q] /\ cache'[q] = cache[q]
    BY <1>1, <1>4 DEF RunFails, IdleJob, Sessions, tables
  <2> QED BY <2>1, RestAges, ReadsOnly DEF RunAges
<1> QED BY <1>2, <1>3, <1>4

(* A step of run p. *)
LEMMA RunStepAges ==
  ASSUME AgeInv, IInv', NEW p \in Jobs, RunAges(p),
         \A q \in Jobs : q # p => job'[q] = job[q] /\ cache'[q] = cache[q]
  PROVE  AgeInv'
  BY StepAges DEF RunAges

LEMMA TickAges == ASSUME AgeInv, Tick PROVE AgeInv'
<1>1. IInv' /\ clock \in Nat /\ clock' = clock + 1
      /\ rows' = rows /\ job' = job /\ cache' = cache
      /\ job \in [Jobs -> JobState] /\ rows \in [Ids -> Row \cup {NoRow}]
  BY TickIInv DEF Tick, AgeInv, IInv, TypeOK, tables
<1>2. ASSUME NEW p \in Jobs PROVE Aged(p)'
  <2>1. Aged(p) /\ job[p].now \in Nat
    BY <1>1 DEF AgeInv, JobState
  <2>2. Timely(p)'
    <3>1. job[p].phase \in ClusterPhase => clock < job[p].now + Timeout
      BY DEF Tick
    <3> QED BY <1>1, <2>1, <3>1, Numbers DEF Aged, Timely
  <2>3. Near(p)' /\ RestsExpired(p)'
    BY <1>1, <2>1 DEF Aged, Near, RestsExpired
  <2>4. WorksOnQuiet(p)'
    BY <1>1, <2>1 DEF Aged, WorksOnQuiet, Ages
  <2> QED BY <2>2, <2>3, <2>4 DEF Aged
<1>3. StaleIsOld'
  <2> SUFFICES ASSUME NEW i \in Ids, rows[i] # NoRow, rows[i].status = "stale"
               PROVE  rows[i].seen < clock' - StaleAge
    BY <1>1 DEF StaleIsOld
  <2>1. rows[i].seen \in Nat /\ rows[i].seen < clock - StaleAge
    BY <1>1 DEF AgeInv, StaleIsOld, Row
  <2> QED BY <1>1, <2>1, Numbers
<1>4. OneAges'
  BY <1>1 DEF AgeInv, OneAges, Ages
<1> QED BY <1>1, <1>2, <1>3, <1>4 DEF AgeInv

(* The corrections leave the runs right. *)
LEMMA OperatorsAge ==
  ASSUME AgeInv, NEW o \in Operators, OperatorStep(o) \/ RequestCorrection(o)
  PROVE  AgeInv'
<1>1. o \notin Jobs /\ o \in Sessions /\ IInv /\ DOMAIN cache = Sessions
  BY TwoKinds DEF AgeInv, IInv, TypeOK, Sessions
<1>2. IInv'
  BY <1>1, OperatorStepIInv, RequestCorrectionIInv
<1>3. RowsAge(o) /\ RunsRest
  <2>1. CASE OperatorStep(o)
    <3>1. KeepsSightings /\ NoneNew /\ NoneTurnsStale /\ RunsRest
      BY <1>1, <2>1, OperatorWrites
    <3> QED BY <3>1 DEF KeepsSightings, NoneNew, NoneTurnsStale, RowsAge,
                        RowAges, TurnsStale
  <2>2. CASE RequestCorrection(o)
    <3>1. rows' = rows
      BY <2>2 DEF RequestCorrection, tables
    <3>2. RunsRest
      BY <1>1, <2>2 DEF RequestCorrection, RunsRest, Load, Sessions
    <3> QED BY <3>1, <3>2, ReadsOnly
  <2> QED BY <2>1, <2>2
<1> QED BY <1>1, <1>2, <1>3, StepAges DEF RunsRest

LEMMA NextAgeInv ==
  ASSUME StaleIsOutOfReach, AgeInv, [Next]_vars PROVE AgeInv'
<1>1. IInv'
  BY NextIInv DEF AgeInv
<1>2. CASE Tick
  BY <1>2, TickAges
<1>3. CASE (\E e \in Events : Ingest(e)) \/ UNCHANGED vars
  <2>1. /\ clock' = clock /\ rows' = rows /\ job' = job /\ cache' = cache
    BY <1>3 DEF Ingest, vars, tables
  <2> QED BY <1>1, <2>1
          DEF AgeInv, Aged, Timely, Near, RestsExpired, WorksOnQuiet, Ages,
              StaleIsOld, OneAges
<1>4. ASSUME NEW p \in Jobs,
             StartClustering(p) \/ StartLifecycle(p) \/ RunFails(p)
      PROVE  AgeInv'
  BY <1>1, <1>4, StartAges, RunStepAges
<1>5. ASSUME NEW p \in Jobs, JobStep(p) PROVE AgeInv'
  BY <1>1, <1>5, JobStepAges, JobStepAlone, RunStepAges DEF AgeInv
<1>6. ASSUME NEW o \in Operators, RequestCorrection(o) \/ OperatorStep(o)
      PROVE  AgeInv'
  BY <1>6, OperatorsAge
<1>7. CASE Crash
  <2>1. /\ clock' = clock /\ rows' = rows
        /\ \A p \in Jobs : job'[p].phase = "idle" /\ cache'[p] = Expired
    BY <1>7 DEF Crash, IdleJob, Sessions, tables
  <2>2. \A p \in Jobs : Aged(p)' /\ ~Ages(p)'
    BY <2>1, RestAges
  <2> QED BY <1>1, <2>1, <2>2 DEF AgeInv, StaleIsOld, OneAges
<1> QED BY <1>2, <1>3, <1>4, <1>5, <1>6, <1>7 DEF Next

(* What the runs work on is as old as they take it for. *)
THEOREM RunsAreTimely ==
  ASSUME StaleIsOutOfReach PROVE Spec => []AgeInv
  BY InitAgeInv, NextAgeInv, PTL DEF Spec

(* What any step does to the status of an incident. *)
LEMMA NextStale ==
  ASSUME StaleIsOutOfReach, AgeInv, [Next]_vars, NEW i \in Existing
  PROVE  /\ rows[i].status # "stale" /\ rows'[i].status = "stale"
              => rows[i].seen < clock - StaleAge
         /\ rows[i].status = "stale" /\ rows'[i].status \in {"open", "updated"}
              => OperatorActs
<1>1. i \in Ids /\ rows[i] # NoRow
  BY DEF Existing
<1>2. CASE rows' = rows
  BY <1>2
<1>3. ASSUME NEW p \in Jobs, JobStep(p)
      PROVE  /\ rows[i].status # "stale" /\ rows'[i].status = "stale"
                  => rows[i].seen < clock - StaleAge
             /\ rows[i].status = "stale" => rows'[i].status = "stale"
  <2>1. RowsAge(p) /\ StaleStays
    BY <1>3, JobStepAges DEF RunAges
  <2> QED BY <1>1, <2>1 DEF RowsAge, RowAges, StaleStays
<1>4. ASSUME NEW o \in Operators, OperatorStep(o)
      PROVE  /\ rows'[i].status = "stale" => rows[i].status = "stale"
             /\ OperatorActs
  BY <1>1, <1>4, OperatorWrites, OperatorStepActs DEF AgeInv, NoneTurnsStale
<1>5. Next /\ (\A p \in Jobs : ~JobStep(p))
           /\ (\A o \in Operators : ~OperatorStep(o))
        => rows' = rows
  BY DEF Next, Tick, Ingest, StartClustering, StartLifecycle, RunFails,
         RequestCorrection, Crash, tables
<1>6. UNCHANGED vars => rows' = rows
  BY DEF vars, tables
<1> QED BY <1>2, <1>3, <1>4, <1>5, <1>6

(* An incident that becomes stale has not been seen for StaleAge. *)
THEOREM StaleIsJustified ==
  ASSUME StaleIsOutOfReach PROVE Spec => StaleJustified
<1>1. AgeInv /\ [Next]_vars
        => [\A i \in Existing :
              rows[i].status # "stale" /\ rows'[i].status = "stale"
                => rows[i].seen < clock - StaleAge]_vars
  BY NextStale
<1> QED BY <1>1, RunsAreTimely, PTL DEF Spec, StaleJustified

(* No run takes a stale incident up again. *)
THEOREM StaleIsLeftAlone ==
  ASSUME StaleIsOutOfReach PROVE Spec => StaleLeftAlone
<1>1. AgeInv /\ [Next]_vars
        => [\A i \in Existing :
              rows[i].status = "stale"
                /\ rows'[i].status \in {"open", "updated"}
                  => OperatorActs]_vars
  BY NextStale
<1> QED BY <1>1, RunsAreTimely, PTL DEF Spec, StaleLeftAlone
-----------------------------------------------------------------------------
(***************************************************************************)
(* Observations.                                                           *)
(***************************************************************************)

(* Of the two jobs that cluster only one is run. *)
OneClusterer == ~(Clusterers \subseteq Jobs)

(* What the clustering job has then loaded of an incident's observations   *)
(* is what the table has: nobody else writes them.                         *)
Observes(p) ==
  /\ job[p].phase \in ClusterPhase => p \in Clusterers
  /\ p \in Clusterers =>
       \A i \in Ids : cache[p][i] # NoRow =>
         /\ rows[i].seen = cache[p][i].seen
         /\ rows[i].sources = cache[p][i].sources

ObserveInv == IInv /\ \A p \in Jobs : Observes(p)

Accumulates ==
  \A i \in Ids : rows[i] # NoRow =>
    rows[i].seen <= rows'[i].seen /\ rows[i].sources \subseteq rows'[i].sources

LEMMA InitObserveInv == ASSUME Init PROVE ObserveInv
  BY InitIInv DEF Init, ObserveInv, Observes, Expired, IdleJob, ClusterPhase,
                  Sessions

LEMMA KeptAccumulates == ASSUME IInv, KeepsSightings PROVE Accumulates
  BY DEF IInv, TypeOK, Row, KeepsSightings, Accumulates

(* A session that ends, or has just committed. *)
LEMMA ExpiredObserves ==
  ASSUME NEW p, cache'[p] = Expired,
         job'[p].phase \in ClusterPhase => p \in Clusterers
  PROVE  Observes(p)'
  BY DEF Observes, Expired

(* A step of a run that reads. *)
LEMMA ReadObserves ==
  ASSUME ObserveInv, NEW p \in Jobs, NEW S, Load(p, S),
         rows' = rows,
         job'[p].phase \in ClusterPhase => job[p].phase \in ClusterPhase
  PROVE  Observes(p)' /\ KeepsSightings
<1>1. /\ Observes(p) /\ p \in Sessions
      /\ cache \in [Sessions -> [Ids -> Row \cup {NoRow}]]
  BY DEF ObserveInv, IInv, TypeOK, Sessions
<1>2. cache'[p] = Loaded(p, S)
  BY <1>1 DEF Load
<1>3. p \in Clusterers =>
        \A i \in Ids : cache'[p][i] # NoRow =>
          /\ rows[i].seen = cache'[p][i].seen
          /\ rows[i].sources = cache'[p][i].sources
  BY <1>1, <1>2 DEF Loaded, Observes
<1> QED BY <1>1, <1>3 DEF Observes, KeepsSightings

LEMMA AssignObserves ==
  ASSUME ObserveInv, NEW p \in Jobs, AssignEvent(p)
  PROVE  Accumulates /\ Observes(p)' /\ p \in Clusterers
<1> DEFINE i   == job[p].target
           row == cache[p][i]
<1>1. /\ i \in Ids /\ row \in Row /\ row # NoRow /\ p \in Sessions
      /\ cache \in [Sessions -> [Ids -> Row \cup {NoRow}]]
      /\ rows \in [Ids -> Row \cup {NoRow}] /\ job[p].phase = "assign"
  BY AssignEventWrites DEF ObserveInv, IInv, TypeOK, Sessions, AssignEvent
<1>2. PICK e \in job[p].event, new \in Row :
        /\ Commit(p, i, new)
        /\ e \in Events
        /\ new.seen = Larger(row.seen, EventTime[e])
        /\ new.sources = row.sources \cup {EventSource[e]}
  BY AssignEventWrites DEF ObserveInv
<1>3. /\ \A j \in Ids : j # i => rows'[j] = rows[j]
      /\ rows'[i].seen = Written(rows[i].seen, row.seen, new.seen)
      /\ rows'[i].sources
           = Written(rows[i].sources, row.sources, new.sources)
      /\ rows[i] \in Row /\ cache' = [cache EXCEPT ![p] = Expired]
  <2>1. IInv /\ p \in Sessions /\ i \in Ids /\ row # NoRow
    BY <1>1 DEF ObserveInv
  <2> QED BY <1>2, <2>1, CommitColumns
<1>4. p \in Clusterers
  BY <1>1 DEF ObserveInv, Observes, ClusterPhase
<1>5. rows[i].seen = row.seen /\ rows[i].sources = row.sources
  BY <1>1, <1>4 DEF ObserveInv, Observes
<1>6. row.seen <= new.seen /\ row.sources \subseteq new.sources
  BY <1>1, <1>2, EventAssumption DEF Larger, Row
<1>7. /\ rows[i].seen <= rows'[i].seen
      /\ rows[i].sources \subseteq rows'[i].sources
  <2>1. rows[i].seen <= rows[i].seen
    BY <1>3 DEF Row
  <2> QED BY <1>3, <1>5, <1>6, <2>1 DEF Written
<1>8. Accumulates
  <2>1. \A j \in Ids : rows[j] # NoRow => rows[j].seen <= rows[j].seen
    BY <1>1 DEF Row
  <2> QED BY <1>3, <1>7, <2>1 DEF Accumulates
<1>9. cache'[p] = Expired
  BY <1>1, <1>3
<1> QED BY <1>4, <1>8, <1>9, ExpiredObserves

LEMMA CreateObserves ==
  ASSUME ObserveInv, NEW p \in Jobs, CreateIncident(p)
  PROVE  KeepsSightings /\ Observes(p)' /\ p \in Clusterers
<1> DEFINE new(e) == [status |-> "open", changed |-> clock,
                      seen |-> EventTime[e], pos |-> EventPos[e],
                      category |-> EventCategory[e], founder |-> e,
                      linked |-> {e}, count |-> 1,
                      sources |-> {EventSource[e]}]
<1>1. PICK e \in Events, i \in Ids :
        /\ rows[i] = NoRow
        /\ rows' = [rows EXCEPT ![i] = new(e)]
        /\ cache' = [cache EXCEPT ![p] = IF job'[p].phase = "fetch"
                                          THEN [Expired EXCEPT ![i] = new(e)]
                                          ELSE Expired]
  BY DEF CreateIncident, ObserveInv, IInv, TypeOK, JobState
<1> HIDE DEF new
<1>2. /\ \A j \in Ids : j # i => rows'[j] = rows[j]
      /\ rows'[i] = new(e)
      /\ cache'[p] \in {Expired, [Expired EXCEPT ![i] = new(e)]}
      /\ job[p].phase = "create"
  BY <1>1 DEF CreateIncident, ObserveInv, IInv, TypeOK, Sessions
<1>3. p \in Clusterers
  BY <1>2 DEF ObserveInv, Observes, ClusterPhase
<1>4. \A j \in Ids : cache'[p][j] # NoRow => cache'[p][j] = rows'[j]
  BY <1>2 DEF Expired
<1> QED BY <1>1, <1>2, <1>3, <1>4 DEF KeepsSightings, Observes

(* A step of a run. *)
LEMMA JobObserves ==
  ASSUME ObserveInv, NEW p \in Jobs, JobStep(p)
  PROVE  Accumulates /\ Observes(p)' /\ (KeepsSightings \/ p \in Clusterers)
<1> USE DEF ObserveInv
<1>1. /\ job \in [Jobs -> JobState] /\ p \in Sessions
      /\ DOMAIN cache = Sessions
  BY DEF IInv, TypeOK, Sessions
<1>2. SUFFICES ASSUME ~AssignEvent(p), ~CreateIncident(p)
               PROVE  Observes(p)' /\ KeepsSightings
  BY AssignObserves, CreateObserves, KeptAccumulates
<1>3. CASE FetchActive(p) \/ MatchEvent(p)
  <2>1. /\ \E S : Load(p, S)
        /\ rows' = rows /\ job[p].phase \in ClusterPhase
    BY <1>3 DEF FetchActive, MatchEvent, ClusterPhase, tables
  <2> QED BY <2>1, ReadObserves
<1>4. CASE SelectStale(p) \/ SelectUpdated(p) \/ CheckStale(p) \/ CheckOpen(p)
  <2>1. \E S : Load(p, S)
    BY <1>4 DEF SelectStale, SelectUpdated, CheckStale, CheckOpen, Check
  <2>2. rows' = rows
    BY <1>4
    DEF SelectStale, SelectUpdated, CheckStale, CheckOpen, Check, tables
  <2>3. CASE SelectStale(p) \/ SelectUpdated(p)
    <3>1. job'[p].phase \notin ClusterPhase
      BY <1>1, <2>3 DEF SelectStale, SelectUpdated, ClusterPhase, JobState
    <3> QED BY <2>1, <2>2, <3>1, ReadObserves
  <2>4. CASE CheckStale(p) \/ CheckOpen(p)
    <3>1. job'[p].phase \notin ClusterPhase
      BY <1>1, <2>4 DEF CheckStale, CheckOpen, Check, ClusterPhase, JobState
    <3> QED BY <2>1, <2>2, <3>1, ReadObserves
  <2> QED BY <1>4, <2>3, <2>4
<1>5. CASE TransitionToStale(p) \/ TransitionToOpen(p)
  <2>1. PICK status \in Status, phase \in {"to_stale", "to_open"},
             next \in {"stale", "updated"} : Transit(p, phase, next, status)
    BY <1>5 DEF TransitionToStale, TransitionToOpen, Status
  <2> DEFINE i == job[p].target
  <2>2. /\ i \in Ids
        /\ rows'[i].seen = rows[i].seen /\ rows'[i].sources = rows[i].sources
        /\ \A j \in Ids : j # i => rows'[j] = rows[j]
        /\ \A j \in Ids : rows'[j] # NoRow <=> rows[j] # NoRow
        /\ cache'[p] = Expired
    BY <2>1, TransitWrites
  <2>3. job'[p].phase \notin ClusterPhase
    BY <1>1, <2>1 DEF Transit, ClusterPhase, JobState
  <2> QED BY <2>2, <2>3, ExpiredObserves DEF KeepsSightings
<1>6. CASE EndLifecycle(p)
  <2>1. /\ rows' = rows /\ cache'[p] = Expired
        /\ job'[p].phase \notin ClusterPhase
    BY <1>1, <1>6 DEF EndLifecycle, IdleJob, ClusterPhase, tables
  <2> QED BY <2>1, ExpiredObserves DEF KeepsSightings
<1> QED BY <1>2, <1>3, <1>4, <1>5, <1>6 DEF JobStep

(* A step of session s leaves what the others have loaded true. *)
LEMMA OthersObserve ==
  ASSUME OneClusterer, ObserveInv, NEW s,
         KeepsSightings \/ s \in Jobs \cap Clusterers,
         NEW q \in Jobs, q # s, job'[q] = job[q], cache'[q] = cache[q]
  PROVE  Observes(q)'
<1>1. Observes(q) /\ q \in Sessions /\ CacheExists
  BY DEF ObserveInv, IInv, Sessions
<1>2. CASE q \notin Clusterers
  BY <1>1, <1>2 DEF Observes
<1>3. CASE q \in Clusterers
  <2>1. KeepsSightings
    BY <1>3 DEF OneClusterer, Clusterers
  <2> QED BY <1>1, <2>1 DEF Observes, CacheExists, KeepsSightings
<1> QED BY <1>2, <1>3

(* Everything but the steps of runs leaves the observations alone. *)
LEMMA NextObserves ==
  ASSUME OneClusterer, ObserveInv, [Next]_vars
  PROVE  ObserveInv' /\ Accumulates
<1>1. IInv' /\ IInv /\ job \in [Jobs -> JobState] /\ DOMAIN cache = Sessions
  BY NextIInv DEF ObserveInv, IInv, TypeOK
<1>2. CASE /\ rows' = rows
           /\ \A p \in Jobs :
                /\ job'[p].phase \in ClusterPhase =>
                     p \in Clusterers \/ job[p].phase \in ClusterPhase
                /\ cache'[p] \in {cache[p], Expired}
  <2>1. Accumulates
    BY <1>1, <1>2, KeptAccumulates DEF KeepsSightings
  <2>2. \A p \in Jobs : Observes(p)'
    BY <1>2 DEF ObserveInv, Observes, Expired
  <2> QED BY <1>1, <2>1, <2>2 DEF ObserveInv
<1>3. CASE Tick \/ (\E e \in Events : Ingest(e)) \/ UNCHANGED vars
  BY <1>2, <1>3 DEF Tick, Ingest, vars, tables
<1>4. ASSUME NEW p \in Jobs,
             StartClustering(p) \/ StartLifecycle(p) \/ RunFails(p)
      PROVE  ObserveInv' /\ Accumulates
  <2>1. /\ rows' = rows
        /\ \A q \in Jobs : cache'[q] \in {cache[q], Expired}
        /\ \A q \in Jobs : q # p => job'[q] = job[q]
    BY <1>1, <1>4
    DEF StartClustering, StartLifecycle, RunFails, tables, Sessions
  <2>2. CASE StartClustering(p)
    BY <1>2, <2>1, <2>2 DEF StartClustering, Clusterers
  <2>3. CASE StartLifecycle(p) \/ RunFails(p)
    <3>1. job'[p].phase \notin ClusterPhase
      BY <1>1, <2>3
      DEF StartLifecycle, RunFails, IdleJob, ClusterPhase, JobState
    <3> QED BY <1>2, <2>1, <3>1
  <2> QED BY <1>4, <2>2, <2>3
<1>5. ASSUME NEW p \in Jobs, JobStep(p) PROVE ObserveInv' /\ Accumulates
  <2>1. Accumulates /\ Observes(p)' /\ (KeepsSightings \/ p \in Clusterers)
    BY <1>5, JobObserves
  <2>2. \A q \in Jobs : q # p => Observes(q)'
    BY <1>1, <1>5, <2>1, JobStepAlone, OthersObserve
  <2> QED BY <1>1, <2>1, <2>2 DEF ObserveInv
<1>6. ASSUME NEW o \in Operators, RequestCorrection(o)
      PROVE  ObserveInv' /\ Accumulates
  <2>1. rows' = rows /\ job' = job /\ \A p \in Jobs : cache'[p] = cache[p]
    BY <1>1, <1>6, TwoKinds DEF RequestCorrection, Load, Sessions, tables
  <2> QED BY <1>2, <2>1
<1>7. ASSUME NEW o \in Operators, OperatorStep(o)
      PROVE  ObserveInv' /\ Accumulates
  <2>1. KeepsSightings /\ RunsRest /\ o \notin Jobs
    BY <1>1, <1>7, OperatorWrites, TwoKinds
  <2>2. \A q \in Jobs : Observes(q)'
    BY <2>1, OthersObserve DEF RunsRest
  <2> QED BY <1>1, <2>1, <2>2, KeptAccumulates DEF ObserveInv
<1>8. CASE Crash
  BY <1>2, <1>8 DEF Crash, IdleJob, ClusterPhase, Sessions, tables
<1> QED BY <1>3, <1>4, <1>5, <1>6, <1>7, <1>8 DEF Next

(* What a step leaves of the observations of an incident. *)
Gains(i) ==
  rows[i].seen <= rows'[i].seen /\ rows[i].sources \subseteq rows'[i].sources

(* With two clustering jobs, a run that assigns takes something away only  *)
(* if it was overtaken.                                                    *)
LEMMA AssignGains ==
  ASSUME IInv, NEW p \in Jobs, AssignEvent(p), NEW i \in Existing
  PROVE  Gains(i) \/ Overtaken(p, i)
<1> DEFINE t   == job[p].target
           row == cache[p][t]
<1>1. /\ t \in Ids /\ row \in Row /\ row # NoRow /\ p \in Sessions
      /\ i \in Ids /\ rows[i] # NoRow
      /\ rows \in [Ids -> Row \cup {NoRow}] /\ job[p].phase = "assign"
  BY AssignEventWrites DEF IInv, TypeOK, Sessions, AssignEvent, Existing
<1>2. PICK e \in job[p].event, new \in Row :
        /\ Commit(p, t, new)
        /\ e \in Events
        /\ new.seen = Larger(row.seen, EventTime[e])
        /\ new.sources = row.sources \cup {EventSource[e]}
  BY AssignEventWrites
<1>3. /\ \A j \in Ids : j # t => rows'[j] = rows[j]
      /\ rows'[t].seen = Written(rows[t].seen, row.seen, new.seen)
      /\ rows'[t].sources
           = Written(rows[t].sources, row.sources, new.sources)
  BY <1>1, <1>2, CommitColumns
<1>4. rows[i].seen <= rows[i].seen
  BY <1>1 DEF Row
<1>5. CASE i # t
  BY <1>1, <1>3, <1>4, <1>5 DEF Gains
<1>6. CASE i = t /\ ~Overtaken(p, i)
  <2>1. rows[t].seen = row.seen /\ rows[t].sources = row.sources
    BY <1>1, <1>6 DEF Overtaken
  <2>2. row.seen <= new.seen /\ row.sources \subseteq new.sources
    BY <1>1, <1>2, EventAssumption DEF Larger, Row
  <2> QED BY <1>3, <1>4, <1>6, <2>1, <2>2 DEF Gains, Written
<1> QED BY <1>5, <1>6

(* No other step takes anything away. *)
LEMMA OthersKeepSightings ==
  ASSUME IInv, [Next]_vars, \A p \in Jobs : ~AssignEvent(p)
  PROVE  KeepsSightings
<1>1. CASE rows' = rows
  BY <1>1 DEF KeepsSightings
<1>2. CASE UNCHANGED vars
  BY <1>1, <1>2 DEF vars, tables
<1>3. ASSUME NEW p \in Jobs, JobStep(p) PROVE KeepsSightings
  <2>1. CASE CreateIncident(p)
    <3>1. \E i \in Ids : rows[i] = NoRow /\ rows' = [rows EXCEPT ![i] = rows'[i]]
      BY <2>1 DEF CreateIncident, IInv, TypeOK
    <3> QED BY <3>1 DEF KeepsSightings, IInv, TypeOK
  <2>2. CASE TransitionToStale(p) \/ TransitionToOpen(p)
    <3>1. PICK status \in Status, phase \in {"to_stale", "to_open"},
               next \in {"stale", "updated"} : Transit(p, phase, next, status)
      BY <2>2 DEF TransitionToStale, TransitionToOpen, Status
    <3> QED BY <3>1, TransitWrites DEF KeepsSightings
  <2>3. CASE \/ FetchActive(p) \/ MatchEvent(p) \/ SelectStale(p)
             \/ SelectUpdated(p) \/ CheckStale(p) \/ CheckOpen(p)
             \/ EndLifecycle(p)
    BY <1>1, <2>3
    DEF FetchActive, MatchEvent, SelectStale, SelectUpdated, CheckStale,
        CheckOpen, Check, EndLifecycle, tables
  <2> QED BY <1>3, <2>1, <2>2, <2>3 DEF JobStep
<1>4. ASSUME NEW o \in Operators, OperatorStep(o) PROVE KeepsSightings
  BY <1>4, OperatorWrites
<1>5. CASE /\ Next
           /\ \A p \in Jobs : ~JobStep(p)
           /\ \A o \in Operators : ~OperatorStep(o)
  BY <1>1, <1>5
  DEF Next, Tick, Ingest, StartClustering, StartLifecycle, RunFails,
      RequestCorrection, Crash, tables
<1> QED BY <1>2, <1>3, <1>4, <1>5

LEMMA NextGains ==
  ASSUME IInv, OneClusterer => ObserveInv, [Next]_vars, NEW i \in Existing
  PROVE  \/ Gains(i)
         \/ /\ Clusterers \subseteq Jobs
            /\ \E p \in Jobs : Overtaken(p, i) /\ AssignEvent(p)
<1>1. CASE OneClusterer
  BY <1>1, NextObserves DEF Accumulates, Existing, Gains
<1>2. CASE ~OneClusterer
  <2>1. ASSUME NEW p \in Jobs, AssignEvent(p)
        PROVE  Gains(i) \/ Overtaken(p, i)
    BY <2>1, AssignGains
  <2>2. CASE \A p \in Jobs : ~AssignEvent(p)
    BY <2>2, OthersKeepSightings, KeptAccumulates
    DEF Accumulates, Existing, Gains
  <2> QED BY <1>2, <2>1, <2>2 DEF OneClusterer
<1> QED BY <1>1, <1>2

(* What an incident has observed is lost only where two clustering jobs    *)
(* run and one writes back a copy that the other has overtaken: neither    *)
(* runs that place old events, nor lifecycle runs, nor operators lose any, *)
(* whatever they commit to the same rows.                                  *)
THEOREM ObservationsAreKept == Spec => ObservationsAccumulate
<1>1. IInv /\ (OneClusterer => ObserveInv) /\ [Next]_vars
        => [\A i \in Existing :
              \/ /\ rows[i].seen <= rows'[i].seen
                 /\ rows[i].sources \subseteq rows'[i].sources
              \/ /\ Clusterers \subseteq Jobs
                 /\ \E p \in Jobs : Overtaken(p, i) /\ AssignEvent(p)]_vars
  BY NextGains DEF Gains
<1>2. Init => (OneClusterer => ObserveInv)
  BY InitObserveInv
<1>3. (OneClusterer => ObserveInv) /\ [Next]_vars
        => (OneClusterer => ObserveInv)'
  BY NextObserves DEF OneClusterer, Clusterers
<1> QED BY <1>1, <1>2, <1>3, Invariance, PTL DEF Spec, ObservationsAccumulate
-----------------------------------------------------------------------------
(***************************************************************************)
(* Founders: what any step keeps of the rows and of what is loaded.        *)
(***************************************************************************)

Founded(row) ==
  /\ row.founder \in row.linked
  /\ EventSource[row.founder] \in row.sources
  /\ EventTime[row.founder] <= row.seen

(* An incident has its founder in its columns, and so has every copy of    *)
(* it: an UPDATE may combine columns of both.                              *)
FoundInv ==
  /\ IInv
  /\ \A i \in Ids : rows[i] # NoRow => Founded(rows[i])
  /\ \A s \in Sessions, i \in Ids : cache[s][i] # NoRow =>
       Founded(cache[s][i]) /\ cache[s][i].founder = rows[i].founder

FoundersKept ==
  \A i \in Ids : rows[i] # NoRow =>
    /\ rows'[i] # NoRow
    /\ rows'[i].founder = rows[i].founder
    /\ Founded(rows'[i])

(* What a session has afterwards it had before, or it is in the table.     *)
CachesRead ==
  \A s \in Sessions, i \in Ids :
    cache'[s][i] \in {NoRow, cache[s][i], rows'[i]}

NewFounded == \A i \in Ids : rows'[i] # NoRow => rows[i] # NoRow \/ Founded(rows'[i])

LEMMA FoundStep ==
  ASSUME FoundInv, IInv', FoundersKept, NewFounded, CachesRead
  PROVE  FoundInv'
<1>1. ASSUME NEW i \in Ids, rows'[i] # NoRow PROVE Founded(rows'[i])
  BY <1>1 DEF FoundersKept, NewFounded
<1>2. ASSUME NEW s \in Sessions, NEW i \in Ids, cache'[s][i] # NoRow
      PROVE  Founded(cache'[s][i]) /\ cache'[s][i].founder = rows'[i].founder
  <2>1. CASE cache'[s][i] = rows'[i]
    BY <1>1, <1>2, <2>1
  <2>2. CASE cache'[s][i] = cache[s][i]
    <3>1. rows[i] # NoRow
      BY <1>2, <2>2 DEF FoundInv, IInv, CacheExists
    <3> QED BY <1>2, <2>2, <3>1 DEF FoundInv, FoundersKept
  <2> QED BY <1>2, <2>1, <2>2 DEF CachesRead
<1>3. (\A i \in Ids : rows[i] # NoRow => Founded(rows[i]))'
  BY <1>1 DEF Founded
<1>4. (\A s \in Sessions, i \in Ids : cache[s][i] # NoRow =>
         Founded(cache[s][i]) /\ cache[s][i].founder = rows[i].founder)'
  BY <1>2 DEF Founded
<1> QED BY <1>3, <1>4 DEF FoundInv

(* A commit of a row that adds to what was loaded. *)
LEMMA CommitFounds ==
  ASSUME FoundInv, NEW s \in Sessions, NEW i \in Ids, NEW new \in Row,
         cache[s][i] # NoRow, Commit(s, i, new),
         new.founder = cache[s][i].founder,
         cache[s][i].linked \subseteq new.linked,
         cache[s][i].sources \subseteq new.sources,
         cache[s][i].seen <= new.seen
  PROVE  FoundersKept /\ NewFounded /\ NoneNew /\ CachesRead
<1>1. IInv /\ rows[i] # NoRow
  BY DEF FoundInv, IInv, CacheExists
<1>2. /\ rows[i] \in Row /\ cache[s][i] \in Row
      /\ rows'[i].seen = Written(rows[i].seen, cache[s][i].seen, new.seen)
      /\ rows'[i].sources
           = Written(rows[i].sources, cache[s][i].sources, new.sources)
      /\ rows'[i].founder
           = Written(rows[i].founder, cache[s][i].founder, new.founder)
      /\ rows'[i].linked
           = Written(rows[i].linked, cache[s][i].linked, new.linked)
      /\ \A j \in Ids : j # i => rows'[j] = rows[j]
      /\ \A j \in Ids : rows'[j] # NoRow <=> rows[j] # NoRow
      /\ cache' = [cache EXCEPT ![s] = Expired]
  BY <1>1, CommitColumns
<1>3. /\ Founded(rows[i]) /\ Founded(cache[s][i])
      /\ cache[s][i].founder = rows[i].founder
  BY <1>1 DEF FoundInv
<1>4. rows'[i].founder = rows[i].founder
  BY <1>2 DEF Written
<1>5. Founded(rows'[i])
  <2>1. /\ rows[i].founder \in rows'[i].linked
        /\ EventSource[rows[i].founder] \in rows'[i].sources
    BY <1>2, <1>3 DEF Written, Founded
  <2>2. EventTime[rows[i].founder] <= rows'[i].seen
    <3>1. /\ EventTime[rows[i].founder] \in Nat /\ cache[s][i].seen \in Nat
          /\ new.seen \in Nat
      BY <1>2, EventAssumption DEF Row
    <3> QED BY <1>2, <1>3, <3>1 DEF Written, Founded
  <2> QED BY <1>4, <2>1, <2>2 DEF Founded
<1>6. CachesRead
  BY <1>1, <1>2 DEF CachesRead, IInv, TypeOK, Expired
<1> QED
  BY <1>2, <1>4, <1>5, <1>6
  DEF FoundInv, FoundersKept, NewFounded, NoneNew

(* A step that writes no row. *)
LEMMA ReadFounds ==
  ASSUME FoundInv, rows' = rows,
         \A s \in Sessions : \/ cache'[s] \in {cache[s], Expired}
                             \/ \E S : cache'[s] = Loaded(s, S)
  PROVE  FoundersKept /\ NewFounded /\ NoneNew /\ CachesRead
<1>1. CachesRead
  BY DEF CachesRead, Loaded, Expired
<1> QED BY <1>1 DEF FoundInv, FoundersKept, NewFounded, NoneNew

LEMMA LoadFounds ==
  ASSUME FoundInv, rows' = rows, NEW s \in Sessions, NEW S, Load(s, S)
  PROVE  FoundersKept /\ NewFounded /\ NoneNew /\ CachesRead
<1>1. \A q \in Sessions : cache'[q] \in {cache[q], Loaded(s, S)}
                          /\ (q # s => cache'[q] = cache[q])
  BY DEF Load, FoundInv, IInv, TypeOK
<1> QED BY <1>1, ReadFounds

LEMMA AssignFounds ==
  ASSUME FoundInv, NEW p \in Jobs, AssignEvent(p)
  PROVE  FoundersKept /\ NewFounded /\ NoneNew /\ CachesRead
<1> DEFINE i   == job[p].target
           row == cache[p][i]
<1>1. /\ i \in Ids /\ row \in Row /\ row # NoRow /\ p \in Sessions
  BY AssignEventWrites DEF FoundInv, Sessions
<1>2. PICK e \in job[p].event, new \in Row :
        /\ Commit(p, i, new)
        /\ e \in Events
        /\ new.seen = Larger(row.seen, EventTime[e])
        /\ new.sources = row.sources \cup {EventSource[e]}
        /\ new.founder = row.founder /\ new.linked = row.linked
  BY AssignEventWrites DEF FoundInv
<1>3. row.seen <= new.seen
  BY <1>1, <1>2, EventAssumption DEF Larger, Row
<1> QED BY <1>1, <1>2, <1>3, CommitFounds

(* A new incident is founded on its event. *)
LEMMA CreateFounds ==
  ASSUME FoundInv, NEW p \in Jobs, CreateIncident(p)
  PROVE  /\ FoundersKept /\ NewFounded /\ CachesRead
         /\ \E e \in job[p].event, i \in Ids :
              /\ rows[i] = NoRow
              /\ rows'[i].founder = e
              /\ \A j \in Ids : j # i => rows'[j] = rows[j]
<1> DEFINE new(e) == [status |-> "open", changed |-> clock,
                      seen |-> EventTime[e], pos |-> EventPos[e],
                      category |-> EventCategory[e], founder |-> e,
                      linked |-> {e}, count |-> 1,
                      sources |-> {EventSource[e]}]
<1>1. PICK e \in job[p].event, i \in Ids :
        /\ rows[i] = NoRow
        /\ rows' = [rows EXCEPT ![i] = new(e)]
        /\ cache' = [cache EXCEPT ![p] = IF job'[p].phase = "fetch"
                                          THEN [Expired EXCEPT ![i] = new(e)]
                                          ELSE Expired]
  BY DEF CreateIncident
<1>2. e \in Events /\ p \in Sessions
  BY DEF FoundInv, IInv, TypeOK, JobState, Sessions
<1>3. new(e).founder = e /\ Founded(new(e))
  BY <1>2, EventAssumption DEF Founded
<1> HIDE DEF new
<1>4. /\ \A j \in Ids : j # i => rows'[j] = rows[j]
      /\ rows'[i] = new(e)
      /\ \A s \in Sessions : s # p => cache'[s] = cache[s]
      /\ cache'[p] \in {Expired, [Expired EXCEPT ![i] = new(e)]}
  BY <1>1, <1>2 DEF FoundInv, IInv, TypeOK
<1>5. CachesRead
  BY <1>4 DEF CachesRead, Expired
<1> QED BY <1>1, <1>3, <1>4, <1>5 DEF FoundInv, FoundersKept, NewFounded

LEMMA TransitFounds ==
  ASSUME FoundInv, NEW p \in Jobs,
         TransitionToStale(p) \/ TransitionToOpen(p)
  PROVE  FoundersKept /\ NewFounded /\ NoneNew /\ CachesRead
<1>1. PICK status \in Status, phase \in {"to_stale", "to_open"},
           next \in {"stale", "updated"} : Transit(p, phase, next, status)
  BY DEF TransitionToStale, TransitionToOpen, Status
<1> DEFINE i   == job[p].target
           new == [cache[p][i] EXCEPT !.status = status, !.changed = clock]
<1>2. /\ i \in Ids /\ cache[p][i] \in Row /\ cache[p][i] # NoRow
      /\ p \in Sessions /\ clock \in Nat
  BY <1>1, NoRowAssumption
  DEF Transit, FoundInv, IInv, TypeOK, JobHolds, JobState, Sessions
<1>3. Commit(p, i, new)
  BY <1>1 DEF Transit
<1>4. /\ new \in Row
      /\ new.founder = cache[p][i].founder
      /\ new.linked = cache[p][i].linked
      /\ new.sources = cache[p][i].sources
      /\ new.seen = cache[p][i].seen
  BY <1>2 DEF Row
<1> HIDE DEF new
<1>5. cache[p][i].seen <= new.seen
  BY <1>2, <1>4 DEF Row
<1> QED BY <1>2, <1>3, <1>4, <1>5, CommitFounds

LEMMA JobFounds ==
  ASSUME FoundInv, NEW p \in Jobs, JobStep(p)
  PROVE  /\ FoundersKept /\ NewFounded /\ CachesRead
         /\ NoneNew \/ CreateIncident(p)
<1>1. p \in Sessions /\ cache \in [Sessions -> [Ids -> Row \cup {NoRow}]]
  BY DEF Sessions, FoundInv, IInv, TypeOK
<1>2. CASE \/ FetchActive(p) \/ MatchEvent(p) \/ SelectStale(p)
           \/ SelectUpdated(p) \/ CheckStale(p) \/ CheckOpen(p)
  <2>1. rows' = rows /\ \E S : Load(p, S)
    BY <1>2
    DEF FetchActive, MatchEvent, SelectStale, SelectUpdated, CheckStale,
        CheckOpen, Check, tables
  <2> QED BY <1>1, <2>1, LoadFounds
<1>3. CASE EndLifecycle(p)
  <2>1. rows' = rows /\ \A s \in Sessions : cache'[s] \in {cache[s], Expired}
    BY <1>1, <1>3 DEF EndLifecycle, tables
  <2> QED BY <2>1, ReadFounds
<1> QED
  BY <1>2, <1>3, AssignFounds, CreateFounds, TransitFounds DEF JobStep

(* A correction of one incident writes other columns than these. *)
LEMMA CorrectFounds ==
  ASSUME FoundInv, NEW o \in Operators, NEW kind, NEW new \in Row,
         Correct(o, kind, new), new.founder = InHand(o).founder,
         new.linked = InHand(o).linked, new.sources = InHand(o).sources,
         new.seen = InHand(o).seen
  PROVE  FoundersKept /\ NewFounded /\ NoneNew /\ CachesRead
<1>1. /\ op[o].inc \in Ids /\ InHand(o) \in Row
      /\ InHand(o) = cache[o][op[o].inc] /\ InHand(o) # NoRow
      /\ o \in Sessions /\ Commit(o, op[o].inc, new)
  BY InHandType DEF FoundInv, Correct, InHand, Sessions
<1>2. InHand(o).seen <= new.seen
  BY <1>1 DEF Row
<1> QED BY <1>1, <1>2, CommitFounds

(* A merge adds links to the target, and takes none from the incident. *)
LEMMA MergeFounds ==
  ASSUME FoundInv, NEW o \in Operators, Merge(o)
  PROVE  FoundersKept /\ NewFounded /\ NoneNew /\ CachesRead
<1> DEFINE i == op[o].inc
           t == op[o].target
           links == cache[o][t].linked \cup cache[o][i].linked
           new == [cache[o] EXCEPT ![t].linked = links,
                                   ![t].count = Cardinality(links),
                                   ![i].status = "closed"]
<1>1. /\ i \in Ids /\ t \in Ids
      /\ cache[o][i] \in Row /\ cache[o][t] \in Row
      /\ cache[o][i] # NoRow /\ cache[o][t] # NoRow
      /\ cache \in [Sessions -> [Ids -> Row \cup {NoRow}]] /\ o \in Sessions
      /\ rows \in [Ids -> Row \cup {NoRow}]
  BY InHandType DEF FoundInv, Merge, InHand, IInv, TypeOK, Sessions
<1>2. /\ rows' = [j \in Ids |-> IF j \in {i, t}
                                 THEN Updated(rows[j], cache[o][j], new[j])
                                 ELSE rows[j]]
      /\ cache' = [cache EXCEPT ![o] = Expired]
  BY DEF Merge
<1>3. \A j \in {i, t} :
        /\ new[j].founder = cache[o][j].founder
        /\ new[j].sources = cache[o][j].sources
        /\ new[j].seen = cache[o][j].seen
        /\ cache[o][j].linked \subseteq new[j].linked
  BY <1>1 DEF Row
<1> HIDE DEF new
<1>4. \A j \in {i, t} :
        /\ rows[j] # NoRow /\ Founded(rows[j]) /\ Founded(cache[o][j])
        /\ cache[o][j].founder = rows[j].founder
  BY <1>1 DEF FoundInv, IInv, CacheExists
<1>5. ASSUME NEW j \in {i, t}
      PROVE  rows'[j].founder = rows[j].founder /\ Founded(rows'[j])
  <2>1. rows'[j] = Updated(rows[j], cache[o][j], new[j])
    BY <1>1, <1>2
  <2>2. /\ rows'[j].founder = rows[j].founder
        /\ rows'[j].seen = rows[j].seen
        /\ rows'[j].sources = rows[j].sources
        /\ rows'[j].linked = rows[j].linked \/ rows'[j].linked = new[j].linked
    BY <1>3, <2>1 DEF Updated
  <2> QED BY <1>3, <1>4, <2>2 DEF Founded
<1>6. \A j \in Ids : rows[j] # NoRow <=> rows'[j] # NoRow
  BY MergeRows DEF FoundInv
<1>7. FoundersKept
  <2>1. \A j \in Ids : j \notin {i, t} => rows'[j] = rows[j]
    BY <1>2
  <2> QED BY <1>5, <1>6, <2>1 DEF FoundersKept, FoundInv
<1>8. CachesRead
  BY <1>1, <1>2 DEF CachesRead, Expired
<1> QED BY <1>6, <1>7, <1>8 DEF NewFounded, NoneNew

LEMMA OperatorFounds ==
  ASSUME FoundInv, NEW o \in Operators, OperatorStep(o)
  PROVE  FoundersKept /\ NewFounded /\ NoneNew /\ CachesRead
<1>1. o \in Sessions /\ IInv /\ cache \in [Sessions -> [Ids -> Row \cup {NoRow}]]
  BY DEF FoundInv, IInv, TypeOK, Sessions
<1>2. CASE WriteAudit(o)
  <2>1. rows' = rows /\ cache' = cache
    BY <1>2 DEF WriteAudit
  <2> QED BY <2>1, ReadFounds
<1>3. ASSUME NEW kind, AskNothing(o, kind)
      PROVE  FoundersKept /\ NewFounded /\ NoneNew /\ CachesRead
  <2>1. rows' = rows /\ \A s \in Sessions : cache'[s] \in {cache[s], Expired}
    BY <1>1, <1>3 DEF AskNothing, tables
  <2> QED BY <2>1, ReadFounds
<1>4. CASE Merge(o)
  BY <1>4, MergeFounds
<1>5. CASE \/ MarkFalsePositive(o) \/ CloseIncident(o)
           \/ Reclassify(o) \/ Relocate(o)
  <2> USE DEF Row, Status
  <2>1. InHand(o) \in Row /\ clock \in Nat
    BY <1>1, <1>5, InHandType
    DEF MarkFalsePositive, CloseIncident, Reclassify, Relocate, Correct,
        AskNothing, IInv, TypeOK
  <2>2. CASE MarkFalsePositive(o)
    <3> DEFINE new == [InHand(o) EXCEPT !.status = "false_positive",
                                        !.changed = clock]
    <3>1. /\ new \in Row /\ new.founder = InHand(o).founder
          /\ new.linked = InHand(o).linked /\ new.seen = InHand(o).seen
          /\ new.sources = InHand(o).sources
      BY <2>1
    <3>2. Correct(o, "false_positive", new)
      BY <2>2 DEF MarkFalsePositive
    <3> HIDE DEF new
    <3> QED BY <3>1, <3>2, CorrectFounds
  <2>3. CASE CloseIncident(o)
    <3> DEFINE new == [InHand(o) EXCEPT !.status = "closed",
                                        !.changed = clock]
    <3>1. /\ new \in Row /\ new.founder = InHand(o).founder
          /\ new.linked = InHand(o).linked /\ new.seen = InHand(o).seen
          /\ new.sources = InHand(o).sources
      BY <2>1
    <3>2. Correct(o, "close", new)
      BY <2>3 DEF CloseIncident
    <3> HIDE DEF new
    <3> QED BY <3>1, <3>2, CorrectFounds
  <2>4. CASE Reclassify(o)
    <3>1. \A new \in {[InHand(o) EXCEPT !.status = "open", !.changed = clock]}
                      \cup {[InHand(o) EXCEPT !.category = c] : c \in Categories} :
            /\ new \in Row /\ new.founder = InHand(o).founder
            /\ new.linked = InHand(o).linked /\ new.seen = InHand(o).seen
            /\ new.sources = InHand(o).sources
      BY <2>1
    <3>2. \/ AskNothing(o, "reclassify")
          \/ \E new \in {[InHand(o) EXCEPT !.status = "open", !.changed = clock]}
                   \cup {[InHand(o) EXCEPT !.category = c] : c \in Categories} :
               Correct(o, "reclassify", new)
      BY <2>4 DEF Reclassify
    <3> QED BY <1>3, <3>1, <3>2, CorrectFounds
  <2>5. CASE Relocate(o)
    <3>1. \A x \in Positions :
            LET new == [InHand(o) EXCEPT !.pos = x]
            IN  /\ new \in Row /\ new.founder = InHand(o).founder
                /\ new.linked = InHand(o).linked /\ new.seen = InHand(o).seen
                /\ new.sources = InHand(o).sources
      BY <2>1, EventAssumption
    <3>2. \/ AskNothing(o, "relocate")
          \/ \E x \in Positions :
               Correct(o, "relocate", [InHand(o) EXCEPT !.pos = x])
      BY <2>5 DEF Relocate
    <3> QED BY <1>3, <3>1, <3>2, CorrectFounds
  <2> QED BY <1>5, <2>2, <2>3, <2>4, <2>5
<1> QED BY <1>2, <1>4, <1>5 DEF OperatorStep

(* Any step but the founding of an incident leaves the incidents there are. *)
LEMMA NextFounds ==
  ASSUME FoundInv, [Next]_vars
  PROVE  /\ FoundInv' /\ FoundersKept
         /\ NoneNew \/ \E p \in Jobs : CreateIncident(p)
<1>1. IInv' /\ IInv /\ cache \in [Sessions -> [Ids -> Row \cup {NoRow}]]
  BY NextIInv DEF FoundInv, IInv, TypeOK
<1>2. SUFFICES /\ FoundersKept /\ NewFounded /\ CachesRead
               /\ NoneNew \/ \E p \in Jobs : CreateIncident(p)
  BY <1>1, FoundStep
<1>3. CASE /\ rows' = rows
           /\ \A s \in Sessions : cache'[s] \in {cache[s], Expired}
  BY <1>3, ReadFounds
<1>4. CASE \/ Tick \/ (\E e \in Events : Ingest(e)) \/ UNCHANGED vars
  BY <1>3, <1>4 DEF Tick, Ingest, vars, tables
<1>5. CASE Crash
  BY <1>3, <1>5 DEF Crash, tables
<1>6. ASSUME NEW p \in Jobs,
             StartClustering(p) \/ StartLifecycle(p) \/ RunFails(p)
      PROVE  FoundersKept /\ NewFounded /\ NoneNew /\ CachesRead
  <2>1. rows' = rows
    BY <1>6 DEF StartClustering, StartLifecycle, RunFails, tables
  <2>2. cache' = cache \/ cache' = [cache EXCEPT ![p] = Expired]
    BY <1>6 DEF StartClustering, StartLifecycle, RunFails
  <2>3. \A s \in Sessions : cache'[s] \in {cache[s], Expired}
    BY <1>1, <2>2
  <2> QED BY <2>1, <2>3, ReadFounds
<1>7. ASSUME NEW o \in Operators, RequestCorrection(o)
      PROVE  FoundersKept /\ NewFounded /\ NoneNew /\ CachesRead
  <2>1. rows' = rows /\ o \in Sessions /\ \E S : Load(o, S)
    BY <1>7 DEF RequestCorrection, Sessions, tables
  <2> QED BY <2>1, LoadFounds
<1> QED BY <1>4, <1>5, <1>6, <1>7, JobFounds, OperatorFounds DEF Next

LEMMA InitFoundInv == ASSUME Init PROVE FoundInv
  BY InitIInv DEF Init, FoundInv, Expired, Sessions

LEMMA FoundInvariance == Spec => []FoundInv
<1>1. FoundInv /\ [Next]_vars => FoundInv'
  BY NextFounds
<1> QED BY <1>1, InitFoundInv, PTL DEF Spec

(* An incident keeps the event it was founded on among its links, that     *)
(* event's source among its sources, and is never seen before it: not even *)
(* the updates that two runs lose, nor merges, take any of it away.        *)
THEOREM FoundersAreRemembered == Spec => []FounderRemembered
<1>1. FoundInv => FounderRemembered
  BY DEF FoundInv, Founded, FounderRemembered, Existing
<1> QED BY <1>1, FoundInvariance, PTL

-----------------------------------------------------------------------------
(***************************************************************************)
(* How many incidents an event founds.                                     *)
(***************************************************************************)

Founders(e) == {i \in Existing : rows[i].founder = e}

Readers(e) == {p \in Jobs : e \in job[p].todo}

(* What a run is about to found an incident on is among its events.        *)
Placing(p) == job[p].phase = "create" => job[p].event \subseteq job[p].todo

OnceInv ==
  FoundInv /\ (\A p \in Jobs : Placing(p)) /\ FoundedOncePerRun

LEMMA FoundersFinite ==
  ASSUME NEW e
  PROVE  /\ IsFiniteSet(Founders(e)) /\ Cardinality(Founders(e)) \in Nat
         /\ IsFiniteSet(Readers(e)) /\ Cardinality(Readers(e)) \in Nat
<1>1. IsFiniteSet(Ids)
  BY BoundAssumption, FS_Interval DEF Ids
<1>2. IsFiniteSet({"all", "clustering", "lifecycle"})
  <2>1. IsFiniteSet({"all"})
    BY FS_Singleton
  <2>2. IsFiniteSet({"all"} \cup {"clustering"})
    BY <2>1, FS_AddElement
  <2>3. IsFiniteSet(({"all"} \cup {"clustering"}) \cup {"lifecycle"})
    BY <2>2, FS_AddElement
  <2>4. ({"all"} \cup {"clustering"}) \cup {"lifecycle"}
          = {"all", "clustering", "lifecycle"}
    OBVIOUS
  <2> QED BY <2>3, <2>4
<1>3. IsFiniteSet(Jobs)
  BY <1>2, ActorAssumption, FS_Subset
<1>4. IsFiniteSet(Founders(e)) /\ IsFiniteSet(Readers(e))
  BY <1>1, <1>3, FS_Subset DEF Founders, Readers, Existing
<1> QED BY <1>4, FS_CardinalityType

(* A step that founds nothing, and after which no run has read more. *)
LEMMA NoMoreFounders ==
  ASSUME OnceInv, FoundersKept, NoneNew, NEW e \in Events,
         \A p \in Jobs : job'[p].todo \subseteq job[p].todo,
         runs' \in Nat, runs' >= runs
  PROVE  Cardinality(Founders(e)') + Cardinality(Readers(e)') <= runs'
<1>1. Founders(e)' = Founders(e)
  BY DEF Founders, Existing, FoundersKept, NoneNew
<1>2. Readers(e)' \subseteq Readers(e)
  BY DEF Readers
<1>3. /\ Cardinality(Readers(e)') <= Cardinality(Readers(e))
      /\ Cardinality(Readers(e)') \in Nat
  BY <1>2, FoundersFinite, FS_Subset, FS_CardinalityType
<1>4. Cardinality(Founders(e)) + Cardinality(Readers(e)) <= runs
  BY DEF OnceInv, FoundedOncePerRun, Founders, Readers
<1> QED
  BY <1>1, <1>3, <1>4, FoundersFinite DEF OnceInv, FoundInv, IInv, TypeOK

LEMMA OneMore ==
  ASSUME NEW S, IsFiniteSet(S), NEW x
  PROVE  /\ IsFiniteSet(S \cup {x})
         /\ Cardinality(S \cup {x}) <= Cardinality(S) + 1
         /\ Cardinality(S \cup {x}) \in Nat
<1>1. /\ IsFiniteSet(S \cup {x})
      /\ Cardinality(S \cup {x}) \in {Cardinality(S), Cardinality(S) + 1}
  BY FS_AddElement
<1>2. Cardinality(S) \in Nat /\ Cardinality(S \cup {x}) \in Nat
  BY <1>1, FS_CardinalityType
<1> QED BY <1>1, <1>2

(* A run that starts reads every event once. *)
LEMMA StartFounds ==
  ASSUME OnceInv, NEW p \in Jobs, StartClustering(p), NEW e \in Events
  PROVE  Cardinality(Founders(e)') + Cardinality(Readers(e)') <= runs'
<1>1. /\ Founders(e)' = Founders(e)
      /\ Readers(e)' \subseteq Readers(e) \cup {p}
      /\ runs' = runs + 1 /\ runs \in Nat
  BY DEF StartClustering, Founders, Existing, Readers, tables, OnceInv,
         FoundInv, IInv, TypeOK
<1>2. /\ IsFiniteSet(Readers(e) \cup {p})
      /\ Cardinality(Readers(e) \cup {p}) <= Cardinality(Readers(e)) + 1
      /\ Cardinality(Readers(e) \cup {p}) \in Nat
  BY FoundersFinite, OneMore
<1>3. /\ Cardinality(Readers(e)') <= Cardinality(Readers(e) \cup {p})
      /\ Cardinality(Readers(e)') \in Nat
  BY <1>1, <1>2, FS_Subset, FS_CardinalityType
<1>4. Cardinality(Founders(e)) + Cardinality(Readers(e)) <= runs
  BY DEF OnceInv, FoundedOncePerRun, Founders, Readers
<1> QED BY <1>1, <1>2, <1>3, <1>4, FoundersFinite

LEMMA PlacedIsRead ==
  ASSUME IInv, NEW p \in Jobs, NEW next, EventPlaced(p, next)
  PROVE  /\ job'[p].todo \subseteq job[p].todo \ job[p].event
         /\ \A q \in Jobs : q # p => job'[q] = job[q]
         /\ job'[p].phase \in {"idle", "age", "fetch", next}
<1> DEFINE left == job[p].todo \ job[p].event
           other == [IdleJob EXCEPT !.phase = "fetch", !.todo = left,
                                    !.now = job[p].now]
           same  == [job[p] EXCEPT !.phase = next, !.todo = left,
                                   !.event = {}, !.target = 0]
           st    == IF left = {} THEN AfterClustering(p)
                    ELSE IF InCategory(left, job[p].category) = {}
                    THEN other ELSE same
<1>1. job[p] \in JobState /\ job \in [Jobs -> JobState]
  BY DEF IInv, TypeOK
<1>2. job' = [job EXCEPT ![p] = st]
  BY DEF EventPlaced
<1>3. other.todo = left /\ other.phase = "fetch"
  BY DEF IdleJob
<1>4. same.todo = left /\ same.phase = next
  BY <1>1 DEF JobState
<1>5. /\ AfterClustering(p).todo = {}
      /\ AfterClustering(p).phase \in {"idle", "age"}
  BY DEF AfterClustering, IdleJob
<1>6. st.todo \subseteq left /\ st.phase \in {"idle", "age", "fetch", next}
  BY <1>3, <1>4, <1>5
<1> HIDE DEF st
<1> QED BY <1>1, <1>2, <1>6

(* The run that founds an incident on e has placed e. *)
LEMMA CreateFoundsOne ==
  ASSUME OnceInv, NEW p \in Jobs, CreateIncident(p), NEW e \in Events
  PROVE  Cardinality(Founders(e)') + Cardinality(Readers(e)') <= runs'
<1> USE DEF OnceInv
<1>1. PICK f \in job[p].event, i \in Ids :
        /\ rows[i] = NoRow
        /\ rows'[i].founder = f
        /\ \A j \in Ids : j # i => rows'[j] = rows[j]
  BY CreateFounds
<1>2. IInv /\ EventPlaced(p, "fetch") /\ runs' = runs /\ runs \in Nat
  BY DEF CreateIncident, counts, FoundInv, IInv, TypeOK
<1>3. /\ \A q \in Jobs : job'[q].todo \subseteq job[q].todo
      /\ f \notin job'[p].todo
      /\ f \in job[p].todo
  BY <1>2, PlacedIsRead DEF Placing, CreateIncident
<1>4. /\ Founders(e)' \subseteq Founders(e) \cup {i}
      /\ e # f => Founders(e)' \subseteq Founders(e)
  BY <1>1 DEF Founders, Existing
<1>5. /\ Readers(e)' \subseteq Readers(e)
      /\ e = f => Readers(e)' \subseteq Readers(e) \ {p} /\ p \in Readers(e)
  BY <1>3 DEF Readers
<1>6. Cardinality(Founders(e)) + Cardinality(Readers(e)) <= runs
  BY DEF FoundedOncePerRun, Founders, Readers
<1>7. CASE e # f
  <2>1. /\ Cardinality(Founders(e)') <= Cardinality(Founders(e))
        /\ Cardinality(Readers(e)') <= Cardinality(Readers(e))
        /\ Cardinality(Founders(e)') \in Nat /\ Cardinality(Readers(e)') \in Nat
    BY <1>4, <1>5, <1>7, FoundersFinite, FS_Subset, FS_CardinalityType
  <2> QED BY <1>2, <1>6, <2>1, FoundersFinite
<1>8. CASE e = f
  <2>1. /\ IsFiniteSet(Founders(e) \cup {i})
        /\ Cardinality(Founders(e) \cup {i}) <= Cardinality(Founders(e)) + 1
        /\ Cardinality(Founders(e) \cup {i}) \in Nat
    BY FoundersFinite, OneMore
  <2>2. /\ Cardinality(Founders(e)') <= Cardinality(Founders(e) \cup {i})
        /\ Cardinality(Founders(e)') \in Nat
    BY <1>4, <2>1, FS_Subset, FS_CardinalityType
  <2>3. /\ IsFiniteSet(Readers(e) \ {p})
        /\ Cardinality(Readers(e) \ {p}) = Cardinality(Readers(e)) - 1
    BY <1>5, <1>8, FoundersFinite, FS_RemoveElement
  <2>4. /\ Cardinality(Readers(e)') <= Cardinality(Readers(e) \ {p})
        /\ Cardinality(Readers(e)') \in Nat
    BY <1>5, <1>8, <2>3, FS_Subset, FS_CardinalityType
  <2> QED BY <1>2, <1>6, <2>1, <2>2, <2>3, <2>4, FoundersFinite
<1> QED BY <1>7, <1>8

(* A run is about to found incidents on events that it has matched. *)
LEMMA JobPlaces ==
  ASSUME IInv, NEW p \in Jobs, Placing(p), JobStep(p)
  PROVE  Placing(p)' /\ job'[p].todo \subseteq job[p].todo
<1>1. job \in [Jobs -> JobState] /\ job[p] \in JobState
  BY DEF IInv, TypeOK
<1>2. CASE MatchEvent(p)
  <2>1. PICK e \in job[p].todo, phase \in {"assign", "create"} :
          \E i : job' = [job EXCEPT ![p].phase = phase, ![p].event = {e},
                                   ![p].target = i]
    BY <1>2 DEF MatchEvent, InCategory
  <2> QED BY <1>1, <2>1 DEF Placing, JobState
<1>3. CASE AssignEvent(p) \/ CreateIncident(p)
  <2>1. PICK next \in {"match", "fetch"} : EventPlaced(p, next)
    BY <1>3 DEF AssignEvent, CreateIncident
  <2> QED BY <2>1, PlacedIsRead DEF Placing
<1>4. CASE FetchActive(p)
  <2>1. PICK c, S :
          job' = [job EXCEPT ![p].phase = "match", ![p].category = {c},
                             ![p].work = S]
    BY <1>4 DEF FetchActive
  <2>2. job'[p].todo = job[p].todo /\ job'[p].phase = "match"
    BY <1>1, <2>1 DEF JobState
  <2> QED BY <2>2 DEF Placing
<1>5. CASE SelectStale(p)
  <2> DEFINE quiet == {i \in Existing : Quiet(i, clock)}
  <2>1. job' = [job EXCEPT ![p].phase = "stale", ![p].work = quiet,
                           ![p].now = clock]
    BY <1>5 DEF SelectStale
  <2> HIDE DEF quiet
  <2>2. job'[p].todo = job[p].todo /\ job'[p].phase = "stale"
    BY <1>1, <2>1 DEF JobState
  <2> QED BY <2>2 DEF Placing
<1>9. CASE SelectUpdated(p)
  <2> DEFINE lapsed == {i \in Existing : Lapsed(i, job[p].now)}
  <2>1. job' = [job EXCEPT ![p].phase = "updated", ![p].work = lapsed]
    BY <1>9 DEF SelectUpdated
  <2> HIDE DEF lapsed
  <2>2. job'[p].todo = job[p].todo /\ job'[p].phase = "updated"
    BY <1>1, <2>1 DEF JobState
  <2> QED BY <2>2 DEF Placing
<1>6. CASE CheckStale(p) \/ CheckOpen(p)
  <2>1. /\ job'[p].todo = job[p].todo
        /\ job'[p].phase \in {"stale", "updated", "to_stale", "to_open"}
    <3>1. PICK phase \in {"stale", "updated"}, next \in {"to_stale", "to_open"} :
            \E allowed : Check(p, phase, next, allowed)
      BY <1>6 DEF CheckStale, CheckOpen
    <3>2. job[p].phase = phase
      BY <3>1 DEF Check
    <3>3. \/ \E i : job' = [job EXCEPT ![p].phase = next, ![p].target = i]
          \/ \E i : job' = [job EXCEPT ![p].work = @ \ {i}]
      BY <3>1 DEF Check
    <3> QED BY <1>1, <3>2, <3>3 DEF JobState
  <2> QED BY <2>1 DEF Placing
<1>7. CASE TransitionToStale(p) \/ TransitionToOpen(p)
  <2>1. /\ job'[p].todo = job[p].todo
        /\ job'[p].phase \in {"stale", "updated"}
    BY <1>1, <1>7
    DEF TransitionToStale, TransitionToOpen, Transit, JobState
  <2> QED BY <2>1 DEF Placing
<1>8. CASE EndLifecycle(p)
  <2>1. job'[p] = IdleJob
    BY <1>1, <1>8 DEF EndLifecycle
  <2> QED BY <2>1 DEF Placing, IdleJob
<1> QED
  BY <1>2, <1>3, <1>4, <1>5, <1>6, <1>7, <1>8, <1>9 DEF JobStep

(* Nor does any other step but a start have a run read more events. *)
LEMMA NextPlaces ==
  ASSUME OnceInv, [Next]_vars
  PROVE  /\ \A p \in Jobs : Placing(p)'
         /\ runs' \in Nat /\ runs' >= runs
         /\ \/ \A p \in Jobs : job'[p].todo \subseteq job[p].todo
            \/ \E p \in Jobs : StartClustering(p)
<1> USE DEF OnceInv, FoundInv
<1>1. /\ job \in [Jobs -> JobState] /\ runs \in Nat /\ IInv
      /\ runs >= runs /\ runs + 1 \in Nat /\ runs + 1 >= runs
  BY DEF IInv, TypeOK
<1>2. CASE job' = job /\ runs' = runs
  BY <1>1, <1>2 DEF Placing
<1>3. CASE \/ Tick \/ (\E e \in Events : Ingest(e)) \/ UNCHANGED vars
           \/ \E o \in Operators : RequestCorrection(o) \/ OperatorStep(o)
  BY <1>2, <1>3
  DEF Tick, Ingest, RequestCorrection, OperatorStep, MarkFalsePositive,
      CloseIncident, Reclassify, Relocate, Merge, WriteAudit, Correct,
      AskNothing, vars, counts
<1>4. CASE Crash
  BY <1>1, <1>4 DEF Crash, Placing, IdleJob
<1>5. ASSUME NEW p \in Jobs, StartClustering(p)
      PROVE  (\A q \in Jobs : Placing(q)') /\ runs' = runs + 1
  <2>1. /\ \A q \in Jobs : q # p => job'[q] = job[q]
        /\ job'[p].phase \in {"fetch", "age", "idle"}
        /\ runs' = runs + 1
    BY <1>1, <1>5 DEF StartClustering, AfterClustering, IdleJob
  <2> QED BY <2>1 DEF Placing
<1>6. ASSUME NEW p \in Jobs, StartLifecycle(p)
      PROVE  /\ \A q \in Jobs : Placing(q)'
             /\ \A q \in Jobs : job'[q].todo \subseteq job[q].todo
             /\ runs' = runs + 1
  <2>1. /\ \A q \in Jobs : q # p => job'[q] = job[q]
        /\ job'[p].phase = "age" /\ job'[p].todo = job[p].todo
        /\ runs' = runs + 1
    BY <1>1, <1>6 DEF StartLifecycle, JobState
  <2> QED BY <2>1 DEF Placing
<1>7. ASSUME NEW p \in Jobs, RunFails(p)
      PROVE  /\ \A q \in Jobs : Placing(q)'
             /\ \A q \in Jobs : job'[q].todo \subseteq job[q].todo
             /\ runs' = runs
  <2>1. /\ \A q \in Jobs : q # p => job'[q] = job[q]
        /\ job'[p] = IdleJob /\ runs' = runs
    BY <1>1, <1>7 DEF RunFails
  <2> QED BY <2>1 DEF Placing, IdleJob
<1>8. ASSUME NEW p \in Jobs, JobStep(p)
      PROVE  /\ \A q \in Jobs : Placing(q)'
             /\ \A q \in Jobs : job'[q].todo \subseteq job[q].todo
             /\ runs' = runs
  <2>1. runs' = runs
    BY <1>8
    DEF JobStep, FetchActive, MatchEvent, AssignEvent, CreateIncident,
        SelectStale, CheckStale, TransitionToStale, SelectUpdated, CheckOpen,
        TransitionToOpen, EndLifecycle, Check, Transit, counts
  <2>2. \A q \in Jobs : q # p => job'[q] = job[q]
    BY <1>1, <1>8, JobStepAlone
  <2> QED BY <1>1, <1>8, <2>1, <2>2, JobPlaces DEF Placing
<1> QED BY <1>1, <1>3, <1>4, <1>5, <1>6, <1>7, <1>8 DEF Next

LEMMA NextFoundsOnce ==
  ASSUME OnceInv, [Next]_vars PROVE OnceInv'
<1>1. FoundInv' /\ \A p \in Jobs : Placing(p)'
  BY NextFounds, NextPlaces DEF OnceInv
<1>2. ASSUME NEW e \in Events
      PROVE  Cardinality(Founders(e)') + Cardinality(Readers(e)') <= runs'
  <2>1. CASE \E p \in Jobs : StartClustering(p)
    BY <2>1, StartFounds
  <2>2. CASE \E p \in Jobs : CreateIncident(p)
    BY <2>2, CreateFoundsOne
  <2>3. CASE /\ ~\E p \in Jobs : StartClustering(p)
             /\ ~\E p \in Jobs : CreateIncident(p)
    BY <2>3, NextFounds, NextPlaces, NoMoreFounders DEF OnceInv
  <2> QED BY <2>1, <2>2, <2>3
<1>3. FoundedOncePerRun'
  BY <1>2 DEF FoundedOncePerRun, Founders, Readers
<1> QED BY <1>1, <1>3 DEF OnceInv

(* However the runs of the clustering jobs overlap, fail and read the same *)
(* events again, one that has read an event founds at most one incident on *)
(* it.                                                                     *)
THEOREM EventsFoundOncePerRun == Spec => []FoundedOncePerRun
<1>1. Init => OnceInv
  <2> SUFFICES ASSUME Init PROVE OnceInv
    OBVIOUS
  <2>1. \A p \in Jobs : Placing(p)
    BY DEF Init, Placing, IdleJob
  <2>2. ASSUME NEW e \in Events PROVE Founders(e) = {} /\ Readers(e) = {}
    BY DEF Init, Founders, Readers, Existing, IdleJob
  <2>3. FoundedOncePerRun
    <3>1. Cardinality({}) = 0 /\ runs = 0
      BY FS_EmptySet DEF Init
    <3>2. ASSUME NEW e \in Events
          PROVE  Cardinality(Founders(e)) + Cardinality(Readers(e)) <= runs
      <4>1. Founders(e) = {} /\ Readers(e) = {}
        BY <2>2
      <4>2. Cardinality(Founders(e)) = 0 /\ Cardinality(Readers(e)) = 0
        BY <3>1, <4>1
      <4> QED BY <3>1, <4>2
    <3> QED BY <3>2 DEF FoundedOncePerRun, Founders, Readers
  <2> QED BY <2>1, <2>3, InitFoundInv DEF OnceInv
<1>2. OnceInv /\ [Next]_vars => OnceInv'
  BY NextFoundsOnce
<1>3. OnceInv => FoundedOncePerRun
  BY DEF OnceInv
<1> QED BY <1>1, <1>2, <1>3, PTL DEF Spec

-----------------------------------------------------------------------------
(***************************************************************************)
(* Verdicts and their records.                                             *)
(***************************************************************************)

Verdict(i) == rows[i] # NoRow /\ rows[i].status \in Verdicts

Recorded(i) ==
  \E n \in DOMAIN audit : audit[n].inc = i /\ audit[n].kind \in Deciding

BeingRecorded(i) ==
  \E o \in Operators :
    op[o].phase = "audit" /\ op[o].inc = i /\ op[o].kind \in Deciding

Accounted == \A i \in Ids : Verdict(i) => Recorded(i) \/ BeingRecorded(i)

VerdictInv == IInv /\ (faults = 0 => Accounted)

(* A step that gives no verdict. *)
NoVerdict == \A i \in Ids : Verdict(i)' => Verdict(i)

LEMMA RunGivesNoVerdict ==
  ASSUME IInv, NEW p \in Jobs, JobStep(p) PROVE NoVerdict
<1>1. rows \in [Ids -> Row \cup {NoRow}]
  BY DEF IInv, TypeOK
<1>2. CASE \/ FetchActive(p) \/ MatchEvent(p) \/ SelectStale(p)
           \/ SelectUpdated(p) \/ CheckStale(p) \/ CheckOpen(p)
           \/ EndLifecycle(p)
  <2>1. rows' = rows
    BY <1>2
    DEF FetchActive, MatchEvent, SelectStale, SelectUpdated, CheckStale,
        CheckOpen, Check, EndLifecycle, tables
  <2> QED BY <2>1 DEF NoVerdict, Verdict
<1>3. CASE AssignEvent(p)
  <2> DEFINE t == job[p].target
  <2>1. t \in Ids /\ cache[p][t] # NoRow /\ p \in Sessions
    BY <1>3, AssignEventWrites DEF Sessions
  <2>2. PICK new \in Row : Commit(p, t, new) /\ new.status = "updated"
    BY <1>3, AssignEventWrites
  <2>3. /\ rows'[t].status \in {rows[t].status, "updated"}
        /\ \A j \in Ids : j # t => rows'[j] = rows[j]
        /\ \A j \in Ids : rows'[j] # NoRow <=> rows[j] # NoRow
    BY <2>1, <2>2, CommitColumns DEF Written
  <2> QED BY <2>3 DEF NoVerdict, Verdict, Verdicts
<1>4. CASE CreateIncident(p)
  <2> DEFINE new(e) == [status |-> "open", changed |-> clock,
                        seen |-> EventTime[e], pos |-> EventPos[e],
                        category |-> EventCategory[e], founder |-> e,
                        linked |-> {e}, count |-> 1,
                        sources |-> {EventSource[e]}]
  <2>1. PICK e \in job[p].event, i \in Ids : rows' = [rows EXCEPT ![i] = new(e)]
    BY <1>4 DEF CreateIncident
  <2>2. new(e).status = "open"
    OBVIOUS
  <2> HIDE DEF new
  <2> QED BY <1>1, <2>1, <2>2 DEF NoVerdict, Verdict, Verdicts
<1>5. CASE TransitionToStale(p) \/ TransitionToOpen(p)
  <2>1. PICK status \in {"stale", "open"}, phase \in {"to_stale", "to_open"},
             next \in {"stale", "updated"} : Transit(p, phase, next, status)
    BY <1>5 DEF TransitionToStale, TransitionToOpen
  <2>2. status \in Status
    BY DEF Status
  <2> QED BY <2>1, <2>2, TransitWrites DEF NoVerdict, Verdict, Verdicts
<1> QED BY <1>2, <1>3, <1>4, <1>5 DEF JobStep

(* A correction gives a verdict on its own incident only, and only if that *)
(* is what it was asked for.                                               *)
LEMMA CorrectionDecides ==
  ASSUME IInv, NEW o \in Operators, OperatorStep(o), ~WriteAudit(o)
  PROVE  /\ op' = [op EXCEPT ![o].phase = "audit"] /\ audit' = audit
         /\ op[o].phase = "apply"
         /\ \A i \in Ids : Verdict(i)' => \/ Verdict(i)
                                          \/ /\ i = op[o].inc
                                             /\ op[o].kind \in Deciding
<1>1. /\ o \in Sessions /\ rows \in [Ids -> Row \cup {NoRow}]
      /\ op[o].phase = "apply" => InHand(o) \in Row /\ clock \in Nat
  BY InHandType DEF Sessions, IInv, TypeOK
<1>2. /\ op' = [op EXCEPT ![o].phase = "audit"] /\ audit' = audit
      /\ op[o].phase = "apply"
  BY DEF OperatorStep, MarkFalsePositive, CloseIncident, Reclassify,
         Relocate, Merge, Correct, AskNothing, tables
<1>3. ASSUME NEW kind, AskNothing(o, kind) PROVE NoVerdict
  BY <1>3 DEF AskNothing, NoVerdict, Verdict, tables
<1>4. ASSUME NEW kind, NEW new \in Row, Correct(o, kind, new)
      PROVE  /\ op[o].kind = kind
             /\ \A i \in Ids : Verdict(i)' =>
                  \/ Verdict(i)
                  \/ i = op[o].inc /\ new.status # InHand(o).status
                       /\ new.status \in Verdicts
  <2>1. /\ op[o].inc \in Ids /\ cache[o][op[o].inc] # NoRow
        /\ Commit(o, op[o].inc, new) /\ op[o].kind = kind
    BY <1>4, InHandType DEF Correct, InHand
  <2> DEFINE t == op[o].inc
  <2>2. /\ rows'[t].status
             = Written(rows[t].status, InHand(o).status, new.status)
        /\ \A j \in Ids : j # t => rows'[j] = rows[j]
        /\ \A j \in Ids : rows'[j] # NoRow <=> rows[j] # NoRow
    BY <1>1, <2>1, CommitColumns DEF InHand
  <2>3. ASSUME NEW i \in Ids, Verdict(i)'
        PROVE  \/ Verdict(i)
               \/ i = t /\ new.status # InHand(o).status
                    /\ new.status \in Verdicts
    BY <2>1, <2>2, <2>3 DEF Verdict, Written
  <2> QED BY <2>1, <2>3
<1>5. CASE MarkFalsePositive(o)
  <2>1. [InHand(o) EXCEPT !.status = "false_positive", !.changed = clock]
          \in Row
    BY <1>1, <1>2 DEF Row, Status
  <2> QED BY <1>2, <1>4, <1>5, <2>1 DEF MarkFalsePositive, Deciding
<1>6. CASE CloseIncident(o)
  <2>1. [InHand(o) EXCEPT !.status = "closed", !.changed = clock] \in Row
    BY <1>1, <1>2 DEF Row, Status
  <2> QED BY <1>2, <1>4, <1>6, <2>1 DEF CloseIncident, Deciding
<1>7. CASE Reclassify(o)
  <2>1. /\ [InHand(o) EXCEPT !.status = "open", !.changed = clock] \in Row
        /\ [InHand(o) EXCEPT !.status = "open", !.changed = clock].status
             \notin Verdicts
    BY <1>1, <1>2 DEF Row, Status, Verdicts
  <2>2. \A c \in Categories :
          /\ [InHand(o) EXCEPT !.category = c] \in Row
          /\ [InHand(o) EXCEPT !.category = c].status = InHand(o).status
    BY <1>1, <1>2 DEF Row
  <2> QED BY <1>2, <1>3, <1>4, <1>7, <2>1, <2>2 DEF Reclassify, NoVerdict
<1>8. CASE Relocate(o)
  <2>1. \A x \in Positions :
          /\ [InHand(o) EXCEPT !.pos = x] \in Row
          /\ [InHand(o) EXCEPT !.pos = x].status = InHand(o).status
    BY <1>1, <1>2, EventAssumption DEF Row
  <2> QED BY <1>2, <1>3, <1>4, <1>8, <2>1 DEF Relocate, NoVerdict
<1>9. CASE Merge(o)
  <2> DEFINE i == op[o].inc
             t == op[o].target
             links == cache[o][t].linked \cup cache[o][i].linked
             new == [cache[o] EXCEPT ![t].linked = links,
                                     ![t].count = Cardinality(links),
                                     ![i].status = "closed"]
  <2>1. /\ i \in Ids /\ t \in Ids
        /\ cache[o][i] \in Row /\ cache[o][t] \in Row
        /\ cache[o] \in [Ids -> Row \cup {NoRow}]
    BY <1>1, <1>2, InHandType DEF InHand, IInv, TypeOK
  <2>2. rows' = [j \in Ids |-> IF j \in {i, t}
                                THEN Updated(rows[j], cache[o][j], new[j])
                                ELSE rows[j]]
    BY <1>9 DEF Merge
  <2>3. t # i => new[t].status = cache[o][t].status
    BY <2>1 DEF Row
  <2> HIDE DEF new
  <2>4. t # i => rows'[t].status = rows[t].status
    BY <2>1, <2>2, <2>3 DEF Updated
  <2>5. \A j \in Ids : j \notin {i, t} => rows'[j] = rows[j]
    BY <2>2
  <2>6. \A j \in Ids : rows[j] # NoRow <=> rows'[j] # NoRow
    BY <1>9, MergeRows
  <2>7. op[o].kind \in Deciding
    BY <1>9 DEF Merge, Deciding
  <2> QED BY <1>2, <2>4, <2>5, <2>6, <2>7 DEF Verdict
<1> QED BY <1>5, <1>6, <1>7, <1>8, <1>9 DEF OperatorStep

LEMMA NextAccounts ==
  ASSUME VerdictInv, [Next]_vars PROVE VerdictInv'
<1>1. IInv' /\ IInv /\ op \in [Operators -> OpState]
      /\ audit \in Seq(AuditRow)
  BY NextIInv DEF VerdictInv, IInv, TypeOK
<1>2. SUFFICES ASSUME faults' = 0 PROVE Accounted'
  BY <1>1 DEF VerdictInv
<1>3. CASE NoVerdict /\ audit' = audit /\ op' = op /\ faults' = faults
  <2>1. Accounted
    BY <1>2, <1>3 DEF VerdictInv
  <2> QED BY <1>3, <2>1
      DEF NoVerdict, Accounted, Recorded, BeingRecorded
<1>4. CASE \/ Tick \/ (\E e \in Events : Ingest(e)) \/ UNCHANGED vars
           \/ \E p \in Jobs : StartClustering(p) \/ StartLifecycle(p)
  <2>1. NoVerdict /\ audit' = audit /\ op' = op /\ faults' = faults
    BY <1>4
    DEF Tick, Ingest, StartClustering, StartLifecycle, vars, tables, counts,
        NoVerdict, Verdict
  <2> QED BY <1>3, <2>1
<1>5. ASSUME Crash \/ \E p \in Jobs : RunFails(p) PROVE FALSE
  <2>1. faults \in Nat /\ faults' = faults + 1
    BY <1>1, <1>5 DEF Crash, RunFails, IInv, TypeOK
  <2> QED BY <1>2, <2>1
<1>6. ASSUME NEW p \in Jobs, JobStep(p) PROVE Accounted'
  <2>1. audit' = audit /\ op' = op /\ faults' = faults
    BY <1>6
    DEF JobStep, FetchActive, MatchEvent, AssignEvent, CreateIncident,
        SelectStale, CheckStale, TransitionToStale, SelectUpdated, CheckOpen,
        TransitionToOpen, EndLifecycle, Check, Transit, tables, counts
  <2> QED BY <1>1, <1>3, <1>6, <2>1, RunGivesNoVerdict
<1>7. ASSUME NEW o \in Operators, RequestCorrection(o) PROVE Accounted'
  <2>1. /\ rows' = rows /\ audit' = audit /\ faults' = faults
        /\ op[o].phase = "idle"
        /\ \A q \in Operators : q # o => op'[q] = op[q]
    BY <1>1, <1>7 DEF RequestCorrection, tables
  <2>2. \A i \in Ids : BeingRecorded(i) => BeingRecorded(i)'
    BY <2>1 DEF BeingRecorded
  <2>3. Accounted
    BY <1>2, <2>1 DEF VerdictInv
  <2> QED BY <2>1, <2>2, <2>3 DEF Accounted, Verdict, Recorded
<1>8. ASSUME NEW o \in Operators, OperatorStep(o), ~WriteAudit(o)
      PROVE  Accounted'
  <2>1. /\ op' = [op EXCEPT ![o].phase = "audit"] /\ audit' = audit
        /\ op[o].phase = "apply"
        /\ \A i \in Ids : Verdict(i)' => \/ Verdict(i)
                                         \/ /\ i = op[o].inc
                                            /\ op[o].kind \in Deciding
    BY <1>1, <1>8, CorrectionDecides
  <2>2. faults' = faults
    BY <1>8
    DEF OperatorStep, MarkFalsePositive, CloseIncident, Reclassify,
        Relocate, Merge, Correct, AskNothing
  <2>3. /\ op'[o].phase = "audit" /\ op'[o].inc = op[o].inc
        /\ op'[o].kind = op[o].kind
        /\ \A q \in Operators : q # o => op'[q] = op[q]
    BY <1>1, <2>1 DEF OpState
  <2>4. /\ \A i \in Ids : BeingRecorded(i) => BeingRecorded(i)'
        /\ op[o].kind \in Deciding => BeingRecorded(op[o].inc)'
    BY <2>1, <2>3 DEF BeingRecorded
  <2>5. Accounted
    BY <1>2, <2>2 DEF VerdictInv
  <2>6. \A i \in Ids : Recorded(i) => Recorded(i)'
    BY <2>1 DEF Recorded
  <2> QED BY <2>1, <2>4, <2>5, <2>6 DEF Accounted
<1>9. ASSUME NEW o \in Operators, WriteAudit(o) PROVE Accounted'
  <2> DEFINE entry == [inc |-> op[o].inc, kind |-> op[o].kind,
                       before |-> op[o].before]
  <2>1. /\ audit' = Append(audit, entry) /\ rows' = rows
        /\ faults' = faults
        /\ \A q \in Operators : q # o => op'[q] = op[q]
    BY <1>1, <1>9 DEF WriteAudit, counts
  <2>2. entry \in AuditRow
    BY <1>1 DEF AuditRow, OpState
  <2>3. /\ Len(audit) + 1 \in DOMAIN audit'
        /\ audit'[Len(audit) + 1] = entry
        /\ \A n \in DOMAIN audit : n \in DOMAIN audit' /\ audit'[n] = audit[n]
    BY <1>1, <2>1, <2>2
  <2>4. \A i \in Ids : Recorded(i) => Recorded(i)'
    BY <2>3 DEF Recorded
  <2>5. ASSUME NEW i \in Ids, BeingRecorded(i)
        PROVE  Recorded(i)' \/ BeingRecorded(i)'
    <3>1. PICK q \in Operators :
            op[q].phase = "audit" /\ op[q].inc = i /\ op[q].kind \in Deciding
      BY <2>5 DEF BeingRecorded
    <3>2. CASE q = o
      BY <2>3, <3>1, <3>2 DEF Recorded
    <3>3. CASE q # o
      BY <2>1, <3>1, <3>3 DEF BeingRecorded
    <3> QED BY <3>2, <3>3
  <2>6. Accounted
    BY <1>2, <2>1 DEF VerdictInv
  <2> QED BY <2>1, <2>4, <2>5, <2>6 DEF Accounted, Verdict
<1> QED BY <1>4, <1>5, <1>6, <1>7, <1>8, <1>9 DEF Next

(* Unless something failed, no incident is closed or a false positive      *)
(* without a record of a request that made it so, or the request about to  *)
(* write one: neither the jobs nor a merge with stale copies decide.       *)
THEOREM VerdictsAreAudited == Spec => []VerdictsAudited
<1>1. Init => VerdictInv
  BY InitIInv DEF Init, VerdictInv, Accounted, Verdict
<1>2. VerdictInv /\ [Next]_vars => VerdictInv'
  BY NextAccounts
<1>3. VerdictInv => VerdictsAudited
  BY DEF VerdictInv, Accounted, Verdict, Recorded, BeingRecorded,
         VerdictsAudited, Existing
<1> QED BY <1>1, <1>2, <1>3, PTL DEF Spec
=============================================================================
