----------------------------- MODULE Incidents -----------------------------
(***************************************************************************)
(* The incidents table and the sessions that write it: the clustering job  *)
(* (backend/jobs/clustering_job.py), the lifecycle job                     *)
(* (backend/jobs/incident_lifecycle.py) and the operators' corrections     *)
(* (backend/api/routes/corrections.py).                                    *)
(*                                                                         *)
(* A job is named as in the admin API: "all" clusters and then ages the    *)
(* incidents, "clustering" and "lifecycle" do one of the two.  A job runs  *)
(* at most once at a time (JobRegistry!MutualExclusion); different jobs    *)
(* and the operators' requests overlap.  Each has a SQLAlchemy session:    *)
(* what it loads it keeps (cache) until it commits, and a commit writes    *)
(* the columns it changed and no others.  An action ends at a commit or at *)
(* a query, the points where another session can come in between.          *)
(*                                                                         *)
(* Time is counted in ticks and a place is an integer on a line.           *)
(***************************************************************************)
EXTENDS Integers, Sequences, FiniteSets

CONSTANTS
  Events,          \* rows of events_canonical that ingestion may insert
  EventTime,       \* their event_time, position, category and source
  EventPos,
  EventCategory,
  EventSource,
  Centroid(_),     \* compute_canonical_point of a set of events
  Categories,
  Positions,       \* the places an operator relocates incidents to
  MaxIncidents,    \* bound: rows the incidents table can get
  Jobs,            \* the jobs that are run, of the three
  Operators,       \* concurrent correction requests
  Kinds,           \* the correction types that are requested
  Epsilon,         \* EPSILON: a mixed distance below it is a match
  TimeWeight,      \* what a tick weighs in the mixed distance
  Window,          \* run_clustering.py: age of the oldest event it reads
  Timeout,         \* _execute_script: the longest a clustering run lasts
  StaleAge,        \* INCIDENT_STALE_HOURS
  UpdatedAge,      \* UPDATE_TO_OPEN_MINUTES
  MaxClock,        \* bound: the last tick
  MaxRuns,         \* bound: how many runs of jobs are started
  MaxCorrections,  \* bound: how many corrections are requested
  MaxFaults,       \* bound: how many runs are killed or API crashes happen
  NoRow            \* no such row, or not loaded

Ids     == 1..MaxIncidents
Sources == {EventSource[e] : e \in Events}
Sessions == Jobs \cup Operators

(* A mutant of ActiveStatus: a run takes up what was closed. *)
NotFalsePositive == {"open", "updated", "stale", "closed"}

ActiveStatus == {"open", "updated", "stale"}
Status == {"open", "updated", "stale", "closed", "false_positive"}

AllKinds == {"false_positive", "close", "reclassify", "relocate", "merge"}

(* The columns of an incident that the properties are about; founder is    *)
(* the first of linked_event_ids, whose order is not looked at otherwise.  *)
Row ==
  [status: Status, changed: Nat, seen: Nat, pos: Int, category: Categories,
   founder: Events, linked: SUBSET Events, count: Nat,
   sources: SUBSET Sources]

ASSUME EventAssumption ==
  /\ IsFiniteSet(Events)
  /\ EventTime \in [Events -> Nat]
  /\ EventPos \in [Events -> Int]
  /\ EventCategory \in [Events -> Categories]
  /\ \A S \in SUBSET Events : Centroid(S) \in Int
  /\ Positions \subseteq Int

ASSUME ActorAssumption ==
  /\ Jobs \subseteq {"all", "clustering", "lifecycle"}
  /\ IsFiniteSet(Operators)
  /\ Operators \cap {"all", "clustering", "lifecycle"} = {}
  /\ Kinds \subseteq AllKinds

ASSUME BoundAssumption ==
  /\ {MaxIncidents, Epsilon, TimeWeight, Window, Timeout, StaleAge,
      UpdatedAge} \subseteq Nat
  /\ {MaxClock, MaxRuns, MaxCorrections, MaxFaults} \subseteq Nat

ASSUME NoRowAssumption == NoRow \notin Row

VARIABLES
  clock,
  events,      \* events_canonical: the events ingested so far
  rows,        \* incidents
  audit,       \* corrections_audit, in the order of its commits
  job,         \* where the run of each job is
  op,          \* where each correction request is
  cache,       \* what each session has loaded and not expired
  runs,        \* history: runs started
  requests,    \* history: corrections requested
  applied,     \* history: corrections whose change was committed
  void,        \* history: corrections that asked for no change
  faults       \* history: runs killed and API crashes

tables == <<events, rows, audit>>
counts == <<runs, requests, applied, void, faults>>
vars   == <<clock, tables, job, op, cache, counts>>

(***************************************************************************)
(* What a run keeps: the events it still has to place, the category it is  *)
(* at, the incidents it is working through, the event and the incident of  *)
(* the step it is in, and the time it started or compares with.            *)
(***************************************************************************)
ClusterPhase == {"fetch", "match", "assign", "create"}
AgingPhase   == {"age", "stale", "to_stale", "updated", "to_open"}

IdleJob ==
  [phase |-> "idle", todo |-> {}, category |-> {}, work |-> {},
   event |-> {}, target |-> 0, now |-> 0]

JobState ==
  [phase: {"idle"} \cup ClusterPhase \cup AgingPhase, todo: SUBSET Events,
   category: SUBSET Categories, work: SUBSET Ids, event: SUBSET Events,
   target: Ids \cup {0}, now: Nat]

IdleOp == [phase |-> "idle", kind |-> "close", inc |-> 0, target |-> 0,
           before |-> "open"]

OpState ==
  [phase: {"idle", "apply", "audit"}, kind: AllKinds, inc: Ids \cup {0},
   target: Ids \cup {0}, before: Status]

AuditRow == [inc: Ids \cup {0}, kind: AllKinds, before: Status]

TypeOK ==
  /\ clock \in Nat
  /\ events \in SUBSET Events
  /\ rows \in [Ids -> Row \cup {NoRow}]
  /\ audit \in Seq(AuditRow)
  /\ job \in [Jobs -> JobState]
  /\ op \in [Operators -> OpState]
  /\ cache \in [Sessions -> [Ids -> Row \cup {NoRow}]]
  /\ runs \in Nat /\ requests \in Nat /\ faults \in Nat
  /\ applied \in Nat /\ void \in Nat

Expired == [i \in Ids |-> NoRow]

Init ==
  /\ clock = 0
  /\ events = {}
  /\ rows = [i \in Ids |-> NoRow]
  /\ audit = <<>>
  /\ job = [p \in Jobs |-> IdleJob]
  /\ op = [o \in Operators |-> IdleOp]
  /\ cache = [s \in Sessions |-> Expired]
  /\ runs = 0 /\ requests = 0 /\ applied = 0 /\ void = 0 /\ faults = 0

Existing == {i \in Ids : rows[i] # NoRow}

-----------------------------------------------------------------------------
(***************************************************************************)
(* A session (SQLAlchemy, expire_on_commit).                               *)
(***************************************************************************)

(* What session s holds after it has read the rows of S. *)
Loaded(s, S) ==
  [i \in Ids |-> IF i \in S /\ cache[s][i] = NoRow THEN rows[i]
                                                    ELSE cache[s][i]]

Load(s, S) == cache' = [cache EXCEPT ![s] = Loaded(s, S)]

(* The row after an UPDATE that takes it from what was loaded to new: the  *)
(* columns the session did not change keep what the table has.             *)
Updated(row, loaded, new) ==
  LET Column(f) == IF new[f] = loaded[f] THEN row[f] ELSE new[f]
  IN  [status |-> Column("status"), changed |-> Column("changed"),
       seen |-> Column("seen"), pos |-> Column("pos"),
       category |-> Column("category"), founder |-> Column("founder"),
       linked |-> Column("linked"), count |-> Column("count"),
       sources |-> Column("sources")]

(* Session s commits row i as new; everything it has loaded expires. *)
Commit(s, i, new) ==
  /\ rows' = [rows EXCEPT ![i] = Updated(@, cache[s][i], new)]
  /\ cache' = [cache EXCEPT ![s] = Expired]

-----------------------------------------------------------------------------
(***************************************************************************)
(* The environment: time, ingestion.                                       *)
(***************************************************************************)

(* A clustering run is a subprocess that is killed at its timeout. *)
Tick ==
  /\ clock < MaxClock
  /\ \A p \in Jobs : job[p].phase \in ClusterPhase
                        => clock < job[p].now + Timeout
  /\ clock' = clock + 1
  /\ UNCHANGED <<tables, job, op, cache, counts>>

(* An ingestor commits an event that is not in the future. *)
Ingest(e) ==
  /\ e \notin events
  /\ EventTime[e] <= clock
  /\ events' = events \cup {e}
  /\ UNCHANGED <<clock, rows, audit, job, op, cache, counts>>

-----------------------------------------------------------------------------
(***************************************************************************)
(* run_clustering_job.                                                     *)
(***************************************************************************)

InCategory(S, cs) == {e \in S : EventCategory[e] \in cs}

(* What follows clustering in a run of the job. *)
AfterClustering(p) ==
  IF p = "all" THEN [IdleJob EXCEPT !.phase = "age"] ELSE IdleJob

(* fetch_unassigned_events: every event of the window, placed before or    *)
(* not.  Without any, the clustering part ends at once.                    *)
StartClustering(p) ==
  LET recent == {e \in events : EventTime[e] >= clock - Window}
  IN  /\ p \in {"all", "clustering"}
      /\ job[p].phase = "idle"
      /\ runs < MaxRuns
      /\ runs' = runs + 1
      /\ job' = [job EXCEPT
                   ![p] = IF recent = {}
                            THEN AfterClustering(p)
                            ELSE [IdleJob EXCEPT !.phase = "fetch",
                                                 !.todo = recent,
                                                 !.now = clock]]
      /\ UNCHANGED <<clock, tables, op, cache, requests, applied, void, faults>>

(* fetch_active_incidents, for the next category or, after a new incident, *)
(* for the current one again.                                              *)
FetchActive(p) ==
  /\ job[p].phase = "fetch"
  /\ \E c \in {EventCategory[e] : e \in job[p].todo} :
       LET active == {i \in Existing : /\ rows[i].category = c
                                       /\ rows[i].status \in ActiveStatus}
       IN  /\ InCategory(job[p].todo, job[p].category) # {}
                => c \in job[p].category
           /\ job' = [job EXCEPT ![p].phase = "match",
                                 ![p].category = {c},
                                 ![p].work = active]
           /\ Load(p, active)
  /\ UNCHANGED <<clock, tables, op, counts>>

Distance(a, b) == IF a < b THEN b - a ELSE a - b

(* compute_mixed_distance of an event and an incident. *)
MixedDistance(e, row) ==
  Distance(EventPos[e], row.pos) + TimeWeight * Distance(EventTime[e], row.seen)

(* find_closest_incident: the incidents it may return, none if empty.  The *)
(* list has no ORDER BY, so among equally close ones any can come first.   *)
Closest(e, S, loaded) ==
  LET d(i) == MixedDistance(e, loaded[i])
  IN  {i \in S : d(i) < Epsilon /\ \A j \in S : d(i) <= d(j)}

(* One turn of the loop: the earliest event left (ORDER BY event_time) and *)
(* the incident it goes to.  Expired incidents of the list are read again, *)
(* but whether they are still active is not looked at.                     *)
MatchEvent(p) ==
  LET left == InCategory(job[p].todo, job[p].category)
      loaded == Loaded(p, job[p].work)
  IN  /\ job[p].phase = "match"
      /\ \E e \in left :
           /\ \A f \in left : EventTime[e] <= EventTime[f]
           /\ \/ \E i \in Closest(e, job[p].work, loaded) :
                   job' = [job EXCEPT ![p].phase = "assign",
                                      ![p].event = {e}, ![p].target = i]
              \/ /\ Closest(e, job[p].work, loaded) = {}
                 /\ job' = [job EXCEPT ![p].phase = "create",
                                       ![p].event = {e}, ![p].target = 0]
      /\ Load(p, job[p].work)
      /\ UNCHANGED <<clock, tables, op, counts>>

FirstOnly(p, next) ==    \* mutant of EventPlaced: the rest is left out
  job' = [job EXCEPT ![p] = AfterClustering(p)]

RereadBatch(p, next) ==    \* mutant of EventPlaced: the event is still to do
  job' = [job EXCEPT ![p].phase = next, ![p].event = {}, ![p].target = 0]

(* After an event is placed: the next event of the category (with the same *)
(* list, or a list fetched again), the next category, or the end.          *)
EventPlaced(p, next) ==
  LET left == job[p].todo \ job[p].event
  IN  job' = [job EXCEPT
                ![p] = IF left = {} THEN AfterClustering(p)
                       ELSE IF InCategory(left, job[p].category) = {}
                       THEN [IdleJob EXCEPT !.phase = "fetch", !.todo = left,
                                            !.now = job[p].now]
                       ELSE [@ EXCEPT !.phase = next, !.todo = left,
                                      !.event = {}, !.target = 0]]

Latest(a, b) == b    \* mutant of Larger: what comes last is the last seen

Larger(a, b) == IF a < b THEN b ELSE a

(* assign_event_to_incident with transition_to_updated.  The event is      *)
(* appended in place to the list that was loaded, and the same list is     *)
(* assigned back, so linked_event_ids is not among the changed columns;    *)
(* the count and the centroid are computed from the longer list.           *)
AssignEvent(p) ==
  /\ job[p].phase = "assign"
  /\ \E e \in job[p].event :
       LET i == job[p].target
           row == cache[p][i]
           observed == row.linked \cup {e}
       IN  Commit(p, i, [row EXCEPT !.status = "updated",
                                    !.changed = clock,
                                    !.seen = Larger(@, EventTime[e]),
                                    !.pos = Centroid(observed),
                                    !.count = Cardinality(observed),
                                    !.sources = @ \cup {EventSource[e]}])
  /\ EventPlaced(p, "match")
  /\ UNCHANGED <<clock, events, audit, op, counts>>

(* create_new_incident: a new uuid, and the row is loaded again at once    *)
(* (the session ends with the run).                                        *)
CreateIncident(p) ==
  /\ job[p].phase = "create"
  /\ \E e \in job[p].event, i \in Ids :
       LET row == [status |-> "open", changed |-> clock,
                   seen |-> EventTime[e], pos |-> EventPos[e],
                   category |-> EventCategory[e], founder |-> e,
                   linked |-> {e}, count |-> 1,
                   sources |-> {EventSource[e]}]
       IN  /\ rows[i] = NoRow
           /\ \A j \in 1..(i - 1) : rows[j] # NoRow
           /\ rows' = [rows EXCEPT ![i] = row]
           /\ EventPlaced(p, "fetch")
           /\ cache' = [cache EXCEPT ![p] = IF job'[p].phase = "fetch"
                                             THEN [Expired EXCEPT ![i] = row]
                                             ELSE Expired]
  /\ UNCHANGED <<clock, events, audit, op, counts>>

(* A run fails, or its clustering subprocess is killed at its timeout: the *)
(* transaction is rolled back, and "all" does not go on to lifecycle.      *)
RunFails(p) ==
  /\ job[p].phase # "idle"
  /\ faults < MaxFaults
  /\ faults' = faults + 1
  /\ job' = [job EXCEPT ![p] = IdleJob]
  /\ cache' = [cache EXCEPT ![p] = Expired]
  /\ UNCHANGED <<clock, tables, op, runs, requests, applied, void>>

-----------------------------------------------------------------------------
(***************************************************************************)
(* run_lifecycle_job.  It is called on the event loop and holds it: no two *)
(* runs of it overlap, while clustering and the operators' threads go on.  *)
(***************************************************************************)

StartLifecycle(p) ==
  /\ p = "lifecycle"
  /\ job[p].phase = "idle"
  /\ runs < MaxRuns
  /\ runs' = runs + 1
  /\ job' = [job EXCEPT ![p].phase = "age"]
  /\ UNCHANGED <<clock, tables, op, cache, requests, applied, void, faults>>

QuietForUpdatedAge(i, now) ==    \* mutant of Quiet: the other job's age
  rows[i].status \in {"open", "updated"} /\ rows[i].seen < now - UpdatedAge

(* The two queries of the job, at the time the job began. *)
Quiet(i, now) ==
  rows[i].status \in {"open", "updated"} /\ rows[i].seen < now - StaleAge

Lapsed(i, now) ==
  rows[i].status = "updated" /\ rows[i].changed < now - UpdatedAge

SelectStale(p) ==
  LET quiet == {i \in Existing : Quiet(i, clock)}
  IN  /\ job[p].phase = "age"
      /\ \A q \in Jobs : job[q].phase \notin AgingPhase \ {"age"}
      /\ job' = [job EXCEPT ![p].phase = "stale", ![p].work = quiet,
                            ![p].now = clock]
      /\ Load(p, quiet)
      /\ UNCHANGED <<clock, tables, op, counts>>

SelectUpdated(p) ==
  LET lapsed == {i \in Existing : Lapsed(i, job[p].now)}
  IN  /\ job[p].phase = "stale"
      /\ job[p].work = {}
      /\ job' = [job EXCEPT ![p].phase = "updated", ![p].work = lapsed]
      /\ Load(p, lapsed)
      /\ UNCHANGED <<clock, tables, op, counts>>

(***************************************************************************)
(* A turn of either loop looks at the incident's status as the session has *)
(* it (read again if it expired) and skips the incident if the transition  *)
(* is invalid; the change is committed after that, in another step.        *)
(***************************************************************************)
Check(p, phase, next, allowed) ==
  /\ job[p].phase = phase
  /\ \E i \in job[p].work :
       /\ Load(p, {i})
       /\ job' = IF Loaded(p, {i})[i].status \in allowed
                   THEN [job EXCEPT ![p].phase = next, ![p].target = i]
                   ELSE [job EXCEPT ![p].work = @ \ {i}]
  /\ UNCHANGED <<clock, tables, op, counts>>

Transit(p, phase, next, status) ==
  /\ job[p].phase = phase
  /\ LET i == job[p].target
     IN  /\ Commit(p, i, [cache[p][i] EXCEPT !.status = status,
                                             !.changed = clock])
         /\ job' = [job EXCEPT ![p].phase = next, ![p].work = @ \ {i},
                               ![p].target = 0]
  /\ UNCHANGED <<clock, events, audit, op, counts>>

(* transition_to_stale and transition_to_open. *)
CheckStale(p)       == Check(p, "stale", "to_stale", {"open", "updated"})
TransitionToStale(p) == Transit(p, "to_stale", "stale", "stale")
CheckOpen(p)        == Check(p, "updated", "to_open", ActiveStatus)
TransitionToOpen(p)  == Transit(p, "to_open", "updated", "open")

EndLifecycle(p) ==
  /\ job[p].phase = "updated"
  /\ job[p].work = {}
  /\ job' = [job EXCEPT ![p] = IdleJob]
  /\ cache' = [cache EXCEPT ![p] = Expired]
  /\ UNCHANGED <<clock, tables, op, counts>>

-----------------------------------------------------------------------------
(***************************************************************************)
(* create_correction: it loads the incident (and the target of a merge),   *)
(* commits the change, and commits the audit row in a second transaction.  *)
(***************************************************************************)

RequestCorrection(o) ==
  /\ op[o].phase = "idle"
  /\ requests < MaxCorrections
  /\ requests' = requests + 1
  /\ \E i \in Existing, k \in Kinds :
       \E t \in IF k = "merge" THEN Existing ELSE {i} :
         /\ op' = [op EXCEPT ![o] = [phase |-> "apply", kind |-> k, inc |-> i,
                                     target |-> t, before |-> rows[i].status]]
         /\ Load(o, {i, t})
  /\ UNCHANGED <<clock, tables, job, runs, applied, void, faults>>

(* A correction of one incident: the row it commits is new. *)
Correct(o, kind, new) ==
  /\ op[o].phase = "apply"
  /\ op[o].kind = kind
  /\ Commit(o, op[o].inc, new)
  /\ op' = [op EXCEPT ![o].phase = "audit"]
  /\ applied' = applied + 1
  /\ UNCHANGED <<clock, events, audit, job, runs, requests, void, faults>>

InHand(o) == cache[o][op[o].inc]

MarkFalsePositive(o) ==
  Correct(o, "false_positive",
          [InHand(o) EXCEPT !.status = "false_positive", !.changed = clock])

CloseByKind(o) ==    \* mutant of CloseIncident: a status nobody knows
  Correct(o, "close", [InHand(o) EXCEPT !.status = "close", !.changed = clock])

CloseIncident(o) ==
  Correct(o, "close", [InHand(o) EXCEPT !.status = "closed", !.changed = clock])

AskAndLeave(o, kind) ==    \* mutant of AskNothing: it returns early
  /\ op[o].phase = "apply"
  /\ op[o].kind = kind
  /\ op' = [op EXCEPT ![o] = IdleOp]
  /\ cache' = [cache EXCEPT ![o] = Expired]
  /\ void' = void + 1
  /\ UNCHANGED <<clock, tables, job, runs, requests, applied, faults>>

(* A correction that names nothing to change: no row is written, and the   *)
(* request goes on to its audit row all the same.                          *)
AskNothing(o, kind) ==
  /\ op[o].phase = "apply"
  /\ op[o].kind = kind
  /\ op' = [op EXCEPT ![o].phase = "audit"]
  /\ cache' = [cache EXCEPT ![o] = Expired]
  /\ void' = void + 1
  /\ UNCHANGED <<clock, tables, job, runs, requests, applied, faults>>

(* A false positive is reopened, whatever category the request asks for;   *)
(* the category and the type of another are optional.                      *)
Reclassify(o) ==
  \/ /\ op[o].before = "false_positive"
     /\ Correct(o, "reclassify",
                [InHand(o) EXCEPT !.status = "open", !.changed = clock])
  \/ /\ op[o].before # "false_positive"
     /\ \/ \E c \in Categories :
             Correct(o, "reclassify", [InHand(o) EXCEPT !.category = c])
        \/ AskNothing(o, "reclassify")

(* The coordinates, and each of the two, are optional. *)
Relocate(o) ==
  \/ \E x \in Positions :
       Correct(o, "relocate", [InHand(o) EXCEPT !.pos = x])
  \/ AskNothing(o, "relocate")

MergeMoves(o) ==    \* mutant of Merge: the links are taken away from one
  LET i == op[o].inc
      t == op[o].target
      links == cache[o][t].linked \cup cache[o][i].linked
      new == [cache[o] EXCEPT ![i].linked = {}, ![i].status = "closed",
                              ![t].linked = links,
                              ![t].count = Cardinality(links)]
  IN  /\ op[o].phase = "apply"
      /\ op[o].kind = "merge"
      /\ rows' = [j \in Ids |-> IF j \in {i, t}
                                 THEN Updated(rows[j], cache[o][j], new[j])
                                 ELSE rows[j]]
      /\ cache' = [cache EXCEPT ![o] = Expired]
      /\ op' = [op EXCEPT ![o].phase = "audit"]
      /\ applied' = applied + 1
      /\ UNCHANGED <<clock, events, audit, job, runs, requests, void, faults>>

(* merge: the target gets the links it lacks, and nothing else of the      *)
(* incident, which is closed; an incident may be merged into itself.       *)
Merge(o) ==
  LET i == op[o].inc
      t == op[o].target
      links == cache[o][t].linked \cup cache[o][i].linked
      new == [cache[o] EXCEPT ![t].linked = links,
                              ![t].count = Cardinality(links),
                              ![i].status = "closed"]
  IN  /\ op[o].phase = "apply"
      /\ op[o].kind = "merge"
      /\ rows' = [j \in Ids |-> IF j \in {i, t}
                                 THEN Updated(rows[j], cache[o][j], new[j])
                                 ELSE rows[j]]
      /\ cache' = [cache EXCEPT ![o] = Expired]
      /\ op' = [op EXCEPT ![o].phase = "audit"]
      /\ applied' = applied + 1
      /\ UNCHANGED <<clock, events, audit, job, runs, requests, void, faults>>

AuditUnlessMerge(o) ==    \* mutant of WriteAudit: not for merges
  /\ op[o].phase = "audit"
  /\ audit' = IF op[o].kind = "merge" THEN audit
               ELSE Append(audit, [inc |-> op[o].inc, kind |-> op[o].kind,
                                   before |-> op[o].before])
  /\ op' = [op EXCEPT ![o] = IdleOp]
  /\ UNCHANGED <<clock, events, rows, job, cache, counts>>

WriteAudit(o) ==
  /\ op[o].phase = "audit"
  /\ audit' = Append(audit, [inc |-> op[o].inc, kind |-> op[o].kind,
                             before |-> op[o].before])
  /\ op' = [op EXCEPT ![o] = IdleOp]
  /\ UNCHANGED <<clock, events, rows, job, cache, counts>>

(* The API container stops: the requests and the jobs it ran are gone, and *)
(* what they had not committed is rolled back.                             *)
Crash ==
  /\ faults < MaxFaults
  /\ faults' = faults + 1
  /\ job' = [p \in Jobs |-> IdleJob]
  /\ op' = [o \in Operators |-> IdleOp]
  /\ cache' = [s \in Sessions |-> Expired]
  /\ UNCHANGED <<clock, tables, runs, requests, applied, void>>

-----------------------------------------------------------------------------
JobStep(p) ==
  \/ FetchActive(p)
  \/ MatchEvent(p)
  \/ AssignEvent(p)
  \/ CreateIncident(p)
  \/ SelectStale(p)
  \/ CheckStale(p)
  \/ TransitionToStale(p)
  \/ SelectUpdated(p)
  \/ CheckOpen(p)
  \/ TransitionToOpen(p)
  \/ EndLifecycle(p)

OperatorStep(o) ==
  \/ MarkFalsePositive(o)
  \/ CloseIncident(o)
  \/ Reclassify(o)
  \/ Relocate(o)
  \/ Merge(o)
  \/ WriteAudit(o)

Next ==
  \/ Tick
  \/ \E e \in Events : Ingest(e)
  \/ \E p \in Jobs : StartClustering(p) \/ StartLifecycle(p) \/ RunFails(p)
  \/ \E p \in Jobs : JobStep(p)
  \/ \E o \in Operators : RequestCorrection(o)
  \/ \E o \in Operators : OperatorStep(o)
  \/ Crash

(* A run or a request that has started goes on until it ends; nothing      *)
(* makes anybody start one, and time need not pass.                        *)
Fairness ==
  /\ \A p \in Jobs : WF_vars(JobStep(p))
  /\ \A o \in Operators : WF_vars(OperatorStep(o))

Spec == Init /\ [][Next]_vars /\ Fairness

-----------------------------------------------------------------------------
(***************************************************************************)
(* What the thresholds have to satisfy for aging to be sound.              *)
(***************************************************************************)

(* What a run reads is too recent to be close to a stale incident.  An     *)
(* event that is d away from an incident in time is a match only for a     *)
(* small d; the run reads events of the Window, lasts Timeout, and so may  *)
(* one beside it, which sees the incident after it was loaded.  (In the    *)
(* code 24 h, 5 min and at most 22 h, against 72 h.)                       *)
StaleIsOutOfReach ==
  \A d \in 0..(StaleAge + 1) :
    TimeWeight * d < Epsilon => Window + 2 * Timeout + d <= StaleAge

-----------------------------------------------------------------------------
(***************************************************************************)
(* Properties.                                                             *)
(***************************************************************************)

OperatorActs == \E o \in Operators : op[o].phase # op'[o].phase

(* An incident becomes stale only when its row, at that moment, says that  *)
(* it has not been seen for StaleAge, although the job decides on a row it *)
(* loaded earlier and a clustering run may be assigning events meanwhile.  *)
StaleJustified ==
  [][\A i \in Existing :
       rows[i].status # "stale" /\ rows'[i].status = "stale"
         => rows[i].seen < clock - StaleAge]_vars

(* An incident falls back from updated to open only when nothing has been  *)
(* assigned to it for UpdatedAge.                                          *)
QuietBeforeOpen ==
  [][\A i \in Existing :
       rows[i].status = "updated" /\ rows'[i].status = "open" /\ ~OperatorActs
         => rows[i].changed < clock - UpdatedAge]_vars

(* What an incident has observed is lost in one way only.  Lifecycle runs, *)
(* operators and runs that place old events again never take its last      *)
(* sighting back or a source away, although whole columns are rewritten    *)
(* from copies; a clustering run does when the other clustering job has    *)
(* written the incident since the run loaded it.                           *)
Clusterers == {"all", "clustering"}

Overtaken(p, i) ==
  /\ job[p].phase = "assign"
  /\ job[p].target = i
  /\ \/ cache[p][i].seen # rows[i].seen
     \/ cache[p][i].sources # rows[i].sources

ObservationsAccumulate ==
  [][\A i \in Existing :
       \/ /\ rows[i].seen <= rows'[i].seen
          /\ rows[i].sources \subseteq rows'[i].sources
       \/ /\ Clusterers \subseteq Jobs
          /\ \E p \in Jobs : Overtaken(p, i) /\ AssignEvent(p)]_vars

(* Not even then does an incident forget the event it was founded on, nor  *)
(* through merges.                                                         *)
FounderRemembered ==
  \A i \in Existing :
    LET e == rows[i].founder
    IN  /\ e \in rows[i].linked
        /\ EventSource[e] \in rows[i].sources
        /\ EventTime[e] <= rows[i].seen

(* A run founds at most one incident on an event, although it fetches the  *)
(* incidents again after each one and another job may cluster the same     *)
(* events beside it: an event has founded at most as many incidents as     *)
(* runs have been started, less those that have yet to place it.           *)
FoundedOncePerRun ==
  \A e \in Events :
    Cardinality({i \in Existing : rows[i].founder = e})
      + Cardinality({p \in Jobs : e \in job[p].todo}) <= runs

(* An event founds one incident, however often runs read it again, unless  *)
(* an operator has changed the incidents it could go to.                   *)
FoundedOnce ==
  applied = 0 =>
    \A i, j \in Existing :
      rows[i].founder = rows[j].founder => i = j

(* The audit trail never runs ahead of the corrections that were carried   *)
(* out, those that asked for no change included, and a crash of the API is *)
(* the only thing that leaves it behind: by the requests then between      *)
(* their change and its record.                                            *)
AuditAccounts ==
  LET owed == applied + void - Len(audit)
                - Cardinality({o \in Operators : op[o].phase = "audit"})
  IN  owed >= 0 /\ owed <= faults * Cardinality(Operators)

(* No incident is closed or a false positive without a record of a request *)
(* that made it so, whatever was merged or written over since, but for     *)
(* what a crash or a request under way still owes.                         *)
Verdicts == {"closed", "false_positive"}
Deciding == {"close", "false_positive", "merge"}

VerdictsAudited ==
  \A i \in Existing :
    rows[i].status \in Verdicts /\ faults = 0 =>
      \/ \E n \in DOMAIN audit :
           audit[n].inc = i /\ audit[n].kind \in Deciding
      \/ \E o \in Operators :
           /\ op[o].phase = "audit"
           /\ op[o].inc = i
           /\ op[o].kind \in Deciding

(* An incident not seen for StaleAge is not taken up again by a job: what  *)
(* a run reads is too recent to be close to it.                            *)
StaleLeftAlone ==
  [][\A i \in Existing :
       rows[i].status = "stale" /\ rows'[i].status \in {"open", "updated"}
         => OperatorActs]_vars

(* The specification of the life cycle has a new observation reactivate a  *)
(* stale incident: no second one is founded on an event at its place.      *)
StaleReactivated ==
  [][\A i \in Existing, j \in Ids \ Existing :
       /\ rows[i].status = "stale"
       /\ rows'[j] # NoRow
       /\ rows'[j].category = rows[i].category
       => Distance(rows'[j].pos, rows[i].pos) >= Epsilon]_vars

(* Every event a run has read ends up in an incident: if no fault stops    *)
(* the run, the event's source is among the sources of one.                *)
BatchAttributed ==
  \A e \in Events :
    (\E p \in Jobs : e \in job[p].todo)
      ~> \/ \E i \in Existing : EventSource[e] \in rows[i].sources
         \/ faults > 0

(* A verdict that no run is working against stands until an operator acts: *)
(* a run takes up active incidents only, so it can undo no verdict that    *)
(* was given before it read the incident.                                  *)
Settled(i) ==
  /\ rows[i] # NoRow
  /\ rows[i].status \in {"closed", "false_positive"}
  /\ \A p \in Jobs : i \notin job[p].work

SettledStays ==
  [][\A i \in Ids : Settled(i) /\ ~OperatorActs => Settled(i)']_vars

(* What an operator closed or marked as false positive is active again     *)
(* only through an operator.                                               *)
VerdictStands ==
  [][\A i \in Existing :
       rows[i].status \notin ActiveStatus /\ rows'[i].status \in ActiveStatus
         => OperatorActs]_vars

(* An incident has at least as many observations as sources, since each    *)
(* source has observed it.                                                 *)
CountCoversSources ==
  \A i \in Existing : Cardinality(rows[i].sources) <= rows[i].count
=============================================================================
