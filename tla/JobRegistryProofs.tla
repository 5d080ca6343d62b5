------------------------- MODULE JobRegistryProofs -------------------------
(***************************************************************************)
(* Proofs about JobRegistry, for every set of job ids and of sources.      *)
(***************************************************************************)
EXTENDS JobRegistry, TLAPS

(* What each state of a task says about its record and its scripts. *)
TaskShape(id) ==
  /\ task[id] \in {"none", "scheduled"} => procs[id] = {}
  /\ task[id] = "script" =>
       records[id].job \in Scripts /\ procs[id] \subseteq {records[id].job}
  /\ task[id] = "ingest" =>
       records[id].job = "all" /\ procs[id] \subseteq Sources
  /\ task[id] = "cluster" =>
       records[id].job = "all" /\ procs[id] \subseteq {"clustering"}

(* A key that no answer has carried is not in use: uuids are not drawn twice. *)
FreshKeysUnused ==
  \A id \in Ids : Key(id) \notin handed => records[id] = NoRecord

(* The inductive invariant.  OneRunningPerName is not inductive alone: a   *)
(* new record must not replace a running one (FreshKeysUnused), and only a *)
(* task that holds a running record may write one (RunningIffTask).        *)
IInv ==
  /\ TypeOK
  /\ FreshKeysUnused
  /\ RunningIffTask
  /\ OneRunningPerName
  /\ \A id \in Ids : TaskShape(id)

LEMMA InitIInv == Init => IInv
  BY NoRecordAssumption
  DEF Init, IInv, TypeOK, FreshKeysUnused, RunningIffTask, OneRunningPerName,
      Running, TaskShape, TaskState

(* A new record has its fields, and is a record. *)
LEMMA NewRecordFields ==
  ASSUME NEW job \in JobNames, NEW uuid \in Uuid
  PROVE  /\ NewRecord(job, uuid) \in Record
         /\ NewRecord(job, uuid) # NoRecord
         /\ NewRecord(job, uuid).job = job
         /\ NewRecord(job, uuid).status = "running"
  BY NoRecordAssumption DEF NewRecord, Record

(* The endpoints insert a record only while none of its job is running. *)
LEMMA AcceptIInv ==
  ASSUME IInv, NEW job \in JobNames, Accept(job)
  PROVE  IInv'
<1>1. PICK id \in Ids :
        /\ Key(id) \notin handed
        /\ records' = [records EXCEPT ![id] = NewRecord(job, Key(id))]
        /\ task' = [task EXCEPT ![id] = "scheduled"]
        /\ handed' = handed \cup {Key(id)}
  BY DEF Accept, Insert
<1>2. Key(id) \in Uuid
  BY DEF Key, Uuid
<1>3. /\ NewRecord(job, Key(id)) \in Record
      /\ NewRecord(job, Key(id)) # NoRecord
      /\ NewRecord(job, Key(id)).job = job
      /\ NewRecord(job, Key(id)).status = "running"
  BY <1>2, NewRecordFields
<1>4. procs' = procs /\ failures' = failures
  BY DEF Accept, Insert
<1>5. records[id] = NoRecord /\ task[id] = "none" /\ procs[id] = {}
  <2>1. records[id] = NoRecord
    BY <1>1 DEF IInv, FreshKeysUnused
  <2>2. task[id] = "none"
    BY <2>1 DEF IInv, RunningIffTask
  <2>3. procs[id] = {}
    BY <2>2 DEF IInv, TaskShape
  <2> QED BY <2>1, <2>2, <2>3
<1>6. TypeOK'
  BY <1>1, <1>2, <1>3, <1>4 DEF IInv, TypeOK, TaskState
<1>7. FreshKeysUnused'
  BY <1>1 DEF IInv, TypeOK, FreshKeysUnused
<1>8. RunningIffTask'
  BY <1>1, <1>3 DEF IInv, TypeOK, RunningIffTask
<1>9. OneRunningPerName'
  <2>1. \A name \in JobNames :
          Running(name)' = IF name = job THEN {id} ELSE Running(name)
    <3>1. Running(job) = {}
      BY DEF Accept
    <3>2. \A i \in Ids : i # id => records'[i] = records[i]
      BY <1>1 DEF IInv, TypeOK
    <3>3. records'[id] = NewRecord(job, Key(id))
      BY <1>1 DEF IInv, TypeOK
    <3> QED BY <3>1, <3>2, <3>3, <1>3, <1>5 DEF Running
  <2> QED BY <2>1 DEF IInv, OneRunningPerName
<1>10. ASSUME NEW i \in Ids PROVE TaskShape(i)'
  BY <1>1, <1>4, <1>5 DEF IInv, TypeOK, TaskShape
<1> QED BY <1>6, <1>7, <1>8, <1>9, <1>10 DEF IInv

(* A 409 changes nothing but the set of ids the clients know. *)
LEMMA RefuseIInv ==
  ASSUME IInv, NEW job \in JobNames, Refuse(job)
  PROVE  IInv'
<1>1. PICK id \in Running(job) : handed' = handed \cup {records[id].job_id}
  BY DEF Refuse
<1>2. UNCHANGED <<records, task, procs, failures>>
  BY DEF Refuse
<1>3. records[id].job_id \in Uuid
  BY DEF IInv, TypeOK, Running, Record
<1>4. TypeOK'
  BY <1>1, <1>2, <1>3 DEF IInv, TypeOK
<1>5. FreshKeysUnused'
  BY <1>1, <1>2 DEF IInv, FreshKeysUnused
<1>6. RunningIffTask' /\ OneRunningPerName' /\ \A i \in Ids : TaskShape(i)'
  BY <1>2 DEF IInv, RunningIffTask, OneRunningPerName, Running, TaskShape
<1> QED BY <1>4, <1>5, <1>6 DEF IInv

(* A step that rewrites the record of one live task, keeping its job, and  *)
(* ends the task exactly when it ends the record, keeps the three          *)
(* invariants that relate records: what every step of a task has in common.*)
LEMMA TaskKeepsRecords ==
  ASSUME IInv, NEW id \in Ids, NEW rec \in Record, NEW state \in TaskState,
         task[id] # "none",
         records' = [records EXCEPT ![id] = rec],
         task' = [task EXCEPT ![id] = state],
         rec.job = records[id].job,
         state # "none" <=> rec.status = "running",
         handed' = handed
  PROVE  FreshKeysUnused' /\ RunningIffTask' /\ OneRunningPerName'
<1>1. records[id] # NoRecord /\ records[id].status = "running"
  BY DEF IInv, RunningIffTask
<1>2. rec # NoRecord
  BY NoRecordAssumption
<1>3. /\ records'[id] = rec
      /\ \A i \in Ids : i # id => records'[i] = records[i]
  BY DEF IInv, TypeOK
<1>4. FreshKeysUnused'
  BY <1>1, <1>3 DEF IInv, FreshKeysUnused
<1>5. RunningIffTask'
  BY <1>2, <1>3 DEF IInv, TypeOK, RunningIffTask
<1>6. \A job \in JobNames : Running(job)' \subseteq Running(job)
  BY <1>1, <1>3 DEF Running
<1>7. OneRunningPerName'
  BY <1>6 DEF IInv, OneRunningPerName
<1> QED BY <1>4, <1>5, <1>7

(* The start of a background task, for the states it can go to. *)
LEMMA BeginIInv ==
  ASSUME IInv, NEW id \in Ids, NEW jobs, NEW state \in TaskState,
         NEW status \in {"running", "completed", "failed"},
         NEW scripts \in SUBSET Scripts,
         Begin(id, jobs, status, state, scripts),
         state # "none" <=> status = "running",
         \/ state = "none" /\ scripts = {}
         \/ state = "script" /\ jobs \subseteq Scripts /\ scripts = jobs
                             /\ \E s \in Scripts : jobs = {s}
         \/ state = "ingest" /\ jobs = {"all"} /\ scripts = Sources
  PROVE  IInv'
<1> DEFINE rec == [NewRecord(records[id].job, Redrawn(id))
                     EXCEPT !.status = status]
<1>1. task[id] = "scheduled" /\ records[id].job \in jobs
  BY DEF Begin
<1>2. records[id] \in Record
  BY <1>1 DEF IInv, TypeOK, RunningIffTask
<1>3. Redrawn(id) \in Uuid
  BY DEF Redrawn, Uuid
<1>4. rec \in Record /\ rec.job = records[id].job /\ rec.status = status
  BY <1>2, <1>3 DEF NewRecord, Record
<1>5. /\ records' = [records EXCEPT ![id] = rec]
      /\ task' = [task EXCEPT ![id] = state]
      /\ procs' = [procs EXCEPT ![id] = scripts]
      /\ failures' = failures
      /\ handed' = handed
  BY DEF Begin
<1> HIDE DEF rec
<1>6. FreshKeysUnused' /\ RunningIffTask' /\ OneRunningPerName'
  BY <1>1, <1>4, <1>5, TaskKeepsRecords
<1>7. TypeOK'
  BY <1>4, <1>5 DEF IInv, TypeOK
<1>8. ASSUME NEW i \in Ids PROVE TaskShape(i)'
  <2>1. CASE i = id
    BY <1>1, <1>4, <1>5, <2>1 DEF IInv, TypeOK, TaskShape
  <2>2. CASE i # id
    BY <1>5, <2>2 DEF IInv, TypeOK, TaskShape
  <2> QED BY <2>1, <2>2
<1> QED BY <1>6, <1>7, <1>8 DEF IInv

(* The end of a script only shrinks what its task waits for. *)
LEMMA ScriptExitsIInv ==
  ASSUME IInv, NEW id \in Ids, NEW s \in Scripts, ScriptExits(id, s)
  PROVE  IInv'
<1>1. /\ procs' = [procs EXCEPT ![id] = @ \ {s}]
      /\ UNCHANGED <<records, task, handed>>
  BY DEF ScriptExits
<1>2. TypeOK'
  BY <1>1 DEF ScriptExits, IInv, TypeOK
<1>3. FreshKeysUnused' /\ RunningIffTask' /\ OneRunningPerName'
  BY <1>1 DEF IInv, FreshKeysUnused, RunningIffTask, OneRunningPerName, Running
<1>4. ASSUME NEW i \in Ids PROVE TaskShape(i)'
  <2>1. procs'[i] \subseteq procs[i]
    BY <1>1 DEF IInv, TypeOK
  <2> QED BY <1>1, <2>1 DEF IInv, TaskShape
<1> QED BY <1>2, <1>3, <1>4 DEF IInv

(* The end of a task, once its scripts have ended. *)
LEMMA CloseIInv ==
  ASSUME IInv, NEW id \in Ids, NEW end \in {"completed", "failed"},
         Close(id, end), task[id] # "none", procs[id] = {}
  PROVE  IInv'
<1> DEFINE rec == [records[id] EXCEPT !.status = end]
<1>1. records[id] \in Record
  BY DEF IInv, TypeOK, RunningIffTask
<1>2. rec \in Record /\ rec.job = records[id].job /\ rec.status = end
  BY <1>1 DEF Record
<1>3. /\ records' = [records EXCEPT ![id] = rec]
      /\ task' = [task EXCEPT ![id] = "none"]
      /\ UNCHANGED <<procs, failures, handed>>
  BY DEF Close
<1> HIDE DEF rec
<1>4. FreshKeysUnused' /\ RunningIffTask' /\ OneRunningPerName'
  BY <1>2, <1>3, TaskKeepsRecords DEF TaskState
<1>5. TypeOK'
  BY <1>2, <1>3 DEF IInv, TypeOK, TaskState
<1>6. ASSUME NEW i \in Ids PROVE TaskShape(i)'
  BY <1>3 DEF IInv, TypeOK, TaskShape
<1> QED BY <1>4, <1>5, <1>6 DEF IInv

LEMMA StartClusteringIInv ==
  ASSUME IInv, NEW id \in Ids, StartClustering(id)
  PROVE  IInv'
<1>1. /\ task[id] = "ingest" /\ procs[id] = {}
      /\ task' = [task EXCEPT ![id] = "cluster"]
      /\ procs' = [procs EXCEPT ![id] = {"clustering"}]
      /\ UNCHANGED <<records, failures, handed>>
  BY DEF StartClustering, RunClustering, IInv, TypeOK
<1>2. TypeOK'
  BY <1>1 DEF IInv, TypeOK, TaskState, Scripts
<1>3. FreshKeysUnused' /\ RunningIffTask' /\ OneRunningPerName'
  BY <1>1
  DEF IInv, TypeOK, FreshKeysUnused, RunningIffTask, OneRunningPerName, Running
<1>4. ASSUME NEW i \in Ids PROVE TaskShape(i)'
  BY <1>1 DEF IInv, TypeOK, TaskShape
<1> QED BY <1>2, <1>3, <1>4 DEF IInv

(* Every step of a background task keeps the invariant. *)
LEMMA TaskStepIInv ==
  ASSUME IInv, NEW id \in Ids, TaskStep(id)
  PROVE  IInv'
<1>1. CASE BeginScript(id)
  BY <1>1, BeginIInv DEF BeginScript, TaskState
<1>2. CASE BeginAll(id)
  BY <1>2, BeginIInv DEF BeginAll, TaskState, Scripts
<1>3. CASE BeginLifecycle(id)
  BY <1>3, BeginIInv DEF BeginLifecycle, TaskState
<1>4. CASE EndScript(id)
  BY <1>4, CloseIInv DEF EndScript
<1>5. CASE StartClustering(id)
  BY <1>5, StartClusteringIInv
<1>6. CASE EndAll(id)
  BY <1>6, CloseIInv DEF EndAll
<1> QED BY <1>1, <1>2, <1>3, <1>4, <1>5, <1>6 DEF TaskStep

LEMMA RestartIInv ==
  ASSUME IInv, Restart
  PROVE  IInv'
  BY NoRecordAssumption
  DEF Restart, IInv, TypeOK, FreshKeysUnused, RunningIffTask,
      OneRunningPerName, Running, TaskShape, TaskState

LEMMA NextIInv == IInv /\ [Next]_vars => IInv'
<1> SUFFICES ASSUME IInv, [Next]_vars PROVE IInv'
  OBVIOUS
<1>1. CASE RunSingleJob
  BY <1>1, AcceptIInv, RefuseIInv DEF RunSingleJob, JobNames
<1>2. CASE RunLifecycle
  BY <1>2, AcceptIInv, RefuseIInv DEF RunLifecycle, JobNames
<1>3. CASE RunAllJobs
  BY <1>3, AcceptIInv, RefuseIInv DEF RunAllJobs, JobNames
<1>4. CASE \E id \in Ids : TaskStep(id)
  BY <1>4, TaskStepIInv
<1>5. CASE \E id \in Ids, s \in Scripts : ScriptExits(id, s)
  BY <1>5, ScriptExitsIInv
<1>6. CASE Restart
  BY <1>6, RestartIInv
<1>7. CASE UNCHANGED vars
  BY <1>7
  DEF vars, IInv, TypeOK, FreshKeysUnused, RunningIffTask, OneRunningPerName,
      Running, TaskShape
<1> QED BY <1>1, <1>2, <1>3, <1>4, <1>5, <1>6, <1>7 DEF Next

THEOREM Invariance == Spec => []IInv
<1> QED BY InitIInv, NextIInv, PTL DEF Spec

-----------------------------------------------------------------------------
(* JOBS, the tasks and the ids handed out keep their types. *)
THEOREM TypeCorrect == Spec => []TypeOK
<1>1. IInv => TypeOK
  BY DEF IInv
<1> QED BY <1>1, Invariance, PTL

(* No two running records of one job, whatever requests, scripts and       *)
(* restarts do: the check and the insertion of an endpoint are enough.     *)
THEOREM MutualExclusion == Spec => []OneRunningPerName
<1>1. IInv => OneRunningPerName
  BY DEF IInv
<1> QED BY <1>1, Invariance, PTL

(* No record is left running without a task that closes it, and no task    *)
(* runs without the record that makes the endpoints refuse a second one.   *)
THEOREM NoOrphanRecord == Spec => []RunningIffTask
<1>1. IInv => RunningIffTask
  BY DEF IInv
<1> QED BY <1>1, Invariance, PTL

(* A script runs at most once for each job that runs it. *)
THEOREM ProcessExclusion == Spec => []OneProcessPerJob
<1>1. IInv => OneProcessPerJob
  <2> SUFFICES ASSUME IInv, NEW i \in Ids, NEW j \in Ids,
                      procs[i] \cap procs[j] # {},
                      records[i].job = records[j].job
               PROVE  i = j
    BY DEF OneProcessPerJob
  <2>1. task[i] # "none" /\ task[j] # "none"
    BY DEF IInv, TaskShape
  <2>2. /\ records[i] # NoRecord /\ records[i].status = "running"
        /\ records[j] # NoRecord /\ records[j].status = "running"
    BY <2>1 DEF IInv, RunningIffTask
  <2>3. records[i].job \in JobNames
    BY <2>2 DEF IInv, TypeOK, Record
  <2>4. i \in Running(records[i].job) /\ j \in Running(records[i].job)
    BY <2>2 DEF Running
  <2> QED BY <2>3, <2>4 DEF IInv, OneRunningPerName
<1> QED BY <1>1, Invariance, PTL

(* The clustering of "all" runs after its ingestors and beside none. *)
THEOREM Sequence == Spec => []ClusteringAfterIngestion
<1>1. IInv => ClusteringAfterIngestion
  <2> SUFFICES ASSUME IInv, NEW id \in Ids, records[id] # NoRecord,
                      records[id].job = "all", "clustering" \in procs[id]
               PROVE  procs[id] = {"clustering"} /\ task[id] = "cluster"
    BY DEF ClusteringAfterIngestion
  <2>1. task[id] \in TaskState
    BY DEF IInv, TypeOK
  <2>2. "all" \notin Scripts
    BY SourcesAssumption DEF Scripts
  <2> QED BY <2>1, <2>2, SourcesAssumption DEF IInv, TaskShape, TaskState
<1> QED BY <1>1, Invariance, PTL

(* What a client saw at the end of its job stays as it was. *)
THEOREM Finality == Spec => TerminalIsFinal
<1> DEFINE Final(id) ==
      records[id] # NoRecord /\ records[id].status # "running"
        => records'[id] \in {records[id], NoRecord}
<1>1. ASSUME IInv, Next PROVE \A id \in Ids : Final(id)
  <2>1. CASE RunSingleJob \/ RunLifecycle \/ RunAllJobs
    BY <1>1, <2>1
    DEF RunSingleJob, RunLifecycle, RunAllJobs, Accept, Insert, Refuse,
        IInv, TypeOK, FreshKeysUnused
  <2>2. CASE \E i \in Ids : TaskStep(i)
    BY <1>1, <2>2
    DEF TaskStep, BeginScript, BeginAll, BeginLifecycle, Begin, EndScript,
        StartClustering, RunClustering, EndAll, Close, IInv, TypeOK,
        RunningIffTask
  <2>3. CASE \E i \in Ids, s \in Scripts : ScriptExits(i, s)
    BY <2>3 DEF ScriptExits
  <2>4. CASE Restart
    BY <2>4 DEF Restart
  <2> QED BY <1>1, <2>1, <2>2, <2>3, <2>4 DEF Next
<1>2. ASSUME UNCHANGED vars PROVE \A id \in Ids : Final(id)
  BY <1>2 DEF vars
<1>3. IInv /\ [Next]_vars => [\A id \in Ids : Final(id)]_vars
  BY <1>1
<1>4. Spec => [][\A id \in Ids : Final(id)]_vars
  BY <1>3, Invariance, PTL DEF Spec
<1> QED BY <1>4 DEF TerminalIsFinal

-----------------------------------------------------------------------------
(***************************************************************************)
(* JobRegistry implements JobSlots, liveness apart.                        *)
(***************************************************************************)

(* A record carries the uuid of its key, or the one drawn for it later.    *)
OwnUuid ==
  \A id \in Ids :
    records[id] # NoRecord => records[id].job_id \in {Key(id), Redrawn(id)}

LEMMA NextOwnUuid == IInv /\ OwnUuid /\ [Next]_vars => OwnUuid'
<1> SUFFICES ASSUME IInv, OwnUuid, [Next]_vars PROVE OwnUuid'
  OBVIOUS
<1>1. ASSUME NEW job \in JobNames, Accept(job) \/ Refuse(job) PROVE OwnUuid'
  BY <1>1 DEF Accept, Insert, Refuse, NewRecord, OwnUuid, IInv, TypeOK
<1>2. ASSUME NEW id \in Ids, TaskStep(id) PROVE OwnUuid'
  <2>1. ASSUME NEW end, Close(id, end), task[id] # "none" PROVE OwnUuid'
    <3>1. records[id] \in Record /\ records[id] # NoRecord
      BY <2>1 DEF IInv, TypeOK, RunningIffTask
    <3>2. [records[id] EXCEPT !.status = end].job_id = records[id].job_id
      BY <3>1 DEF Record
    <3> QED BY <2>1, <3>1, <3>2 DEF Close, OwnUuid, IInv, TypeOK
  <2>2. ASSUME NEW jobs, NEW status, NEW next, NEW scripts,
               Begin(id, jobs, status, next, scripts)
        PROVE  OwnUuid'
    BY <2>2 DEF Begin, NewRecord, OwnUuid, IInv, TypeOK
  <2>3. CASE EndScript(id)
    BY <2>3, <2>1 DEF EndScript
  <2>4. CASE EndAll(id)
    BY <2>4, <2>1 DEF EndAll
  <2>5. CASE StartClustering(id)
    BY <2>5 DEF StartClustering, RunClustering, OwnUuid
  <2>6. CASE BeginScript(id) \/ BeginAll(id) \/ BeginLifecycle(id)
    BY <2>6, <2>2 DEF BeginScript, BeginAll, BeginLifecycle
  <2> QED BY <1>2, <2>3, <2>4, <2>5, <2>6 DEF TaskStep
<1>3. CASE \E id \in Ids, s \in Scripts : ScriptExits(id, s)
  BY <1>3 DEF ScriptExits, OwnUuid
<1>4. CASE Restart
  BY <1>4 DEF Restart, OwnUuid
<1>5. CASE UNCHANGED vars
  BY <1>5 DEF vars, OwnUuid
<1> QED
  BY <1>1, <1>2, <1>3, <1>4, <1>5
  DEF Next, RunSingleJob, RunLifecycle, RunAllJobs, JobNames

(* An accepted request starts a job in a slot that no job of the name has. *)
LEMMA AcceptStarts ==
  ASSUME IInv, NEW job \in JobNames, Accept(job)
  PROVE  \E id \in Ids : Slots!StartJob(id, job)
<1>1. PICK id \in Ids :
        /\ Key(id) \notin handed
        /\ records' = [records EXCEPT ![id] = NewRecord(job, Key(id))]
        /\ handed' = handed \cup {Key(id)}
  BY DEF Accept, Insert
<1>2. /\ NewRecord(job, Key(id)) # NoRecord
      /\ NewRecord(job, Key(id)).job = job
      /\ NewRecord(job, Key(id)).status = "running"
  BY NewRecordFields DEF Key, Uuid
<1>3. \A i \in Ids : ~Slots!RunsAs(i, job)
  BY DEF Accept, Running, Slots!RunsAs, SlotJobs
<1>4. id \notin SlotDrawn /\ SlotDrawn' = SlotDrawn \cup {id}
  BY <1>1 DEF SlotDrawn, Key
<1>5. SlotJobs' =
        [SlotJobs EXCEPT ![id] = [name |-> job, status |-> "running"]]
  BY <1>1, <1>2 DEF SlotJobs, IInv, TypeOK
<1> QED BY <1>3, <1>4, <1>5 DEF Slots!StartJob

(* A refused one hands out the id of a job whose id was drawn before.      *)
LEMMA RefuseStutters ==
  ASSUME IInv, OwnUuid, NEW job \in JobNames, Refuse(job)
  PROVE  UNCHANGED Slots!slots
<1>1. PICK id \in Running(job) : handed' = handed \cup {records[id].job_id}
  BY DEF Refuse
<1>2. records[id].job_id \in {Key(id), Redrawn(id)} /\ Key(id) \in handed
  BY DEF Running, OwnUuid, IInv, FreshKeysUnused
<1>3. SlotDrawn' = SlotDrawn
  BY <1>1, <1>2 DEF SlotDrawn, Key, Redrawn
<1>4. SlotJobs' = SlotJobs
  BY DEF Refuse, SlotJobs
<1> QED BY <1>3, <1>4 DEF Slots!slots

(* A task that writes its record ends the job, or changes nothing of it.   *)
LEMMA TaskEndsOrStutters ==
  ASSUME IInv, NEW id \in Ids, NEW rec \in Record, task[id] # "none",
         records' = [records EXCEPT ![id] = rec],
         rec.job = records[id].job,
         handed' = handed
  PROVE  Slots!EndJob(id) \/ UNCHANGED Slots!slots
<1>1. records[id] # NoRecord /\ records[id].status = "running"
  BY DEF IInv, RunningIffTask
<1>2. rec # NoRecord /\ rec.status \in {"running", "completed", "failed"}
  BY NoRecordAssumption DEF Record
<1>3. SlotDrawn' = SlotDrawn
  BY DEF SlotDrawn
<1>4. SlotJobs[id] = [name |-> records[id].job, status |-> "running"]
  BY <1>1 DEF SlotJobs
<1>5. SlotJobs' = [SlotJobs EXCEPT ![id].status = rec.status]
  <2>1. ASSUME NEW i \in Ids
        PROVE  SlotJobs'[i] = [SlotJobs EXCEPT ![id].status = rec.status][i]
    <3>1. CASE i = id
      BY <3>1, <1>2, <1>4 DEF SlotJobs, IInv, TypeOK
    <3>2. CASE i # id
      BY <3>2 DEF SlotJobs, IInv, TypeOK
    <3> QED BY <3>1, <3>2
  <2> QED BY <2>1 DEF SlotJobs
<1>6. CASE rec.status = "running"
  <2>1. SlotJobs' = SlotJobs
    BY <1>4, <1>5, <1>6 DEF SlotJobs
  <2> QED BY <2>1, <1>3 DEF Slots!slots
<1>7. CASE rec.status \in {"completed", "failed"}
  <2>1. SlotJobs[id] # NoRecord /\ SlotJobs[id].status = "running"
    <3>1. records[id].job \in JobNames
      BY <1>1 DEF IInv, TypeOK, Record
    <3> QED BY <3>1, <1>4, NoJobAssumption DEF Slots!Job
  <2> QED BY <2>1, <1>3, <1>5, <1>7 DEF Slots!EndJob
<1> QED BY <1>2, <1>6, <1>7

(* Every step of the registry is a step of the slots or changes none.      *)
LEMMA NextImplementsSlots ==
  IInv /\ OwnUuid /\ [Next]_vars => [Slots!SlotsNext]_(Slots!slots)
<1> SUFFICES ASSUME IInv, OwnUuid, [Next]_vars
             PROVE  Slots!SlotsNext \/ UNCHANGED Slots!slots
  OBVIOUS
<1>1. ASSUME NEW job \in JobNames, Accept(job) \/ Refuse(job)
      PROVE  Slots!SlotsNext \/ UNCHANGED Slots!slots
  BY <1>1, AcceptStarts, RefuseStutters DEF Slots!SlotsNext
<1>2. ASSUME NEW id \in Ids, TaskStep(id)
      PROVE  Slots!SlotsNext \/ UNCHANGED Slots!slots
  <2>1. ASSUME NEW end \in {"completed", "failed"}, Close(id, end),
               task[id] # "none"
        PROVE  Slots!EndJob(id) \/ UNCHANGED Slots!slots
    <3> DEFINE rec == [records[id] EXCEPT !.status = end]
    <3>1. records[id] \in Record
      BY <2>1 DEF IInv, TypeOK, RunningIffTask
    <3>2. rec \in Record /\ rec.job = records[id].job
      BY <3>1 DEF Record
    <3>3. records' = [records EXCEPT ![id] = rec] /\ handed' = handed
      BY <2>1 DEF Close
    <3> HIDE DEF rec
    <3> QED BY <2>1, <3>2, <3>3, TaskEndsOrStutters
  <2>2. ASSUME NEW jobs, NEW status \in {"running", "completed", "failed"},
               NEW next, NEW scripts, Begin(id, jobs, status, next, scripts)
        PROVE  Slots!EndJob(id) \/ UNCHANGED Slots!slots
    <3> DEFINE rec == [NewRecord(records[id].job, Redrawn(id))
                         EXCEPT !.status = status]
    <3>1. task[id] # "none"
      BY <2>2 DEF Begin
    <3>2. records[id] \in Record /\ Redrawn(id) \in Uuid
      BY <3>1 DEF IInv, TypeOK, RunningIffTask, Redrawn, Uuid
    <3>3. rec \in Record /\ rec.job = records[id].job
      BY <3>2 DEF NewRecord, Record
    <3>4. records' = [records EXCEPT ![id] = rec] /\ handed' = handed
      BY <2>2 DEF Begin
    <3> HIDE DEF rec
    <3> QED BY <3>1, <3>3, <3>4, TaskEndsOrStutters
  <2>3. CASE EndScript(id)
    BY <2>3, <2>1 DEF EndScript, Slots!SlotsNext
  <2>4. CASE EndAll(id)
    BY <2>4, <2>1 DEF EndAll, Slots!SlotsNext
  <2>5. CASE StartClustering(id)
    BY <2>5
    DEF StartClustering, RunClustering, Slots!slots, SlotJobs, SlotDrawn
  <2>6. CASE BeginScript(id) \/ BeginAll(id) \/ BeginLifecycle(id)
    BY <2>6, <2>2
    DEF BeginScript, BeginAll, BeginLifecycle, Slots!SlotsNext
  <2> QED BY <1>2, <2>3, <2>4, <2>5, <2>6 DEF TaskStep
<1>3. CASE \E id \in Ids, s \in Scripts : ScriptExits(id, s)
  BY <1>3 DEF ScriptExits, Slots!slots, SlotJobs, SlotDrawn
<1>4. CASE Restart
  <2>1. SlotJobs' = [id \in Ids |-> NoRecord] /\ SlotDrawn' = SlotDrawn
    BY <1>4 DEF Restart, SlotJobs, SlotDrawn
  <2> QED BY <2>1 DEF Slots!ForgetJobs, Slots!SlotsNext
<1>5. CASE UNCHANGED vars
  BY <1>5 DEF vars, Slots!slots, SlotJobs, SlotDrawn
<1> QED
  BY <1>1, <1>2, <1>3, <1>4, <1>5
  DEF Next, RunSingleJob, RunLifecycle, RunAllJobs, JobNames

(* Whatever requests, tasks, scripts and restarts do, a client sees jobs   *)
(* start in free slots, end once, and otherwise stay: the safety part of   *)
(* SlotsImplemented.                                                       *)
THEOREM SlotsSafety ==
  Spec => Slots!SlotsInit /\ [][Slots!SlotsNext]_(Slots!slots)
<1>1. Init => Slots!SlotsInit
  BY DEF Init, Slots!SlotsInit, SlotJobs, SlotDrawn
<1>2. Init => OwnUuid
  BY DEF Init, OwnUuid
<1>3. Spec => []OwnUuid
  BY <1>2, Invariance, NextOwnUuid, PTL DEF Spec
<1> QED BY <1>1, <1>3, Invariance, NextImplementsSlots, PTL DEF Spec
=============================================================================
