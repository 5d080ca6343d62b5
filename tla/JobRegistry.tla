---------------------------- MODULE JobRegistry ----------------------------
(***************************************************************************)
(* The job registry of the admin API (backend/api/routes/admin.py): the    *)
(* in-memory dictionary JOBS, the endpoints that start jobs and refuse a   *)
(* second run of one that is running, and the background tasks that run    *)
(* the scripts and close the records.                                      *)
(*                                                                         *)
(* The endpoints and the background tasks are coroutines of one event      *)
(* loop.  An action is what one of them does between two awaits that can   *)
(* suspend it; _JOBS_LOCK guards no await, so it is never contended and    *)
(* taking it never suspends.  A script is a subprocess that a thread of    *)
(* the executor waits for: it ends on its own, in any order.  The          *)
(* lifecycle job is called synchronously, so it runs within one step.      *)
(***************************************************************************)
EXTENDS Naturals

CONSTANTS
  Ids,        \* the uuids _create_job_record can draw for JOBS' keys
  Sources,    \* the ingestion scripts run_all starts together
  NoRecord    \* JOBS has no such key

ASSUME SourcesAssumption ==
  Sources \cap {"clustering", "lifecycle", "all"} = {}

VARIABLES
  records,    \* JOBS: what each key holds
  task,       \* where the background task of each key is
  procs,      \* the scripts each task is still waiting for
  failures,   \* the scripts of each task that ended in an exception
  handed      \* the job ids that answers to clients have carried

vars == <<records, task, procs, failures, handed>>

Scripts  == Sources \cup {"clustering"}
JobNames == Scripts \cup {"lifecycle", "all"}

(***************************************************************************)
(* Two uuids are drawn for a job: the endpoint draws JOBS' key, and        *)
(* _background_job draws another one for the record it stores under it.    *)
(***************************************************************************)
Uuid       == Ids \X {1, 2}
Key(id)    == <<id, 1>>
Redrawn(id) == <<id, 2>>

Record ==
  [job: JobNames, status: {"running", "completed", "failed"}, job_id: Uuid]

ASSUME NoRecordAssumption == NoRecord \notin Record

TaskState == {"none", "scheduled", "script", "ingest", "cluster"}

TypeOK ==
  /\ records \in [Ids -> Record \cup {NoRecord}]
  /\ task \in [Ids -> TaskState]
  /\ procs \in [Ids -> SUBSET Scripts]
  /\ failures \in [Ids -> SUBSET Scripts]
  /\ handed \in SUBSET Uuid

Init ==
  /\ records = [id \in Ids |-> NoRecord]
  /\ task = [id \in Ids |-> "none"]
  /\ procs = [id \in Ids |-> {}]
  /\ failures = [id \in Ids |-> {}]
  /\ handed = {}

(* _get_running_job: the keys of the running records of a job. *)
Running(job) ==
  {id \in Ids : /\ records[id] # NoRecord
                /\ records[id].job = job
                /\ records[id].status = "running"}

-----------------------------------------------------------------------------
(***************************************************************************)
(* The endpoints.                                                          *)
(***************************************************************************)

(* _create_job_record. *)
NewRecordPending(job, uuid) ==    \* mutant of NewRecord: a status nobody knows
  [job |-> job, status |-> "pending", job_id |-> uuid]

NewRecord(job, uuid) == [job |-> job, status |-> "running", job_id |-> uuid]

(* 202: the record is inserted under a new key, which the answer carries.  *)
(* (Accept without its guard is a mutant of Accept.)                       *)
Insert(job) ==
  /\ \E id \in Ids :
       /\ Key(id) \notin handed
       /\ records' = [records EXCEPT ![id] = NewRecord(job, Key(id))]
       /\ task' = [task EXCEPT ![id] = "scheduled"]
       /\ handed' = handed \cup {Key(id)}
  /\ UNCHANGED <<procs, failures>>

(* POST /admin/run/... while no record of the job is running. *)
Accept(job) == Running(job) = {} /\ Insert(job)

(* The same request while one is: 409 with the record's job_id. *)
Refuse(job) ==
  /\ \E id \in Running(job) : handed' = handed \cup {records[id].job_id}
  /\ UNCHANGED <<records, task, procs, failures>>

RunSingleJob == \E s \in Scripts : Accept(s) \/ Refuse(s)
RunLifecycle == Accept("lifecycle") \/ Refuse("lifecycle")
RunAllJobs   == Accept("all") \/ Refuse("all")

-----------------------------------------------------------------------------
(***************************************************************************)
(* The background task of a key.                                           *)
(***************************************************************************)

(* _background_job begins: it stores a newly drawn record under the key,   *)
(* with the status given, and waits for the scripts given.                 *)
Begin(id, jobs, status, next, scripts) ==
  /\ task[id] = "scheduled"
  /\ records[id].job \in jobs
  /\ task' = [task EXCEPT ![id] = next]
  /\ records' = [records EXCEPT
                   ![id] = [NewRecord(@.job, Redrawn(id))
                              EXCEPT !.status = status]]
  /\ procs' = [procs EXCEPT ![id] = scripts]
  /\ UNCHANGED <<failures, handed>>

BeginScript(id) ==
  \E s \in Scripts : Begin(id, {s}, "running", "script", {s})

BeginAll(id) == Begin(id, {"all"}, "running", "ingest", Sources)

(* run_lifecycle_job does not suspend: it begins and ends in one step. *)
BeginLifecycle(id) ==
  \E end \in {"completed", "failed"} :
    Begin(id, {"lifecycle"}, end, "none", {})

(***************************************************************************)
(* A script ends.  It fails by a non-zero exit code, or because it was     *)
(* still running after 300 seconds and subprocess.run killed it.           *)
(***************************************************************************)
ScriptExits(id, s) ==
  /\ s \in procs[id]
  /\ procs' = [procs EXCEPT ![id] = @ \ {s}]
  /\ \/ UNCHANGED failures
     \/ failures' = [failures EXCEPT ![id] = @ \cup {s}]
  /\ UNCHANGED <<records, task, handed>>

(* The end of _background_job, after task_fn returned or raised. *)
Close(id, end) ==
  /\ records' = [records EXCEPT ![id].status = end]
  /\ task' = [task EXCEPT ![id] = "none"]
  /\ UNCHANGED <<procs, failures, handed>>

EndScriptOnSuccess(id) ==    \* mutant of EndScript: nobody catches the error
  /\ task[id] = "script"
  /\ procs[id] = {}
  /\ failures[id] = {}
  /\ Close(id, "completed")

EndScript(id) ==
  /\ task[id] = "script"
  /\ procs[id] = {}
  /\ Close(id, IF failures[id] = {} THEN "completed" ELSE "failed")

(* run_all after asyncio.gather, which waits for every source; a source    *)
(* that failed does not stop it.  (Without the wait: a mutant.)            *)
RunClustering(id) ==
  /\ task[id] = "ingest"
  /\ task' = [task EXCEPT ![id] = "cluster"]
  /\ procs' = [procs EXCEPT ![id] = @ \cup {"clustering"}]
  /\ UNCHANGED <<records, failures, handed>>

StartClustering(id) == procs[id] = {} /\ RunClustering(id)

EndAllTwice(id) ==    \* mutant of EndAll: closes the record, then goes on
  /\ task[id] = "cluster"
  /\ procs[id] = {}
  /\ \/ /\ "clustering" \in failures[id]
        /\ records' = [records EXCEPT ![id].status = "failed"]
        /\ failures' = [failures EXCEPT ![id] = {}]
        /\ UNCHANGED <<task, procs, handed>>
     \/ "clustering" \notin failures[id] /\ Close(id, "completed")

(* run_all after clustering: its failure propagates, else lifecycle runs. *)
EndAll(id) ==
  /\ task[id] = "cluster"
  /\ procs[id] = {}
  /\ \/ "clustering" \in failures[id] /\ Close(id, "failed")
     \/ /\ "clustering" \notin failures[id]
        /\ \E end \in {"completed", "failed"} : Close(id, end)

RestartKeepingJobs ==    \* mutant of Restart: JOBS outlives the tasks
  /\ task' = [id \in Ids |-> "none"]
  /\ procs' = [id \in Ids |-> {}]
  /\ failures' = [id \in Ids |-> {}]
  /\ UNCHANGED <<records, handed>>

(* The container restarts: JOBS, the tasks and their subprocesses go. *)
Restart ==
  /\ records' = [id \in Ids |-> NoRecord]
  /\ task' = [id \in Ids |-> "none"]
  /\ procs' = [id \in Ids |-> {}]
  /\ failures' = [id \in Ids |-> {}]
  /\ UNCHANGED handed

-----------------------------------------------------------------------------
TaskStep(id) ==
  \/ BeginScript(id)
  \/ BeginAll(id)
  \/ BeginLifecycle(id)
  \/ EndScript(id)
  \/ StartClustering(id)
  \/ EndAll(id)

Next ==
  \/ RunSingleJob
  \/ RunLifecycle
  \/ RunAllJobs
  \/ \E id \in Ids : TaskStep(id)
  \/ \E id \in Ids, s \in Scripts : ScriptExits(id, s)
  \/ Restart

(***************************************************************************)
(* The event loop resumes every task that can go on, and timeout=300 ends  *)
(* every script.  Clients need not send requests, and nothing restarts.    *)
(***************************************************************************)
Fairness ==
  /\ \A id \in Ids : WF_vars(TaskStep(id))
  /\ \A id \in Ids : \A s \in Scripts : WF_vars(ScriptExits(id, s))

Spec == Init /\ [][Next]_vars /\ Fairness

-----------------------------------------------------------------------------
(***************************************************************************)
(* Properties.                                                             *)
(***************************************************************************)

(* At most one record of a job says "running": the check of the endpoints  *)
(* and the insertion are two critical sections of _JOBS_LOCK, and a second *)
(* request may not get between them.                                       *)
OneRunningPerName ==
  \A job \in JobNames : \A i, j \in Running(job) : i = j

(* A record says "running" exactly while a task is going to close it: a    *)
(* record nobody closes would answer 409 to every later request of the     *)
(* job, and a task without one would let a second run start beside it.     *)
RunningIffTask ==
  \A id \in Ids :
    task[id] # "none" <=>
      (records[id] # NoRecord /\ records[id].status = "running")

(* Two processes of one script never run for the same job: a script has at *)
(* most two processes, one of its own job and one of "all".                *)
OneProcessPerJob ==
  \A i, j \in Ids :
    /\ procs[i] \cap procs[j] # {}
    /\ records[i].job = records[j].job
    => i = j

(* "all" starts clustering only when none of its ingestors still runs, and *)
(* nothing else of it runs beside clustering.                              *)
ClusteringAfterIngestion ==
  \A id \in Ids :
    /\ records[id] # NoRecord
    /\ records[id].job = "all"
    /\ "clustering" \in procs[id]
    => procs[id] = {"clustering"} /\ task[id] = "cluster"

(* A completed or failed record is not touched again: a client that polled *)
(* the end of its job never sees it run, or end otherwise, later on.       *)
TerminalIsFinal ==
  [][\A id \in Ids :
       records[id] # NoRecord /\ records[id].status # "running"
         => records'[id] \in {records[id], NoRecord}]_vars

(* Every accepted job ends, whatever its scripts do. *)
AcceptedJobEnds ==
  \A id \in Ids : task[id] # "none" ~> task[id] = "none"

(* The job_id of a 202 or 409 answer is one the status endpoint knows. *)
AnsweredIdPollable ==
  [][\A uuid \in handed' \ handed :
       \E id \in Ids : uuid = Key(id) /\ records'[id] # NoRecord]_vars

(* Whoever polls the endpoints sees the slots of JobSlots: this registry,  *)
(* with its tasks, scripts and redrawn ids, implements them.               *)
SlotJobs ==
  [id \in Ids |->
     IF records[id] = NoRecord THEN NoRecord
     ELSE [name |-> records[id].job, status |-> records[id].status]]

SlotDrawn == {id \in Ids : Key(id) \in handed}

Slots ==
  INSTANCE JobSlots WITH
    Names <- JobNames, NoJob <- NoRecord, jobs <- SlotJobs, drawn <- SlotDrawn

ASSUME NoJobAssumption == NoRecord \notin Slots!Job

(* No interleaving of requests, tasks and restarts shows a client a job    *)
(* that runs twice, ends twice, comes back, or has another's id.           *)
SlotsImplemented == Slots!SlotsSpec
=============================================================================
