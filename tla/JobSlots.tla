------------------------------ MODULE JobSlots ------------------------------
(***************************************************************************)
(* What the admin API promises about jobs to whoever starts and polls      *)
(* them: a job of each name runs at most once at a time, under an id that  *)
(* no other job has had; a job that runs ends, completed or failed, and    *)
(* stays so; and the API may forget all of them at any time (it restarts). *)
(* JobRegistry implements this, and RefreshPanel is written against it.    *)
(***************************************************************************)
CONSTANTS
  Ids,     \* the ids of jobs
  Names,   \* the names of jobs
  NoJob    \* the API knows no job of this id

VARIABLES
  jobs,    \* what the status endpoint says of each id
  drawn    \* the ids that have been given to jobs

slots == <<jobs, drawn>>

Job == [name: Names, status: {"running", "completed", "failed"}]

SlotsInit ==
  /\ jobs = [id \in Ids |-> NoJob]
  /\ drawn = {}

RunsAs(id, n) == jobs[id] # NoJob /\ jobs[id].name = n /\ jobs[id].status = "running"

StartJob(id, n) ==
  /\ \A i \in Ids : ~RunsAs(i, n)
  /\ id \notin drawn
  /\ jobs' = [jobs EXCEPT ![id] = [name |-> n, status |-> "running"]]
  /\ drawn' = drawn \cup {id}

EndJob(id) ==
  /\ jobs[id] # NoJob
  /\ jobs[id].status = "running"
  /\ \E end \in {"completed", "failed"} :
       jobs' = [jobs EXCEPT ![id].status = end]
  /\ UNCHANGED drawn

ForgetJobs ==
  /\ jobs' = [id \in Ids |-> NoJob]
  /\ UNCHANGED drawn

SlotsNext ==
  \/ \E id \in Ids, n \in Names : StartJob(id, n)
  \/ \E id \in Ids : EndJob(id)
  \/ ForgetJobs

SlotsFairness == \A id \in Ids : WF_slots(EndJob(id))

SlotsSpec == SlotsInit /\ [][SlotsNext]_slots /\ SlotsFairness
=============================================================================
