---------------------------- MODULE RefreshPanel ----------------------------
(***************************************************************************)
(* The panel that starts jobs and follows them (frontend, RefreshPanel.tsx *)
(* with api/admin.ts), against the API as JobSlots states it.              *)
(*                                                                         *)
(* The panel's code runs in one thread; what interleaves are the clicks,   *)
(* the answers of the API and the timers.  A timer that clearTimeout finds *)
(* waiting never fires; an answer on its way cannot be called back.  How   *)
(* long a timer waits is left out: any that waits may be the next to fire. *)
(* entries[key].jobId is left out too: it is written and never read.       *)
(***************************************************************************)
EXTENDS JobSlots, Naturals

CONSTANTS
  MaxAnswers,  \* answers to clicks on their way, per button (a bound)
  MaxPolls,    \* polls alive at one time, per button (a bound)
  NoId         \* no job id; an id the API has never stored

BoundsAreNatural == MaxAnswers \in [Names -> Nat] /\ MaxPolls \in [Names -> Nat]

VARIABLES
  button,      \* entries[key].state, and runAllState
  answers,     \* answers to clicks that are on their way
  polls,       \* the polls that are alive
  registered,  \* pollingTimers.current[key]: the poll whose timer it names
  resets,      \* pending timers that set a button back to idle
  mounted      \* the panel is on the screen

panel == <<button, answers, polls, registered, resets, mounted>>
vars  == <<jobs, drawn, panel>>

States == {"idle", "running", "success", "error"}

Single == Names \ {"all"}

(* An answer to a click carries a job's id, or is an error.                *)
Answers == [name: Names, nr: Nat, id: Ids \cup {NoId}, error: BOOLEAN]

(* A poll waits to ask, has asked, or waits to be scheduled again.         *)
Polls == [name: Names, nr: Nat, id: Ids \cup {NoId},
          at: {"timer", "asked", "again"}]

(* A reset is done only while the button is in the state "from", or in any *)
(* state; equal resets that are pending together are one here.             *)
Resets == [name: Names, from: {"success", "error", "any"}]

TypeOK ==
  /\ jobs \in [Ids -> Job \cup {NoJob}]
  /\ drawn \in SUBSET Ids
  /\ button \in [Names -> States]
  /\ answers \in SUBSET Answers
  /\ \A a \in answers : a.nr \in 1 .. MaxAnswers[a.name]
  /\ polls \in SUBSET Polls
  /\ \A p \in polls : p.nr \in 1 .. MaxPolls[p.name]
  /\ registered \in [Names -> Nat]
  /\ resets \in SUBSET Resets
  /\ mounted \in BOOLEAN

Init ==
  /\ SlotsInit
  /\ button = [n \in Names |-> "idle"]
  /\ answers = {}
  /\ polls = {}
  /\ registered = [n \in Names |-> 0]
  /\ resets = {}
  /\ mounted = TRUE

-----------------------------------------------------------------------------
(***************************************************************************)
(* A click.  The API's part is JobSlots: it starts the job, or refuses it  *)
(* with the id of the one that runs, or with an id it has not stored (see  *)
(* AnsweredIdPollable of JobRegistry), or the request fails.               *)
(***************************************************************************)
Enabled(n) ==
  /\ button[n] # "running"
  /\ "all" \in Names \ {n} => button["all"] # "running"

(* The least number that none of the records of a button has. *)
Free(n, records, bound) ==
  LET free == (1 .. bound[n]) \ {r.nr : r \in {q \in records : q.name = n}}
  IN  {nr \in free : \A i \in free : nr <= i}

Sent(n, id, error) ==
  \E nr \in Free(n, answers, MaxAnswers) :
    answers' = answers \cup {[name |-> n, nr |-> nr, id |-> id, error |-> error]}

Running(n) == {id \in Ids : RunsAs(id, n)}

Api(n) ==
  \/ \E id \in Ids : StartJob(id, n) /\ Sent(n, id, FALSE)
  \/ /\ Running(n) # {}
     /\ \E id \in Running(n) \cup {NoId} : Sent(n, id, FALSE)
     /\ UNCHANGED slots
  \/ Sent(n, NoId, TRUE) /\ UNCHANGED slots

(* triggerSingle changes nothing before the answer; triggerRunAll says     *)
(* "running" at once.                                                      *)
Click(n) ==
  /\ mounted
  /\ Enabled(n)
  /\ Api(n)
  /\ button' = IF n = "all" THEN [button EXCEPT !["all"] = "running"] ELSE button
  /\ UNCHANGED <<polls, registered, resets, mounted>>

-----------------------------------------------------------------------------
(***************************************************************************)
(* Polls.  schedulePoll clears the timer registered under the key, which   *)
(* ends its poll if it still waits, and registers a new one; pollRunAll    *)
(* clears nothing.                                                         *)
(***************************************************************************)
Cleared(n) ==
  IF n = "all" THEN {}
  ELSE {p \in polls : /\ p.name = n
                      /\ p.nr = registered[n]
                      /\ p.at # "asked"}

Kept(n, nr) == [registered EXCEPT ![n] = nr]

(* A poll takes the place of those in "gone" and waits 2 s. *)
Schedule(n, id, gone) ==
  \E nr \in Free(n, polls \ gone, MaxPolls) :
    /\ polls' = (polls \ gone)
                  \cup {[name |-> n, nr |-> nr, id |-> id, at |-> "timer"]}
    /\ registered' = Kept(n, nr)

(* An answer with an id: startJob, or pollRunAll. *)
Follow(answer) ==
  /\ answer \in answers
  /\ ~answer.error
  /\ answers' = answers \ {answer}
  /\ Schedule(answer.name, answer.id, Cleared(answer.name))
  /\ button' = IF answer.name = "all" THEN button
               ELSE [button EXCEPT ![answer.name] = "running"]
  /\ UNCHANGED <<slots, resets, mounted>>

ResetAfter(n, from) == resets' = resets \cup {[name |-> n, from |-> from]}

(* The request failed: the button says so, and in 5 s is idle whatever it  *)
(* says by then.                                                           *)
Fails(answer) ==
  /\ answer \in answers
  /\ answer.error
  /\ answers' = answers \ {answer}
  /\ button' = [button EXCEPT ![answer.name] = "error"]
  /\ ResetAfter(answer.name, "any")
  /\ UNCHANGED <<slots, polls, registered, mounted>>

(* The timer fires: fetchJobStatus is called. *)
AskStatus(p) ==
  /\ p \in polls
  /\ p.at = "timer"
  /\ polls' = (polls \ {p}) \cup {[p EXCEPT !.at = "asked"]}
  /\ UNCHANGED <<slots, button, answers, registered, resets, mounted>>

Status(id) ==
  IF id = NoId THEN "unknown" ELSE
  IF jobs[id] = NoJob THEN "unknown" ELSE jobs[id].status

StopsAsking(p) ==    \* mutant of StillRuns: one look is enough
  /\ p \in polls
  /\ p.at = "asked"
  /\ Status(p.id) = "running"
  /\ polls' = polls \ {p}
  /\ UNCHANGED <<slots, button, answers, registered, resets, mounted>>

(* The job runs: a timer, registered under the key, will schedule anew.    *)
StillRuns(p) ==
  /\ p \in polls
  /\ p.at = "asked"
  /\ Status(p.id) = "running"
  /\ polls' = (polls \ {p}) \cup {[p EXCEPT !.at = "again"]}
  /\ registered' = Kept(p.name, p.nr)
  /\ UNCHANGED <<slots, button, answers, resets, mounted>>

Again(p) ==
  /\ p \in polls
  /\ p.at = "again"
  /\ Schedule(p.name, p.id, {p} \cup Cleared(p.name))
  /\ UNCHANGED <<slots, button, answers, resets, mounted>>

EndedUnlessFailing(status) ==    \* mutant of Outcome: any end is a success
  IF status = "running" THEN "error" ELSE "success"

Outcome(status) == IF status = "completed" THEN "success" ELSE "error"

(* The job has ended.  The reset looks at the state, but not that of all.  *)
Ended(p) ==
  /\ p \in polls
  /\ p.at = "asked"
  /\ Status(p.id) \in {"completed", "failed"}
  /\ LET outcome == Outcome(Status(p.id))
     IN  /\ button' = [button EXCEPT ![p.name] = outcome]
         /\ ResetAfter(p.name, IF p.name = "all" THEN "any" ELSE outcome)
  /\ polls' = polls \ {p}
  /\ registered' = IF p.name = "all" THEN registered ELSE Kept(p.name, 0)
  /\ UNCHANGED <<slots, answers, mounted>>

AsksOn(p) ==    \* mutant of PollFails: a failure is taken for "running"
  /\ p \in polls
  /\ p.at = "asked"
  /\ polls' = (polls \ {p}) \cup {[p EXCEPT !.at = "again"]}
  /\ registered' = Kept(p.name, p.nr)
  /\ UNCHANGED <<slots, button, answers, resets, mounted>>

(* The status request fails, as it does for an id the API does not know.   *)
(* A button of one job then stays so until it is clicked.                  *)
PollFails(p) ==
  /\ p \in polls
  /\ p.at = "asked"
  /\ polls' = polls \ {p}
  /\ button' = [button EXCEPT ![p.name] = "error"]
  /\ IF p.name = "all"
     THEN ResetAfter("all", "any") /\ UNCHANGED registered
     ELSE registered' = Kept(p.name, 0) /\ UNCHANGED resets
  /\ UNCHANGED <<slots, answers, mounted>>

Reset(r) ==
  /\ r \in resets
  /\ resets' = resets \ {r}
  /\ button' = IF r.from \in {"any", button[r.name]}
               THEN [button EXCEPT ![r.name] = "idle"] ELSE button
  /\ UNCHANGED <<slots, answers, polls, registered, mounted>>

(* The panel is left: the timers that are registered are cleared; requests *)
(* on their way, and timers another has replaced, go on.                   *)
Unmount ==
  /\ mounted
  /\ mounted' = FALSE
  /\ polls' = {p \in polls : p.at = "asked" \/ p.nr # registered[p.name]}
  /\ resets' = {}
  /\ UNCHANGED <<slots, button, answers, registered>>

-----------------------------------------------------------------------------
PollStep(n) ==
  \E p \in {q \in polls : q.name = n} :
    AskStatus(p) \/ StillRuns(p) \/ Again(p) \/ Ended(p) \/ PollFails(p)

AnswerStep(n) ==
  \E a \in {b \in answers : b.name = n} : Follow(a) \/ Fails(a)

Next ==
  \/ \E n \in Names : Click(n) \/ PollStep(n) \/ AnswerStep(n)
  \/ \E r \in resets : Reset(r)
  \/ Unmount
  \/ SlotsNext /\ UNCHANGED panel

(* Answers arrive or fail, timers fire, and jobs end (JobRegistry).        *)
Fairness ==
  /\ \A n \in Names : WF_vars(PollStep(n)) /\ WF_vars(AnswerStep(n))
  /\ \A id \in Ids : WF_vars(EndJob(id) /\ UNCHANGED panel)

Spec == Init /\ [][Next]_vars /\ Fairness

-----------------------------------------------------------------------------
(***************************************************************************)
(* Properties.                                                             *)
(***************************************************************************)

(* A button begins to say DONE only when the API says completed of a job   *)
(* of its name, with whatever polls and resets of earlier jobs are pending. *)
SuccessIsTrue ==
  [][\A n \in Names :
       button[n] # "success" /\ button'[n] = "success" =>
         \E id \in Ids :
           jobs[id] # NoJob /\ jobs[id].name = n
                            /\ jobs[id].status = "completed"]_vars

(* A button that says RUNNING has a poll or an answer under way that will  *)
(* end it: no timer cleared, replaced or reset leaves it spinning, which   *)
(* would keep it disabled for good.                                        *)
RunningIsFollowed ==
  \A n \in Names :
    mounted /\ button[n] = "running" =>
      \/ \E p \in polls : p.name = n
      \/ \E a \in answers : a.name = n

(* A button that says RUNNING says something else some time. *)
RunningEnds ==
  \A n \in Names : mounted /\ button[n] = "running" ~>
                   ~mounted \/ button[n] # "running"
=============================================================================
