------------------------- MODULE RefreshPanelProofs -------------------------
(***************************************************************************)
(* Proofs about RefreshPanel, for any buttons, jobs and bounds.            *)
(***************************************************************************)
EXTENDS RefreshPanel, TLAPS

(* An id that an answer or a poll of a button carries has been drawn, and  *)
(* for a job of the button's name if the API still knows it.               *)
OwnId(record) ==
  record.id # NoId =>
    /\ record.id \in drawn
    /\ jobs[record.id] # NoJob => jobs[record.id].name = record.name

KnownIsDrawn == \A id \in Ids : jobs[id] # NoJob => id \in drawn

IdsAreOwn ==
  /\ \A a \in answers : OwnId(a)
  /\ \A p \in polls : OwnId(p)

IInv == TypeOK /\ KnownIsDrawn /\ IdsAreOwn /\ RunningIsFollowed

LEMMA InitIInv == Init => IInv
  BY DEF Init, SlotsInit, IInv, TypeOK, States, KnownIsDrawn, IdsAreOwn,
         RunningIsFollowed

-----------------------------------------------------------------------------
(***************************************************************************)
(* The API.                                                                *)
(***************************************************************************)

(* Whatever the API does, ids keep their meaning: an id is drawn once, and *)
(* a job keeps its name.                                                   *)
IdsKept ==
  /\ jobs' \in [Ids -> Job \cup {NoJob}]
  /\ drawn' \in SUBSET Ids
  /\ KnownIsDrawn'
  /\ drawn \subseteq drawn'
  /\ \A id \in drawn : jobs'[id] # NoJob =>
       jobs[id] # NoJob /\ jobs'[id].name = jobs[id].name

LEMMA SlotsKeepIds ==
  ASSUME TypeOK, KnownIsDrawn, SlotsNext \/ UNCHANGED slots
  PROVE  IdsKept
<1> USE DEF TypeOK, KnownIsDrawn, IdsKept
<1>1. ASSUME NEW id \in Ids, NEW n \in Names, StartJob(id, n) PROVE IdsKept
  <2>1. [name |-> n, status |-> "running"] \in Job
    BY DEF Job
  <2> QED BY <1>1, <2>1 DEF StartJob
<1>2. ASSUME NEW id \in Ids, EndJob(id) PROVE IdsKept
  <2>1. PICK end \in {"completed", "failed"} :
          jobs' = [jobs EXCEPT ![id].status = end]
    BY <1>2 DEF EndJob
  <2>2. jobs[id] \in Job
    BY <1>2 DEF EndJob
  <2>3. /\ [jobs[id] EXCEPT !.status = end] \in Job
        /\ [jobs[id] EXCEPT !.status = end].name = jobs[id].name
    BY <2>2 DEF Job
  <2>4. jobs' = [jobs EXCEPT ![id] = [jobs[id] EXCEPT !.status = end]]
    BY <2>1
  <2> QED BY <1>2, <2>3, <2>4 DEF EndJob
<1>3. CASE ForgetJobs
  BY <1>3 DEF ForgetJobs
<1>4. CASE UNCHANGED slots
  BY <1>4 DEF slots
<1> QED BY <1>1, <1>2, <1>3, <1>4 DEF SlotsNext

LEMMA OwnIdKept ==
  ASSUME IdsKept, NEW record, OwnId(record)
  PROVE  record.id # NoId =>
           /\ record.id \in drawn'
           /\ jobs'[record.id] # NoJob => jobs'[record.id].name = record.name
  BY DEF IdsKept, OwnId

(* The same, of all that is under way. *)
LEMMA OldIdsKept ==
  ASSUME IdsKept, IdsAreOwn, answers' \subseteq answers, polls' \subseteq polls
  PROVE  IdsAreOwn'
<1>1. ASSUME NEW a \in answers' PROVE OwnId(a)'
  <2>1. OwnId(a)
    BY DEF IdsAreOwn
  <2> QED BY <2>1, OwnIdKept DEF OwnId
<1>2. ASSUME NEW q \in polls' PROVE OwnId(q)'
  <2>1. OwnId(q)
    BY DEF IdsAreOwn
  <2> QED BY <2>1, OwnIdKept DEF OwnId
<1> QED BY <1>1, <1>2 DEF IdsAreOwn

-----------------------------------------------------------------------------
(***************************************************************************)
(* Clicks.                                                                 *)
(***************************************************************************)

(* A number that Free gives is within the bound. *)
LEMMA FreeType ==
  ASSUME NEW bound \in [Names -> Nat], NEW n \in Names, NEW records,
         NEW nr \in Free(n, records, bound)
  PROVE  nr \in 1 .. bound[n] /\ nr \in Nat
  BY DEF Free

LEMMA SentType ==
  ASSUME BoundsAreNatural, TypeOK, NEW n \in Names, NEW id \in Ids \cup {NoId},
         NEW error \in BOOLEAN, Sent(n, id, error)
  PROVE  \E answer \in Answers :
           /\ answers' = answers \cup {answer}
           /\ answer.name = n /\ answer.id = id
           /\ answer.nr \in 1 .. MaxAnswers[n]
<1>1. PICK nr \in Free(n, answers, MaxAnswers) :
        answers' = answers \cup {[name |-> n, nr |-> nr, id |-> id,
                                  error |-> error]}
  BY DEF Sent
<1>2. nr \in 1 .. MaxAnswers[n] /\ nr \in Nat
  BY FreeType DEF BoundsAreNatural
<1>3. [name |-> n, nr |-> nr, id |-> id, error |-> error] \in Answers
  BY <1>2 DEF Answers
<1> QED BY <1>1, <1>2, <1>3

(* What the API answers to a click: an id of a job of the button's name, a *)
(* new one or the one that runs, or none it knows.                         *)
LEMMA ApiAnswers ==
  ASSUME BoundsAreNatural, TypeOK, KnownIsDrawn, NEW n \in Names, Api(n)
  PROVE  /\ IdsKept
         /\ \E answer \in Answers :
              /\ answers' = answers \cup {answer}
              /\ answer.name = n
              /\ answer.nr \in 1 .. MaxAnswers[n]
              /\ OwnId(answer)'
<1>1. ASSUME NEW id \in Ids, StartJob(id, n), Sent(n, id, FALSE)
      PROVE  /\ IdsKept
             /\ \E answer \in Answers :
                  /\ answers' = answers \cup {answer}
                  /\ answer.name = n
                  /\ answer.nr \in 1 .. MaxAnswers[n]
                  /\ OwnId(answer)'
  <2>1. IdsKept
    BY <1>1, SlotsKeepIds DEF SlotsNext
  <2>2. PICK answer \in Answers :
          /\ answers' = answers \cup {answer}
          /\ answer.name = n /\ answer.id = id
          /\ answer.nr \in 1 .. MaxAnswers[n]
    BY <1>1, SentType
  <2>3. id \in drawn' /\ jobs'[id].name = n
    BY <1>1 DEF StartJob, TypeOK
  <2> QED BY <2>1, <2>2, <2>3 DEF OwnId
<1>2. ASSUME NEW id \in Running(n) \cup {NoId}, NEW error \in BOOLEAN,
             Sent(n, id, error), UNCHANGED slots
      PROVE  /\ IdsKept
             /\ \E answer \in Answers :
                  /\ answers' = answers \cup {answer}
                  /\ answer.name = n
                  /\ answer.nr \in 1 .. MaxAnswers[n]
                  /\ OwnId(answer)'
  <2>1. IdsKept
    BY <1>2, SlotsKeepIds
  <2>2. /\ id \in Ids \cup {NoId}
        /\ id # NoId => id \in drawn /\ jobs[id].name = n
    BY <1>2 DEF Running, RunsAs, KnownIsDrawn
  <2>3. PICK answer \in Answers :
          /\ answers' = answers \cup {answer}
          /\ answer.name = n /\ answer.id = id
          /\ answer.nr \in 1 .. MaxAnswers[n]
    BY <1>2, <2>2, SentType
  <2>4. jobs' = jobs /\ drawn' = drawn
    BY <1>2 DEF slots
  <2> QED BY <2>1, <2>2, <2>3, <2>4 DEF OwnId
<1> QED BY <1>1, <1>2 DEF Api

LEMMA ClickIInv ==
  ASSUME BoundsAreNatural, IInv, NEW n \in Names, Click(n) PROVE IInv'
<1>1. /\ Api(n)
      /\ button' = IF n = "all" THEN [button EXCEPT !["all"] = "running"]
                   ELSE button
      /\ UNCHANGED <<polls, registered, resets, mounted>>
  BY DEF Click
<1>2. IdsKept
  BY <1>1, ApiAnswers DEF IInv
<1>3. PICK answer \in Answers :
        /\ answers' = answers \cup {answer}
        /\ answer.name = n
        /\ answer.nr \in 1 .. MaxAnswers[n]
        /\ OwnId(answer)'
  BY <1>1, ApiAnswers DEF IInv
<1>4. button' \in [Names -> States]
  BY <1>1 DEF IInv, TypeOK, States
<1>5. TypeOK'
  BY <1>1, <1>2, <1>3, <1>4 DEF IInv, TypeOK, IdsKept
<1>6. IdsAreOwn'
  <2>1. ASSUME NEW a \in answers' PROVE OwnId(a)'
    <3>1. a = answer \/ OwnId(a)
      BY <1>3 DEF IInv, IdsAreOwn
    <3> QED BY <1>2, <1>3, <3>1, OwnIdKept DEF OwnId
  <2>2. ASSUME NEW q \in polls' PROVE OwnId(q)'
    <3>1. OwnId(q)
      BY <1>1 DEF IInv, IdsAreOwn
    <3> QED BY <1>2, <3>1, OwnIdKept DEF OwnId
  <2> QED BY <2>1, <2>2 DEF IdsAreOwn
<1>7. RunningIsFollowed'
  <2> SUFFICES ASSUME NEW m \in Names, mounted', button'[m] = "running"
               PROVE  \/ \E q \in polls' : q.name = m
                      \/ \E a \in answers' : a.name = m
    BY DEF RunningIsFollowed
  <2>1. CASE m = n
    BY <1>3, <2>1
  <2>2. CASE m # n
    BY <1>1, <1>3, <2>2 DEF IInv, TypeOK, RunningIsFollowed
  <2> QED BY <2>1, <2>2
<1> QED BY <1>2, <1>5, <1>6, <1>7 DEF IInv, IdsKept

-----------------------------------------------------------------------------
(***************************************************************************)
(* Answers, polls and resets: the steps that leave the API alone.          *)
(***************************************************************************)

(* A poll that is scheduled has its button's name, the id it was given and *)
(* a number within the bound; it takes the place of those that are gone.   *)
LEMMA ScheduleType ==
  ASSUME BoundsAreNatural, TypeOK, NEW n \in Names, NEW id \in Ids \cup {NoId},
         NEW gone, Schedule(n, id, gone)
  PROVE  /\ \E poll \in Polls :
              /\ polls' = (polls \ gone) \cup {poll}
              /\ poll.name = n /\ poll.id = id
              /\ poll.nr \in 1 .. MaxPolls[n]
         /\ registered' \in [Names -> Nat]
<1>1. PICK nr \in Free(n, polls \ gone, MaxPolls) :
        /\ polls' = (polls \ gone)
                      \cup {[name |-> n, nr |-> nr, id |-> id, at |-> "timer"]}
        /\ registered' = Kept(n, nr)
  BY DEF Schedule
<1>2. nr \in 1 .. MaxPolls[n] /\ nr \in Nat
  BY FreeType DEF BoundsAreNatural
<1>3. [name |-> n, nr |-> nr, id |-> id, at |-> "timer"] \in Polls
  BY <1>2 DEF Polls
<1>4. registered' \in [Names -> Nat]
  BY <1>1, <1>2 DEF Kept, TypeOK
<1> QED BY <1>1, <1>2, <1>3, <1>4

(* An id keeps its meaning while the API does nothing. *)
LEMMA QuietIds ==
  ASSUME UNCHANGED slots, NEW old, NEW new, OwnId(old),
         new.id = old.id, new.name = old.name
  PROVE  OwnId(new)'
  BY DEF OwnId, slots

(* What lies in the steps that leave the API alone: the types of what they *)
(* change, and that each answer and poll has its id and name from an older *)
(* answer or poll.                                                         *)
LEMMA QuietIInv ==
  ASSUME IInv, UNCHANGED slots,
         TypeOK',
         answers' \subseteq answers,
         \A q \in polls' : \E old \in polls \cup answers :
           q.id = old.id /\ q.name = old.name,
         RunningIsFollowed'
  PROVE  IInv'
<1>1. IdsAreOwn'
  <2>1. ASSUME NEW a \in answers' PROVE OwnId(a)'
    BY QuietIds DEF IInv, IdsAreOwn
  <2>2. ASSUME NEW q \in polls' PROVE OwnId(q)'
    <3>1. PICK old \in polls \cup answers : q.id = old.id /\ q.name = old.name
      OBVIOUS
    <3>2. OwnId(old)
      BY DEF IInv, IdsAreOwn
    <3> QED BY <3>1, <3>2, QuietIds
  <2> QED BY <2>1, <2>2 DEF IdsAreOwn
<1>2. KnownIsDrawn'
  BY DEF IInv, KnownIsDrawn, slots
<1> QED BY <1>1, <1>2 DEF IInv

LEMMA FollowIInv ==
  ASSUME BoundsAreNatural, IInv, NEW answer \in answers, Follow(answer)
  PROVE  IInv'
<1> DEFINE n == answer.name
<1>1. answer \in Answers
  BY DEF IInv, TypeOK
<1>2. n \in Names /\ answer.id \in Ids \cup {NoId}
  BY <1>1 DEF Answers
<1>3. /\ answers' = answers \ {answer}
      /\ Schedule(n, answer.id, Cleared(n))
      /\ button' = IF n = "all" THEN button
                   ELSE [button EXCEPT ![n] = "running"]
      /\ UNCHANGED <<slots, resets, mounted>>
  BY DEF Follow
<1>4. PICK poll \in Polls :
        /\ polls' = (polls \ Cleared(n)) \cup {poll}
        /\ poll.name = n /\ poll.id = answer.id
        /\ poll.nr \in 1 .. MaxPolls[n]
  BY <1>2, <1>3, ScheduleType DEF IInv
<1>5. registered' \in [Names -> Nat]
  BY <1>2, <1>3, ScheduleType DEF IInv
<1>6. button' \in [Names -> States]
  BY <1>3 DEF IInv, TypeOK, States
<1>7. TypeOK'
  BY <1>3, <1>4, <1>5, <1>6 DEF IInv, TypeOK, slots
<1>8. RunningIsFollowed'
  <2> SUFFICES ASSUME NEW m \in Names, mounted', button'[m] = "running"
               PROVE  \/ \E q \in polls' : q.name = m
                      \/ \E a \in answers' : a.name = m
    BY DEF RunningIsFollowed
  <2>1. CASE m = n
    BY <1>4, <2>1
  <2>2. CASE m # n
    <3>1. button[m] = "running" /\ mounted
      BY <1>3, <2>2 DEF IInv, TypeOK
    <3>2. CASE \E q \in polls : q.name = m
      <4>1. PICK q \in polls : q.name = m
        BY <3>2
      <4>2. q \notin Cleared(n)
        BY <2>2, <4>1 DEF Cleared
      <4> QED BY <1>4, <4>1, <4>2
    <3>3. CASE \E a \in answers : a.name = m
      BY <1>3, <2>2, <3>3
    <3> QED BY <3>1, <3>2, <3>3 DEF IInv, RunningIsFollowed
  <2> QED BY <2>1, <2>2
<1> QED BY <1>3, <1>4, <1>7, <1>8, QuietIInv

LEMMA FailsIInv ==
  ASSUME IInv, NEW answer \in answers, Fails(answer)
  PROVE  IInv'
<1> DEFINE n == answer.name
<1>1. answer \in Answers
  BY DEF IInv, TypeOK
<1>2. n \in Names
  BY <1>1 DEF Answers
<1>3. /\ answers' = answers \ {answer}
      /\ button' = [button EXCEPT ![n] = "error"]
      /\ resets' = resets \cup {[name |-> n, from |-> "any"]}
      /\ UNCHANGED <<slots, polls, registered, mounted>>
  BY DEF Fails, ResetAfter
<1>4. [name |-> n, from |-> "any"] \in Resets
  BY <1>2 DEF Resets
<1>5. TypeOK'
  BY <1>3, <1>4 DEF IInv, TypeOK, States, slots
<1>6. RunningIsFollowed'
  BY <1>3 DEF IInv, TypeOK, RunningIsFollowed
<1> QED BY <1>3, <1>5, <1>6, QuietIInv

(* A poll that is replaced by itself at another stage. *)
LEMMA MovedIInv ==
  ASSUME IInv, NEW p \in polls, NEW at \in {"timer", "asked", "again"},
         polls' = (polls \ {p}) \cup {[p EXCEPT !.at = at]},
         registered' \in [Names -> Nat],
         UNCHANGED <<slots, button, answers, resets, mounted>>
  PROVE  IInv'
<1> DEFINE moved == [p EXCEPT !.at = at]
<1>1. p \in Polls /\ p.nr \in 1 .. MaxPolls[p.name]
  BY DEF IInv, TypeOK
<1>2. /\ moved \in Polls
      /\ moved.name = p.name /\ moved.id = p.id /\ moved.nr = p.nr
  BY <1>1 DEF Polls
<1> HIDE DEF moved
<1>3. polls' = (polls \ {p}) \cup {moved}
  BY DEF moved
<1>4. TypeOK'
  BY <1>1, <1>2, <1>3 DEF IInv, TypeOK, slots
<1>5. RunningIsFollowed'
  BY <1>2, <1>3 DEF IInv, RunningIsFollowed
<1> QED BY <1>2, <1>3, <1>4, <1>5, QuietIInv

LEMMA AskStatusIInv ==
  ASSUME IInv, NEW p \in polls, AskStatus(p) PROVE IInv'
<1>1. registered' \in [Names -> Nat]
  BY DEF AskStatus, IInv, TypeOK
<1> QED BY <1>1, MovedIInv DEF AskStatus

LEMMA StillRunsIInv ==
  ASSUME IInv, NEW p \in polls, StillRuns(p) PROVE IInv'
<1>1. p \in Polls
  BY DEF IInv, TypeOK
<1>2. registered' \in [Names -> Nat]
  BY <1>1 DEF StillRuns, IInv, TypeOK, Kept, Polls
<1> QED BY <1>2, MovedIInv DEF StillRuns

LEMMA AgainIInv ==
  ASSUME BoundsAreNatural, IInv, NEW p \in polls, Again(p) PROVE IInv'
<1> DEFINE n    == p.name
           gone == {p} \cup Cleared(n)
<1>1. p \in Polls
  BY DEF IInv, TypeOK
<1>2. n \in Names /\ p.id \in Ids \cup {NoId}
  BY <1>1 DEF Polls
<1>3. /\ Schedule(n, p.id, gone)
      /\ UNCHANGED <<slots, button, answers, resets, mounted>>
  BY DEF Again
<1>4. PICK poll \in Polls :
        /\ polls' = (polls \ gone) \cup {poll}
        /\ poll.name = n /\ poll.id = p.id
        /\ poll.nr \in 1 .. MaxPolls[n]
  BY <1>2, <1>3, ScheduleType DEF IInv
<1>5. registered' \in [Names -> Nat]
  BY <1>2, <1>3, ScheduleType DEF IInv
<1>6. TypeOK'
  BY <1>3, <1>4, <1>5 DEF IInv, TypeOK, slots
<1>7. \A q \in polls : q \in polls' \/ q.name = n
  BY <1>4 DEF Cleared
<1>8. RunningIsFollowed'
  BY <1>3, <1>4, <1>7 DEF IInv, RunningIsFollowed
<1> QED BY <1>3, <1>4, <1>6, <1>8, QuietIInv

(* A poll that ends, and its button with it. *)
LEMMA EndedIInv ==
  ASSUME IInv, NEW p \in polls, Ended(p) PROVE IInv'
<1> DEFINE n == p.name
           outcome == Outcome(Status(p.id))
           reset   == [name |-> n, from |-> IF n = "all" THEN "any" ELSE outcome]
<1>1. p \in Polls
  BY DEF IInv, TypeOK
<1>2. n \in Names
  BY <1>1 DEF Polls
<1>3. outcome \in {"success", "error"}
  BY DEF Outcome
<1>4. /\ button' = [button EXCEPT ![n] = outcome]
      /\ resets' = resets \cup {reset}
      /\ polls' = polls \ {p}
      /\ registered' = IF n = "all" THEN registered ELSE Kept(n, 0)
      /\ UNCHANGED <<slots, answers, mounted>>
  BY DEF Ended, ResetAfter
<1> HIDE DEF outcome
<1>5. reset \in Resets
  BY <1>2, <1>3 DEF Resets
<1> HIDE DEF reset
<1>6. registered' \in [Names -> Nat]
  BY <1>4 DEF IInv, TypeOK, Kept
<1>7. TypeOK'
  BY <1>3, <1>4, <1>5, <1>6 DEF IInv, TypeOK, States, slots
<1>8. RunningIsFollowed'
  BY <1>3, <1>4 DEF IInv, TypeOK, RunningIsFollowed
<1> QED BY <1>4, <1>7, <1>8, QuietIInv

LEMMA PollFailsIInv ==
  ASSUME IInv, NEW p \in polls, PollFails(p) PROVE IInv'
<1> DEFINE n == p.name
<1>1. p \in Polls
  BY DEF IInv, TypeOK
<1>2. n \in Names
  BY <1>1 DEF Polls
<1>3. /\ polls' = polls \ {p}
      /\ button' = [button EXCEPT ![n] = "error"]
      /\ UNCHANGED <<slots, answers, mounted>>
  BY DEF PollFails
<1>4. resets' \in SUBSET Resets
  <2>1. [name |-> "all", from |-> "any"] \in Resets \/ n # "all"
    BY <1>2 DEF Resets
  <2> QED BY <2>1 DEF PollFails, ResetAfter, IInv, TypeOK
<1>5. registered' \in [Names -> Nat]
  BY DEF PollFails, IInv, TypeOK, Kept
<1>6. TypeOK'
  BY <1>3, <1>4, <1>5 DEF IInv, TypeOK, States, slots
<1>7. RunningIsFollowed'
  BY <1>3 DEF IInv, TypeOK, RunningIsFollowed
<1> QED BY <1>3, <1>6, <1>7, QuietIInv

LEMMA ResetIInv ==
  ASSUME IInv, NEW r \in resets, Reset(r) PROVE IInv'
<1>1. /\ resets' = resets \ {r}
      /\ button' = IF r.from \in {"any", button[r.name]}
                   THEN [button EXCEPT ![r.name] = "idle"] ELSE button
      /\ UNCHANGED <<slots, answers, polls, registered, mounted>>
  BY DEF Reset
<1>2. TypeOK'
  BY <1>1 DEF IInv, TypeOK, States, slots
<1>3. RunningIsFollowed'
  BY <1>1 DEF IInv, TypeOK, RunningIsFollowed
<1> QED BY <1>1, <1>2, <1>3, QuietIInv

LEMMA UnmountIInv ==
  ASSUME IInv, Unmount PROVE IInv'
<1>1. TypeOK'
  BY DEF Unmount, IInv, TypeOK, slots
<1>2. RunningIsFollowed'
  BY DEF Unmount, RunningIsFollowed
<1> QED BY <1>1, <1>2, QuietIInv DEF Unmount

(* The API goes its way, or nothing happens. *)
LEMMA PanelWaitsIInv ==
  ASSUME IInv, SlotsNext \/ UNCHANGED slots, UNCHANGED panel PROVE IInv'
<1>1. IdsKept
  BY SlotsKeepIds DEF IInv
<1>2. IdsAreOwn'
  BY <1>1, OldIdsKept DEF IInv, panel
<1>3. TypeOK'
  BY <1>1 DEF IInv, TypeOK, IdsKept, panel
<1>4. RunningIsFollowed'
  BY DEF IInv, RunningIsFollowed, panel
<1> QED BY <1>1, <1>2, <1>3, <1>4 DEF IInv, IdsKept

LEMMA NextIInv ==
  ASSUME BoundsAreNatural, IInv, [Next]_vars PROVE IInv'
<1>1. ASSUME NEW n \in Names, Click(n) PROVE IInv'
  BY <1>1, ClickIInv
<1>2. ASSUME NEW n \in Names, PollStep(n) PROVE IInv'
  <2>1. PICK p \in polls : \/ AskStatus(p) \/ StillRuns(p) \/ Again(p)
                           \/ Ended(p) \/ PollFails(p)
    BY <1>2 DEF PollStep
  <2> QED BY <2>1, AskStatusIInv, StillRunsIInv, AgainIInv, EndedIInv,
             PollFailsIInv
<1>3. ASSUME NEW n \in Names, AnswerStep(n) PROVE IInv'
  <2>1. PICK a \in answers : Follow(a) \/ Fails(a)
    BY <1>3 DEF AnswerStep
  <2> QED BY <2>1, FollowIInv, FailsIInv
<1>4. ASSUME NEW r \in resets, Reset(r) PROVE IInv'
  BY <1>4, ResetIInv
<1>5. CASE Unmount
  BY <1>5, UnmountIInv
<1>6. CASE SlotsNext /\ UNCHANGED panel
  BY <1>6, PanelWaitsIInv
<1>7. CASE UNCHANGED vars
  BY <1>7, PanelWaitsIInv DEF vars, slots, panel
<1> QED BY <1>1, <1>2, <1>3, <1>4, <1>5, <1>6, <1>7 DEF Next

-----------------------------------------------------------------------------
(***************************************************************************)
(* What a step may do to a button.                                         *)
(***************************************************************************)

(* SuccessIsTrue is of each step; this is what it says of one.             *)
SuccessStep ==
  \A n \in Names :
    button[n] # "success" /\ button'[n] = "success" =>
      \E id \in Ids :
        jobs[id] # NoJob /\ jobs[id].name = n
                         /\ jobs[id].status = "completed"

LEMMA EndedSaysTrue ==
  ASSUME IInv, NEW p \in polls, Ended(p) PROVE SuccessStep
<1> SUFFICES ASSUME NEW n \in Names,
                    button[n] # "success", button'[n] = "success"
             PROVE  \E id \in Ids :
                      jobs[id] # NoJob /\ jobs[id].name = n
                                       /\ jobs[id].status = "completed"
  BY DEF SuccessStep
<1>1. p \in Polls /\ OwnId(p)
  BY DEF IInv, TypeOK, IdsAreOwn
<1>2. button' = [button EXCEPT ![p.name] = Outcome(Status(p.id))]
  BY DEF Ended
<1>3. n = p.name /\ Outcome(Status(p.id)) = "success"
  BY <1>2 DEF IInv, TypeOK
<1>4. Status(p.id) = "completed"
  BY <1>3 DEF Outcome
<1>5. p.id # NoId /\ jobs[p.id] # NoJob /\ jobs[p.id].status = "completed"
  BY <1>4 DEF Status
<1>6. p.id \in Ids /\ jobs[p.id].name = p.name
  BY <1>1, <1>5 DEF Polls, OwnId
<1> QED BY <1>3, <1>5, <1>6

(* Every other step says anything but DONE. *)
LEMMA NextSaysTrue ==
  ASSUME IInv, [Next]_vars PROVE SuccessStep
<1>1. ASSUME NEW n \in Names, Click(n) PROVE SuccessStep
  BY <1>1 DEF Click, SuccessStep, IInv, TypeOK
<1>2. ASSUME NEW n \in Names, PollStep(n) PROVE SuccessStep
  <2>1. PICK p \in polls : \/ AskStatus(p) \/ StillRuns(p) \/ Again(p)
                           \/ Ended(p) \/ PollFails(p)
    BY <1>2 DEF PollStep
  <2>2. CASE AskStatus(p) \/ StillRuns(p) \/ Again(p)
    BY <2>2 DEF AskStatus, StillRuns, Again, SuccessStep
  <2>3. CASE Ended(p)
    BY <2>3, EndedSaysTrue
  <2>4. CASE PollFails(p)
    BY <2>4 DEF PollFails, SuccessStep, IInv, TypeOK
  <2> QED BY <2>1, <2>2, <2>3, <2>4
<1>3. ASSUME NEW n \in Names, AnswerStep(n) PROVE SuccessStep
  BY <1>3 DEF AnswerStep, Follow, Fails, SuccessStep, IInv, TypeOK
<1>4. ASSUME NEW r \in resets, Reset(r) PROVE SuccessStep
  BY <1>4 DEF Reset, SuccessStep, IInv, TypeOK
<1>5. CASE Unmount \/ (SlotsNext /\ UNCHANGED panel) \/ UNCHANGED vars
  BY <1>5 DEF Unmount, panel, vars, SuccessStep
<1> QED BY <1>1, <1>2, <1>3, <1>4, <1>5 DEF Next

-----------------------------------------------------------------------------
(***************************************************************************)
(* The theorems.                                                           *)
(***************************************************************************)

THEOREM Invariance == ASSUME BoundsAreNatural PROVE Spec => []IInv
<1>1. Init => IInv
  BY InitIInv
<1>2. IInv /\ [Next]_vars => IInv'
  BY NextIInv
<1> QED BY <1>1, <1>2, PTL DEF Spec

(* The variables have their types, whatever clicks, answers and timers     *)
(* meet: no id but one the API drew, no poll or answer beyond the bounds.  *)
THEOREM TypeCorrect == ASSUME BoundsAreNatural PROVE Spec => []TypeOK
<1>1. IInv => TypeOK
  BY DEF IInv
<1> QED BY <1>1, Invariance, PTL

(* RefreshPanel.tsx clears, replaces and loses timers, and late answers    *)
(* overtake each other; a button that spins still has what will end it.    *)
THEOREM Followed == ASSUME BoundsAreNatural PROVE Spec => []RunningIsFollowed
<1>1. IInv => RunningIsFollowed
  BY DEF IInv
<1> QED BY <1>1, Invariance, PTL

(* DONE is said only of a job of the button's name that is completed, for  *)
(* the id that was answered to its click keeps its meaning.                *)
THEOREM DoneIsDone == ASSUME BoundsAreNatural PROVE Spec => SuccessIsTrue
<1>1. IInv /\ [Next]_vars => [SuccessStep]_vars
  BY NextSaysTrue
<1> QED BY <1>1, Invariance, PTL DEF Spec, SuccessIsTrue, SuccessStep
=============================================================================
