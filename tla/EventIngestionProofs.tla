------------------------ MODULE EventIngestionProofs ------------------------
(***************************************************************************)
(* Proofs about EventIngestion, for any runs, keys, budgets and bounds.    *)
(***************************************************************************)
EXTENDS EventIngestion, FiniteSetTheorems, TLAPS

-----------------------------------------------------------------------------
(***************************************************************************)
(* What a record becomes, whatever its source.                             *)
(***************************************************************************)
LEMMA NormalizedFields ==
  ASSUME NEW s \in Sources, NEW raw \in Raws(s)
  PROVE  /\ Normalize(s, raw).key \in Keys
         /\ Normalize(s, raw).category \in Categories
         /\ Normalize(s, raw).actors \in BOOLEAN
         /\ Normalize(s, raw).actors => s \in {"acled", "military"}
<1> USE DEF Normalize, Event, Raws, Categories
<1>1. CASE s = "usgs"
  BY <1>1 DEF UsgsRecords, NormalizeUsgs, UsgsCategory
<1>2. CASE s = "firms"
  BY <1>2 DEF FirmsRecords, NormalizeFirms, FirmsCategory
<1>3. CASE s = "acled"
  BY <1>3 DEF AcledRecords, NormalizeAcled
<1>4. CASE s = "gdelt"
  BY <1>4 DEF GdeltRecords, NormalizeGdelt, GdeltCategory
<1>5. CASE s = "military"
  BY <1>5 DEF MilitaryRecords, NormalizeMilitary
<1> QED BY <1>1, <1>2, <1>3, <1>4, <1>5 DEF Sources

LEMMA HandledFields ==
  ASSUME NEW s \in Sources, NEW h \in Handled[s]
  PROVE  /\ h # NoEvent
         /\ h.key \in Keys
         /\ h.category \in Categories
         /\ h.actors \in BOOLEAN
         /\ h.actors => s \in {"acled", "military"}
<1>1. Handled[s] = HandledBy(s)
  BY DEF Handled, Sources
<1>2. PICK raw \in Raws(s) : h = Handle(s, raw)
  BY <1>1 DEF HandledBy
<1>3. /\ h.key = Normalize(s, raw).key
      /\ h.category = Normalize(s, raw).category
      /\ h.actors = Normalize(s, raw).actors
  BY <1>2 DEF Handle
<1>4. h # NoEvent
  BY NoEventAssumption DEF HandledOf
<1> QED BY <1>3, <1>4, NormalizedFields

(* What is in hand is a record of the source, of a category the table has. *)
LEMMA InHand ==
  ASSUME NEW state \in Run, source \in Sources, state.hand # NoEvent
  PROVE  /\ state.hand \in Handled[source]
         /\ state.hand.key \in Keys
         /\ state.hand.category \in Categories
<1>1. state.hand \in Storable[source]
  BY DEF Run
<1>2. state.hand \in Handled[source] /\ state.hand.category \in Categories
  BY <1>1 DEF Storable
<1> QED BY <1>2, HandledFields

LEMMA StorableIsHandled ==
  ASSUME source \in Sources
  PROVE  Storable[source] = Handled[source]
<1>1. \A h \in Handled[source] : h.category \in Categories
  BY HandledFields
<1> QED BY <1>1 DEF Storable

-----------------------------------------------------------------------------
(***************************************************************************)
(* Types.                                                                  *)
(***************************************************************************)

(* Counting adds one to the counters named and leaves the others alone.    *)
LEMMA Counting ==
  ASSUME TypeOK, NEW r \in Runs, NEW cs \in SUBSET Counters
  PROVE  /\ Count(r, cs) \in [Runs -> [Counters -> Nat]]
         /\ \A o \in Runs \ {r} : Count(r, cs)[o] = tally[o]
         /\ \A c \in Counters :
              Count(r, cs)[r][c] = IF c \in cs THEN tally[r][c] + 1
                                   ELSE tally[r][c]
  BY DEF TypeOK, Count

(* What every step of a run has in common: it changes the state, the       *)
(* counts and the alarm of no other run, and at most adds a row of its own. *)
NewRow(r) ==
  /\ run[r].hand # NoEvent
  /\ table[run[r].hand.key] = NoRow
  /\ table' = [table EXCEPT ![run[r].hand.key] = RowOf(r)]

OfRun(r) ==
  /\ source' = source
  /\ found' = found
  /\ run' = [run EXCEPT ![r] = run'[r]]
  /\ run'[r] \in Run
  /\ run[r].alarmed => run'[r].alarmed
  /\ tally' = [tally EXCEPT ![r] = tally'[r]]
  /\ tally'[r] \in [Counters -> Nat]
  /\ table' = table \/ NewRow(r)

AnswerOf(r, n, kept, repeated) ==
  /\ tally[r].fetched + n <= Budget[r]
  /\ source # "military" => kept = n
  /\ kept + repeated <= n
  /\ run' = [run EXCEPT ![r] =
               Turn(r, n, [run[r] EXCEPT !.left = @ + kept])]
  /\ tally' = [tally EXCEPT ![r].fetched = @ + n,
                            ![r].duplicates = @ + repeated,
                            ![r].repeated = @ + repeated]

RunStep(r) == Start(r) \/ Request(r) \/ Store(r) \/ Interrupt(r)

LEMMA EndedIsRun ==
  ASSUME NEW state \in Run, NEW phase \in {"done", "failed", "killed"}
  PROVE  /\ Ended(state, phase) \in Run
         /\ Ended(state, phase).phase = phase
         /\ Ended(state, phase).target = 1
         /\ Ended(state, phase).left = 0
         /\ Ended(state, phase).hand = NoEvent
         /\ ~Ended(state, phase).poisoned
         /\ Ended(state, phase).alarmed = state.alarmed
  BY DEF Ended, Idle, Run

(* The numbers of a run stay natural numbers. *)
LEMMA RunNumbers ==
  ASSUME NEW state \in Run
  PROVE  /\ state.target + 1 \in Nat
         /\ state.attempt + 1 \in Nat
         /\ \A n \in Nat : state.left + n \in Nat
         /\ state.left > 0 => state.left - 1 \in Nat
<1>1. state.target \in Nat /\ state.attempt \in Nat /\ state.left \in Nat
  BY DEF Run
<1> QED BY <1>1

LEMMA TurnIsRun ==
  ASSUME NEW r, NEW n, NEW state \in Run
  PROVE  /\ Turn(r, n, state) \in Run
         /\ Turn(r, n, state).phase \in {"fetch", "store"}
         /\ Turn(r, n, state).phase = "fetch" => Collects
         /\ Turn(r, n, state).target \in {state.target, state.target + 1}
         /\ Turn(r, n, state).left = state.left
         /\ Turn(r, n, state).hand = state.hand
         /\ Turn(r, n, state).poisoned = state.poisoned
         /\ Turn(r, n, state).alarmed = state.alarmed
<1> DEFINE ask  == [state EXCEPT !.phase = "fetch", !.target = @ + 1, !.attempt = 0]
           keep == [state EXCEPT !.phase = "store"]
<1>1. /\ ask \in Run
      /\ ask.phase = "fetch" /\ ask.target = state.target + 1
      /\ ask.left = state.left /\ ask.hand = state.hand
      /\ ask.poisoned = state.poisoned /\ ask.alarmed = state.alarmed
  BY RunNumbers DEF Run
<1>2. /\ keep \in Run
      /\ keep.phase = "store" /\ keep.target = state.target
      /\ keep.left = state.left /\ keep.hand = state.hand
      /\ keep.poisoned = state.poisoned /\ keep.alarmed = state.alarmed
  BY DEF Run
<1>3. \/ Turn(r, n, state) = ask /\ Collects
      \/ Turn(r, n, state) = keep
  BY DEF Turn
<1> HIDE DEF ask, keep
<1> QED BY <1>1, <1>2, <1>3

LEMMA RequestOfRun ==
  ASSUME TypeOK, NEW r \in Runs, Start(r) \/ Request(r)
  PROVE  OfRun(r)
<1>1. run[r] \in Run /\ tally[r] \in [Counters -> Nat]
  BY DEF TypeOK
<1>2. CASE Start(r)
  <2>1. PICK phase \in {"fetch", "done"} : run' = [run EXCEPT ![r].phase = phase]
    BY <1>2 DEF Start
  <2> QED BY <1>1, <1>2, <2>1 DEF Start, OfRun, TypeOK, Run
<1>3. CASE Answer(r)
  <2> PICK n \in 0 .. PageSize : \E kept, repeated \in 0 .. n : AnswerOf(r, n, kept, repeated)
    BY <1>3 DEF Answer, AnswerOf
  <2>1. PICK kept \in 0 .. n, repeated \in 0 .. n : AnswerOf(r, n, kept, repeated)
    OBVIOUS
  <2> DEFINE state == [run[r] EXCEPT !.left = run[r].left + kept]
  <2>2. state \in Run /\ state.alarmed = run[r].alarmed
    <3>1. kept \in Nat
      BY BoundsAssumption
    <3>2. run[r].left + kept \in Nat
      BY <1>1, <3>1, RunNumbers
    <3> QED BY <1>1, <3>2 DEF Run
  <2>3. run' = [run EXCEPT ![r] = Turn(r, n, state)]
    BY <2>1 DEF AnswerOf
  <2> HIDE DEF state
  <2>4. run'[r] \in Run /\ run'[r].alarmed = run[r].alarmed
    BY <2>2, <2>3, TurnIsRun DEF TypeOK
  <2>5. tally'[r] \in [Counters -> Nat]
    <3>1. n \in Nat /\ repeated \in Nat
      BY BoundsAssumption
    <3>2. /\ tally[r].fetched + n \in Nat
          /\ tally[r].duplicates + repeated \in Nat
          /\ tally[r].repeated + repeated \in Nat
      BY <1>1, <3>1 DEF Counters
    <3> QED BY <1>1, <2>1, <3>2 DEF AnswerOf, TypeOK, Counters
  <2>6. tally' = [tally EXCEPT ![r] = tally'[r]]
    BY <2>1 DEF AnswerOf, TypeOK
  <2> QED BY <1>3, <2>3, <2>4, <2>5, <2>6 DEF Answer, OfRun, TypeOK
<1>4. CASE TryAgain(r)
  BY <1>1, <1>4, RunNumbers DEF TryAgain, OfRun, TypeOK, Run
<1>5. CASE GiveUp(r)
  <2>2. Turn(r, 0, run[r]) \in Run /\ Turn(r, 0, run[r]).alarmed = run[r].alarmed
    BY <1>1, TurnIsRun
  <2>3. /\ Ended(run[r], "failed") \in Run
        /\ Ended(run[r], "failed").alarmed = run[r].alarmed
    BY <1>1, EndedIsRun
  <2>4. run'[r] \in Run /\ run'[r].alarmed = run[r].alarmed
    BY <1>5, <2>2, <2>3 DEF GiveUp, TypeOK
  <2> QED BY <1>1, <1>5, <2>4 DEF GiveUp, OfRun, TypeOK
<1>6. CASE PageOn(r)
  <2>1. run[r].target \in Nat /\ MaxTargets + 1 \in Nat /\ MaxTargets + 2 \in Nat
    BY <1>1, BoundsAssumption DEF Run
  <2>2. PICK page \in {MaxTargets + 1, MaxTargets + 2} :
          run' = [run EXCEPT ![r].target = page, ![r].attempt = 0]
    BY <1>6 DEF PageOn
  <2>3. /\ run' = [run EXCEPT ![r] = run'[r]] /\ run'[r] \in Run
        /\ run'[r].alarmed = run[r].alarmed
    BY <1>1, <2>1, <2>2 DEF TypeOK, Run
  <2> QED BY <1>1, <1>6, <2>3 DEF PageOn, OfRun, TypeOK
<1> QED BY <1>2, <1>3, <1>4, <1>5, <1>6 DEF Request

LEMMA StoreOfRun ==
  ASSUME TypeOK, NEW r \in Runs, Store(r)
  PROVE  OfRun(r)
<1>1. run[r] \in Run /\ tally[r] \in [Counters -> Nat] /\ source \in Sources
  BY DEF TypeOK
<1>2. ASSUME NEW cs \in SUBSET Counters, tally' = Count(r, cs)
      PROVE  tally' = [tally EXCEPT ![r] = tally'[r]] /\ tally'[r] \in [Counters -> Nat]
  BY <1>2 DEF Count, TypeOK
<1>3. run[r].left > 0 => [run[r] EXCEPT !.left = @ - 1] \in Run
  BY <1>1 DEF Run
<1>4. CASE Drop(r)
  BY <1>1, <1>2, <1>3, <1>4
  DEF Drop, Mapped, Loop, Handling, OfRun, TypeOK, Run, Counters
<1>13. ASSUME run[r].left > 0, NEW dirty \in BOOLEAN,
              run' = [Handling(r) EXCEPT ![r].poisoned = dirty]
       PROVE  /\ run' = [run EXCEPT ![r] = run'[r]]
              /\ run'[r] \in Run
              /\ run'[r].alarmed = run[r].alarmed
  BY <1>1, <1>13, RunNumbers DEF Handling, TypeOK, Run
<1>14. ASSUME run[r].left > 0, run' = Handling(r)
       PROVE  /\ run' = [run EXCEPT ![r] = run'[r]]
              /\ run'[r] \in Run
              /\ run'[r].alarmed = run[r].alarmed
  BY <1>1, <1>3, <1>14 DEF Handling, TypeOK, Run
<1>5. CASE Reject(r) \/ RejectFails(r)
  <2>1. CASE Reject(r)
    <3>1. \E cs \in SUBSET Counters : tally' = Count(r, cs)
      BY <2>1 DEF Reject, Counters
    <3> QED BY <1>2, <1>13, <2>1, <3>1 DEF Reject, Mapped, Loop, OfRun
  <2>2. CASE RejectFails(r)
    <3>1. \E cs \in SUBSET Counters : tally' = Count(r, cs)
      BY <2>2 DEF RejectFails, Counters
    <3> QED BY <1>2, <1>14, <2>2, <3>1 DEF RejectFails, Mapped, Loop, OfRun
  <2> QED BY <1>5, <2>1, <2>2
<1>6. CASE Lose(r)
  <2>1. \E cs \in SUBSET Counters : tally' = Count(r, cs)
    BY <1>6 DEF Lose, Counters
  <2> QED BY <1>2, <1>6, <1>14, <2>1 DEF Lose, Mapped, Loop, OfRun
<1>7. CASE Refresh(r) \/ RefreshFails(r)
  <2>1. CASE Refresh(r)
    <3>1. \E cs \in SUBSET Counters : tally' = Count(r, cs)
      BY <2>1 DEF Refresh, Counters
    <3> QED BY <1>2, <1>14, <2>1, <3>1 DEF Refresh, Mapped, Loop, OfRun
  <2>2. CASE RefreshFails(r)
    <3>1. \E cs \in SUBSET Counters : tally' = Count(r, cs)
      BY <2>2 DEF RefreshFails, Counters
    <3>2. \E dirty \in BOOLEAN : run' = [Handling(r) EXCEPT ![r].poisoned = dirty]
      BY <2>2 DEF RefreshFails
    <3> QED BY <1>2, <1>13, <2>2, <3>1, <3>2 DEF RefreshFails, Mapped, Loop, OfRun
  <2> QED BY <1>7, <2>1, <2>2
<1>15. CASE SelectFails(r)
  <2>1. \E cs \in SUBSET Counters : tally' = Count(r, cs)
    BY <1>15 DEF SelectFails, Counters
  <2> QED BY <1>2, <1>13, <1>15, <2>1 DEF SelectFails, Mapped, Loop, OfRun
<1>8. CASE Select(r)
  <2>1. PICK h \in Handled[source] :
          run' = [Handling(r) EXCEPT ![r].hand = h]
    BY <1>8 DEF Select, HandledOf
  <2>6. h \in Storable[source]
    BY <1>1, <2>1, StorableIsHandled
  <2>2. run[r].left - 1 \in Nat
    BY <1>1, <1>8, RunNumbers DEF Select, Mapped, Loop
  <2> DEFINE next == [run[r] EXCEPT !.left = run[r].left - 1, !.hand = h]
  <2>3. run' = [run EXCEPT ![r] = next]
    <3>1. Handling(r)[r] = [run[r] EXCEPT !.left = run[r].left - 1]
      BY DEF Handling, TypeOK
    <3>2. [Handling(r)[r] EXCEPT !.hand = h] = next
      BY <1>1, <3>1 DEF Run
    <3>3. run' = [Handling(r) EXCEPT ![r] = [Handling(r)[r] EXCEPT !.hand = h]]
      BY <2>1
    <3> HIDE DEF next
    <3> QED BY <3>2, <3>3 DEF Handling, TypeOK
  <2>4. next \in Run /\ next.alarmed = run[r].alarmed
    BY <1>1, <2>2, <2>6 DEF Run
  <2>5. run'[r] = next
    BY <2>3 DEF TypeOK
  <2> HIDE DEF next
  <2> QED BY <1>1, <1>8, <2>3, <2>4, <2>5 DEF Select, OfRun, TypeOK
<1>9. CASE Insert(r)
  BY <1>1, <1>2, <1>9 DEF Insert, KnownRow, NewRow, OfRun, TypeOK, Run, Counters
<1>10. CASE InsertFails(r) \/ InsertUnheard(r)
  <2>1. \E cs \in SUBSET Counters : tally' = Count(r, cs)
    BY <1>10 DEF InsertFails, InsertUnheard, Counters
  <2>2. PICK dirty \in BOOLEAN :
          run' = [run EXCEPT ![r].hand = NoEvent, ![r].poisoned = dirty]
    BY <1>10 DEF InsertFails, InsertUnheard
  <2>3. /\ run' = [run EXCEPT ![r] = run'[r]] /\ run'[r] \in Run
        /\ run'[r].alarmed = run[r].alarmed
    BY <1>1, <2>2 DEF TypeOK, Run
  <2> QED
    BY <1>2, <1>10, <2>1, <2>3 DEF InsertFails, InsertUnheard, KnownRow, NewRow, OfRun
<1>11. CASE Drain(r)
  <2> DEFINE next == [run[r] EXCEPT !.phase = "fetch",
                                    !.target = run[r].target + 1, !.attempt = 0]
  <2>1. next \in Run /\ next.alarmed = run[r].alarmed
    BY <1>1, RunNumbers DEF Run
  <2>2. run'[r] \in {next, Ended(run[r], "done")}
    <3>1. CASE ~Collects /\ MoreTargets(r)
      BY <1>11, <3>1 DEF Drain, TypeOK
    <3>2. CASE ~(~Collects /\ MoreTargets(r))
      BY <1>11, <3>2 DEF Drain, TypeOK
    <3> QED BY <3>1, <3>2
  <2> HIDE DEF next
  <2>3. run'[r] \in Run /\ run'[r].alarmed = run[r].alarmed
    <3>1. /\ Ended(run[r], "done") \in Run
          /\ Ended(run[r], "done").alarmed = run[r].alarmed
      BY <1>1, EndedIsRun
    <3> QED BY <2>1, <2>2, <3>1
  <2> QED BY <1>1, <1>11, <2>3 DEF Drain, OfRun, TypeOK
<1>12. CASE Stumble(r)
  BY <1>1, <1>2, <1>3, <1>12
  DEF Stumble, Loop, Handling, OfRun, TypeOK, Run, Counters
<1> QED
  BY <1>4, <1>5, <1>6, <1>7, <1>8, <1>9, <1>10, <1>11, <1>12, <1>15 DEF Store

LEMMA InterruptOfRun ==
  ASSUME TypeOK, NEW r \in Runs, Interrupt(r)
  PROVE  OfRun(r)
<1>1. run[r] \in Run /\ tally[r] \in [Counters -> Nat]
  BY DEF TypeOK
<1>2. ASSUME NEW cs \in SUBSET Counters, tally' = Count(r, cs)
      PROVE  tally' = [tally EXCEPT ![r] = tally'[r]] /\ tally'[r] \in [Counters -> Nat]
  BY <1>2 DEF Count, TypeOK
<1>3. [run[r] EXCEPT !.alarmed = TRUE] \in Run
  BY <1>1 DEF Run
<1>4. CASE AlarmInRequest(r)
  <2> DEFINE again == [run[r] EXCEPT !.alarmed = TRUE,
                                     !.attempt = run[r].attempt + 1]
             given == Turn(r, 0, [run[r] EXCEPT !.alarmed = TRUE])
  <2>1. again \in Run
    BY <1>1, RunNumbers DEF Run
  <2>2. given \in Run
    BY <1>3, TurnIsRun
  <2>3. run'[r] \in {again, given} /\ ~run[r].alarmed
    BY <1>4 DEF AlarmInRequest, MayAlarm, TypeOK
  <2> HIDE DEF again, given
  <2> QED BY <1>1, <1>4, <2>1, <2>2, <2>3 DEF AlarmInRequest, OfRun, TypeOK
<1>5. CASE AlarmInRecord(r)
  BY <1>1, <1>2, <1>5
  DEF AlarmInRecord, KnownRow, NewRow, OfRun, TypeOK, Run, Counters
<1>6. CASE AlarmInMapper(r) \/ AlarmInReject(r)
  <2>1. run[r].left - 1 \in Nat
    BY <1>1, <1>6, RunNumbers DEF AlarmInMapper, AlarmInReject, Loop
  <2>2. PICK dirty \in BOOLEAN :
          run' = [Handling(r) EXCEPT ![r].alarmed = TRUE, ![r].poisoned = dirty]
    <3>1. CASE AlarmInMapper(r)
      <4>1. PICK dirty \in BOOLEAN :
              run' = [Handling(r) EXCEPT ![r].alarmed = TRUE,
                                         ![r].poisoned = @ \/ dirty]
        BY <3>1 DEF AlarmInMapper
      <4>2. Handling(r)[r].poisoned = run[r].poisoned /\ run[r].poisoned \in BOOLEAN
        BY <1>1 DEF Handling, TypeOK, Run
      <4>3. (run[r].poisoned \/ dirty) \in BOOLEAN
        OBVIOUS
      <4>4. run' = [Handling(r) EXCEPT ![r].alarmed = TRUE,
                                       ![r].poisoned = run[r].poisoned \/ dirty]
        BY <1>1, <4>1, <4>2 DEF Handling, TypeOK, Run
      <4> QED BY <4>3, <4>4
    <3>2. CASE AlarmInReject(r)
      BY <3>2 DEF AlarmInReject
    <3> QED BY <1>6, <3>1, <3>2
  <2>3. run'[r] \in Run /\ run'[r].alarmed
    BY <1>1, <2>1, <2>2 DEF Handling, TypeOK, Run
  <2>4. run' = [run EXCEPT ![r] = run'[r]]
    BY <2>2 DEF Handling, TypeOK
  <2>5. \E cs \in SUBSET Counters : tally' = Count(r, cs)
    BY <1>6 DEF AlarmInMapper, AlarmInReject, Counters
  <2> QED
    BY <1>2, <1>6, <2>3, <2>4, <2>5 DEF AlarmInMapper, AlarmInReject, OfRun
<1>7. CASE AlarmBetween(r)
  <2>1. run'[r] \in Run /\ ~run[r].alarmed
    BY <1>3, <1>7, EndedIsRun DEF AlarmBetween, MayAlarm, TypeOK
  <2> QED BY <1>1, <1>7, <2>1 DEF AlarmBetween, OfRun, TypeOK
<1>8. CASE Kill(r)
  BY <1>1, <1>8, EndedIsRun DEF Kill, OfRun, TypeOK
<1> QED BY <1>4, <1>5, <1>6, <1>7, <1>8 DEF Interrupt

LEMMA StepOfRun ==
  ASSUME TypeOK, NEW r \in Runs, RunStep(r)
  PROVE  OfRun(r)
  BY RequestOfRun, StoreOfRun, InterruptOfRun DEF RunStep

(* The row a run adds is one. *)
LEMMA NewRowIsRow ==
  ASSUME TypeOK, NEW r \in Runs, NewRow(r)
  PROVE  /\ run[r].hand.key \in Keys
         /\ RowOf(r) \in Row
         /\ RowOf(r) # NoRow
         /\ RowOf(r).by = r
<1>1. run[r] \in Run /\ source \in Sources /\ run[r].hand # NoEvent
  BY DEF TypeOK, NewRow
<1>2. RowOf(r) \in Row /\ RowOf(r).by = r
  BY DEF RowOf, Row
<1> QED BY <1>1, <1>2, InHand, NoRowAssumption

LEMMA NextTypeOK == TypeOK /\ [Next]_vars => TypeOK'
<1> SUFFICES ASSUME TypeOK, [Next]_vars PROVE TypeOK'
  OBVIOUS
<1>1. ASSUME NEW r \in Runs, OfRun(r) PROVE TypeOK'
  <2>1. table' \in [Keys -> Row \cup {NoRow}]
    BY <1>1, NewRowIsRow DEF OfRun, NewRow, TypeOK
  <2>2. Run' = Run
    BY <1>1 DEF OfRun, Run
  <2>3. run' \in [Runs -> Run] /\ tally' \in [Runs -> [Counters -> Nat]]
    BY <1>1 DEF OfRun, TypeOK
  <2> QED BY <1>1, <2>1, <2>2, <2>3 DEF OfRun, TypeOK
<1>2. CASE DetectThermal
  BY <1>2 DEF DetectThermal, Hotspots, TypeOK, Run
<1>3. CASE UNCHANGED vars
  BY <1>3 DEF vars, TypeOK, Run
<1> QED BY <1>1, <1>2, <1>3, StepOfRun DEF Next, RunStep

(* Runs, counts and rows keep their types, for any records and answers.    *)
THEOREM TypeCorrect == Spec => []TypeOK
<1>1. Init => TypeOK
  BY DEF Init, TypeOK, Idle, Run
<1> QED BY <1>1, NextTypeOK, PTL DEF Spec

-----------------------------------------------------------------------------
(***************************************************************************)
(* What the steps of a run do to its counts.  There are three kinds: those *)
(* that count nothing, the answer of the source, and those that settle one *)
(* record.                                                                 *)
(***************************************************************************)

(* An event is in hand only while a run stores; targets count from 1.      *)
Shape(r) ==
  /\ run[r].target >= 1
  /\ run[r].hand # NoEvent => run[r].phase = "store"

Over == {"failed", "killed"}

Waits(r) ==
  /\ UNCHANGED <<tally, table>>
  /\ run[r].phase \notin Over
  /\ run'[r].phase # "idle"
  /\ run'[r].target >= 1
  /\ run'[r].hand # NoEvent => run'[r].phase = "store"
  /\ \/ run'[r].phase \in Over
     \/ run'[r].left + Handed(r)' = run[r].left + Handed(r)
  /\ run'[r].poisoned => run[r].poisoned
  /\ source \in {"usgs", "acled"} =>
       /\ run'[r].phase = "failed" => run[r].phase = "fetch"
       /\ run'[r].phase = "fetch" => run[r].phase \in {"idle", "fetch"}

(* What no report has: what was lost, and what has failed.                 *)
Beside == {"lost", "unfiled", "errors", "outages"}

Answered(r) ==
  /\ table' = table
  /\ run[r].phase = "fetch"
  /\ run[r].hand = NoEvent
  /\ run'[r].phase \in {"fetch", "store"}
  /\ run'[r].target \in {run[r].target, run[r].target + 1}
  /\ run'[r].hand = NoEvent
  /\ run'[r].poisoned = run[r].poisoned
  /\ \E n, kept, repeated \in Nat :
       /\ kept + repeated <= n
       /\ source # "military" => kept = n
       /\ run'[r].left = run[r].left + kept
       /\ tally'[r].fetched = tally[r].fetched + n
       /\ tally'[r].duplicates = tally[r].duplicates + repeated
       /\ tally'[r].repeated = tally[r].repeated + repeated
  /\ \A c \in {"processed", "quarantined", "skipped"} \cup Beside :
       tally'[r][c] = tally[r][c]

(* The counter c, and no other that is reported, goes up by one. *)
CountsOne(r, c) ==
  \A d \in {"fetched", "processed", "duplicates", "quarantined", "skipped",
            "repeated"} :
    tally'[r][d] = IF d = c THEN tally[r][d] + 1 ELSE tally[r][d]

(* The counters cs that are not reported go up by one.                     *)
Adds(r, cs) ==
  \A d \in Beside :
    tally'[r][d] = IF d \in cs THEN tally[r][d] + 1 ELSE tally[r][d]

(* What may happen to the counts that are not reported, and to the         *)
(* session: nothing but a failure begins a loss, a poisoned session goes   *)
(* on with it, and a record that is not filed repairs the session or is    *)
(* the failure itself.                                                     *)
Blames(r) ==
  \E cs \in SUBSET Beside :
    /\ Adds(r, cs)
    /\ ~({"errors", "outages"} \subseteq cs)
    /\ "lost" \in cs => run[r].poisoned \/ cs \cap {"errors", "outages"} # {}
    /\ \/ /\ cs \cap {"errors", "outages"} # {}
          /\ "unfiled" \in cs => run'[r].poisoned = FALSE
       \/ run'[r].poisoned = run[r].poisoned /\ "unfiled" \notin cs
       \/ run'[r].poisoned = FALSE /\ ("unfiled" \in cs => run[r].poisoned)

Settles(r) ==
  /\ run[r].phase = "store"
  /\ run'[r].phase = "store"
  /\ run'[r].hand = NoEvent
  /\ run'[r].target = run[r].target
  /\ run'[r].left + 1 = run[r].left + Handed(r)
  /\ \/ CountsOne(r, "processed") /\ NewRow(r)
     \/ /\ CountsOne(r, "duplicates")
        /\ table' = table
        /\ \E k \in Keys : table[k] # NoRow
     \/ /\ CountsOne(r, "quarantined") \/ CountsOne(r, "skipped")
        /\ \/ table' = table
           \/ /\ NewRow(r)
              /\ \/ ~run[r].alarmed /\ run'[r].alarmed
                 \/ tally'[r].outages = tally[r].outages + 1
  /\ Blames(r)

LEMMA CountingOne ==
  ASSUME TypeOK, NEW r \in Runs,
         NEW c \in {"processed", "duplicates", "quarantined", "skipped"},
         NEW cs \in SUBSET Beside,
         tally' = Count(r, {c} \cup cs)
  PROVE  CountsOne(r, c) /\ Adds(r, cs)
<1>1. {c} \cup cs \in SUBSET Counters
  BY DEF Counters, Beside
<1>2. \A d \in Counters :
        tally'[r][d] = IF d \in {c} \cup cs THEN tally[r][d] + 1 ELSE tally[r][d]
  BY <1>1, Counting
<1>3. CountsOne(r, c)
  BY <1>2 DEF CountsOne, Counters, Beside
<1>4. Adds(r, cs)
  BY <1>2 DEF Adds, Counters, Beside
<1> QED BY <1>3, <1>4

LEMMA RequestKinds ==
  ASSUME TypeOK, NEW r \in Runs, Shape(r), Start(r) \/ Request(r)
  PROVE  Waits(r) \/ Answered(r)
<1>1. run[r] \in Run /\ tally[r] \in [Counters -> Nat]
  BY DEF TypeOK
<1>2. CASE Start(r)
  <2>1. PICK phase \in {"fetch", "done"} : run' = [run EXCEPT ![r].phase = phase]
    BY <1>2 DEF Start
  <2>2. /\ run'[r].phase = phase /\ run'[r].target = run[r].target
        /\ run'[r].left = run[r].left /\ run'[r].hand = run[r].hand
        /\ run'[r].poisoned = run[r].poisoned
    BY <1>1, <2>1 DEF TypeOK, Run
  <2>3. run[r].phase = "idle" /\ run[r].hand = NoEvent /\ UNCHANGED <<tally, table>>
    BY <1>2 DEF Start, Shape
  <2>4. run[r].target >= 1
    BY DEF Shape
  <2> QED BY <2>2, <2>3, <2>4 DEF Waits, Handed, Over
<1>3. CASE Answer(r)
  <2>1. PICK n \in 0 .. PageSize :
          \E kept, repeated \in 0 .. n : AnswerOf(r, n, kept, repeated)
    BY <1>3 DEF Answer, AnswerOf
  <2>2. PICK kept \in 0 .. n, repeated \in 0 .. n : AnswerOf(r, n, kept, repeated)
    BY <2>1
  <2> DEFINE state == [run[r] EXCEPT !.left = run[r].left + kept]
  <2>3. n \in Nat /\ kept \in Nat /\ repeated \in Nat
    BY BoundsAssumption
  <2>4. /\ state \in Run /\ state.target = run[r].target
        /\ state.left = run[r].left + kept /\ state.hand = run[r].hand
        /\ state.poisoned = run[r].poisoned
    <3>1. run[r].left + kept \in Nat
      BY <1>1, <2>3, RunNumbers
    <3> QED BY <1>1, <3>1 DEF Run
  <2>5. run'[r] = Turn(r, n, state)
    BY <2>2 DEF AnswerOf, TypeOK
  <2> HIDE DEF state
  <2>6. /\ run'[r].phase \in {"fetch", "store"}
        /\ run'[r].target \in {run[r].target, run[r].target + 1}
        /\ run'[r].left = run[r].left + kept
        /\ run'[r].hand = run[r].hand
        /\ run'[r].poisoned = run[r].poisoned
    BY <2>4, <2>5, TurnIsRun
  <2>7. /\ tally'[r].fetched = tally[r].fetched + n
        /\ tally'[r].duplicates = tally[r].duplicates + repeated
        /\ tally'[r].repeated = tally[r].repeated + repeated
        /\ \A c \in {"processed", "quarantined", "skipped"} \cup Beside :
             tally'[r][c] = tally[r][c]
    BY <1>1, <2>2 DEF AnswerOf, TypeOK, Counters, Beside
  <2>8. run[r].phase = "fetch" /\ run[r].hand = NoEvent /\ table' = table
    BY <1>3 DEF Answer, Shape
  <2>9. kept + repeated <= n /\ (source # "military" => kept = n)
    BY <2>2 DEF AnswerOf
  <2> QED BY <2>3, <2>6, <2>7, <2>8, <2>9 DEF Answered
<1>4. CASE TryAgain(r)
  BY <1>1, <1>4 DEF TryAgain, Shape, Waits, Handed, TypeOK, Run, Over
<1>5. CASE GiveUp(r)
  <2>1. /\ run[r].phase = "fetch" /\ run[r].hand = NoEvent
        /\ UNCHANGED <<tally, table>>
    BY <1>5 DEF GiveUp, Shape
  <2>2. CASE SkipsTarget
    <3>1. run'[r] = Turn(r, 0, run[r])
      BY <1>5, <2>2 DEF GiveUp, TypeOK
    <3>2. source \notin {"usgs", "acled"}
      BY <2>2 DEF SkipsTarget, Loops, UsgsLoop, AcledLoop
    <3>3. /\ run'[r].phase \in {"fetch", "store"}
          /\ run'[r].target \in {run[r].target, run[r].target + 1}
          /\ run'[r].left = run[r].left /\ run'[r].hand = run[r].hand
          /\ run'[r].poisoned = run[r].poisoned
      BY <1>1, <3>1, TurnIsRun
    <3>4. Handed(r)' = Handed(r)
      BY <3>3 DEF Handed
    <3>5. run'[r].target >= 1
      BY <1>1, <3>3 DEF Shape, Run
    <3> QED BY <2>1, <3>2, <3>3, <3>4, <3>5 DEF Waits, Over
  <2>3. CASE ~SkipsTarget
    <3>1. run'[r] = Ended(run[r], "failed")
      BY <1>5, <2>3 DEF GiveUp, TypeOK
    <3>2. /\ run'[r].phase = "failed" /\ run'[r].target = 1
          /\ run'[r].hand = NoEvent /\ ~run'[r].poisoned
      BY <1>1, <3>1, EndedIsRun
    <3> QED BY <2>1, <3>2 DEF Waits, Over
  <2> QED BY <2>2, <2>3
<1>6. CASE PageOn(r)
  <2>1. run[r].phase = "fetch" /\ run[r].hand = NoEvent /\ UNCHANGED <<tally, table>>
    BY <1>6 DEF PageOn, Shape
  <2>2. PICK page \in {MaxTargets + 1, MaxTargets + 2} :
          run' = [run EXCEPT ![r].target = page, ![r].attempt = 0]
    BY <1>6 DEF PageOn
  <2>3. /\ run'[r].phase = run[r].phase /\ run'[r].left = run[r].left
        /\ run'[r].hand = run[r].hand /\ run'[r].poisoned = run[r].poisoned
        /\ run'[r].target = page
    BY <1>1, <2>2 DEF TypeOK, Run
  <2>4. run'[r].target >= 1
    BY <2>3, BoundsAssumption
  <2> QED BY <2>1, <2>3, <2>4 DEF Waits, Handed, Over
<1> QED BY <1>2, <1>3, <1>4, <1>5, <1>6 DEF Request

LEMMA StoreKinds ==
  ASSUME TypeOK, NEW r \in Runs, Shape(r), Store(r)
  PROVE  Waits(r) \/ Settles(r)
<1>1. /\ run[r] \in Run /\ source \in Sources
      /\ \A h \in Handled[source] : h # NoEvent /\ h.key \in Keys
  BY HandledFields DEF TypeOK
<1>2. ASSUME run[r].phase = "store", run[r].hand = NoEvent, run[r].left > 0,
             NEW poisoned \in BOOLEAN,
             run' = [Handling(r) EXCEPT ![r].poisoned = poisoned]
      PROVE  /\ run'[r].phase = "store" /\ run'[r].hand = NoEvent
             /\ run'[r].target = run[r].target
             /\ run'[r].left + 1 = run[r].left + Handed(r)
             /\ run'[r].poisoned = poisoned
  BY <1>1, <1>2 DEF Handling, Handed, TypeOK, Run
<1>3. ASSUME run[r].phase = "store", run[r].hand = NoEvent, run[r].left > 0,
             run' = Handling(r)
      PROVE  /\ run'[r].phase = "store" /\ run'[r].hand = NoEvent
             /\ run'[r].target = run[r].target
             /\ run'[r].left + 1 = run[r].left + Handed(r)
             /\ run'[r].poisoned = run[r].poisoned
  BY <1>1, <1>3 DEF Handling, Handed, TypeOK, Run
<1>4. CASE Drop(r)
  <2>1. PICK c \in {"quarantined", "skipped"} : tally' = Count(r, {c} \cup {})
    BY <1>4 DEF Drop
  <2>2. CountsOne(r, c) /\ Adds(r, {})
    BY <2>1, CountingOne DEF Beside
  <2>3. run'[r].poisoned = run[r].poisoned /\ table' = table
    BY <1>3, <1>4 DEF Drop, Mapped, Loop
  <2>4. Blames(r)
    BY <2>2, <2>3 DEF Blames
  <2> QED BY <1>3, <1>4, <2>2, <2>3, <2>4 DEF Drop, Mapped, Loop, Settles
<1>5. CASE Reject(r) \/ RejectFails(r)
  <2>1. run[r].phase = "store" /\ run[r].hand = NoEvent /\ run[r].left > 0
    BY <1>5 DEF Reject, RejectFails, Mapped, Loop
  <2>2. CASE Reject(r)
    <3>1. PICK cs \in SUBSET {"unfiled"} :
            /\ tally' = Count(r, {"quarantined"} \cup cs)
            /\ "unfiled" \in cs => run[r].poisoned
      <4>1. CASE run[r].poisoned
        BY <2>2, <4>1 DEF Reject
      <4>2. CASE ~run[r].poisoned
        <5>1. tally' = Count(r, {"quarantined"} \cup {}) /\ {} \in SUBSET {"unfiled"}
          BY <2>2, <4>2 DEF Reject
        <5> QED BY <5>1
      <4> QED BY <4>1, <4>2
    <3>2. CountsOne(r, "quarantined") /\ Adds(r, cs)
      BY <3>1, CountingOne DEF Beside
    <3>3. ~run'[r].poisoned /\ table' = table
      BY <1>2, <2>1, <2>2 DEF Reject
    <3>4. Blames(r)
      BY <3>1, <3>2, <3>3 DEF Blames, Beside
    <3> QED BY <1>2, <2>1, <2>2, <3>2, <3>3, <3>4 DEF Reject, Settles
  <2>3. CASE RejectFails(r)
    <3>1. {"quarantined", "unfiled", "outages"} =
            {"quarantined"} \cup {"unfiled", "outages"}
      OBVIOUS
    <3>2. CountsOne(r, "quarantined") /\ Adds(r, {"unfiled", "outages"})
      BY <2>3, <3>1, CountingOne DEF RejectFails, Beside
    <3>3. run'[r].poisoned = FALSE /\ table' = table
      BY <1>1, <1>3, <2>1, <2>3 DEF RejectFails, Run
    <3>4. Blames(r)
      BY <3>2, <3>3 DEF Blames, Beside
    <3> QED BY <1>3, <2>1, <2>3, <3>2, <3>3, <3>4 DEF RejectFails, Settles
  <2> QED BY <1>5, <2>2, <2>3
<1>6. CASE Lose(r)
  <2>1. {"quarantined", "lost"} = {"quarantined"} \cup {"lost"}
    OBVIOUS
  <2>2. CountsOne(r, "quarantined") /\ Adds(r, {"lost"})
    BY <1>6, <2>1, CountingOne DEF Lose, Beside
  <2>3. /\ run'[r].poisoned = run[r].poisoned /\ run[r].poisoned
        /\ table' = table
    BY <1>3, <1>6 DEF Lose, Mapped, Loop
  <2>4. Blames(r)
    BY <2>2, <2>3 DEF Blames, Beside
  <2> QED BY <1>3, <1>6, <2>2, <2>3, <2>4 DEF Lose, Mapped, Loop, Settles
<1>7. CASE Refresh(r)
  <2>1. tally' = Count(r, {"duplicates"} \cup {})
    BY <1>7 DEF Refresh
  <2>2. CountsOne(r, "duplicates") /\ Adds(r, {})
    BY <2>1, CountingOne DEF Beside
  <2>3. \E k \in Keys : table[k] # NoRow
    BY <1>1, <1>7 DEF Refresh, HandledOf, KnownRow
  <2>4. run'[r].poisoned = run[r].poisoned /\ table' = table
    BY <1>3, <1>7 DEF Refresh, Mapped, Loop
  <2>5. Blames(r)
    BY <2>2, <2>4 DEF Blames
  <2> QED
    BY <1>3, <1>7, <2>2, <2>3, <2>4, <2>5 DEF Refresh, Mapped, Loop, Settles
<1>12. CASE Stumble(r) \/ RefreshFails(r) \/ SelectFails(r)
  <2>1. /\ run[r].phase = "store" /\ run[r].hand = NoEvent /\ run[r].left > 0
        /\ table' = table
    BY <1>12 DEF Stumble, RefreshFails, SelectFails, Mapped, Loop
  <2>2. PICK dirty \in BOOLEAN : run' = [Handling(r) EXCEPT ![r].poisoned = dirty]
    BY <1>12 DEF Stumble, RefreshFails, SelectFails
  <2>3. PICK cs \in {{"lost", "errors"}, {"lost", "outages"}, {"outages"}} :
          tally' = Count(r, {"quarantined"} \cup cs)
    <3>1. /\ {"quarantined", "lost", "errors"} = {"quarantined"} \cup {"lost", "errors"}
          /\ {"quarantined", "lost", "outages"} = {"quarantined"} \cup {"lost", "outages"}
          /\ {"quarantined", "outages"} = {"quarantined"} \cup {"outages"}
      OBVIOUS
    <3> QED BY <1>12, <3>1 DEF Stumble, RefreshFails, SelectFails
  <2>4. CountsOne(r, "quarantined") /\ Adds(r, cs)
    BY <2>3, CountingOne DEF Beside
  <2>5. Blames(r)
    BY <2>3, <2>4 DEF Blames, Beside
  <2> QED BY <1>2, <2>1, <2>2, <2>4, <2>5 DEF Settles
<1>8. CASE Select(r)
  <2>1. PICK h \in Handled[source] :
          ~KnownRow(h) /\ run' = [Handling(r) EXCEPT ![r].hand = h]
    BY <1>8 DEF Select, HandledOf
  <2>2. /\ run'[r].phase = "store" /\ run'[r].target = run[r].target
        /\ run'[r].left = run[r].left - 1 /\ run'[r].hand = h
        /\ run'[r].poisoned = run[r].poisoned
        /\ run[r].left \in Nat
    BY <1>1, <1>8, <2>1 DEF Select, Mapped, Loop, Handling, TypeOK, Run
  <2>3. run'[r].left + Handed(r)' = run[r].left + Handed(r)
    BY <1>1, <1>8, <2>2 DEF Select, Mapped, Loop, Handed
  <2>4. run'[r].target >= 1
    BY <2>2 DEF Shape
  <2> QED BY <1>8, <2>2, <2>3, <2>4 DEF Select, Mapped, Loop, Waits, Over
<1>9. CASE Insert(r) \/ InsertFails(r) \/ InsertUnheard(r)
  <2>1. run[r].phase = "store" /\ run[r].hand # NoEvent
    BY <1>9 DEF Insert, InsertFails, InsertUnheard, Shape
  <2>2. /\ run'[r].phase = "store" /\ run'[r].hand = NoEvent
        /\ run'[r].target = run[r].target
        /\ run'[r].left + 1 = run[r].left + Handed(r)
    BY <1>1, <1>9, <2>1 DEF Insert, InsertFails, InsertUnheard, Handed, TypeOK, Run
  <2>3. CASE Insert(r)
    <3>1. tally' = Count(r, {"processed"} \cup {})
      BY <2>3 DEF Insert
    <3>2. CountsOne(r, "processed") /\ Adds(r, {})
      BY <3>1, CountingOne DEF Beside
    <3>3. NewRow(r) /\ run'[r].poisoned = run[r].poisoned
      BY <1>1, <2>3 DEF Insert, KnownRow, NewRow, TypeOK, Run
    <3>4. Blames(r)
      BY <3>2, <3>3 DEF Blames
    <3> QED BY <2>1, <2>2, <3>2, <3>3, <3>4 DEF Settles
  <2>4. CASE InsertFails(r)
    <3>1. PICK cause \in {"errors", "outages"} :
            tally' = Count(r, {"quarantined"} \cup {"lost", cause})
      <4>1. \A cause : {"quarantined", "lost", cause} =
                          {"quarantined"} \cup {"lost", cause}
        OBVIOUS
      <4> QED BY <2>4, <4>1 DEF InsertFails
    <3>2. CountsOne(r, "quarantined") /\ Adds(r, {"lost", cause})
      BY <3>1, CountingOne DEF Beside
    <3>3. Blames(r)
      BY <3>1, <3>2 DEF Blames, Beside
    <3> QED BY <2>1, <2>2, <2>4, <3>2, <3>3 DEF InsertFails, Settles
  <2>5. CASE InsertUnheard(r)
    <3>1. {"quarantined", "outages"} = {"quarantined"} \cup {"outages"}
      OBVIOUS
    <3>2. CountsOne(r, "quarantined") /\ Adds(r, {"outages"})
      BY <2>5, <3>1, CountingOne DEF InsertUnheard, Beside
    <3>3. Blames(r)
      BY <3>2 DEF Blames, Beside
    <3>4. NewRow(r) /\ tally'[r].outages = tally[r].outages + 1
      BY <2>5, <3>2 DEF InsertUnheard, KnownRow, NewRow, Adds, Beside
    <3> QED BY <2>1, <2>2, <3>2, <3>3, <3>4 DEF Settles
  <2> QED BY <1>9, <2>3, <2>4, <2>5
<1>10. CASE Drain(r)
  <2>1. /\ run[r].phase = "store" /\ run[r].hand = NoEvent /\ run[r].left = 0
        /\ UNCHANGED <<source, tally, table>>
    BY <1>10 DEF Drain
  <2>2. CASE ~Collects /\ MoreTargets(r)
    <3>1. run'[r] = [run[r] EXCEPT !.phase = "fetch", !.target = @ + 1,
                                  !.attempt = 0]
      BY <1>10, <2>2 DEF Drain, TypeOK
    <3>2. /\ run'[r].phase = "fetch" /\ run'[r].target = run[r].target + 1
          /\ run'[r].left = 0 /\ run'[r].hand = NoEvent
          /\ run'[r].poisoned = run[r].poisoned
      BY <1>1, <2>1, <3>1 DEF Run
    <3>3. source \notin {"usgs", "acled"}
      BY <1>1, <2>2
      DEF Collects, MoreTargets, LastTarget, Loops, UsgsLoop, AcledLoop, Shape, Run
    <3>4. run'[r].target >= 1
      BY <1>1, <3>2 DEF Shape, Run
    <3> QED BY <2>1, <3>2, <3>3, <3>4 DEF Waits, Handed, Over
  <2>3. CASE ~(~Collects /\ MoreTargets(r))
    <3>1. run'[r] = Ended(run[r], "done")
      BY <1>10, <2>3 DEF Drain, TypeOK
    <3>2. /\ run'[r].phase = "done" /\ run'[r].target = 1
          /\ run'[r].left = 0 /\ run'[r].hand = NoEvent /\ ~run'[r].poisoned
      BY <1>1, <3>1, EndedIsRun
    <3> QED BY <2>1, <3>2 DEF Waits, Handed, Over
  <2> QED BY <2>2, <2>3
<1> QED
  BY <1>4, <1>5, <1>6, <1>7, <1>8, <1>9, <1>10, <1>12 DEF Store

LEMMA InterruptKinds ==
  ASSUME TypeOK, NEW r \in Runs, Shape(r), Interrupt(r)
  PROVE  Waits(r) \/ Settles(r)
<1>1. run[r] \in Run
  BY DEF TypeOK
<1>2. CASE AlarmInRequest(r)
  <2>1. /\ source \notin {"usgs", "acled"} /\ run[r].phase = "fetch"
        /\ run[r].hand = NoEvent /\ UNCHANGED <<tally, table>>
    BY <1>2 DEF AlarmInRequest, MayAlarm, Shape
  <2> DEFINE again == [run[r] EXCEPT !.alarmed = TRUE,
                                     !.attempt = run[r].attempt + 1]
             on    == [run[r] EXCEPT !.alarmed = TRUE]
  <2>2. /\ again.phase = "fetch" /\ again.target = run[r].target
        /\ again.left = run[r].left /\ again.hand = NoEvent
        /\ again.poisoned = run[r].poisoned
    BY <1>1, <2>1 DEF Run
  <2>3. /\ on \in Run /\ on.target = run[r].target
        /\ on.left = run[r].left /\ on.hand = NoEvent
        /\ on.poisoned = run[r].poisoned
    BY <1>1, <2>1 DEF Run
  <2>4. run'[r] \in {again, Turn(r, 0, on)}
    BY <1>2 DEF AlarmInRequest, TypeOK
  <2> HIDE DEF again, on
  <2>5. /\ run'[r].phase \in {"fetch", "store"}
        /\ run'[r].target \in {run[r].target, run[r].target + 1}
        /\ run'[r].left = run[r].left /\ run'[r].hand = NoEvent
        /\ run'[r].poisoned = run[r].poisoned
    BY <2>2, <2>3, <2>4, TurnIsRun
  <2>6. run'[r].target >= 1
    BY <1>1, <2>5 DEF Shape, Run
  <2> QED BY <2>1, <2>5, <2>6 DEF Waits, Handed, Over
<1>3. CASE AlarmInRecord(r)
  <2>1. /\ run[r].phase = "store" /\ run[r].hand # NoEvent /\ ~run[r].alarmed
    BY <1>3 DEF AlarmInRecord, MayAlarm, Shape
  <2>2. /\ run'[r].phase = "store" /\ run'[r].hand = NoEvent
        /\ run'[r].target = run[r].target /\ run'[r].alarmed
        /\ run'[r].left + 1 = run[r].left + Handed(r)
    BY <1>1, <1>3, <2>1 DEF AlarmInRecord, Handed, TypeOK, Run
  <2>3. PICK cs \in {{"errors"}, {"lost", "errors"}} :
          /\ tally' = Count(r, {"quarantined"} \cup cs)
          /\ NewRow(r) \/ table' = table
    <3>1. /\ {"quarantined", "errors"} = {"quarantined"} \cup {"errors"}
          /\ {"quarantined", "lost", "errors"} = {"quarantined"} \cup {"lost", "errors"}
      OBVIOUS
    <3> QED BY <1>3, <3>1 DEF AlarmInRecord, NewRow, KnownRow
  <2>4. CountsOne(r, "quarantined") /\ Adds(r, cs)
    BY <2>3, CountingOne DEF Beside
  <2>5. Blames(r)
    BY <2>3, <2>4 DEF Blames, Beside
  <2> QED BY <2>1, <2>2, <2>3, <2>4, <2>5 DEF Settles
<1>4. CASE AlarmInMapper(r) \/ AlarmInReject(r)
  <2>1. /\ run[r].phase = "store" /\ run[r].hand = NoEvent /\ table' = table
        /\ run[r].left > 0
    BY <1>4 DEF AlarmInMapper, AlarmInReject, Loop
  <2>2. /\ run'[r].phase = "store" /\ run'[r].hand = NoEvent
        /\ run'[r].target = run[r].target
        /\ run'[r].left + 1 = run[r].left + Handed(r)
    BY <1>1, <1>4, <2>1 DEF AlarmInMapper, AlarmInReject, Handling, Handed, TypeOK, Run
  <2>3. PICK cs \in {{"lost", "errors"}, {"unfiled", "errors"}} :
          /\ tally' = Count(r, {"quarantined"} \cup cs)
          /\ "unfiled" \in cs => AlarmInReject(r)
    <3>1. /\ {"quarantined", "lost", "errors"} = {"quarantined"} \cup {"lost", "errors"}
          /\ {"quarantined", "unfiled", "errors"} =
               {"quarantined"} \cup {"unfiled", "errors"}
      OBVIOUS
    <3>2. CASE AlarmInMapper(r)
      BY <3>1, <3>2 DEF AlarmInMapper
    <3>3. CASE AlarmInReject(r)
      BY <3>1, <3>3 DEF AlarmInReject
    <3> QED BY <1>4, <3>2, <3>3
  <2>4. CountsOne(r, "quarantined") /\ Adds(r, cs)
    BY <2>3, CountingOne DEF Beside
  <2>5. "unfiled" \in cs => run'[r].poisoned = FALSE
    BY <1>1, <2>3 DEF AlarmInReject, Handling, TypeOK, Run
  <2>6. Blames(r)
    BY <2>3, <2>4, <2>5 DEF Blames, Beside
  <2> QED BY <2>1, <2>2, <2>4, <2>6 DEF Settles
<1>5. CASE AlarmBetween(r) \/ Kill(r)
  <2>1. /\ UNCHANGED <<tally, table>> /\ run[r].phase \in Active
        /\ source \in {"usgs", "acled"} => ~AlarmBetween(r)
    BY <1>5 DEF AlarmBetween, MayAlarm, Kill
  <2>2. PICK phase \in Over, state \in Run : run'[r] = Ended(state, phase)
    <3>1. [run[r] EXCEPT !.alarmed = TRUE] \in Run
      BY <1>1 DEF Run
    <3> QED BY <1>1, <1>5, <3>1 DEF AlarmBetween, Kill, TypeOK, Over
  <2>3. /\ run'[r].phase \in Over /\ run'[r].target = 1
        /\ run'[r].hand = NoEvent /\ ~run'[r].poisoned
    BY <2>2, EndedIsRun DEF Over
  <2>4. CASE AlarmBetween(r)
    BY <2>1, <2>3, <2>4 DEF Waits, Active, Over
  <2>5. CASE Kill(r)
    <3>1. run'[r].phase = "killed"
      BY <1>1, <2>5, EndedIsRun DEF Kill, TypeOK
    <3> QED BY <2>1, <2>3, <3>1 DEF Waits, Active, Over
  <2> QED BY <1>5, <2>4, <2>5
<1> QED BY <1>2, <1>3, <1>4, <1>5 DEF Interrupt

LEMMA StepKinds ==
  ASSUME TypeOK, NEW r \in Runs, Shape(r), RunStep(r)
  PROVE  Waits(r) \/ Answered(r) \/ Settles(r)
  BY RequestKinds, StoreKinds, InterruptKinds DEF RunStep

-----------------------------------------------------------------------------
(***************************************************************************)
(* The inductive invariant.  Each property is inductive only with Shape,   *)
(* and with what it says of the states a run can still leave.              *)
(***************************************************************************)
Balanced(r) ==
  run[r].phase \notin Over =>
    /\ Settled(r) + run[r].left + Handed(r) <= tally[r].fetched
    /\ source # "military" =>
         Settled(r) + run[r].left + Handed(r) = tally[r].fetched

(* The rows of a run are counted, but for those an alarm or an outage hid. *)
Hidden(r) == tally[r].outages + (IF run[r].alarmed THEN 1 ELSE 0)

RowsCounted(r) ==
  /\ IsFiniteSet(RowsBy(r))
  /\ tally[r].processed <= Cardinality(RowsBy(r))
  /\ Cardinality(RowsBy(r)) <= tally[r].processed + Hidden(r)

(* What may lose an event later has failed already.                        *)
Excused(r) ==
  /\ tally[r].lost > 0 => Failed(r) > 0
  /\ tally[r].unfiled + Dirty(r) <= Failed(r)

(* A run that collects has stored nothing as long as it asks.              *)
NothingYet(r) ==
  /\ source \in {"usgs", "acled"}
  /\ run[r].phase \in {"idle", "fetch", "failed"}
  => RowsBy(r) = {} /\ Settled(r) = 0

IInv ==
  /\ TypeOK
  /\ \A r \in Runs : /\ Shape(r)
                     /\ Balanced(r)
                     /\ RowsCounted(r)
                     /\ Excused(r)
                     /\ NothingYet(r)

LEMMA CountsAreNatural ==
  ASSUME TypeOK, NEW r \in Runs
  PROVE  /\ \A c \in Counters : tally[r][c] \in Nat
         /\ Settled(r) \in Nat
         /\ run[r].left \in Nat /\ run[r].target \in Nat
         /\ Handed(r) \in {0, 1}
  BY DEF TypeOK, Run, Settled, Handed, Counters

(* A new row is one more of its run, and none of any other. *)
LEMMA NewRowsBy ==
  ASSUME TypeOK, NEW r \in Runs, NewRow(r)
  PROVE  /\ run[r].hand.key \notin RowsBy(r)
         /\ RowsBy(r)' = RowsBy(r) \cup {run[r].hand.key}
         /\ \A o \in Runs \ {r} : RowsBy(o)' = RowsBy(o)
<1>1. run[r].hand.key \in Keys /\ RowOf(r) # NoRow /\ RowOf(r).by = r
  BY NewRowIsRow
<1> QED BY <1>1 DEF NewRow, RowsBy, TypeOK

LEMMA SettlingOne ==
  ASSUME TypeOK, TypeOK', NEW r \in Runs,
         NEW c \in {"processed", "duplicates", "quarantined", "skipped"},
         CountsOne(r, c)
  PROVE  /\ Settled(r)' = Settled(r) + 1
         /\ tally'[r].fetched = tally[r].fetched
<1>1. /\ tally[r].processed \in Nat /\ tally[r].duplicates \in Nat
      /\ tally[r].quarantined \in Nat /\ tally[r].skipped \in Nat
  BY CountsAreNatural DEF Counters
<1> QED BY <1>1 DEF CountsOne, Settled

LEMMA KeepsShape ==
  ASSUME TypeOK, NEW r \in Runs, Shape(r),
         Waits(r) \/ Answered(r) \/ Settles(r)
  PROVE  Shape(r)'
  BY CountsAreNatural DEF Shape, Waits, Answered, Settles

LEMMA KeepsBalance ==
  ASSUME TypeOK, TypeOK', source' = source, NEW r \in Runs, Balanced(r),
         Waits(r) \/ Answered(r) \/ Settles(r)
  PROVE  Balanced(r)'
<1>1. /\ Settled(r) \in Nat /\ run[r].left \in Nat /\ Handed(r) \in {0, 1}
      /\ Settled(r)' \in Nat /\ run'[r].left \in Nat /\ Handed(r)' \in {0, 1}
      /\ tally[r].fetched \in Nat /\ tally'[r].fetched \in Nat
  BY DEF TypeOK, Run, Settled, Handed, Counters
<1>2. CASE Waits(r)
  BY <1>1, <1>2 DEF Waits, Balanced, Settled
<1>3. CASE Answered(r)
  <2>1. PICK n \in Nat, kept \in Nat, repeated \in Nat :
          /\ kept + repeated <= n
          /\ source # "military" => kept = n
          /\ run'[r].left = run[r].left + kept
          /\ tally'[r].fetched = tally[r].fetched + n
          /\ tally'[r].duplicates = tally[r].duplicates + repeated
    BY <1>3 DEF Answered
  <2>2. Settled(r)' = Settled(r) + repeated
    BY <1>3, <2>1, CountsAreNatural DEF Answered, Settled, Counters
  <2>3. Handed(r) = 0 /\ Handed(r)' = 0 /\ run[r].phase \notin Over
    BY <1>3 DEF Answered, Handed, Over
  <2> QED BY <1>1, <2>1, <2>2, <2>3 DEF Balanced
<1>4. CASE Settles(r)
  <2>1. Settled(r)' = Settled(r) + 1 /\ tally'[r].fetched = tally[r].fetched
    BY <1>4, SettlingOne DEF Settles
  <2>2. Handed(r)' = 0 /\ run[r].phase \notin Over
    BY <1>4 DEF Settles, Handed, Over
  <2> QED BY <1>1, <1>4, <2>1, <2>2 DEF Settles, Balanced
<1> QED BY <1>2, <1>3, <1>4

LEMMA KeepsRowsCounted ==
  ASSUME TypeOK, TypeOK', NEW r \in Runs, RowsCounted(r), OfRun(r),
         Waits(r) \/ Answered(r) \/ Settles(r)
  PROVE  RowsCounted(r)'
<1>1. /\ run[r].alarmed => run'[r].alarmed
      /\ \A c \in Counters : tally[r][c] \in Nat /\ tally'[r][c] \in Nat
  BY CountsAreNatural DEF OfRun, TypeOK
<1>2. tally'[r].outages \in {tally[r].outages, tally[r].outages + 1}
  <2>1. CASE Waits(r) \/ Answered(r)
    BY <2>1 DEF Waits, Answered, Beside
  <2>2. CASE Settles(r)
    BY <2>2 DEF Settles, Blames, Adds, Beside
  <2> QED BY <2>1, <2>2
<1>3. CASE table' = table /\ tally'[r].processed = tally[r].processed
  <2>1. RowsBy(r)' = RowsBy(r)
    BY <1>3 DEF RowsBy
  <2>2. Hidden(r) <= Hidden(r)'
    BY <1>1, <1>2 DEF Hidden, Counters
  <2>3. Hidden(r) \in Nat /\ Hidden(r)' \in Nat
    BY <1>1 DEF Hidden, Counters
  <2>4. Cardinality(RowsBy(r)) \in Nat
    BY FS_CardinalityType DEF RowsCounted
  <2> QED BY <1>1, <1>3, <2>1, <2>2, <2>3, <2>4 DEF RowsCounted, Counters
<1>4. CASE NewRow(r) /\ Settles(r)
  <2>1. /\ IsFiniteSet(RowsBy(r)')
        /\ Cardinality(RowsBy(r)') = Cardinality(RowsBy(r)) + 1
    BY <1>4, NewRowsBy, FS_AddElement DEF RowsCounted
  <2>2. \/ tally'[r].processed = tally[r].processed + 1
        \/ /\ tally'[r].processed = tally[r].processed
           /\ \/ ~run[r].alarmed /\ run'[r].alarmed
              \/ tally'[r].outages = tally[r].outages + 1
    <3>1. table' # table
      BY <1>4, NewRowIsRow DEF NewRow, TypeOK
    <3> QED BY <1>4, <3>1 DEF Settles, CountsOne
  <2>3. /\ Hidden(r) \in Nat /\ Hidden(r)' \in Nat
        /\ Hidden(r) <= Hidden(r)'
        /\ \/ tally'[r].processed = tally[r].processed + 1
           \/ /\ tally'[r].processed = tally[r].processed
              /\ Hidden(r) + 1 <= Hidden(r)'
    BY <1>1, <1>2, <2>2 DEF Hidden, Counters
  <2>4. Cardinality(RowsBy(r)) \in Nat
    BY FS_CardinalityType DEF RowsCounted
  <2> QED BY <1>1, <2>1, <2>3, <2>4 DEF RowsCounted, Counters
<1>5. CASE Waits(r) \/ Answered(r)
  BY <1>3, <1>5 DEF Waits, Answered
<1>6. CASE Settles(r) /\ ~NewRow(r)
  <2>1. table' = table /\ tally'[r].processed = tally[r].processed
    BY <1>6 DEF Settles, CountsOne
  <2> QED BY <1>3, <2>1
<1> QED BY <1>4, <1>5, <1>6

LEMMA KeepsExcused ==
  ASSUME TypeOK, TypeOK', NEW r \in Runs, Excused(r),
         Waits(r) \/ Answered(r) \/ Settles(r)
  PROVE  Excused(r)'
<1>1. /\ \A c \in Counters : tally[r][c] \in Nat /\ tally'[r][c] \in Nat
      /\ run[r].poisoned \in BOOLEAN /\ run'[r].poisoned \in BOOLEAN
  BY CountsAreNatural DEF TypeOK, Run
<1>2. CASE Waits(r) \/ Answered(r)
  <2>1. \A c \in Beside : tally'[r][c] = tally[r][c]
    BY <1>2 DEF Waits, Answered
  <2>2. Failed(r)' = Failed(r)
    BY <2>1 DEF Failed, Beside
  <2>3. Dirty(r)' <= Dirty(r) /\ Dirty(r) \in Nat /\ Dirty(r)' \in Nat
    BY <1>2 DEF Dirty, Waits, Answered
  <2> QED BY <1>1, <2>1, <2>2, <2>3 DEF Excused, Failed, Beside, Counters
<1>3. CASE Settles(r)
  <2>1. PICK cs \in SUBSET Beside :
          /\ Adds(r, cs)
          /\ ~({"errors", "outages"} \subseteq cs)
          /\ "lost" \in cs => run[r].poisoned \/ cs \cap {"errors", "outages"} # {}
          /\ \/ /\ cs \cap {"errors", "outages"} # {}
                /\ "unfiled" \in cs => run'[r].poisoned = FALSE
             \/ run'[r].poisoned = run[r].poisoned /\ "unfiled" \notin cs
             \/ run'[r].poisoned = FALSE /\ ("unfiled" \in cs => run[r].poisoned)
    BY <1>3 DEF Settles, Blames
  <2> DEFINE fails == "errors" \in cs \/ "outages" \in cs
             lost == "lost" \in cs
             unfiled == "unfiled" \in cs
  <2>2. /\ Failed(r) \in Nat
        /\ Failed(r)' = IF fails THEN Failed(r) + 1 ELSE Failed(r)
    BY <1>1, <2>1 DEF Failed, Adds, Beside, Counters
  <2>3. /\ tally'[r].lost = IF lost THEN tally[r].lost + 1 ELSE tally[r].lost
        /\ tally'[r].unfiled = IF unfiled THEN tally[r].unfiled + 1
                               ELSE tally[r].unfiled
    BY <2>1 DEF Adds, Beside
  <2>4. /\ lost => run[r].poisoned \/ fails
        /\ \/ fails /\ (unfiled => ~run'[r].poisoned)
           \/ run'[r].poisoned = run[r].poisoned /\ ~unfiled
           \/ ~run'[r].poisoned /\ (unfiled => run[r].poisoned)
    BY <2>1
  <2>5. tally[r].lost \in Nat /\ tally[r].unfiled \in Nat
    BY <1>1 DEF Counters
  <2> HIDE DEF fails, lost, unfiled
  <2>6. tally'[r].lost > 0 => Failed(r)' > 0
    BY <2>2, <2>3, <2>4, <2>5 DEF Excused, Dirty
  <2>7. tally'[r].unfiled + Dirty(r)' <= Failed(r)'
    BY <1>1, <2>2, <2>3, <2>4, <2>5 DEF Excused, Dirty
  <2> QED BY <2>6, <2>7 DEF Excused
<1> QED BY <1>2, <1>3

(* The rows and steps of another run do not spoil what a run has. *)
LEMMA OthersKeep ==
  ASSUME TypeOK, NEW o \in Runs, OfRun(o), NEW r \in Runs \ {o},
         Shape(r), Balanced(r), RowsCounted(r), Excused(r), NothingYet(r)
  PROVE  /\ Shape(r)'
         /\ Balanced(r)'
         /\ RowsCounted(r)'
         /\ Excused(r)'
         /\ NothingYet(r)'
<1>1. run'[r] = run[r] /\ tally'[r] = tally[r] /\ source' = source
  BY DEF OfRun, TypeOK
<1>2. RowsBy(r)' = RowsBy(r)
  <2>1. CASE table' = table
    BY <2>1 DEF RowsBy
  <2>2. CASE NewRow(o)
    BY <2>2, NewRowsBy
  <2> QED BY <2>1, <2>2 DEF OfRun
<1>3. Shape(r)' /\ Balanced(r)' /\ RowsCounted(r)' /\ NothingYet(r)'
  BY <1>1, <1>2
  DEF Shape, Balanced, RowsCounted, Hidden, NothingYet, Settled, Handed
<1>4. Excused(r)'
  BY <1>1 DEF Excused, Failed, Dirty
<1> QED BY <1>3, <1>4

LEMMA KeepsNothingYet ==
  ASSUME TypeOK, TypeOK', NEW r \in Runs, NothingYet(r), OfRun(r),
         Waits(r) \/ Answered(r) \/ Settles(r)
  PROVE  NothingYet(r)'
<1> SUFFICES ASSUME source' \in {"usgs", "acled"},
                    run'[r].phase \in {"idle", "fetch", "failed"}
             PROVE  RowsBy(r)' = {} /\ Settled(r)' = 0
  BY DEF NothingYet
<1>1. source' = source
  BY DEF OfRun
<1>2. CASE Waits(r)
  <2>1. run'[r].phase # "idle"
    BY <1>2 DEF Waits
  <2>2. run[r].phase \in {"idle", "fetch", "failed"}
    BY <1>1, <1>2, <2>1 DEF Waits
  <2>3. RowsBy(r)' = RowsBy(r) /\ Settled(r)' = Settled(r)
    BY <1>2 DEF Waits, RowsBy, Settled
  <2> QED BY <1>1, <2>2, <2>3 DEF NothingYet
<1>3. CASE Answered(r)
  <2>1. PICK n \in Nat, kept \in Nat, repeated \in Nat :
          /\ kept + repeated <= n
          /\ source # "military" => kept = n
          /\ tally'[r].duplicates = tally[r].duplicates + repeated
    BY <1>3 DEF Answered
  <2>2. repeated = 0
    BY <1>1, <2>1
  <2>3. Settled(r)' = Settled(r)
    BY <1>3, <2>1, <2>2, CountsAreNatural DEF Answered, Settled, Counters
  <2>4. RowsBy(r)' = RowsBy(r)
    BY <1>3 DEF Answered, RowsBy
  <2> QED BY <1>1, <1>3, <2>3, <2>4 DEF Answered, NothingYet
<1>4. CASE Settles(r)
  BY <1>4 DEF Settles
<1> QED BY <1>2, <1>3, <1>4

LEMMA NextIInv == IInv /\ [Next]_vars => IInv'
<1> SUFFICES ASSUME IInv, [Next]_vars PROVE IInv'
  OBVIOUS
<1>1. TypeOK /\ TypeOK'
  BY NextTypeOK DEF IInv
<1>2. ASSUME NEW o \in Runs, RunStep(o) PROVE IInv'
  <2>1. OfRun(o) /\ (Waits(o) \/ Answered(o) \/ Settles(o)) /\ source' = source
    BY <1>1, <1>2, StepOfRun, StepKinds DEF IInv, OfRun
  <2>2. /\ Shape(o)' /\ Balanced(o)' /\ RowsCounted(o)'
        /\ Excused(o)' /\ NothingYet(o)'
    BY <1>1, <2>1, KeepsShape, KeepsBalance, KeepsRowsCounted, KeepsExcused,
       KeepsNothingYet
    DEF IInv
  <2>3. ASSUME NEW r \in Runs \ {o}
        PROVE  /\ Shape(r)' /\ Balanced(r)' /\ RowsCounted(r)'
               /\ Excused(r)' /\ NothingYet(r)'
    BY <1>1, <2>1, OthersKeep DEF IInv
  <2> QED BY <1>1, <2>2, <2>3 DEF IInv
<1>3. CASE UNCHANGED <<source, run, tally, table>>
  <2>1. ASSUME NEW r \in Runs
        PROVE  /\ Shape(r)' = Shape(r)
               /\ RowsBy(r)' = RowsBy(r)
               /\ Settled(r)' = Settled(r)
               /\ Handed(r)' = Handed(r)
    BY <1>3 DEF Shape, RowsBy, Settled, Handed
  <2>2. ASSUME NEW r \in Runs
        PROVE  /\ Balanced(r)' = Balanced(r)
               /\ RowsCounted(r)' = RowsCounted(r)
               /\ NothingYet(r)' = NothingYet(r)
               /\ Excused(r)' = Excused(r)
    BY <1>3, <2>1
    DEF Balanced, RowsCounted, Hidden, NothingYet, Excused, Failed, Dirty
  <2> QED BY <1>1, <2>1, <2>2 DEF IInv
<1> QED
  BY <1>2, <1>3 DEF Next, RunStep, DetectThermal, vars

LEMMA InitIInv == Init => IInv
<1> SUFFICES ASSUME Init PROVE IInv
  OBVIOUS
<1>1. TypeOK
  BY DEF Init, TypeOK, Idle, Run
<1>2. ASSUME NEW r \in Runs
      PROVE  /\ RowsBy(r) = {} /\ run[r] = Idle
             /\ \A c \in Counters : tally[r][c] = 0
  BY DEF Init, RowsBy
<1>3. IsFiniteSet({}) /\ Cardinality({}) = 0
  BY FS_EmptySet
<1> QED
  BY <1>1, <1>2, <1>3
  DEF IInv, Idle, Shape, Balanced, RowsCounted, Hidden, Excused, Failed, Dirty,
      NothingYet, Settled, Handed, Counters, Over

THEOREM Invariance == Spec => []IInv
<1> QED BY InitIInv, NextIInv, PTL DEF Spec

-----------------------------------------------------------------------------
(* Through every retry, error and alarm each record a run has fetched is   *)
(* to be handled still or in exactly one count.                            *)
THEOREM EveryRecordCounted == Spec => []CountsAccount
<1>1. IInv => CountsAccount
  BY DEF IInv, Balanced, CountsAccount, Over
<1> QED BY <1>1, Invariance, PTL

(* However runs overlap, "processed" counts the rows of the run itself.    *)
THEOREM ProcessedMeansStored == Spec => []ProcessedIsStored
<1>1. IInv => ProcessedIsStored
  <2> SUFFICES ASSUME IInv, NEW r \in Runs
               PROVE  \E hidden \in 0 .. Hidden(r) :
                        Cardinality(RowsBy(r)) = tally[r].processed + hidden
    BY DEF ProcessedIsStored, Hidden
  <2>1. RowsCounted(r) /\ tally[r].processed \in Nat /\ Hidden(r) \in Nat
    BY CountsAreNatural DEF IInv, Hidden, Counters
  <2>2. Cardinality(RowsBy(r)) \in Nat
    BY <2>1, FS_CardinalityType DEF RowsCounted
  <2> DEFINE hidden == Cardinality(RowsBy(r)) - tally[r].processed
  <2>3. hidden \in 0 .. Hidden(r) /\ Cardinality(RowsBy(r)) = tally[r].processed + hidden
    BY <2>1, <2>2 DEF RowsCounted
  <2> QED BY <2>3
<1> QED BY <1>1, Invariance, PTL

(* Behind every loss there is a failure, and each failure costs at most    *)
(* one refused record its row, whatever the source and whatever failed.    *)
THEOREM LossesExplained == Spec => []LossExplained
<1>1. IInv => LossExplained
  BY DEF IInv, Excused, LossExplained
<1> QED BY <1>1, Invariance, PTL

(* A failed run that collects first has stored and settled nothing.        *)
THEOREM AllOrNothing == Spec => []CollectedOrNothing
<1>1. IInv => CollectedOrNothing
  BY DEF IInv, NothingYet, CollectedOrNothing
<1> QED BY <1>1, Invariance, PTL

(* The thermal job stores nothing, wherever the conflicts are, whatever    *)
(* its docstring says of classifying hotspots and inserting events.        *)
THEOREM NoAnomalies == Spec => []ThermalFindsNothing
<1>1. Init => ThermalFindsNothing
  BY DEF Init, ThermalFindsNothing
<1>2. ASSUME TypeOK, ThermalFindsNothing, [Next]_vars
      PROVE  ThermalFindsNothing'
  <2>1. CASE DetectThermal
    BY <1>2, <2>1 DEF DetectThermal, FireHistory, ThermalFindsNothing
  <2>2. ASSUME NEW r \in Runs, RunStep(r) PROVE ThermalFindsNothing'
    BY <1>2, <2>2, StepOfRun DEF OfRun, ThermalFindsNothing
  <2>3. CASE UNCHANGED vars
    BY <1>2, <2>3 DEF vars, ThermalFindsNothing
  <2> QED BY <1>2, <2>1, <2>2, <2>3 DEF Next, RunStep
<1> QED BY <1>1, <1>2, TypeCorrect, PTL DEF Spec

-----------------------------------------------------------------------------
(***************************************************************************)
(* EventIngestion implements EventStore.                                   *)
(***************************************************************************)

(* Only the run that steps reports anything new.                           *)
LEMMA ReportOfRun ==
  ASSUME TypeOK, NEW r \in Runs, OfRun(r)
  PROVE  \A o \in Runs \ {r} : Reported(o)' = Reported(o)
  BY DEF OfRun, TypeOK, Reported

LEMMA WaitingStutters ==
  ASSUME TypeOK, NEW r \in Runs, OfRun(r), Waits(r)
  PROVE  UNCHANGED Promise!vars
  BY DEF Waits, Stored, Reported, Promise!vars

LEMMA AnswerStutters ==
  ASSUME TypeOK, NEW r \in Runs, OfRun(r), Answered(r)
  PROVE  UNCHANGED Promise!vars
<1>1. Stored' = Stored
  BY DEF Answered, Stored
<1>2. tally'[r].duplicates - tally'[r].repeated =
        tally[r].duplicates - tally[r].repeated
  BY CountsAreNatural DEF Answered, Counters
<1>3. Reported(r)' = Reported(r)
  BY <1>2 DEF Answered, Reported
<1> QED BY <1>1, <1>3, ReportOfRun DEF Promise!vars

LEMMA SettlingIsPromised ==
  ASSUME TypeOK, NEW r \in Runs, OfRun(r), Settles(r)
  PROVE  Promise!Next
<1>1. /\ \A c \in Counters : tally[r][c] \in Nat
      /\ \A o \in Runs \ {r} : Reported(o)' = Reported(o)
  BY CountsAreNatural, ReportOfRun
<1>2. ASSUME NewRow(r)
      PROVE  \E k \in Keys \ Stored : Stored' = Stored \cup {k}
  <2>1. run[r].hand.key \in Keys /\ RowOf(r) # NoRow
    BY <1>2, NewRowIsRow
  <2> QED BY <1>2, <2>1 DEF NewRow, Stored, TypeOK
<1>3. CASE CountsOne(r, "processed") /\ NewRow(r)
  <2>1. Reported(r)' = [Reported(r) EXCEPT !.new = Reported(r).new + 1]
    BY <1>1, <1>3 DEF CountsOne, Reported
  <2> QED
    BY <1>1, <1>2, <1>3, <2>1 DEF Promise!Next, Promise!StoreNew
<1>4. CASE /\ CountsOne(r, "duplicates") /\ table' = table
           /\ \E k \in Keys : table[k] # NoRow
  <2>1. (tally[r].duplicates + 1) - tally[r].repeated =
          (tally[r].duplicates - tally[r].repeated) + 1
    BY <1>1 DEF Counters
  <2>2. Reported(r)' = [Reported(r) EXCEPT !.known = Reported(r).known + 1]
    BY <1>4, <2>1 DEF CountsOne, Reported
  <2>3. Stored' = Stored /\ \E k \in Keys : k \in Stored
    BY <1>4 DEF Stored
  <2> QED
    BY <1>1, <2>2, <2>3 DEF Promise!Next, Promise!FindKnown
<1>5. CASE /\ CountsOne(r, "quarantined") \/ CountsOne(r, "skipped")
           /\ table' = table \/ NewRow(r)
  <2>1. tally'[r].quarantined + tally'[r].skipped =
          (tally[r].quarantined + tally[r].skipped) + 1
    BY <1>1, <1>5 DEF CountsOne, Counters
  <2>2. Reported(r)' = [Reported(r) EXCEPT !.refused = Reported(r).refused + 1]
    BY <1>5, <2>1 DEF CountsOne, Reported
  <2>3. CASE table' = table
    <3>1. Stored' = Stored
      BY <2>3 DEF Stored
    <3> QED BY <1>1, <2>2, <3>1 DEF Promise!Next, Promise!Refuse
  <2>4. CASE NewRow(r)
    BY <1>1, <1>2, <2>2, <2>4 DEF Promise!Next, Promise!StoreInterrupted
  <2> QED BY <1>5, <2>3, <2>4
<1> QED BY <1>3, <1>4, <1>5 DEF Settles

LEMMA NextIsPromised == IInv /\ [Next]_vars => [Promise!Next]_(Promise!vars)
<1> SUFFICES ASSUME IInv, [Next]_vars
             PROVE  Promise!Next \/ UNCHANGED Promise!vars
  OBVIOUS
<1>1. ASSUME NEW r \in Runs, RunStep(r)
      PROVE  Promise!Next \/ UNCHANGED Promise!vars
  <2>1. TypeOK /\ OfRun(r) /\ (Waits(r) \/ Answered(r) \/ Settles(r))
    BY <1>1, StepOfRun, StepKinds DEF IInv
  <2> QED BY <2>1, WaitingStutters, AnswerStutters, SettlingIsPromised
<1>2. CASE UNCHANGED <<tally, table>>
  BY <1>2 DEF Promise!vars, Stored, Reported
<1> QED BY <1>1, <1>2 DEF Next, RunStep, DetectThermal, vars

(* However the requests, records, alarms and kills of several runs         *)
(* interleave, what they store and report is a behaviour of EventStore.    *)
THEOREM ImplementsEventStore == Spec => StoresAsPromised
<1>1. Init => Promise!Init
  BY DEF Init, Promise!Init, Promise!Zero, Stored, Reported, Counters
<1> QED
  BY <1>1, Invariance, NextIsPromised, PTL
  DEF Spec, StoresAsPromised, Promise!Spec

-----------------------------------------------------------------------------
(***************************************************************************)
(* Severity.                                                               *)
(***************************************************************************)

(* A reading with one bracket gets the severity of it.                     *)
LEMMA OneBracket ==
  ASSUME NEW rows, NEW x, NEW row, Brackets(rows, x) = {row}
  PROVE  /\ Graded(rows, x) = row.severity
         /\ Cardinality(Brackets(rows, x)) = 1
<1>1. (CHOOSE b \in Brackets(rows, x) : TRUE) \in Brackets(rows, x)
  OBVIOUS
<1>2. Graded(rows, x) = row.severity
  BY <1>1 DEF Graded
<1> QED BY <1>2, FS_Singleton

LEMMA FarAway == Far \in Int /\ Far > 1000000
  BY SMT DEF Far

(* Each table as a step function, over all the readings it covers: one     *)
(* bracket for each, so no gap between two rows and no overlap.            *)
LEMMA MagnitudeSteps ==
  ASSUME NEW x \in 0 .. Far - 1
  PROVE  /\ Cardinality(Brackets(MagnitudeTable, x)) = 1
         /\ Graded(MagnitudeTable, x) =
              IF x < 40 THEN 10 ELSE IF x < 50 THEN 20
              ELSE IF x < 60 THEN 40 ELSE IF x < 70 THEN 60
              ELSE IF x < 80 THEN 80 ELSE 100
<1> DEFINE row == IF x < 40 THEN Bracket(0, 40, 10)
                  ELSE IF x < 50 THEN Bracket(40, 50, 20)
                  ELSE IF x < 60 THEN Bracket(50, 60, 40)
                  ELSE IF x < 70 THEN Bracket(60, 70, 60)
                  ELSE IF x < 80 THEN Bracket(70, 80, 80)
                  ELSE Bracket(80, Far, 100)
<1>1. Brackets(MagnitudeTable, x) = {row}
  BY SMT, FarAway DEF MagnitudeTable, Bracket, Brackets
<1>2. row.severity =
        IF x < 40 THEN 10 ELSE IF x < 50 THEN 20
        ELSE IF x < 60 THEN 40 ELSE IF x < 70 THEN 60
        ELSE IF x < 80 THEN 80 ELSE 100
  BY SMT DEF Bracket
<1> HIDE DEF row
<1> QED BY SMT, <1>1, <1>2, OneBracket

LEMMA FirePowerSteps ==
  ASSUME NEW x \in 0 .. Far - 1
  PROVE  /\ Cardinality(Brackets(FirePowerTable, x)) = 1
         /\ Graded(FirePowerTable, x) =
              IF x < 40 THEN 10 ELSE IF x < 80 THEN 25
              ELSE IF x < 250 THEN 50 ELSE IF x < 500 THEN 75 ELSE 100
<1> DEFINE row == IF x < 40 THEN Bracket(0, 40, 10)
                  ELSE IF x < 80 THEN Bracket(40, 80, 25)
                  ELSE IF x < 250 THEN Bracket(80, 250, 50)
                  ELSE IF x < 500 THEN Bracket(250, 500, 75)
                  ELSE Bracket(500, Far, 100)
<1>1. Brackets(FirePowerTable, x) = {row}
  BY SMT, FarAway DEF FirePowerTable, Bracket, Brackets
<1>2. row.severity =
        IF x < 40 THEN 10 ELSE IF x < 80 THEN 25
        ELSE IF x < 250 THEN 50 ELSE IF x < 500 THEN 75 ELSE 100
  BY SMT DEF Bracket
<1> HIDE DEF row
<1> QED BY SMT, <1>1, <1>2, OneBracket

LEMMA FatalitiesSteps ==
  ASSUME NEW x \in Nat, x < 999999
  PROVE  /\ Cardinality(Brackets(FatalitiesTable, x)) = 1
         /\ Graded(FatalitiesTable, x) =
              IF x < 1 THEN 10 ELSE IF x < 6 THEN 30
              ELSE IF x < 26 THEN 50 ELSE IF x < 101 THEN 70
              ELSE IF x < 501 THEN 85 ELSE 100
<1> DEFINE row == IF x < 1 THEN Bracket(0, 1, 10)
                  ELSE IF x < 6 THEN Bracket(1, 6, 30)
                  ELSE IF x < 26 THEN Bracket(6, 26, 50)
                  ELSE IF x < 101 THEN Bracket(26, 101, 70)
                  ELSE IF x < 501 THEN Bracket(101, 501, 85)
                  ELSE Bracket(501, 999999, 100)
<1>1. Brackets(FatalitiesTable, x) = {row}
  BY SMT, FarAway DEF FatalitiesTable, Bracket, Brackets
<1>2. row.severity =
        IF x < 1 THEN 10 ELSE IF x < 6 THEN 30
        ELSE IF x < 26 THEN 50 ELSE IF x < 101 THEN 70
        ELSE IF x < 501 THEN 85 ELSE 100
  BY SMT DEF Bracket
<1> HIDE DEF row
<1> QED BY SMT, <1>1, <1>2, OneBracket

LEMMA GoldsteinSteps ==
  ASSUME NEW x \in -Far .. Far - 1
  PROVE  /\ Cardinality(Brackets(GoldsteinTable, x)) = 1
         /\ Graded(GoldsteinTable, x) =
              IF x < -80 THEN 100 ELSE IF x < -60 THEN 85
              ELSE IF x < -40 THEN 65 ELSE IF x < -20 THEN 45
              ELSE IF x < 0 THEN 25 ELSE 10
<1> DEFINE row == IF x < -80 THEN Bracket(-Far, -80, 100)
                  ELSE IF x < -60 THEN Bracket(-80, -60, 85)
                  ELSE IF x < -40 THEN Bracket(-60, -40, 65)
                  ELSE IF x < -20 THEN Bracket(-40, -20, 45)
                  ELSE IF x < 0 THEN Bracket(-20, 0, 25)
                  ELSE Bracket(0, Far, 10)
<1>1. Brackets(GoldsteinTable, x) = {row}
  BY SMT, FarAway DEF GoldsteinTable, Bracket, Brackets
<1>2. row.severity =
        IF x < -80 THEN 100 ELSE IF x < -60 THEN 85
        ELSE IF x < -40 THEN 65 ELSE IF x < -20 THEN 45
        ELSE IF x < 0 THEN 25 ELSE 10
  BY SMT DEF Bracket
<1> HIDE DEF row
<1> QED BY SMT, <1>1, <1>2, OneBracket

LEMMA UsgsTable ==
  /\ Readings("usgs") = 0 .. 95 /\ TableOf("usgs") = MagnitudeTable
  /\ \A x : Severity("usgs", x) = Graded(MagnitudeTable, Magnitude(x))
<1>1. Readings("usgs") = 0 .. 95
  BY Zenon DEF Readings
<1>2. TableOf("usgs") = MagnitudeTable
  BY Zenon DEF TableOf
<1> QED BY Zenon, <1>1, <1>2 DEF Severity, UsgsSeverity

LEMMA FirmsTable ==
  /\ Readings("firms") = 0 .. 520 /\ TableOf("firms") = FirePowerTable
  /\ \A x : Severity("firms", x) = Graded(FirePowerTable, x)
<1>1. Readings("firms") = 0 .. 520
  BY Zenon DEF Readings
<1>2. TableOf("firms") = FirePowerTable
  BY Zenon DEF TableOf
<1> QED BY Zenon, <1>1, <1>2 DEF Severity, FirmsSeverity

LEMMA AcledTable ==
  /\ Readings("acled") = 0 .. 510 /\ TableOf("acled") = FatalitiesTable
  /\ \A x : Severity("acled", x) = Graded(FatalitiesTable, Fatalities(x))
<1>1. Readings("acled") = 0 .. 510
  BY Zenon DEF Readings
<1>2. TableOf("acled") = FatalitiesTable
  BY Zenon DEF TableOf
<1> QED BY Zenon, <1>1, <1>2 DEF Severity, AcledSeverity

LEMMA GdeltTable ==
  /\ Readings("gdelt") = -100 .. 100 /\ TableOf("gdelt") = GoldsteinTable
  /\ \A x : x # NoValue =>
       Severity("gdelt", x) = Graded(GoldsteinTable, x)
<1>1. Readings("gdelt") = -100 .. 100
  BY Zenon DEF Readings
<1>2. TableOf("gdelt") = GoldsteinTable
  BY Zenon DEF TableOf
<1> QED BY Zenon, <1>1, <1>2 DEF Severity, GdeltSeverity

(* Between the readings of a source, its severity never falls (never rises *)
(* for gdelt).                                                             *)
LEMMA GradesRise ==
  ASSUME NEW s \in Sources, NEW x \in Readings(s)
  PROVE  /\ Cardinality(Brackets(TableOf(s), x)) = 1
         /\ Severity(s, x) \in 10 .. 100
         /\ x + 1 \in Readings(s) =>
              IF s = "gdelt" THEN Severity(s, x) >= Severity(s, x + 1)
              ELSE Severity(s, x) <= Severity(s, x + 1)
<1>1. CASE s = "usgs"
  <2>1. x \in 0 .. 95 /\ x # NoValue /\ x + 1 # NoValue
    BY SMT, <1>1, UsgsTable, NoValueAssumption
  <2> DEFINE q == (x + 9) \div 10
             r == (x + 1 + 9) \div 10
  <2>2. q \in 0 .. 10 /\ r \in 0 .. 10 /\ q <= r
    BY SMT, <2>1
  <2>3. Magnitude(x) = q * 10 /\ Magnitude(x + 1) = r * 10
    BY <2>1 DEF Magnitude
  <2> HIDE DEF q, r
  <2>4. /\ Magnitude(x) \in 0 .. Far - 1
        /\ Magnitude(x + 1) \in 0 .. Far - 1
        /\ Magnitude(x) <= Magnitude(x + 1)
    BY SMT, <2>2, <2>3, FarAway
  <2>5. /\ Cardinality(Brackets(MagnitudeTable, x)) = 1
        /\ Graded(MagnitudeTable, Magnitude(x)) \in 10 .. 100
        /\ Graded(MagnitudeTable, Magnitude(x)) <=
             Graded(MagnitudeTable, Magnitude(x + 1))
    BY SMT, <2>1, <2>4, FarAway, MagnitudeSteps
  <2> QED BY <1>1, <2>5, UsgsTable
<1>2. CASE s = "firms"
  BY SMT, <1>2, FirmsTable, FirePowerSteps, FarAway
<1>3. CASE s = "acled"
  <2>1. x \in 0 .. 510 /\ Fatalities(x) = x /\ Fatalities(x + 1) = x + 1
    BY SMT, <1>3, AcledTable, NoValueAssumption DEF Fatalities
  <2> QED BY SMT, <1>3, <2>1, AcledTable, FatalitiesSteps
<1>4. CASE s = "gdelt"
  <2>1. x \in -100 .. 100 /\ x # NoValue /\ x + 1 # NoValue
    BY SMT, <1>4, GdeltTable, NoValueAssumption
  <2> QED BY SMT, <1>4, <2>1, GdeltTable, GoldsteinSteps, FarAway
<1>5. CASE s = "military"
  BY <1>5 DEF Readings
<1> QED BY <1>1, <1>2, <1>3, <1>4, <1>5 DEF Sources

(* Whatever the source, each reading has one bracket, and the severity of  *)
(* what the mappers make never falls as readings get graver.               *)
THEOREM GraverGradesHigher == Spec => []SeverityGraded
<1>1. GradedSources = Sources
  BY GradesRise DEF GradedSources
<1>2. TypeOK => SeverityGraded
  BY <1>1 DEF SeverityGraded, TypeOK
<1> QED BY <1>2, TypeCorrect, PTL
=============================================================================
