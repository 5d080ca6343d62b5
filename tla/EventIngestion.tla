--------------------------- MODULE EventIngestion ---------------------------
(***************************************************************************)
(* The ingestors (backend/ingestors) from the first request of a run to    *)
(* its report: retries, pages, zones and areas, the record loop with its   *)
(* validation and quarantine, and process_and_upsert_event with the two    *)
(* statements another run may get between.                                 *)
(*                                                                         *)
(* A run is one process of a script.  Runs of one source share its rows    *)
(* (those of different sources have none in common), so a behaviour is     *)
(* about the runs of one source.  Each run has one database session.       *)
(***************************************************************************)
EXTENDS Normalizers

CONSTANTS
  Runs,         \* the processes that ingest the source
  MaxRetries,   \* max_retries
  MaxTargets,   \* areas, zones or pages one run asks for, at most (a bound)
  PageSize,     \* records of one answer, at most (a bound); a full ACLED page
  Budget,       \* records a run is sent in all, at most (a bound)
  MaxOutages,   \* failures of the database by itself in a run (a bound)
  NoRow,        \* the table has no row of the key
  NoEvent       \* the run has no event between select and insert

ASSUME BoundsAssumption ==
  /\ MaxRetries \in Nat \ {0}
  /\ MaxTargets \in Nat \ {0}
  /\ PageSize \in Nat \ {0}
  /\ Budget \in [Runs -> Nat]
  /\ MaxOutages \in [Runs -> Nat]

VARIABLES
  source,   \* the source the runs ingest
  run,      \* where each run is
  tally,    \* what each run has counted
  table,    \* events_canonical: the row of each key
  found     \* the keys of the rows thermal_anomaly_job has inserted

vars == <<source, run, tally, table, found>>

Active == {"fetch", "store"}

HandledOf(s) == Handled[s]

(* The categories are those the schema and the table accept.               *)
Storable == [s \in Sources |-> {h \in Handled[s] : h.category \in Categories}]

Run ==
  [phase: {"idle", "fetch", "store", "done", "failed", "killed"},
   target: Nat,        \* the area, zone or page it asks for, from 1
   attempt: Nat,       \* failed requests for it
   left: Nat,          \* records it has received and not handled
   hand: Storable[source] \cup {NoEvent},
   poisoned: BOOLEAN,  \* the session refuses everything but a rollback
   alarmed: BOOLEAN]   \* SIGALRM has been delivered

(* The code counts the first five.  The others say which quarantined       *)
(* records were valid and have not been written, which were refused and    *)
(* have no row in events_quarantine, which duplicates never reached the    *)
(* database, and what has failed: a statement that cannot work, a unique   *)
(* constraint or an alarm ("errors"), or the database by itself.           *)
Counters == {"fetched", "processed", "duplicates", "quarantined", "skipped",
             "lost", "unfiled", "repeated", "errors", "outages"}

(* Of the columns only one is read again: whether it is a fire.            *)
Row == [by: Runs, fire: BOOLEAN]

ASSUME NoRowAssumption == NoRow \notin Row

ASSUME NoEventAssumption == \A s \in Sources : NoEvent \notin HandledOf(s)

TypeOK ==
  /\ source \in Sources
  /\ run \in [Runs -> Run]
  /\ tally \in [Runs -> [Counters -> Nat]]
  /\ table \in [Keys -> Row \cup {NoRow}]
  /\ found \in SUBSET Keys

Idle ==
  [phase |-> "idle", target |-> 1, attempt |-> 0, left |-> 0,
   hand |-> NoEvent, poisoned |-> FALSE, alarmed |-> FALSE]

Init ==
  /\ source \in Sources
  /\ run = [r \in Runs |-> Idle]
  /\ tally = [r \in Runs |-> [c \in Counters |-> 0]]
  /\ table = [k \in Keys |-> NoRow]
  /\ found = {}

(* Each of the counters cs goes up by one. *)
Count(r, cs) ==
  [tally EXCEPT ![r] = [c \in Counters |-> IF c \in cs THEN @[c] + 1 ELSE @[c]]]

-----------------------------------------------------------------------------
(***************************************************************************)
(* Asking the source.                                                      *)
(***************************************************************************)

(* How a request ends badly: the connection times out, the answer is an    *)
(* HTTP error, or anything else (the adapter's own retries used up, a      *)
(* broken connection, an answer that is no JSON).                          *)
Failures == {"timeout", "http", "other"}

(***************************************************************************)
(* The loop of each ingestor: how many targets it asks for and how often,  *)
(* which failures it retries (the clauses that look for a 429 or a 401     *)
(* test "e.response and ...", and an error response is falsy), whether it  *)
(* collects the records of all targets before it stores any, and whether a *)
(* target that fails is skipped or ends the run.                           *)
(***************************************************************************)

(* fetch_earthquakes retries, and run retries it: the loops multiply.      *)
UsgsLoop ==
  [targets |-> 1, attempts |-> MaxRetries * MaxRetries,
   retries |-> {"timeout"}, collects |-> FALSE, skips |-> FALSE]

FirmsLoop ==
  [targets |-> MaxTargets, attempts |-> MaxRetries,
   retries |-> {"timeout"}, collects |-> FALSE, skips |-> FALSE]

AcledLoop ==
  [targets |-> MaxTargets, attempts |-> MaxRetries,
   retries |-> {"timeout"}, collects |-> TRUE, skips |-> FALSE]

GdeltLoop ==
  [targets |-> MaxTargets, attempts |-> MaxRetries,
   retries |-> Failures, collects |-> FALSE, skips |-> TRUE]

MilitaryLoop ==
  [targets |-> MaxTargets, attempts |-> MaxRetries,
   retries |-> {"timeout", "http"}, collects |-> TRUE, skips |-> TRUE]

Loops ==
  [usgs  |-> UsgsLoop,  firms    |-> FirmsLoop, acled |-> AcledLoop,
   gdelt |-> GdeltLoop, military |-> MilitaryLoop]

MilitaryCollects == source = "military"    \* mutant of Collects: not acled

Collects == Loops[source].collects

LastTarget == Loops[source].targets

MaxAttempts == Loops[source].attempts

Retries(failure) == failure \in Loops[source].retries

SkipsTarget == Loops[source].skips

(* A run ends: its records and its session are gone with its process.      *)
Ended(state, phase) ==
  [Idle EXCEPT !.phase = phase, !.alarmed = state.alarmed]

(* A script starts.  Without an active area the military one ends at once. *)
Start(r) ==
  /\ run[r].phase = "idle"
  /\ \E phase \in {"fetch", "done"} :
       /\ phase = "done" => source = "military"
       /\ run' = [run EXCEPT ![r].phase = phase]
  /\ UNCHANGED <<source, tally, table, found>>

MoreTargets(r) == run[r].target < LastTarget

(* After an answer of n records.  A full page of ACLED has one after it.   *)
More(r, n) == IF source = "acled" THEN n = PageSize ELSE MoreTargets(r)

(* After n records of a target a run that collects asks for the next one   *)
(* first.                                                                  *)
Turn(r, n, state) ==
  IF Collects /\ More(r, n)
  THEN [state EXCEPT !.phase = "fetch", !.target = @ + 1, !.attempt = 0]
  ELSE [state EXCEPT !.phase = "store"]

(* Nothing but a page that is not full ends the paging of ACLED.  The      *)
(* pages past the bounds of the model are all full, and their records are  *)
(* not counted: they come two by two, so that one is told from the next.   *)
PastBounds(r, n) ==
  \/ run[r].target > MaxTargets
  \/ n = PageSize /\ run[r].target = MaxTargets

PageOn(r) ==
  /\ source = "acled"
  /\ run[r].phase = "fetch"
  /\ \/ PastBounds(r, PageSize)
     \/ tally[r].fetched + PageSize > Budget[r]
  /\ run' = [run EXCEPT
       ![r].target = IF @ = MaxTargets + 1 THEN MaxTargets + 2 ELSE MaxTargets + 1,
       ![r].attempt = 0]
  /\ UNCHANGED <<source, tally, table, found>>

(***************************************************************************)
(* The answer has n records.  The military ingestor drops those an earlier *)
(* area had, and the rest of an area from the first time it cannot parse.  *)
(***************************************************************************)
Answer(r) ==
  /\ run[r].phase = "fetch"
  /\ \E n \in 0 .. PageSize :
     \E kept, repeated \in 0 .. n :
       /\ tally[r].fetched + n <= Budget[r]
       /\ source # "military" => kept = n
       /\ kept + repeated <= n
       /\ repeated > 0 => run[r].left + kept > 0
       /\ source = "acled" => ~PastBounds(r, n)
       /\ run' = [run EXCEPT ![r] =
                    Turn(r, n, [run[r] EXCEPT !.left = @ + kept])]
       /\ tally' = [tally EXCEPT ![r].fetched = @ + n,
                                 ![r].duplicates = @ + repeated,
                                 ![r].repeated = @ + repeated]
  /\ UNCHANGED <<source, table, found>>

TryForever(r) ==    \* mutant of TryAgain: the counter starts over
  /\ run[r].phase = "fetch"
  /\ \E failure \in Failures : Retries(failure)
  /\ run' = [run EXCEPT ![r].attempt = 1 - @]
  /\ UNCHANGED <<source, tally, table, found>>

(* A failed attempt is waited out and repeated... *)
TryAgain(r) ==
  /\ run[r].phase = "fetch"
  /\ \E failure \in Failures : Retries(failure)
  /\ run[r].attempt + 1 < MaxAttempts
  /\ run' = [run EXCEPT ![r].attempt = @ + 1]
  /\ UNCHANGED <<source, tally, table, found>>

(* ... or is the last: the target is given up, or the run.                 *)
GiveUp(r) ==
  /\ run[r].phase = "fetch"
  /\ \E failure \in Failures :
       Retries(failure) => run[r].attempt + 1 >= MaxAttempts
  /\ run' = [run EXCEPT ![r] =
               IF SkipsTarget THEN Turn(r, 0, @)
               ELSE Ended(@, "failed")]
  /\ UNCHANGED <<source, tally, table, found>>

-----------------------------------------------------------------------------
(***************************************************************************)
(* The record loop.                                                        *)
(***************************************************************************)
Loop(r) == run[r].phase = "store" /\ run[r].hand = NoEvent /\ run[r].left > 0

Handling(r) == [run EXCEPT ![r].left = @ - 1]

KnownRow(h) == table[h.key] # NoRow

(* The connection breaks, the server restarts, a statement times out.      *)
MayFail(r) == tally[r].outages < MaxOutages[r]

(* The military ingestor first counts the incidents near the flight, by a  *)
(* column their table does not have: the query raises, the transaction is  *)
(* aborted, and the flight is counted as quarantined.                      *)
Stumble(r) ==
  /\ Loop(r)
  /\ source = "military"
  /\ run' = [Handling(r) EXCEPT ![r].poisoned = TRUE]
  /\ tally' = Count(r, {"quarantined", "lost", "errors"})
  /\ UNCHANGED <<source, table, found>>

(* Any other record gets to its mapper.                                    *)
Mapped(r) == Loop(r) /\ source # "military"

(* The mapper refuses the record, or its schema raises.  Only skipped      *)
(* hotspots are told apart; no row is filed for what cannot be parsed.     *)
Drop(r) ==
  /\ Mapped(r)
  /\ \E h \in HandledOf(source) :
       /\ h.verdict \in {"skipped", "malformed"}
       /\ tally' = Count(r, {IF h.verdict = "skipped" THEN "skipped"
                             ELSE "quarantined"})
  /\ run' = Handling(r)
  /\ UNCHANGED <<source, table, found>>

RejectOnly(r) ==    \* mutant of Reject: insert_quarantine does not roll back
  /\ Mapped(r)
  /\ \E h \in HandledOf(source) : h.verdict = "rejected"
  /\ run' = Handling(r)
  /\ tally' = Count(r, {"quarantined"} \cup
                       (IF run[r].poisoned THEN {"unfiled"} ELSE {}))
  /\ UNCHANGED <<source, table, found>>

(* validate_event refuses it: insert_quarantine files it, unless the       *)
(* session is poisoned; then its rollback repairs the session.             *)
Reject(r) ==
  /\ Mapped(r)
  /\ \E h \in HandledOf(source) : h.verdict = "rejected"
  /\ run' = [Handling(r) EXCEPT ![r].poisoned = FALSE]
  /\ tally' = Count(r, {"quarantined"} \cup
                       (IF run[r].poisoned THEN {"unfiled"} ELSE {}))
  /\ UNCHANGED <<source, table, found>>

(* The database fails in insert_quarantine, which rolls back.              *)
RejectFails(r) ==
  /\ Mapped(r)
  /\ ~run[r].poisoned
  /\ MayFail(r)
  /\ \E h \in HandledOf(source) : h.verdict = "rejected"
  /\ run' = Handling(r)
  /\ tally' = Count(r, {"quarantined", "unfiled", "outages"})
  /\ UNCHANGED <<source, table, found>>

(* process_and_upsert_event in a poisoned session: the select raises.      *)
Lose(r) ==
  /\ Mapped(r)
  /\ run[r].poisoned
  /\ \E h \in HandledOf(source) : h.verdict = "valid"
  /\ run' = Handling(r)
  /\ tally' = Count(r, {"quarantined", "lost"})
  /\ UNCHANGED <<source, table, found>>

RefreshAsNew(r) ==    \* mutant of Refresh: counted as new, too
  /\ Mapped(r)
  /\ ~run[r].poisoned
  /\ \E h \in HandledOf(source) : h.verdict = "valid" /\ KnownRow(h)
  /\ run' = Handling(r)
  /\ tally' = Count(r, {"duplicates", "processed"})
  /\ UNCHANGED <<source, table, found>>

(* The select finds the row: its ingest_time is written and committed.     *)
Refresh(r) ==
  /\ Mapped(r)
  /\ ~run[r].poisoned
  /\ \E h \in HandledOf(source) : h.verdict = "valid" /\ KnownRow(h)
  /\ run' = Handling(r)
  /\ tally' = Count(r, {"duplicates"})
  /\ UNCHANGED <<source, table, found>>

(* The commit fails, or it is done and the row's id cannot be read again.  *)
(* The record loop absorbs it, and only what broke in a commit is sure to  *)
(* leave the session unusable.                                             *)
RefreshFails(r) ==
  /\ Mapped(r)
  /\ ~run[r].poisoned
  /\ MayFail(r)
  /\ \E h \in HandledOf(source) : h.verdict = "valid" /\ KnownRow(h)
  /\ \/ /\ run' = [Handling(r) EXCEPT ![r].poisoned = TRUE]
        /\ tally' = Count(r, {"quarantined", "lost", "outages"})
     \/ /\ \E dirty \in BOOLEAN :
             run' = [Handling(r) EXCEPT ![r].poisoned = dirty]
        /\ tally' = Count(r, {"quarantined", "outages"})
  /\ UNCHANGED <<source, table, found>>

(* The select itself fails.                                                *)
SelectFails(r) ==
  /\ Mapped(r)
  /\ ~run[r].poisoned
  /\ MayFail(r)
  /\ \E h \in HandledOf(source) : h.verdict = "valid"
  /\ \E dirty \in BOOLEAN : run' = [Handling(r) EXCEPT ![r].poisoned = dirty]
  /\ tally' = Count(r, {"quarantined", "lost", "outages"})
  /\ UNCHANGED <<source, table, found>>

(* The select finds nothing: the event is in hand until it is inserted.    *)
Select(r) ==
  /\ Mapped(r)
  /\ ~run[r].poisoned
  /\ \E h \in HandledOf(source) :
       /\ h.verdict = "valid"
       /\ ~KnownRow(h)
       /\ run' = [Handling(r) EXCEPT ![r].hand = h]
  /\ UNCHANGED <<source, tally, table, found>>

RowOf(r) == [by |-> r, fire |-> run[r].hand.category = "wildfire"]

InsertOver(r) ==    \* mutant of Insert: no unique constraint
  /\ run[r].hand # NoEvent
  /\ run' = [run EXCEPT ![r].hand = NoEvent]
  /\ table' = [table EXCEPT ![run[r].hand.key] = RowOf(r)]
  /\ tally' = Count(r, {"processed"})
  /\ UNCHANGED <<source, found>>

(* The insert is committed, ... *)
Insert(r) ==
  /\ run[r].hand # NoEvent
  /\ ~KnownRow(run[r].hand)
  /\ ~run[r].hand.actors
  /\ run' = [run EXCEPT ![r].hand = NoEvent]
  /\ table' = [table EXCEPT ![run[r].hand.key] = RowOf(r)]
  /\ tally' = Count(r, {"processed"})
  /\ UNCHANGED <<source, found>>

(* ... or its flush fails, on the unique constraint or on actors that are  *)
(* no JSON, or it or the commit because the database does; nobody rolls    *)
(* the session back, ...                                                   *)
InsertFails(r) ==
  /\ run[r].hand # NoEvent
  /\ \E cause \in {"errors", "outages"} :
       /\ cause = "errors" => KnownRow(run[r].hand) \/ run[r].hand.actors
       /\ cause = "outages" => MayFail(r)
       /\ tally' = Count(r, {"quarantined", "lost", cause})
  /\ run' = [run EXCEPT ![r].hand = NoEvent, ![r].poisoned = TRUE]
  /\ UNCHANGED <<source, table, found>>

(* ... or the row is made, but the answer to the commit does not arrive or *)
(* the row cannot be read again: the event is counted as quarantined.      *)
InsertUnheard(r) ==
  /\ run[r].hand # NoEvent
  /\ ~KnownRow(run[r].hand)
  /\ ~run[r].hand.actors
  /\ MayFail(r)
  /\ \E dirty \in BOOLEAN :
       run' = [run EXCEPT ![r].hand = NoEvent, ![r].poisoned = dirty]
  /\ table' = [table EXCEPT ![run[r].hand.key] = RowOf(r)]
  /\ tally' = Count(r, {"quarantined", "outages"})
  /\ UNCHANGED <<source, found>>

(* All records are handled: the next target, or the report.                *)
Drain(r) ==
  /\ run[r].phase = "store" /\ run[r].hand = NoEvent /\ run[r].left = 0
  /\ run' = [run EXCEPT ![r] =
               IF ~Collects /\ MoreTargets(r)
               THEN [run[r] EXCEPT !.phase = "fetch", !.target = @ + 1,
                              !.attempt = 0]
               ELSE Ended(@, "done")]
  /\ UNCHANGED <<source, tally, table, found>>

-----------------------------------------------------------------------------
(***************************************************************************)
(* Interruptions.                                                          *)
(***************************************************************************)

(* run_all_zones sets an alarm.  Its exception is an Exception like any    *)
(* other: a request it interrupts counts as a failed attempt, ...          *)
MayAlarm(r) ==
  source = "gdelt" /\ run[r].phase \in Active /\ ~run[r].alarmed

AlarmInRequest(r) ==
  /\ MayAlarm(r)
  /\ run[r].phase = "fetch"
  /\ run' = [run EXCEPT ![r] =
               IF run[r].attempt + 1 < MaxAttempts
               THEN [run[r] EXCEPT !.alarmed = TRUE, !.attempt = @ + 1]
               ELSE Turn(r, 0, [run[r] EXCEPT !.alarmed = TRUE])]
  /\ UNCHANGED <<source, tally, table, found>>

(* ... a record it interrupts as quarantined, whether its insert has been  *)
(* committed, has not begun, or was being flushed; ...                     *)
AlarmInRecord(r) ==
  /\ MayAlarm(r)
  /\ run[r].hand # NoEvent
  /\ \/ /\ ~KnownRow(run[r].hand)
        /\ table' = [table EXCEPT ![run[r].hand.key] = RowOf(r)]
        /\ run' = [run EXCEPT ![r].hand = NoEvent, ![r].alarmed = TRUE]
        /\ tally' = Count(r, {"quarantined", "errors"})
     \/ /\ \E dirty \in BOOLEAN :
             run' = [run EXCEPT ![r].hand = NoEvent, ![r].alarmed = TRUE,
                                ![r].poisoned = dirty]
        /\ tally' = Count(r, {"quarantined", "lost", "errors"})
        /\ UNCHANGED table
  /\ UNCHANGED <<source, found>>

(* ... or it was still being mapped, looked up or written again; or it was *)
(* refused and its filing is undone like any other that fails, ...         *)
AlarmInMapper(r) ==
  /\ MayAlarm(r)
  /\ Loop(r)
  /\ \E dirty \in BOOLEAN :
       run' = [Handling(r) EXCEPT ![r].alarmed = TRUE,
                                  ![r].poisoned = @ \/ dirty]
  /\ tally' = Count(r, {"quarantined", "lost", "errors"})
  /\ UNCHANGED <<source, table, found>>

AlarmInReject(r) ==
  /\ MayAlarm(r)
  /\ Loop(r)
  /\ \E h \in HandledOf(source) : h.verdict = "rejected"
  /\ run' = [Handling(r) EXCEPT ![r].alarmed = TRUE, ![r].poisoned = FALSE]
  /\ tally' = Count(r, {"quarantined", "unfiled", "errors"})
  /\ UNCHANGED <<source, table, found>>

(* ... and only between those, or while it waits for the next attempt,     *)
(* does it end the run.                                                    *)
AlarmBetween(r) ==
  /\ MayAlarm(r)
  /\ run[r].hand = NoEvent
  /\ run' = [run EXCEPT ![r] = Ended([@ EXCEPT !.alarmed = TRUE], "failed")]
  /\ UNCHANGED <<source, tally, table, found>>

(* The API kills a script after 300 seconds; what is committed stays.      *)
Kill(r) ==
  /\ run[r].phase \in Active
  /\ run' = [run EXCEPT ![r] = Ended(@, "killed")]
  /\ UNCHANGED <<source, tally, table, found>>

-----------------------------------------------------------------------------
(***************************************************************************)
(* thermal_anomaly_job, over the hotspots FIRMS has stored.                *)
(***************************************************************************)
Hotspots ==
  {k \in Keys : table[k] # NoRow /\ table[k].fire}

(* _has_fire_history: any wildfire row within "5000" of the hotspot, which *)
(* are degrees of the geometry column and not metres.                      *)
FireHistory(k) == Hotspots # {}

(* A hotspot without history and near a conflict becomes an event of its   *)
(* own; which ones are near is up to the incidents.                        *)
DetectThermal ==
  /\ source = "firms"
  /\ \E near \in SUBSET Hotspots :
       found' = found \cup {k \in near : ~FireHistory(k)}
  /\ UNCHANGED <<source, run, tally, table>>

-----------------------------------------------------------------------------
Request(r) == Answer(r) \/ PageOn(r) \/ TryAgain(r) \/ GiveUp(r)

Store(r) ==
  \/ Stumble(r)
  \/ Drop(r)
  \/ Reject(r)
  \/ RejectFails(r)
  \/ Lose(r)
  \/ Refresh(r)
  \/ RefreshFails(r)
  \/ Select(r)
  \/ SelectFails(r)
  \/ Insert(r)
  \/ InsertFails(r)
  \/ InsertUnheard(r)
  \/ Drain(r)

Interrupt(r) ==
  \/ AlarmInRequest(r)
  \/ AlarmInRecord(r)
  \/ AlarmInMapper(r)
  \/ AlarmInReject(r)
  \/ AlarmBetween(r)
  \/ Kill(r)

Next ==
  \/ \E r \in Runs : Start(r) \/ Request(r) \/ Store(r) \/ Interrupt(r)
  \/ DetectThermal

(* A run that has started goes on: every request ends by its timeout and   *)
(* every statement is answered.  Nothing has to start or to interrupt.     *)
Fairness == \A r \in Runs : WF_vars(Request(r) \/ Store(r))

Spec == Init /\ [][Next]_vars /\ Fairness

-----------------------------------------------------------------------------
(***************************************************************************)
(* Properties.                                                             *)
(***************************************************************************)
Handed(r) == IF run[r].hand = NoEvent THEN 0 ELSE 1

Settled(r) ==
  tally[r].processed + tally[r].duplicates + tally[r].quarantined
    + tally[r].skipped

(* A record a run has fetched is still to handle, or is in exactly one of  *)
(* the counts it reports, through every retry, error and alarm, as long as *)
(* the run is not cut short; only flights behind one whose time cannot be  *)
(* parsed are in none.                                                     *)
CountsAccount ==
  \A r \in Runs :
    run[r].phase \notin {"failed", "killed"} =>
      /\ Settled(r) + run[r].left + Handed(r) <= tally[r].fetched
      /\ source # "military" =>
           Settled(r) + run[r].left + Handed(r) = tally[r].fetched

RowsBy(r) == {k \in Keys : table[k] # NoRow /\ table[k].by = r}

(* "processed" is the number of rows the run has made, although the select *)
(* and the insert of two runs may overlap; only an alarm and each failure  *)
(* of the database can hide a row, one each, and none is counted twice.    *)
ProcessedIsStored ==
  \A r \in Runs :
    \E hidden \in 0 .. tally[r].outages + (IF run[r].alarmed THEN 1 ELSE 0) :
      Cardinality(RowsBy(r)) = tally[r].processed + hidden

Failed(r) == tally[r].errors + tally[r].outages

Dirty(r) == IF run[r].poisoned THEN 1 ELSE 0

(* A run without a failed statement or an alarm loses no valid event: the  *)
(* records a poisoned session loses later go back to one.  And a failure   *)
(* costs at most one refused record its row in events_quarantine: the      *)
(* rollback of the first repairs the session for all after it.             *)
LossExplained ==
  \A r \in Runs :
    /\ tally[r].lost > 0 => Failed(r) > 0
    /\ tally[r].unfiled + Dirty(r) <= Failed(r)

(* A run that collects before it stores, or asks for one target only, has  *)
(* stored nothing when a request fails it: what it had collected is gone.  *)
CollectedOrNothing ==
  \A r \in Runs :
    source \in {"usgs", "acled"} /\ run[r].phase = "failed" =>
      /\ RowsBy(r) = {}
      /\ Settled(r) = 0

(* A graver reading never gets a lower severity, the tables have neither   *)
(* gaps nor overlaps, and severities are those the schema accepts.         *)
SeverityGraded == source \in GradedSources

(* thermal_anomaly_job finds no anomaly, wherever the conflicts are, since *)
(* the hotspot it looks at is part of the fire history it looks for.  Its  *)
(* docstring says that it classifies hotspots and inserts events.          *)
ThermalFindsNothing == found = {}

(* A run that has started ends: a request is tried a bounded number of     *)
(* times, a target is asked for once, a record is handled once.  One thing *)
(* only can keep it going, a source of pages that sends full ones for      *)
(* ever, against which fetch_all_events has no limit.                      *)
RunEnds ==
  \A r \in Runs :
    \/ []<>(run[r].phase \notin Active)
    \/ []<><<PageOn(r)>>_vars

Stored == {k \in Keys : table[k] # NoRow}

Reported(r) ==
  [new     |-> tally[r].processed,
   known   |-> tally[r].duplicates - tally[r].repeated,
   refused |-> tally[r].quarantined + tally[r].skipped]

Promise ==
  INSTANCE EventStore WITH
    stored <- Stored,
    count  <- [r \in Runs |-> Reported(r)]

(* The runs, however they overlap, store and count as EventStore promises. *)
StoresAsPromised == Promise!Spec

(* A run that no alarm cut short, no other run got in the way of and the   *)
(* database did not fail has stored every valid event it handled.          *)
ValidEventsStored ==
  \A r \in Runs :
    tally[r].lost > 0 =>
      \/ run[r].alarmed
      \/ tally[r].outages > 0
      \/ \E other \in Runs \ {r} : RowsBy(other) # {}
=============================================================================
