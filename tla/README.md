# GeoSentinel in TLA+

GeoSentinel collects events (earthquakes, fires, conflict reports), groups them
into incidents and shows them on a map. This directory holds a specification of
its parts that keep state, of the way an event takes from a source to the table,
and of what the services in between hand out; the TLC configurations that check
it, and proofs checked by TLAPS. Paths below are relative to the
repository; `backend/` and `services/` hold the code that is modelled.

## Inventory

Each component with its state, its operations, what is hard about it, and what
makes it correct.

**Job registry of the admin API** (`backend/api/routes/admin.py`). State: the
dictionary `JOBS` in memory, background tasks, the script processes they wait
for. Operations: start one job, `lifecycle` or `all`; poll a status; begin and
end a job. Hard: check and insertion are separate critical sections, scripts end
in any order or are killed after 300 s, a restart loses everything. Correct when
a job runs once at a time, every accepted job ends in a record that stays as it
is, and `all` ingests before it clusters. Talks to: the refresh panel (HTTP),
the ingestors and the clustering script (subprocesses), the lifecycle job (a
call on the event loop).

**Clustering job** (`backend/jobs/clustering_job.py`). State: `incidents`, and
what its SQLAlchemy session has loaded. Operations: read the events of the last
24 hours, match each with an active incident, assign it or found a new incident.
Hard: everything it decides on was read earlier, it commits after each event,
and operators, the lifecycle job and a second clustering run (`all` beside
`clustering`) write the same rows. Correct when a run founds one incident at most
on an event, drops none, and loses nothing observed.

**Incident lifecycle** (`backend/jobs/incident_lifecycle.py`). State: `status`
and `status_changed_at`. Operations: stale after 72 h, back to open after
15 min, and the transitions operators ask for. Hard: it selects first and
commits later. Correct when each transition is justified when it is committed.

**Operator corrections** (`backend/api/routes/corrections.py`). State: the
incident, `corrections_audit`. Operations: false positive, close, reclassify,
relocate, merge. Hard: concurrent with the jobs; change and audit row are two
transactions, and a request may name nothing to change. Correct when an
operator's verdict stands and every correction is accounted for.

**Event ingestion** (`backend/jobs/event_processing.py`,
`backend/validation/validator.py`). State: `events_canonical`,
`events_quarantine`, the ingestor's session, the counts it reports. Operations:
validate, quarantine, insert or refresh. Hard: select-then-insert against a
unique constraint; any statement may fail, a failed insert leaves the session
unusable, and only a later quarantine insert repairs it. Correct when an event is stored once, the counts
say what happened, and a bad event costs no other.

**Ingestors** (`backend/ingestors/`). State: attempt, target (an area, a zone or
a page), what has been collected. Operations: ask, retry, give up, go on. Hard:
timeouts, 429 and 401 answers, pages that may go on without end, a process-wide
alarm that strikes anywhere. Correct when a run ends, retries are bounded, and a failed run has not stored
half of what it reports as nothing. Talks to: the sources (HTTP), the
normalizers, event processing (a call per record).

**Normalizers** (`backend/normalizers/`). No state: records of a source become
canonical events. Hard: missing and zero coordinates, brackets of severity,
records that raise. Correct when graver readings grade higher and nothing
malformed passes as valid.

**Thermal anomaly detection** (`backend/jobs/thermal_anomaly_job.py`). State:
events it derives from other events. Hard: its output and input are one table.
Correct when it finds hotspots that are new where they are.

**Military relay** (`services/military_relay/`). State: a cache per area, the
trail of each aircraft, the limiter's last call, the list of military aircraft,
on disk and memoised, and a thread that renews it. Hard: fresh, stale and
expired entries against failing fetches; the list is read while it is written.
Correct when no answer is older than it says and the source's quota is spared.

**AIS relay** (`services/ais_relay/`, `backend/api/routes/ais.py`). State:
vessels, `connected`, backoff; the route of the API merges the answers for
several areas. Hard: a connection that can end in several ways; the store
changes between the calls of one request. Correct when the listener always comes
back, with its patience renewed by each connection, and merging loses no vessel.

**CR360 proxy** (`backend/api/routes/cr360.py`). State: a TTL cache used by
several threads. Hard: the lock is released during the call, so fetches overlap
and their answers are stored in any order. Correct when an answer is about a TTL
old at most and a warm cache calls nobody (`docs/adr/0001`).

**Refresh panel** (`frontend/src/components/panels/RefreshPanel.tsx`). State:
one button state per job, the timers it knows of, and those it does not. Hard:
polls answered late, 409 answers, resets that outlive what they were set for,
unmounting. Correct when a button never says DONE of a job that is not, and
none spins for ever. Talks to: the job registry (HTTP).

The queries behind the map, the rest of the frontend, migrations, seed scripts
and `verify.py` keep no state that operations share; they are listed in
`PROJECT.json` as not modelled, and below.

How the modules depend on each other:

| module | extends, or instantiates | implements |
|---|---|---|
| `EventIngestion` | `Normalizers` | `EventStore` |
| `JobRegistry` | | `JobSlots` |
| `RefreshPanel` | `JobSlots` | |
| `MCIncidents` | `Incidents`, `EventMetric` | |
| `MCIncidentsScenes` | `MCIncidents` | |
| `Services` | `MilitaryRelay`, `AisRelay`, `Cr360Proxy`, `RefreshPanel` | each of the four |
| `MCServices` | `Services` | |

## Modules

`JobRegistry` is the admin API. The endpoints and background tasks are
coroutines of one event loop, so an action is what one of them does between two
awaits that can suspend it. `records` is `JOBS`; `task` says where the
`_background_job` of each key is; `procs` holds the scripts it waits for;
`failures` those that ended in an exception; `handed` is the set of job ids that
202 and 409 answers have carried. `_JOBS_LOCK` protects no await, so it is never
contended and is not a variable. The endpoint's two critical sections are
therefore one action (`Accept`), and the mutant `Insert` is what the code would
do without its check. A 409 in the model can be given with either uuid of a job,
the one of the endpoint or the one `_background_job` draws again.

`Incidents` is the table `incidents` with everybody who writes it. `rows` is the
table, `events` and `audit` are the other two, `job[p]` is the program counter
and the local variables of the run of job `p`, `op[o]` of a correction request,
and `cache[s]` what session `s` has loaded and not expired. `Commit` writes the
columns the session changed and no others (`Updated`), as SQLAlchemy does: this
is what makes two sessions merge their changes, and what loses the append to
`linked_event_ids`. An action ends at each commit and each query whose answer is
used later. `all` clusters and then ages; the lifecycle job holds the event loop
while it runs, so two runs of it never overlap, while clustering (a subprocess)
and corrections (threads) go on. Each job runs once at a time, which is theorem
`MutualExclusion` of the registry.

| code | `Incidents` |
|---|---|
| `run_clustering_job` | `StartClustering`, `FetchActive`, `MatchEvent`, `AssignEvent`, `CreateIncident`, `EventPlaced` |
| `find_closest_incident`, `compute_mixed_distance` | `Closest`, `MixedDistance` |
| `run_lifecycle_job` | `SelectStale`, `CheckStale`, `TransitionToStale`, `SelectUpdated`, `CheckOpen`, `TransitionToOpen`, `EndLifecycle` |
| `create_correction` | `RequestCorrection`, one action per kind (`Reclassify` and `Relocate` also with nothing to change: `AskNothing`), `WriteAudit` |
| `process_and_upsert_event` | `Ingest` (its commit) |
| timeout of a script, a failing job, a restart of the API | `RunFails`, `Crash` |

`EventMetric` holds the pure functions of the clustering job over sets of
events; `MCIncidents` gives it to `Incidents` as the constant `Centroid`.

Abstractions of `Incidents`: a place is an integer on a line and a confidence weight is 1;
severity, fatalities, country and event type are left out, because no property
depends on them; times are ticks. A database error of a single commit is
`RunFails`. An answer 400 or 404 of a correction changes nothing and is not an
action.

`JobSlots` says what the admin API promises whoever polls it: a job starts only
when none of its name runs, ends once, and stays as it ended unless everything
is forgotten. `JobRegistry` implements it (`SlotsImplemented`; the mapping drops
tasks, scripts and the ids of answers), and `RefreshPanel` is written against it,
so the panel is checked with any API that keeps the promise.

`Normalizers` holds the pure functions from a source's record to what happens to
it: `Verdict` says whether the loop skips it, the validator rejects it, the
mapper raises, or it is valid, in the order the code asks. Each source has a set
of records that takes one value from each case the code tells apart: a place
that is inside, zero, outside, blank or missing; a time that is past or future;
a magnitude, radiative power or number of fatalities on each side of every
bracket. The severity tables are kept with their numbers, in tenths.

`EventIngestion` is a run of an ingestor from its first request to its report.
`run[r]` holds the phase, the target and attempt of the fetch loop, how many
records are still to be handled, the event between select and insert (`hand`),
whether the session is unusable (`poisoned`) and whether the alarm has struck;
`tally` holds the counts the run reports and five it does not, among them how
often a statement has failed and why (`errors`, `outages`); `table` is
`events_canonical`. The database may fail of itself at each statement that
reaches it (`MayFail`): what the session is like afterwards, and whether a commit
was done, is open where the code does not settle it. The sources differ in how many targets they ask for, how
often and after what they try again, whether they collect everything before they
store, and whether a failed target is skipped: `Loops` says so for each, and the
actions are the same. The two runs are processes of one source; runs of different
sources have no row in common.

| code | `EventIngestion` |
|---|---|
| `run`, `run_all_zones`: requests and retries | `Start`, `Answer`, `TryAgain`, `GiveUp` |
| the `while True` over the pages of ACLED | `Answer`, `PageOn` (past the bounds) |
| the record loop, mapper and validator | `Drop`, `Reject`, `RejectFails`, `Stumble` |
| `process_and_upsert_event` | `Select` then `Insert`, `InsertFails` or `InsertUnheard`; `SelectFails`; `Refresh` or `RefreshFails`; `Lose` (unusable session) |
| GDELT's `SIGALRM` | `AlarmInRequest`, `AlarmInRecord`, `AlarmInMapper`, `AlarmInReject`, `AlarmBetween` |
| end of the script at 300 s | `Kill` |
| `thermal_anomaly_job.run` | `DetectThermal` |

`EventStore` is the abstract specification of it: each event has a row or has
none; an event is counted as new in the step that makes its row, as known only
when it has one, as refused otherwise. Its one exception, `StoreInterrupted`,
makes a row that no count knows of: the alarm can strike between commit and
counter, or the answer to a commit not arrive. The refinement mapping (`Promise`) forgets phases, sessions and hands.

`MilitaryRelay` is the service and the API route in front of it (`Forwarded`).
Its handler is a coroutine that never awaits, so it serves one request at a time,
while the updater is a thread: the steps of the handler end where the updater can
get between (the list it reads may be half written), or where time passes. An
entry is fresh up to `TTL`, served with a mark up to twice that, then deleted. A
refusal of the source (429, 401, 403) becomes an empty answer that is cached as a
fresh one; only other failures reach the fallback.

`AisRelay` has the listener (`socket`, `backoff`), the store (`vessels`,
`connected`) and the API route that asks it once per area and merges by id.
`Cr360Proxy` has a request per thread, with an action for each stretch between
taking and giving up the lock. `RefreshPanel` has, per button, the answers and
polls under way, the poll the component knows of (`registered`) and the resets
it cannot cancel.

`Services` composes the last four: an instance of each, a step is one of one of
them, and `Off` stands for the nothing of all of them. They share no state, so a
behaviour of `MCServices` moves one of them only, chosen at the start (`part`); a
product of four independent machines would only multiply states. That the whole
composition has the properties of its parts is proved.

The modules whose name ends in `Proofs` hold the proofs.

## Runs

| run | instance | shows |
|---|---|---|
| `registry` | 2 keys, 4 ingestors | one running record per job and one process per script of a job; a record is running exactly while a task will close it; `all` keeps its order; closed records stay; accepted jobs end; all of which is what `JobSlots` promises |
| `registry_answers` | 1 ingestor | **violated**: a 409 carries an id that cannot be polled |
| `incidents` | 2 scenes with the same thresholds: 2 operators with 2 corrections beside one run of `all` and 1 fault, 2 events; or 2 runs of any of the three jobs, 3 events, until incidents are stale | the audit trail accounts for every correction, and every verdict has its record, up to what a crash cuts off; an incident keeps its founder; a run founds one incident on an event at most; sightings and sources are lost only where one clustering job overtakes the other; a verdict that no run is working against stands; `stale` is justified when committed; a run places everything it read |
| `reactivation` | `all`, 3 events, the last near a stale incident | **violated**: a second incident is founded at the place of a stale one |
| `verdict` | `clustering`, 1 operator | **violated**: a closed incident becomes `updated` |
| `count` | `clustering`, 3 sources | **violated**: three sources, two observations |
| `rerun` | `clustering`, 3 events in a chain | **violated**: a second run founds a second incident on an event |
| `quiet` | `all` and `lifecycle` | **violated**: an incident updated just now is reset to `open` |
| `ingestion` | every source; 2 runs of it, sent up to 3 and 1 records of 2 keys | each record is in one count; processed means stored; what is lost goes back to a failure, and a failure costs one refused record its row at most; a failed run of USGS or ACLED has stored nothing; severity tables; a run ends, unless full pages never do; it is an `EventStore` |
| `valid_events` | the same | **violated**: a valid ACLED event with actors is never stored |
| `services` | each service in turn | no flight, payload or vessel is older than it is said to be; caches spare their sources; the listener comes back; the panel tells the truth and lets go of its buttons |
| `fallback` | the same | **violated**: an error although there was an earlier answer |

The eight violated properties are statements of the documentation
(`PROJECT.json`, findings, quotes each); their counterexamples are what the code
does.

Some results need reading with care. `ObservationsAccumulate` names the one way
in which an incident loses what it has observed: `all` and `clustering` are
different keys of `JOBS`, two clustering sessions may hold the same row, and the
later commit writes the `last_seen` or the `sources` it computed from its older
copy. The property says that nothing else does it, and that a run does it only
when the row has been written since it loaded it (`Overtaken`). `FounderRemembered`
says what survives even then. `FoundedOncePerRun` is what a run keeps of the
promise that an event belongs to one incident; over several runs it is not kept,
which `rerun` shows. `AuditAccounts` counts a correction that names nothing to
change (`void`) like any other, since the code writes its audit row.

The life-cycle document has a new observation reactivate a stale incident. It
never happens: a run reads 24 hours and an incident is stale after 72, so the time
part of the distance alone exceeds every threshold (`StaleIsOutOfReach`, which TLC
evaluates for the instance of `incidents`). `reactivation` shows what happens
instead, and theorem `StaleIsLeftAlone` that it is so for all such thresholds; the
latter explains the finding and is no promise.

`LossExplained` does not say that losses are rare. An ACLED event carries its
actors as objects that the JSON column cannot take, so that its insert fails and,
until an invalid event happens to be quarantined, so does everything after it
(`valid_events`). The military ingestor asks for incidents by `location_point`, a
column that `incidents` does not have: the query raises for every flight, and none
is ever stored. These count as failed statements like any other. What the property
says is that a run without a failure loses nothing, and that the repair of the
session by a refused record works: without the rollback in `insert_quarantine`
one failure would cost every refused record after it its row.

`RunEnds` excludes one behaviour: ACLED answering with full pages for ever.
`fetch_all_events` ends by a short page or a failure and has no other limit. In
the model the pages past the bounds are full and change nothing but the page
number, which is what lets TLC see a run that never ends.

`NothingOutdated` compares times of the relay's clock, and an empty list is never
outdated: a refusal that is cached as an empty answer hides the flights there
are, which no property is about. `fallback` shows that an entry is deleted when it expires, while
the document promises the last answer whatever its age. `PayloadRecent` allows
one call's length over the TTL, since two threads may store their answers in the
other order; with the TTL alone TLC finds that order at once.

**Bounds.** Two keys are enough for two requests to compete and for a job to
start again; the ids of answers are never reused. A tick is half a day: window
2, stale age 6; the 15 minutes of `UPDATE_TO_OPEN_MINUTES` are less than a tick
(`UpdatedAge = 0`, and the comparison is strict). `TimeWeight = 2` and
`Epsilon = 4` (1 and 2 in `incidents`) let events up to one tick apart match, as the tables of the code
allow 14 to 22 hours. `MaxClock = 8` reaches stale incidents and one more tick,
in which the third event arrives in `reactivation`. Two events are the least for one
to extend what the other founded. In `incidents` the thresholds are the smallest
that keep their order (window and timeout 1, stale age 4); two runs are the least
for two clustering jobs to overlap on a row and for a lifecycle run to overlap
either; one fault lets a run fail, or the API crash, at any step; two corrections
allow a verdict and its reversal, and two requests at once. Its scene
`corrections` stops at tick 1 (`LastCorrection`), since what becomes stale is the
subject of `aging`, in which nobody corrects and nothing fails: the theorems are
about both together. `MaxIncidents` is larger than the number of incidents the
runs can need, so no run waits for a free row (`BatchAttributed` would fail).

In `ingestion` two runs let the select of one fall between the statements of the
other; more runs add no pair. Three records are the least for an insert to fail,
a quarantine to repair the session and a third event to use it, and the other
run's one record is the competitor. Two keys distinguish the event that two runs
share from one they do not. Two targets and two retries give a first and a last
of each; a page of two holds a full and a short page. One failure of the database
by itself (`MaxOutages`, in the run that is sent three records) meets every
statement and still leaves two records to come after it. `valid_events` has a third
target only because it needs none of the rest to be small.

In `services` the military relay has a TTL of 1 and runs to time 4, past the
deletion of an entry at 3; two areas make the limiter matter, and one aircraft,
which only the renewed list has, makes the list matter. The AIS relay has two
areas that overlap, one ship and two places, so that it can move from one area
into both. The proxy has two threads, the least for two calls to overlap, a TTL of
2 and a call of at most 1 (`Patience`, a bound on the whole call, which the
timeouts of its phases stand for), and runs to time 6, three TTLs. The panel has
`all` and one script with one job, or one script with two jobs one after the
other, so that timers of the first meet the second; the other buttons are alike.

**Deadlock** is checked in `services` and `fallback` only: elsewhere, when
the bounds are used up nothing needs to happen, and the real system may be idle.

**Fairness.** In `EventIngestion`, weak fairness of each run's next step: a
request is answered or times out, a statement returns, a process goes on. Nothing
has to start, be killed or be interrupted. `RunEnds` does not need `Kill`, and
nothing obliges a source to stop sending pages. In
`AisRelay`, weak fairness of `Wakes` (`asyncio.sleep` ends); nothing obliges a
connection to succeed. In `RefreshPanel`, weak fairness of the steps of each
button's polls and answers (timers fire, requests end), and of the end of each
job, which is `AcceptedJobEnds` of the registry. `MilitaryRelay` and `Cr360Proxy`
assume nothing. In the registry, weak fairness of every background task (the event
loop resumes them) and of every script's end (it is killed after 300 s). In
`Incidents`, weak fairness of each run's and each request's next step (a process
and a thread go on until they end). Nothing is assumed about requests, time,
ingestion or faults: the code has no scheduler. `BatchAttributed` is about runs
that no fault can stop any more. A clustering run lasts at most one tick
(`Timeout`), because the subprocess is killed; without this bound a run could
assign an event to an incident that has become stale meanwhile.

## Proofs

`JobRegistryProofs` proves, for every set of ids and of sources, that the
specification implies `TypeOK` and the four invariants of run `registry` and its
action property `TerminalIsFinal`. The argument is one inductive invariant,
`IInv`: the type invariant; that a key not handed out yet is unused
(`FreshKeysUnused`: `Accept` must not overwrite a live record); `RunningIffTask`
and `OneRunningPerName`, which support each other, since accepting a job is
guarded by records while processes belong to tasks; and, for each task, which
scripts it can be waiting for in the state it is in (`TaskShape`), from which
`OneProcessPerJob` and `ClusteringAfterIngestion` follow. None of the four is
inductive on its own. The assumptions are that `Sources` holds no other job's
name and that `NoRecord` is not a record. The proof has a step for every action,
`Restart` included.

`IncidentsProofs` is about `Incidents` with every set of events, positions,
thresholds and operators. Its first theorems are `TypeCorrect` and
`SettledVerdictsStay` (the action property `SettledStays`). `TypeOK` is not
inductive: a commit keeps it only if the row it writes exists and was loaded
before. `IInv` adds that: what a session has loaded exists (`CacheExists`), the
incidents of a run's work list exist and the one in hand is loaded (`JobHolds`),
and so are the incidents of a request that is about to commit (`OpHolds`). A step
of one session leaves these facts alone for the others (`OthersUntouched`), so
each action has one lemma about its own session. `SettledVerdictsStay` follows:
the queries of the runs select no settled incident, and a run writes incidents of
its work list or new ones. The assumptions are that `Events` and `Operators` are
finite (`Cardinality` is a number then; requests run in a thread pool), that
positions and centroids are integers, that no operator has a job's name, and that
`NoRow` is not a row. TLC has checked `IInv`, and the invariants below, on the
two scenes of run `incidents`.

Seven more theorems rest on `IInv`, each with an invariant of its own.

- `AuditFollows` (`AuditAccounts`) needs no more than counting: every action is
  shown to change corrections, applied or void, audit rows and requests between
  their transactions by the same amount, and a crash cuts off at most all operators at once
  (`AuditBound`).
- `StaleIsJustified` and `StaleIsLeftAlone`, from `StaleIsOutOfReach`. A lifecycle
  run decides on what it selected, so the invariant (`AgeInv`) says what has stayed
  true since: a clustering run is within its time and reads its window, and what
  it loaded has only been written by runs beside it (`Timely`); it assigns an
  event to an incident seen at about the event's time (`Near`); the incidents that
  a run is to make stale are still old, and none it is to reopen is stale
  (`WorksOnQuiet`); a stale incident is old (`StaleIsOld`); one run ages at a time
  (`OneAges`). The hypothesis adds up a window (24 h), two runs (5 min each) and
  the longest time at which anything matches (22 h): 72 h is more.
- `ObservationsAreKept` (`ObservationsAccumulate`), for any jobs. With one
  clustering job, what its session has loaded of sightings and sources is what the
  table has, since lifecycle runs and operators write other columns (`Observes`).
  With both, a commit gains on the row unless the copy it was computed from
  differs from it (`AssignGains`), which is what `Overtaken` says.
- `FoundersAreRemembered` (`FounderRemembered`): the row and every copy a session
  has of it agree on the founder, and each has it among its links, sources and
  times (`FoundInv`), so that an UPDATE may combine columns of both.
- `EventsFoundOncePerRun` (`FoundedOncePerRun`), by counting: a step that founds an
  incident on an event takes the event from the run's list, and a step that puts
  one on a list starts a run. It needs that an event a run is about to found on is
  on its list (`Placing`) and that founders never change (`FoundInv`).
- `VerdictsAreAudited` (`VerdictsAudited`): as long as nothing has crashed, every
  closed or false-positive row has an audit row or a request that is still to
  write it (`Accounted`); a run cannot write a verdict, although it writes back
  rows it loaded earlier.

`JobRegistryProofs` also proves `SlotsSafety`: under the mapping, every step of
the registry starts one job, ends one, forgets all, or stutters. It needs
`IInv` and one fact more, that a record carries one of the two ids of its own job
(`OwnUuid`). The fairness half of `JobSlots` is TLC's.

`EventIngestionProofs` proves for every set of runs, keys, retries, targets and
budgets the type invariant and the invariants `CountsAccount`,
`ProcessedIsStored`, `LossExplained` and `CollectedOrNothing`, and that the
specification implements `EventStore` (`ImplementsEventStore`); also
`ThermalFindsNothing`, the disagreement of the thermal job with its docstring. The
inductive invariant has five facts for each run: what phase allows which of the
other fields (`Shape`), that fetched records are left, in hand or counted
(`Balanced`), that rows and the processed count agree up to what an alarm or the
database hid (`RowsCounted`), that a loss has a failure behind it, and that an
unusable session is one of the failures not yet spent on a refused record
(`Excused`), and that a collecting run has settled nothing while it fetches
(`NothingYet`). `CollectedOrNothing` is not inductive without the last, `Balanced`
not without `Shape`, which says that a hand is only held in the phase that stores,
and the second half of `LossExplained` not without counting the session in.
The actions are first sorted
into three kinds, those that settle no record (`Waits`, `Answered`) and those that
settle one (`Settles`), so that an invariant has three proofs rather than
twenty; a lemma says what a step of one run leaves alone in the others (`OfRun`).
Rows are only ever made by `Insert`, whose guard is the unique constraint: this
is why the count of a run survives another run. Assumptions: the bounds are
natural numbers (`BoundsAssumption`), `NoRow` and `NoEvent` are neither rows
nor events, and `NoValue` is no number.

`Cr360ProxyProofs` proves the type invariant, `PayloadRecent` and `WarmNoCall` for
any threads, urls, TTL and `Patience`. The invariant adds to the types that a
request's times are in the order its steps take them (`Timely`) and that the cache
holds what the last to store put there (`KeptAsStored`). `MilitaryRelayProofs`
proves the type invariant, `NothingOutdated` and `SourceSpared` for any areas,
aircraft, lists and TTL; its invariant says that an answer's age fits its mark
(`Dated`) and that the last answer for an area is in the cache as long as it can
be served, while a request on its way to the source has found nothing there
(`KeptOrOld`).

`AisRelayProofs` proves the type invariant, `PatienceRenewed` and `NoVesselLost` for any areas, ships and waiting times. `NoVesselLost` needs
that no answer of a call, nor what has been merged of them, has an id twice
(`IdsAreUnique`), which holds although the store changes between the calls;
`PatienceRenewed` needs that nothing uses up the patience of an open connection
(`SocketAgrees`).
`RefreshPanelProofs` proves the type invariant, `RunningIsFollowed` and
`SuccessIsTrue` for any buttons, ids and pending requests. `RunningIsFollowed` is
inductive with the types; `SuccessIsTrue` needs that the id an answer or a poll
carries was drawn for a job of the button's name and, whether the API still knows
it or not, never becomes another's (`IdsAreOwn`, `KnownIsDrawn`).

The theorems of these four are stated under named hypotheses (the bounds are
natural numbers, `NoEntry` is no entry, areas are sets of places); `Services` has
them as assumptions, which TLC evaluates for the instance of `MCServices`.
`ServicesProofs` carries every theorem over to the composition: each part, seen
alone, steps as its module says or stutters, so that a behaviour of `Services` is
one of each of them.

`GraverGradesHigher` (`EventIngestionProofs`) is `SeverityGraded` by arithmetic
instead of enumeration. Each table is shown to be a step function over all the
readings it covers (`MagnitudeSteps` and its three like); that is more than the
intervals of the property, and says where the tables end: 999999 fatalities fall
back to the lowest grade.

Only model-checked: liveness (`AcceptedJobEnds`, `BatchAttributed`, `RunEnds`,
`ListenerSurvives`, `RunningEnds`, the fairness of `SlotsImplemented`), which is
beyond the prover. Every safety property of a passing run is a theorem.

## Seen while modelling

These are no findings, because no document states the contrary precisely, or the
models abstract from what they are about; they are worth a look.

- A refusal of OpenSky becomes an empty list, cached as a fresh answer
  (`services/military_relay/opensky_client.py:133-142`).
- `all` and `clustering` are different keys of `JOBS` (`backend/api/routes/admin.py`),
  so that two clustering runs can work side by side, and the later commit of the
  two overwrites what the other has added to an incident's `last_seen` and
  `sources`. `ObservationsAccumulate` names this as the only way to lose any.
- The docstring of `backend/jobs/thermal_anomaly_job.py` (lines 3-7) says that the
  job classifies hotspots and inserts `thermal_anomaly` events. It never does: the
  hotspot it looks at is itself in the fire history it looks for (theorem
  `NoAnomalies`).
- A correction that names nothing to change is answered and recorded like one that
  does (`backend/api/routes/corrections.py:54-62`, `87-97`).
- The pages of ACLED are asked for without a limit
  (`backend/ingestors/acled_ingestor.py:140`).
- The tests `e.response and ...` of the FIRMS and ACLED ingestors are never true of
  an error response, so that a 429 is not waited out and a 401 does not renew the
  token (`backend/ingestors/firms_ingestor.py:140`,
  `backend/ingestors/acled_ingestor.py:120`).
- The list of military aircraft is memoised; a request that reads it while the
  updater writes it keeps a partial list until the memo is cleared or the relay
  restarts (`services/military_relay/main.py:63`).
- `or` takes a coordinate of zero for a missing one
  (`backend/normalizers/gdelt_mapper.py:48`).
- `documentacion/specs_funcionales/ingesta/aisstream.md` (9) and
  `documentacion/specs_estructurales/fuentes-datos.md:533` promise stale answers
  with a header `X-Stale`. The API looks for it (`backend/api/routes/ais.py:102`), but
  the AIS relay only writes `isStale` into the body
  (`services/ais_relay/main.py:116-121`), which the API does not read, so that no
  caller is told.
- The AIS listener reconnects without a pause after a connection that the server
  closes as the protocol says, with `connected` still true, and waits only the base
  time after any other connection, however short
  (`services/ais_relay/aisstream_client.py:274-276`); the same document asks for an
  exponential backoff.
- Ids of vessels contain the second of reception, so that a vessel heard between
  the calls for two areas is in the merged answer twice.
- The reset 5 s after a failed click can set a button idle whose job is running
  by then (`frontend/src/components/panels/RefreshPanel.tsx:200`).
- A docstring of `services/military_relay/military_filter.py:90` describes a
  check of address ranges that `is_military` does not make
  (`is_hex_military_by_range` is called by nobody).

## Not modelled

The polling loops of the ingestors (`run_polling`, GDELT's single-zone `run`),
which no deployment starts; the clusters of military flights and the tokens of
OpenSky; the severity and confidence of incidents, which no decision reads; code
that nothing calls (the limiter in the relay's `main.py`, `mark_dark_ships`,
`run_ingestion_pipeline`, `validate_and_quarantine`, `actor_mapper`,
`reopen_closed`). The thermal job's distances are a question of geometry: the
model has what its queries return, not the degrees they are asked in. The routes
`incidents.py` and `aoi.py` are queries and statements on one row; map and stores
of the frontend are presentation; migrations and seeds are run once by hand;
`verify.py` observes a deployment.

What would come next: the composition of `JobRegistry` with `Incidents` and
`EventIngestion` (the jobs that the registry starts are the runs of the others;
now mutual exclusion is carried over as an assumption), and an abstract life cycle
that `Incidents` with one session refines.
