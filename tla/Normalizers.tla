---------------------------- MODULE Normalizers ----------------------------
(***************************************************************************)
(* What the mappers of backend/normalizers make of one record of a source, *)
(* and what the validator says of the result.  Everything here is a        *)
(* function of the record: a state is only needed to store what comes out. *)
(*                                                                         *)
(* Magnitudes, fire powers and Goldstein scores are in tenths, and so are  *)
(* severities; fatalities are counted.  A field a record may lack has the  *)
(* value NoValue.  Coordinates and times are reduced to what the mappers   *)
(* and the validator can tell apart.                                       *)
(***************************************************************************)
EXTENDS Integers, FiniteSets

CONSTANTS
  Keys,       \* event_id_source of an event, the one of records without id too
  NoValue     \* None

ASSUME NoValueAssumption == NoValue \notin Int

Sources == {"usgs", "firms", "acled", "gdelt", "military"}

-----------------------------------------------------------------------------
(***************************************************************************)
(* Severity: tables of half-open brackets [low, high).                     *)
(***************************************************************************)
Far == 10000000    \* stands for float("inf")

Bracket(low, high, severity) ==
  [low |-> low, high |-> high, severity |-> severity]

MagnitudeTable ==
  {Bracket(0, 40, 10), Bracket(40, 50, 20), Bracket(50, 60, 40),
   Bracket(60, 70, 60), Bracket(70, 80, 80), Bracket(80, Far, 100)}

FirePowerTable ==
  {Bracket(0, 40, 10), Bracket(40, 80, 25), Bracket(80, 250, 50),
   Bracket(250, 500, 75), Bracket(500, Far, 100)}

FatalitiesTable ==
  {Bracket(0, 1, 10), Bracket(1, 6, 30), Bracket(6, 26, 50),
   Bracket(26, 101, 70), Bracket(101, 501, 85), Bracket(501, 999999, 100)}

GoldsteinTable ==
  {Bracket(-Far, -80, 100), Bracket(-80, -60, 85), Bracket(-60, -40, 65),
   Bracket(-40, -20, 45), Bracket(-20, 0, 25), Bracket(0, Far, 10)}

ClosedBrackets(rows, x) ==    \* mutant of Brackets: <= at both ends
  {row \in rows : row.low <= x /\ x <= row.high}

Brackets(rows, x) == {row \in rows : row.low <= x /\ x < row.high}

(* _normalize_severity: 1.0 when no bracket has the reading. *)
Graded(rows, x) ==
  IF Brackets(rows, x) = {} THEN 10
  ELSE (CHOOSE row \in Brackets(rows, x) : TRUE).severity

(* math.ceil of a magnitude; 0 and None are falsy and graded as 0. *)
Magnitude(m) == IF m = NoValue THEN 0 ELSE ((m + 9) \div 10) * 10

(* max(fatalities or 0, 0). *)
Fatalities(f) == IF f = NoValue \/ f < 0 THEN 0 ELSE f

UsgsSeverity(m) == Graded(MagnitudeTable, Magnitude(m))

FirmsSeverity(power) == Graded(FirePowerTable, power)

AcledSeverity(f) == Graded(FatalitiesTable, Fatalities(f))

GdeltSeverity(score) ==
  IF score = NoValue THEN 10 ELSE Graded(GoldsteinTable, score)

(* The relay may say that a flight is interesting.                         *)
MilitarySeverity(interesting) == IF interesting = NoValue THEN 30 ELSE 60

Severity(src, x) ==
  CASE src = "usgs"     -> UsgsSeverity(x)
    [] src = "firms"    -> FirmsSeverity(x)
    [] src = "acled"    -> AcledSeverity(x)
    [] src = "gdelt"    -> GdeltSeverity(x)
    [] src = "military" -> MilitarySeverity(x)

-----------------------------------------------------------------------------
(***************************************************************************)
(* Event types and categories.                                             *)
(***************************************************************************)
UsgsRawCategory(type) == type    \* mutant of UsgsCategory: not mapped

UsgsCategory(type) ==
  IF type \in {"earthquake", "explosion", "quarry blast", "ice quake",
               "sonic boom"}
  THEN "disaster_natural" ELSE "other"

FirmsCategory(type) == IF type = 0 THEN "wildfire" ELSE "other"

(* GDELT_SUBCATEGORY_MAP and GDELT_CATEGORY_MAP; a name that is in neither *)
(* leaves the type to the next field.                                      *)
Subcategory == [ARMED_CONFLICT |-> "conflict_battle",
                BOMBINGS       |-> "conflict_explosion",
                PROTESTS       |-> "social_protest"]

Category == [BATTLES |-> "conflict_battle", RIOTS |-> "social_riot"]

(* _map_category: the first field that says something, in this order. *)
GdeltType(subcategory, category, title) ==
  IF subcategory \in DOMAIN Subcategory THEN Subcategory[subcategory]
  ELSE IF category \in DOMAIN Category THEN Category[category]
  ELSE IF title = "airstrike" THEN "conflict_airstrike"
  ELSE "conflict_unknown"

GdeltCategory(type) ==
  IF type \in {"social_protest", "social_riot"} THEN "other" ELSE "conflict"

-----------------------------------------------------------------------------
(***************************************************************************)
(* Records.  A place is inside or outside the valid ranges, on the equator *)
(* or a zero meridian (a falsy coordinate), blank (an empty text, from the *)
(* sources that send texts), or missing.                                   *)
(***************************************************************************)
Places == {"inside", "zero", "outside", "missing"}
Texts  == Places \cup {"blank"}
Times  == {"past", "future"}

UsgsRecords ==
  [id: Keys, reading: {NoValue, 0, 58}, type: {"earthquake", "meteorite"},
   place: Places, time: Times]

FirmsRecords ==
  [id: Keys, reading: {0, 510}, type: {0, 1, 2},
   confidence: {"low", "nominal", "high"}, place: Texts, time: Times]

AcledRecords ==
  [id: Keys, reading: {NoValue, -2, -1, 7}, actors: BOOLEAN, place: Texts,
   time: Times]

GdeltRecords ==
  [id: Keys, reading: {NoValue, -85}, fatalities: {NoValue, -2, 3},
   subcategory: {NoValue, "BOMBINGS", "PROTESTS"},
   category: {NoValue, "RIOTS"}, title: {NoValue, "airstrike"},
   place: Places, time: Times]

MilitaryRecords ==
  [id: Keys, reading: {NoValue, 1}, place: Places, time: Times]

Raws(src) ==
  CASE src = "usgs"     -> UsgsRecords
    [] src = "firms"    -> FirmsRecords
    [] src = "acled"    -> AcledRecords
    [] src = "gdelt"    -> GdeltRecords
    [] src = "military" -> MilitaryRecords

(* The canonical event, as far as a later step looks at it.  A list of     *)
(* Actor objects is what the JSON column cannot store.                     *)
Event(id, category, severity, place, time, fatalities, actors) ==
  [key |-> id, category |-> category, severity |-> severity, place |-> place,
   time |-> time, fatalities |-> fatalities, actors |-> actors]

(* What the mappers make of a record they do not refuse.                   *)
NormalizeUsgs(raw) ==
  Event(raw.id, UsgsCategory(raw.type), Severity("usgs", raw.reading),
        raw.place, raw.time, NoValue, FALSE)

NormalizeFirms(raw) ==
  Event(raw.id, FirmsCategory(raw.type), Severity("firms", raw.reading),
        raw.place, raw.time, NoValue, FALSE)

NormalizeAcled(raw) ==
  Event(raw.id, "conflict", Severity("acled", raw.reading), raw.place,
        raw.time, raw.reading, raw.actors)

(* GDELT's "or" takes a zero coordinate for a missing one.                 *)
GdeltPlace(place) == IF place = "zero" THEN "missing" ELSE place

NormalizeGdelt(raw) ==
  Event(raw.id,
        GdeltCategory(GdeltType(raw.subcategory, raw.category, raw.title)),
        Severity("gdelt", raw.reading), GdeltPlace(raw.place), raw.time,
        raw.fatalities, FALSE)

(* _map_to_canonical: a flight without a coordinate is at 0.0.             *)
NormalizeMilitary(raw) ==
  Event(raw.id, "mobility", Severity("military", raw.reading),
        IF raw.place = "missing" THEN "zero" ELSE raw.place, raw.time,
        NoValue, TRUE)

Normalize(src, raw) ==
  CASE src = "usgs"     -> NormalizeUsgs(raw)
    [] src = "firms"    -> NormalizeFirms(raw)
    [] src = "acled"    -> NormalizeAcled(raw)
    [] src = "gdelt"    -> NormalizeGdelt(raw)
    [] src = "military" -> NormalizeMilitary(raw)

(* validate_event; an event without a place does not get this far. *)
Rejected(event) ==
  \/ event.place = "outside"                                 \* INVALID_COORDS
  \/ event.time = "future"                                   \* FUTURE_DATE
  \/ event.fatalities # NoValue /\ event.fatalities < -1     \* NEGATIVE_...

(* normalize_firms_row refuses a hotspot by its confidence or its type, by *)
(* a ValueError that run counts as skipped.  Pydantic's error for a        *)
(* missing coordinate is a ValueError too and names NoneType: run takes it *)
(* for an invalid type.  The one for a blank text names no type.           *)
Skipped(src, raw) ==
  /\ src = "firms"
  /\ \/ raw.confidence = "low"
     \/ raw.type \notin {0, 1}
     \/ raw.place = "missing"

(* The constructor raises: pydantic asks for two numbers. *)
Malformed(src, raw) ==
  /\ Normalize(src, raw).place \in {"missing", "blank"}
  /\ ~Skipped(src, raw)

(* What becomes of a record before the table is looked at. *)
Verdict(src, raw) ==
  IF Skipped(src, raw) THEN "skipped"
  ELSE IF Malformed(src, raw) THEN "malformed"
  ELSE IF Rejected(Normalize(src, raw)) THEN "rejected"
  ELSE "valid"

Handle(src, raw) ==
  LET event == Normalize(src, raw)
  IN [verdict |-> Verdict(src, raw), key |-> event.key,
      category |-> event.category, actors |-> event.actors]

Categories == {"disaster_natural", "wildfire", "conflict", "mobility", "other"}

HandledBy(src) == {Handle(src, raw) : raw \in Raws(src)}

Handled ==
  [usgs  |-> HandledBy("usgs"),  firms    |-> HandledBy("firms"),
   acled |-> HandledBy("acled"), gdelt    |-> HandledBy("gdelt"),
   military |-> HandledBy("military")]

-----------------------------------------------------------------------------
(***************************************************************************)
(* Readings over which severity is checked; 999999 fatalities and more     *)
(* fall out of the table and back to 1.0.                                  *)
(***************************************************************************)
Readings(src) ==
  CASE src = "usgs"     -> 0 .. 95
    [] src = "firms"    -> 0 .. 520
    [] src = "acled"    -> 0 .. 510
    [] src = "gdelt"    -> -100 .. 100
    [] src = "military" -> {}

TableOf(src) ==
  CASE src = "usgs"     -> MagnitudeTable
    [] src = "firms"    -> FirePowerTable
    [] src = "acled"    -> FatalitiesTable
    [] src = "gdelt"    -> GoldsteinTable
    [] src = "military" -> {}

(* The sources whose tables have one bracket for each reading, and whose   *)
(* severity, between 1.0 and 10.0, never falls (never rises, for gdelt's   *)
(* scale) from one reading to the next.                                    *)
GradedSources ==
  {src \in Sources :
     \A x \in Readings(src) :
       /\ Cardinality(Brackets(TableOf(src), x)) = 1
       /\ Severity(src, x) \in 10 .. 100
       /\ x + 1 \in Readings(src) =>
            IF src = "gdelt"
            THEN Severity(src, x) >= Severity(src, x + 1)
            ELSE Severity(src, x) <= Severity(src, x + 1)}
=============================================================================
