---------------------------- MODULE QueryRequest ----------------------------
(***************************************************************************)
(* What a caller may ask of a metric (duckdb-query-api/src/handler/        *)
(* validation.rs): the range of time, the limit and the unit, each of      *)
(* which may be absent.  Times are integers of the width of an i64, of     *)
(* which chrono can represent those of MinTime .. MaxTime.                 *)
(***************************************************************************)
EXTENDS Metrics

CONSTANTS
    Absent,             \* a parameter that is not there
    Invalid,            \* ApiError::InvalidQuery
    MinInt, MaxInt,     \* i64
    MinTime, MaxTime,   \* what DateTime::from_timestamp_millis accepts
    MaxDays,            \* MAX_CALENDAR_RANGE_MS, in days
    DefaultDays,        \* DEFAULT_CALENDAR_RANGE_MS, in days
    MaxLimit, DefaultLimit,
    Unit, DefaultUnit

ASSUME RequestAssumption ==
    /\ MinInt \in Int /\ MaxInt \in Int /\ MinTime \in Int /\ MaxTime \in Int
    /\ MinInt <= MinTime /\ MinTime <= MaxTime /\ MaxTime <= MaxInt
    /\ MaxDays \in Nat /\ DefaultDays \in 0 .. MaxDays
    /\ MaxLimit \in Nat /\ DefaultLimit \in 1 .. MaxLimit
    /\ DefaultUnit \in Unit

MaxRange == MaxDays * DayLength

DefaultRange == DefaultDays * DayLength

Representable(t) == MinTime <= t /\ t <= MaxTime

(* i64::checked_sub, as a set with at most one member.                     *)
CheckedSub(a, b) == {a - b} \cap (MinInt .. MaxInt)

\* A variant that wraps instead, and does without from_timestamp_millis.
ValidateTimeRangeWrapping(from, to, now) ==
    CASE from = Absent /\ to = Absent -> [from |-> now - DefaultRange, to |-> now]
      [] from = Absent \/ to = Absent -> Invalid
      [] OTHER ->
           LET width == MaxInt - MinInt + 1
               range == ((to - from - MinInt) % width) + MinInt
           IN  IF from <= to /\ range <= MaxRange THEN [from |-> from, to |-> to] ELSE Invalid

ValidateTimeRange(from, to, now) ==
    CASE from = Absent /\ to = Absent -> [from |-> now - DefaultRange, to |-> now]
      [] from = Absent \/ to = Absent -> Invalid
      [] OTHER ->
           IF /\ Representable(from) /\ Representable(to)
              /\ from <= to
              /\ \E range \in CheckedSub(to, from) : range <= MaxRange
           THEN [from |-> from, to |-> to]
           ELSE Invalid

ValidateLimit(limit) ==
    LET asked == IF limit = Absent THEN DefaultLimit ELSE limit
    IN  IF asked \in 1 .. MaxLimit THEN asked ELSE Invalid

ValidateUnit(unit) ==
    LET asked == IF unit = Absent THEN DefaultUnit ELSE unit
    IN  IF asked \in Unit THEN asked ELSE Invalid

(***************************************************************************)
(* What a handler makes of the parameters of its metric.  Every metric     *)
(* takes a range, one also a limit, two also a unit; now is the time at    *)
(* which the handler runs, which is before the query does.                 *)
(***************************************************************************)
Metric == {"range", "limit", "unit"}

Query(metric, params, now) ==
    LET range == ValidateTimeRange(params.from, params.to, now)
        limit == IF metric = "limit" THEN ValidateLimit(params.limit) ELSE DefaultLimit
        unit  == IF metric = "unit" THEN ValidateUnit(params.unit) ELSE DefaultUnit
    IN  IF Invalid \in {range, limit, unit}
        THEN Invalid
        ELSE [from |-> range.from, to |-> range.to, limit |-> limit, unit |-> unit]

(***************************************************************************)
(* A query that no caller can make too large: its range is in order and    *)
(* touches at most one day more than the longest range, and its limit is   *)
(* within bounds.  It is what the SQL, the rows of which are days, relies  *)
(* on (validation.rs:45-88).                                               *)
(***************************************************************************)
Bounded(query) ==
    /\ query.from <= query.to
    /\ Day(query.to) - Day(query.from) <= MaxDays
    /\ query.limit \in 1 .. MaxLimit
    /\ query.unit \in Unit

=============================================================================
