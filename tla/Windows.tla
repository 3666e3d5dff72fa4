-------------------------------- MODULE Windows --------------------------------
(***************************************************************************)
(* Series in time: instants and their calendar, rolling windows of rows    *)
(* and of durations, and resampling into buckets.                          *)
(*                                                                         *)
(* An instant is a count of nanoseconds, of which DayNanos make a day; the *)
(* representable range is not modelled.  A zone is the sequence of its     *)
(* spans: [from, offset], the first from before every instant.             *)
(***************************************************************************)
EXTENDS FrameOps

CONSTANTS DayNanos, MonthStarts   \* the days a month starts on

ASSUME CalendarAssumption == DayNanos \in Nat \ {0} /\ MonthStarts \subseteq Int

Timestamps == DOMAIN UnitToNanos
IsDateTime(s) == s.type \in Timestamps \cup {"date"}
NanosOf(type) == IF type = "date" THEN DayNanos ELSE UnitToNanos[type]

\* Series.TimeAt, and tsView.at on a single chunk.
Instants(s) == Each(Cells(s), LAMBDA v : v * NanosOf(s.type))

UTC == <<[from |-> -1000000, offset |-> 0]>>

-----------------------------------------------------------------------------
(* Wall clocks: time.In and time.Date. *)

SpanAt(zone, t) == CHOOSE i \in DOMAIN zone :
                      zone[i].from <= t /\ (i = Len(zone) \/ t < zone[i + 1].from)
OffsetAt(zone, t) == zone[SpanAt(zone, t)].offset
WallOf(zone, t) == t + OffsetAt(zone, t)
DayOf(wall) == wall \div DayNanos

\* The wall time is looked up as if it were an instant; when the instant it
\* gives lies outside of the span found, that instant's offset is taken.
InstantOf(zone, wall) ==
    LET span == SpanAt(zone, wall)
        guess == wall - zone[span].offset
    IN  IF zone[span].offset = 0 \/ SpanAt(zone, guess) = span THEN guess
        ELSE wall - OffsetAt(zone, guess)

\* The day of the week, Monday zero: day zero is a Thursday.
Weekday(day) == (day + 3) % 7

\* AddDate steps back with the time of day, and only the date is kept.
FirstDay(unit, zone, wall) ==
    LET day == DayOf(wall)
    IN  IF unit = "week" THEN DayOf(WallOf(zone, InstantOf(zone, wall - Weekday(day) * DayNanos)))
        ELSE Max({d \in MonthStarts : d <= day})

TruncateToCalendar(s, unit, zone) ==
    IF ~IsDateTime(s) THEN Failed
    ELSE Of("time_ns", Each(Instants(s), LAMBDA t :
                            InstantOf(zone, FirstDay(unit, zone, WallOf(zone, t)) * DayNanos)))

\* timeExtract, for the weekday (Sunday zero) and the time of day.
TimeExtract(s, field, zone) ==
    IF ~IsDateTime(s) THEN Failed
    ELSE Of("int64", Each(Instants(s), LAMBDA t :
             IF field = "weekday" THEN (DayOf(WallOf(zone, t)) + 4) % 7
             ELSE WallOf(zone, t) % DayNanos))

\* Only a single chunk of timestamps takes a label, and keeps its values.
WithTimezone(s) == IF Len(s.chunks) = 1 /\ s.type \in Timestamps THEN s ELSE Failed

-----------------------------------------------------------------------------
(* Instants. *)

FloorTo(ns, step) == LET cut == Quotient(ns, step) * step
                     IN  IF cut > ns THEN cut - step ELSE cut

TruncateTo(s, step) == IF ~IsDateTime(s) THEN Failed
                       ELSE Of("time_ns", Each(Instants(s), LAMBDA t : FloorTo(t, step)))

ShiftDuration(s, d) == IF ~IsDateTime(s) THEN Failed
                       ELSE Of("time_ns", Each(Instants(s), LAMBDA t : t + d))

DiffDuration(s, other) ==
    IF ~IsDateTime(s) \/ ~IsDateTime(other) \/ Length(s) # Length(other) THEN Failed
    ELSE Of("int64", Pairwise(Instants(s), Instants(other), LAMBDA a, b : a - b))

CmpTime(op, s, t) == IF ~IsDateTime(s) THEN Failed
                     ELSE Of("bool", Each(Instants(s), LAMBDA v : Bool(ApplyCmp(op, v, t))))

-----------------------------------------------------------------------------
(* Windows of rows. *)

\* The values of a window reduced; a count counts no value too.
ReduceWindow(kind, cells) ==
    LET present == Present(cells)
        values == [i \in DOMAIN present |-> present[i][1]]
        sum == FoldLeft(LAMBDA acc, v : ApplyF64("add", acc, v), 0, values)
    IN  IF kind = "count" THEN <<Len(values)>>
        ELSE IF values = <<>> THEN Null
        ELSE CASE kind = "sum" -> <<sum>>
               [] kind = "mean" -> <<ApplyF64("div", sum, Len(values) * Whole)>>
               [] kind = "min" -> <<Smallest(<<Infinity>> \o values)>>
               [] kind = "max" -> <<Largest(<<-Infinity>> \o values)>>

WindowType(kind) == IF kind = "count" THEN "int64" ELSE "float64"

\* Row i over the rows from i - window + 1; null before a window is full.
Rolling(s, window, kind) ==
    IF ~IsNumeric(s) \/ window < 1 THEN Failed
    ELSE LET numbers == Numbers(s)
             At(i) == IF i < window THEN Null
                      ELSE ReduceWindow(kind, SubSeq(numbers, i - window + 1, i))
         IN  Of(WindowType(kind), [i \in DOMAIN numbers |-> At(i)])

-----------------------------------------------------------------------------
(* Windows of a duration.  The left edge only ever moves right. *)

\* Fault: the left edge moves by one row where several have grown too old.
AdvanceOnce(times, left, i, period) ==
    IF left < i /\ (times[left] = Null \/ times[i][1] - times[left][1] > period)
    THEN left + 1 ELSE left

Advance(times, left, i, period) ==
    CHOOSE j \in left..i : /\ times[j] # Null /\ times[i][1] - times[j][1] <= period
                           /\ \A k \in left..(j - 1) :
                                 times[k] = Null \/ times[i][1] - times[k][1] > period

\* The walk over the rows: a null time gives an empty window.
Walk(times, period) ==
    LET Row(w, i) ==
            IF times[i] = Null THEN [w EXCEPT !.starts = Append(@, i + 1)]
            ELSE LET left == IF i > 1 /\ times[i][1] < w.last THEN w.left
                             ELSE Advance(times, w.left, i, period)
                 IN  [left |-> left, last |-> times[i][1],
                      monotonic |-> w.monotonic /\ ~(i > 1 /\ times[i][1] < w.last),
                      starts |-> Append(w.starts, left)]
    IN  FoldLeft(Row, [left |-> 1, last |-> 0, monotonic |-> TRUE, starts |-> <<>>],
                 [i \in DOMAIN times |-> i])

RollingBy(times, column, period, kind) ==
    IF period <= 0 \/ ~IsDateTime(times) \/ Len(times.chunks) # 1 THEN Failed
    ELSE LET walk == Walk(Instants(times), period)
             numbers == IF IsNumeric(column) THEN Numbers(column)
                        ELSE [i \in 1..Length(column) |-> Null]
             At(i) == IF walk.starts[i] > i THEN Null
                      ELSE ReduceWindow(kind, SubSeq(numbers, walk.starts[i], i))
         IN  IF ~walk.monotonic \/ (kind # "count" /\ ~IsNumeric(column)) THEN Failed
             ELSE Of(WindowType(kind), [i \in DOMAIN numbers |-> At(i)])

-----------------------------------------------------------------------------
(* Buckets. *)

\* appendFastAgg over one bucket: the first value seeds the extremes, and a
\* kind it does not know, the last value for one, is null.
FastAgg(kind, cells) ==
    LET present == Present(cells)
        values == [i \in DOMAIN present |-> present[i][1]]
    IN  CASE kind = "rows" -> <<Len(cells)>>
          [] kind \in {"count", "sum", "mean"} -> ReduceWindow(kind, cells)
          [] kind \notin {"min", "max"} \/ values = <<>> -> Null
          [] kind = "min" -> <<Smallest(values)>>
          [] kind = "max" -> <<Largest(values)>>

\* The sorted buckets that hold a row, and each one's aggregate.
Resample(f, timeCol, interval, column, kind) ==
    LET times == ColumnOf(f, timeCol)
        value == ColumnOf(f, column)
        floors == Each(Instants(times), LAMBDA t : FloorTo(t, interval))
        order == SetToSortSeq(Values(Present(floors)), LAMBDA a, b : a < b)
        numbers == Numbers(value)
        RowsIn(b) == SelectSeq([i \in DOMAIN floors |-> i], LAMBDA i : floors[i] = <<order[b]>>)
        Cell(b) == FastAgg(kind, IF kind = "rows" THEN RowsIn(b)
                                 ELSE [i \in DOMAIN RowsIn(b) |-> numbers[RowsIn(b)[i]]])
    IN  IF interval <= 0 \/ ~IsDateTime(times) \/ Len(times.chunks) # 1
           \/ (kind # "rows" /\ ~Single(value, "int64") /\ ~Single(value, "float64"))
        THEN FailedFrame
        ELSE IF times.type = "date" \/ (kind = "n_unique" /\ order # <<>>)
        THEN [names |-> <<"panic">>, cols |-> <<Panics>>]
        ELSE [names |-> <<timeCol, "agg">>,
              cols |-> <<Of("time_ns", [b \in DOMAIN order |-> <<order[b]>>]),
                         Of(IF kind \in {"rows", "count"} THEN "int64" ELSE "float64",
                            [b \in DOMAIN order |-> Cell(b)])>>]

=============================================================================
