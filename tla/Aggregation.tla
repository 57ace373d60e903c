----------------------------- MODULE Aggregation -----------------------------
(***************************************************************************)
(* query/src/aggregation.rs: a query's points are thinned out, cut into    *)
(* windows of one size and each window that holds a point is aggregated.   *)
(*                                                                         *)
(* The loop over the windows is the module's state machine, one step per   *)
(* window; its caller hands it the points in the order of timestamps.  The *)
(* end of a window is computed in 64 bits and wraps at Modulus, as in the  *)
(* release build.  Values are integers, NaN, or the infinities that Min    *)
(* and Max start from; a quotient is kept as a pair, and the standard      *)
(* deviation as its square.                                                *)
(***************************************************************************)
EXTENDS Integers, Sequences, FiniteSets, FiniteSetsExt

CONSTANTS
  Timestamps,  (* the timestamps a point may carry                         *)
  Values,      (* the values a point may carry: integers and NaN           *)
  Modulus,     (* 2^64                                                     *)
  MaxWindows,  (* bound: the windows a call may push                       *)
  NaN,         (* the value that is not a number                           *)
  Infinity     (* larger than any number                                   *)

ASSUME ClockWidthAssumption == Modulus \in Nat \ {0}
ASSUME PointTimesAssumption == Timestamps \subseteq 0 .. Modulus - 1
ASSUME NumbersAssumption == Values \subseteq Int \cup {NaN} /\ NaN \notin Int /\ Infinity \in Int

Point == [timestamp : Timestamps, value : Values]

Aggregations == {"Sum", "Avg", "Min", "Max", "Count", "First", "Last", "StdDev"}

VARIABLES
  stage,                 (* "idle", "windows" or "returned"                *)
  points,                (* the points the call was given                  *)
  aggregation,           (* what it computes of each window                *)
  window_size,
  current_window_start,
  windows                (* the aggregated points, in the order pushed     *)

windowVars == <<stage, points, aggregation, window_size, current_window_start, windows>>

-----------------------------------------------------------------------------
(* downsample_points *)

CeilDiv(a, b) == (a + b - 1) \div b

\* The places kept of len points: every step-th from the first, and no more
\* than max_points of them.  By 0 the step saturates, and only the first is
\* reached, before the limit is tested.
Kept(len, max_points) ==
  LET step == IF max_points = 0 THEN len ELSE CeilDiv(len, max_points)
      limit == Max({max_points, 1})
  IN  [n \in 1 .. Min({CeilDiv(len, step), limit}) |-> 1 + (n - 1) * step]

\* Faulty variant: a step rounded down reaches only the head of the points.
DownsampleFloor(ps, max_points) ==
  IF Len(ps) <= max_points THEN ps
  ELSE [n \in 1 .. Max({max_points, 1}) |->
          ps[1 + (n - 1) * (IF max_points = 0 THEN 0 ELSE Len(ps) \div max_points)]]

Downsample(ps, max_points) ==
  IF Len(ps) <= max_points THEN ps
  ELSE LET places == Kept(Len(ps), max_points)
       IN  [n \in DOMAIN places |-> ps[places[n]]]

\* ks are points of ps a fixed number of places apart, from the first to the
\* last; at most max_points of them, and more than half as many.
Even(ps, ks, max_points) ==
  IF Len(ps) <= max_points THEN ks = ps
  ELSE \E gap \in 1 .. Len(ps) :
         /\ \A n \in DOMAIN ks : 1 + (n - 1) * gap <= Len(ps) /\ ks[n] = ps[1 + (n - 1) * gap]
         /\ 1 + Len(ks) * gap > Len(ps)
         /\ Len(ks) <= Max({1, max_points})
         /\ max_points < 2 * Len(ks)

-----------------------------------------------------------------------------
(* The value of one window, given the places of its points *)

NumbersOf(inside) == {points[i].value : i \in inside} \ {NaN}

SumOf(inside) ==
  IF \E i \in inside : points[i].value = NaN THEN NaN
  ELSE SumFunction([i \in inside |-> points[i].value])

\* The variance, times the square of the number of points.
SpreadOf(inside) ==
  IF SumOf(inside) = NaN THEN NaN
  ELSE Cardinality(inside) * SumFunction([i \in inside |-> points[i].value * points[i].value])
         - SumOf(inside) * SumOf(inside)

\* Faulty variant: the average divides by all the points of the call.
AggregatedOverAll(op, inside) ==
  CASE op = "Sum"    -> SumOf(inside)
    [] op = "Avg"    -> <<SumOf(inside), Len(points)>>
    [] op = "Min"    -> Min(NumbersOf(inside) \cup {Infinity})
    [] op = "Max"    -> Max(NumbersOf(inside) \cup {-Infinity})
    [] op = "Count"  -> Cardinality(inside)
    [] op = "First"  -> points[Min(inside)].value
    [] op = "Last"   -> points[Max(inside)].value
    [] op = "StdDev" -> <<SpreadOf(inside), Cardinality(inside) * Cardinality(inside)>>

Aggregated(op, inside) ==
  CASE op = "Sum"    -> SumOf(inside)
    [] op = "Avg"    -> <<SumOf(inside), Cardinality(inside)>>
    [] op = "Min"    -> Min(NumbersOf(inside) \cup {Infinity})
    [] op = "Max"    -> Max(NumbersOf(inside) \cup {-Infinity})
    [] op = "Count"  -> Cardinality(inside)
    [] op = "First"  -> points[Min(inside)].value
    [] op = "Last"   -> points[Max(inside)].value
    [] op = "StdDev" -> <<SpreadOf(inside), Cardinality(inside) * Cardinality(inside)>>

-----------------------------------------------------------------------------
(* aggregate_points *)

\* A call with the points ps, aggregation op and windows of one size.
BeginWindows(ps, op, size) ==
  /\ stage = "idle"
  /\ stage' = "windows"
  /\ points' = ps
  /\ aggregation' = op
  /\ window_size' = size
  /\ current_window_start' = IF ps = <<>> THEN 0 ELSE ps[1].timestamp
  /\ windows' = <<>>

window_end == (current_window_start + window_size) % Modulus

\* Faulty variant: the window is closed on the right.
InsideClosed ==
  {i \in DOMAIN points : /\ current_window_start <= points[i].timestamp
                         /\ points[i].timestamp <= window_end}

Inside ==
  {i \in DOMAIN points : /\ current_window_start <= points[i].timestamp
                         /\ points[i].timestamp < window_end}

PastEnd == points = <<>> \/ points[Len(points)].timestamp < current_window_start

\* Faulty variant: a window without points is skipped before the next begins.
NextWindowSkipping ==
  /\ stage = "windows"
  /\ ~PastEnd
  /\ Len(windows) < MaxWindows
  /\ \/ Inside = {} /\ UNCHANGED <<windows, current_window_start>>
     \/ /\ Inside # {}
        /\ windows' = Append(windows, [timestamp |-> current_window_start,
                                       value     |-> Aggregated(aggregation, Inside),
                                       count     |-> Cardinality(Inside)])
        /\ current_window_start' = window_end
  /\ UNCHANGED <<stage, points, aggregation, window_size>>

\* A window without points leaves no trace.  A loop that starts over, its
\* window's end having wrapped, may push points for ever: MaxWindows bounds it.
NextWindow ==
  /\ stage = "windows"
  /\ ~PastEnd
  /\ Len(windows) < MaxWindows
  /\ windows' = IF Inside = {} THEN windows
                ELSE Append(windows, [timestamp |-> current_window_start,
                                      value     |-> Aggregated(aggregation, Inside),
                                      count     |-> Cardinality(Inside)])
  /\ current_window_start' = window_end
  /\ UNCHANGED <<stage, points, aggregation, window_size>>

EndWindows ==
  /\ stage = "windows"
  /\ PastEnd
  /\ stage' = "returned"
  /\ UNCHANGED <<points, aggregation, window_size, current_window_start, windows>>

\* The caller takes the answer.
TakeWindows ==
  /\ stage = "returned"
  /\ stage' = "idle"
  /\ points' = <<>>
  /\ windows' = <<>>
  /\ current_window_start' = 0
  /\ UNCHANGED <<aggregation, window_size>>

Chronologic(ps) == \A i, j \in DOMAIN ps : i < j => ps[i].timestamp <= ps[j].timestamp

\* What the module asks of its caller.
BeginSorted ==
  /\ points' \in Seq(Point)
  /\ Chronologic(points')
  /\ aggregation' \in Aggregations
  /\ window_size' \in 0 .. Modulus - 1
  /\ BeginWindows(points', aggregation', window_size')

WindowsInit ==
  /\ stage = "idle"
  /\ points = <<>>
  /\ aggregation = "Count"
  /\ window_size = 0
  /\ current_window_start = 0
  /\ windows = <<>>

WindowsNext == BeginSorted \/ NextWindow \/ EndWindows \/ TakeWindows

WindowsSpec == WindowsInit /\ [][WindowsNext]_windowVars

-----------------------------------------------------------------------------
(* Properties *)

\* No window is empty, and the last one a point may need ends before Modulus.
Fits(ps, size) ==
  size > 0 /\ \A i \in DOMAIN ps : ps[i].timestamp + size < Modulus

Proper == Fits(points, window_size)

Covers(window, p) ==
  /\ window.timestamp <= p.timestamp
  /\ p.timestamp < window.timestamp + window_size

\* The windows of an answer partition its points: every point is in a window,
\* the windows are in order and do not overlap, and each counts the points in
\* it, of which there are some (aggregation.rs aggregate_points).
WindowsPartition ==
  stage = "returned" /\ Proper =>
    /\ \A i \in DOMAIN points : \E w \in DOMAIN windows : Covers(windows[w], points[i])
    /\ \A v, w \in DOMAIN windows :
         v < w => windows[v].timestamp + window_size <= windows[w].timestamp
    /\ \A w \in DOMAIN windows :
         /\ windows[w].count > 0
         /\ windows[w].count = Cardinality({i \in DOMAIN points : Covers(windows[w], points[i])})

\* The parts add up to the whole; with a NaN among them, to NaN.
AddsUp(parts, whole) ==
  IF NaN \in Range(parts) THEN whole = NaN ELSE SumFunction(parts) = whole

\* Rolled up further, the windows give what the points give at once: no value
\* is used twice, left out, or weighed by another window's points
\* (aggregation.rs aggregate_points).
WindowsRollUp ==
  stage = "returned" /\ Proper /\ points # <<>> =>
    LET value == [w \in DOMAIN windows |-> windows[w].value]
        total == Aggregated(aggregation, DOMAIN points)
    IN  /\ aggregation \in {"Sum", "Count"} => AddsUp(value, total)
        /\ aggregation = "Avg" =>
             /\ AddsUp([w \in DOMAIN value |-> value[w][1]], total[1])
             /\ AddsUp([w \in DOMAIN value |-> value[w][2]], total[2])
        /\ aggregation = "Min" => Min(Range(value)) = total
        /\ aggregation = "Max" => Max(Range(value)) = total
        /\ aggregation = "First" => value[1] = total
        /\ aggregation = "Last" => value[Len(windows)] = total
=============================================================================
