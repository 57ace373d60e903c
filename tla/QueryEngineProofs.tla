-------------------------- MODULE QueryEngineProofs --------------------------
(***************************************************************************)
(* Aggregation and the queries of QueryEngine, for any points, window      *)
(* sizes, limits, batches and arrivals.                                    *)
(*                                                                         *)
(* First what aggregate_points and downsample answer: the windows of an    *)
(* answer partition its points, a call with windows of no size does not    *)
(* return, and points are thinned out evenly.  WindowsPartition is about   *)
(* calls that have returned.  What holds at each turn of the loop is       *)
(* WindowsInv: the windows pushed so far are right for the points before   *)
(* current_window_start.                                                   *)
(*                                                                         *)
(* Then the engine: a call answers all of its queries or the first error,  *)
(* with what the store and the windows have given it, thinned out and      *)
(* counted as asked for, and a later query finds no less.  BatchInv        *)
(* follows the call from one query to the next, CallerInv its scans,       *)
(* ResultsInv what each result was made of, ErrorInv what was valid and    *)
(* known, and LaterInv a point from the scan that found it to the later    *)
(* ones.                                                                   *)
(***************************************************************************)
EXTENDS QueryEngine, SumProofs, SequenceTheorems, FiniteSetTheorems, TLAPS

-----------------------------------------------------------------------------
(* The windows of aggregate_points *)

WindowsTypeOK ==
  /\ stage \in {"idle", "windows", "returned"}
  /\ points \in Seq(Point)
  /\ window_size \in 0 .. Modulus - 1
  /\ current_window_start \in 0 .. Modulus - 1
  /\ windows \in Seq({windows[w] : w \in DOMAIN windows})
  /\ \A w \in DOMAIN windows : windows[w].timestamp \in Nat

CoveredBefore(time) ==
  \A i \in DOMAIN points :
    points[i].timestamp < time => \E w \in DOMAIN windows : Covers(windows[w], points[i])

InOrder ==
  \A v, w \in DOMAIN windows :
    v < w => windows[v].timestamp + window_size <= windows[w].timestamp

EndBefore(time) == \A w \in DOMAIN windows : windows[w].timestamp + window_size <= time

CountedOnce ==
  \A w \in DOMAIN windows :
    /\ windows[w].count > 0
    /\ windows[w].count = Cardinality({i \in DOMAIN points : Covers(windows[w], points[i])})

LoopInv ==
  Proper =>
    /\ CoveredBefore(current_window_start)
    /\ InOrder
    /\ EndBefore(current_window_start)
    /\ CountedOnce

WindowsInv ==
  /\ WindowsTypeOK
  /\ Chronologic(points)
  /\ LoopInv
  /\ stage = "returned" => PastEnd

-----------------------------------------------------------------------------

LEMMA TimestampRange == \A p \in Point : p.timestamp \in Nat /\ p.timestamp < Modulus
<1>1. \A t \in Timestamps : t \in Nat /\ t < Modulus
  BY PointTimesAssumption, ClockWidthAssumption
<1> QED
  BY <1>1 DEF Point

LEMMA PointTimes ==
  ASSUME WindowsTypeOK, NEW i \in DOMAIN points
  PROVE  points[i].timestamp \in Nat /\ points[i].timestamp < Modulus
BY TimestampRange DEF WindowsTypeOK

\* Points are before the end of the points where the last one is.
LEMMA LastIsLatest ==
  ASSUME WindowsTypeOK, Chronologic(points), NEW i \in DOMAIN points
  PROVE  points[i].timestamp <= points[Len(points)].timestamp
<1>1. i \in 1 .. Len(points) /\ Len(points) \in Nat /\ DOMAIN points = 1 .. Len(points)
  BY DEF WindowsTypeOK
<1>2. Len(points) \in DOMAIN points
  BY <1>1
<1>3. points[i].timestamp \in Nat
  BY PointTimes
<1>4. CASE i = Len(points)
  BY <1>4, <1>3
<1>5. CASE i < Len(points)
  BY <1>5, <1>2 DEF Chronologic
<1> QED
  BY <1>1, <1>4, <1>5

LEMMA InsideFinite ==
  ASSUME WindowsTypeOK
  PROVE  IsFiniteSet(Inside) /\ Cardinality(Inside) \in Nat /\ (Inside # {} => Cardinality(Inside) > 0)
<1>1. IsFiniteSet(1 .. Len(points))
  BY FS_Interval DEF WindowsTypeOK
<1>2. Inside \subseteq 1 .. Len(points)
  BY DEF WindowsTypeOK, Inside
<1>3. IsFiniteSet(Inside)
  BY <1>1, <1>2, FS_Subset
<1>4. Cardinality(Inside) \in Nat
  BY <1>3, FS_CardinalityType
<1>5. Inside # {} => Cardinality(Inside) # 0
  BY <1>3, FS_EmptySet
<1> QED
  BY <1>3, <1>4, <1>5

\* A window that a point may yet need ends before the clock wraps.
LEMMA ProperEnd ==
  ASSUME WindowsInv, Proper, ~PastEnd
  PROVE  window_end = current_window_start + window_size
<1>1. Len(points) \in DOMAIN points
  BY DEF WindowsInv, WindowsTypeOK, PastEnd
<1>2. points[Len(points)].timestamp \in Nat
  BY <1>1, PointTimes DEF WindowsInv
<1>3. points[Len(points)].timestamp + window_size < Modulus
  BY <1>1 DEF Proper, Fits
<1>4. current_window_start <= points[Len(points)].timestamp
  BY <1>2 DEF PastEnd, WindowsInv, WindowsTypeOK
<1>5. /\ current_window_start \in Nat /\ window_size \in Nat /\ Modulus \in Nat \ {0}
  BY ClockWidthAssumption DEF WindowsInv, WindowsTypeOK
<1>6. current_window_start + window_size \in 0 .. Modulus - 1
  BY <1>2, <1>3, <1>4, <1>5
<1>7. \A n \in 0 .. Modulus - 1 : n % Modulus = n
  BY <1>5
<1> QED
  BY <1>6, <1>7 DEF window_end

LEMMA AppendFacts ==
  ASSUME NEW S, NEW s \in Seq(S), NEW e \in S
  PROVE  /\ Append(s, e) \in Seq(S)
         /\ Len(Append(s, e)) = Len(s) + 1
         /\ DOMAIN Append(s, e) = 1 .. Len(s) + 1
         /\ \A i \in DOMAIN s : Append(s, e)[i] = s[i]
         /\ Append(s, e)[Len(s) + 1] = e
OBVIOUS

LEMMA InitWindowsInv == WindowsInit => WindowsInv
<1> SUFFICES ASSUME WindowsInit PROVE WindowsInv
  OBVIOUS
<1>1. WindowsTypeOK
  BY ClockWidthAssumption DEF WindowsInit, WindowsTypeOK
<1>2. DOMAIN points = {} /\ DOMAIN windows = {}
  BY DEF WindowsInit
<1> QED
  BY <1>1, <1>2 DEF WindowsInit, WindowsInv, Chronologic, LoopInv, CoveredBefore, InOrder,
     EndBefore, CountedOnce

-----------------------------------------------------------------------------
(* A turn of the loop *)

LEMMA BeginKeepsInv ==
  ASSUME WindowsInv, BeginSorted
  PROVE  WindowsInv'
<1> USE DEF BeginSorted, BeginWindows
<1>1. points' \in Seq(Point) /\ DOMAIN points' = 1 .. Len(points') /\ Len(points') \in Nat
  OBVIOUS
<1>2. windows' = <<>> /\ DOMAIN windows' = {}
  OBVIOUS
<1>3. \A i \in DOMAIN points' : points'[i].timestamp \in Nat /\ points'[i].timestamp < Modulus
  BY <1>1, TimestampRange
<1>4. current_window_start' \in 0 .. Modulus - 1
  <2>1. CASE points' = <<>>
    BY <2>1, ClockWidthAssumption
  <2>2. CASE points' # <<>>
    <3>1. 1 \in DOMAIN points'
      BY <2>2, <1>1
    <3> QED
      BY <3>1, <2>2, <1>3, ClockWidthAssumption
  <2> QED
    BY <2>1, <2>2
<1>5. WindowsTypeOK'
  BY <1>2, <1>4 DEF WindowsTypeOK
<1>6. CoveredBefore(current_window_start)'
  <2> SUFFICES ASSUME NEW i \in DOMAIN points', points'[i].timestamp < current_window_start'
               PROVE  FALSE
    BY DEF CoveredBefore
  <2>1. 1 \in DOMAIN points' /\ points' # <<>> /\ 1 <= i
    BY <1>1
  <2>2. current_window_start' = points'[1].timestamp
    BY <2>1
  <2>3. points'[1].timestamp <= points'[i].timestamp
    <3>1. CASE i = 1
      BY <3>1, <1>3
    <3>2. CASE 1 < i
      BY <3>2, <2>1 DEF Chronologic
    <3> QED
      BY <3>1, <3>2, <2>1, <1>1
  <2> QED
    BY <2>1, <2>2, <2>3, <1>3
<1>7. InOrder' /\ EndBefore(current_window_start)' /\ CountedOnce'
  BY <1>2 DEF InOrder, EndBefore, CountedOnce
<1> QED
  BY <1>5, <1>6, <1>7 DEF WindowsInv, LoopInv, Chronologic

\* The window that a turn pushes.
NewWindow == [timestamp |-> current_window_start,
              value     |-> Aggregated(aggregation, Inside),
              count     |-> Cardinality(Inside)]

LEMMA NextWindowTypes ==
  ASSUME WindowsInv, NextWindow
  PROVE  /\ WindowsTypeOK'
         /\ Inside # {} => /\ windows' = Append(windows, NewWindow)
                           /\ DOMAIN windows' = 1 .. Len(windows) + 1
                           /\ \A w \in DOMAIN windows : windows'[w] = windows[w]
                           /\ windows'[Len(windows) + 1] = NewWindow
<1> USE DEF WindowsInv
<1> DEFINE W == {windows[w] : w \in DOMAIN windows} \cup {NewWindow}
<1>1. windows \in Seq(W) /\ Len(windows) \in Nat /\ DOMAIN windows = 1 .. Len(windows)
  BY DEF WindowsTypeOK
<1>2. windows' = IF Inside = {} THEN windows ELSE Append(windows, NewWindow)
  BY DEF NextWindow, NewWindow
<1>3. Inside # {} => /\ windows' = Append(windows, NewWindow)
                     /\ windows' \in Seq(W)
                     /\ Len(windows') = Len(windows) + 1
                     /\ DOMAIN windows' = 1 .. Len(windows) + 1
                     /\ \A w \in DOMAIN windows : windows'[w] = windows[w]
                     /\ windows'[Len(windows) + 1] = NewWindow
  <2>1. NewWindow \in W
    OBVIOUS
  <2> HIDE DEF W
  <2>2. /\ Append(windows, NewWindow) \in Seq(W)
        /\ Len(Append(windows, NewWindow)) = Len(windows) + 1
        /\ DOMAIN Append(windows, NewWindow) = 1 .. Len(windows) + 1
        /\ \A w \in DOMAIN windows : Append(windows, NewWindow)[w] = windows[w]
        /\ Append(windows, NewWindow)[Len(windows) + 1] = NewWindow
    BY <2>1, <1>1, AppendFacts
  <2> QED
    BY <2>2, <1>2
<1>4. windows' \in Seq({windows'[w] : w \in DOMAIN windows'})
  <2>1. CASE Inside = {}
    BY <1>2, <2>1 DEF WindowsTypeOK
  <2>2. CASE Inside # {}
    <3>1. \A w \in 1 .. Len(windows') : windows'[w] \in {windows'[v] : v \in DOMAIN windows'}
      BY <1>1, <1>3, <2>2
    <3> QED
      BY <3>1, <1>1, <1>3, <2>2
  <2> QED
    BY <2>1, <2>2
<1>5. \A w \in DOMAIN windows' : windows'[w].timestamp \in Nat
  <2>1. NewWindow.timestamp \in Nat
    BY DEF NewWindow, WindowsTypeOK
  <2>2. \A w \in DOMAIN windows : windows[w].timestamp \in Nat
    BY DEF WindowsTypeOK
  <2>3. CASE Inside = {}
    BY <2>2, <2>3, <1>2
  <2>4. CASE Inside # {}
    BY <2>1, <2>2, <2>4, <1>1, <1>3
  <2> QED
    BY <2>3, <2>4
<1>6. current_window_start' \in 0 .. Modulus - 1
  <2>1. current_window_start + window_size \in Nat /\ Modulus \in Nat \ {0}
    BY ClockWidthAssumption DEF WindowsTypeOK
  <2>2. \A n \in Nat : n % Modulus \in 0 .. Modulus - 1
    BY <2>1
  <2> QED
    BY <2>1, <2>2 DEF NextWindow, window_end
<1>7. WindowsTypeOK'
  BY <1>4, <1>5, <1>6 DEF WindowsTypeOK, NextWindow
<1> QED
  BY <1>3, <1>7

LEMMA NextWindowKeepsLoopInv ==
  ASSUME WindowsInv, NextWindow, Proper
  PROVE  /\ CoveredBefore(current_window_start)'
         /\ InOrder'
         /\ EndBefore(current_window_start)'
         /\ CountedOnce'
<1> DEFINE n == Len(windows)
<1>1. /\ WindowsTypeOK /\ LoopInv
      /\ n \in Nat /\ DOMAIN windows = 1 .. n
      /\ window_size \in Nat /\ current_window_start \in Nat
  BY DEF WindowsInv, WindowsTypeOK
<1>2. /\ CoveredBefore(current_window_start) /\ InOrder /\ CountedOnce
      /\ EndBefore(current_window_start)
  BY <1>1 DEF LoopInv
<1>3. current_window_start' = current_window_start + window_size
  BY ProperEnd DEF NextWindow
<1>4. points' = points /\ window_size' = window_size
  BY DEF NextWindow
<1>5. \A i \in DOMAIN points : points[i].timestamp \in Nat
  BY <1>1, PointTimes
<1>6. Inside = {i \in DOMAIN points : Covers(NewWindow, points[i])}
  BY <1>3 DEF Inside, Covers, NewWindow, NextWindow
<1>7. \A w \in DOMAIN windows : windows[w].timestamp \in Nat
  BY DEF WindowsInv, WindowsTypeOK
<1>8. CASE Inside = {}
  <2>1. windows' = windows
    BY <1>8 DEF NextWindow
  <2>2. \A i \in DOMAIN points : points[i].timestamp < current_window_start' =>
            points[i].timestamp < current_window_start
    BY <1>8, <1>6, <1>3, <1>5, <1>1 DEF Covers, NewWindow
  <2>3. CoveredBefore(current_window_start)'
    BY <2>1, <2>2, <1>2, <1>4 DEF CoveredBefore, Covers
  <2>4. InOrder' /\ CountedOnce'
    BY <2>1, <1>2, <1>4 DEF InOrder, CountedOnce, Covers
  <2>5. EndBefore(current_window_start)'
    BY <2>1, <1>1, <1>2, <1>3, <1>4, <1>7 DEF EndBefore
  <2> QED
    BY <2>3, <2>4, <2>5
<1>9. CASE Inside # {}
  <2>1. /\ DOMAIN windows' = 1 .. n + 1
        /\ \A w \in DOMAIN windows : windows'[w] = windows[w]
        /\ windows'[n + 1] = NewWindow
    BY <1>9, NextWindowTypes
  <2>2. CoveredBefore(current_window_start)'
    <3> SUFFICES ASSUME NEW i \in DOMAIN points, points[i].timestamp < current_window_start'
                 PROVE  \E w \in DOMAIN windows' : Covers(windows[w], points[i])'
      BY <1>4 DEF CoveredBefore
    <3>1. CASE points[i].timestamp < current_window_start
      <4>1. PICK w \in DOMAIN windows : Covers(windows[w], points[i])
        BY <3>1, <1>2 DEF CoveredBefore
      <4>2. w \in DOMAIN windows' /\ windows'[w] = windows[w]
        BY <2>1, <1>1
      <4> QED
        BY <4>1, <4>2, <1>4 DEF Covers
    <3>2. CASE current_window_start <= points[i].timestamp
      <4>1. Covers(NewWindow, points[i])
        BY <3>2, <1>3 DEF Covers, NewWindow
      <4>2. n + 1 \in DOMAIN windows'
        BY <2>1, <1>1
      <4> QED
        BY <4>1, <4>2, <2>1, <1>4 DEF Covers
    <3> QED
      BY <3>1, <3>2, <1>1, <1>5
  <2>3. InOrder'
    <3> SUFFICES ASSUME NEW v \in 1 .. n + 1, NEW w \in 1 .. n + 1, v < w
                 PROVE  windows'[v].timestamp + window_size <= windows'[w].timestamp
      BY <2>1, <1>4 DEF InOrder
    <3>1. v \in DOMAIN windows /\ windows'[v] = windows[v]
      BY <2>1, <1>1
    <3>2. CASE w = n + 1
      BY <3>1, <3>2, <2>1, <1>2 DEF EndBefore, NewWindow
    <3>3. CASE w # n + 1
      <4>1. w \in DOMAIN windows /\ windows'[w] = windows[w]
        BY <3>3, <2>1, <1>1
      <4> QED
        BY <3>1, <4>1, <1>2 DEF InOrder
    <3> QED
      BY <3>2, <3>3
  <2>4. EndBefore(current_window_start)'
    <3> SUFFICES ASSUME NEW w \in 1 .. n + 1
                 PROVE  windows'[w].timestamp + window_size <= current_window_start'
      BY <2>1, <1>4 DEF EndBefore
    <3>1. CASE w = n + 1
      BY <3>1, <2>1, <1>3, <1>1 DEF NewWindow
    <3>2. CASE w # n + 1
      <4>1. w \in DOMAIN windows /\ windows'[w] = windows[w]
        BY <3>2, <2>1, <1>1
      <4>2. windows[w].timestamp + window_size <= current_window_start
        BY <4>1, <1>2 DEF EndBefore
      <4> QED
        BY <4>1, <4>2, <1>1, <1>3, <1>7
    <3> QED
      BY <3>1, <3>2
  <2>5. CountedOnce'
    <3> SUFFICES ASSUME NEW w \in 1 .. n + 1
                 PROVE  /\ windows'[w].count > 0
                        /\ windows'[w].count
                             = Cardinality({i \in DOMAIN points : Covers(windows[w], points[i])'})
      BY <2>1, <1>4 DEF CountedOnce
    <3>1. CASE w = n + 1
      <4>1. windows'[w].count = Cardinality(Inside) /\ Cardinality(Inside) > 0
        BY <3>1, <2>1, <1>9, <1>1, InsideFinite DEF NewWindow
      <4>2. {i \in DOMAIN points : Covers(windows[w], points[i])'} = Inside
        BY <3>1, <2>1, <1>4, <1>6 DEF Covers
      <4> QED
        BY <4>1, <4>2
    <3>2. CASE w # n + 1
      <4>1. w \in DOMAIN windows /\ windows'[w] = windows[w]
        BY <3>2, <2>1, <1>1
      <4>2. {i \in DOMAIN points : Covers(windows[w], points[i])'}
              = {i \in DOMAIN points : Covers(windows[w], points[i])}
        BY <4>1, <1>4 DEF Covers
      <4> QED
        BY <4>1, <4>2, <1>2 DEF CountedOnce
    <3> QED
      BY <3>1, <3>2
  <2> QED
    BY <2>2, <2>3, <2>4, <2>5
<1> QED
  BY <1>8, <1>9

LEMMA NextKeepsInv == WindowsInv /\ [WindowsNext]_windowVars => WindowsInv'
<1> SUFFICES ASSUME WindowsInv, [WindowsNext]_windowVars
             PROVE  WindowsInv'
  OBVIOUS
<1>1. CASE BeginSorted
  BY <1>1, BeginKeepsInv
<1>2. CASE NextWindow
  <2>1. points' = points /\ window_size' = window_size /\ stage' = "windows"
    BY <1>2 DEF NextWindow
  <2>2. WindowsTypeOK'
    BY <1>2, NextWindowTypes
  <2>3. Chronologic(points)'
    BY <2>1 DEF WindowsInv, Chronologic
  <2>4. LoopInv'
    BY <1>2, <2>1, NextWindowKeepsLoopInv DEF LoopInv, Proper, Fits
  <2> QED
    BY <2>1, <2>2, <2>3, <2>4 DEF WindowsInv
<1>3. CASE EndWindows \/ UNCHANGED windowVars
  <2>1. UNCHANGED <<points, aggregation, window_size, current_window_start, windows>>
    BY <1>3 DEF EndWindows, windowVars
  <2>2. stage' \in {"idle", "windows", "returned"} /\ (stage' = "returned" => PastEnd)
    BY <1>3 DEF EndWindows, windowVars, WindowsInv, WindowsTypeOK
  <2>3. WindowsTypeOK'
    BY <2>1, <2>2 DEF WindowsInv, WindowsTypeOK
  <2> QED
    BY <2>1, <2>2, <2>3 DEF WindowsInv, Chronologic, LoopInv, Proper, Fits, CoveredBefore,
       InOrder, EndBefore, CountedOnce, Covers, PastEnd
<1>4. CASE TakeWindows
  <2>1. points' = <<>> /\ windows' = <<>> /\ DOMAIN points' = {} /\ DOMAIN windows' = {}
    BY <1>4 DEF TakeWindows
  <2>2. WindowsTypeOK'
    BY <1>4, <2>1, ClockWidthAssumption DEF TakeWindows, WindowsInv, WindowsTypeOK
  <2> QED
    BY <1>4, <2>1, <2>2 DEF TakeWindows, WindowsInv, Chronologic, LoopInv, CoveredBefore,
       InOrder, EndBefore, CountedOnce
<1> QED
  BY <1>1, <1>2, <1>3, <1>4 DEF WindowsNext

\* A loop that has returned is past all the points.
LEMMA AllBefore ==
  ASSUME WindowsInv, stage = "returned"
  PROVE  \A i \in DOMAIN points : points[i].timestamp < current_window_start
<1> SUFFICES ASSUME NEW i \in DOMAIN points
             PROVE  points[i].timestamp < current_window_start
  OBVIOUS
<1>1. points # <<>> /\ Len(points) \in DOMAIN points
  BY DEF WindowsInv, WindowsTypeOK
<1>2. points[Len(points)].timestamp < current_window_start
  BY <1>1 DEF PastEnd, WindowsInv
<1>3. points[i].timestamp <= points[Len(points)].timestamp
  BY LastIsLatest DEF WindowsInv
<1>4. points[i].timestamp \in Nat /\ points[Len(points)].timestamp \in Nat
  BY <1>1, PointTimes DEF WindowsInv
<1> QED
  BY <1>2, <1>3, <1>4 DEF WindowsInv, WindowsTypeOK

LEMMA InvPartitions == WindowsInv => WindowsPartition
<1> SUFFICES ASSUME WindowsInv, stage = "returned", Proper
             PROVE  /\ \A i \in DOMAIN points :
                         \E w \in DOMAIN windows : Covers(windows[w], points[i])
                    /\ InOrder /\ CountedOnce
  BY DEF WindowsPartition, InOrder, CountedOnce
<1>1. CoveredBefore(current_window_start) /\ InOrder /\ CountedOnce /\ PastEnd
  BY DEF WindowsInv, LoopInv
<1>2. \A i \in DOMAIN points : points[i].timestamp < current_window_start
  BY AllBefore
<1> QED
  BY <1>1, <1>2 DEF CoveredBefore

\* The windows of an answer partition its points, whatever the points, the
\* timestamps, the width of the clock and the size of the windows, as long as
\* the windows are not empty and end within the clock (aggregation.rs
\* aggregate_points).
THEOREM WindowsPartitionPoints == WindowsSpec => []WindowsPartition
<1>1. WindowsSpec => []WindowsInv
  BY InitWindowsInv, NextKeepsInv, PTL DEF WindowsSpec
<1> QED
  BY <1>1, InvPartitions, PTL

-----------------------------------------------------------------------------
(* Windows of no size *)

\* The loop does not move on.
StuckInv ==
  /\ WindowsInv
  /\ window_size = 0 /\ points # <<>> /\ stage # "idle" =>
       stage = "windows" /\ current_window_start = points[1].timestamp

EmptyWindowsNeverReturn == window_size = 0 /\ points # <<>> => stage # "returned"

LEMMA NextKeepsStuck == StuckInv /\ [WindowsNext]_windowVars => StuckInv'
<1> SUFFICES ASSUME StuckInv, [WindowsNext]_windowVars
             PROVE  StuckInv'
  OBVIOUS
<1> USE DEF StuckInv
<1>1. WindowsInv'
  BY NextKeepsInv
<1> SUFFICES ASSUME window_size' = 0, points' # <<>>, stage' # "idle"
             PROVE  stage' = "windows" /\ current_window_start' = points'[1].timestamp
  BY <1>1
<1>2. CASE BeginSorted
  BY <1>2 DEF BeginSorted, BeginWindows
<1>3. CASE NextWindow
  <2>1. current_window_start \in 0 .. Modulus - 1
    BY DEF WindowsInv, WindowsTypeOK
  <2>2. \A n \in 0 .. Modulus - 1 : (n + 0) % Modulus = n
    BY ClockWidthAssumption
  <2> QED
    BY <1>3, <2>1, <2>2 DEF NextWindow, window_end
<1>4. CASE EndWindows
  <2>1. points # <<>> /\ window_size = 0 /\ stage = "windows"
    BY <1>4 DEF EndWindows
  <2>2. current_window_start = points[1].timestamp /\ 1 \in DOMAIN points
    BY <2>1 DEF WindowsInv, WindowsTypeOK
  <2>3. points[1].timestamp <= points[Len(points)].timestamp
    BY <2>2, LastIsLatest DEF WindowsInv
  <2>4. Len(points) \in DOMAIN points
    BY <2>1 DEF WindowsInv, WindowsTypeOK
  <2>5. points[1].timestamp \in Nat /\ points[Len(points)].timestamp \in Nat
    BY <2>2, <2>4, PointTimes DEF WindowsInv
  <2>6. ~PastEnd
    BY <2>1, <2>2, <2>3, <2>5 DEF PastEnd
  <2> QED
    BY <1>4, <2>6 DEF EndWindows
<1>5. CASE TakeWindows
  BY <1>5 DEF TakeWindows
<1>6. CASE UNCHANGED windowVars
  BY <1>6 DEF windowVars
<1> QED
  BY <1>2, <1>3, <1>4, <1>5, <1>6 DEF WindowsNext

\* A call with points and windows of no size, which Query's validate lets
\* pass, never returns (aggregation.rs aggregate_points).
THEOREM EmptyWindowsHang == WindowsSpec => []EmptyWindowsNeverReturn
<1>1. WindowsInit => StuckInv
  BY InitWindowsInv DEF WindowsInit, StuckInv
<1>2. StuckInv => EmptyWindowsNeverReturn
  BY DEF StuckInv, EmptyWindowsNeverReturn
<1> QED
  BY <1>1, <1>2, NextKeepsStuck, PTL DEF WindowsSpec

-----------------------------------------------------------------------------
(* Thinning out *)

LEMMA TwoBounds ==
  ASSUME NEW a \in Int, NEW b \in Int, a <= b
  PROVE  Max({a, b}) = b /\ Max({b, a}) = b /\ Min({a, b}) = a
<1>1. Max({a, b}) = b
  BY DEF Max
<1>2. {a, b} = {b, a}
  OBVIOUS
<1>3. Min({a, b}) = a
  BY DEF Min
<1> QED
  BY <1>1, <1>2, <1>3

LEMMA CeilDivBounds ==
  ASSUME NEW a \in Nat \ {0}, NEW b \in Nat \ {0}
  PROVE  /\ CeilDiv(a, b) \in Nat \ {0}
         /\ CeilDiv(a, b) * b >= a
         /\ (CeilDiv(a, b) - 1) * b < a
<1> DEFINE q == (a + b - 1) \div b
           r == (a + b - 1) % b
<1>1. q \in Int /\ r \in 0 .. b - 1 /\ a + b - 1 = b * q + r
  OBVIOUS
<1> HIDE DEF q, r
<1>2. q * b >= a
  BY <1>1
<1>3. (q - 1) * b < a
  BY <1>1
<1>4. q > 0
  BY <1>1, <1>2
<1> QED
  BY <1>1, <1>2, <1>3, <1>4 DEF CeilDiv, q

LEMMA TimesMonotonic ==
  ASSUME NEW x \in Int, NEW y \in Int, NEW g \in Nat, x <= y
  PROVE  x * g <= y * g
OBVIOUS

\* How many places of len a step reaches that is rounded up: no more than
\* asked for, and more than half as many.
LEMMA PlacesReached ==
  ASSUME NEW len \in Nat, NEW m \in Nat \ {0}, m < len
  PROVE  LET gap == CeilDiv(len, m)
             c == CeilDiv(len, gap)
         IN  /\ gap \in 1 .. len /\ c \in Nat \ {0}
             /\ c <= m /\ m < 2 * c
             /\ 1 + c * gap > len
             /\ \A n \in 1 .. c : 1 + (n - 1) * gap \in 1 .. len
<1> DEFINE gap == CeilDiv(len, m)
           c == CeilDiv(len, gap)
<1>1. gap \in Nat \ {0} /\ gap * m >= len /\ (gap - 1) * m < len
  BY CeilDivBounds
<1>2. c \in Nat \ {0} /\ c * gap >= len /\ (c - 1) * gap < len
  BY <1>1, CeilDivBounds
<1> HIDE DEF gap, c
<1>3. gap >= 2
  <2>1. CASE gap = 1
    BY <2>1, <1>1
  <2> QED
    BY <2>1, <1>1
<1>4. gap <= len
  <2>1. (gap - 1) * 1 <= (gap - 1) * m
    BY <1>1, TimesMonotonic
  <2> QED
    BY <2>1, <1>1
<1>5. c <= m
  <2> SUFFICES ASSUME m <= c - 1 PROVE FALSE
    BY <1>2
  <2>1. m * gap <= (c - 1) * gap
    BY <1>1, <1>2, TimesMonotonic
  <2> QED
    BY <2>1, <1>1, <1>2
<1>6. m < 2 * c
  <2> SUFFICES ASSUME 2 * c <= m PROVE FALSE
    BY <1>2
  <2>1. (2 * c) * (gap - 1) <= m * (gap - 1)
    BY <1>1, <1>2, TimesMonotonic
  <2>2. (2 * c) * (gap - 1) = c * gap + c * (gap - 2)
    BY <1>1, <1>2
  <2>3. c * (gap - 2) \in Nat
    BY <1>2, <1>3, <1>1
  <2>4. c * gap \in Nat /\ m * (gap - 1) = (gap - 1) * m /\ (gap - 1) * m \in Nat
    BY <1>1, <1>2
  <2> QED
    BY <2>1, <2>2, <2>3, <2>4, <1>1, <1>2
<1>7. ASSUME NEW n \in 1 .. c PROVE 1 + (n - 1) * gap \in 1 .. len
  <2>1. (n - 1) * gap <= (c - 1) * gap /\ (n - 1) * gap \in Nat /\ (c - 1) * gap \in Nat
    BY <1>1, <1>2, TimesMonotonic
  <2> QED
    BY <2>1, <1>2
<1>8. 1 + c * gap > len
  BY <1>1, <1>2
<1> QED
  BY <1>1, <1>2, <1>4, <1>5, <1>6, <1>7, <1>8 DEF gap, c

\* The places that thinning out keeps, when it leaves out any.
LEMMA KeptPlaces ==
  ASSUME NEW len \in Nat, NEW max_points \in Nat, max_points < len
  PROVE  \E gap \in 1 .. len, c \in Nat \ {0} :
           /\ Kept(len, max_points) = [n \in 1 .. c |-> 1 + (n - 1) * gap]
           /\ \A n \in 1 .. c : 1 + (n - 1) * gap \in 1 .. len
           /\ 1 + c * gap > len
           /\ c <= Max({1, max_points})
           /\ max_points < 2 * c
<1>1. CASE max_points = 0
  <2>1. CeilDiv(len, len) = 1
    <3>1. len \in Nat \ {0}
      OBVIOUS
    <3>2. /\ CeilDiv(len, len) \in Nat \ {0}
          /\ (CeilDiv(len, len) - 1) * len < len
      BY <3>1, CeilDivBounds
    <3>3. CASE CeilDiv(len, len) >= 2
      <4>1. 1 * len <= (CeilDiv(len, len) - 1) * len
        BY <3>1, <3>2, <3>3, TimesMonotonic
      <4> QED
        BY <4>1, <3>1, <3>2
    <3> QED
      BY <3>2, <3>3
  <2>2. Max({0, 1}) = 1 /\ Max({1, 0}) = 1 /\ Min({1, 1}) = 1
    <3>1. 0 \in Int /\ 1 \in Int /\ 0 <= 1 /\ 1 <= 1
      OBVIOUS
    <3> QED
      BY <3>1, TwoBounds, Zenon
  <2>3. Kept(len, max_points) = [n \in 1 .. 1 |-> 1 + (n - 1) * len]
    BY <1>1, <2>1, <2>2 DEF Kept
  <2>4. len \in 1 .. len /\ \A n \in 1 .. 1 : 1 + (n - 1) * len \in 1 .. len
    BY <1>1
  <2>5. 1 \in Nat \ {0} /\ 1 + 1 * len > len /\ 1 <= Max({1, 0}) /\ 0 < 2 * 1
    BY <2>2
  <2> QED
    BY <1>1, <2>3, <2>4, <2>5
<1>2. CASE max_points # 0
  <2> DEFINE g == CeilDiv(len, max_points)
             c == CeilDiv(len, g)
  <2>1. /\ g \in 1 .. len /\ c \in Nat \ {0}
        /\ c <= max_points /\ max_points < 2 * c
        /\ 1 + c * g > len
        /\ \A n \in 1 .. c : 1 + (n - 1) * g \in 1 .. len
    BY <1>2, PlacesReached
  <2>2. /\ Max({max_points, 1}) = max_points /\ Max({1, max_points}) = max_points
        /\ Min({c, max_points}) = c
    <3>1. /\ max_points \in Int /\ 1 \in Int /\ 1 <= max_points
          /\ c \in Int /\ c <= max_points
      BY <2>1, <1>2
    <3> HIDE DEF c
    <3> QED
      BY <3>1, TwoBounds, Zenon
  <2>3. Kept(len, max_points) = [n \in 1 .. c |-> 1 + (n - 1) * g]
    BY <1>2, <2>2 DEF Kept
  <2> QED
    BY <2>1, <2>2, <2>3
<1> QED
  BY <1>1, <1>2

\* What is left of points that are too many.
LEMMA DownsampleForm ==
  ASSUME NEW S, NEW ps \in Seq(S), NEW max_points \in Nat, max_points < Len(ps)
  PROVE  \E gap \in 1 .. Len(ps), c \in Nat \ {0} :
           /\ Downsample(ps, max_points) = [n \in 1 .. c |-> ps[1 + (n - 1) * gap]]
           /\ \A n \in 1 .. c : 1 + (n - 1) * gap \in 1 .. Len(ps)
           /\ 1 + c * gap > Len(ps)
           /\ c <= Max({1, max_points})
           /\ max_points < 2 * c
<1> DEFINE len == Len(ps)
           places == Kept(len, max_points)
<1>1. len \in Nat
  OBVIOUS
<1>2. PICK gap \in 1 .. len, c \in Nat \ {0} :
           /\ Kept(len, max_points) = [n \in 1 .. c |-> 1 + (n - 1) * gap]
           /\ \A n \in 1 .. c : 1 + (n - 1) * gap \in 1 .. len
           /\ 1 + c * gap > len
           /\ c <= Max({1, max_points})
           /\ max_points < 2 * c
  BY <1>1, KeptPlaces
<1>3. ~(len <= max_points)
  BY <1>1
<1>4. Downsample(ps, max_points) = [n \in DOMAIN places |-> ps[places[n]]]
  BY <1>3 DEF Downsample
<1>5. DOMAIN places = 1 .. c /\ \A n \in 1 .. c : places[n] = 1 + (n - 1) * gap
  BY <1>2
<1> HIDE DEF places
<1>6. Downsample(ps, max_points) = [n \in 1 .. c |-> ps[1 + (n - 1) * gap]]
  BY <1>4, <1>5
<1> QED
  BY <1>2, <1>6

\* What is left are points of those there were, in their order.
LEMMA DownsampleKeeps ==
  ASSUME NEW S, NEW ps \in Seq(S), NEW max_points \in Nat
  PROVE  LET ks == Downsample(ps, max_points)
         IN  /\ ks \in Seq(S)
             /\ \E place \in [1 .. Len(ks) -> 1 .. Len(ps)] :
                  /\ \A n \in 1 .. Len(ks) : ks[n] = ps[place[n]]
                  /\ \A m, n \in 1 .. Len(ks) : m < n => place[m] < place[n]
             /\ ps # <<>> => ks # <<>>
<1> DEFINE ks == Downsample(ps, max_points)
<1>1. Len(ps) \in Nat
  OBVIOUS
<1>2. CASE Len(ps) <= max_points
  <2>1. ks = ps
    BY <1>2 DEF Downsample
  <2> DEFINE place == [n \in 1 .. Len(ps) |-> n]
  <2>2. /\ place \in [1 .. Len(ps) -> 1 .. Len(ps)]
        /\ \A n \in 1 .. Len(ps) : ps[n] = ps[place[n]]
        /\ \A m, n \in 1 .. Len(ps) : m < n => place[m] < place[n]
    OBVIOUS
  <2>3. \E p \in [1 .. Len(ps) -> 1 .. Len(ps)] :
          /\ \A n \in 1 .. Len(ps) : ps[n] = ps[p[n]]
          /\ \A m, n \in 1 .. Len(ps) : m < n => p[m] < p[n]
    <3> HIDE DEF place
    <3> QED
      BY <2>2
  <2> QED
    BY <2>1, <2>3
<1>3. CASE max_points < Len(ps)
  <2>1. PICK gap \in 1 .. Len(ps), c \in Nat \ {0} :
           /\ ks = [n \in 1 .. c |-> ps[1 + (n - 1) * gap]]
           /\ \A n \in 1 .. c : 1 + (n - 1) * gap \in 1 .. Len(ps)
    BY <1>3, DownsampleForm
  <2> HIDE DEF ks
  <2> DEFINE place == [n \in 1 .. c |-> 1 + (n - 1) * gap]
  <2>2. ks \in Seq(S) /\ Len(ks) = c /\ ks # <<>>
    <3>1. \A i \in 1 .. Len(ps) : ps[i] \in S
      OBVIOUS
    <3>2. ks \in [1 .. c -> S]
      BY <2>1, <3>1
    <3>3. ks \in Seq(S)
      BY <3>2
    <3>4. Len(ks) = c
      BY <2>1
    <3> QED
      BY <3>3, <3>4
  <2>3. place \in [1 .. c -> 1 .. Len(ps)] /\ \A n \in 1 .. c : ks[n] = ps[place[n]]
    BY <2>1
  <2>4. ASSUME NEW m \in 1 .. c, NEW n \in 1 .. c, m < n PROVE place[m] < place[n]
    <3>1. m * gap <= (n - 1) * gap
      BY <2>4, TimesMonotonic
    <3>2. m * gap = (m - 1) * gap + gap /\ (m - 1) * gap \in Int /\ (n - 1) * gap \in Int
      OBVIOUS
    <3> QED
      BY <3>1, <3>2
  <2>5. \E p \in [1 .. Len(ks) -> 1 .. Len(ps)] :
          /\ \A n \in 1 .. Len(ks) : ks[n] = ps[p[n]]
          /\ \A m, n \in 1 .. Len(ks) : m < n => p[m] < p[n]
    <3> HIDE DEF place
    <3> QED
      BY <2>2, <2>3, <2>4
  <2> QED
    BY <2>2, <2>5 DEF ks
<1> QED
  BY <1>1, <1>2, <1>3

\* Thinning out keeps points a fixed number of places apart, from the first to
\* the last; no more than asked for (one, for none), and more than half as
\* many.  So the loop's own test of the limit decides for a limit of 0 only
\* (aggregation.rs downsample_points).
THEOREM DownsampleEvenly ==
  ASSUME NEW S, NEW ps \in Seq(S), NEW max_points \in Nat
  PROVE  Even(ps, Downsample(ps, max_points), max_points)
<1> DEFINE len == Len(ps)
           ks == Downsample(ps, max_points)
<1>1. len \in Nat
  OBVIOUS
<1>2. CASE len <= max_points
  BY <1>2 DEF Even, Downsample
<1>3. CASE max_points < len
  <2>1. PICK gap \in 1 .. len, c \in Nat \ {0} :
           /\ ks = [n \in 1 .. c |-> ps[1 + (n - 1) * gap]]
           /\ \A n \in 1 .. c : 1 + (n - 1) * gap \in 1 .. len
           /\ 1 + c * gap > len
           /\ c <= Max({1, max_points})
           /\ max_points < 2 * c
    BY <1>3, DownsampleForm
  <2>2. DOMAIN ks = 1 .. c /\ Len(ks) = c
    BY <2>1
  <2>3. \A n \in DOMAIN ks : 1 + (n - 1) * gap <= len /\ ks[n] = ps[1 + (n - 1) * gap]
    <3> HIDE DEF ks
    <3> QED
      BY <2>1, <2>2
  <2>4. /\ ~(Len(ps) <= max_points) /\ 1 + Len(ks) * gap > Len(ps)
        /\ Len(ks) <= Max({1, max_points}) /\ max_points < 2 * Len(ks)
    <3> HIDE DEF ks
    <3> QED
      BY <1>1, <1>3, <2>1, <2>2
  <2> HIDE DEF ks
  <2>5. \E g \in 1 .. Len(ps) :
         /\ \A n \in DOMAIN ks : 1 + (n - 1) * g <= Len(ps) /\ ks[n] = ps[1 + (n - 1) * g]
         /\ 1 + Len(ks) * g > Len(ps)
         /\ Len(ks) <= Max({1, max_points})
         /\ max_points < 2 * Len(ks)
    BY <2>3, <2>4
  <2> QED
    BY <2>4, <2>5, Zenon DEF Even, ks
<1> QED
  BY <1>1, <1>2, <1>3

-----------------------------------------------------------------------------
(* The counts of the windows add up *)

Total(ws) == SumFunction([w \in DOMAIN ws |-> ws[w].count])

LEMMA TotalOfMore ==
  ASSUME NEW S, NEW ws \in Seq(S), NEW e,
         \A w \in DOMAIN ws : ws[w].count \in Nat, e.count \in Nat
  PROVE  Total(Append(ws, e)) = Total(ws) + e.count
<1> DEFINE n == Len(ws)
           longer == Append(ws, e)
           f == [w \in DOMAIN ws |-> ws[w].count]
           g == [w \in DOMAIN longer |-> longer[w].count]
<1>1. n \in Nat /\ DOMAIN ws = 1 .. n
  OBVIOUS
<1>2. /\ DOMAIN longer = 1 .. n + 1 /\ longer[n + 1] = e
      /\ \A w \in 1 .. n : longer[w] = ws[w]
  BY <1>1
<1> HIDE DEF longer
<1>3. /\ DOMAIN f = 1 .. n /\ DOMAIN g = (1 .. n) \cup {n + 1} /\ n + 1 \notin 1 .. n
      /\ \A w \in 1 .. n : f[w] \in Int /\ g[w] = f[w]
      /\ g[n + 1] = e.count
  <2>1. 1 .. n + 1 = (1 .. n) \cup {n + 1}
    BY <1>1
  <2> QED
    BY <1>1, <1>2, <2>1
<1>4. \A w \in (1 .. n) \cup {n + 1} : g[w] \in Int
  <2>1. e.count \in Int
    OBVIOUS
  <2> HIDE DEF f, g, n
  <2> QED
    BY <1>3, <2>1
<1> HIDE DEF f, g
<1>5. IsFiniteSet(1 .. n)
  BY <1>1, FS_Interval
<1>6. SumFunctionOnSet(g, (1 .. n) \cup {n + 1}) = g[n + 1] + SumFunctionOnSet(g, 1 .. n)
  BY <1>3, <1>4, <1>5, SumOfMore
<1>7. SumFunctionOnSet(g, 1 .. n) = SumFunctionOnSet(f, 1 .. n) /\ SumFunctionOnSet(f, 1 .. n) \in Int
  <2>1. \A w \in 1 .. n : f[w] \in Int /\ g[w] = f[w]
    BY <1>3
  <2> DEFINE R == 1 .. n
  <2> HIDE DEF R
  <2>2. IsFiniteSet(R) /\ \A w \in R : f[w] \in Int /\ g[w] = f[w]
    BY <1>5, <2>1 DEF R
  <2>3. SumFunctionOnSet(g, R) = SumFunctionOnSet(f, R)
    BY <2>2, SumSame
  <2>4. SumFunctionOnSet(f, R) \in Int
    BY <2>2, SumType
  <2> QED
    BY <2>3, <2>4 DEF R
<1>8. Total(ws) = SumFunctionOnSet(f, 1 .. n) /\ Total(longer) = SumFunctionOnSet(g, (1 .. n) \cup {n + 1})
  BY <1>3 DEF Total, SumFunction, f, g
<1> QED
  BY <1>3, <1>6, <1>7, <1>8 DEF longer

Before(time) == {i \in DOMAIN points : points[i].timestamp < time}

\* The windows pushed count the points before current_window_start.
CountsInv == Proper => Total(windows) = Cardinality(Before(current_window_start))

LEMMA NothingCounted == Total(<<>>) = 0
<1>1. DOMAIN [w \in DOMAIN <<>> |-> <<>>[w].count] = {}
  OBVIOUS
<1> QED
  BY <1>1, SumOfNone DEF Total, SumFunction

\* The points before the end of a window are those before it and in it.
LEMMA PlacesSplit ==
  ASSUME WindowsInv, Proper, NextWindow
  PROVE  LET B == Before(current_window_start)
         IN  /\ Before(current_window_start)' = B \cup Inside
             /\ B \cap Inside = {}
             /\ B \in SUBSET DOMAIN points /\ Inside \in SUBSET DOMAIN points
             /\ IsFiniteSet(B) /\ IsFiniteSet(Inside)
             /\ Cardinality(B) \in Nat /\ Cardinality(Inside) \in Nat
             /\ Cardinality(B \cup Inside) = Cardinality(B) + Cardinality(Inside)
<1>1. /\ WindowsTypeOK /\ points' = points
      /\ current_window_start \in Nat /\ window_size \in Nat
  BY DEF WindowsInv, WindowsTypeOK, NextWindow
<1>2. current_window_start' = current_window_start + window_size
  BY ProperEnd DEF NextWindow
<1>3. \A i \in DOMAIN points : points[i].timestamp \in Nat
  BY <1>1, PointTimes
<1> DEFINE B == Before(current_window_start)
<1>4. /\ Before(current_window_start)' = B \cup Inside
      /\ B \cap Inside = {}
      /\ B \in SUBSET DOMAIN points /\ Inside \in SUBSET DOMAIN points
  BY <1>1, <1>2, <1>3 DEF Before, Inside, NextWindow
<1>5. IsFiniteSet(B) /\ IsFiniteSet(Inside) /\ Cardinality(Inside) \in Nat
  <2>1. DOMAIN points = 1 .. Len(points) /\ Len(points) \in Nat
    BY <1>1 DEF WindowsTypeOK
  <2>2. IsFiniteSet(DOMAIN points)
    BY <2>1, FS_Interval
  <2> HIDE DEF B
  <2> QED
    BY <1>1, <1>4, <2>2, FS_Subset, InsideFinite
<1>6. Cardinality(B \cup Inside) = Cardinality(B) + Cardinality(Inside) /\ Cardinality(B) \in Nat
  <2>1. Cardinality(B \cup Inside) = Cardinality(B) + Cardinality(Inside) - Cardinality(B \cap Inside)
    BY <1>5, FS_Union
  <2>2. Cardinality(B \cap Inside) = 0
    BY <1>4, FS_EmptySet
  <2>3. Cardinality(B) \in Nat
    BY <1>5, FS_CardinalityType
  <2> HIDE DEF B
  <2> QED
    BY <1>5, <2>1, <2>2, <2>3
<1> QED
  BY <1>4, <1>5, <1>6

LEMMA NextWindowKeepsCounts ==
  ASSUME WindowsInv, CountsInv, NextWindow, Proper
  PROVE  Total(windows') = Cardinality(Before(current_window_start)')
<1>1. WindowsTypeOK /\ windows \in Seq({windows[w] : w \in DOMAIN windows})
  BY DEF WindowsInv, WindowsTypeOK
<1> DEFINE B == Before(current_window_start)
<1>2. Before(current_window_start)' = B \cup Inside
  BY PlacesSplit
<1>3. Cardinality(Inside) \in Nat /\ Cardinality(B) \in Nat
  BY PlacesSplit
<1>4. Cardinality(B \cup Inside) = Cardinality(B) + Cardinality(Inside)
  BY PlacesSplit
<1>5. Total(windows) = Cardinality(B)
  BY DEF CountsInv
<1> HIDE DEF B
<1>6. CASE Inside = {}
  <2>1. windows' = windows /\ B \cup Inside = B
    BY <1>6 DEF NextWindow
  <2> QED
    BY <2>1, <1>2, <1>5
<1>7. CASE Inside # {}
  <2>1. windows' = Append(windows, NewWindow)
    BY <1>7, NextWindowTypes
  <2>2. NewWindow.count = Cardinality(Inside) /\ NewWindow.count \in Nat
    BY <1>3 DEF NewWindow
  <2>3. \A w \in DOMAIN windows : windows[w].count \in Nat
    <3>1. \A w \in DOMAIN windows :
            windows[w].count = Cardinality({i \in DOMAIN points : Covers(windows[w], points[i])})
      BY DEF WindowsInv, LoopInv, CountedOnce
    <3>2. IsFiniteSet(DOMAIN points)
      BY <1>1, FS_Interval DEF WindowsTypeOK
    <3>3. \A w \in DOMAIN windows :
            Cardinality({i \in DOMAIN points : Covers(windows[w], points[i])}) \in Nat
      BY <3>2, FS_Subset, FS_CardinalityType
    <3> QED
      BY <3>1, <3>3
  <2> HIDE DEF NewWindow
  <2>4. Total(windows') = Total(windows) + Cardinality(Inside)
    BY <1>1, <2>1, <2>2, <2>3, TotalOfMore
  <2> QED
    BY <1>2, <1>4, <1>5, <2>4
<1> QED
  BY <1>6, <1>7

LEMMA NextKeepsCounts == WindowsInv /\ CountsInv /\ [WindowsNext]_windowVars => CountsInv'
<1> SUFFICES ASSUME WindowsInv, CountsInv, [WindowsNext]_windowVars
             PROVE  CountsInv'
  OBVIOUS
<1>1. CASE BeginSorted
  <2> SUFFICES ASSUME Proper' PROVE Total(windows') = Cardinality(Before(current_window_start)')
    BY DEF CountsInv
  <2>1. windows' = <<>>
    BY <1>1 DEF BeginSorted, BeginWindows
  <2>2. CoveredBefore(current_window_start)'
    BY <1>1, BeginKeepsInv DEF WindowsInv, LoopInv
  <2>3. Before(current_window_start)' = {}
    BY <2>1, <2>2 DEF CoveredBefore, Before
  <2> QED
    BY <2>1, <2>3, NothingCounted, FS_EmptySet
<1>2. CASE NextWindow
  BY <1>2, NextWindowKeepsCounts DEF CountsInv, NextWindow, Proper, Fits
<1>3. CASE EndWindows \/ UNCHANGED windowVars
  BY <1>3 DEF EndWindows, windowVars, CountsInv, Proper, Fits, Before
<1>4. CASE TakeWindows
  <2>1. windows' = <<>> /\ Before(current_window_start)' = {}
    BY <1>4 DEF TakeWindows, Before
  <2> QED
    BY <2>1, NothingCounted, FS_EmptySet DEF CountsInv
<1> QED
  BY <1>1, <1>2, <1>3, <1>4 DEF WindowsNext

\* Once the loop has returned, no point is left out and none counted twice.
LEMMA CountsAddUp ==
  ASSUME WindowsInv, CountsInv, Proper, stage = "returned"
  PROVE  Total(windows) = Len(points)
<1>1. Before(current_window_start) = DOMAIN points
  BY AllBefore DEF Before
<1>2. DOMAIN points = 1 .. Len(points) /\ Len(points) \in Nat
  BY DEF WindowsInv, WindowsTypeOK
<1>3. Cardinality(1 .. Len(points)) = Len(points)
  <2>1. Cardinality(1 .. Len(points)) = IF 1 > Len(points) THEN 0 ELSE Len(points) - 1 + 1
    <3> DEFINE n == Len(points)
    <3>1. 1 \in Int /\ n \in Int
      BY <1>2
    <3> HIDE DEF n
    <3>2. IsFiniteSet(1 .. n) /\ Cardinality(1 .. n) = IF 1 > n THEN 0 ELSE n - 1 + 1
      BY <3>1, FS_Interval
    <3> QED
      BY <3>2 DEF n
  <2> QED
    BY <1>2, <2>1
<1> QED
  BY <1>1, <1>2, <1>3 DEF CountsInv

-----------------------------------------------------------------------------
(* The values of the windows roll up *)

Number == Int \cup {NaN}

Plus(a, b) == IF a = NaN \/ b = NaN THEN NaN ELSE a + b

\* SumOf and NumbersOf, of any points.
SumAt(ps, I) ==
  IF \E i \in I : ps[i].value = NaN THEN NaN ELSE SumFunction([i \in I |-> ps[i].value])
NumbersAt(ps, I) == {ps[i].value : i \in I} \ {NaN}

\* The values of windows, and the components of values that are pairs.
ValuesIn(ws) == [w \in DOMAIN ws |-> ws[w].value]
Part(ws, c) == [w \in DOMAIN ws |-> ws[w].value[c]]

LeastOf(m, S) == m \in S /\ \A n \in S : m <= n
GreatestOf(m, S) == m \in S /\ \A n \in S : m >= n

\* The values vs are of windows that hold the points at the places B of ps.
SumsUp(ps, vs, B) == vs \in Seq(Number) /\ AddsUp(vs, SumAt(ps, B))
CountsUp(vs, B) == vs \in Seq(Number) /\ AddsUp(vs, Cardinality(B))
LeastUp(ps, vs, B) ==
  /\ vs \in Seq(Int) /\ \A v \in Range(vs) : v <= Infinity
  /\ \E m : LeastOf(m, Range(vs) \cup {Infinity}) /\ LeastOf(m, NumbersAt(ps, B) \cup {Infinity})
GreatestUp(ps, vs, B) ==
  /\ vs \in Seq(Int) /\ \A v \in Range(vs) : v >= -Infinity
  /\ \E m : GreatestOf(m, Range(vs) \cup {-Infinity}) /\ GreatestOf(m, NumbersAt(ps, B) \cup {-Infinity})
FirstUp(ps, vs) == vs # <<>> => vs[1] = ps[1].value
LastUp(ps, vs, B) == vs # <<>> => \E m : GreatestOf(m, B) /\ vs[Len(vs)] = ps[m].value

RollsUp(op, ps, ws, B) ==
  /\ op = "Sum" => SumsUp(ps, ValuesIn(ws), B)
  /\ op = "Count" => CountsUp(ValuesIn(ws), B)
  /\ op = "Avg" => SumsUp(ps, Part(ws, 1), B) /\ CountsUp(Part(ws, 2), B)
  /\ op = "Min" => LeastUp(ps, ValuesIn(ws), B)
  /\ op = "Max" => GreatestUp(ps, ValuesIn(ws), B)
  /\ op = "First" => FirstUp(ps, ValuesIn(ws))
  /\ op = "Last" => LastUp(ps, ValuesIn(ws), B)

\* The windows pushed roll up to the points before current_window_start.
RollInv == Proper => RollsUp(aggregation, points, windows, Before(current_window_start))

LEMMA IsLeast ==
  ASSUME NEW S \in SUBSET Int, NEW m
  PROVE  /\ LeastOf(m, S) => Min(S) = m
         /\ GreatestOf(m, S) => Max(S) = m
<1>1. ASSUME LeastOf(m, S) PROVE Min(S) = m
  <2>1. m \in S /\ \A n \in S : m <= n
    BY <1>1 DEF LeastOf
  <2>2. \A x \in S : (\A n \in S : x <= n) => x = m
    BY <2>1
  <2>3. (CHOOSE x \in S : \A n \in S : x <= n) = m
    BY <2>1, <2>2
  <2> QED
    BY <2>3 DEF Min
<1>2. ASSUME GreatestOf(m, S) PROVE Max(S) = m
  <2>1. m \in S /\ \A n \in S : m >= n
    BY <1>2 DEF GreatestOf
  <2>2. \A x \in S : (\A n \in S : x >= n) => x = m
    BY <2>1
  <2>3. (CHOOSE x \in S : \A n \in S : x >= n) = m
    BY <2>1, <2>2
  <2> QED
    BY <2>3 DEF Max
<1> QED
  BY <1>1, <1>2

\* A finite set of integers has the Min and the Max it asks for.
LEMMA MinMaxFound ==
  ASSUME NEW S \in SUBSET Int, IsFiniteSet(S), S # {}
  PROVE  LeastOf(Min(S), S) /\ GreatestOf(Max(S), S)
<1>1. PICK m \in S : \A n \in S : m <= n
  BY FiniteMin
<1>2. PICK x \in S : \A n \in S : n <= x
  BY FiniteMax
<1>3. LeastOf(m, S) /\ GreatestOf(x, S)
  BY <1>1, <1>2 DEF LeastOf, GreatestOf
<1> QED
  BY <1>3, IsLeast

\* The least of two sets is the lesser of the least of each.
LEMMA LeastOfBoth ==
  ASSUME NEW S \in SUBSET Int, NEW T \in SUBSET Int, NEW m, NEW n
  PROVE  /\ LeastOf(m, S) /\ LeastOf(n, T) => LeastOf(IF m <= n THEN m ELSE n, S \cup T)
         /\ GreatestOf(m, S) /\ GreatestOf(n, T) => GreatestOf(IF m >= n THEN m ELSE n, S \cup T)
<1>1. ASSUME LeastOf(m, S), LeastOf(n, T)
      PROVE  LeastOf(IF m <= n THEN m ELSE n, S \cup T)
  <2>1. /\ m \in Int /\ n \in Int /\ m \in S /\ n \in T
        /\ \A x \in S : x \in Int /\ m <= x
        /\ \A x \in T : x \in Int /\ n <= x
    BY <1>1 DEF LeastOf
  <2>2. CASE m <= n
    BY <2>1, <2>2 DEF LeastOf
  <2>3. CASE ~(m <= n)
    BY <2>1, <2>3 DEF LeastOf
  <2> QED
    BY <2>2, <2>3
<1>2. ASSUME GreatestOf(m, S), GreatestOf(n, T)
      PROVE  GreatestOf(IF m >= n THEN m ELSE n, S \cup T)
  <2>1. /\ m \in Int /\ n \in Int /\ m \in S /\ n \in T
        /\ \A x \in S : x \in Int /\ m >= x
        /\ \A x \in T : x \in Int /\ n >= x
    BY <1>2 DEF GreatestOf
  <2>2. CASE m >= n
    BY <2>1, <2>2 DEF GreatestOf
  <2>3. CASE ~(m >= n)
    BY <2>1, <2>3 DEF GreatestOf
  <2> QED
    BY <2>2, <2>3
<1> QED
  BY <1>1, <1>2

LEMMA PointValues ==
  ASSUME NEW ps \in Seq(Point)
  PROVE  \A i \in DOMAIN ps : ps[i].value \in Number
<1>1. \A i \in DOMAIN ps : ps[i] \in Point
  OBVIOUS
<1>2. \A p \in Point : p.value \in Values
  BY DEF Point
<1>3. Values \subseteq Number
  BY NumbersAssumption DEF Number
<1> QED
  BY <1>1, <1>2, <1>3

\* A sum of points is the sum over their places, unless one is no number.
LEMMA SumAtPlaces ==
  ASSUME NEW ps \in Seq(Point), NEW I \in SUBSET DOMAIN ps, \A i \in I : ps[i].value # NaN
  PROVE  LET f == [i \in DOMAIN ps |-> ps[i].value]
         IN  /\ SumAt(ps, I) = SumFunctionOnSet(f, I) /\ SumAt(ps, I) \in Int
             /\ IsFiniteSet(I) /\ \A i \in I : f[i] \in Int
<1> DEFINE f == [i \in DOMAIN ps |-> ps[i].value]
           g == [i \in I |-> ps[i].value]
<1>1. IsFiniteSet(DOMAIN ps)
  <2>1. DOMAIN ps = 1 .. Len(ps) /\ Len(ps) \in Nat
    OBVIOUS
  <2> QED
    BY <2>1, FS_Interval
<1>2. IsFiniteSet(I)
  BY <1>1, FS_Subset
<1>3. \A i \in I : ps[i].value \in Int
  BY PointValues DEF Number
<1>4. \A i \in I : f[i] \in Int /\ g[i] = f[i]
  BY <1>3
<1>5. SumAt(ps, I) = SumFunctionOnSet(g, I)
  <2>1. DOMAIN g = I
    OBVIOUS
  <2>2. SumAt(ps, I) = SumFunction(g)
    BY DEF SumAt
  <2> QED
    BY <2>1, <2>2 DEF SumFunction
<1> HIDE DEF f, g
<1>6. SumFunctionOnSet(g, I) = SumFunctionOnSet(f, I)
  BY <1>2, <1>4, SumSame
<1>7. \A i \in I : f[i] \in Int
  BY <1>4
<1>8. SumFunctionOnSet(f, I) \in Int
  BY <1>2, <1>7, SumType
<1> QED
  BY <1>2, <1>5, <1>6, <1>7, <1>8 DEF f

\* Sums over places of which none is in both.
LEMMA SumOfBoth ==
  ASSUME NEW ps \in Seq(Point), NEW I \in SUBSET DOMAIN ps, NEW J \in SUBSET DOMAIN ps,
         I \cap J = {}
  PROVE  /\ SumAt(ps, I) \in Number /\ SumAt(ps, J) \in Number
         /\ SumAt(ps, I \cup J) = Plus(SumAt(ps, I), SumAt(ps, J))
<1> DEFINE f == [i \in DOMAIN ps |-> ps[i].value]
           Clean(K) == \A i \in K : ps[i].value # NaN
<1>1. ASSUME NEW K \in SUBSET DOMAIN ps, Clean(K)
      PROVE  /\ SumAt(ps, K) = SumFunctionOnSet(f, K) /\ SumAt(ps, K) \in Int
             /\ IsFiniteSet(K) /\ \A i \in K : f[i] \in Int
  BY <1>1, SumAtPlaces
<1>2. ASSUME NEW K, ~Clean(K) PROVE SumAt(ps, K) = NaN
  BY <1>2 DEF SumAt
<1>3. \A K \in SUBSET DOMAIN ps : SumAt(ps, K) \in Number /\ (SumAt(ps, K) = NaN <=> ~Clean(K))
  <2> HIDE DEF Clean, f
  <2> QED
    BY <1>1, <1>2, NumbersAssumption DEF Number
<1>4. Clean(I \cup J) <=> Clean(I) /\ Clean(J)
  OBVIOUS
<1>5. I \cup J \in SUBSET DOMAIN ps
  OBVIOUS
<1> HIDE DEF Clean, f
<1>6. CASE Clean(I) /\ Clean(J)
  <2>1. /\ IsFiniteSet(I) /\ IsFiniteSet(J)
        /\ SumAt(ps, I) = SumFunctionOnSet(f, I) /\ SumAt(ps, J) = SumFunctionOnSet(f, J)
        /\ SumAt(ps, I \cup J) = SumFunctionOnSet(f, I \cup J)
    BY <1>1, <1>4, <1>5, <1>6
  <2>2. \A i \in I \cup J : f[i] \in Int
    BY <1>1, <1>6
  <2>3. SumFunctionOnSet(f, I \cup J) = SumFunctionOnSet(f, I) + SumFunctionOnSet(f, J)
    BY <2>1, <2>2, SumOfTwo
  <2>4. SumAt(ps, I) # NaN /\ SumAt(ps, J) # NaN
    BY <1>3, <1>6
  <2> QED
    BY <1>3, <2>1, <2>3, <2>4 DEF Plus
<1>7. CASE ~(Clean(I) /\ Clean(J))
  BY <1>3, <1>4, <1>5, <1>7 DEF Plus
<1> QED
  BY <1>6, <1>7

\* One part more adds to the whole.
LEMMA AddsMore ==
  ASSUME NEW parts \in Seq(Number), NEW e \in Number, NEW whole \in Number, AddsUp(parts, whole)
  PROVE  /\ Append(parts, e) \in Seq(Number)
         /\ AddsUp(Append(parts, e), Plus(whole, e))
<1> DEFINE more == Append(parts, e)
<1>1. /\ more \in Seq(Number) /\ Len(parts) \in Nat /\ DOMAIN parts = 1 .. Len(parts)
      /\ DOMAIN more = 1 .. Len(parts) + 1 /\ more[Len(parts) + 1] = e
      /\ \A i \in 1 .. Len(parts) : more[i] = parts[i]
  OBVIOUS
<1>2. NaN \in Range(more) <=> NaN \in Range(parts) \/ e = NaN
  <2> HIDE DEF more
  <2>1. 1 .. Len(parts) + 1 = (1 .. Len(parts)) \cup {Len(parts) + 1}
    BY <1>1
  <2> QED
    BY <1>1, <2>1 DEF Range
<1>3. CASE NaN \in Range(parts)
  <2>1. whole = NaN
    BY <1>3 DEF AddsUp
  <2> QED
    BY <1>1, <1>2, <1>3, <2>1 DEF AddsUp, Plus
<1>4. CASE e = NaN
  BY <1>1, <1>2, <1>4 DEF AddsUp, Plus
<1>5. CASE NaN \notin Range(parts) /\ e # NaN
  <2>1. \A i \in 1 .. Len(parts) : parts[i] \in Int
    BY <1>1, <1>5 DEF Range, Number
  <2>2. parts \in Seq(Int) /\ e \in Int
    BY <1>1, <1>5, <2>1 DEF Number
  <2>3. SumFunction(parts) \in Int /\ SumFunction(more) = SumFunction(parts) + e
    BY <2>2, SumOfAppend
  <2>4. whole = SumFunction(parts) /\ whole # NaN
    BY <1>5, <2>3, NumbersAssumption DEF AddsUp
  <2> QED
    BY <1>1, <1>2, <1>5, <2>3, <2>4 DEF AddsUp, Plus
<1> QED
  BY <1>3, <1>4, <1>5

\* The values of one window more.
LEMMA ValuesMore ==
  ASSUME NEW S, NEW ws \in Seq(S), NEW e
  PROVE  /\ ValuesIn(Append(ws, e)) = Append(ValuesIn(ws), e.value)
         /\ \A c : Part(Append(ws, e), c) = Append(Part(ws, c), e.value[c])
         /\ Append(ws, e) # <<>>
         /\ Len(ValuesIn(ws)) = Len(ws)
<1> DEFINE n == Len(ws)
           longer == Append(ws, e)
<1>1. n \in Nat /\ DOMAIN ws = 1 .. n
  OBVIOUS
<1>2. /\ DOMAIN longer = 1 .. n + 1 /\ longer[n + 1] = e
      /\ \A w \in 1 .. n : longer[w] = ws[w]
      /\ longer # <<>>
  BY <1>1
<1> HIDE DEF longer
<1>3. ASSUME NEW f(_)
      PROVE  /\ Len([w \in DOMAIN ws |-> f(ws[w])]) = n
             /\ [w \in DOMAIN longer |-> f(longer[w])]
                  = Append([w \in DOMAIN ws |-> f(ws[w])], f(e))
  <2> DEFINE vs == [w \in 1 .. n |-> f(ws[w])]
             T == {f(ws[w]) : w \in 1 .. n} \cup {f(e)}
             more == [w \in 1 .. n + 1 |-> f(longer[w])]
  <2>1. vs \in Seq(T) /\ Len(vs) = n /\ f(e) \in T
    BY <1>1
  <2>2. \A w \in 1 .. n + 1 : more[w] = IF w = n + 1 THEN f(e) ELSE vs[w]
    BY <1>1, <1>2
  <2>3. DOMAIN vs = 1 .. n
    OBVIOUS
  <2> HIDE DEF T, vs
  <2>4. /\ DOMAIN Append(vs, f(e)) = 1 .. n + 1
        /\ Append(vs, f(e))[n + 1] = f(e)
        /\ \A w \in 1 .. n : Append(vs, f(e))[w] = vs[w]
        /\ Append(vs, f(e)) \in Seq(T)
    BY <2>1, <2>3, AppendFacts
  <2>5. \A w \in 1 .. n + 1 : more[w] = Append(vs, f(e))[w]
    BY <1>1, <2>2, <2>4
  <2>6. Append(vs, f(e)) = [w \in 1 .. n + 1 |-> Append(vs, f(e))[w]]
    <3>1. \A s \in Seq(T) : s = [w \in DOMAIN s |-> s[w]]
      OBVIOUS
    <3> QED
      BY <2>4, <3>1
  <2>7. more = Append(vs, f(e))
    BY <2>5, <2>6
  <2> QED
    BY <1>1, <1>2, <2>1, <2>7 DEF vs
<1> QED
  BY <1>1, <1>2, <1>3 DEF ValuesIn, Part, longer

LEMMA LowerBound == Infinity \in Int /\ -Infinity \in Int
BY NumbersAssumption

LEMMA RangeMore ==
  ASSUME NEW S, NEW s \in Seq(S), NEW e
  PROVE  Range(Append(s, e)) = Range(s) \cup {e}
<1>1. s \in Seq(S \cup {e}) /\ e \in S \cup {e} /\ Len(s) \in Nat /\ DOMAIN s = 1 .. Len(s)
  OBVIOUS
<1>2. /\ DOMAIN Append(s, e) = (1 .. Len(s)) \cup {Len(s) + 1}
      /\ \A i \in 1 .. Len(s) : Append(s, e)[i] = s[i]
      /\ Append(s, e)[Len(s) + 1] = e
  <2>1. 1 .. Len(s) + 1 = (1 .. Len(s)) \cup {Len(s) + 1}
    BY <1>1
  <2> QED
    BY <1>1, <2>1, AppendFacts
<1> QED
  BY <1>1, <1>2 DEF Range

\* Before the first window nothing is rolled up.
LEMMA NothingRolled ==
  ASSUME NEW op, NEW ps
  PROVE  RollsUp(op, ps, <<>>, {})
<1>1. ValuesIn(<<>>) = <<>> /\ \A c : Part(<<>>, c) = <<>>
  BY DEF ValuesIn, Part
<1>2. Range(<<>>) = {} /\ NumbersAt(ps, {}) = {}
  BY DEF Range, NumbersAt
<1>3. SumFunction(<<>>) = 0
  <2>1. DOMAIN <<>> = {}
    OBVIOUS
  <2> QED
    BY <2>1, SumOfNone DEF SumFunction
<1>4. SumAt(ps, {}) = 0
  <2>1. DOMAIN [i \in {} |-> ps[i].value] = {}
    OBVIOUS
  <2> QED
    BY <2>1, SumOfNone DEF SumAt, SumFunction
<1>5. Cardinality({}) = 0
  BY FS_EmptySet
<1>6. AddsUp(<<>>, 0) /\ <<>> \in Seq(Number)
  BY <1>2, <1>3 DEF AddsUp
<1>7. LeastOf(Infinity, {Infinity}) /\ GreatestOf(-Infinity, {-Infinity})
  BY LowerBound DEF LeastOf, GreatestOf
<1>8. LeastUp(ps, <<>>, {}) /\ GreatestUp(ps, <<>>, {})
  <2>1. Range(<<>>) \cup {Infinity} = {Infinity} /\ Range(<<>>) \cup {-Infinity} = {-Infinity}
        /\ NumbersAt(ps, {}) \cup {Infinity} = {Infinity}
        /\ NumbersAt(ps, {}) \cup {-Infinity} = {-Infinity}
    BY <1>2
  <2>2. <<>> \in Seq(Int) /\ \A v \in Range(<<>>) : v <= Infinity /\ v >= -Infinity
    BY <1>2
  <2> QED
    BY <1>7, <2>1, <2>2, Zenon DEF LeastUp, GreatestUp
<1> QED
  BY <1>1, <1>4, <1>5, <1>6, <1>8 DEF RollsUp, SumsUp, CountsUp, FirstUp, LastUp

-----------------------------------------------------------------------------
(* One window more rolls up with those before it *)

LEMMA SumsMore ==
  ASSUME NEW ps \in Seq(Point), NEW B \in SUBSET DOMAIN ps, NEW I \in SUBSET DOMAIN ps,
         B \cap I = {}, NEW vs, SumsUp(ps, vs, B)
  PROVE  SumsUp(ps, Append(vs, SumAt(ps, I)), B \cup I)
<1>1. /\ SumAt(ps, B) \in Number /\ SumAt(ps, I) \in Number
      /\ SumAt(ps, B \cup I) = Plus(SumAt(ps, B), SumAt(ps, I))
  BY SumOfBoth
<1>2. vs \in Seq(Number) /\ AddsUp(vs, SumAt(ps, B))
  BY DEF SumsUp
<1> QED
  BY <1>1, <1>2, AddsMore DEF SumsUp

LEMMA CountsMore ==
  ASSUME NEW B, NEW I, Cardinality(B) \in Nat, Cardinality(I) \in Nat,
         Cardinality(B \cup I) = Cardinality(B) + Cardinality(I), NEW vs, CountsUp(vs, B)
  PROVE  CountsUp(Append(vs, Cardinality(I)), B \cup I)
<1> DEFINE b == Cardinality(B)
           c == Cardinality(I)
<1>1. vs \in Seq(Number) /\ AddsUp(vs, b)
  BY DEF CountsUp
<1>2. b \in Nat /\ c \in Nat /\ Cardinality(B \cup I) = b + c
  OBVIOUS
<1> HIDE DEF b, c
<1>3. b \in Number /\ c \in Number /\ Plus(b, c) = b + c
  BY <1>2, NumbersAssumption DEF Number, Plus
<1>4. Append(vs, c) \in Seq(Number) /\ AddsUp(Append(vs, c), Plus(b, c))
  BY <1>1, <1>3, AddsMore
<1> QED
  BY <1>2, <1>3, <1>4 DEF CountsUp, c

\* The values of finitely many points are finitely many integers.
LEMMA NumbersFinite ==
  ASSUME NEW ps \in Seq(Point), NEW I \in SUBSET DOMAIN ps, IsFiniteSet(I)
  PROVE  NumbersAt(ps, I) \in SUBSET Int /\ IsFiniteSet(NumbersAt(ps, I))
<1> DEFINE T == {ps[i].value : i \in I}
           f == [i \in I |-> ps[i].value]
<1>1. f \in [I -> T] /\ \A v \in T : \E i \in I : f[i] = v
  OBVIOUS
<1>2. f \in Surjection(I, T)
  BY <1>1 DEF Surjection
<1>3. IsFiniteSet(T)
  BY <1>2, FS_Surjection
<1>4. T \subseteq Number
  BY PointValues
<1>5. NumbersAt(ps, I) = T \ {NaN}
  BY DEF NumbersAt
<1> HIDE DEF T
<1>6. T \ {NaN} \in SUBSET T
  OBVIOUS
<1>7. IsFiniteSet(T \ {NaN})
  BY <1>3, <1>6, FS_Subset
<1> QED
  BY <1>4, <1>5, <1>7 DEF Number

LEMMA LeastMore ==
  ASSUME NEW ps \in Seq(Point), NEW B \in SUBSET DOMAIN ps, NEW I \in SUBSET DOMAIN ps,
         IsFiniteSet(I), IsFiniteSet(B), NEW vs, LeastUp(ps, vs, B)
  PROVE  LeastUp(ps, Append(vs, Min(NumbersAt(ps, I) \cup {Infinity})), B \cup I)
<1> DEFINE N(J) == NumbersAt(ps, J) \cup {Infinity}
           v == Min(N(I))
<1>1. N(I) \in SUBSET Int /\ IsFiniteSet(N(I)) /\ N(I) # {} /\ N(B) \in SUBSET Int
  BY NumbersFinite, LowerBound, FS_AddElement
<1>2. LeastOf(v, N(I))
  BY <1>1, MinMaxFound
<1>3. PICK m : LeastOf(m, Range(vs) \cup {Infinity}) /\ LeastOf(m, N(B))
  BY DEF LeastUp
<1>4. vs \in Seq(Int) /\ Range(vs) \cup {Infinity} \in SUBSET Int
      /\ \A x \in Range(vs) : x <= Infinity
  BY LowerBound DEF LeastUp, Range
<1> DEFINE l == IF m <= v THEN m ELSE v
<1>5. LeastOf(l, N(B) \cup N(I))
  <2> HIDE DEF v, N
  <2> QED
    BY <1>1, <1>2, <1>3, LeastOfBoth
<1>6. v \in Int /\ v <= Infinity /\ LeastOf(v, {v})
  <2>1. Infinity \in N(I)
    OBVIOUS
  <2> HIDE DEF v, N
  <2> QED
    BY <1>1, <1>2, <2>1 DEF LeastOf
<1>7. LeastOf(l, (Range(vs) \cup {Infinity}) \cup {v})
  <2> HIDE DEF v, N
  <2>1. {v} \in SUBSET Int
    BY <1>6
  <2> QED
    BY <1>3, <1>4, <1>6, <2>1, LeastOfBoth
<1>8. N(B) \cup N(I) = NumbersAt(ps, B \cup I) \cup {Infinity}
  BY DEF NumbersAt
<1>9. Append(vs, v) \in Seq(Int) /\ Range(Append(vs, v)) = Range(vs) \cup {v}
  <2> HIDE DEF v
  <2> QED
    BY <1>4, <1>6, RangeMore
<1> HIDE DEF v, N
<1>10. (Range(vs) \cup {Infinity}) \cup {v} = Range(Append(vs, v)) \cup {Infinity}
  BY <1>9
<1>11. \A x \in Range(Append(vs, v)) : x <= Infinity
  BY <1>4, <1>6, <1>9
<1>12. LeastUp(ps, Append(vs, v), B \cup I)
  <2> HIDE DEF l
  <2> QED
    BY <1>5, <1>7, <1>8, <1>9, <1>10, <1>11 DEF LeastUp
<1> QED
  BY <1>12 DEF v, N

LEMMA GreatestMore ==
  ASSUME NEW ps \in Seq(Point), NEW B \in SUBSET DOMAIN ps, NEW I \in SUBSET DOMAIN ps,
         IsFiniteSet(I), IsFiniteSet(B), NEW vs, GreatestUp(ps, vs, B)
  PROVE  GreatestUp(ps, Append(vs, Max(NumbersAt(ps, I) \cup {-Infinity})), B \cup I)
<1> DEFINE low == -Infinity
           N(J) == NumbersAt(ps, J) \cup {low}
           v == Max(N(I))
<1>0. low \in Int
  BY LowerBound
<1>1. N(I) \in SUBSET Int /\ IsFiniteSet(N(I)) /\ N(I) # {} /\ N(B) \in SUBSET Int
  <2> HIDE DEF low
  <2> QED
    BY <1>0, NumbersFinite, FS_AddElement
<1>2. GreatestOf(v, N(I))
  BY <1>1, MinMaxFound
<1>3. PICK m : GreatestOf(m, Range(vs) \cup {low}) /\ GreatestOf(m, N(B))
  BY DEF GreatestUp
<1>4. vs \in Seq(Int) /\ Range(vs) \cup {low} \in SUBSET Int
      /\ \A x \in Range(vs) : x >= low
  <2>1. vs \in Seq(Int) /\ \A x \in Range(vs) : x >= low
    BY DEF GreatestUp
  <2> HIDE DEF low
  <2> QED
    BY <1>0, <2>1 DEF Range
<1> HIDE DEF low
<1> DEFINE l == IF m >= v THEN m ELSE v
<1>5. GreatestOf(l, N(B) \cup N(I))
  <2> HIDE DEF v, N
  <2> QED
    BY <1>1, <1>2, <1>3, LeastOfBoth
<1>6. v \in Int /\ v >= low /\ GreatestOf(v, {v})
  <2>1. low \in N(I)
    OBVIOUS
  <2> HIDE DEF v, N
  <2> QED
    BY <1>1, <1>2, <2>1 DEF GreatestOf
<1>7. GreatestOf(l, (Range(vs) \cup {low}) \cup {v})
  <2> HIDE DEF v, N
  <2>1. {v} \in SUBSET Int
    BY <1>6
  <2> QED
    BY <1>3, <1>4, <1>6, <2>1, LeastOfBoth
<1>8. N(B) \cup N(I) = NumbersAt(ps, B \cup I) \cup {low}
  BY DEF NumbersAt
<1>9. Append(vs, v) \in Seq(Int) /\ Range(Append(vs, v)) = Range(vs) \cup {v}
  <2> HIDE DEF v
  <2> QED
    BY <1>4, <1>6, RangeMore
<1> HIDE DEF v, N
<1>10. (Range(vs) \cup {low}) \cup {v} = Range(Append(vs, v)) \cup {low}
  BY <1>9
<1>11. \A x \in Range(Append(vs, v)) : x >= low
  BY <1>4, <1>6, <1>9
<1>12. GreatestUp(ps, Append(vs, v), B \cup I)
  <2> HIDE DEF l
  <2>1. GreatestOf(l, Range(Append(vs, v)) \cup {low}) /\ GreatestOf(l, NumbersAt(ps, B \cup I) \cup {low})
    BY <1>5, <1>7, <1>8, <1>10
  <2> QED
    BY <1>9, <1>11, <2>1 DEF GreatestUp, low
<1> QED
  BY <1>12 DEF v, N, low

\* A window's value, by the places of its points.
LEMMA ValueOfWindow ==
  ASSUME NEW I
  PROVE  /\ aggregation = "Sum" => Aggregated(aggregation, I) = SumAt(points, I)
         /\ aggregation = "Count" => Aggregated(aggregation, I) = Cardinality(I)
         /\ aggregation = "Avg" => /\ Aggregated(aggregation, I)[1] = SumAt(points, I)
                                   /\ Aggregated(aggregation, I)[2] = Cardinality(I)
         /\ aggregation = "Min" =>
              Aggregated(aggregation, I) = Min(NumbersAt(points, I) \cup {Infinity})
         /\ aggregation = "Max" =>
              Aggregated(aggregation, I) = Max(NumbersAt(points, I) \cup {-Infinity})
         /\ aggregation = "First" => Aggregated(aggregation, I) = points[Min(I)].value
         /\ aggregation = "Last" => Aggregated(aggregation, I) = points[Max(I)].value
<1>1. SumOf(I) = SumAt(points, I) /\ NumbersOf(I) = NumbersAt(points, I)
  BY DEF SumOf, SumAt, NumbersOf, NumbersAt
<1> QED
  BY <1>1, Zenon DEF Aggregated

\* The first window to be pushed begins with the first point.
LEMMA FirstInside ==
  ASSUME WindowsInv, Proper, NextWindow, Inside # {}, windows = <<>>
  PROVE  Min(Inside) = 1
<1>1. /\ WindowsTypeOK /\ Chronologic(points) /\ LoopInv
      /\ DOMAIN points = 1 .. Len(points) /\ Len(points) \in Nat
  BY DEF WindowsInv, WindowsTypeOK
<1>2. PICK i \in Inside : TRUE
  OBVIOUS
<1>3. i \in DOMAIN points /\ points[i].timestamp < window_end
  BY <1>2 DEF Inside
<1>4. 1 \in DOMAIN points /\ 1 <= i
  BY <1>1, <1>3
<1>5. points[1].timestamp \in Nat /\ points[i].timestamp \in Nat
  BY <1>1, <1>3, <1>4, PointTimes
<1>6. points[1].timestamp <= points[i].timestamp
  <2>1. CASE i = 1
    BY <1>5, <2>1
  <2>2. CASE 1 < i
    BY <1>1, <1>3, <1>4, <2>2 DEF Chronologic
  <2> QED
    BY <1>1, <1>3, <1>4, <2>1, <2>2
<1>7. ~(points[1].timestamp < current_window_start)
  BY <1>1, <1>4 DEF LoopInv, CoveredBefore
<1>8. current_window_start \in Nat /\ window_end \in Nat
  <2>1. window_end = current_window_start + window_size
    BY ProperEnd DEF NextWindow
  <2> QED
    BY <1>1, <2>1 DEF WindowsTypeOK
<1>9. 1 \in Inside
  BY <1>3, <1>4, <1>5, <1>6, <1>7, <1>8 DEF Inside
<1>10. Inside \in SUBSET Int /\ LeastOf(1, Inside)
  BY <1>1, <1>9 DEF Inside, LeastOf
<1> QED
  BY <1>10, IsLeast

\* The last point of a window comes after those of earlier windows.
LEMMA LastInside ==
  ASSUME WindowsInv, Proper, NextWindow, Inside # {}
  PROVE  GreatestOf(Max(Inside), Before(current_window_start) \cup Inside)
<1>1. /\ WindowsTypeOK /\ Chronologic(points) /\ current_window_start \in Nat
      /\ DOMAIN points = 1 .. Len(points) /\ Len(points) \in Nat
  BY DEF WindowsInv, WindowsTypeOK
<1>2. Inside \in SUBSET DOMAIN points /\ Inside \in SUBSET Int /\ IsFiniteSet(Inside)
  BY <1>1, PlacesSplit DEF Inside
<1> DEFINE m == Max(Inside)
<1>3. m \in Inside /\ \A n \in Inside : m >= n
  BY <1>2, MinMaxFound DEF GreatestOf
<1> HIDE DEF m
<1>4. ASSUME NEW i \in Before(current_window_start) PROVE m >= i
  <2>1. i \in DOMAIN points /\ m \in DOMAIN points
    BY <1>2, <1>3 DEF Before
  <2>2. points[i].timestamp < current_window_start /\ current_window_start <= points[m].timestamp
    BY <1>3 DEF Before, Inside
  <2>3. points[i].timestamp \in Nat /\ points[m].timestamp \in Nat
    BY <1>1, <2>1, PointTimes
  <2>4. ~(m < i)
    <3>1. m < i => points[m].timestamp <= points[i].timestamp
      BY <1>1, <2>1 DEF Chronologic
    <3> QED
      BY <1>1, <2>2, <2>3, <3>1
  <2> QED
    BY <1>1, <2>1, <2>4
<1> QED
  BY <1>3, <1>4 DEF GreatestOf, m

LEMMA PushRolls ==
  ASSUME WindowsInv, Proper, NextWindow, Inside # {}, RollInv
  PROVE  RollsUp(aggregation, points, Append(windows, NewWindow),
                 Before(current_window_start) \cup Inside)
<1> DEFINE B == Before(current_window_start)
           v == Aggregated(aggregation, Inside)
           vs == ValuesIn(windows)
           pushed == Append(windows, NewWindow)
<1>1. /\ points \in Seq(Point) /\ windows \in Seq({windows[w] : w \in DOMAIN windows})
      /\ B \cap Inside = {}
      /\ B \in SUBSET DOMAIN points /\ Inside \in SUBSET DOMAIN points
      /\ IsFiniteSet(B) /\ IsFiniteSet(Inside)
      /\ Cardinality(B) \in Nat /\ Cardinality(Inside) \in Nat
      /\ Cardinality(B \cup Inside) = Cardinality(B) + Cardinality(Inside)
  BY PlacesSplit DEF WindowsInv, WindowsTypeOK
<1>2. NewWindow.value = v
  BY DEF NewWindow
<1>3. /\ ValuesIn(pushed) = Append(vs, v)
      /\ Part(pushed, 1) = Append(Part(windows, 1), v[1])
      /\ Part(pushed, 2) = Append(Part(windows, 2), v[2])
      /\ Len(vs) = Len(windows)
  <2>1. PICK S : windows \in Seq(S)
    BY <1>1
  <2>2. PICK e : e = NewWindow
    OBVIOUS
  <2>3. /\ ValuesIn(Append(windows, e)) = Append(ValuesIn(windows), e.value)
        /\ \A c : Part(Append(windows, e), c) = Append(Part(windows, c), e.value[c])
        /\ Append(windows, e) # <<>>
        /\ Len(ValuesIn(windows)) = Len(windows)
    BY <2>1, ValuesMore
  <2> HIDE DEF v, NewWindow
  <2> QED
    BY <1>2, <2>2, <2>3 DEF pushed
<1>4. RollsUp(aggregation, points, windows, B)
  BY DEF RollInv
<1> HIDE DEF pushed, B
<1>5. aggregation = "Sum" => SumsUp(points, ValuesIn(pushed), B \cup Inside)
  <2> SUFFICES ASSUME aggregation = "Sum" PROVE SumsUp(points, ValuesIn(pushed), B \cup Inside)
    OBVIOUS
  <2>1. SumsUp(points, vs, B) /\ v = SumAt(points, Inside)
    BY <1>4, ValueOfWindow DEF RollsUp
  <2> HIDE DEF v, vs
  <2> QED
    BY <1>1, <1>3, <2>1, SumsMore
<1>6. aggregation = "Count" => CountsUp(ValuesIn(pushed), B \cup Inside)
  <2> SUFFICES ASSUME aggregation = "Count" PROVE CountsUp(ValuesIn(pushed), B \cup Inside)
    OBVIOUS
  <2>1. CountsUp(vs, B) /\ v = Cardinality(Inside)
    BY <1>4, ValueOfWindow DEF RollsUp
  <2> HIDE DEF v, vs
  <2> QED
    BY <1>1, <1>3, <2>1, CountsMore
<1>7. aggregation = "Avg" => /\ SumsUp(points, Part(pushed, 1), B \cup Inside)
                             /\ CountsUp(Part(pushed, 2), B \cup Inside)
  <2> SUFFICES ASSUME aggregation = "Avg"
               PROVE  /\ SumsUp(points, Part(pushed, 1), B \cup Inside)
                      /\ CountsUp(Part(pushed, 2), B \cup Inside)
    OBVIOUS
  <2>1. /\ SumsUp(points, Part(windows, 1), B) /\ CountsUp(Part(windows, 2), B)
        /\ v[1] = SumAt(points, Inside) /\ v[2] = Cardinality(Inside)
    BY <1>4, ValueOfWindow DEF RollsUp
  <2> HIDE DEF v, vs
  <2>2. SumsUp(points, Part(pushed, 1), B \cup Inside)
    BY <1>1, <1>3, <2>1, SumsMore
  <2>3. CountsUp(Part(pushed, 2), B \cup Inside)
    BY <1>1, <1>3, <2>1, CountsMore
  <2> QED
    BY <2>2, <2>3
<1>8. aggregation = "Min" => LeastUp(points, ValuesIn(pushed), B \cup Inside)
  <2> SUFFICES ASSUME aggregation = "Min" PROVE LeastUp(points, ValuesIn(pushed), B \cup Inside)
    OBVIOUS
  <2>1. LeastUp(points, vs, B) /\ v = Min(NumbersAt(points, Inside) \cup {Infinity})
    BY <1>4, ValueOfWindow DEF RollsUp
  <2> HIDE DEF v, vs
  <2> QED
    BY <1>1, <1>3, <2>1, LeastMore
<1>9. aggregation = "Max" => GreatestUp(points, ValuesIn(pushed), B \cup Inside)
  <2> SUFFICES ASSUME aggregation = "Max" PROVE GreatestUp(points, ValuesIn(pushed), B \cup Inside)
    OBVIOUS
  <2>1. GreatestUp(points, vs, B) /\ v = Max(NumbersAt(points, Inside) \cup {-Infinity})
    BY <1>4, ValueOfWindow DEF RollsUp
  <2> HIDE DEF v, vs
  <2> QED
    BY <1>1, <1>3, <2>1, GreatestMore
<1>10. /\ vs \in Seq({windows[w].value : w \in DOMAIN windows})
       /\ vs = <<>> <=> windows = <<>>
       /\ Len(vs) \in Nat
  <2>1. DOMAIN windows = 1 .. Len(windows) /\ Len(windows) \in Nat
    BY <1>1
  <2>2. vs \in [1 .. Len(windows) -> {windows[w].value : w \in DOMAIN windows}]
    BY <2>1 DEF ValuesIn
  <2>3. vs \in Seq({windows[w].value : w \in DOMAIN windows})
    BY <2>1, <2>2
  <2>4. vs = <<>> <=> Len(vs) = 0
    <3> HIDE DEF vs
    <3> QED
      BY <2>3, EmptySeq
  <2>5. windows = <<>> <=> Len(windows) = 0
    BY <1>1, EmptySeq
  <2> QED
    BY <1>3, <2>1, <2>3, <2>4, <2>5
<1>11. /\ Append(vs, v)[Len(vs) + 1] = v /\ Len(Append(vs, v)) = Len(vs) + 1
       /\ vs # <<>> => Append(vs, v)[1] = vs[1]
  <2> HIDE DEF v, vs
  <2>1. vs \in Seq({windows[w].value : w \in DOMAIN windows} \cup {v})
    BY <1>10
  <2>2. vs # <<>> => 1 \in DOMAIN vs
    BY <1>10
  <2> QED
    BY <2>1, <2>2, AppendFacts
<1>12. aggregation = "First" => FirstUp(points, ValuesIn(pushed))
  <2> SUFFICES ASSUME aggregation = "First" PROVE FirstUp(points, ValuesIn(pushed))
    OBVIOUS
  <2>1. FirstUp(points, vs) /\ v = points[Min(Inside)].value
    BY <1>4, ValueOfWindow DEF RollsUp
  <2>2. vs = <<>> => v = points[1].value
    BY <1>10, <2>1, FirstInside
  <2>3. vs = <<>> => Len(vs) = 0
    OBVIOUS
  <2> HIDE DEF v, vs
  <2> QED
    BY <1>3, <1>11, <2>1, <2>2, <2>3 DEF FirstUp
<1>13. aggregation = "Last" => LastUp(points, ValuesIn(pushed), B \cup Inside)
  <2> SUFFICES ASSUME aggregation = "Last" PROVE LastUp(points, ValuesIn(pushed), B \cup Inside)
    OBVIOUS
  <2>1. v = points[Max(Inside)].value
    BY ValueOfWindow
  <2>2. GreatestOf(Max(Inside), B \cup Inside)
    BY LastInside DEF B
  <2> HIDE DEF v, vs
  <2> QED
    BY <1>3, <1>11, <2>1, <2>2 DEF LastUp
<1> HIDE DEF v, vs
<1>14. RollsUp(aggregation, points, pushed, B \cup Inside)
  BY <1>5, <1>6, <1>7, <1>8, <1>9, <1>12, <1>13, Zenon DEF RollsUp
<1> QED
  BY <1>14 DEF pushed, B

LEMMA NextKeepsRoll == WindowsInv /\ RollInv /\ [WindowsNext]_windowVars => RollInv'
<1> SUFFICES ASSUME WindowsInv, RollInv, [WindowsNext]_windowVars, Proper'
             PROVE  RollsUp(aggregation', points', windows', Before(current_window_start)')
  BY Zenon DEF RollInv
<1>1. CASE BeginSorted
  <2>1. windows' = <<>>
    BY <1>1 DEF BeginSorted, BeginWindows
  <2>2. CoveredBefore(current_window_start)'
    BY <1>1, BeginKeepsInv DEF WindowsInv, LoopInv
  <2>3. Before(current_window_start)' = {}
    BY <2>1, <2>2 DEF CoveredBefore, Before
  <2> QED
    BY <2>1, <2>3, NothingRolled
<1>2. CASE NextWindow
  <2>1. Proper /\ points' = points /\ aggregation' = aggregation
    BY <1>2 DEF NextWindow, Proper, Fits
  <2>2. Before(current_window_start)' = Before(current_window_start) \cup Inside
    BY <1>2, <2>1, PlacesSplit
  <2>3. CASE Inside = {}
    <3>1. windows' = windows /\ Before(current_window_start)' = Before(current_window_start)
      BY <1>2, <2>2, <2>3 DEF NextWindow
    <3> QED
      BY <2>1, <3>1, Zenon DEF RollInv
  <2>4. CASE Inside # {}
    <3>1. windows' = Append(windows, NewWindow)
      BY <1>2, <2>4, NextWindowTypes
    <3>2. RollsUp(aggregation, points, Append(windows, NewWindow),
                  Before(current_window_start) \cup Inside)
      BY <1>2, <2>1, <2>4, PushRolls
    <3> QED
      BY <2>1, <2>2, <3>1, <3>2
  <2> QED
    BY <2>3, <2>4
<1>3. CASE EndWindows \/ UNCHANGED windowVars
  <2>1. /\ points' = points /\ aggregation' = aggregation /\ windows' = windows
        /\ current_window_start' = current_window_start /\ window_size' = window_size
    BY <1>3 DEF EndWindows, windowVars
  <2>2. Proper /\ Before(current_window_start)' = Before(current_window_start)
    BY <2>1 DEF Proper, Fits, Before
  <2> QED
    BY <2>1, <2>2, Zenon DEF RollInv
<1>4. CASE TakeWindows
  <2>1. windows' = <<>> /\ Before(current_window_start)' = {}
    BY <1>4 DEF TakeWindows, Before
  <2> QED
    BY <2>1, NothingRolled
<1> QED
  BY <1>1, <1>2, <1>3, <1>4 DEF WindowsNext

\* Once the loop has returned, the windows roll up to all the points.
LEMMA RolledUp == WindowsInv /\ RollInv => WindowsRollUp
<1> SUFFICES ASSUME WindowsInv, RollInv, stage = "returned", Proper, points # <<>>
             PROVE  WindowsRollUp
  BY DEF WindowsRollUp
<1> DEFINE D == DOMAIN points
           value == [w \in DOMAIN windows |-> windows[w].value]
           total == Aggregated(aggregation, D)
<1>1. /\ Before(current_window_start) = D
      /\ D = 1 .. Len(points) /\ Len(points) \in Nat /\ 1 \in D
  <2>1. points \in Seq(Point)
    BY DEF WindowsInv, WindowsTypeOK
  <2>2. D = 1 .. Len(points) /\ Len(points) \in Nat /\ Len(points) # 0
    BY <2>1
  <2>3. \A i \in D : points[i].timestamp < current_window_start
    BY AllBefore
  <2> QED
    BY <2>2, <2>3 DEF Before
<1>2. RollsUp(aggregation, points, windows, D)
  BY <1>1 DEF RollInv
<1>3. /\ DOMAIN windows = 1 .. Len(windows) /\ Len(windows) \in Nat /\ Len(windows) # 0
      /\ DOMAIN value = DOMAIN windows /\ Len(value) = Len(windows) /\ value # <<>>
  <2>1. DOMAIN windows # {}
    BY <1>1, AllBefore DEF WindowsInv, LoopInv, CoveredBefore
  <2>2. DOMAIN windows = 1 .. Len(windows) /\ Len(windows) \in Nat
    BY DEF WindowsInv, WindowsTypeOK
  <2>3. Len(value) = Len(windows)
    BY <2>2
  <2> QED
    BY <2>1, <2>2, <2>3
<1>4. value = ValuesIn(windows) /\ D \in SUBSET Int /\ IsFiniteSet(D)
  BY <1>1, FS_Interval DEF ValuesIn
<1>5. \A c : [w \in DOMAIN value |-> value[w][c]] = Part(windows, c)
  BY DEF Part
<1>6. Range(value) # {} /\ \A w \in DOMAIN windows : value[w] \in Range(value)
  BY <1>3 DEF Range
<1>7. NumbersAt(points, D) \cup {Infinity} \in SUBSET Int
      /\ NumbersAt(points, D) \cup {-Infinity} \in SUBSET Int
  <2>1. NumbersAt(points, D) \in SUBSET Int
    BY <1>4, NumbersFinite DEF WindowsInv, WindowsTypeOK
  <2> QED
    BY <2>1, LowerBound
<1> HIDE DEF D, value
<1>8. aggregation = "Sum" => AddsUp(value, total)
  BY <1>2, <1>4, ValueOfWindow DEF RollsUp, SumsUp
<1>9. aggregation = "Count" => AddsUp(value, total)
  BY <1>2, <1>4, ValueOfWindow DEF RollsUp, CountsUp
<1>10. aggregation = "Avg" =>
         /\ AddsUp([w \in DOMAIN value |-> value[w][1]], total[1])
         /\ AddsUp([w \in DOMAIN value |-> value[w][2]], total[2])
  BY <1>2, <1>5, ValueOfWindow DEF RollsUp, SumsUp, CountsUp
<1>11. aggregation = "Min" => Min(Range(value)) = total
  <2> SUFFICES ASSUME aggregation = "Min" PROVE Min(Range(value)) = total
    OBVIOUS
  <2>1. LeastUp(points, value, D) /\ total = Min(NumbersAt(points, D) \cup {Infinity})
    BY <1>2, <1>4, ValueOfWindow DEF RollsUp
  <2>2. PICK m : /\ LeastOf(m, Range(value) \cup {Infinity})
                 /\ LeastOf(m, NumbersAt(points, D) \cup {Infinity})
    BY <2>1 DEF LeastUp
  <2>3. Range(value) \in SUBSET Int /\ \A v \in Range(value) : v <= Infinity
    BY <2>1 DEF LeastUp, Range
  <2>4. LeastOf(m, Range(value))
    BY <1>6, <2>2, <2>3, LowerBound DEF LeastOf
  <2>5. total = m
    BY <1>7, <2>1, <2>2, IsLeast
  <2> QED
    BY <2>3, <2>4, <2>5, IsLeast
<1>12. aggregation = "Max" => Max(Range(value)) = total
  <2> SUFFICES ASSUME aggregation = "Max" PROVE Max(Range(value)) = total
    OBVIOUS
  <2>1. GreatestUp(points, value, D) /\ total = Max(NumbersAt(points, D) \cup {-Infinity})
    BY <1>2, <1>4, ValueOfWindow DEF RollsUp
  <2>2. PICK m : /\ GreatestOf(m, Range(value) \cup {-Infinity})
                 /\ GreatestOf(m, NumbersAt(points, D) \cup {-Infinity})
    BY <2>1 DEF GreatestUp
  <2>3. Range(value) \in SUBSET Int /\ \A v \in Range(value) : v >= -Infinity
    BY <2>1 DEF GreatestUp, Range
  <2>4. GreatestOf(m, Range(value))
    BY <1>6, <2>2, <2>3, LowerBound DEF GreatestOf
  <2>5. total = m
    BY <1>7, <2>1, <2>2, IsLeast
  <2> QED
    BY <2>3, <2>4, <2>5, IsLeast
<1>13. aggregation = "First" => value[1] = total
  <2>1. LeastOf(1, D)
    BY <1>1 DEF LeastOf, D
  <2>2. Min(D) = 1
    BY <1>4, <2>1, IsLeast
  <2> QED
    BY <1>2, <1>3, <1>4, <2>2, ValueOfWindow DEF RollsUp, FirstUp
<1>14. aggregation = "Last" => value[Len(windows)] = total
  <2> SUFFICES ASSUME aggregation = "Last" PROVE value[Len(windows)] = total
    OBVIOUS
  <2>1. PICK m : GreatestOf(m, D) /\ value[Len(value)] = points[m].value
    BY <1>2, <1>3, <1>4 DEF RollsUp, LastUp
  <2>2. Max(D) = m
    BY <1>4, <2>1, IsLeast
  <2> QED
    BY <1>3, <2>1, <2>2, ValueOfWindow
<1> QED
  BY <1>8, <1>9, <1>10, <1>11, <1>12, <1>13, <1>14, Zenon DEF WindowsRollUp, D, value

\* Rolled up further, the windows of an answer give what the points give at
\* once, for any points, NaN among them (aggregation.rs aggregate_points).
THEOREM WindowsRollUpToPoints == WindowsSpec => []WindowsRollUp
<1>1. WindowsInit => RollInv
  <2> SUFFICES ASSUME WindowsInit PROVE RollsUp(aggregation, points, windows, Before(current_window_start))
    BY DEF RollInv
  <2>1. windows = <<>> /\ Before(current_window_start) = {}
    BY DEF WindowsInit, Before
  <2> QED
    BY <2>1, NothingRolled
<1> QED
  BY <1>1, InitWindowsInv, NextKeepsInv, NextKeepsRoll, RolledUp, PTL DEF WindowsSpec

-----------------------------------------------------------------------------
(* A call that succeeds answers all of its queries *)

\* The queries still to be answered are the last ones of the call, and the
\* results are those of the first ones.
AnsweredInOrder ==
  /\ batch # <<>>
  /\ Len(asked) = Len(results) + Len(batch)
  /\ \A i \in 1 .. Len(batch) : batch[i] = asked[Len(results) + i]
  /\ \A i \in 1 .. Len(results) : results[i].key = asked[i].key

AllAnswered ==
  at = "returned" /\ outcome = "Ok" =>
    /\ Len(results) = Len(asked)
    /\ \A i \in DOMAIN asked : results[i].key = asked[i].key

BatchInv ==
  /\ batch \in Seq(Query) /\ asked \in Seq(Query)
  /\ \E S : results \in Seq(S)
  /\ at = "idle" => results = <<>>
  /\ at \in {"query", "scan", "windows"} => AnsweredInOrder
  /\ AllAnswered

LEMMA InitBatch == Init => BatchInv
BY EmptySeq DEF Init, BatchInv, AllAnswered

\* What Append makes of a sequence of anything.
LEMMA AppendAny ==
  ASSUME NEW S, NEW s \in Seq(S), NEW e
  PROVE  /\ Append(s, e) \in Seq(S \cup {e})
         /\ Len(s) \in Nat /\ Len(Append(s, e)) = Len(s) + 1
         /\ \A i \in 1 .. Len(s) : Append(s, e)[i] = s[i]
         /\ Append(s, e)[Len(s) + 1] = e
<1>1. s \in Seq(S \cup {e})
  <2>1. s \in [1 .. Len(s) -> S \cup {e}] /\ Len(s) \in Nat
    BY LenProperties
  <2> QED
    BY <2>1, SeqDef
<1> QED
  BY <1>1, AppendProperties, LenProperties

\* A query that is answered leaves the rest of the batch in order.
LEMMA DeliverKeeps ==
  ASSUME BatchInv, at \in {"query", "scan", "windows"}, NEW result, Deliver(result)
  PROVE  BatchInv'
<1> DEFINE q == Head(batch)
           answer == [key |-> q.key, result |-> result]
           n == Len(results)
<1>1. PICK S : results \in Seq(S)
  BY DEF BatchInv
<1>2. /\ batch \in Seq(Query) /\ asked \in Seq(Query) /\ batch # <<>>
      /\ Len(asked) = n + Len(batch) /\ n \in Nat /\ Len(batch) \in Nat
      /\ \A i \in 1 .. Len(batch) : batch[i] = asked[n + i]
      /\ \A i \in 1 .. n : results[i].key = asked[i].key
  BY <1>1, LenProperties DEF BatchInv, AnsweredInOrder
<1>3. /\ Head(batch) = batch[1] /\ Len(batch) > 0
      /\ Tail(batch) \in Seq(Query) /\ Len(Tail(batch)) = Len(batch) - 1
      /\ \A i \in 1 .. Len(Tail(batch)) : Tail(batch)[i] = batch[i + 1]
  BY <1>2, HeadTailProperties, EmptySeq
<1>4. /\ results' = Append(results, answer) /\ batch' = Tail(batch) /\ asked' = asked
      /\ at' \in {"query", "returned"}
      /\ at' = "query" => batch' # <<>>
      /\ at' = "returned" => batch' = <<>> /\ outcome' = "Ok"
  BY DEF Deliver
<1>5. /\ results' \in Seq(S \cup {answer}) /\ Len(results') = n + 1
      /\ \A i \in 1 .. n : results'[i] = results[i]
      /\ results'[n + 1] = answer
  <2> HIDE DEF answer
  <2> QED
    BY <1>1, <1>4, AppendAny
<1>6. ASSUME NEW i \in 1 .. n + 1 PROVE results'[i].key = asked[i].key
  <2>1. CASE i = n + 1
    <3>1. q = asked[n + 1]
      BY <1>2, <1>3
    <3>2. results'[i] = answer
      BY <1>5, <2>1
    <3> QED
      BY <2>1, <3>1, <3>2
  <2>2. CASE i \in 1 .. n
    BY <1>2, <1>5, <2>2
  <2> QED
    BY <1>2, <2>1, <2>2
<1>7. ASSUME NEW i \in 1 .. Len(batch') PROVE batch'[i] = asked[Len(results') + i]
  <2>1. batch'[i] = batch[i + 1] /\ i + 1 \in 1 .. Len(batch)
    BY <1>2, <1>3, <1>4
  <2>2. batch[i + 1] = asked[n + (i + 1)] /\ n + (i + 1) = Len(results') + i
    BY <1>2, <1>5, <2>1
  <2> QED
    BY <2>1, <2>2
<1>8. Len(asked) = Len(results') + Len(batch')
  BY <1>2, <1>3, <1>4, <1>5
<1>9. AnsweredInOrder' \/ at' = "returned"
  BY <1>4, <1>5, <1>6, <1>7, <1>8 DEF AnsweredInOrder
<1>10. AllAnswered'
  <2> SUFFICES ASSUME at' = "returned" PROVE AllAnswered'
    BY DEF AllAnswered
  <2>1. Len(batch') = 0 /\ Len(asked) = n + 1
    <3>1. Len(batch') = 0
      BY <1>4, EmptySeq
    <3> QED
      BY <1>2, <1>5, <1>8, <3>1
  <2>2. DOMAIN asked = 1 .. n + 1
    BY <1>2, <2>1, LenProperties
  <2> QED
    BY <1>4, <1>5, <1>6, <2>1, <2>2 DEF AllAnswered
<1> QED
  BY <1>2, <1>3, <1>4, <1>5, <1>9, <1>10 DEF BatchInv

\* A query that fails takes the results before it along.
LEMMA FailKeeps ==
  ASSUME BatchInv, at \in {"query", "scan", "windows"}, NEW status, status # "Ok", Fail(status)
  PROVE  BatchInv'
<1>1. asked # <<>>
  <2>1. Len(batch) \in Nat /\ Len(batch) # 0 /\ Len(asked) = Len(results) + Len(batch)
        /\ Len(results) \in Nat
    BY EmptySeq, LenProperties DEF BatchInv, AnsweredInOrder
  <2> QED
    BY <2>1, EmptySeq
<1>2. <<>> \in Seq(Query)
  BY EmptySeq
<1> QED
  BY <1>1, <1>2 DEF Fail, BatchInv, AllAnswered

LEMMA CallKeepsBatch ==
  ASSUME BatchInv, NEW queries \in Seq(Query), Call(queries)
  PROVE  BatchInv'
<1>1. /\ batch' = queries /\ asked' = queries /\ results' = <<>>
      /\ \/ queries # <<>> /\ at' = "query"
         \/ queries = <<>> /\ at' = "returned" /\ outcome' = "Ok"
  BY DEF Call, BatchInv
<1>2. /\ Len(<<>>) = 0 /\ <<>> \in Seq(Query) /\ Len(queries) \in Nat
      /\ DOMAIN queries = 1 .. Len(queries)
  BY EmptySeq, LenProperties
<1> QED
  BY <1>1, <1>2 DEF BatchInv, AnsweredInOrder, AllAnswered

LEMMA NextBatch == BatchInv /\ [Next]_vars => BatchInv'
<1> SUFFICES ASSUME BatchInv, [Next]_vars PROVE BatchInv'
  OBVIOUS
<1>1. CASE UNCHANGED clientVars
  BY <1>1 DEF clientVars, BatchInv, AnsweredInOrder, AllAnswered
<1>2. ASSUME NEW queries \in Batches, Call(queries) PROVE BatchInv'
  BY <1>2, BatchesAssumption, CallKeepsBatch
<1>3. CASE RejectQuery
  <2>1. Invalid(Head(batch)) # "Ok"
    BY <1>3 DEF RejectQuery, Invalid
  <2> QED
    BY <1>3, <2>1, FailKeeps DEF RejectQuery
<1>4. CASE CallScan
  BY <1>4 DEF CallScan, BatchInv, AnsweredInOrder, AllAnswered
<1>5. CASE ScanFailed
  BY <1>5, FailKeeps DEF ScanFailed
<1>6. CASE AnswerPoints
  BY <1>6, DeliverKeeps DEF AnswerPoints
<1>7. CASE StartWindows
  BY <1>7 DEF StartWindows, BatchInv, AnsweredInOrder, AllAnswered
<1>8. CASE AnswerWindows
  BY <1>8, DeliverKeeps DEF AnswerWindows
<1>9. CASE ReturnExecute
  BY <1>9, EmptySeq DEF ReturnExecute, BatchInv, AllAnswered
<1>10. CASE CallInsert \/ StoreStep \/ AnswerScan \/ WindowStep \/ UNCHANGED vars
  BY <1>1, <1>10 DEF CallInsert, StoreStep, AnswerScan, WindowStep, vars
<1> QED
  BY <1>2, <1>3, <1>4, <1>5, <1>6, <1>7, <1>8, <1>9, <1>10 DEF Next, CallExecute, Execute

-----------------------------------------------------------------------------
(* The store, and the client's call on it *)

StoreTyped ==
  /\ recent \in [Keys -> Seq(Point)]
  /\ request \in [Threads -> Store!Request \cup {Nil}]
  /\ DOMAIN reply = Threads

\* A step of the store for any thread.
StoreCall(t) ==
  \/ Store!Invoke(t) \/ Store!Announce(t) \/ Store!Store(t)
  \/ Store!NotFound(t) \/ Store!Scan(t) \/ Store!Return(t)

LEMMA StoreCallTypes ==
  ASSUME StoreTyped, NEW t \in Threads, StoreCall(t)
  PROVE  StoreTyped'
<1> USE DEF StoreTyped
<1>1. CASE Store!Invoke(t)
  <2>1. /\ request'[t] \in Store!Request /\ request' = [request EXCEPT ![t] = request'[t]]
        /\ recent' = recent /\ reply' = reply
    BY <1>1 DEF Store!Invoke, Store!Requested
  <2> DEFINE r == request'[t]
  <2> HIDE DEF r
  <2>2. request' = [request EXCEPT ![t] = r] /\ r \in Store!Request
    BY <2>1 DEF r
  <2> QED
    BY <2>1, <2>2
<1>2. CASE Store!Announce(t) \/ Store!NotFound(t) \/ Store!Scan(t)
  BY <1>2 DEF Store!Announce, Store!NotFound, Store!Scan, Store!Answer
<1>3. CASE Store!Store(t)
  <2> DEFINE k == request[t].key
             p == request[t].point
  <2>1. request[t] \in Store!Request /\ request[t].op = "insert"
    BY <1>3 DEF Store!Store, Store!Requests
  <2>2. k \in Keys /\ p \in Point
    BY <2>1 DEF Store!Request, Store!Point, Point
  <2> HIDE DEF k, p
  <2>3. recent[k] \in Seq(Point) /\ Append(recent[k], p) \in Seq(Point)
        /\ <<p>> \in Seq(Point) /\ <<>> \in Seq(Point)
    BY <2>2
  <2>4. \/ recent' = [recent EXCEPT ![k] = Append(@, p)]
        \/ recent' = [recent EXCEPT ![k] = <<p>>]
        \/ recent' = [recent EXCEPT ![k] = <<>>]
    BY <1>3 DEF Store!Store, Store!Archive, k, p
  <2>5. recent' \in [Keys -> Seq(Point)]
    BY <2>3, <2>4
  <2> QED
    BY <1>3, <2>5 DEF Store!Store, Store!Answer
<1>4. CASE Store!Return(t)
  BY <1>4 DEF Store!Return
<1> QED
  BY <1>1, <1>2, <1>3, <1>4 DEF StoreCall

LEMMA SealTypes ==
  ASSUME StoreTyped, NEW k \in Keys, Store!SealExpired(k)
  PROVE  StoreTyped'
<1>1. recent' = [recent EXCEPT ![k] = <<>>] /\ request' = request /\ reply' = reply
  BY DEF Store!SealExpired, Store!Archive
<1> QED
  BY <1>1 DEF StoreTyped

\* What thread t does to the requests and the answers of others: nothing.
LEMMA OthersUndisturbed ==
  ASSUME StoreTyped, NEW t \in Threads, StoreCall(t), NEW u \in Threads \ {t}
  PROVE  request'[u] = request[u] /\ reply'[u] = reply[u]
BY DEF StoreTyped, StoreCall, Store!Invoke, Store!Requested, Store!Announce, Store!Store,
   Store!NotFound, Store!Scan, Store!Return, Store!Answer


\* An INSTANCE copies Cardinality: it is the one that lemmas speak of.
LEMMA SameSize == ASSUME NEW S PROVE Store!Cardinality(S) = Cardinality(S)
BY Zenon DEF Cardinality, Store!Cardinality

\* A scan finds the points of the range, in the order of timestamps.
LEMMA ScanFinds ==
  ASSUME NEW ps \in Seq(Point), NEW start, NEW end, NEW found \in Store!Chronological(ps, start, end)
  PROVE  /\ found \in Seq(Point) /\ Chronologic(found)
         /\ Range(found) = {ps[i] : i \in Store!Places(ps, start, end)}
         /\ Len(found) = Cardinality(Store!Places(ps, start, end))
<1> DEFINE picked == Store!Places(ps, start, end)
           n == Cardinality(picked)
           Earlier(i, j) == \/ ps[i].timestamp < ps[j].timestamp
                            \/ ps[i].timestamp = ps[j].timestamp /\ i < j
<1>1. picked \in SUBSET (1 .. Len(ps)) /\ DOMAIN ps = 1 .. Len(ps) /\ Len(ps) \in Nat
  BY DEF Store!Places
<1>2. PICK place \in [1 .. n -> picked] :
        /\ found = [m \in DOMAIN place |-> ps[place[m]]]
        /\ \A l, m \in DOMAIN place : l < m => Earlier(place[l], place[m])
  BY SameSize, Zenon DEF Store!Chronological, Store!Arranged
<1> HIDE DEF picked
<1>3. IsFiniteSet(picked) /\ n \in Nat
  <2>1. IsFiniteSet(1 .. Len(ps))
    BY <1>1, FS_Interval
  <2>2. IsFiniteSet(picked)
    BY <1>1, <2>1, FS_Subset
  <2> QED
    BY <2>2, FS_CardinalityType
<1>4. \A i \in picked : i \in Int /\ ps[i] \in Point /\ ps[i].timestamp \in Nat
  BY <1>1, TimestampRange
<1>5. /\ DOMAIN place = 1 .. n
      /\ \A m \in 1 .. n : place[m] \in picked /\ found[m] = ps[place[m]]
  BY <1>2
<1> HIDE DEF n
<1>6. found \in Seq(Point) /\ Len(found) = n /\ DOMAIN found = 1 .. n
  <2>1. found \in [1 .. n -> Point]
    BY <1>2, <1>4, <1>5
  <2> QED
    BY <1>3, <2>1
<1>7. Chronologic(found)
  <2> SUFFICES ASSUME NEW l \in 1 .. n, NEW m \in 1 .. n, l < m
               PROVE  found[l].timestamp <= found[m].timestamp
    BY <1>6 DEF Chronologic
  <2>1. Earlier(place[l], place[m])
    BY <1>2, <1>5
  <2> QED
    BY <1>4, <1>5, <2>1
<1>8. \A i \in picked : \E m \in 1 .. n : place[m] = i
  <2>1. ASSUME NEW l \in 1 .. n, NEW m \in 1 .. n, place[l] = place[m] PROVE l = m
    <3>1. ~(l < m) /\ ~(m < l)
      BY <1>2, <1>4, <1>5, <2>1
    <3> QED
      BY <1>3, <3>1
  <2>2. place \in Injection(1 .. n, picked)
    BY <1>5, <2>1 DEF Injection, IsInjective
  <2>3. Cardinality(1 .. n) = n
    <3>1. Cardinality(1 .. n) = IF 1 > n THEN 0 ELSE n - 1 + 1
      BY <1>3, FS_Interval
    <3> QED
      BY <1>3, <3>1
  <2>4. place \in Surjection(1 .. n, picked)
    BY <1>3, <2>2, <2>3, FS_Injection DEF n
  <2> QED
    BY <2>4 DEF Surjection
<1>9. Range(found) = {ps[i] : i \in picked}
  BY <1>5, <1>6, <1>8 DEF Range
<1> QED
  BY <1>6, <1>7, <1>9 DEF picked, n

\* The answer to a scan: that there is no series, or points.
Found(r) == \E ps \in Seq(Point) : Chronologic(ps) /\ r = [status |-> "Ok", points |-> ps]

LEMMA ScanAnswered ==
  ASSUME StoreTyped, NEW t \in Threads, Store!Scan(t) \/ Store!NotFound(t)
  PROVE  /\ request' = request /\ recent' = recent /\ request[t] # Nil
         /\ reply[t] = Nil /\ \A u \in Threads \ {t} : reply'[u] = reply[u]
         /\ reply'[t] = [status |-> "KeyNotFound"] \/ Found(reply'[t])
<1>1. CASE Store!NotFound(t)
  BY <1>1 DEF StoreTyped, Store!NotFound, Store!Requests, Store!Answer
<1>2. CASE Store!Scan(t)
  <2>1. request[t] \in Store!Request /\ request[t].op = "scan_range"
    BY <1>2 DEF StoreTyped, Store!Scan, Store!Requests
  <2>2. request[t].key \in Keys
    BY <2>1 DEF Store!Request
  <2>3. recent[request[t].key] \in Seq(Point)
    BY <2>2 DEF StoreTyped
  <2>4. PICK points_found \in
          Store!Chronological(recent[request[t].key], request[t].start, request[t].end) :
            Store!Answer(t, [status |-> "Ok", points |-> points_found])
    BY <1>2 DEF Store!Scan
  <2>5. points_found \in Seq(Point) /\ Chronologic(points_found)
    BY <2>3, <2>4, ScanFinds
  <2> DEFINE r == [status |-> "Ok", points |-> points_found]
  <2>6. Found(r)
    BY <2>5 DEF Found
  <2> HIDE DEF r
  <2>7. reply[t] = Nil /\ reply' = [reply EXCEPT ![t] = r]
    BY <2>4 DEF Store!Answer, r
  <2> QED
    BY <1>2, <2>6, <2>7 DEF StoreTyped, Store!Scan, Store!Requests
<1> QED
  BY <1>1, <1>2

-----------------------------------------------------------------------------
(* Where the client is, and what it has in hand *)

ScanOf(q) == [op |-> "scan_range", key |-> q.key, start |-> q.start_time, end |-> q.end_time]

\* The client's call on the store is the scan of the query at the head of the
\* batch, which is valid; no other call of its is in progress.
ScanOK ==
  /\ at = "scan" => request[client] = ScanOf(Head(batch)) /\ Invalid(Head(batch)) = Nil
  /\ at # "scan" => request[client] = Nil
  /\ reply[client] # Nil =>
       at = "scan" /\ (reply[client] = [status |-> "KeyNotFound"] \/ Found(reply[client]))

\* A scan that was answered has points or a result to come.
ScannedOK ==
  /\ scanned \in Seq({ps \in Seq(Point) : Chronologic(ps)})
  /\ at = "idle" => scanned = <<>>
  /\ at \in {"idle", "query", "scan"} => Len(scanned) = Len(results)
  /\ at = "windows" => Len(scanned) = Len(results) + 1
  /\ at = "returned" => Len(results) <= Len(scanned) /\ Len(scanned) <= Len(asked)

PlaceOK ==
  /\ at \in {"idle", "query", "scan", "windows", "returned"}
  /\ outcome \in {Nil, "Ok", "InvalidTimeRange", "InvalidQuery", "KeyNotFound"}
  /\ stage # "idle" <=> at = "windows"
  /\ aggregation \in Aggregations /\ window_size \in 0 .. Modulus - 1

CallerInv == StoreTyped /\ ScanOK /\ ScannedOK /\ PlaceOK

LEMMA InitCaller == Init => CallerInv
<1> SUFFICES ASSUME Init PROVE CallerInv
  OBVIOUS
<1> USE DEF Init
<1>1. StoreTyped
  BY DEF Store!Init, StoreTyped
<1>2. ScanOK
  BY DEF Store!Init, ScanOK, Threads
<1>3. ScannedOK
  BY EmptySeq DEF ScannedOK
<1>4. PlaceOK
  BY ClockWidthAssumption DEF WindowsInit, PlaceOK, Aggregations
<1> QED
  BY <1>1, <1>2, <1>3, <1>4 DEF CallerInv

\* The store is not the client's: others insert, and blocks are sealed.
LEMMA OthersKeepCaller ==
  ASSUME CallerInv, client # ingest, CallInsert \/ StoreStep
  PROVE  CallerInv'
<1>1. UNCHANGED <<clientVars, windowVars>>
  BY DEF CallInsert, StoreStep
<1>2. StoreTyped' /\ request'[client] = request[client] /\ reply'[client] = reply[client]
  <2>1. CASE StoreCall(ingest)
    BY <2>1, StoreCallTypes, OthersUndisturbed DEF CallerInv, Threads
  <2>2. CASE \E k \in Keys : Store!SealExpired(k)
    <3>1. request' = request /\ reply' = reply
      BY <2>2 DEF Store!SealExpired
    <3> QED
      BY <2>2, <3>1, SealTypes DEF CallerInv
  <2> QED
    BY <2>1, <2>2 DEF CallInsert, StoreStep, StoreCall
<1>3. ScanOK'
  BY <1>1, <1>2 DEF CallerInv, ScanOK, clientVars, ScanOf, Invalid
<1> QED
  BY <1>1, <1>2, <1>3 DEF CallerInv, ScannedOK, PlaceOK, clientVars, windowVars

LEMMA AnswerKeepsCaller ==
  ASSUME CallerInv, AnswerScan
  PROVE  CallerInv'
<1>1. UNCHANGED <<clientVars, windowVars>> /\ client \in Threads
  BY DEF AnswerScan, Threads
<1>2. StoreTyped' /\ request' = request /\ request[client] # Nil
      /\ (reply'[client] = [status |-> "KeyNotFound"] \/ Found(reply'[client]))
  BY <1>1, StoreCallTypes, ScanAnswered DEF CallerInv, AnswerScan, StoreCall
<1>3. ScanOK'
  BY <1>1, <1>2 DEF CallerInv, ScanOK, clientVars, ScanOf, Invalid
<1> QED
  BY <1>1, <1>2, <1>3 DEF CallerInv, ScannedOK, PlaceOK, clientVars, windowVars

\* A result follows a scan; the client is not idle, and its windows are done.
LEMMA DeliverKeepsCaller ==
  ASSUME CallerInv, BatchInv, at \in {"scan", "windows"}, NEW result, Deliver(result),
         NEW ps \in Seq(Point), Chronologic(ps),
         at = "scan" => scanned' = Append(scanned, ps),
         at = "windows" => scanned' = scanned,
         stage' = "idle", UNCHANGED <<aggregation, window_size>>
  PROVE  ScannedOK' /\ PlaceOK'
<1>1. /\ at' \in {"query", "returned"} /\ asked' = asked
      /\ outcome' \in {outcome, "Ok"}
  BY DEF Deliver
<1>2. PICK S : results \in Seq(S)
  BY DEF BatchInv
<1> DEFINE e == [key |-> Head(batch).key, result |-> result]
<1>3. results' = Append(results, e)
  BY DEF Deliver
<1> HIDE DEF e
<1>4. Len(results') = Len(results) + 1 /\ Len(results) \in Nat
  BY <1>2, <1>3, AppendAny
<1>5. Len(results) + 1 <= Len(asked)
  <2>1. /\ batch \in Seq(Query) /\ batch # <<>> /\ Len(asked) = Len(results) + Len(batch)
    BY DEF BatchInv, AnsweredInOrder
  <2>2. Len(batch) \in Nat /\ Len(batch) # 0
    BY <2>1, EmptySeq
  <2> QED
    BY <1>4, <2>1, <2>2
<1>6. /\ scanned' \in Seq({qs \in Seq(Point) : Chronologic(qs)})
      /\ Len(scanned') = Len(results) + 1
  <2> DEFINE T == {qs \in Seq(Point) : Chronologic(qs)}
  <2>1. scanned \in Seq(T) /\ ps \in T
    BY DEF CallerInv, ScannedOK
  <2> HIDE DEF T
  <2>2. Append(scanned, ps) \in Seq(T) /\ Len(Append(scanned, ps)) = Len(scanned) + 1
    BY <2>1, AppendProperties
  <2>3. scanned' \in Seq(T) /\ Len(scanned') = Len(results) + 1
    BY <2>1, <2>2 DEF CallerInv, ScannedOK
  <2> QED
    BY <2>3 DEF T
<1>7. ScannedOK'
  BY <1>1, <1>4, <1>5, <1>6 DEF ScannedOK
<1> QED
  BY <1>1, <1>7 DEF CallerInv, PlaceOK

LEMMA FailKeepsCaller ==
  ASSUME CallerInv, BatchInv, at \in {"query", "scan"},
         NEW status \in {"InvalidTimeRange", "InvalidQuery", "KeyNotFound"}, Fail(status),
         UNCHANGED windowVars
  PROVE  ScannedOK' /\ PlaceOK'
<1>1. /\ results' = <<>> /\ at' = "returned" /\ outcome' = status
      /\ asked' = asked /\ scanned' = scanned
  BY DEF Fail
<1>2. Len(scanned') <= Len(asked') /\ Len(scanned') \in Nat
  <2>1. PICK S : results \in Seq(S)
    BY DEF BatchInv
  <2>2. /\ Len(results) \in Nat /\ Len(batch) \in Nat
        /\ Len(asked) = Len(results) + Len(batch) /\ Len(scanned) = Len(results)
    BY <2>1, LenProperties DEF BatchInv, AnsweredInOrder, CallerInv, ScannedOK
  <2> QED
    BY <1>1, <2>2
<1> QED
  BY <1>1, <1>2, EmptySeq DEF CallerInv, ScannedOK, PlaceOK, windowVars

\* The client takes the answer of its scan.
LEMMA ReturnKeepsCaller ==
  ASSUME CallerInv, Store!Return(client), at' # "scan"
  PROVE  StoreTyped' /\ ScanOK'
<1>1. client \in Threads
  BY DEF Threads
<1>2. StoreTyped'
  BY <1>1, StoreCallTypes DEF CallerInv, StoreCall
<1>3. request'[client] = Nil /\ reply'[client] = Nil
  BY <1>1 DEF Store!Return, CallerInv, StoreTyped
<1> QED
  BY <1>2, <1>3 DEF ScanOK

\* The answer that the client takes.
LEMMA AnswerTaken ==
  ASSUME CallerInv, Store!Return(client)
  PROVE  /\ reply[client].status # "Ok" => reply[client].status = "KeyNotFound"
         /\ reply[client].status = "Ok" =>
              reply[client].points \in Seq(Point) /\ Chronologic(reply[client].points)
<1>1. reply[client] = [status |-> "KeyNotFound"] \/ Found(reply[client])
  BY DEF Store!Return, CallerInv, ScanOK
<1>2. CASE reply[client] = [status |-> "KeyNotFound"]
  BY <1>2
<1>3. CASE Found(reply[client])
  <2>1. PICK ps \in Seq(Point) : Chronologic(ps) /\ reply[client] = [status |-> "Ok", points |-> ps]
    BY <1>3 DEF Found
  <2>2. reply[client].status = "Ok" /\ reply[client].points = ps
    BY <2>1
  <2> QED
    BY <2>1, <2>2, Zenon
<1> QED
  BY <1>1, <1>2, <1>3

\* What is left of points in order is in order, and all of it is among them.
LEMMA ThinnedKeeps ==
  ASSUME NEW q \in Query, NEW ps \in Seq(Point)
  PROVE  LET ks == Thinned(q, ps)
         IN  /\ ks \in Seq(Point)
             /\ Chronologic(ps) => Chronologic(ks)
             /\ \A n \in 1 .. Len(ks) : \E i \in 1 .. Len(ps) : ks[n] = ps[i]
<1> DEFINE ks == Thinned(q, ps)
<1>1. CASE q.max_points = Nil
  BY <1>1 DEF Thinned
<1>2. CASE q.max_points # Nil
  <2>1. q.max_points \in Nat /\ ks = Downsample(ps, q.max_points)
    BY <1>2 DEF Query, Thinned
  <2> DEFINE max == q.max_points
  <2> HIDE DEF ks, max
  <2>2. /\ ks \in Seq(Point)
        /\ \E place \in [1 .. Len(ks) -> 1 .. Len(ps)] :
             /\ \A n \in 1 .. Len(ks) : ks[n] = ps[place[n]]
             /\ \A m, n \in 1 .. Len(ks) : m < n => place[m] < place[n]
    <3>1. max \in Nat /\ ks = Downsample(ps, max)
      BY <2>1 DEF max
    <3> QED
      BY <3>1, DownsampleKeeps
  <2>3. PICK place \in [1 .. Len(ks) -> 1 .. Len(ps)] :
             /\ \A n \in 1 .. Len(ks) : ks[n] = ps[place[n]]
             /\ \A m, n \in 1 .. Len(ks) : m < n => place[m] < place[n]
    BY <2>2
  <2>4. DOMAIN ks = 1 .. Len(ks) /\ DOMAIN ps = 1 .. Len(ps)
    BY <2>2
  <2>5. Chronologic(ps) => Chronologic(ks)
    BY <2>3, <2>4 DEF Chronologic
  <2>6. \A n \in 1 .. Len(ks) : \E i \in 1 .. Len(ps) : ks[n] = ps[i]
    BY <2>3
  <2> QED
    BY <2>2, <2>5, <2>6 DEF ks
<1> QED
  BY <1>1, <1>2

\* The loop is begun with points in order and windows that were asked for.
LEMMA StartKeepsContract ==
  ASSUME CallerInv, BatchInv, StartWindows
  PROVE  /\ Head(batch) \in Query /\ reply[client].points \in Seq(Point)
         /\ Chronologic(reply[client].points)
         /\ BeginSorted
<1> DEFINE q == Head(batch)
           ps == reply[client].points
<1>1. q \in Query
  BY HeadTailProperties DEF StartWindows, BatchInv, AnsweredInOrder
<1>2. ps \in Seq(Point) /\ Chronologic(ps)
  <2>1. Store!Return(client) /\ reply[client].status = "Ok"
    BY DEF StartWindows
  <2> QED
    BY <2>1, AnswerTaken, Zenon
<1>3. q.aggregation \in Aggregations /\ q.window_size \in 0 .. Modulus - 1
  <2>1. Invalid(q) = Nil /\ q.aggregation # Nil
    BY DEF StartWindows, CallerInv, ScanOK
  <2>2. q.window_size # Nil
    <3> HIDE DEF q
    <3> SUFFICES ASSUME q.window_size = Nil PROVE FALSE
      OBVIOUS
    <3>1. CASE q.start_time > q.end_time
      BY <2>1, <3>1, NilAssumption DEF Invalid
    <3>2. CASE ~(q.start_time > q.end_time)
      <4>1. q.start_time <= q.end_time
        BY <1>1, <3>2, ClockWidthAssumption DEF Query
      <4> QED
        BY <2>1, <3>2, <4>1, NilAssumption DEF Invalid
    <3> QED
      BY <3>1, <3>2
  <2> HIDE DEF q
  <2> QED
    BY <1>1, <2>1, <2>2 DEF Query
<1>4. Thinned(q, ps) \in Seq(Point) /\ Chronologic(Thinned(q, ps))
  <2> HIDE DEF q, ps
  <2> QED
    BY <1>1, <1>2, ThinnedKeeps
<1>5. BeginWindows(Thinned(q, ps), q.aggregation, q.window_size)
  BY DEF StartWindows
<1>6. BeginSorted
  <2> DEFINE ks == Thinned(q, ps)
  <2>1. points' = ks /\ aggregation' = q.aggregation /\ window_size' = q.window_size
    BY <1>5 DEF BeginWindows
  <2> HIDE DEF ks, q
  <2>2. BeginWindows(points', aggregation', window_size')
    BY <1>5, <2>1 DEF ks
  <2>3. points' \in Seq(Point) /\ Chronologic(points')
    BY <1>4, <2>1 DEF ks
  <2> QED
    BY <1>3, <2>1, <2>2, <2>3 DEF BeginSorted
<1> QED
  BY <1>1, <1>2, <1>6

LEMMA ExecuteKeepsCaller ==
  ASSUME CallerInv, BatchInv, Execute
  PROVE  CallerInv'
<1>1. CASE RejectQuery
  <2>1. Invalid(Head(batch)) \in {"InvalidTimeRange", "InvalidQuery"}
    BY <1>1 DEF RejectQuery, Invalid
  <2>2. /\ at = "query" /\ at' = "returned" /\ UNCHANGED storeVars /\ UNCHANGED windowVars
        /\ Fail(Invalid(Head(batch)))
    BY <1>1 DEF RejectQuery, Fail
  <2>3. ScannedOK' /\ PlaceOK'
    BY <2>1, <2>2, FailKeepsCaller
  <2>4. StoreTyped' /\ ScanOK'
    BY <2>2 DEF storeVars, CallerInv, StoreTyped, ScanOK
  <2> QED
    BY <2>3, <2>4 DEF CallerInv
<1>2. CASE CallScan
  <2>1. /\ Store!Invoke(client) /\ client \in Threads /\ at = "query" /\ at' = "scan"
        /\ UNCHANGED <<batch, results, outcome, asked, scanned, windowVars>>
        /\ request' = [request EXCEPT ![client] = ScanOf(Head(batch))]
        /\ Invalid(Head(batch)) = Nil
    BY <1>2 DEF CallScan, Threads, ScanOf
  <2>2. StoreTyped' /\ reply' = reply
    BY <2>1, StoreCallTypes DEF CallerInv, StoreCall, Store!Invoke
  <2>3. request'[client] = ScanOf(Head(batch))
    BY <2>1 DEF CallerInv, StoreTyped
  <2>4. ScanOK'
    BY <2>1, <2>2, <2>3 DEF CallerInv, ScanOK, ScanOf, Invalid
  <2> QED
    BY <2>1, <2>2, <2>4 DEF CallerInv, ScannedOK, PlaceOK, windowVars
<1>3. CASE ScanFailed
  <2>1. /\ at = "scan" /\ at' = "returned" /\ UNCHANGED windowVars /\ Store!Return(client)
        /\ Fail(reply[client].status)
    BY <1>3 DEF ScanFailed, Fail
  <2>2. reply[client].status = "KeyNotFound"
    BY <1>3, AnswerTaken DEF ScanFailed
  <2>3. ScannedOK' /\ PlaceOK'
    BY <2>1, <2>2, FailKeepsCaller
  <2> QED
    BY <2>1, <2>3, ReturnKeepsCaller DEF CallerInv
<1>4. CASE AnswerPoints
  <2> DEFINE ps == reply[client].points
             result == [kind |-> "Points",
                        points |-> IF ps = <<>> THEN ps ELSE Thinned(Head(batch), ps)]
  <2>1. /\ at = "scan" /\ Store!Return(client) /\ UNCHANGED windowVars
        /\ reply[client] # Nil /\ reply[client].status = "Ok"
        /\ scanned' = Append(scanned, ps) /\ Deliver(result)
    BY <1>4 DEF AnswerPoints, Store!Return
  <2>2. ps \in Seq(Point) /\ Chronologic(ps)
    BY <2>1, AnswerTaken, Zenon
  <2>3. /\ at' # "scan"
        /\ stage' = "idle" /\ UNCHANGED <<aggregation, window_size>>
    BY <2>1 DEF Deliver, CallerInv, PlaceOK, windowVars
  <2> HIDE DEF result, ps
  <2>4. ScannedOK' /\ PlaceOK'
    BY <2>1, <2>2, <2>3, DeliverKeepsCaller
  <2> QED
    BY <2>1, <2>3, <2>4, ReturnKeepsCaller DEF CallerInv
<1>5. CASE StartWindows
  <2> DEFINE ps == reply[client].points
  <2>1. /\ at = "scan" /\ at' = "windows" /\ Store!Return(client)
        /\ scanned' = Append(scanned, ps) /\ UNCHANGED <<batch, results, outcome, asked>>
    BY <1>5 DEF StartWindows
  <2>2. ps \in Seq(Point) /\ Chronologic(ps) /\ BeginSorted
    BY <1>5, StartKeepsContract
  <2> HIDE DEF ps
  <2>3. PlaceOK'
    BY <2>1, <2>2 DEF BeginSorted, BeginWindows, CallerInv, PlaceOK
  <2>4. ScannedOK'
    <3> DEFINE T == {qs \in Seq(Point) : Chronologic(qs)}
    <3>1. scanned \in Seq(T) /\ ps \in T /\ Len(scanned) = Len(results)
      BY <2>1, <2>2 DEF CallerInv, ScannedOK
    <3> HIDE DEF T
    <3>2. scanned' \in Seq(T) /\ Len(scanned') = Len(results') + 1
      BY <2>1, <3>1, AppendProperties
    <3>3. scanned' \in Seq({qs \in Seq(Point) : Chronologic(qs)})
      BY <3>2 DEF T
    <3> QED
      BY <2>1, <3>2, <3>3 DEF ScannedOK
  <2> QED
    BY <2>1, <2>3, <2>4, ReturnKeepsCaller DEF CallerInv
<1>6. CASE WindowStep
  <2>1. UNCHANGED <<storeVars, clientVars>> /\ UNCHANGED <<aggregation, window_size>>
        /\ stage = "windows" /\ stage' # "idle"
    BY <1>6 DEF WindowStep, NextWindow, EndWindows
  <2>2. StoreTyped' /\ ScanOK' /\ ScannedOK'
    BY <2>1 DEF CallerInv, StoreTyped, ScanOK, ScannedOK, storeVars, clientVars
  <2>3. PlaceOK'
    BY <2>1 DEF CallerInv, PlaceOK, clientVars
  <2> QED
    BY <2>2, <2>3 DEF CallerInv
<1>7. CASE AnswerWindows
  <2> DEFINE result == [kind |-> "Aggregated", points |-> windows]
  <2>1. /\ at = "windows" /\ scanned' = scanned /\ UNCHANGED storeVars /\ Deliver(result)
        /\ stage' = "idle" /\ UNCHANGED <<aggregation, window_size>> /\ at' # "scan"
    BY <1>7 DEF AnswerWindows, TakeWindows, Deliver
  <2>2. <<>> \in Seq(Point) /\ Chronologic(<<>>)
    BY EmptySeq DEF Chronologic
  <2> HIDE DEF result
  <2>3. ScannedOK' /\ PlaceOK'
    BY <2>1, <2>2, DeliverKeepsCaller
  <2>4. StoreTyped' /\ ScanOK'
    BY <2>1 DEF storeVars, CallerInv, StoreTyped, ScanOK
  <2> QED
    BY <2>3, <2>4 DEF CallerInv
<1> QED
  BY <1>1, <1>2, <1>3, <1>4, <1>5, <1>6, <1>7 DEF Execute

\* A call begins.
LEMMA CallKeepsCaller ==
  ASSUME CallerInv, NEW queries \in Seq(Query), Call(queries)
  PROVE  CallerInv'
<1>1. /\ at = "idle" /\ UNCHANGED <<storeVars, windowVars, results, scanned>>
      /\ at' \in {"query", "returned"} /\ outcome' \in {outcome, "Ok"}
      /\ asked' = queries /\ scanned = <<>>
  BY DEF Call, CallerInv, ScannedOK
<1>2. StoreTyped' /\ ScanOK'
  BY <1>1 DEF storeVars, CallerInv, StoreTyped, ScanOK
<1>3. Len(queries) \in Nat /\ Len(<<>>) = 0
  BY EmptySeq, LenProperties
<1>4. ScannedOK'
  BY <1>1, <1>3 DEF CallerInv, ScannedOK
<1> QED
  BY <1>1, <1>2, <1>4 DEF CallerInv, PlaceOK, windowVars

\* And its answer is taken.
LEMMA EndKeepsCaller ==
  ASSUME CallerInv, ReturnExecute
  PROVE  CallerInv'
<1>1. /\ at = "returned" /\ at' = "idle" /\ UNCHANGED <<batch, storeVars, windowVars>>
      /\ results' = <<>> /\ scanned' = <<>> /\ outcome' = Nil
  BY DEF ReturnExecute
<1>2. StoreTyped' /\ ScanOK' /\ ScannedOK'
  BY <1>1, EmptySeq DEF storeVars, CallerInv, StoreTyped, ScanOK, ScannedOK
<1> QED
  BY <1>1, <1>2 DEF CallerInv, PlaceOK, windowVars

LEMMA NextCaller ==
  ASSUME client # ingest, CallerInv, BatchInv, [Next]_vars
  PROVE  CallerInv'
<1>1. CASE CallExecute
  BY <1>1, BatchesAssumption, CallKeepsCaller DEF CallExecute
<1>2. CASE ReturnExecute
  BY <1>2, EndKeepsCaller
<1>3. CASE UNCHANGED vars
  BY <1>3 DEF vars, storeVars, clientVars, windowVars, CallerInv, StoreTyped, ScanOK, ScannedOK,
     PlaceOK
<1> QED
  BY <1>1, <1>2, <1>3, OthersKeepCaller, AnswerKeepsCaller, ExecuteKeepsCaller DEF Next

\* The scans are of queries that were asked, the first ones.
LEMMA ScannedOfAsked ==
  ASSUME BatchInv, ScannedOK, PlaceOK
  PROVE  /\ Len(results) <= Len(scanned) /\ Len(scanned) <= Len(asked)
         /\ \A i \in DOMAIN scanned : asked[i] \in Query
<1>1. PICK S : results \in Seq(S)
  BY DEF BatchInv
<1>2. /\ Len(results) \in Nat /\ Len(scanned) \in Nat /\ Len(batch) \in Nat /\ Len(asked) \in Nat
      /\ DOMAIN scanned = 1 .. Len(scanned)
  BY <1>1, LenProperties DEF BatchInv, ScannedOK
<1>3. at \in {"query", "scan", "windows"} =>
        Len(batch) # 0 /\ Len(asked) = Len(results) + Len(batch)
  BY EmptySeq DEF BatchInv, AnsweredInOrder
<1>4. Len(results) <= Len(scanned) /\ Len(scanned) <= Len(asked)
  <2>1. CASE at = "idle"
    <3>1. Len(scanned) = Len(results) /\ scanned = <<>>
      BY <2>1 DEF ScannedOK
    <3>2. Len(scanned) = 0
      BY <3>1
    <3> QED
      BY <1>2, <3>1, <3>2
  <2>2. CASE at \in {"query", "scan", "windows"}
    <3>1. Len(batch) # 0 /\ Len(asked) = Len(results) + Len(batch)
      BY <1>3, <2>2
    <3>2. Len(scanned) = Len(results) \/ Len(scanned) = Len(results) + 1
      BY <2>2 DEF ScannedOK
    <3> DEFINE r == Len(results)
               s == Len(scanned)
               b == Len(batch)
               a == Len(asked)
    <3>3. /\ r \in Nat /\ s \in Nat /\ b \in Nat /\ a \in Nat
          /\ b # 0 /\ a = r + b /\ (s = r \/ s = r + 1)
      BY <1>2, <3>1, <3>2
    <3> HIDE DEF r, s, b, a
    <3>4. r <= s /\ s <= a
      BY <3>3
    <3> QED
      BY <3>4 DEF r, s, a
  <2>3. CASE at = "returned"
    BY <2>3 DEF ScannedOK
  <2> QED
    BY <2>1, <2>2, <2>3 DEF PlaceOK
<1>5. asked \in Seq(Query)
  BY DEF BatchInv
<1>6. \A i \in 1 .. Len(scanned) : i \in 1 .. Len(asked)
  BY <1>2, <1>4
<1> QED
  BY <1>2, <1>4, <1>5, <1>6

\* The state keeps its types, and a query whose windows are cut has a
\* window_size (engine.rs execute, "validated above"); client and ingest are
\* two threads.
THEOREM EngineTypeCorrect == ASSUME client # ingest PROVE Spec => []QueryTypeOK
<1>1. BatchInv /\ CallerInv => QueryTypeOK
  <2> SUFFICES ASSUME BatchInv, CallerInv PROVE QueryTypeOK
    OBVIOUS
  <2>1. Len(results) <= Len(scanned) /\ Len(scanned) <= Len(asked)
    BY ScannedOfAsked DEF CallerInv
  <2>2. \A i \in DOMAIN scanned : scanned[i] \in Seq(Point)
    BY DEF CallerInv, ScannedOK
  <2> QED
    BY <2>1, <2>2 DEF BatchInv, CallerInv, PlaceOK, QueryTypeOK
<1>2. BatchInv /\ CallerInv /\ [Next]_vars => CallerInv'
  BY NextCaller
<1> QED
  BY <1>1, <1>2, InitBatch, NextBatch, InitCaller, PTL DEF Spec

-----------------------------------------------------------------------------
(* The contract of the loop over the windows, and what follows from it *)

LEMMA StepsKeepContract ==
  ASSUME CallerInv, BatchInv, [Next]_vars
  PROVE  [WindowsNext]_windowVars
<1>1. CASE StartWindows
  BY <1>1, StartKeepsContract DEF WindowsNext
<1>2. CASE WindowStep
  BY <1>2 DEF WindowStep, WindowsNext
<1>3. CASE AnswerWindows
  BY <1>3 DEF AnswerWindows, WindowsNext
<1>4. CASE \/ CallInsert \/ StoreStep \/ AnswerScan \/ CallExecute \/ ReturnExecute
           \/ RejectQuery \/ CallScan \/ ScanFailed \/ AnswerPoints \/ UNCHANGED vars
  <2>1. UNCHANGED windowVars
    BY <1>4 DEF CallInsert, StoreStep, AnswerScan, CallExecute, Call, ReturnExecute, RejectQuery,
       CallScan, ScanFailed, AnswerPoints, vars
  <2> QED
    BY <2>1
<1> QED
  BY <1>1, <1>2, <1>3, <1>4 DEF Next, Execute

\* The engine hands the loop points in the order of timestamps, and sizes of
\* windows that were asked for, whatever is inserted and sealed between the
\* scan and the loop (engine.rs execute, memory.rs scan_range's sort).
THEOREM EngineKeepsContract == ASSUME client # ingest PROVE Spec => ImplementsWindows
<1>1. Init => WindowsInit
  BY DEF Init
<1>2. BatchInv /\ CallerInv /\ [Next]_vars => [WindowsNext]_windowVars
  BY StepsKeepContract
<1>3. BatchInv /\ CallerInv /\ [Next]_vars => CallerInv'
  BY NextCaller
<1> QED
  BY <1>1, <1>2, <1>3, InitBatch, NextBatch, InitCaller, PTL DEF Spec, ImplementsWindows, WindowsSpec

\* So the windows of every query partition the points it kept (engine.rs
\* execute, aggregation.rs aggregate_points).
THEOREM EngineWindowsPartition == ASSUME client # ingest PROVE Spec => []WindowsPartition
BY EngineKeepsContract, WindowsPartitionPoints, PTL DEF ImplementsWindows

\* And they roll up to those points (engine.rs execute, aggregation.rs
\* aggregate_points).
THEOREM EngineRollsUp == ASSUME client # ingest PROVE Spec => []WindowsRollUp
BY EngineKeepsContract, WindowsRollUpToPoints, PTL DEF ImplementsWindows

-----------------------------------------------------------------------------
(* The results *)

\* r answers the query q, whose scan found ps.
ResultOf(q, ps, r) ==
  \/ /\ r.kind = "Points" /\ (ps = <<>> \/ q.aggregation = Nil)
     /\ r.points = Thinned(q, ps)
  \/ /\ r.kind = "Aggregated" /\ ps # <<>> /\ q.aggregation # Nil
     /\ Fits(ps, q.window_size) => Total(r.points) = Len(Thinned(q, ps))

\* The loop works on what is left of the last scan.
InHand ==
  at = "windows" =>
    /\ points = Thinned(Head(batch), scanned[Len(results) + 1])
    /\ window_size = Head(batch).window_size
    /\ scanned[Len(results) + 1] # <<>> /\ Head(batch).aggregation # Nil

ResultsInv ==
  /\ \A i \in 1 .. Len(results) : ResultOf(asked[i], scanned[i], results[i].result)
  /\ InHand

EngineInv == BatchInv /\ CallerInv /\ WindowsInv /\ CountsInv /\ ResultsInv

LEMMA InitResults == Init => ResultsInv
BY EmptySeq DEF Init, ResultsInv, InHand

\* Thinning out leaves no point whose window does not fit.
LEMMA ThinnedFits ==
  ASSUME NEW q \in Query, NEW ps \in Seq(Point), Fits(ps, q.window_size)
  PROVE  Fits(Thinned(q, ps), q.window_size)
<1> DEFINE ks == Thinned(q, ps)
<1>1. ks \in Seq(Point) /\ \A n \in 1 .. Len(ks) : \E i \in 1 .. Len(ps) : ks[n] = ps[i]
  BY ThinnedKeeps
<1> HIDE DEF ks
<1>2. DOMAIN ks = 1 .. Len(ks) /\ DOMAIN ps = 1 .. Len(ps)
  BY <1>1
<1>3. Fits(ks, q.window_size)
  BY <1>1, <1>2 DEF Fits
<1> QED
  BY <1>3 DEF ks

\* One more query has its result.
LEMMA DeliverKeepsResults ==
  ASSUME BatchInv, CallerInv, ResultsInv, at \in {"scan", "windows"},
         NEW result, Deliver(result), NEW ps,
         at = "scan" => scanned' = Append(scanned, ps),
         at = "windows" => scanned' = scanned /\ ps = scanned[Len(results) + 1],
         ResultOf(Head(batch), ps, result)
  PROVE  ResultsInv'
<1> DEFINE n == Len(results)
           e == [key |-> Head(batch).key, result |-> result]
<1>1. PICK S : results \in Seq(S)
  BY DEF BatchInv
<1>2. results' = Append(results, e) /\ asked' = asked /\ at' # "windows" /\ e.result = result
  BY DEF Deliver
<1> HIDE DEF e
<1>3. /\ n \in Nat /\ Len(results') = n + 1 /\ results'[n + 1] = e
      /\ \A i \in 1 .. n : results'[i] = results[i]
  BY <1>1, <1>2, AppendAny
<1>4. asked[n + 1] = Head(batch)
  <2>1. batch \in Seq(Query) /\ batch # <<>> /\ \A i \in 1 .. Len(batch) : batch[i] = asked[n + i]
    BY DEF BatchInv, AnsweredInOrder
  <2>2. Head(batch) = batch[1] /\ Len(batch) \in Nat /\ Len(batch) > 0
    BY <2>1, HeadTailProperties, EmptySeq
  <2> QED
    BY <2>1, <2>2
<1>5. scanned'[n + 1] = ps /\ \A i \in 1 .. n : scanned'[i] = scanned[i]
  <2>1. CASE at = "windows"
    BY <2>1
  <2>2. CASE at = "scan"
    <3>1. /\ scanned \in Seq({qs \in Seq(Point) : Chronologic(qs)}) /\ Len(scanned) = n
          /\ scanned' = Append(scanned, ps)
      BY <2>2 DEF CallerInv, ScannedOK
    <3> HIDE DEF n
    <3> QED
      BY <3>1, AppendAny
  <2> QED
    BY <2>1, <2>2
<1> HIDE DEF n
<1>6. ASSUME NEW i \in 1 .. n + 1 PROVE ResultOf(asked'[i], scanned'[i], results'[i].result)
  <2>1. CASE i = n + 1
    BY <1>2, <1>3, <1>4, <1>5, <2>1
  <2>2. CASE i \in 1 .. n
    <3>1. ResultOf(asked[i], scanned[i], results[i].result)
      BY <2>2 DEF ResultsInv, n
    <3> QED
      BY <1>2, <1>3, <1>5, <2>2, <3>1
  <2> QED
    BY <1>3, <2>1, <2>2
<1>7. \A i \in 1 .. Len(results') : ResultOf(asked'[i], scanned'[i], results'[i].result)
  BY <1>3, <1>6
<1> QED
  BY <1>2, <1>7 DEF ResultsInv, InHand, ResultOf, Thinned, Fits, Total

LEMMA NextResults ==
  ASSUME EngineInv, [Next]_vars
  PROVE  ResultsInv'
<1> USE DEF EngineInv
<1>1. CASE AnswerPoints
  <2> DEFINE q == Head(batch)
             ps == reply[client].points
             result == [kind |-> "Points", points |-> IF ps = <<>> THEN ps ELSE Thinned(q, ps)]
  <2>1. /\ at = "scan" /\ Store!Return(client) /\ reply[client].status = "Ok"
        /\ scanned' = Append(scanned, ps) /\ Deliver(result)
        /\ ps = <<>> \/ q.aggregation = Nil
    BY <1>1 DEF AnswerPoints
  <2>2. q \in Query
    BY <2>1, HeadTailProperties DEF BatchInv, AnsweredInOrder
  <2>3. Thinned(q, <<>>) = <<>>
    <3>1. q.max_points # Nil => Len(<<>>) <= q.max_points
      BY <2>2 DEF Query
    <3> QED
      BY <3>1 DEF Thinned, Downsample
  <2>4. result.kind = "Points" /\ result.points = Thinned(q, ps)
    BY <2>3
  <2> HIDE DEF result, q
  <2>5. ResultOf(q, ps, result)
    BY <2>1, <2>4 DEF ResultOf
  <2> QED
    BY <2>1, <2>5, DeliverKeepsResults DEF q
<1>2. CASE StartWindows
  <2> DEFINE q == Head(batch)
             ps == reply[client].points
  <2>1. /\ BeginWindows(Thinned(q, ps), q.aggregation, q.window_size) /\ at = "scan"
        /\ scanned' = Append(scanned, ps) /\ UNCHANGED <<batch, results, asked>>
        /\ ps # <<>> /\ q.aggregation # Nil
    BY <1>2 DEF StartWindows
  <2>2. points' = Thinned(q, ps) /\ window_size' = q.window_size
    BY <2>1 DEF BeginWindows
  <2> HIDE DEF ps
  <2>3. /\ scanned'[Len(results) + 1] = ps
        /\ \A i \in 1 .. Len(results) : scanned'[i] = scanned[i]
    <3>1. scanned \in Seq({qs \in Seq(Point) : Chronologic(qs)}) /\ Len(scanned) = Len(results)
      BY <2>1 DEF CallerInv, ScannedOK
    <3> QED
      BY <2>1, <3>1, AppendAny
  <2>4. \A i \in 1 .. Len(results') : ResultOf(asked'[i], scanned'[i], results'[i].result)
    <3>1. \A i \in 1 .. Len(results) : ResultOf(asked[i], scanned[i], results[i].result)
      BY DEF ResultsInv
    <3> QED
      BY <2>1, <2>3, <3>1
  <2>5. InHand'
    BY <2>1, <2>2, <2>3 DEF InHand, Thinned
  <2> QED
    BY <2>4, <2>5 DEF ResultsInv, ResultOf, Thinned, Fits, Total
<1>3. CASE AnswerWindows
  <2> DEFINE q == Head(batch)
             ps == scanned[Len(results) + 1]
             result == [kind |-> "Aggregated", points |-> windows]
  <2>1. /\ at = "windows" /\ scanned' = scanned /\ Deliver(result) /\ stage = "returned"
    BY <1>3 DEF AnswerWindows, TakeWindows
  <2>2. q \in Query
    BY <2>1, HeadTailProperties DEF BatchInv, AnsweredInOrder
  <2>3. ps \in Seq(Point)
    <3>1. PICK S : results \in Seq(S)
      BY DEF BatchInv
    <3>2. Len(results) \in Nat /\ Len(scanned) = Len(results) + 1
      BY <2>1, <3>1, LenProperties DEF CallerInv, ScannedOK
    <3> QED
      BY <3>2 DEF CallerInv, ScannedOK
  <2>4. points = Thinned(q, ps) /\ window_size = q.window_size /\ ps # <<>> /\ q.aggregation # Nil
    BY <2>1 DEF ResultsInv, InHand
  <2> HIDE DEF q, ps
  <2>5. Fits(ps, q.window_size) => Total(windows) = Len(Thinned(q, ps))
    <3> SUFFICES ASSUME Fits(ps, q.window_size) PROVE Total(windows) = Len(Thinned(q, ps))
      OBVIOUS
    <3>1. Proper
      BY <2>2, <2>3, <2>4, ThinnedFits DEF Proper
    <3> QED
      BY <2>1, <2>4, <3>1, CountsAddUp
  <2>6. ResultOf(q, ps, result)
    BY <2>4, <2>5 DEF ResultOf
  <2> HIDE DEF result
  <2> QED
    BY <2>1, <2>6, DeliverKeepsResults DEF q, ps
<1>4. CASE RejectQuery \/ ScanFailed
  <2>1. results' = <<>> /\ at' = "returned"
    BY <1>4 DEF RejectQuery, ScanFailed, Fail
  <2> QED
    BY <2>1, EmptySeq DEF ResultsInv, InHand
<1>5. CASE CallExecute
  <2>1. at = "idle" /\ results' = <<>> /\ at' # "windows"
    BY <1>5 DEF CallExecute, Call, BatchInv
  <2>2. 1 .. Len(results') = {}
    BY <2>1, EmptySeq
  <2> QED
    BY <2>1, <2>2 DEF ResultsInv, InHand
<1>6. CASE ReturnExecute
  <2>1. results' = <<>> /\ at' # "windows"
    BY <1>6 DEF ReturnExecute
  <2> QED
    BY <2>1, EmptySeq DEF ResultsInv, InHand
<1>7. CASE CallScan
  BY <1>7 DEF CallScan, ResultsInv, InHand, ResultOf, Thinned, Fits, Total
<1>8. CASE \/ CallInsert \/ StoreStep \/ AnswerScan \/ WindowStep \/ UNCHANGED vars
  <2>1. UNCHANGED clientVars /\ UNCHANGED <<points, window_size>>
    BY <1>8 DEF CallInsert, StoreStep, AnswerScan, WindowStep, NextWindow, EndWindows, vars,
       clientVars, windowVars
  <2>2. /\ results' = results /\ asked' = asked /\ scanned' = scanned
        /\ at' = at /\ batch' = batch /\ points' = points /\ window_size' = window_size
    BY <2>1 DEF clientVars
  <2>3. \A i \in 1 .. Len(results') : ResultOf(asked'[i], scanned'[i], results'[i].result)
    BY <2>2 DEF ResultsInv
  <2>4. InHand'
    BY <2>2 DEF ResultsInv, InHand, Thinned
  <2> QED
    BY <2>3, <2>4 DEF ResultsInv, ResultOf, Thinned, Fits, Total
<1> QED
  BY <1>1, <1>2, <1>3, <1>4, <1>5, <1>6, <1>7, <1>8 DEF Next, Execute

LEMMA InitEngine == Init => EngineInv
<1>1. Init => WindowsInit
  BY DEF Init
<1>2. WindowsInit => CountsInv
  <2> SUFFICES ASSUME WindowsInit PROVE CountsInv
    OBVIOUS
  <2>1. windows = <<>> /\ Before(current_window_start) = {}
    BY DEF WindowsInit, Before
  <2> QED
    BY <2>1, NothingCounted, FS_EmptySet DEF CountsInv
<1> QED
  BY <1>1, <1>2, InitBatch, InitCaller, InitResults, InitWindowsInv DEF EngineInv

LEMMA NextEngine == ASSUME client # ingest PROVE EngineInv /\ [Next]_vars => EngineInv'
<1> SUFFICES ASSUME EngineInv, [Next]_vars PROVE EngineInv'
  OBVIOUS
<1>1. [WindowsNext]_windowVars
  BY StepsKeepContract DEF EngineInv
<1> QED
  BY <1>1, NextBatch, NextCaller, NextKeepsInv, NextKeepsCounts, NextResults DEF EngineInv

\* A result, by the number of its query.
LEMMA EachResult ==
  ASSUME EngineInv, at = "returned", outcome = "Ok", NEW i \in DOMAIN results
  PROVE  /\ asked[i] \in Query /\ scanned[i] \in Seq(Point)
         /\ ResultOf(asked[i], scanned[i], results[i].result)
<1> USE DEF EngineInv
<1>1. PICK S : results \in Seq(S)
  BY DEF BatchInv
<1>2. DOMAIN results = 1 .. Len(results) /\ Len(results) \in Nat
  BY <1>1, LenProperties
<1>3. /\ asked \in Seq(Query) /\ scanned \in Seq({ps \in Seq(Point) : Chronologic(ps)})
      /\ Len(results) <= Len(scanned) /\ Len(results) = Len(asked)
  BY DEF BatchInv, AllAnswered, CallerInv, ScannedOK
<1>4. i \in 1 .. Len(asked) /\ i \in 1 .. Len(scanned)
  BY <1>2, <1>3
<1> QED
  BY <1>2, <1>3, <1>4 DEF ResultsInv

\* Raw points are thinned out evenly, whatever was scanned and however many
\* are asked for (engine.rs execute, aggregation.rs downsample_points).
THEOREM EngineThinsEvenly == ASSUME client # ingest PROVE Spec => []ThinnedEvenly
<1>1. EngineInv => ThinnedEvenly
  <2> SUFFICES ASSUME EngineInv, at = "returned", outcome = "Ok", NEW i \in DOMAIN results,
                      results[i].result.kind = "Points", asked[i].max_points # Nil
               PROVE  Even(scanned[i], results[i].result.points, asked[i].max_points)
    BY DEF ThinnedEvenly
  <2>1. /\ asked[i] \in Query /\ scanned[i] \in Seq(Point)
        /\ results[i].result.points = Thinned(asked[i], scanned[i])
    BY EachResult DEF ResultOf
  <2>2. asked[i].max_points \in Nat
    BY <2>1 DEF Query
  <2>3. Thinned(asked[i], scanned[i]) = Downsample(scanned[i], asked[i].max_points)
    BY DEF Thinned
  <2> QED
    BY <2>1, <2>2, <2>3, DownsampleEvenly
<1>2. EngineInv /\ [Next]_vars => EngineInv'
  BY NextEngine
<1> QED
  BY <1>1, <1>2, InitEngine, PTL DEF Spec

\* How many points are left of some by a limit.
LEMMA ThinnedSize ==
  ASSUME NEW q \in Query, NEW ps \in Seq(Point), q.max_points # Nil
  PROVE  Len(Thinned(q, ps)) <= Max({1, q.max_points})
<1> DEFINE m == q.max_points
           ks == Thinned(q, ps)
           limit == Max({1, m})
<1>1. m \in Nat /\ ks = Downsample(ps, m)
  BY DEF Query, Thinned
<1> HIDE DEF m, ks
<1>2. Even(ps, ks, m)
  BY <1>1, DownsampleEvenly
<1>3. m <= limit
  <2>1. CASE m = 0
    <3>1. limit = 1
      BY <2>1, TwoBounds
    <3> QED
      BY <2>1, <3>1
  <2>2. CASE 1 <= m
    <3>1. limit = m
      BY <1>1, <2>2, TwoBounds
    <3> QED
      BY <1>1, <3>1
  <2> QED
    BY <1>1, <2>1, <2>2
<1>4. Len(ks) <= limit
  <2>1. CASE Len(ps) <= m
    <3>1. ks = ps
      BY <1>2, <2>1 DEF Even
    <3>2. limit \in Nat
      BY <1>1, TwoBounds
    <3> HIDE DEF limit
    <3> QED
      BY <1>1, <1>3, <2>1, <3>1, <3>2
  <2>2. CASE ~(Len(ps) <= m)
    BY <1>2, <2>2 DEF Even
  <2> QED
    BY <2>1, <2>2
<1> QED
  BY <1>4 DEF m, ks

\* An aggregation counts every point that is left of its scan, once, and by
\* max_points no more of them (engine.rs execute, aggregation.rs
\* aggregate_points).
THEOREM EngineCountsKept == ASSUME client # ingest PROVE Spec => []CountsKeptPoints
<1>1. EngineInv => CountsKeptPoints
  <2> SUFFICES ASSUME EngineInv, at = "returned", outcome = "Ok", NEW i \in DOMAIN results,
                      results[i].result.kind = "Aggregated", Fits(scanned[i], asked[i].window_size)
               PROVE  LET total == Total(results[i].result.points)
                      IN  /\ total = Len(Thinned(asked[i], scanned[i]))
                          /\ asked[i].max_points # Nil => total <= Max({1, asked[i].max_points})
    BY Zenon DEF CountsKeptPoints, Total
  <2>1. /\ asked[i] \in Query /\ scanned[i] \in Seq(Point)
        /\ Total(results[i].result.points) = Len(Thinned(asked[i], scanned[i]))
    BY EachResult DEF ResultOf
  <2> QED
    BY <2>1, ThinnedSize
<1>2. EngineInv /\ [Next]_vars => EngineInv'
  BY NextEngine
<1> QED
  BY <1>1, <1>2, InitEngine, PTL DEF Spec

-----------------------------------------------------------------------------
(* The error of a call *)

\* The queries that have scanned are valid ones of known keys, and what the
\* client's scan answers says so of the query at hand.
ErrorInv ==
  /\ \A i \in DOMAIN scanned : Invalid(asked[i]) = Nil /\ asked[i].key \in known
  /\ reply[client] # Nil =>
       IF reply[client].status = "Ok" THEN Head(batch).key \in known
       ELSE \A i \in DOMAIN scanned : asked[i].key # Head(batch).key
  /\ AllOrNothing

\* The query at hand is the one after those answered.
LEMMA NumberAtHand ==
  ASSUME BatchInv, CallerInv, at \in {"query", "scan"}
  PROVE  /\ DOMAIN scanned = 1 .. Len(scanned) /\ Len(scanned) \in Nat
         /\ Len(scanned) + 1 \in DOMAIN asked /\ asked[Len(scanned) + 1] = Head(batch)
<1>1. PICK S : results \in Seq(S)
  BY DEF BatchInv
<1>2. /\ batch \in Seq(Query) /\ batch # <<>> /\ asked \in Seq(Query)
      /\ Len(asked) = Len(results) + Len(batch)
      /\ \A i \in 1 .. Len(batch) : batch[i] = asked[Len(results) + i]
  BY DEF BatchInv, AnsweredInOrder
<1>3. /\ scanned \in Seq({ps \in Seq(Point) : Chronologic(ps)}) /\ Len(scanned) = Len(results)
  BY DEF CallerInv, ScannedOK
<1>4. /\ DOMAIN scanned = 1 .. Len(scanned) /\ Len(scanned) \in Nat
      /\ DOMAIN asked = 1 .. Len(asked) /\ Len(asked) \in Nat
      /\ Len(batch) \in Nat /\ Len(batch) # 0 /\ Head(batch) = batch[1]
  BY <1>2, <1>3, LenProperties, EmptySeq, HeadTailProperties
<1>5. 1 \in 1 .. Len(batch) /\ Len(scanned) + 1 \in 1 .. Len(asked)
  BY <1>2, <1>3, <1>4
<1> QED
  BY <1>2, <1>3, <1>4, <1>5

\* A scan that was answered is one more of a valid query of a known key.
LEMMA ScannedOneMore ==
  ASSUME BatchInv, CallerInv, ErrorInv, at = "scan", Store!Return(client),
         reply[client].status = "Ok", scanned' = Append(scanned, reply[client].points),
         asked' = asked
  PROVE  \A i \in DOMAIN scanned' : Invalid(asked'[i]) = Nil /\ asked'[i].key \in known'
<1>1. known' = known /\ reply[client] # Nil
  BY DEF Store!Return
<1>2. Invalid(Head(batch)) = Nil /\ Head(batch).key \in known
  BY <1>1 DEF CallerInv, ScanOK, ErrorInv
<1>3. /\ DOMAIN scanned = 1 .. Len(scanned) /\ Len(scanned) \in Nat
      /\ asked[Len(scanned) + 1] = Head(batch)
  BY NumberAtHand
<1>4. DOMAIN scanned' = 1 .. Len(scanned) + 1
  <2>1. scanned \in Seq({ps \in Seq(Point) : Chronologic(ps)})
    BY DEF CallerInv, ScannedOK
  <2> DEFINE T == {ps \in Seq(Point) : Chronologic(ps)}
  <2>2. scanned \in Seq(T)
    BY <2>1
  <2> HIDE DEF T
  <2>3. /\ Append(scanned, reply[client].points) \in Seq(T \cup {reply[client].points})
        /\ Len(Append(scanned, reply[client].points)) = Len(scanned) + 1
    BY <2>2, AppendAny
  <2> QED
    BY <2>3, LenProperties
<1>5. ASSUME NEW i \in DOMAIN scanned' PROVE Invalid(asked[i]) = Nil /\ asked[i].key \in known
  <2>1. CASE i = Len(scanned) + 1
    BY <1>2, <1>3, <2>1
  <2>2. CASE i \in DOMAIN scanned
    BY <2>2 DEF ErrorInv
  <2> QED
    BY <1>3, <1>4, <2>1, <2>2
<1> QED
  BY <1>1, <1>5 DEF Invalid

\* The answers a thread has are its own, and keys do not vanish.
LEMMA OthersKeepError ==
  ASSUME CallerInv, ErrorInv, client # ingest, CallInsert \/ StoreStep
  PROVE  ErrorInv'
<1>1. UNCHANGED <<at, batch, results, outcome, asked, scanned>>
  BY DEF CallInsert, StoreStep, clientVars
<1>2. known \subseteq known' /\ reply'[client] = reply[client]
  <2>1. CASE StoreCall(ingest)
    <3>1. known \subseteq known'
      BY <2>1 DEF StoreCall, Store!Invoke, Store!Announce, Store!Store, Store!NotFound,
         Store!Scan, Store!Return
    <3> QED
      BY <2>1, <3>1, OthersUndisturbed DEF CallerInv, Threads
  <2>2. CASE \E k \in Keys : Store!SealExpired(k)
    BY <2>2 DEF Store!SealExpired
  <2> QED
    BY <2>1, <2>2 DEF CallInsert, StoreStep, StoreCall
<1> QED
  BY <1>1, <1>2 DEF ErrorInv, AllOrNothing, Invalid

LEMMA AnswerKeepsError ==
  ASSUME CallerInv, ErrorInv, AnswerScan
  PROVE  ErrorInv'
<1>1. /\ UNCHANGED <<at, batch, results, outcome, asked, scanned>> /\ known' = known
      /\ client \in Threads /\ request[client] # Nil
  BY DEF AnswerScan, Threads, clientVars, Store!Scan, Store!NotFound, Store!Requests
<1>2. request[client].key = Head(batch).key
  <2>1. request[client] = ScanOf(Head(batch))
    BY <1>1 DEF CallerInv, ScanOK
  <2> QED
    BY <2>1 DEF ScanOf
<1>3. CASE Store!Scan(client)
  <2>1. Head(batch).key \in known /\ reply'[client].status = "Ok"
    BY <1>1, <1>2, <1>3 DEF Store!Scan, Store!Answer, CallerInv, StoreTyped
  <2> QED
    BY <1>1, <2>1 DEF ErrorInv, AllOrNothing, Invalid
<1>4. CASE Store!NotFound(client)
  <2>1. Head(batch).key \notin known /\ reply'[client].status = "KeyNotFound"
    BY <1>1, <1>2, <1>4 DEF Store!NotFound, Store!Answer, CallerInv, StoreTyped
  <2> QED
    BY <1>1, <2>1 DEF ErrorInv, AllOrNothing, Invalid
<1> QED
  BY <1>3, <1>4 DEF AnswerScan

\* A call that goes on, or ends well, after a step that leaves its scans valid.
LEMMA NoErrorKeeps ==
  ASSUME BatchInv', reply'[client] = Nil, at' = "returned" => outcome' = "Ok",
         \A i \in DOMAIN scanned' : Invalid(asked'[i]) = Nil /\ asked'[i].key \in known'
  PROVE  ErrorInv'
BY DEF ErrorInv, AllOrNothing, BatchInv, AllAnswered, Invalid

LEMMA NextError ==
  ASSUME client # ingest, EngineInv, ErrorInv, [Next]_vars
  PROVE  ErrorInv'
<1> USE DEF EngineInv
<1>1. BatchInv' /\ CallerInv'
  BY NextBatch, NextCaller
<1>2. /\ reply'[client] # Nil => at' = "scan"
      /\ reply[client] # Nil => at = "scan"
      /\ client \in Threads
  BY <1>1 DEF CallerInv, ScanOK, Threads
<1>3. CASE RejectQuery
  <2>1. /\ at = "query" /\ Invalid(Head(batch)) # Nil /\ known' = known /\ scanned' = scanned
        /\ asked' = asked /\ at' = "returned" /\ outcome' = Invalid(Head(batch))
    BY <1>3 DEF RejectQuery, Fail, storeVars
  <2>2. /\ Len(scanned) + 1 \in DOMAIN asked /\ asked[Len(scanned) + 1] = Head(batch)
    BY <2>1, NumberAtHand
  <2>3. Invalid(Head(batch)) \notin {"Ok", "KeyNotFound"}
    BY <2>1 DEF Invalid
  <2>4. AllOrNothing'
    BY <2>1, <2>2, <2>3 DEF ErrorInv, AllOrNothing, Invalid
  <2> QED
    BY <1>2, <2>1, <2>4 DEF ErrorInv, Invalid
<1>4. CASE ScanFailed
  <2>1. /\ at = "scan" /\ Store!Return(client) /\ reply[client].status # "Ok"
        /\ scanned' = scanned /\ asked' = asked /\ at' = "returned"
        /\ outcome' = reply[client].status
    BY <1>4 DEF ScanFailed, Fail
  <2>2. known' = known /\ reply[client] # Nil /\ reply[client].status = "KeyNotFound"
    BY <2>1, AnswerTaken DEF Store!Return
  <2>3. /\ Len(scanned) + 1 \in DOMAIN asked /\ asked[Len(scanned) + 1] = Head(batch)
        /\ Invalid(Head(batch)) = Nil
        /\ \A i \in DOMAIN scanned : asked[i].key # Head(batch).key
    BY <2>1, <2>2, NumberAtHand DEF CallerInv, ScanOK, ErrorInv
  <2>4. AllOrNothing'
    BY <2>1, <2>2, <2>3 DEF ErrorInv, AllOrNothing, Invalid
  <2> QED
    BY <1>2, <2>1, <2>2, <2>4 DEF ErrorInv, Invalid
<1>5. CASE AnswerPoints \/ StartWindows
  <2>1. /\ at = "scan" /\ Store!Return(client) /\ reply[client].status = "Ok"
        /\ scanned' = Append(scanned, reply[client].points) /\ asked' = asked
        /\ at' # "scan" /\ (at' = "returned" => outcome' = "Ok")
    BY <1>5 DEF AnswerPoints, StartWindows, Deliver
  <2> QED
    BY <1>1, <1>2, <2>1, ScannedOneMore, NoErrorKeeps
<1>6. CASE AnswerWindows \/ CallScan
  <2>1. /\ at # "scan" /\ scanned' = scanned /\ asked' = asked /\ known' = known
        /\ reply' = reply /\ (at' = "returned" => outcome' = "Ok")
    BY <1>6 DEF AnswerWindows, Deliver, CallScan, storeVars, Store!Invoke
  <2>2. reply'[client] = Nil
    BY <1>2, <2>1
  <2> QED
    BY <1>1, <2>1, <2>2, NoErrorKeeps DEF ErrorInv
<1>7. CASE CallExecute \/ ReturnExecute
  <2>1. /\ DOMAIN scanned' = {} /\ at' # "scan" /\ (at' = "returned" => outcome' = "Ok")
    BY <1>7 DEF CallExecute, Call, ReturnExecute, CallerInv, ScannedOK
  <2> QED
    BY <1>1, <1>2, <2>1, NoErrorKeeps
<1>8. CASE WindowStep \/ UNCHANGED vars
  <2>1. UNCHANGED <<at, batch, results, outcome, asked, scanned, known, reply>>
    BY <1>8 DEF WindowStep, vars, storeVars, clientVars
  <2> QED
    BY <2>1 DEF ErrorInv, AllOrNothing, Invalid
<1> QED
  BY <1>3, <1>4, <1>5, <1>6, <1>7, <1>8, OthersKeepError, AnswerKeepsError DEF Next, Execute

\* A call that succeeds has one result for each query, in their order; one
\* that fails has the error of the first query that fails, wherever in the
\* batch that is and whatever is inserted and sealed meanwhile (engine.rs
\* execute_multi).
THEOREM AnswersAllOrNone == ASSUME client # ingest PROVE Spec => []AllOrNothing
<1>1. Init => ErrorInv
  <2> SUFFICES ASSUME Init PROVE ErrorInv
    OBVIOUS
  <2>1. DOMAIN scanned = {} /\ at = "idle" /\ reply[client] = Nil
    BY DEF Init, Store!Init, Threads
  <2> QED
    BY <2>1 DEF ErrorInv, AllOrNothing
<1>2. EngineInv /\ ErrorInv /\ [Next]_vars => EngineInv' /\ ErrorInv'
  BY NextEngine, NextError
<1>3. ErrorInv => AllOrNothing
  BY DEF ErrorInv
<1> QED
  BY <1>1, <1>2, <1>3, InitEngine, PTL DEF Spec

-----------------------------------------------------------------------------
(* The points stored are counted *)

\* A key that is not known has no points.
CountsTyped ==
  /\ IsFiniteSet(known) /\ known \subseteq Keys
  /\ archived \in [Keys -> Seq(Nat)]
  /\ \A k \in Keys \ known : recent[k] = <<>> /\ archived[k] = <<>>

LEMMA InitCounts == Init => CountsTyped /\ Inserted = 0
<1> SUFFICES ASSUME Init PROVE CountsTyped /\ Inserted = 0
  OBVIOUS
<1>1. known = {} /\ recent = [k \in Keys |-> <<>>] /\ archived = [k \in Keys |-> <<>>]
  BY DEF Init, Store!Init
<1>2. CountsTyped
  BY <1>1, FS_EmptySet DEF CountsTyped
<1>3. DOMAIN [k \in known |-> Stored(k)] = {}
  BY <1>1
<1> QED
  BY <1>2, <1>3, SumOfNone DEF Inserted, SumFunction

LEMMA CountsType ==
  ASSUME StoreTyped, CountsTyped
  PROVE  /\ \A k \in Keys : Stored(k) \in Nat
         /\ Inserted \in Nat
<1>1. ASSUME NEW k \in Keys PROVE Stored(k) \in Nat
  <2>1. recent[k] \in Seq(Point) /\ archived[k] \in Seq(Nat)
    BY DEF StoreTyped, CountsTyped
  <2>2. SumFunction(archived[k]) \in Nat
    BY <2>1, SumOfAppend
  <2> QED
    BY <2>1, <2>2 DEF Stored
<1> DEFINE f == [k \in known |-> Stored(k)]
<1>2. DOMAIN f = known /\ \A k \in known : f[k] \in Nat
  BY <1>1 DEF CountsTyped
<1> HIDE DEF f
<1>3. SumFunctionOnSet(f, known) \in Nat
  BY <1>2, SumType DEF CountsTyped
<1> QED
  BY <1>1, <1>2, <1>3 DEF Inserted, SumFunction, f

\* Archiving keeps what there is; what takes the place of it is added.
LEMMA ArchiveCounts ==
  ASSUME StoreTyped, CountsTyped, NEW k \in Keys, NEW rest \in Seq(Point), Store!Archive(k, rest)
  PROVE  /\ archived' \in [Keys -> Seq(Nat)] /\ Stored(k)' = Stored(k) + Len(rest)
         /\ recent'[k] = rest
         /\ \A j \in Keys \ {k} : recent'[j] = recent[j] /\ archived'[j] = archived[j]
<1>1. recent \in [Keys -> Seq(Point)] /\ archived \in [Keys -> Seq(Nat)]
  BY DEF StoreTyped, CountsTyped
<1>2. recent[k] \in Seq(Point) /\ archived[k] \in Seq(Nat) /\ Len(recent[k]) \in Nat
  BY <1>1
<1>3. /\ recent'[k] = rest
      /\ \A j \in Keys \ {k} : recent'[j] = recent[j] /\ archived'[j] = archived[j]
      /\ archived' = [archived EXCEPT ![k] = archived'[k]]
      /\ archived'[k] = IF recent[k] = <<>> THEN archived[k] ELSE Append(archived[k], Len(recent[k]))
  BY <1>1 DEF Store!Archive
<1>4. archived'[k] \in Seq(Nat)
  BY <1>2, <1>3
<1>5. archived' \in [Keys -> Seq(Nat)]
  <2> DEFINE a == archived'[k]
  <2>1. archived' = [archived EXCEPT ![k] = a] /\ a \in Seq(Nat)
    BY <1>3, <1>4
  <2> HIDE DEF a
  <2> QED
    BY <1>1, <2>1
<1>6. /\ SumFunction(archived'[k]) = SumFunction(archived[k]) + Len(recent[k])
      /\ SumFunction(archived[k]) \in Nat
  <2>1. /\ SumFunction(archived[k]) \in Nat
        /\ SumFunction(Append(archived[k], Len(recent[k]))) = SumFunction(archived[k]) + Len(recent[k])
    <3> DEFINE l == Len(recent[k])
               b == archived[k]
    <3>1. l \in Nat /\ b \in Seq(Nat)
      BY <1>2
    <3> HIDE DEF l, b
    <3>2. SumFunction(b) \in Nat /\ SumFunction(Append(b, l)) = SumFunction(b) + l
      BY <3>1, SumOfAppend
    <3> QED
      BY <3>2 DEF l, b
  <2>2. recent[k] = <<>> => Len(recent[k]) = 0
    BY EmptySeq
  <2> QED
    BY <1>3, <2>1, <2>2
<1>7. Len(rest) \in Nat
  OBVIOUS
<1>8. Stored(k)' = Stored(k) + Len(rest)
  BY <1>2, <1>3, <1>6, <1>7 DEF Stored
<1> QED
  BY <1>3, <1>5, <1>8

\* A key that stores n points more: so do all keys.
LEMMA InsertedMore ==
  ASSUME StoreTyped, CountsTyped, StoreTyped', CountsTyped',
         NEW k \in known, NEW n \in Nat, known' = known, Stored(k)' = Stored(k) + n,
         \A j \in Keys \ {k} : recent'[j] = recent[j] /\ archived'[j] = archived[j]
  PROVE  Inserted' = Inserted + n
<1> DEFINE f == [j \in known |-> Stored(j)]
           g == [j \in known |-> Stored(j)']
<1>1. \A j \in Keys : Stored(j) \in Nat
  BY CountsType
<1>2. \A j \in Keys : Stored(j)' \in Nat
  <2>1. \A j \in Keys \ {k} : Stored(j)' = Stored(j)
    BY DEF Stored
  <2>2. k \in Keys
    BY DEF CountsTyped
  <2> QED
    BY <1>1, <2>1, <2>2
<1>3. /\ DOMAIN f = known /\ DOMAIN g = known
      /\ \A j \in known : f[j] \in Int /\ g[j] \in Int
      /\ \A j \in known \ {k} : g[j] = f[j]
      /\ f[k] \in Int /\ g[k] = f[k] + n
  <2>1. \A j \in known : f[j] = Stored(j) /\ g[j] = Stored(j)' /\ j \in Keys
    BY DEF CountsTyped
  <2>2. \A j \in known \ {k} : Stored(j)' = Stored(j)
    BY DEF CountsTyped, Stored
  <2> HIDE DEF f, g
  <2>3. \A j \in known \ {k} : g[j] = f[j]
    BY <2>1, <2>2
  <2>4. \A j \in known : f[j] \in Int /\ g[j] \in Int
    BY <1>1, <1>2, <2>1
  <2>5. g[k] = f[k] + n
    BY <2>1
  <2> QED
    BY <2>3, <2>4, <2>5 DEF f, g
<1>4. Inserted = SumFunctionOnSet(f, known) /\ Inserted' = SumFunctionOnSet(g, known)
  BY DEF Inserted, SumFunction
<1> HIDE DEF f, g
<1>5. SumFunctionOnSet(g, known) = SumFunctionOnSet(f, known) + g[k] - f[k]
  <2>1. IsFiniteSet(known)
    BY DEF CountsTyped
  <2>2. \A j \in known : f[j] \in Int /\ g[j] \in Int
    BY <1>3
  <2>3. \A j \in known \ {k} : g[j] = f[j]
    BY <1>3
  <2> QED
    BY <2>1, <2>2, <2>3, SumChanged
<1>6. SumFunctionOnSet(f, known) \in Int
  BY <1>3, SumType DEF CountsTyped
<1> QED
  BY <1>3, <1>4, <1>5, <1>6

\* The points of a sequence that is extended, or replaced.
LEMMA RangeOfAppend ==
  ASSUME NEW s \in Seq(Point), NEW p \in Point
  PROVE  Range(Append(s, p)) = Range(s) \cup {p} /\ Range(<<p>>) = {p} /\ Range(<<>>) = {}
<1> DEFINE l == Len(s)
           t == Append(s, p)
<1>1. /\ l \in Nat /\ DOMAIN s = 1 .. l /\ DOMAIN t = 1 .. l + 1
      /\ t[l + 1] = p /\ \A i \in 1 .. l : t[i] = s[i]
  OBVIOUS
<1> HIDE DEF l, t
<1>2. Range(t) = Range(s) \cup {p}
  <2>1. 1 .. l + 1 = (1 .. l) \cup {l + 1}
    BY <1>1
  <2> QED
    BY <1>1, <2>1 DEF Range
<1>3. Range(<<p>>) = {p}
  <2>1. DOMAIN <<p>> = 1 .. 1 /\ <<p>>[1] = p
    OBVIOUS
  <2> QED
    BY <2>1 DEF Range
<1>4. Range(<<>>) = {}
  BY DEF Range
<1> QED
  BY <1>2, <1>3, <1>4 DEF t

\* Nothing comes to be scanned but a point that is stored.
NothingNew == Inserted' = Inserted /\ \A k \in Keys : Range(recent'[k]) \subseteq Range(recent[k])

OneNew(p) ==
  Inserted' = Inserted + 1 /\ \A k \in Keys : Range(recent'[k]) \subseteq Range(recent[k]) \cup {p}

LEMMA StoreCounts ==
  ASSUME StoreTyped, CountsTyped, NEW t \in Threads, Store!Store(t)
  PROVE  /\ CountsTyped'
         /\ \/ NothingNew /\ ~Store!Representable(request[t].point.timestamp)
            \/ OneNew(request[t].point)
<1>1. request[t] \in Store!Request /\ request[t].op = "insert" /\ known' = known
      /\ request[t].key \in known
  BY DEF StoreTyped, Store!Store, Store!Requests
<1>2. PICK k \in Keys, p \in Point : k = request[t].key /\ p = request[t].point
  BY <1>1 DEF Store!Request, Store!Point, Point
<1>3. k \in known
  BY <1>1, <1>2
<1>4. \/ recent' = [recent EXCEPT ![k] = Append(@, p)] /\ archived' = archived
      \/ Store!Archive(k, <<p>>)
      \/ Store!Archive(k, <<>>) /\ ~Store!Representable(p.timestamp)
  BY <1>2 DEF Store!Store
<1>5. StoreTyped'
  BY StoreCallTypes DEF StoreCall
<1>6. recent[k] \in Seq(Point) /\ Len(<<p>>) = 1 /\ Len(<<>>) = 0
      /\ <<p>> \in Seq(Point) /\ <<>> \in Seq(Point)
  BY <1>2 DEF StoreTyped
<1>7. Range(Append(recent[k], p)) = Range(recent[k]) \cup {p} /\ Range(<<p>>) = {p} /\ Range(<<>>) = {}
  BY <1>2, <1>6, RangeOfAppend
<1>8. CASE recent' = [recent EXCEPT ![k] = Append(@, p)] /\ archived' = archived
  <2>1. recent'[k] = Append(recent[k], p) /\ \A j \in Keys \ {k} : recent'[j] = recent[j]
    BY <1>2, <1>8 DEF StoreTyped
  <2>2. CountsTyped'
    BY <1>1, <1>3, <1>8, <2>1 DEF CountsTyped
  <2>3. Stored(k)' = Stored(k) + 1
    <3>1. Len(Append(recent[k], p)) = Len(recent[k]) + 1 /\ Len(recent[k]) \in Nat
      BY <1>2, <1>6, AppendProperties, LenProperties
    <3>2. SumFunction(archived[k]) \in Nat
      BY <1>2, SumOfAppend DEF CountsTyped
    <3> QED
      BY <1>8, <2>1, <3>1, <3>2 DEF Stored
  <2>4. Inserted' = Inserted + 1
    BY <1>1, <1>3, <1>5, <1>8, <2>1, <2>2, <2>3, InsertedMore
  <2> QED
    BY <1>2, <1>7, <2>1, <2>2, <2>4 DEF OneNew
<1>9. CASE Store!Archive(k, <<p>>)
  <2>1. /\ archived' \in [Keys -> Seq(Nat)] /\ Stored(k)' = Stored(k) + 1 /\ recent'[k] = <<p>>
        /\ \A j \in Keys \ {k} : recent'[j] = recent[j] /\ archived'[j] = archived[j]
    BY <1>2, <1>6, <1>9, ArchiveCounts
  <2>2. CountsTyped'
    BY <1>1, <1>3, <2>1 DEF CountsTyped
  <2>3. Inserted' = Inserted + 1
    BY <1>1, <1>3, <1>5, <2>1, <2>2, InsertedMore
  <2> QED
    BY <1>2, <1>7, <2>1, <2>2, <2>3 DEF OneNew
<1>10. CASE Store!Archive(k, <<>>) /\ ~Store!Representable(p.timestamp)
  <2>1. /\ archived' \in [Keys -> Seq(Nat)] /\ Stored(k)' = Stored(k) + 0 /\ recent'[k] = <<>>
        /\ \A j \in Keys \ {k} : recent'[j] = recent[j] /\ archived'[j] = archived[j]
    BY <1>2, <1>6, <1>10, ArchiveCounts
  <2>2. CountsTyped'
    BY <1>1, <1>3, <2>1 DEF CountsTyped
  <2>3. Inserted' = Inserted + 0 /\ Inserted \in Nat
    BY <1>1, <1>3, <1>5, <2>1, <2>2, InsertedMore, CountsType
  <2> QED
    BY <1>2, <1>7, <1>10, <2>1, <2>2, <2>3 DEF NothingNew
<1> QED
  BY <1>4, <1>8, <1>9, <1>10

LEMMA SealCounts ==
  ASSUME StoreTyped, CountsTyped, NEW k \in Keys, Store!SealExpired(k)
  PROVE  CountsTyped' /\ NothingNew
<1>1. Store!Archive(k, <<>>) /\ known' = known /\ recent[k] # <<>> /\ StoreTyped'
  BY SealTypes DEF Store!SealExpired, Store!Expired
<1>2. k \in known
  BY <1>1 DEF CountsTyped
<1>3. <<>> \in Seq(Point) /\ Len(<<>>) = 0
  OBVIOUS
<1>4. /\ archived' \in [Keys -> Seq(Nat)] /\ Stored(k)' = Stored(k) + 0 /\ recent'[k] = <<>>
      /\ \A j \in Keys \ {k} : recent'[j] = recent[j] /\ archived'[j] = archived[j]
  BY <1>1, <1>3, ArchiveCounts
<1>5. CountsTyped'
  BY <1>1, <1>2, <1>4 DEF CountsTyped
<1>6. Inserted' = Inserted + 0 /\ Inserted \in Nat
  BY <1>1, <1>2, <1>4, <1>5, InsertedMore, CountsType
<1> QED
  BY <1>4, <1>5, <1>6 DEF NothingNew, Range

\* A key is announced with no points.
LEMMA AnnounceCounts ==
  ASSUME StoreTyped, CountsTyped, NEW t \in Threads, Store!Announce(t)
  PROVE  CountsTyped' /\ NothingNew
<1> DEFINE k == request[t].key
<1>1. request[t] \in Store!Request /\ request[t].op = "insert"
  BY DEF StoreTyped, Store!Announce, Store!Requests
<1>2. k \in Keys /\ known' = known \cup {k} /\ recent' = recent /\ archived' = archived
  BY <1>1 DEF Store!Request, Store!Announce
<1> HIDE DEF k
<1>3. CountsTyped'
  BY <1>2, FS_AddElement DEF CountsTyped
<1>4. Inserted' = Inserted
  <2>1. CASE k \in known
    <3>1. known' = known
      BY <1>2, <2>1
    <3> QED
      BY <1>2, <3>1 DEF Inserted, Stored
  <2>2. CASE k \notin known
    <3> DEFINE f == [j \in known |-> Stored(j)]
               g == [j \in known' |-> Stored(j)]
    <3>1. \A j \in Keys : Stored(j) \in Nat
      BY CountsType
    <3>2. /\ DOMAIN f = known /\ DOMAIN g = known \cup {k}
          /\ \A j \in known : f[j] \in Int /\ g[j] = f[j]
          /\ \A j \in known \cup {k} : g[j] \in Int
      BY <1>2, <3>1 DEF CountsTyped
    <3>3. g[k] = 0
      <4>1. recent[k] = <<>> /\ archived[k] = <<>> /\ g[k] = Stored(k)
        BY <1>2, <2>2 DEF CountsTyped
      <4>2. SumFunction(<<>>) = 0
        <5>1. DOMAIN <<>> = {}
          OBVIOUS
        <5> QED
          BY <5>1, SumOfNone DEF SumFunction
      <4>3. Len(<<>>) = 0
        OBVIOUS
      <4> QED
        BY <4>1, <4>2, <4>3 DEF Stored
    <3>4. Inserted' = SumFunctionOnSet(g, known \cup {k}) /\ Inserted = SumFunctionOnSet(f, known)
      <4>1. Inserted' = SumFunction(g)
        BY <1>2 DEF Inserted, Stored
      <4> QED
        BY <3>2, <4>1 DEF Inserted, SumFunction
    <3> HIDE DEF f, g
    <3>5. IsFiniteSet(known)
      BY DEF CountsTyped
    <3>6. SumFunctionOnSet(g, known \cup {k}) = g[k] + SumFunctionOnSet(g, known)
      BY <2>2, <3>2, <3>5, SumOfMore
    <3>7. SumFunctionOnSet(g, known) = SumFunctionOnSet(f, known) /\ SumFunctionOnSet(f, known) \in Int
      <4>1. SumFunctionOnSet(g, known) = SumFunctionOnSet(f, known)
        BY <3>2, <3>5, SumSame
      <4>2. SumFunctionOnSet(f, known) \in Int
        BY <3>2, <3>5, SumType
      <4> QED
        BY <4>1, <4>2
    <3> QED
      BY <3>3, <3>4, <3>6, <3>7
  <2> QED
    BY <2>1, <2>2
<1> QED
  BY <1>2, <1>3, <1>4 DEF NothingNew

-----------------------------------------------------------------------------
(* What one query has found, the later ones find *)

\* Each point that is inserted can be told from the others by its value.
DistinctArrivals ==
  \A m, n \in DOMAIN Arrivals : m # n => Arrivals[m] \cap Arrivals[n] = {}

\* p is one of the points inserted so far.
Arrived(p) == \E m \in DOMAIN Arrivals : m <= Inserted /\ p.value \in Arrivals[m]

\* The point of the insert in progress is the next one.
NextArrives ==
  request[ingest] # Nil /\ reply[ingest] = Nil =>
    Inserted + 1 \in DOMAIN Arrivals /\ request[ingest].point.value \in Arrivals[Inserted + 1]

\* The points of the scan in progress.
InReply == IF reply[client] # Nil /\ reply[client].status = "Ok" THEN Range(reply[client].points) ELSE {}

AllArrived ==
  /\ \A k \in Keys : \A p \in Range(recent[k]) : Arrived(p)
  /\ \A i \in DOMAIN scanned : \A p \in Range(scanned[i]) : Arrived(p)
  /\ \A p \in InReply : Arrived(p)

InRange(p, q) == q.start_time <= p.timestamp /\ p.timestamp <= q.end_time

\* The scans that follow scan i have found what it found and is still there,
\* and so has the one whose answer has not been taken.
FoundAgain ==
  \A i \in DOMAIN scanned :
    \A p \in Range(scanned[i]) \cap Range(recent[asked[i].key]) :
      /\ \A j \in DOMAIN scanned :
           i < j /\ asked[j].key = asked[i].key /\ InRange(p, asked[j]) => p \in Range(scanned[j])
      /\ reply[client] # Nil /\ reply[client].status = "Ok"
           /\ Head(batch).key = asked[i].key /\ InRange(p, Head(batch)) => p \in InReply

LaterInv == CountsTyped /\ NextArrives /\ AllArrived /\ FoundAgain

LEMMA InitLater == Init => LaterInv
<1> SUFFICES ASSUME Init PROVE LaterInv
  OBVIOUS
<1>1. CountsTyped /\ Inserted = 0
  BY InitCounts
<1>2. /\ scanned = <<>> /\ request = [t \in Threads |-> Nil] /\ reply = [t \in Threads |-> Nil]
      /\ recent = [k \in Keys |-> <<>>]
  BY DEF Init, Store!Init
<1>3. DOMAIN scanned = {} /\ request[ingest] = Nil /\ reply[client] = Nil
      /\ \A k \in Keys : Range(recent[k]) = {}
  BY <1>2 DEF Threads, Range
<1> QED
  BY <1>1, <1>3 DEF LaterInv, NextArrives, AllArrived, FoundAgain, InReply

\* When nothing new is stored, what has arrived has arrived, and nothing that
\* was scanned comes back.
LEMMA ArrivedStays ==
  ASSUME StoreTyped, CountsTyped, NEW p, Arrived(p), Inserted' = Inserted \/ Inserted' = Inserted + 1
  PROVE  Arrived(p)'
<1>1. Inserted \in Nat /\ \A m \in DOMAIN Arrivals : m \in Nat
  BY CountsType, ArrivalsAssumption
<1> QED
  BY <1>1 DEF Arrived

\* A point that was scanned does not come back.
LEMMA NoneReturns ==
  ASSUME DistinctArrivals, CallerInv, LaterInv, Store!Store(ingest), OneNew(request[ingest].point),
         NEW k \in Keys, NEW p \in Range(recent'[k]), Arrived(p)
  PROVE  p \in Range(recent[k])
<1>1. Inserted + 1 \in DOMAIN Arrivals /\ request[ingest].point.value \in Arrivals[Inserted + 1]
  BY DEF LaterInv, NextArrives, Store!Store, Store!Requests
<1>2. PICK m \in DOMAIN Arrivals : m <= Inserted /\ p.value \in Arrivals[m]
  BY DEF Arrived
<1>3. Inserted \in Nat /\ m \in Nat /\ m # Inserted + 1
  BY <1>2, CountsType, ArrivalsAssumption DEF CallerInv, LaterInv
<1>4. p # request[ingest].point
  BY <1>1, <1>2, <1>3 DEF DistinctArrivals
<1> QED
  BY <1>4 DEF OneNew

\* The store's own steps, and the inserts.
LEMMA OthersKeepLater ==
  ASSUME client # ingest, DistinctArrivals, CallerInv, BatchInv, LaterInv, CallInsert \/ StoreStep
  PROVE  LaterInv'
<1>1. /\ UNCHANGED clientVars /\ ingest \in Threads /\ client \in Threads \ {ingest}
      /\ StoreTyped /\ CountsTyped
  BY DEF CallInsert, StoreStep, Threads, CallerInv, LaterInv
<1>2. reply'[client] = reply[client]
  <2>1. CASE StoreCall(ingest)
    BY <1>1, <2>1, OthersUndisturbed
  <2>2. CASE \E k \in Keys : Store!SealExpired(k)
    BY <2>2 DEF Store!SealExpired
  <2> QED
    BY <2>1, <2>2 DEF CallInsert, StoreStep, StoreCall
<1>3. CountsTyped' /\ NextArrives' /\
        (NothingNew \/ (Store!Store(ingest) /\ OneNew(request[ingest].point)))
  <2>1. CASE CallInsert
    <3>1. PICK k \in InsertKeys, timestamp \in Timestamps, value \in Arrivals[Inserted + 1] :
            request' = [request EXCEPT ![ingest] =
              [op |-> "insert", key |-> k, point |-> [timestamp |-> timestamp, value |-> value]]]
      BY <2>1 DEF CallInsert
    <3>2. UNCHANGED <<known, recent, archived, reply>> /\ Inserted < Len(Arrivals)
      BY <2>1 DEF CallInsert, Store!Invoke
    <3>3. request'[ingest].point.value = value
      BY <1>1, <3>1 DEF StoreTyped
    <3>4. CountsTyped' /\ Inserted' = Inserted /\ NothingNew
      BY <1>1, <3>2 DEF CountsTyped, Inserted, Stored, NothingNew
    <3>5. Inserted + 1 \in DOMAIN Arrivals
      BY <1>1, <3>2, CountsType, ArrivalsAssumption
    <3> QED
      BY <3>3, <3>4, <3>5 DEF NextArrives
  <2>2. CASE Store!Announce(ingest)
    <3>1. CountsTyped' /\ NothingNew
      BY <1>1, <2>2, AnnounceCounts
    <3>2. UNCHANGED <<request, reply>>
      BY <2>2 DEF Store!Announce
    <3> QED
      BY <3>1, <3>2 DEF LaterInv, NextArrives, NothingNew
  <2>3. CASE Store!Store(ingest)
    <3>1. CountsTyped' /\ (NothingNew \/ OneNew(request[ingest].point))
      BY <1>1, <2>3, StoreCounts
    <3>2. request'[ingest] = Nil \/ reply'[ingest] # Nil
      BY <1>1, <2>3, NilAssumption DEF StoreTyped, Store!Store, Store!Answer
    <3> QED
      BY <2>3, <3>1, <3>2 DEF NextArrives
  <2>4. CASE Store!Return(ingest)
    <3>1. UNCHANGED <<known, recent, archived>> /\ request'[ingest] = Nil
      BY <1>1, <2>4 DEF StoreTyped, Store!Return
    <3> QED
      BY <1>1, <3>1 DEF CountsTyped, Inserted, Stored, NothingNew, NextArrives
  <2>5. ASSUME NEW k \in Keys, Store!SealExpired(k) PROVE CountsTyped' /\ NothingNew /\ NextArrives'
    <3>1. CountsTyped' /\ NothingNew
      BY <1>1, <2>5, SealCounts
    <3>2. UNCHANGED <<request, reply>>
      BY <2>5 DEF Store!SealExpired
    <3> QED
      BY <3>1, <3>2 DEF LaterInv, NextArrives, NothingNew
  <2> QED
    BY <2>1, <2>2, <2>3, <2>4, <2>5 DEF StoreStep
<1>4. \A p : Arrived(p) => Arrived(p)'
  BY <1>1, <1>3, ArrivedStays DEF NothingNew, OneNew
<1>5. ASSUME NEW k \in Keys, NEW p \in Range(recent'[k]), Arrived(p) PROVE p \in Range(recent[k])
  BY <1>3, <1>5, NoneReturns DEF NothingNew
<1>6. ASSUME NEW k \in Keys, NEW p \in Range(recent'[k]) PROVE Arrived(p)'
  <2>1. CASE p \in Range(recent[k])
    BY <1>4, <2>1 DEF LaterInv, AllArrived
  <2>2. CASE p \notin Range(recent[k])
    <3>1. Store!Store(ingest) /\ p = request[ingest].point /\ Inserted' = Inserted + 1
      BY <1>3, <2>2 DEF NothingNew, OneNew
    <3>2. Inserted + 1 \in DOMAIN Arrivals /\ p.value \in Arrivals[Inserted + 1]
      BY <3>1 DEF LaterInv, NextArrives, Store!Store, Store!Requests
    <3>3. Inserted + 1 <= Inserted'
      BY <1>1, <3>1, CountsType
    <3> QED
      BY <3>2, <3>3 DEF Arrived
  <2> QED
    BY <2>1, <2>2
<1>7. InReply' = InReply
  BY <1>2 DEF InReply
<1>8. AllArrived'
  BY <1>1, <1>4, <1>6, <1>7 DEF clientVars, LaterInv, AllArrived
<1>9. FoundAgain'
  <2> SUFFICES ASSUME NEW i \in DOMAIN scanned, NEW p \in Range(scanned[i]),
                      p \in Range(recent'[asked[i].key])
               PROVE  /\ \A j \in DOMAIN scanned :
                           i < j /\ asked[j].key = asked[i].key /\ InRange(p, asked[j])
                             => p \in Range(scanned[j])
                      /\ reply[client] # Nil /\ reply[client].status = "Ok"
                           /\ Head(batch).key = asked[i].key /\ InRange(p, Head(batch)) => p \in InReply
    BY <1>1, <1>2, <1>7 DEF clientVars, FoundAgain, InRange
  <2>1. asked[i].key \in Keys
    BY ScannedOfAsked DEF CallerInv, Query
  <2>2. p \in Range(recent[asked[i].key])
    BY <1>5, <2>1 DEF LaterInv, AllArrived
  <2> QED
    BY <2>2 DEF LaterInv, FoundAgain
<1> QED
  BY <1>3, <1>8, <1>9 DEF LaterInv

\* The client's steps store nothing.
LEMMA ClientStoresNothing ==
  ASSUME LaterInv, UNCHANGED <<known, recent, archived>>,
         request'[ingest] = request[ingest], reply'[ingest] = reply[ingest]
  PROVE  CountsTyped' /\ NextArrives' /\ Inserted' = Inserted
BY DEF LaterInv, CountsTyped, NextArrives, Inserted, Stored

\* The client's steps that neither find points nor take them.
LEMMA QuietKeepsLater ==
  ASSUME LaterInv, UNCHANGED <<known, recent, archived>>,
         request'[ingest] = request[ingest], reply'[ingest] = reply[ingest],
         scanned' = scanned \/ scanned' = <<>>, asked' = asked \/ scanned' = <<>>,
         reply'[client] = Nil
  PROVE  LaterInv'
<1>1. CountsTyped' /\ NextArrives' /\ Inserted' = Inserted
  BY ClientStoresNothing
<1>2. InReply' = {} /\ DOMAIN <<>> = {}
  BY DEF InReply
<1>3. AllArrived'
  BY <1>1, <1>2 DEF LaterInv, AllArrived, Arrived
<1>4. FoundAgain'
  <2>1. CASE scanned' = <<>>
    BY <1>2, <2>1 DEF FoundAgain
  <2>2. CASE scanned' # <<>>
    <3>1. scanned' = scanned /\ asked' = asked
      BY <2>2
    <3> QED
      BY <3>1 DEF LaterInv, FoundAgain, InRange
  <2> QED
    BY <2>1, <2>2
<1> QED
  BY <1>1, <1>3, <1>4 DEF LaterInv

\* A scan finds what its series holds in its range.
LEMMA AnswerKeepsLater ==
  ASSUME client # ingest, CallerInv, BatchInv, LaterInv, AnswerScan
  PROVE  LaterInv'
<1>1. /\ UNCHANGED clientVars /\ client \in Threads /\ ingest \in Threads \ {client}
      /\ StoreTyped /\ (Store!Scan(client) \/ Store!NotFound(client))
      /\ UNCHANGED <<known, recent, archived, request>>
  BY DEF AnswerScan, Threads, CallerInv, Store!Scan, Store!NotFound
<1>2. request'[ingest] = request[ingest] /\ reply'[ingest] = reply[ingest]
  BY <1>1, OthersUndisturbed DEF StoreCall
<1>3. CountsTyped' /\ NextArrives' /\ Inserted' = Inserted
  BY <1>1, <1>2, ClientStoresNothing
<1> DEFINE q == Head(batch)
<1>4. CASE Store!NotFound(client)
  <2>1. reply'[client] = [status |-> "KeyNotFound"]
    BY <1>1, <1>4 DEF StoreTyped, Store!NotFound, Store!Answer
  <2>2. reply'[client].status # "Ok" /\ InReply' = {}
    BY <2>1 DEF InReply
  <2> QED
    BY <1>1, <1>3, <2>2 DEF clientVars, LaterInv, AllArrived, Arrived, FoundAgain, InRange
<1>5. CASE Store!Scan(client)
  <2>1. at = "scan" /\ request[client] = ScanOf(q)
    BY <1>5 DEF CallerInv, ScanOK, Store!Scan, Store!Requests
  <2>2. q \in Query
    BY <2>1, HeadTailProperties DEF BatchInv, AnsweredInOrder
  <2>3. /\ request[client].key = q.key /\ request[client].start = q.start_time
        /\ request[client].end = q.end_time /\ q.key \in Keys
    <3> HIDE DEF q
    <3> QED
      BY <2>1, <2>2 DEF ScanOf, Query
  <2> HIDE DEF q
  <2>4. recent[q.key] \in Seq(Point)
    BY <1>1, <2>3 DEF StoreTyped
  <2>5. PICK found \in Store!Chronological(recent[q.key], q.start_time, q.end_time) :
          Store!Answer(client, [status |-> "Ok", points |-> found])
    BY <1>5, <2>3 DEF Store!Scan
  <2>6. reply'[client] = [status |-> "Ok", points |-> found]
    BY <1>1, <2>5 DEF StoreTyped, Store!Answer
  <2>7. \/ InReply' = Range(found)
        \/ InReply' = {} /\ reply'[client] = Nil
    <3>1. reply'[client].status = "Ok" /\ reply'[client].points = found
      BY <2>6
    <3> QED
      BY <3>1, Zenon DEF InReply
  <2>8. Range(found) = {recent[q.key][i] : i \in Store!Places(recent[q.key], q.start_time, q.end_time)}
    BY <2>4, <2>5, ScanFinds
  <2>9. Range(found) = {p \in Range(recent[q.key]) : InRange(p, q)}
    BY <2>8 DEF Store!Places, Range, InRange
  <2>10. AllArrived'
    BY <1>1, <1>3, <2>3, <2>7, <2>9 DEF clientVars, LaterInv, AllArrived, Arrived
  <2>11. FoundAgain'
    <3> SUFFICES ASSUME NEW i \in DOMAIN scanned,
                        NEW p \in Range(scanned[i]) \cap Range(recent[asked[i].key])
                 PROVE  /\ \A j \in DOMAIN scanned :
                             i < j /\ asked[j].key = asked[i].key /\ InRange(p, asked[j])
                               => p \in Range(scanned[j])
                        /\ reply'[client] # Nil /\ q.key = asked[i].key /\ InRange(p, q) => p \in InReply'
      BY <1>1 DEF clientVars, FoundAgain, InRange, q
    <3> QED
      BY <2>7, <2>9 DEF LaterInv, FoundAgain
  <2> QED
    BY <1>3, <2>10, <2>11 DEF LaterInv
<1> QED
  BY <1>1, <1>4, <1>5

\* The client takes the points of a scan: they join those scanned.
LEMMA TakeKeepsLater ==
  ASSUME client # ingest, CallerInv, BatchInv, LaterInv, at = "scan",
         Store!Return(client), reply[client].status = "Ok",
         scanned' = Append(scanned, reply[client].points), asked' = asked
  PROVE  LaterInv'
<1> DEFINE ps == reply[client].points
           n == Len(scanned)
<1>1. /\ client \in Threads /\ ingest \in Threads \ {client} /\ StoreTyped
      /\ UNCHANGED <<known, recent, archived>> /\ reply[client] # Nil
  BY DEF Threads, CallerInv, Store!Return
<1>2. /\ request'[ingest] = request[ingest] /\ reply'[ingest] = reply[ingest]
      /\ reply'[client] = Nil
  BY <1>1 DEF StoreTyped, Store!Return
<1>3. CountsTyped' /\ NextArrives' /\ Inserted' = Inserted
  BY <1>1, <1>2, ClientStoresNothing
<1>4. InReply' = {} /\ InReply = Range(ps)
  BY <1>1, <1>2 DEF InReply
<1>5. asked[n + 1] = Head(batch)
  <2>1. /\ batch \in Seq(Query) /\ batch # <<>> /\ n = Len(results)
        /\ \A i \in 1 .. Len(batch) : batch[i] = asked[Len(results) + i]
    BY DEF BatchInv, AnsweredInOrder, CallerInv, ScannedOK
  <2>2. Head(batch) = batch[1] /\ Len(batch) \in Nat /\ Len(batch) > 0
    BY <2>1, HeadTailProperties, EmptySeq
  <2> QED
    BY <2>1, <2>2
<1> HIDE DEF ps
<1>6. /\ n \in Nat /\ DOMAIN scanned = 1 .. n /\ DOMAIN scanned' = 1 .. n + 1
      /\ scanned'[n + 1] = ps /\ \A i \in 1 .. n : scanned'[i] = scanned[i]
  <2>1. scanned \in Seq({qs \in Seq(Point) : Chronologic(qs)}) /\ scanned' = Append(scanned, ps)
    BY DEF CallerInv, ScannedOK, ps
  <2>2. /\ DOMAIN scanned = 1 .. n /\ n \in Nat
        /\ Len(scanned') = n + 1 /\ scanned'[n + 1] = ps
        /\ \A i \in 1 .. n : scanned'[i] = scanned[i]
    BY <2>1, AppendAny, LenProperties
  <2>3. DOMAIN scanned' = 1 .. n + 1
    <3>1. Append(scanned, ps) \in Seq({qs \in Seq(Point) : Chronologic(qs)} \cup {ps})
      BY <2>1, AppendAny
    <3> QED
      BY <2>1, <2>2, <3>1, LenProperties
  <2> QED
    BY <2>2, <2>3
<1> HIDE DEF n
<1>7. AllArrived'
  BY <1>1, <1>3, <1>4, <1>6 DEF LaterInv, AllArrived, Arrived
<1>8. FoundAgain'
  <2> SUFFICES ASSUME NEW i \in 1 .. n + 1,
                      NEW p \in Range(scanned'[i]) \cap Range(recent[asked[i].key]),
                      NEW j \in 1 .. n + 1, i < j, asked[j].key = asked[i].key, InRange(p, asked[j])
               PROVE  p \in Range(scanned'[j])
    BY <1>1, <1>2, <1>6 DEF FoundAgain, InRange
  <2>1. i \in 1 .. n /\ p \in Range(scanned[i])
    BY <1>6
  <2>2. CASE j = n + 1
    BY <1>1, <1>4, <1>5, <1>6, <2>1, <2>2 DEF LaterInv, FoundAgain
  <2>3. CASE j \in 1 .. n
    BY <1>6, <2>1, <2>3 DEF LaterInv, FoundAgain
  <2> QED
    BY <1>6, <2>2, <2>3
<1> QED
  BY <1>3, <1>7, <1>8 DEF LaterInv

LEMMA NextLater ==
  ASSUME client # ingest, DistinctArrivals, CallerInv, BatchInv, LaterInv, [Next]_vars
  PROVE  LaterInv'
<1>1. CASE AnswerPoints \/ StartWindows
  BY <1>1, TakeKeepsLater DEF AnswerPoints, StartWindows, Deliver
<1>2. CASE CallScan
  <2>1. /\ UNCHANGED <<known, recent, archived, reply, scanned, asked>> /\ reply[client] = Nil
        /\ client \in Threads /\ ingest \in Threads \ {client} /\ Store!Invoke(client)
    BY <1>2 DEF CallScan, Store!Invoke, CallerInv, ScanOK, Threads
  <2>2. request'[ingest] = request[ingest]
    BY <2>1, OthersUndisturbed DEF CallerInv, StoreCall
  <2> QED
    BY <2>1, <2>2, QuietKeepsLater
<1>3. CASE ScanFailed
  <2>1. /\ UNCHANGED <<known, recent, archived, scanned, asked>> /\ Store!Return(client)
        /\ client \in Threads /\ ingest \in Threads \ {client}
    BY <1>3 DEF ScanFailed, Fail, Store!Return, Threads
  <2>2. /\ request'[ingest] = request[ingest] /\ reply'[ingest] = reply[ingest]
        /\ reply'[client] = Nil
    BY <2>1 DEF CallerInv, StoreTyped, Store!Return
  <2> QED
    BY <2>1, <2>2, QuietKeepsLater
<1>4. CASE RejectQuery \/ AnswerWindows \/ CallExecute \/ ReturnExecute
  <2>1. UNCHANGED storeVars /\ reply[client] = Nil
    BY <1>4 DEF RejectQuery, AnswerWindows, CallExecute, Call, ReturnExecute, CallerInv, ScanOK
  <2>2. /\ scanned' = scanned \/ scanned' = <<>>
        /\ asked' = asked \/ scanned' = <<>>
    BY <1>4 DEF RejectQuery, Fail, AnswerWindows, Deliver, CallExecute, Call, ReturnExecute,
       CallerInv, ScannedOK
  <2> QED
    BY <2>1, <2>2, QuietKeepsLater DEF storeVars
<1>5. CASE WindowStep \/ UNCHANGED vars
  BY <1>5 DEF WindowStep, vars, storeVars, clientVars, LaterInv, CountsTyped, NextArrives, AllArrived,
     FoundAgain, Arrived, Inserted, Stored, InReply, InRange
<1> QED
  BY <1>1, <1>2, <1>3, <1>4, <1>5, OthersKeepLater, AnswerKeepsLater DEF Next, Execute

\* If no point is inserted twice, then a point that a query of a call has
\* found, and that is not sealed when the call returns, the later queries
\* whose range it is in have found too (engine.rs execute_multi, memory.rs
\* scan_range).
THEOREM EngineFindsMore == ASSUME client # ingest, DistinctArrivals PROVE Spec => []LaterFindsMore
<1>1. LaterInv => LaterFindsMore
  BY DEF LaterInv, FoundAgain, LaterFindsMore, InRange
<1>2. BatchInv /\ CallerInv /\ LaterInv /\ [Next]_vars => LaterInv'
  BY NextLater
<1>3. BatchInv /\ CallerInv /\ [Next]_vars => CallerInv'
  BY NextCaller
<1> QED
  BY <1>1, <1>2, <1>3, InitBatch, NextBatch, InitCaller, InitLater, PTL DEF Spec
=============================================================================
