---------------------------- MODULE SeriesStorage ----------------------------
(***************************************************************************)
(* One time series as storage/src/memory.rs and storage/src/block.rs keep  *)
(* it: a list of sealed, compressed blocks and at most one open block that *)
(* still takes points.  The module is the sequential data type; TSMap runs *)
(* its operators under the locks of the concurrent map.                    *)
(*                                                                         *)
(* Timestamps are u64 milliseconds: arithmetic on them wraps at Modulus,   *)
(* as in the release build.  BlockDuration stands for the two hours of     *)
(* BLOCK_DURATION_MS.  A compressed block's bit stream is abstracted to    *)
(* the points it has a record for, which are all but the block's first.    *)
(***************************************************************************)
EXTENDS Integers, Sequences, Functions, FiniteSets

CONSTANTS
  Timestamps,     (* the timestamps a point may carry                      *)
  Values,         (* the values a point may carry                          *)
  BlockDuration,  (* BLOCK_DURATION_MS                                     *)
  Modulus,        (* 2^64                                                  *)
  Nil             (* None: no block, no key, no point                      *)

ASSUME ModulusAssumption == Modulus \in Nat \ {0}
ASSUME DurationAssumption == BlockDuration \in 1 .. Modulus - 1
ASSUME TimestampsAssumption == Timestamps \subseteq 0 .. Modulus - 1

Point == [timestamp : Timestamps, value : Values]

Block == [start_time : Timestamps,
          end_time   : 0 .. Modulus - 1,
          points     : Seq(Point),
          is_sealed  : BOOLEAN]

CompressedBlock == [start_timestamp : Timestamps,
                    end_timestamp   : Timestamps,
                    count           : Nat,
                    compressed_data : Seq(Point)]

Series == [sealed_blocks : Seq(CompressedBlock),
           current_block : Block \cup {Nil}]

ASSUME NilAssumption == Nil \notin Block /\ Nil \notin Point

-----------------------------------------------------------------------------
(* block.rs *)

\* Faulty variant: the end of the block is not reduced to 64 bits.
NewBlockWide(start) ==
  [start_time |-> start, end_time |-> start + BlockDuration, points |-> <<>>, is_sealed |-> FALSE]

NewBlock(start) ==
  [start_time |-> start,
   end_time   |-> (start + BlockDuration) % Modulus,
   points     |-> <<>>,
   is_sealed  |-> FALSE]

\* Faulty variant: the range is closed on the right.
CanAcceptEnd(block, timestamp) ==
  ~block.is_sealed /\ block.start_time <= timestamp /\ timestamp <= block.end_time

CanAccept(block, timestamp) ==
  /\ ~block.is_sealed
  /\ block.start_time <= timestamp
  /\ timestamp < block.end_time

Pushed(block, point) == [block EXCEPT !.points = Append(@, point)]

Sealed(block) == [block EXCEPT !.is_sealed = TRUE]

\* Both compressors start from the first point and write a record for each
\* later one, so the stream holds Tail(points).  end_timestamp is the last
\* point's in arrival order.
Compress(block) ==
  IF block.points = <<>>
  THEN [start_timestamp |-> block.start_time, end_timestamp |-> block.start_time,
        count |-> 0, compressed_data |-> <<>>]
  ELSE [start_timestamp |-> block.points[1].timestamp,
        end_timestamp   |-> block.points[Len(block.points)].timestamp,
        count           |-> Len(block.points),
        compressed_data |-> Tail(block.points)]

ShouldSeal(block, now) == ~block.is_sealed /\ now >= block.end_time

-----------------------------------------------------------------------------
(* TimeSeriesStorage of memory.rs *)

EmptySeries == [sealed_blocks |-> <<>>, current_block |-> Nil]

\* The second half of seal_current_block: the block taken out of
\* current_block is compressed and, unless it was empty, kept.
PushCompressed(s, block) ==
  IF Compress(block).count > 0
  THEN [s EXCEPT !.sealed_blocks = Append(@, Compress(block))]
  ELSE s

CurrentPoints(s) == IF s.current_block = Nil THEN <<>> ELSE s.current_block.points

\* Faulty variant: the range ends before its end.
PickedOpen(points, start, end) ==
  {i \in DOMAIN points : start <= points[i].timestamp /\ points[i].timestamp < end}

\* What a range scan picks from the open block: the places of the points in
\* the range.  The loop over the sealed blocks that overlap it is empty.
Picked(points, start, end) ==
  {i \in DOMAIN points : start <= points[i].timestamp /\ points[i].timestamp <= end}

\* sort_by_key is stable: points of one timestamp stay in arrival order.
Precedes(points, i, j) ==
  \/ points[i].timestamp < points[j].timestamp
  \/ points[i].timestamp = points[j].timestamp /\ i < j

\* The picked points in that order: the n-th has n - 1 before it.
SortByTimestamp(points, picked) ==
  [n \in 1 .. Cardinality(picked) |->
     points[CHOOSE i \in picked :
              Cardinality({j \in picked : Precedes(points, j, i)}) = n - 1]]

InRange(s, start, end) ==
  SortByTimestamp(CurrentPoints(s), Picked(CurrentPoints(s), start, end))

BlockCount(s) == Len(s.sealed_blocks) + IF s.current_block = Nil THEN 0 ELSE 1

PointCount(s) ==
  Len(CurrentPoints(s))
    + SumFunction([i \in DOMAIN s.sealed_blocks |-> s.sealed_blocks[i].count])

=============================================================================
