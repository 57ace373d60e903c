--------------------------- MODULE TSMapRefinement ---------------------------
(***************************************************************************)
(* TSMap implements PointStore: the steps an insert or a sealing walk takes*)
(* inside a series are one step to everyone else.                          *)
(*                                                                         *)
(* While a thread has taken the open block of a series and not finished    *)
(* with it, the points of that block are still recent, in the block's new  *)
(* place in sealed_blocks or before it gets there.                         *)
(***************************************************************************)
EXTENDS TSMap

\* The thread that has the block of k in hand.
Holds(t, k) == limbo[t] # Nil /\ call[t].key = k

recentPoints == [k \in Keys |->
  IF \E t \in Threads : Holds(t, k)
  THEN limbo[CHOOSE t \in Threads : Holds(t, k)].points
  ELSE CurrentPoints(series[k])]

\* An insert that has pushed the block it took and not opened the next.
BetweenBlocks(k) == \E t \in Threads : Holds(t, k) /\ pc[t] = "insert_new"

archivedBatches == [k \in Keys |->
  LET blocks == series[k].sealed_blocks
  IN  [i \in 1 .. (IF BetweenBlocks(k) THEN Len(blocks) - 1 ELSE Len(blocks)) |-> blocks[i].count]]

\* The request that a call on one series makes; a walk makes none.
RequestOf(c) ==
  CASE c.op = "insert" -> [op |-> "insert", key |-> c.key, point |-> c.point]
    [] c.op = "scan_range" -> [op |-> "scan_range", key |-> c.key, start |-> c.start, end |-> c.end]
    [] c.op = "get_series" -> [op |-> "get_series", key |-> c.key]
    [] OTHER -> Nil

ResultOf(c, a) ==
  CASE a.status = "none" -> Nil
    [] a.status = "Ok" /\ c.op = "scan_range" -> [status |-> "Ok", points |-> a.points]
    [] a.status = "Ok" /\ c.op = "get_series" ->
         [status |-> "Ok", points |-> a.points, batches |-> a.blocks, count |-> a.count]
    [] OTHER -> [status |-> a.status]

pendingRequest == [t \in Threads |-> RequestOf(call[t])]

givenResult == [t \in Threads |-> ResultOf(call[t], answer[t])]

Store == INSTANCE PointStore WITH
  recent   <- recentPoints,
  archived <- archivedBatches,
  request  <- pendingRequest,
  result   <- givenResult

\* Nil is no request and no result.
ASSUME NilRequestAssumption == Nil \notin Store!Request \cup Store!Result

\* insert, scan_range, get_series and the sealing of a block are atomic: what
\* a thread does to a series under its locks is one step of PointStore, taken
\* between the call and the answer (memory.rs insert_point, scan_range,
\* to_time_series, seal_if_expired).
ImplementsPointStore == Store!Spec
=============================================================================
