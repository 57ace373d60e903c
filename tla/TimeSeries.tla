------------------------------ MODULE TimeSeries ------------------------------
(***************************************************************************)
(* The TimeSeries of tsdb-core/src/data_model.rs: a list of compressed     *)
(* blocks and an optional open block of points.  It is the copy of a       *)
(* series TSMap::get_series hands out, and its holder may add points to it *)
(* and seal it.  The compressed blocks are left out: point_count reads     *)
(* their counts, and nothing changes them.                                 *)
(***************************************************************************)
EXTENDS Integers, Sequences, SequencesExt

CONSTANTS
  Points,      (* the points added, each at most once                      *)
  Nil,         (* None                                                     *)
  MaxSeals     (* bound: calls of seal_current_block                       *)

ASSUME NilAssumption == Nil \notin Seq(Points)
ASSUME SealsAssumption == MaxSeals \in Nat

VARIABLES
  current_block,
  added,    (* history: the points copied or added, in order               *)
  kept,     (* history: those the series had an open block for             *)
  sealed    (* history: what each seal_current_block answered              *)

vars == <<current_block, added, kept, sealed>>

CurrentPoints == IF current_block = Nil THEN <<>> ELSE current_block

\* A new series has an empty open block.
New == current_block = <<>>

\* A copy of a stored series has an open block only if the stored one has
\* points.
Copy == current_block \in {<<p>> : p \in Points} \cup {Nil}

Init ==
  /\ New \/ Copy
  /\ added = CurrentPoints /\ kept = CurrentPoints
  /\ sealed = <<>>

\* A series without an open block ignores the point.
add_point(p) ==
  /\ p \notin Range(added)
  /\ added' = Append(added, p)
  /\ IF current_block = Nil
     THEN UNCHANGED <<current_block, kept>>
     ELSE current_block' = Append(current_block, p) /\ kept' = Append(kept, p)
  /\ UNCHANGED sealed

\* Faulty variant: the points are copied out of the block, not taken.
SealByCopy ==
  /\ Len(sealed) < MaxSeals
  /\ sealed' = Append(sealed, current_block)
  /\ current_block' = IF CurrentPoints = <<>> THEN Nil ELSE current_block
  /\ UNCHANGED <<added, kept>>

\* The open block is taken and answered; only one that had points is replaced.
seal_current_block ==
  /\ Len(sealed) < MaxSeals
  /\ sealed' = Append(sealed, current_block)
  /\ current_block' = IF CurrentPoints = <<>> THEN Nil ELSE <<>>
  /\ UNCHANGED <<added, kept>>

Next == (\E p \in Points : add_point(p)) \/ seal_current_block

Spec == Init /\ [][Next]_vars

-----------------------------------------------------------------------------
(* Properties *)

\* The points handed out by the calls of seal_current_block.
Handed == FlattenSeq([i \in DOMAIN sealed |-> IF sealed[i] = Nil THEN <<>> ELSE sealed[i]])

\* However adding and sealing alternate, every point the series has taken is
\* handed out by one seal or is still in the open block, in the order of the
\* calls, and never both.
PointsHandedOnce == kept = Handed \o CurrentPoints
=============================================================================
