---------------------------- MODULE TimestampCodec ----------------------------
(***************************************************************************)
(* TimestampCompressor and TimestampDecompressor of                        *)
(* compression/src/timestamp.rs.  A timestamp is written as the change of  *)
(* its delta, in one of five fields told apart by a prefix code.           *)
(*                                                                         *)
(* The u64 and i64 arithmetic of the code is plain arithmetic here: the    *)
(* timestamps of a block are less than a block's duration apart, so no     *)
(* difference overflows.  For the same reason the widest field, 32 bits in *)
(* the code, may be narrower in a small instance, as long as it is wider   *)
(* than the others.  A timestamp decoded wrong may be negative here, where *)
(* the code has it modulo 2^64.                                            *)
(***************************************************************************)
EXTENDS BitStream, SequencesExt

CONSTANT WideBits     (* the width of the widest field                      *)

ASSUME WideAssumption == WideBits \in 13 .. 32

FieldPrefix == <<<<0>>, <<1, 0>>, <<1, 1, 0>>, <<1, 1, 1, 0>>, <<1, 1, 1, 1>>>>

FieldWidth == <<0, 7, 9, 12, WideBits>>

FirstTimestamp(timestamp) == [last |-> timestamp, delta |-> 0]

\* Faulty variant: the second field reaches one further down.
FieldForLow(dod) ==
  CASE dod = 0 -> 1
    [] dod # 0 /\ dod \in -64 .. 64 -> 2
    [] dod \in -255 .. 256 \ -64 .. 64 -> 3
    [] dod \in -2047 .. 2048 \ -255 .. 256 -> 4
    [] OTHER -> 5

FieldFor(dod) ==
  CASE dod = 0 -> 1
    [] dod # 0 /\ dod \in -63 .. 64 -> 2
    [] dod \in -255 .. 256 \ -63 .. 64 -> 3
    [] dod \in -2047 .. 2048 \ -255 .. 256 -> 4
    [] OTHER -> 5

DeltaOfDelta(state, timestamp) == timestamp - state.last - state.delta

\* Faulty variant: the second field is written one bit too wide.
TimestampRecordWide(state, timestamp) ==
  LET dod == DeltaOfDelta(state, timestamp)
      f   == FieldFor(dod)
  IN FieldPrefix[f] \o Bits(dod, FieldWidth[f] + IF f = 2 THEN 1 ELSE 0)

\* The bits compress writes for the timestamp, and its state afterwards.
TimestampRecord(state, timestamp) ==
  LET dod == DeltaOfDelta(state, timestamp)
  IN FieldPrefix[FieldFor(dod)] \o Bits(dod, FieldWidth[FieldFor(dod)])

TimestampAfter(state, timestamp) == [last |-> timestamp, delta |-> timestamp - state.last]

\* The field whose prefix these bits begin with; 0 if they end before that.
FieldOf(bits) ==
  IF \E f \in 1 .. 5 : IsPrefix(FieldPrefix[f], bits)
  THEN CHOOSE f \in 1 .. 5 : IsPrefix(FieldPrefix[f], bits)
  ELSE 0

TimestampRecordLength(f) == Len(FieldPrefix[f]) + FieldWidth[f]

\* The 7 bits of the second field are converted to i8 without sign extension.
FieldValue(f, bits) ==
  CASE f = 1 -> 0
    [] f = 2 -> Unsigned(bits)
    [] OTHER -> Signed(bits)

\* decompress of the bits: the timestamp it answers is the state's last one.
TimestampRead(state, bits) ==
  LET f     == FieldOf(bits)
      delta == state.delta
                 + FieldValue(f, SubSeq(bits, Len(FieldPrefix[f]) + 1, TimestampRecordLength(f)))
  IN [last |-> state.last + delta, delta |-> delta]
=============================================================================
