------------------------------ MODULE BlockCodec ------------------------------
(***************************************************************************)
(* The bit stream of a sealed block: TimeSeriesBlock::compress of          *)
(* storage/src/block.rs writes, for each point but the first, a timestamp  *)
(* record and a value record; a reader decodes them in the same order with *)
(* the two decompressors.  The repository has no block reader yet: ours    *)
(* starts from what a CompressedBlock stores, which is the first timestamp *)
(* but not the first value, and reads until decompress answers             *)
(* InsufficientData.                                                       *)
(***************************************************************************)
EXTENDS TimestampCodec, ValueCodec

CONSTANTS
  Timestamps,   (* timestamps of points of one block                       *)
  Values,       (* the words points carry                                  *)
  MaxPoints     (* bound: the points of the block                          *)

ASSUME TimestampsAssumption == Timestamps \subseteq Nat
ASSUME ValuesAssumption == Values \subseteq Word

\* The widest field takes twice what the points of a block are apart: they are
\* less than BLOCK_DURATION_MS, which is less than 2^23, and the field has 32 bits.
ASSUME SpanAssumption == \A t, u \in Timestamps : t - u < 2 ^ (WideBits - 2)
ASSUME MaxAssumption == MaxPoints \in Nat \ {0}

Point == [timestamp : Timestamps, value : Values]

VARIABLES
  phase,     (* "writing", "reading", then "end" at InsufficientData       *)
  points,    (* the block's points written so far, the first included      *)
  bits,      (* the stream                                                 *)
  writer,    (* the two compressors                                        *)
  marks,     (* history: where each point's two records end                *)
  guess,     (* the first value the reader assumes                         *)
  pos,       (* the reader's bit_position                                  *)
  reader,    (* the two decompressors                                      *)
  read       (* the points read so far, the first included                 *)

vars == <<phase, points, bits, writer, marks, guess, pos, reader, read>>

Codec(timestamp, value) ==
  [timestamp |-> FirstTimestamp(timestamp), value |-> FirstValue(value)]

Init ==
  /\ phase = "writing"
  /\ \E p \in Point : points = <<p>> /\ writer = Codec(p.timestamp, p.value) /\ guess = p.value
  /\ bits = <<>>
  /\ marks = <<[timestamp |-> 0, value |-> 0]>>
  /\ pos = 0
  /\ reader = writer
  /\ read = points

WritePoint(p) ==
  /\ phase = "writing"
  /\ Len(points) < MaxPoints
  /\ LET t == bits \o TimestampRecord(writer.timestamp, p.timestamp)
     IN /\ bits' = t \o ValueRecord(writer.value, p.value)
        /\ marks' = Append(marks, [timestamp |-> Len(t), value |-> Len(bits')])
  /\ points' = Append(points, p)
  /\ writer' = [timestamp |-> TimestampAfter(writer.timestamp, p.timestamp),
                value     |-> ValueAfter(writer.value, p.value)]
  /\ UNCHANGED <<phase, guess, pos, reader, read>>

Finish ==
  /\ phase = "writing"
  /\ phase' = "reading"
  /\ bits' = Padded(bits)
  /\ \E v \in Values :
       /\ guess' = v
       /\ reader' = Codec(points[1].timestamp, v)
       /\ read' = <<[timestamp |-> points[1].timestamp, value |-> v]>>
  /\ UNCHANGED <<points, writer, marks, pos>>

\* The bits after the timestamp record at pos; none if there is no such record.
AfterTimestamp ==
  LET s == From(bits, pos)
      f == FieldOf(s)
  IN IF f = 0 THEN <<>> ELSE From(s, TimestampRecordLength(f))

PointAhead == AfterTimestamp # <<>> /\ RecordOf(reader.value, AfterTimestamp) # NoRecord

ReadPoint ==
  /\ phase = "reading"
  /\ PointAhead
  /\ reader' = [timestamp |-> TimestampRead(reader.timestamp, From(bits, pos)),
                value     |-> ValueRead(reader.value, AfterTimestamp)]
  /\ read' = Append(read, [timestamp |-> reader'.timestamp.last, value |-> reader'.value.last])
  /\ pos' = Len(bits) - Len(AfterTimestamp) + RecordOf(reader.value, AfterTimestamp).length
  /\ UNCHANGED <<phase, points, bits, writer, marks, guess>>

EndRead ==
  /\ phase = "reading"
  /\ ~PointAhead
  /\ phase' = "end"
  /\ UNCHANGED <<points, bits, writer, marks, guess, pos, reader, read>>

Next == (\E p \in Point : WritePoint(p)) \/ Finish \/ ReadPoint \/ EndRead

Spec == Init /\ [][Next]_vars

-----------------------------------------------------------------------------
(* Properties *)

\* Every variable has its type; a stream handed out is made of whole bytes, and
\* the reader stays inside it.
TypeOK ==
  /\ phase \in {"writing", "reading", "end"}
  /\ points \in Seq(Point) /\ Len(points) \in 1 .. MaxPoints
  /\ bits \in Seq(Bit) /\ (phase # "writing" => Len(bits) % 8 = 0)
  /\ DOMAIN marks = DOMAIN points
  /\ guess \in Values
  /\ pos \in 0 .. Len(bits)
  /\ read \in Seq([timestamp : Int, value : Word])

\* The points the reader has read that the block has.
Known == DOMAIN read \cap DOMAIN points

\* Whatever the reader has made of the numbers, it finds every record of the
\* block at the bit where the writer put it, and the stream does not end
\* before the block's last point.
ReaderInFrame ==
  /\ Len(read) <= Len(points) => pos = marks[Len(read)].value
  /\ phase = "end" => Len(read) >= Len(points)

\* The changes of delta the codec cannot represent: a negative one in the
\* 7-bit field, and the largest of the 9-bit and of the 12-bit field.
Misfit == -63 .. -1 \cup {256, 2048}

Dod(i) ==
  LET t(j) == points[j].timestamp
  IN IF i = 2 THEN t(2) - t(1) ELSE (t(i) - t(i - 1)) - (t(i - 1) - t(i - 2))

Misfits == {i \in 2 .. Len(points) : Dod(i) \in Misfit}

\* Timestamps are decoded right up to the first change of delta that does not
\* fit its field, and that one is decoded wrong.
TimestampsRightUntilMisfit ==
  \A i \in Known : (\A j \in Misfits : i <= j) =>
    (read[i].timestamp = points[i].timestamp <=> i \notin Misfits)

\* Every value is decoded with the error of the assumed first value: all are
\* right if that is, and none if it is not.
ValuesOffByFirst ==
  phase # "writing" =>
    \A i \in Known : Xor(read[i].value, points[i].value) = Xor(guess, points[1].value)

\* The round trip the tests of timestamp.rs assert.
TimestampsRoundTrip ==
  \A i \in Known : phase # "writing" => read[i].timestamp = points[i].timestamp
=============================================================================
