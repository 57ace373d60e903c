------------------------- MODULE WriteAheadLogProofs -------------------------
(***************************************************************************)
(* Proofs about WriteAheadLog, for any entries, lengths of prefix and      *)
(* entry, and number of crashes: what was truncated and synced is never    *)
(* replayed, a file without torn records is replayed exactly, and holds at *)
(* least the entries the log counts, and what append answered Ok for       *)
(* behind whole records is replayed once and in order, whatever is torn    *)
(* behind it.                                                              *)
(***************************************************************************)
EXTENDS WriteAheadLog, SequenceTheorems, WellFoundedInduction, TLAPS

-----------------------------------------------------------------------------
(* Types *)

\* The handle's parts agree: only an open log writes or replays, and not both.
HandleOK ==
  /\ log = Nil => writing = Nil /\ replay = NoReplay
  /\ writing # Nil => replay = NoReplay

TypeInv == TypeOK /\ HandleOK

LEMMA Lengths ==
  /\ PrefixLen \in Nat /\ PrefixLen > 0 /\ DataLen \in Nat /\ DataLen > 0 /\ MaxLength \in Nat
  /\ RecordLen \in Nat /\ RecordLen > PrefixLen
BY LengthAssumption DEF RecordLen

\* A record is made of cells.
LEMMA RecordCells ==
  ASSUME NEW e \in Entries, NEW i \in 1 .. RecordLen
  PROVE  Record(e)[i] \in Cell /\ Record(e)[i] = [entry |-> e, at |-> i]
BY DEF Record, Cell

\* What a power failure may leave is made of cells of the file or the disk.
LEMMA ImageCells ==
  ASSUME TypeOK, NEW f \in CrashImages
  PROVE  /\ f \in Seq(Cell)
         /\ \A i \in DOMAIN f : \/ \E j \in DOMAIN file : f[i] = file[j]
                                \/ \E j \in DOMAIN disk : f[i] = disk[j]
<1>1. CASE f = disk
  BY <1>1 DEF TypeOK
<1>2. CASE f \in Prefixes(file)
  <2>1. PICK l \in 0 .. Len(file) : f = SubSeq(file, 1, l)
    BY <1>2 DEF Prefixes
  <2>2. file \in Seq(Cell) /\ Len(file) \in Nat /\ DOMAIN file = 1 .. Len(file)
    BY LenProperties DEF TypeOK
  <2>3. \A i \in 1 .. l : i \in DOMAIN file /\ file[i] \in Cell
    BY <2>2, ElementOfSeq
  <2>4. /\ f \in Seq(Cell) /\ Len(f) = l
        /\ \A i \in 1 .. l : f[i] = file[i]
    BY <2>1, <2>2, <2>3, SubSeqProperties
  <2>5. DOMAIN f = 1 .. l
    BY <2>4, LenProperties
  <2> QED
    BY <2>3, <2>4, <2>5
<1> QED
  BY <1>1, <1>2 DEF CrashImages

\* What replay may read at a place has its types.
LEMMA ReadTypes ==
  ASSUME TypeOK, NEW pos
  PROVE  /\ LengthsAt(pos) \subseteq Nat
         /\ \A n : DecodedAt(pos, n) \ {Nil} \subseteq Entries \cup {Garbage}
BY Lengths DEF LengthsAt, DecodedAt, PieceOf

LEMMA InitType == Init => TypeInv
<1> SUFFICES ASSUME Init PROVE TypeInv
  OBVIOUS
<1>1. <<>> \in Seq(Cell) /\ <<>> \in Seq(Entries) /\ <<>> \in Seq(Entries \cup {Garbage}) /\ Len(<<>>) = 0
  BY EmptySeq
<1> QED
  BY <1>1, StopsAssumption DEF Init, TypeInv, TypeOK, HandleOK, NoReplay

\* A step of the append in progress.
LEMMA WriteCellType == TypeInv /\ WriteCell => TypeInv'
<1> SUFFICES ASSUME TypeInv, WriteCell PROVE TypeInv'
  OBVIOUS
<1> USE DEF TypeInv, TypeOK, HandleOK, WriteCell, history
<1>1. /\ writing \in [entry : Entries, cells : 0 .. RecordLen, clean : BOOLEAN]
      /\ writing.cells + 1 \in 1 .. RecordLen
  BY Lengths, SMTT(30)
<1>2. Record(writing.entry)[writing.cells + 1] \in Cell
  BY <1>1, RecordCells
<1>3. file' \in Seq(Cell) /\ Len(file') = Len(file) + 1 /\ Len(file) \in Nat
  BY <1>2, AppendProperties, LenProperties
<1>4. writing' \in [entry : Entries, cells : 0 .. RecordLen, clean : BOOLEAN]
  <2>1. writing' = [writing EXCEPT !.cells = writing.cells + 1]
    OBVIOUS
  <2>2. writing.cells + 1 \in 0 .. RecordLen
    BY <1>1, Lengths
  <2> HIDE DEF WriteCell, TypeInv, TypeOK, HandleOK
  <2> QED
    BY <1>1, <2>1, <2>2
<1>5. replay' \in [status : {"none", "running", "ok", "err", "refused"},
                   pos : 0 .. Len(file'), entries : Seq(Entries \cup {Garbage})]
  BY <1>3
<1> QED
  BY <1>1, <1>3, <1>4, <1>5

LEMMA AckAppendType == TypeInv /\ AckAppend => TypeInv'
<1> SUFFICES ASSUME TypeInv, AckAppend PROVE TypeInv'
  OBVIOUS
<1> USE DEF TypeInv, TypeOK, HandleOK, AckAppend
<1>1. writing.entry \in Entries /\ log \in [entry_count : Nat]
  OBVIOUS
<1>2. acked' \in Seq(Entries) /\ held' \in Seq(Entries)
  BY <1>1, AppendProperties
<1>3. log' \in [entry_count : Nat] /\ writing' = Nil
  BY <1>1
<1>4. /\ file' = file /\ disk' = disk /\ replay' = replay /\ stops' = stops
      /\ appended' = appended /\ dropped' = dropped /\ gone' = gone /\ secured' = secured
  OBVIOUS
<1>5. replay = NoReplay
  OBVIOUS
<1>6. TypeOK'
  <2> HIDE DEF AckAppend, HandleOK
  <2> QED
    BY <1>2, <1>3, <1>4
<1>7. HandleOK'
  <2> HIDE DEF AckAppend, TypeOK
  <2> QED
    BY <1>3, <1>4, <1>5
<1> QED
  BY <1>6, <1>7

\* The steps that start a replay anew.
LEMMA ResetType ==
  ASSUME TypeInv,
         Create \/ (\E e \in Entries : BeginAppend(e)) \/ Truncate \/ Sync \/ BeginReplay \/ Crash
  PROVE  TypeInv'
<1> USE DEF TypeInv, TypeOK, HandleOK, history
<1>1. <<>> \in Seq(Cell) /\ <<>> \in Seq(Entries) /\ <<>> \in Seq(Entries \cup {Garbage}) /\ Len(<<>>) = 0
  BY EmptySeq
<1>2. Len(file) \in Nat /\ Len(disk) \in Nat
  BY LenProperties
<1>3. CASE Create
  BY <1>3 DEF Create
<1>4. ASSUME NEW e \in Entries, BeginAppend(e) PROVE TypeInv'
  <2>1. writing' \in [entry : Entries, cells : 0 .. RecordLen, clean : BOOLEAN]
    BY <1>4, Lengths DEF BeginAppend, Whole
  <2> QED
    BY <1>1, <1>2, <1>4, <2>1 DEF BeginAppend, Free, NoReplay
<1>5. CASE Truncate
  BY <1>1, <1>5 DEF Truncate, Free, NoReplay
<1>6. CASE Sync
  BY <1>1, <1>2, <1>6 DEF Sync, Free, NoReplay
<1>7. CASE BeginReplay
  <2>1. /\ log # Nil /\ writing = Nil
        /\ UNCHANGED <<file, disk, log, writing, stops, appended, acked, held, secured, dropped, gone>>
    BY <1>7 DEF BeginReplay, Free
  <2>2. replay' \in [status : {"none", "running", "ok", "err", "refused"},
                     pos : 0 .. Len(file), entries : Seq(Entries \cup {Garbage})]
    <3>1. replay' = [status |-> "running", pos |-> 0, entries |-> <<>>]
      BY <1>7 DEF BeginReplay, NoReplay
    <3> HIDE DEF TypeInv, TypeOK, HandleOK
    <3> QED
      BY <1>1, <1>2, <3>1
  <2> QED
    BY <2>1, <2>2
<1>8. CASE Crash
  BY <1>1, <1>2, <1>8, StopsAssumption DEF Crash, NoReplay
<1> QED
  BY <1>3, <1>4, <1>5, <1>6, <1>7, <1>8

LEMMA PowerFailureType == TypeInv /\ PowerFailure => TypeInv'
<1> SUFFICES ASSUME TypeInv, PowerFailure PROVE TypeInv'
  OBVIOUS
<1> USE DEF TypeInv, TypeOK, HandleOK
<1>1. file' \in Seq(Cell) /\ disk' \in Seq(Cell)
  BY ImageCells DEF PowerFailure
<1>2. Len(file') \in Nat
  BY <1>1, LenProperties
<1>3. replay' \in [status : {"none", "running", "ok", "err", "refused"},
                   pos : 0 .. Len(file'), entries : Seq(Entries \cup {Garbage})]
  BY <1>2, EmptySeq DEF PowerFailure, NoReplay
<1> QED
  BY <1>1, <1>3, StopsAssumption DEF PowerFailure

\* A replay reads a record.
LEMMA ReplayRecordType == TypeInv /\ ReplayRecord => TypeInv'
<1> SUFFICES ASSUME TypeInv, ReplayRecord PROVE TypeInv'
  OBVIOUS
<1>1. PICK n \in LengthsAt(replay.pos) :
        /\ n <= Unread - PrefixLen
        /\ \E e \in DecodedAt(replay.pos + PrefixLen, n) \ {Nil} :
             replay' = [replay EXCEPT !.pos = @ + PrefixLen + n, !.entries = Append(@, e)]
  BY DEF ReplayRecord
<1>2. PICK e \in DecodedAt(replay.pos + PrefixLen, n) \ {Nil} :
        replay' = [replay EXCEPT !.pos = @ + PrefixLen + n, !.entries = Append(@, e)]
  BY <1>1
<1>3. n \in Nat /\ e \in Entries \cup {Garbage}
  BY ReadTypes DEF TypeInv
<1>4. Len(file) \in Nat
  BY LenProperties DEF TypeInv, TypeOK
<1>5. replay.pos + PrefixLen + n \in 0 .. Len(file)
  BY <1>1, <1>3, <1>4, Lengths, SMTT(30) DEF TypeInv, TypeOK, Unread
<1>6. Append(replay.entries, e) \in Seq(Entries \cup {Garbage})
  BY <1>3, AppendProperties DEF TypeInv, TypeOK
<1>7. replay' \in [status : {"none", "running", "ok", "err", "refused"},
                   pos : 0 .. Len(file), entries : Seq(Entries \cup {Garbage})]
  BY <1>2, <1>5, <1>6 DEF TypeInv, TypeOK
<1>8. UNCHANGED <<file, disk, log, writing, stops, history>> /\ replay'.status = replay.status
  BY <1>2 DEF ReplayRecord, TypeInv, TypeOK
<1>9. log # Nil /\ writing = Nil
  BY DEF ReplayRecord, TypeInv, HandleOK, NoReplay
<1>10. TypeOK'
  BY <1>7, <1>8 DEF TypeInv, TypeOK, history
<1> QED
  BY <1>8, <1>9, <1>10 DEF TypeInv, HandleOK

LEMMA NextType == TypeInv /\ [Next]_vars => TypeInv'
<1> SUFFICES ASSUME TypeInv, [Next]_vars PROVE TypeInv'
  OBVIOUS
<1>1. CASE FailAppend
  BY <1>1 DEF FailAppend, TypeInv, TypeOK, HandleOK, history
<1>2. CASE ReplayEof \/ ReplayTorn \/ ReplayRefused
  <2>1. PICK s \in {"ok", "err", "refused"} : EndReplay(s) /\ replay.status = "running"
    BY <1>2 DEF ReplayEof, ReplayTorn, ReplayRefused
  <2> QED
    <3>1. /\ replay' = [replay EXCEPT !.status = s]
          /\ UNCHANGED <<file, disk, log, writing, stops, appended, acked, held, secured, dropped, gone>>
      BY <2>1 DEF EndReplay, history
    <3>2. /\ replay' \in [status : {"none", "running", "ok", "err", "refused"},
                          pos : 0 .. Len(file), entries : Seq(Entries \cup {Garbage})]
          /\ replay.status = "running" /\ replay # NoReplay
      <4>1. replay \in [status : {"none", "running", "ok", "err", "refused"},
                        pos : 0 .. Len(file), entries : Seq(Entries \cup {Garbage})]
        BY DEF TypeInv, TypeOK
      <4> QED
        BY <2>1, <3>1, <4>1 DEF NoReplay
    <3>3. TypeOK'
      BY <3>1, <3>2 DEF TypeInv, TypeOK
    <3>4. writing = Nil /\ log # Nil
      BY <3>2 DEF TypeInv, HandleOK
    <3> QED
      BY <3>1, <3>3, <3>4 DEF TypeInv, HandleOK
<1>3. CASE UNCHANGED vars
  BY <1>3 DEF TypeInv, TypeOK, HandleOK, vars, handle, history
<1> QED
  BY <1>1, <1>2, <1>3, WriteCellType, AckAppendType, ResetType, PowerFailureType, ReplayRecordType
     DEF Next

\* The state keeps its types, and a replay never reads past the end of the
\* file, whatever a torn record is read as (wal.rs WriteAheadLog).
THEOREM LogTypeCorrect == Spec => []TypeOK
<1>1. TypeInv => TypeOK
  BY DEF TypeInv
<1> QED
  BY <1>1, InitType, NextType, PTL DEF Spec

-----------------------------------------------------------------------------
(* What was truncated *)

\* No cell of f is of an entry in S.
FreeOf(f, S) == \A i \in DOMAIN f : f[i].entry \notin S

\* What is to go is not in the file, and what is gone is not on the disk.
GoneInv ==
  /\ dropped \subseteq appended /\ gone \subseteq appended
  /\ writing # Nil => writing.entry \notin dropped \cup gone
  /\ FreeOf(file, dropped \cup gone)
  /\ FreeOf(disk, gone)
  /\ \A i \in DOMAIN replay.entries : replay.entries[i] \notin gone

LEMMA InitGone == Init => GoneInv
BY DEF Init, GoneInv, FreeOf, NoReplay

\* What a reader of the file takes for an entry is Garbage, or the entry
\* whose encoding begins there.
LEMMA DecodedCell ==
  ASSUME TypeInv, NEW pos \in Nat, NEW n, NEW e \in DecodedAt(pos, n) \ {Nil}
  PROVE  \/ e = Garbage
         \/ /\ e \in Entries /\ pos + 1 \in DOMAIN file
            /\ file[pos + 1] = [entry |-> e, at |-> PrefixLen + 1]
<1>1. file \in Seq(Cell) /\ Len(file) \in Nat /\ DOMAIN file = 1 .. Len(file)
  BY LenProperties DEF TypeInv, TypeOK
<1>2. CASE e \in PieceOf(pos, PrefixLen + 1, RecordLen)
  <2>1. /\ e \in Entries
        /\ pos + RecordLen - (PrefixLen + 1) < Len(file)
        /\ SubSeq(file, pos + 1, pos + RecordLen - (PrefixLen + 1) + 1)
             = SubSeq(Record(e), PrefixLen + 1, RecordLen)
    BY <1>2 DEF PieceOf
  <2>2. pos + RecordLen - (PrefixLen + 1) + 1 = pos + DataLen
    BY Lengths DEF RecordLen
  <2>3. SubSeq(file, pos + 1, pos + DataLen)[1] = file[pos + 1] /\ pos + 1 \in DOMAIN file
    <3>1. pos + DataLen <= Len(file)
      BY <1>1, <2>1, <2>2, Lengths
    <3>2. \A i \in pos + 1 .. pos + DataLen : file[i] \in Cell
      BY <1>1, <3>1, Lengths, ElementOfSeq
    <3> QED
      BY <1>1, <3>1, <3>2, Lengths, SubSeqProperties
  <2>4. SubSeq(Record(e), PrefixLen + 1, RecordLen)[1] = Record(e)[PrefixLen + 1]
    <3>1. ASSUME NEW i \in PrefixLen + 1 .. RecordLen PROVE Record(e)[i] \in Cell
      <4>1. i \in 1 .. RecordLen
        BY Lengths
      <4> QED
        BY <2>1, <4>1, RecordCells
    <3> QED
      BY <3>1, Lengths, SubSeqProperties
  <2>5. Record(e)[PrefixLen + 1] = [entry |-> e, at |-> PrefixLen + 1]
    <3>1. PrefixLen + 1 \in 1 .. RecordLen
      BY Lengths
    <3> QED
      BY <2>1, <3>1, RecordCells
  <2> QED
    BY <2>1, <2>2, <2>3, <2>4, <2>5
<1> QED
  BY <1>2 DEF DecodedAt

\* So it is nothing that is gone.
LEMMA DecodedFromFile ==
  ASSUME TypeInv, GoneInv, NEW pos \in Nat, NEW n, NEW e \in DecodedAt(pos, n) \ {Nil}
  PROVE  e \notin gone
<1>1. CASE e = Garbage
  BY <1>1, DistinctAssumption DEF TypeInv, TypeOK
<1>2. CASE pos + 1 \in DOMAIN file /\ file[pos + 1] = [entry |-> e, at |-> PrefixLen + 1]
  <2>1. file[pos + 1].entry = e
    BY <1>2
  <2> QED
    BY <1>2, <2>1 DEF GoneInv, FreeOf
<1> QED
  BY <1>1, <1>2, DecodedCell

LEMMA NextGone == TypeInv /\ GoneInv /\ [Next]_vars => GoneInv'
<1> SUFFICES ASSUME TypeInv, GoneInv, [Next]_vars PROVE GoneInv'
  OBVIOUS
<1>1. CASE Create \/ FailAppend \/ AckAppend \/ BeginReplay \/ Crash
  BY <1>1 DEF Create, FailAppend, AckAppend, BeginReplay, Crash, NoReplay, GoneInv, FreeOf, history
<1>2. ASSUME NEW e \in Entries, BeginAppend(e) PROVE GoneInv'
  BY <1>2 DEF BeginAppend, GoneInv, FreeOf, NoReplay
<1>3. CASE WriteCell
  <2>1. /\ writing.entry \in Entries /\ writing.entry \notin dropped \cup gone
        /\ writing.cells + 1 \in 1 .. RecordLen
    BY <1>3, Lengths, SMTT(30) DEF WriteCell, TypeInv, TypeOK, GoneInv
  <2>2. /\ file' = Append(file, Record(writing.entry)[writing.cells + 1])
        /\ writing' = [writing EXCEPT !.cells = writing.cells + 1]
        /\ UNCHANGED <<disk, replay, appended, dropped, gone>>
    BY <1>3 DEF WriteCell, history
  <2>3. Record(writing.entry)[writing.cells + 1] \in Cell
        /\ Record(writing.entry)[writing.cells + 1].entry = writing.entry
    <3>1. /\ Record(writing.entry)[writing.cells + 1] \in Cell
          /\ Record(writing.entry)[writing.cells + 1]
               = [entry |-> writing.entry, at |-> writing.cells + 1]
      BY <2>1, RecordCells
    <3> QED
      BY <3>1
  <2>4. FreeOf(file', dropped \cup gone)
    <3>1. file \in Seq(Cell) /\ Len(file) \in Nat /\ DOMAIN file = 1 .. Len(file)
      BY LenProperties DEF TypeInv, TypeOK
    <3>2. /\ file' \in Seq(Cell) /\ Len(file') = Len(file) + 1
          /\ \A i \in 1 .. Len(file) : file'[i] = file[i]
          /\ file'[Len(file) + 1].entry = writing.entry
      BY <2>2, <2>3, <3>1, AppendProperties
    <3>3. DOMAIN file' = 1 .. Len(file) + 1
      BY <3>2, LenProperties
    <3> QED
      BY <2>1, <3>1, <3>2, <3>3 DEF GoneInv, FreeOf
  <2>5. writing'.entry = writing.entry
    BY <2>2 DEF WriteCell, TypeInv, TypeOK
  <2> QED
    BY <2>1, <2>2, <2>4, <2>5 DEF GoneInv
<1>4. CASE Truncate
  BY <1>4 DEF Truncate, Free, GoneInv, FreeOf, NoReplay
<1>5. CASE Sync
  BY <1>5 DEF Sync, Free, GoneInv, FreeOf, NoReplay
<1>6. CASE PowerFailure
  <2>1. PICK f \in CrashImages : file' = f /\ disk' = f
    BY <1>6 DEF PowerFailure
  <2>2. FreeOf(f, gone)
    <3>1. ASSUME NEW i \in DOMAIN f PROVE f[i].entry \notin gone
      BY ImageCells DEF GoneInv, FreeOf, TypeInv
    <3> QED
      BY <3>1 DEF FreeOf
  <2> QED
    BY <1>6, <2>1, <2>2 DEF PowerFailure, GoneInv, FreeOf, NoReplay
<1>7. CASE ReplayEof \/ ReplayTorn \/ ReplayRefused
  <2>1. PICK s \in {"ok", "err", "refused"} : EndReplay(s)
    BY <1>7 DEF ReplayEof, ReplayTorn, ReplayRefused
  <2>2. replay'.entries = replay.entries
    BY <2>1 DEF EndReplay, TypeInv, TypeOK
  <2> QED
    BY <2>1, <2>2 DEF EndReplay, GoneInv, FreeOf, history
<1>8. CASE ReplayRecord
  <2>6. PICK n : \E e \in DecodedAt(replay.pos + PrefixLen, n) \ {Nil} :
          replay' = [replay EXCEPT !.pos = @ + PrefixLen + n, !.entries = Append(@, e)]
    BY <1>8 DEF ReplayRecord
  <2>1. PICK e \in DecodedAt(replay.pos + PrefixLen, n) \ {Nil} :
          replay' = [replay EXCEPT !.pos = @ + PrefixLen + n, !.entries = Append(@, e)]
    BY <2>6
  <2>2. replay.pos + PrefixLen \in Nat
    BY Lengths DEF TypeInv, TypeOK
  <2>3. e \notin gone /\ e \in Entries \cup {Garbage}
    BY <2>1, <2>2, DecodedFromFile, ReadTypes DEF TypeInv
  <2>4. replay.entries \in Seq(Entries \cup {Garbage}) /\ replay'.entries = Append(replay.entries, e)
    BY <2>1 DEF TypeInv, TypeOK
  <2>5. \A i \in DOMAIN replay'.entries : replay'.entries[i] \notin gone
    <3>1. /\ Len(replay.entries) \in Nat /\ DOMAIN replay.entries = 1 .. Len(replay.entries)
          /\ replay'.entries \in Seq(Entries \cup {Garbage})
          /\ Len(replay'.entries) = Len(replay.entries) + 1
          /\ \A i \in 1 .. Len(replay.entries) : replay'.entries[i] = replay.entries[i]
          /\ replay'.entries[Len(replay.entries) + 1] = e
      BY <2>3, <2>4, AppendProperties, LenProperties
    <3>2. DOMAIN replay'.entries = 1 .. Len(replay.entries) + 1
      BY <3>1, LenProperties
    <3> QED
      BY <2>3, <3>1, <3>2 DEF GoneInv
  <2> QED
    BY <1>8, <2>5 DEF ReplayRecord, GoneInv, FreeOf, history
<1>9. CASE UNCHANGED vars
  BY <1>9 DEF GoneInv, FreeOf, vars, handle, history
<1> QED
  BY <1>1, <1>2, <1>3, <1>4, <1>5, <1>6, <1>7, <1>8, <1>9 DEF Next

\* What was truncated away, with a sync after it, is in no later replay, in
\* whatever order appends, syncs, crashes and power failures follow (wal.rs
\* truncate, sync, replay).
THEOREM TruncatedNeverReturns == Spec => []TruncatedStaysGone
<1>1. TypeInv /\ GoneInv => TruncatedStaysGone
  BY DEF GoneInv, TruncatedStaysGone, Range
<1> QED
  BY <1>1, InitType, NextType, InitGone, NextGone, PTL DEF Spec

-----------------------------------------------------------------------------
(* A file without torn records *)

LEMMA Places ==
  ASSUME NEW k \in Nat, NEW n \in Nat
  PROVE  /\ k * RecordLen \in Nat
         /\ (k + 1) * RecordLen = k * RecordLen + RecordLen
         /\ k < n => (k + 1) * RecordLen <= n * RecordLen
         /\ n * RecordLen = k * RecordLen => n = k
BY Lengths

\* IntactRecords chooses what its comment says.
LEMMA IntactRecordsFound ==
  ASSUME NEW f \in Seq(Cell)
  PROVE  /\ IntactRecords(f) \in Nat
         /\ \A i \in 1 .. IntactRecords(f) : WholeRecord(f, i)
         /\ IntactRecords(f) <= Len(f) \div RecordLen
         /\ IntactRecords(f) + 1 <= Len(f) \div RecordLen => ~WholeRecord(f, IntactRecords(f) + 1)
<1> DEFINE most == Len(f) \div RecordLen
           stop == {m \in Nat : m + 1 <= most => ~WholeRecord(f, m + 1)}
<1>1. most \in Nat
  BY Lengths, LenProperties
<1>2. most \in stop
  BY <1>1
<1>3. PICK m \in stop : \A y \in stop : <<y, m>> \notin OpToRel(<, Nat)
  BY <1>2, NatLessThanWellFounded, WFMin
<1>4. \A y \in Nat : y < m => y \notin stop
  BY <1>3 DEF OpToRel
<1>5. m \in 0 .. most
  <2>1. m \in Nat /\ ~(most < m)
    BY <1>1, <1>2, <1>4
  <2> HIDE DEF most, stop
  <2> QED
    BY <1>1, <2>1
<1>6. ASSUME NEW i \in 1 .. m PROVE WholeRecord(f, i)
  <2>1. i - 1 \in Nat /\ i - 1 < m /\ (i - 1) + 1 = i
    BY <1>5
  <2> QED
    BY <1>4, <2>1
<1>7. m + 1 <= most => ~WholeRecord(f, m + 1)
  BY <1>3
<1> DEFINE P(n) == /\ \A i \in 1 .. n : WholeRecord(f, i)
                   /\ n + 1 <= most => ~WholeRecord(f, n + 1)
<1>8. IntactRecords(f) = CHOOSE n \in 0 .. most : P(n)
  BY DEF IntactRecords
<1>9. \E n \in 0 .. most : P(n)
  BY <1>5, <1>6, <1>7
<1> HIDE DEF P
<1>10. IntactRecords(f) \in 0 .. most /\ P(IntactRecords(f))
  BY <1>8, <1>9
<1> QED
  BY <1>1, <1>10 DEF P

\* They fit in the file, and no more whole records follow them.
LEMMA IntactRecordsMost ==
  ASSUME NEW f \in Seq(Cell)
  PROVE  /\ IntactRecords(f) * RecordLen <= Len(f)
         /\ \A m \in Nat :
              m * RecordLen <= Len(f) /\ (\A i \in 1 .. m : WholeRecord(f, i))
                => m <= IntactRecords(f)
<1> DEFINE n == IntactRecords(f)
           most == Len(f) \div RecordLen
<1>1. n \in Nat /\ n <= most /\ (n + 1 <= most => ~WholeRecord(f, n + 1))
  BY IntactRecordsFound
<1>2. Len(f) \in Nat /\ RecordLen \in Nat /\ RecordLen > 0
  BY LenProperties, Lengths
<1>3. /\ most \in Nat /\ most * RecordLen <= Len(f)
      /\ \A m \in Nat : m * RecordLen <= Len(f) => m <= most
  <2> DEFINE len == Len(f)
  <2> SUFFICES /\ len \div RecordLen \in Nat /\ (len \div RecordLen) * RecordLen <= len
               /\ \A m \in Nat : m * RecordLen <= len => m <= len \div RecordLen
    OBVIOUS
  <2>1. len \in Nat
    BY <1>2
  <2> HIDE DEF len
  <2> QED
    BY <1>2, <2>1
<1>4. n * RecordLen <= most * RecordLen
  <2>1. n < most => (n + 1) * RecordLen <= most * RecordLen
    BY <1>1, <1>3, Places
  <2>2. (n + 1) * RecordLen = n * RecordLen + RecordLen /\ n * RecordLen \in Nat /\ most * RecordLen \in Nat
    BY <1>1, <1>3, Places
  <2> HIDE DEF n, most
  <2> QED
    BY <1>1, <1>2, <1>3, <2>1, <2>2
<1>5. n * RecordLen <= Len(f)
  <2> DEFINE a == n * RecordLen
             b == most * RecordLen
             c == Len(f)
  <2>1. a \in Nat /\ b \in Nat /\ c \in Nat /\ a <= b /\ b <= c
    BY <1>1, <1>2, <1>3, <1>4, Places
  <2> HIDE DEF a, b, c
  <2>2. a <= c
    BY <2>1
  <2> QED
    BY <2>2 DEF a, c
<1>6. ASSUME NEW m \in Nat, m * RecordLen <= Len(f), \A i \in 1 .. m : WholeRecord(f, i)
      PROVE  m <= n
  <2>1. m <= most
    BY <1>3, <1>6
  <2>2. n < m => n + 1 \in 1 .. m /\ n + 1 <= most
    <3> HIDE DEF n, most
    <3> QED
      BY <1>1, <1>3, <2>1
  <2>3. ~(n < m)
    BY <1>1, <1>6, <2>2
  <2> HIDE DEF n
  <2> QED
    BY <1>1, <2>3
<1> QED
  BY <1>5, <1>6

\* The cells of the k+1-st of the records a file begins with.
LEMMA WholeCells ==
  ASSUME NEW f \in Seq(Cell), NEW k \in Nat, k < IntactRecords(f)
  PROVE  /\ k * RecordLen + RecordLen <= Len(f)
         /\ \E e \in Entries : \A j \in 1 .. RecordLen :
              f[k * RecordLen + j] = [entry |-> e, at |-> j]
<1> DEFINE n == IntactRecords(f)
<1>1. n \in Nat /\ WholeRecord(f, k + 1) /\ n * RecordLen <= Len(f)
  BY IntactRecordsFound, IntactRecordsMost
<1>2. /\ k * RecordLen \in Nat
      /\ (k + 1) * RecordLen = k * RecordLen + RecordLen
      /\ k * RecordLen + RecordLen <= Len(f)
  <2> DEFINE a == (k + 1) * RecordLen
             b == n * RecordLen
             c == Len(f)
  <2>1. /\ k * RecordLen \in Nat /\ a = k * RecordLen + RecordLen
        /\ a \in Nat /\ b \in Nat /\ c \in Nat /\ a <= b /\ b <= c
    BY <1>1, Places, Lengths, LenProperties
  <2> HIDE DEF b, c
  <2>2. a <= c
    <3> HIDE DEF a
    <3> QED
      BY <2>1
  <2> QED
    BY <2>1, <2>2 DEF c
<1>3. PICK e \in Entries :
        SubSeq(f, k * RecordLen + 1, k * RecordLen + RecordLen) = Record(e)
  <2> DEFINE last == k + 1
  <2>1. last - 1 = k
    OBVIOUS
  <2>2. WholeRecord(f, last)
    BY <1>1
  <2> HIDE DEF last, n
  <2>3. PICK e \in Entries :
          SubSeq(f, (last - 1) * RecordLen + 1, last * RecordLen) = Record(e)
    BY <2>2 DEF WholeRecord
  <2> QED
    BY <1>2, <2>1, <2>3 DEF last
<1>4. ASSUME NEW j \in 1 .. RecordLen
      PROVE  f[k * RecordLen + j] = [entry |-> e, at |-> j]
  <2>1. \A i \in k * RecordLen + 1 .. k * RecordLen + RecordLen : f[i] \in Cell
    BY <1>2, Lengths, ElementOfSeq, LenProperties
  <2>2. Record(e)[j] = f[k * RecordLen + j]
    <3> DEFINE p == k * RecordLen
    <3>1. p \in Nat /\ RecordLen \in Nat
      BY <1>2, Lengths
    <3> HIDE DEF p
    <3>2. \A i \in p + 1 .. p + RecordLen : f[i] \in Cell
      BY <2>1 DEF p
    <3>3. SubSeq(f, p + 1, p + RecordLen)[j] = f[p + j]
      <4>1. /\ p + 1 \in Int /\ p + RecordLen \in Int
            /\ (p + RecordLen) - (p + 1) + 1 = RecordLen
            /\ (p + 1) + j - 1 = p + j
        BY <3>1
      <4>2. \A i \in 1 .. (p + RecordLen) - (p + 1) + 1 :
              SubSeq(f, p + 1, p + RecordLen)[i] = f[(p + 1) + i - 1]
        BY <3>2, <4>1, SubSeqProperties
      <4> QED
        BY <4>1, <4>2
    <3> QED
      BY <1>3, <3>3 DEF p
  <2>3. Record(e)[j] = [entry |-> e, at |-> j]
    BY RecordCells
  <2> QED
    BY <2>2, <2>3
<1> QED
  BY <1>2, <1>4

\* What replay reads at such a record: its length, then its entry.
LEMMA WholeRead ==
  ASSUME TypeInv, NEW p \in Nat, p + RecordLen <= Len(file), NEW e \in Entries,
         \A j \in 1 .. RecordLen : file[p + j] = [entry |-> e, at |-> j]
  PROVE  /\ LengthsAt(p) = {DataLen}
         /\ DecodedAt(p + PrefixLen, DataLen) = {e}
<1>1. file \in Seq(Cell) /\ Len(file) \in Nat
  BY LenProperties DEF TypeInv, TypeOK
<1>2. ASSUME NEW from \in 1 .. RecordLen, NEW to \in from .. RecordLen
      PROVE  /\ SubSeq(file, p + from, p + to) = SubSeq(Record(e), from, to)
             /\ SubSeq(file, p + from, p + to)[1] = file[p + from]
  <2>1. \A i \in p + from .. p + to : file[i] \in Cell
    BY <1>1, Lengths, ElementOfSeq
  <2>2. ASSUME NEW i \in from .. to
        PROVE  Record(e)[i] \in Cell /\ Record(e)[i] = file[p + i]
    <3>1. i \in 1 .. RecordLen
      BY Lengths
    <3> QED
      BY <3>1, RecordCells
  <2>3. /\ SubSeq(file, p + from, p + to) \in Seq(Cell)
        /\ Len(SubSeq(file, p + from, p + to)) = to - from + 1
        /\ \A i \in 1 .. to - from + 1 : SubSeq(file, p + from, p + to)[i] = file[p + from + i - 1]
    <3>1. p + from \in Int /\ p + to \in Int /\ p + from <= p + to /\ (p + to) - (p + from) + 1 = to - from + 1
      BY Lengths
    <3> QED
      BY <2>1, <3>1, SubSeqProperties
  <2>4. /\ SubSeq(Record(e), from, to) \in Seq(Cell)
        /\ Len(SubSeq(Record(e), from, to)) = to - from + 1
        /\ \A i \in 1 .. to - from + 1 : SubSeq(Record(e), from, to)[i] = Record(e)[from + i - 1]
    BY <2>2, Lengths, SubSeqProperties
  <2>5. ASSUME NEW i \in 1 .. to - from + 1
        PROVE  SubSeq(file, p + from, p + to)[i] = SubSeq(Record(e), from, to)[i]
    <3>1. from + i - 1 \in from .. to /\ p + from + i - 1 = p + (from + i - 1)
      BY Lengths
    <3> QED
      BY <2>2, <2>3, <2>4, <3>1
  <2>6. SubSeq(file, p + from, p + to) = SubSeq(Record(e), from, to)
    BY <2>3, <2>4, <2>5, SeqEqual
  <2> QED
    BY <2>3, <2>6, Lengths
<1>3. e \in PieceOf(p, 1, PrefixLen)
  <2>1. 1 \in 1 .. RecordLen /\ PrefixLen \in 1 .. RecordLen
    BY Lengths
  <2>2. SubSeq(file, p + 1, p + PrefixLen) = SubSeq(Record(e), 1, PrefixLen)
    BY <1>2, <2>1
  <2>3. p + PrefixLen - 1 + 1 = p + PrefixLen /\ p + PrefixLen - 1 < Len(file)
    BY <1>1, Lengths
  <2> QED
    BY <2>2, <2>3 DEF PieceOf
<1>4. PieceOf(p + PrefixLen, PrefixLen + 1, RecordLen) = {e}
  <2>1. PrefixLen + 1 \in 1 .. RecordLen /\ RecordLen \in PrefixLen + 1 .. RecordLen
    BY Lengths
  <2>2. /\ SubSeq(file, p + (PrefixLen + 1), p + RecordLen) = SubSeq(Record(e), PrefixLen + 1, RecordLen)
        /\ SubSeq(file, p + (PrefixLen + 1), p + RecordLen)[1] = file[p + (PrefixLen + 1)]
    BY <1>2, <2>1
  <2>3. /\ (p + PrefixLen) + RecordLen - (PrefixLen + 1) + 1 = p + RecordLen
        /\ (p + PrefixLen) + RecordLen - (PrefixLen + 1) < Len(file)
        /\ (p + PrefixLen) + 1 = p + (PrefixLen + 1)
    BY <1>1, Lengths
  <2>4. e \in PieceOf(p + PrefixLen, PrefixLen + 1, RecordLen)
    BY <2>2, <2>3 DEF PieceOf
  <2>5. ASSUME NEW d \in PieceOf(p + PrefixLen, PrefixLen + 1, RecordLen) PROVE d = e
    <3>1. d \in Entries /\ SubSeq(file, p + (PrefixLen + 1), p + RecordLen) = SubSeq(Record(d), PrefixLen + 1, RecordLen)
      BY <2>3 DEF PieceOf
    <3>2. ASSUME NEW i \in PrefixLen + 1 .. RecordLen PROVE Record(d)[i] \in Cell
      <4>1. i \in 1 .. RecordLen
        BY Lengths
      <4> QED
        BY <3>1, <4>1, RecordCells
    <3>3. SubSeq(Record(d), PrefixLen + 1, RecordLen)[1] = Record(d)[PrefixLen + 1]
      BY <3>2, Lengths, SubSeqProperties
    <3>4. Record(d)[PrefixLen + 1] = [entry |-> d, at |-> PrefixLen + 1]
      BY <2>1, <3>1, RecordCells
    <3>5. file[p + (PrefixLen + 1)] = [entry |-> e, at |-> PrefixLen + 1]
      BY <2>1
    <3> QED
      <4>1. [entry |-> d, at |-> PrefixLen + 1] = [entry |-> e, at |-> PrefixLen + 1]
        BY <2>2, <3>1, <3>3, <3>4, <3>5
      <4>2. [entry |-> d, at |-> PrefixLen + 1].entry = [entry |-> e, at |-> PrefixLen + 1].entry
        BY <4>1
      <4> QED
        BY <4>2
  <2> QED
    BY <2>4, <2>5
<1> QED
  BY <1>3, <1>4 DEF LengthsAt, DecodedAt

\* So each of the records a file begins with is read as what it is.
LEMMA RecordRead ==
  ASSUME TypeInv, NEW k \in Nat, k < IntactRecords(file)
  PROVE  /\ k * RecordLen + RecordLen <= Len(file)
         /\ \E e \in Entries :
              /\ LengthsAt(k * RecordLen) = {DataLen}
              /\ DecodedAt(k * RecordLen + PrefixLen, DataLen) = {e}
              /\ file[k * RecordLen + RecordLen].entry = e
<1>1. file \in Seq(Cell) /\ k * RecordLen \in Nat
  BY Places DEF TypeInv, TypeOK
<1>2. k * RecordLen + RecordLen <= Len(file)
  BY <1>1, WholeCells
<1>3. PICK e \in Entries : \A j \in 1 .. RecordLen :
        file[k * RecordLen + j] = [entry |-> e, at |-> j]
  BY <1>1, WholeCells
<1>4. LengthsAt(k * RecordLen) = {DataLen} /\ DecodedAt(k * RecordLen + PrefixLen, DataLen) = {e}
  BY <1>1, <1>2, <1>3, WholeRead
<1>5. file[k * RecordLen + RecordLen].entry = e
  <2>1. RecordLen \in 1 .. RecordLen
    BY Lengths
  <2>2. file[k * RecordLen + RecordLen] = [entry |-> e, at |-> RecordLen]
    BY <1>3, <2>1
  <2> QED
    BY <2>2
<1> QED
  BY <1>2, <1>4, <1>5

\* A replay of a file without torn records has handed over the records up to its place, and
\* has met no error.
ReadInv ==
  replay.status \in {"running", "ok", "err"} /\ Whole(file) =>
    /\ replay.status # "err"
    /\ Len(replay.entries) <= IntactRecords(file)
    /\ replay.pos = Len(replay.entries) * RecordLen
    /\ \A i \in 1 .. Len(replay.entries) : replay.entries[i] = file[i * RecordLen].entry
    /\ replay.status = "ok" => Len(replay.entries) = IntactRecords(file)

\* Where a running replay of such a file stands.
LEMMA ReadPlace ==
  ASSUME TypeInv, ReadInv, replay.status = "running", Whole(file)
  PROVE  /\ file \in Seq(Cell) /\ replay.entries \in Seq(Entries \cup {Garbage})
         /\ Len(replay.entries) \in Nat /\ IntactRecords(file) \in Nat /\ Len(file) \in Nat
         /\ Len(replay.entries) <= IntactRecords(file)
         /\ replay.pos = Len(replay.entries) * RecordLen
         /\ Len(file) = IntactRecords(file) * RecordLen
         /\ replay.pos \in Nat
<1>1. file \in Seq(Cell) /\ replay.entries \in Seq(Entries \cup {Garbage}) /\ replay.pos \in Nat
  BY DEF TypeInv, TypeOK
<1>2. Len(replay.entries) \in Nat /\ IntactRecords(file) \in Nat /\ Len(file) \in Nat
  BY <1>1, LenProperties, IntactRecordsFound
<1> QED
  BY <1>1, <1>2 DEF ReadInv, Whole

\* If more than a prefix is left, the next record is read as what it is.
LEMMA ReadNext ==
  ASSUME TypeInv, ReadInv, replay.status = "running", Whole(file), Unread >= PrefixLen
  PROVE  /\ Len(replay.entries) < IntactRecords(file)
         /\ replay.pos + RecordLen <= Len(file)
         /\ \E e \in Entries :
              /\ LengthsAt(replay.pos) = {DataLen}
              /\ DecodedAt(replay.pos + PrefixLen, DataLen) = {e}
              /\ file[replay.pos + RecordLen].entry = e
<1> DEFINE k == Len(replay.entries)
<1>1. /\ k \in Nat /\ k <= IntactRecords(file) /\ replay.pos = k * RecordLen /\ replay.pos \in Nat
      /\ Len(file) = IntactRecords(file) * RecordLen /\ file \in Seq(Cell)
      /\ IntactRecords(file) \in Nat
  BY ReadPlace
<1>2. k < IntactRecords(file)
  <2>1. k # IntactRecords(file)
    BY <1>1, Lengths DEF Unread
  <2> QED
    BY <1>1, <2>1
<1> QED
  BY <1>1, <1>2, RecordRead

LEMMA ReadRecordStep == TypeInv /\ ReadInv /\ ReplayRecord => ReadInv'
<1> SUFFICES ASSUME TypeInv, ReadInv, ReplayRecord PROVE ReadInv'
  OBVIOUS
<1>1. /\ file' = file /\ replay.status = "running" /\ Unread >= PrefixLen
  BY DEF ReplayRecord
<1>2. CASE ~Whole(file)
  <2>1. ~Whole(file)'
    BY <1>1, <1>2 DEF Whole, IntactRecords, WholeRecord
  <2> QED
    BY <2>1 DEF ReadInv
<1>3. CASE Whole(file)
  <2>1. PICK e \in Entries :
          /\ LengthsAt(replay.pos) = {DataLen}
          /\ DecodedAt(replay.pos + PrefixLen, DataLen) = {e}
          /\ file[replay.pos + RecordLen].entry = e
    BY <1>1, <1>3, ReadNext
  <2>2. replay' = [replay EXCEPT !.pos = replay.pos + PrefixLen + DataLen,
                                 !.entries = Append(replay.entries, e)]
    <3>1. PICK n \in LengthsAt(replay.pos) :
            \E d \in DecodedAt(replay.pos + PrefixLen, n) \ {Nil} :
              replay' = [replay EXCEPT !.pos = @ + PrefixLen + n, !.entries = Append(@, d)]
      BY DEF ReplayRecord
    <3>2. n = DataLen
      BY <2>1, <3>1
    <3> QED
      BY <2>1, <3>1, <3>2
  <2> DEFINE k == Len(replay.entries)
  <2>3. /\ k \in Nat /\ k < IntactRecords(file) /\ IntactRecords(file) \in Nat
        /\ replay.pos = k * RecordLen /\ replay.pos \in Nat
        /\ replay.entries \in Seq(Entries \cup {Garbage})
    BY <1>1, <1>3, ReadPlace, ReadNext
  <2>4. /\ replay'.status = "running" /\ replay'.pos = replay.pos + RecordLen
        /\ replay'.entries = Append(replay.entries, e)
    <3>1. /\ replay'.status = "running" /\ replay'.pos = replay.pos + PrefixLen + DataLen
          /\ replay'.entries = Append(replay.entries, e)
      BY <1>1, <2>2 DEF TypeInv, TypeOK
    <3>2. replay.pos + PrefixLen + DataLen = replay.pos + RecordLen
      <4>1. replay.pos \in Nat
        BY <2>3
      <4> QED
        BY <4>1, Lengths DEF RecordLen
    <3> QED
      BY <3>1, <3>2
  <2>5. /\ Len(replay'.entries) = k + 1
        /\ \A i \in 1 .. k : replay'.entries[i] = replay.entries[i]
        /\ replay'.entries[k + 1] = e
    BY <2>3, <2>4, AppendProperties
  <2>6. replay'.pos = (k + 1) * RecordLen
    BY <2>3, <2>4, Places
  <2>7. ASSUME NEW i \in 1 .. k + 1 PROVE replay'.entries[i] = file[i * RecordLen].entry
    <3>1. CASE i = k + 1
      <4>1. (k + 1) * RecordLen = replay.pos + RecordLen
        BY <2>4, <2>6
      <4> QED
        BY <2>1, <2>5, <3>1, <4>1
    <3>2. CASE i \in 1 .. k
      <4>1. replay.entries[i] = file[i * RecordLen].entry
        BY <1>1, <1>3, <3>2 DEF ReadInv
      <4> QED
        BY <2>5, <3>2, <4>1
    <3> QED
      BY <2>3, <3>1, <3>2
  <2>8. IntactRecords(file)' = IntactRecords(file)
    BY <1>1 DEF IntactRecords, WholeRecord
  <2>9. k + 1 <= IntactRecords(file)
    BY <2>3
  <2> QED
    BY <1>1, <2>4, <2>5, <2>6, <2>7, <2>8, <2>9 DEF ReadInv
<1> QED
  BY <1>2, <1>3

LEMMA ReadEndStep ==
  ASSUME TypeInv, ReadInv, ReplayEof \/ ReplayTorn \/ ReplayRefused
  PROVE  ReadInv'
<1>1. /\ file' = file /\ replay.status = "running"
      /\ replay'.entries = replay.entries /\ replay'.pos = replay.pos
  BY DEF ReplayEof, ReplayTorn, ReplayRefused, EndReplay, TypeInv, TypeOK
<1>2. Whole(file)' = Whole(file) /\ IntactRecords(file)' = IntactRecords(file)
  BY <1>1 DEF Whole, IntactRecords, WholeRecord
<1>3. CASE ReplayRefused
  <2>1. replay'.status = "refused"
    BY <1>3 DEF ReplayRefused, EndReplay, TypeInv, TypeOK
  <2> QED
    BY <2>1 DEF ReadInv
<1>4. CASE ReplayEof
  <2> SUFFICES ASSUME Whole(file) PROVE ReadInv'
    BY <1>2 DEF ReadInv
  <2>1. replay'.status = "ok" /\ Unread < PrefixLen
    BY <1>4 DEF ReplayEof, EndReplay, TypeInv, TypeOK
  <2>2. Len(replay.entries) = IntactRecords(file)
    <3> DEFINE k == Len(replay.entries)
               n == IntactRecords(file)
    <3>1. k \in Nat /\ n \in Nat /\ k <= n /\ replay.pos = k * RecordLen /\ Len(file) = n * RecordLen
      BY <1>1, ReadPlace
    <3>2. n * RecordLen - k * RecordLen < PrefixLen
      BY <2>1, <3>1 DEF Unread
    <3>3. k * RecordLen \in Nat /\ n * RecordLen \in Nat
          /\ (k < n => k * RecordLen + RecordLen <= n * RecordLen)
      <4> HIDE DEF k, n
      <4>1. /\ k * RecordLen \in Nat /\ n * RecordLen \in Nat
            /\ (k + 1) * RecordLen = k * RecordLen + RecordLen
            /\ k < n => (k + 1) * RecordLen <= n * RecordLen
        BY <3>1, Places
      <4> QED
        BY <4>1
    <3> HIDE DEF k, n
    <3>4. ~(k < n)
      BY <3>2, <3>3, Lengths
    <3>5. k = n
      BY <3>1, <3>4
    <3> QED
      BY <3>5 DEF k, n
  <2> QED
    BY <1>1, <1>2, <2>1, <2>2 DEF ReadInv
<1>5. CASE ReplayTorn
  <2> SUFFICES ASSUME Whole(file) PROVE FALSE
    BY <1>2 DEF ReadInv
  <2>1. Unread >= PrefixLen
    BY <1>5 DEF ReplayTorn
  <2>2. PICK e \in Entries :
          LengthsAt(replay.pos) = {DataLen} /\ DecodedAt(replay.pos + PrefixLen, DataLen) = {e}
    BY <1>1, <2>1, ReadNext
  <2>3. ~(DataLen > Unread - PrefixLen)
    <3>1. replay.pos + RecordLen <= Len(file) /\ replay.pos \in Nat /\ Len(file) \in Nat
      BY <1>1, <2>1, ReadPlace, ReadNext
    <3>2. RecordLen = PrefixLen + DataLen
      BY DEF RecordLen
    <3> QED
      BY <3>1, <3>2, Lengths DEF Unread
  <2>4. Nil \notin {e}
    BY DistinctAssumption
  <2> QED
    BY <1>5, <2>2, <2>3, <2>4 DEF ReplayTorn
<1> QED
  BY <1>3, <1>4, <1>5

LEMMA InitRead == Init => ReadInv
BY DEF Init, ReadInv, NoReplay

LEMMA NextRead == TypeInv /\ ReadInv /\ [Next]_vars => ReadInv'
<1> SUFFICES ASSUME TypeInv, ReadInv, [Next]_vars PROVE ReadInv'
  OBVIOUS
<1>1. ASSUME replay'.status \notin {"running", "ok", "err"} PROVE ReadInv'
  BY <1>1 DEF ReadInv
<1>2. CASE \/ (\E e \in Entries : BeginAppend(e)) \/ Truncate \/ Sync \/ Crash \/ PowerFailure
  <2>1. replay'.status = "none"
    BY <1>2 DEF BeginAppend, Truncate, Sync, Crash, PowerFailure, NoReplay
  <2> QED
    BY <1>1, <2>1
<1>3. CASE Create \/ WriteCell \/ FailAppend \/ AckAppend
  <2>1. replay' = NoReplay
    BY <1>3 DEF Create, WriteCell, FailAppend, AckAppend, TypeInv, HandleOK
  <2> QED
    BY <1>1, <2>1 DEF NoReplay
<1>4. CASE BeginReplay
  <2>1. replay' = [status |-> "running", pos |-> 0, entries |-> <<>>]
    BY <1>4 DEF BeginReplay, NoReplay
  <2>2. Len(<<>>) = 0 /\ 0 * RecordLen = 0
    BY Lengths, EmptySeq
  <2>3. IntactRecords(file)' \in Nat
    <3>1. file' = file /\ file \in Seq(Cell)
      BY <1>4 DEF BeginReplay, TypeInv, TypeOK
    <3>2. IntactRecords(file') \in Nat
      BY <3>1, IntactRecordsFound
    <3> QED
      BY <3>2 DEF IntactRecords, WholeRecord
  <2> QED
    BY <2>1, <2>2, <2>3 DEF ReadInv
<1>5. CASE UNCHANGED vars
  BY <1>5 DEF vars, handle, ReadInv, Whole, IntactRecords, WholeRecord
<1> QED
  BY <1>2, <1>3, <1>4, <1>5, ReadRecordStep, ReadEndStep DEF Next

\* A file without torn records, whatever appends, truncations, syncs, crashes
\* and power failures have made it, is replayed to its end, with the entries
\* of its records in their order (wal.rs append, replay).
THEOREM WholeFilesReplayed == Spec => []WholeFileReplaysExactly
<1>1. TypeInv /\ ReadInv => WholeFileReplaysExactly
  <2> SUFFICES ASSUME TypeInv, ReadInv, Finished, Whole(file)
               PROVE  replay.status = "ok" /\ replay.entries = IntactEntries(file)
    BY DEF WholeFileReplaysExactly
  <2> DEFINE n == IntactRecords(file)
  <2>1. /\ replay.status = "ok" /\ Len(replay.entries) = n
        /\ \A i \in 1 .. n : replay.entries[i] = file[i * RecordLen].entry
    BY DEF ReadInv, Finished
  <2>2. replay.entries \in [1 .. n -> Entries \cup {Garbage}]
    BY <2>1, LenProperties DEF TypeInv, TypeOK
  <2>3. replay.entries = [i \in 1 .. n |-> file[i * RecordLen].entry]
    <3> HIDE DEF n
    <3> QED
      BY <2>1, <2>2
  <2> QED
    BY <2>1, <2>3 DEF IntactEntries
<1> QED
  BY <1>1, InitType, NextType, InitRead, NextRead, PTL DEF Spec

-----------------------------------------------------------------------------
(* What the count promises *)

\* The open log's file has room for the entries it counts and for what the
\* append in progress has written.
CountInv ==
  log # Nil =>
    log.entry_count * RecordLen + (IF writing = Nil THEN 0 ELSE writing.cells) <= Len(file)

LEMMA InitCount == Init => CountInv
BY DEF Init, CountInv

LEMMA NextCount == TypeInv /\ CountInv /\ [Next]_vars => CountInv'
<1> SUFFICES ASSUME TypeInv, CountInv, [Next]_vars PROVE CountInv'
  OBVIOUS
<1>1. file \in Seq(Cell) /\ Len(file) \in Nat /\ (log # Nil => log.entry_count \in Nat)
  BY LenProperties DEF TypeInv, TypeOK
<1>2. 0 * RecordLen = 0 /\ 0 <= Len(file) /\ 0 <= Len(<<>>)
  BY <1>1, Lengths, EmptySeq
<1>3. CASE Create
  <2>1. log' = [entry_count |-> 0] /\ writing' = Nil /\ file' = file
    BY <1>3 DEF Create, TypeInv, HandleOK
  <2> QED
    BY <1>2, <2>1 DEF CountInv
<1>4. ASSUME NEW e \in Entries, BeginAppend(e) PROVE CountInv'
  BY <1>1, <1>4, Lengths DEF BeginAppend, Free, CountInv
<1>5. CASE WriteCell
  <2>1. /\ writing # Nil /\ writing.cells \in Nat /\ writing'.cells = writing.cells + 1
        /\ log' = log /\ log # Nil
    BY <1>5 DEF WriteCell, TypeInv, TypeOK, HandleOK
  <2>2. Len(file') = Len(file) + 1
    <3>1. writing.entry \in Entries /\ writing.cells + 1 \in 1 .. RecordLen
      BY <1>5, <2>1, Lengths, SMTT(30) DEF WriteCell, TypeInv, TypeOK
    <3>2. Record(writing.entry)[writing.cells + 1] \in Cell
      BY <3>1, RecordCells
    <3> QED
      BY <1>1, <1>5, <3>2, AppendProperties DEF WriteCell
  <2> DEFINE counted == log.entry_count * RecordLen
  <2>3. counted \in Nat /\ counted + writing.cells <= Len(file)
    BY <1>1, <2>1, Places DEF CountInv
  <2>4. log'.entry_count * RecordLen = counted
    BY <2>1
  <2> HIDE DEF counted
  <2>5. counted + (writing.cells + 1) <= Len(file) + 1 /\ counted + 0 <= Len(file) + 1
    BY <1>1, <2>1, <2>3
  <2> QED
    BY <2>1, <2>2, <2>4, <2>5 DEF CountInv
<1>6. CASE FailAppend
  <2>1. /\ writing # Nil /\ writing.cells \in Nat /\ writing' = Nil
        /\ log' = log /\ log # Nil /\ file' = file
    BY <1>6 DEF FailAppend, TypeInv, TypeOK, HandleOK
  <2> DEFINE counted == log.entry_count * RecordLen
  <2>2. counted \in Nat /\ counted + writing.cells <= Len(file)
    BY <1>1, <2>1, Places DEF CountInv
  <2>3. log'.entry_count * RecordLen = counted
    BY <2>1
  <2> HIDE DEF counted
  <2>4. counted + 0 <= Len(file)
    BY <1>1, <2>1, <2>2
  <2> QED
    BY <2>1, <2>3, <2>4 DEF CountInv
<1>7. CASE AckAppend
  <2>1. /\ writing # Nil /\ writing.cells = RecordLen /\ writing' = Nil
        /\ log # Nil /\ file' = file
        /\ log'.entry_count = log.entry_count + 1
    BY <1>7 DEF AckAppend, TypeInv, TypeOK, HandleOK
  <2>2. log.entry_count * RecordLen + RecordLen <= Len(file)
    BY <2>1 DEF CountInv
  <2>3. /\ (log.entry_count + 1) * RecordLen = log.entry_count * RecordLen + RecordLen
        /\ log.entry_count * RecordLen + RecordLen \in Nat
    BY <1>1, <2>1, Places, Lengths
  <2>4. log'.entry_count * RecordLen = log.entry_count * RecordLen + RecordLen
    BY <2>1, <2>3
  <2> DEFINE counted == log.entry_count * RecordLen + RecordLen
  <2>5. log'.entry_count * RecordLen = counted /\ counted \in Nat /\ counted <= Len(file)
    BY <2>2, <2>3, <2>4
  <2> HIDE DEF counted
  <2>6. counted + 0 <= Len(file)
    BY <2>5
  <2> QED
    BY <2>1, <2>5, <2>6 DEF CountInv
<1>8. CASE Truncate
  <2>1. log' = [entry_count |-> 0] /\ writing' = Nil /\ file' = <<>>
    BY <1>8 DEF Truncate, Free
  <2> QED
    BY <1>2, <2>1 DEF CountInv
<1>9. CASE Crash \/ PowerFailure
  BY <1>9 DEF Crash, PowerFailure, CountInv
<1>10. CASE Sync \/ BeginReplay \/ ReplayEof \/ ReplayTorn \/ ReplayRefused \/ ReplayRecord
            \/ UNCHANGED vars
  BY <1>10 DEF Sync, BeginReplay, ReplayEof, ReplayTorn, ReplayRefused, ReplayRecord, EndReplay,
               vars, handle, CountInv
<1> QED
  BY <1>3, <1>4, <1>5, <1>6, <1>7, <1>8, <1>9, <1>10 DEF Next

\* entry_count never exceeds what a replay of a file without torn records
\* hands over: an append that failed is not counted, a reopened log counts
\* from zero (wal.rs append, truncate, replay).
THEOREM CountsAreReplayed == Spec => []CountedEntriesReplayed
<1>1. TypeInv /\ ReadInv /\ CountInv => CountedEntriesReplayed
  <2> SUFFICES ASSUME TypeInv, ReadInv, CountInv, Finished, Whole(file)
               PROVE  log.entry_count <= Len(replay.entries)
    BY DEF CountedEntriesReplayed
  <2> DEFINE k == log.entry_count
             n == IntactRecords(file)
  <2>1. log # Nil /\ writing = Nil
    BY DEF TypeInv, HandleOK, Finished, NoReplay
  <2>2. k \in Nat /\ n \in Nat /\ Len(file) = n * RecordLen /\ Len(replay.entries) = n
    BY <2>1, IntactRecordsFound DEF TypeInv, TypeOK, ReadInv, Whole, Finished
  <2>3. k * RecordLen + 0 <= n * RecordLen
    BY <2>1, <2>2 DEF CountInv
  <2> HIDE DEF k, n
  <2>4. n < k => n * RecordLen + RecordLen <= k * RecordLen
    BY <2>2, Places
  <2>5. k * RecordLen \in Nat /\ n * RecordLen \in Nat
    BY <2>2, Places
  <2>6. ~(n < k)
    BY <2>3, <2>4, <2>5, Lengths
  <2> QED
    BY <2>2, <2>6 DEF k
<1> QED
  BY <1>1, InitType, NextType, InitRead, NextRead, InitCount, NextCount, PTL DEF Spec
-----------------------------------------------------------------------------
(* The records a file begins with *)

\* g begins with f.
Continues(g, f) == Len(f) <= Len(g) /\ \A p \in 1 .. Len(f) : g[p] = f[p]

\* The record of e is the k-th of those f begins with.
RecordOf(f, e, k) == k \in 1 .. IntactRecords(f) /\ f[k * RecordLen].entry = e

\* The records f begins with have those of es among them, in their order.
HasInOrder(f, es) ==
  /\ \A i \in DOMAIN es : \E k \in Nat : RecordOf(f, es[i], k)
  /\ \A i, j \in DOMAIN es : i < j =>
       \E k, l \in Nat : k < l /\ RecordOf(f, es[i], k) /\ RecordOf(f, es[j], l)

LEMMA PlacesAfter ==
  ASSUME NEW p \in Nat, NEW n \in Nat, n > 0
  PROVE  /\ p + 1 \in Int /\ p + n \in Int /\ p + 1 <= p + n
         /\ (p + n) - (p + 1) + 1 = n
         /\ \A i \in 1 .. n : (p + 1) + i - 1 = p + i
OBVIOUS

\* Cells that make a record are one.
LEMMA CellsWhole ==
  ASSUME NEW f \in Seq(Cell), NEW k \in Nat, k * RecordLen + RecordLen <= Len(f), NEW e \in Entries,
         \A j \in 1 .. RecordLen : f[k * RecordLen + j] = [entry |-> e, at |-> j]
  PROVE  WholeRecord(f, k + 1)
<1> DEFINE p == k * RecordLen
           s == SubSeq(f, p + 1, p + RecordLen)
<1>1. /\ p \in Nat /\ (k + 1) * RecordLen = p + RecordLen /\ (k + 1) - 1 = k
      /\ Len(f) \in Nat /\ p + RecordLen <= Len(f)
  BY Places, LenProperties
<1>2. \A j \in 1 .. RecordLen : f[p + j] = Record(e)[j]
  BY RecordCells
<1>3. SubSeq(f, ((k + 1) - 1) * RecordLen + 1, (k + 1) * RecordLen) = s
  BY <1>1
<1> HIDE DEF p
<1>4. Len(s) = RecordLen /\ s \in Seq(Cell) /\ \A i \in 1 .. RecordLen : s[i] = f[p + i]
  <2>1. \A i \in p + 1 .. p + RecordLen : f[i] \in Cell
    BY <1>1, Lengths, ElementOfSeq
  <2>2. /\ p + 1 \in Int /\ p + RecordLen \in Int /\ p + 1 <= p + RecordLen
        /\ (p + RecordLen) - (p + 1) + 1 = RecordLen
        /\ \A i \in 1 .. RecordLen : (p + 1) + i - 1 = p + i
    <3>1. p \in Nat /\ RecordLen \in Nat /\ RecordLen > 0
      BY <1>1, Lengths
    <3> QED
      BY <3>1, PlacesAfter
  <2>3. /\ s \in Seq(Cell) /\ Len(s) = (p + RecordLen) - (p + 1) + 1
        /\ \A i \in 1 .. (p + RecordLen) - (p + 1) + 1 : s[i] = f[(p + 1) + i - 1]
    BY <2>1, <2>2, SubSeqProperties
  <2> QED
    BY <2>2, <2>3
<1>5. Record(e) \in Seq(Cell) /\ Len(Record(e)) = RecordLen
  <2>1. Record(e) \in [1 .. RecordLen -> Cell]
    BY RecordCells DEF Record
  <2> QED
    BY <2>1, Lengths
<1>6. s = Record(e)
  <2> HIDE DEF s
  <2> QED
    BY <1>2, <1>4, <1>5, SeqEqual
<1> QED
  BY <1>3, <1>6 DEF WholeRecord

\* The cells of the record of e.
LEMMA RecordOfCells ==
  ASSUME NEW f \in Seq(Cell), NEW e, NEW k \in Nat, RecordOf(f, e, k)
  PROVE  /\ k - 1 \in Nat /\ k - 1 < IntactRecords(f) /\ IntactRecords(f) \in Nat
         /\ (k - 1) * RecordLen \in Nat /\ (k - 1) * RecordLen + RecordLen = k * RecordLen
         /\ k * RecordLen <= Len(f) /\ k * RecordLen \in DOMAIN f
         /\ \A j \in 1 .. RecordLen : f[(k - 1) * RecordLen + j] = [entry |-> e, at |-> j]
<1> DEFINE m == k - 1
<1>1. m \in Nat /\ m + 1 = k /\ m < IntactRecords(f) /\ IntactRecords(f) \in Nat
  BY IntactRecordsFound DEF RecordOf
<1> HIDE DEF m
<1>2. m * RecordLen \in Nat /\ m * RecordLen + RecordLen = k * RecordLen
  BY <1>1, Places
<1>3. m * RecordLen + RecordLen <= Len(f)
  BY <1>1, WholeCells
<1>4. PICK d \in Entries : \A j \in 1 .. RecordLen :
        f[m * RecordLen + j] = [entry |-> d, at |-> j]
  BY <1>1, WholeCells
<1>5. d = e
  <2>1. RecordLen \in 1 .. RecordLen
    BY Lengths
  <2>2. f[m * RecordLen + RecordLen] = [entry |-> d, at |-> RecordLen]
    BY <1>4, <2>1
  <2> QED
    BY <1>2, <2>2 DEF RecordOf
<1>6. k * RecordLen \in DOMAIN f
  <2>1. k * RecordLen \in 1 .. Len(f) /\ DOMAIN f = 1 .. Len(f)
    BY <1>2, <1>3, Lengths, LenProperties
  <2> QED
    BY <2>1
<1> QED
  BY <1>1, <1>2, <1>3, <1>4, <1>5, <1>6 DEF m

\* A file that begins with another begins with its records too.
LEMMA RecordsContinue ==
  ASSUME NEW f \in Seq(Cell), NEW g \in Seq(Cell), Continues(g, f)
  PROVE  /\ IntactRecords(f) <= IntactRecords(g)
         /\ \A e : \A k \in Nat : RecordOf(f, e, k) => RecordOf(g, e, k)
<1> DEFINE n == IntactRecords(f)
<1>1. n \in Nat /\ IntactRecords(g) \in Nat /\ Len(f) \in Nat /\ Len(g) \in Nat /\ Len(f) <= Len(g)
  BY IntactRecordsFound, LenProperties DEF Continues
<1>2. ASSUME NEW i \in 1 .. n PROVE WholeRecord(g, i)
  <2> DEFINE k == i - 1
  <2>1. k \in Nat /\ k < IntactRecords(f) /\ k + 1 = i
    BY <1>1
  <2> HIDE DEF k
  <2>2. k * RecordLen + RecordLen <= Len(f) /\ k * RecordLen \in Nat
    BY <2>1, WholeCells, Places
  <2>3. PICK e \in Entries : \A j \in 1 .. RecordLen :
          f[k * RecordLen + j] = [entry |-> e, at |-> j]
    BY <2>1, WholeCells
  <2>4. ASSUME NEW j \in 1 .. RecordLen PROVE g[k * RecordLen + j] = [entry |-> e, at |-> j]
    <3>1. k * RecordLen + j \in 1 .. Len(f)
      BY <1>1, <2>2, Lengths
    <3> QED
      BY <2>3, <3>1 DEF Continues
  <2>5. k * RecordLen + RecordLen <= Len(g)
    BY <1>1, <2>2, Lengths
  <2> QED
    BY <2>1, <2>4, <2>5, CellsWhole
<1>3. n * RecordLen <= Len(g)
  <2>1. n * RecordLen <= Len(f) /\ n * RecordLen \in Nat
    BY <1>1, IntactRecordsMost, Places
  <2> QED
    BY <1>1, <2>1
<1>4. n <= IntactRecords(g)
  BY <1>1, <1>2, <1>3, IntactRecordsMost
<1>5. ASSUME NEW k \in Nat, NEW e, RecordOf(f, e, k) PROVE RecordOf(g, e, k)
  <2>1. k * RecordLen \in DOMAIN f /\ DOMAIN f = 1 .. Len(f)
    BY <1>5, RecordOfCells, LenProperties
  <2>2. g[k * RecordLen] = f[k * RecordLen]
    BY <2>1 DEF Continues
  <2>3. k \in 1 .. IntactRecords(g)
    BY <1>1, <1>4, <1>5 DEF RecordOf
  <2> QED
    BY <1>5, <2>2, <2>3 DEF RecordOf
<1> QED
  BY <1>4, <1>5

LEMMA HeldContinues ==
  ASSUME NEW f \in Seq(Cell), NEW g \in Seq(Cell), Continues(g, f), NEW es, HasInOrder(f, es)
  PROVE  HasInOrder(g, es)
<1>1. \A e : \A k \in Nat : RecordOf(f, e, k) => RecordOf(g, e, k)
  BY RecordsContinue
<1> QED
  BY <1>1 DEF HasInOrder

-----------------------------------------------------------------------------
(* No piece twice *)

\* No piece of a record is written twice, since append is called once for an
\* entry.
PiecesOnce(f) ==
  /\ \A p, q \in DOMAIN f : f[p] = f[q] => p = q
  /\ \A p \in DOMAIN f : f[p].entry \in appended

PiecesInv ==
  /\ PiecesOnce(file) /\ PiecesOnce(disk)
  /\ writing # Nil =>
       /\ writing.entry \in appended
       /\ \A p \in DOMAIN file : file[p].entry = writing.entry => file[p].at <= writing.cells

\* What WriteCell writes.
LEMMA CellWritten ==
  ASSUME TypeInv, WriteCell
  PROVE  /\ writing # Nil /\ writing.entry \in Entries
         /\ writing.cells \in Nat /\ writing.cells + 1 \in 1 .. RecordLen
         /\ writing'.entry = writing.entry /\ writing'.cells = writing.cells + 1
         /\ writing'.clean = writing.clean
         /\ file \in Seq(Cell) /\ Len(file) \in Nat /\ DOMAIN file = 1 .. Len(file)
         /\ file' \in Seq(Cell) /\ Len(file') = Len(file) + 1 /\ DOMAIN file' = 1 .. Len(file) + 1
         /\ Continues(file', file)
         /\ file'[Len(file) + 1] = [entry |-> writing.entry, at |-> writing.cells + 1]
<1>1. /\ writing # Nil
      /\ writing \in [entry : Entries, cells : 0 .. RecordLen, clean : BOOLEAN]
      /\ writing.cells < RecordLen
      /\ writing' = [writing EXCEPT !.cells = writing.cells + 1]
      /\ file' = Append(file, Record(writing.entry)[writing.cells + 1])
      /\ file \in Seq(Cell)
  BY DEF WriteCell, TypeInv, TypeOK
<1>2. writing.entry \in Entries /\ writing.cells \in Nat /\ writing.cells + 1 \in 1 .. RecordLen
  BY <1>1, Lengths
<1>3. /\ Record(writing.entry)[writing.cells + 1] \in Cell
      /\ Record(writing.entry)[writing.cells + 1] = [entry |-> writing.entry, at |-> writing.cells + 1]
  BY <1>2, RecordCells
<1>4. Len(file) \in Nat /\ DOMAIN file = 1 .. Len(file)
  BY <1>1, LenProperties
<1>5. /\ file' \in Seq(Cell) /\ Len(file') = Len(file) + 1
      /\ \A p \in 1 .. Len(file) : file'[p] = file[p]
      /\ file'[Len(file) + 1] = [entry |-> writing.entry, at |-> writing.cells + 1]
  BY <1>1, <1>3, AppendProperties
<1>6. DOMAIN file' = 1 .. Len(file) + 1
  BY <1>5, LenProperties
<1>7. /\ writing'.entry = writing.entry /\ writing'.cells = writing.cells + 1
      /\ writing'.clean = writing.clean
  BY <1>1
<1> QED
  BY <1>1, <1>2, <1>4, <1>5, <1>6, <1>7 DEF Continues

\* What a power failure may leave is the disk, or begins the file; where the
\* file begins with the disk, it begins with the disk too.
LEMMA ImageParts ==
  ASSUME TypeInv, NEW f \in CrashImages
  PROVE  /\ f \in Seq(Cell)
         /\ f = disk \/ Continues(file, f)
         /\ Continues(file, disk) => Continues(f, disk)
<1>1. /\ file \in Seq(Cell) /\ Len(file) \in Nat /\ DOMAIN file = 1 .. Len(file)
      /\ disk \in Seq(Cell) /\ Len(disk) \in Nat
  BY LenProperties DEF TypeInv, TypeOK
<1>2. f \in Seq(Cell)
  BY ImageCells DEF TypeInv
<1>3. CASE f = disk
  BY <1>1, <1>2, <1>3 DEF Continues
<1>4. CASE f \in Prefixes(file) /\ (IsPrefix(disk, file) => IsPrefix(disk, f))
  <2>1. PICK l \in 0 .. Len(file) : f = SubSeq(file, 1, l)
    BY <1>4 DEF Prefixes
  <2>2. \A i \in 1 .. l : file[i] \in Cell
    BY <1>1, ElementOfSeq
  <2>3. Len(f) = l /\ \A i \in 1 .. l : f[i] = file[i]
    BY <2>1, <2>2, SubSeqProperties
  <2>4. Continues(file, f)
    BY <2>3 DEF Continues
  <2>5. ASSUME Continues(file, disk) PROVE Continues(f, disk)
    <3> DEFINE n == Len(disk)
    <3>1. n \in Nat /\ n <= Len(file) /\ \A i \in 1 .. n : file[i] = disk[i]
      BY <1>1, <2>5 DEF Continues
    <3>2. \A i \in 1 .. n : disk[i] \in Cell /\ file[i] \in Cell
      BY <1>1, <3>1, ElementOfSeq
    <3>3. /\ SubSeq(disk, 1, n) \in Seq(Cell) /\ Len(SubSeq(disk, 1, n)) = n
          /\ SubSeq(file, 1, n) \in Seq(Cell) /\ Len(SubSeq(file, 1, n)) = n
          /\ \A i \in 1 .. n : SubSeq(disk, 1, n)[i] = disk[i] /\ SubSeq(file, 1, n)[i] = file[i]
      <4> HIDE DEF n
      <4> QED
        BY <3>1, <3>2, SubSeqProperties
    <3>4. SubSeq(disk, 1, n) = SubSeq(file, 1, n)
      <4> HIDE DEF n
      <4> QED
        BY <3>1, <3>3, SeqEqual
    <3>5. n <= l
      BY <1>4, <2>3, <3>1, <3>4 DEF IsPrefix
    <3>6. \A i \in 1 .. n : i \in 1 .. l
      <4> HIDE DEF n
      <4> QED
        BY <3>1, <3>5
    <3> QED
      BY <2>3, <3>1, <3>5, <3>6 DEF Continues
  <2> QED
    BY <1>2, <2>4, <2>5
<1> QED
  BY <1>3, <1>4 DEF CrashImages

\* What begins a file has its pieces once.
LEMMA PiecesBegin ==
  ASSUME NEW f \in Seq(Cell), NEW g \in Seq(Cell), Continues(g, f), PiecesOnce(g)
  PROVE  PiecesOnce(f)
<1>1. DOMAIN f = 1 .. Len(f) /\ DOMAIN g = 1 .. Len(g) /\ Len(f) \in Nat /\ Len(g) \in Nat
  BY LenProperties
<1>2. \A p \in DOMAIN f : p \in DOMAIN g /\ g[p] = f[p]
  BY <1>1 DEF Continues
<1> QED
  BY <1>2 DEF PiecesOnce

LEMMA InitPieces == Init => PiecesInv
BY DEF Init, PiecesInv, PiecesOnce

LEMMA NextPieces == TypeInv /\ PiecesInv /\ [Next]_vars => PiecesInv'
<1> SUFFICES ASSUME TypeInv, PiecesInv, [Next]_vars PROVE PiecesInv'
  OBVIOUS
<1>1. CASE \/ Create \/ FailAppend \/ AckAppend \/ BeginReplay \/ Crash
           \/ ReplayEof \/ ReplayTorn \/ ReplayRefused \/ ReplayRecord
  <2>1. /\ UNCHANGED <<file, disk, appended>>
        /\ writing' = writing \/ writing' = Nil
    BY <1>1 DEF Create, FailAppend, AckAppend, BeginReplay, Crash, ReplayEof, ReplayTorn,
                ReplayRefused, ReplayRecord, EndReplay, history
  <2> QED
    BY <2>1 DEF PiecesInv, PiecesOnce
<1>2. ASSUME NEW e \in Entries, BeginAppend(e) PROVE PiecesInv'
  <2>1. /\ UNCHANGED <<file, disk>> /\ appended' = appended \cup {e} /\ e \notin appended
        /\ writing'.entry = e
    BY <1>2 DEF BeginAppend
  <2> QED
    BY <2>1 DEF PiecesInv, PiecesOnce
<1>3. CASE WriteCell
  <2> DEFINE last == Len(file) + 1
             e == writing.entry
  <2>1. /\ DOMAIN file = 1 .. Len(file) /\ DOMAIN file' = 1 .. last /\ Len(file) \in Nat
        /\ \A p \in DOMAIN file : file'[p] = file[p]
        /\ file'[last] = [entry |-> e, at |-> writing.cells + 1]
        /\ writing'.entry = e /\ writing'.cells = writing.cells + 1
        /\ writing # Nil /\ writing.cells \in Nat
    BY <1>3, CellWritten DEF Continues
  <2>2. UNCHANGED <<disk, appended>>
    BY <1>3 DEF WriteCell, history
  <2>3. \A p \in DOMAIN file' : p \in DOMAIN file \/ p = last
    BY <2>1
  <2>4. file'[last].entry = e /\ file'[last].at = writing.cells + 1
    BY <2>1
  <2>at. ASSUME NEW p \in DOMAIN file PROVE file[p].at \in Int
    <3>1. file[p] \in Cell
      BY <2>1, ElementOfSeq DEF TypeInv, TypeOK
    <3> QED
      BY <3>1, Lengths DEF Cell
  <2> HIDE DEF last, e
  <2>5. ASSUME NEW p \in DOMAIN file PROVE file[p] # file'[last]
    <3>1. file[p].entry = e => file[p].at <= writing.cells
      BY <2>1 DEF PiecesInv, e
    <3>2. file[p].at \in Int
      BY <2>at
    <3>3. ASSUME file[p] = file'[last] PROVE FALSE
      <4>1. file[p].entry = e /\ file[p].at = writing.cells + 1
        BY <2>4, <3>3
      <4> DEFINE at == file[p].at
                 c == writing.cells
      <4>2. at <= c /\ at = c + 1 /\ c \in Nat
        BY <2>1, <3>1, <4>1
      <4> HIDE DEF at, c
      <4> QED
        BY <4>2
    <3> QED
      BY <3>3
  <2>6. PiecesOnce(file)'
    <3>1. ASSUME NEW p \in DOMAIN file', NEW q \in DOMAIN file', file'[p] = file'[q] PROVE p = q
      BY <2>1, <2>3, <2>5, <3>1 DEF PiecesInv, PiecesOnce
    <3>2. ASSUME NEW p \in DOMAIN file' PROVE file'[p].entry \in appended'
      BY <2>1, <2>2, <2>3, <2>4 DEF PiecesInv, PiecesOnce, e
    <3> QED
      BY <3>1, <3>2 DEF PiecesOnce
  <2>7. ASSUME NEW p \in DOMAIN file', file'[p].entry = writing'.entry
        PROVE  file'[p].at <= writing'.cells
    <3> DEFINE c == writing.cells
    <3>1. CASE p = last
      <4>1. file'[p].at = c + 1 /\ writing'.cells = c + 1 /\ c \in Nat
        BY <2>1, <2>4, <3>1
      <4> QED
        BY <4>1
    <3>2. CASE p \in DOMAIN file
      <4> DEFINE at == file[p].at
      <4>1. at \in Int
        BY <2>at, <3>2
      <4>2. at <= c /\ c \in Nat
        BY <2>1, <2>7, <3>2 DEF PiecesInv, e
      <4>3. file'[p].at = at /\ writing'.cells = c + 1
        BY <2>1, <3>2
      <4> HIDE DEF at, c
      <4>4. at <= c + 1
        BY <4>1, <4>2
      <4> QED
        BY <4>3, <4>4
    <3> QED
      BY <2>3, <3>1, <3>2
  <2>8. writing'.entry \in appended'
    BY <2>1, <2>2 DEF PiecesInv, e
  <2>9. PiecesOnce(disk)'
    BY <2>2 DEF PiecesInv, PiecesOnce
  <2> QED
    BY <2>6, <2>7, <2>8, <2>9 DEF PiecesInv
<1>4. CASE Truncate
  BY <1>4 DEF Truncate, Free, PiecesInv, PiecesOnce
<1>5. CASE Sync
  BY <1>5 DEF Sync, Free, PiecesInv, PiecesOnce
<1>6. CASE PowerFailure
  <2>1. PICK f \in CrashImages : file' = f /\ disk' = f
    BY <1>6 DEF PowerFailure
  <2>2. file \in Seq(Cell) /\ f \in Seq(Cell) /\ (f = disk \/ Continues(file, f))
    BY ImageParts DEF TypeInv, TypeOK
  <2>3. PiecesOnce(f)
    BY <2>2, PiecesBegin DEF PiecesInv
  <2> QED
    BY <1>6, <2>1, <2>3 DEF PowerFailure, PiecesInv, PiecesOnce
<1>7. CASE UNCHANGED vars
  BY <1>7 DEF vars, handle, history, PiecesInv, PiecesOnce
<1> QED
  BY <1>1, <1>2, <1>3, <1>4, <1>5, <1>6, <1>7 DEF Next

-----------------------------------------------------------------------------
(* What is held is in the file, and what is secured on the disk *)

\* An append that began at the end of n whole records has written that much of
\* its own behind them.
CleanTail ==
  \E n \in 0 .. IntactRecords(file) :
    /\ Len(file) = n * RecordLen + writing.cells
    /\ \A j \in 1 .. writing.cells : file[n * RecordLen + j] = [entry |-> writing.entry, at |-> j]

\* The file has the records of held, and the disk those of secured; until the
\* next truncation the file only grows past what is on the disk.
HeldInv ==
  /\ Range(held) \subseteq appended /\ Range(secured) \subseteq appended
  /\ HasInOrder(file, held) /\ HasInOrder(disk, secured)
  /\ secured # <<>> => Continues(file, disk)
  /\ writing # Nil => writing.entry \notin Range(held)
  /\ writing # Nil /\ writing.clean => CleanTail

LEMMA EmptyInOrder == \A f : HasInOrder(f, <<>>)
BY DEF HasInOrder

\* A sequence with one more element.
LEMMA AppendedRange ==
  ASSUME NEW S, NEW s \in Seq(S), NEW e \in S
  PROVE  /\ DOMAIN Append(s, e) = 1 .. Len(s) + 1 /\ DOMAIN s = 1 .. Len(s) /\ Len(s) \in Nat
         /\ \A i \in DOMAIN s : Append(s, e)[i] = s[i]
         /\ Append(s, e)[Len(s) + 1] = e
         /\ Range(Append(s, e)) = Range(s) \cup {e}
<1>1. /\ DOMAIN s = 1 .. Len(s) /\ Len(s) \in Nat
      /\ Append(s, e) \in Seq(S) /\ Len(Append(s, e)) = Len(s) + 1
      /\ \A i \in 1 .. Len(s) : Append(s, e)[i] = s[i]
      /\ Append(s, e)[Len(s) + 1] = e
  BY AppendProperties, LenProperties
<1>2. DOMAIN Append(s, e) = 1 .. Len(s) + 1
  BY <1>1, LenProperties
<1>3. \A i \in DOMAIN Append(s, e) : i \in DOMAIN s \/ i = Len(s) + 1
  BY <1>1, <1>2
<1>4. DOMAIN s \subseteq DOMAIN Append(s, e) /\ Len(s) + 1 \in DOMAIN Append(s, e)
  BY <1>1, <1>2
<1>5. Range(Append(s, e)) = Range(s) \cup {e}
  BY <1>1, <1>3, <1>4 DEF Range
<1> QED
  BY <1>1, <1>2, <1>5

\* An append that began behind whole records and has written all of its own
\* leaves one whole record more, the last.
LEMMA CleanRecord ==
  ASSUME TypeInv, writing # Nil, writing.cells = RecordLen, CleanTail
  PROVE  \E k \in Nat :
           /\ RecordOf(file, writing.entry, k)
           /\ \A e : \A l \in Nat : RecordOf(file, e, l) => l <= k
<1>1. file \in Seq(Cell) /\ Len(file) \in Nat /\ writing.entry \in Entries
  BY LenProperties DEF TypeInv, TypeOK
<1>2. PICK n \in 0 .. IntactRecords(file) :
        /\ Len(file) = n * RecordLen + RecordLen
        /\ \A j \in 1 .. RecordLen : file[n * RecordLen + j] = [entry |-> writing.entry, at |-> j]
  BY DEF CleanTail
<1>3. /\ n \in Nat /\ IntactRecords(file) \in Nat /\ n <= IntactRecords(file)
      /\ \A i \in 1 .. IntactRecords(file) : WholeRecord(file, i)
  BY <1>1, <1>2, IntactRecordsFound
<1>4. (n + 1) * RecordLen = Len(file) /\ n * RecordLen \in Nat
  BY <1>2, <1>3, Places
<1>5. WholeRecord(file, n + 1)
  <2>1. n * RecordLen + RecordLen <= Len(file)
    BY <1>1, <1>2
  <2> QED
    BY <1>1, <1>2, <1>3, <2>1, CellsWhole
<1>6. n + 1 <= IntactRecords(file)
  <2>1. \A i \in 1 .. n + 1 : WholeRecord(file, i)
    <3>1. \A i \in 1 .. n + 1 : i \in 1 .. IntactRecords(file) \/ i = n + 1
      BY <1>3
    <3> QED
      BY <1>3, <1>5, <3>1
  <2>2. n + 1 \in Nat /\ (n + 1) * RecordLen <= Len(file)
    BY <1>1, <1>3, <1>4
  <2> QED
    BY <1>1, <2>1, <2>2, IntactRecordsMost
<1>7. file[(n + 1) * RecordLen].entry = writing.entry
  <2>1. RecordLen \in 1 .. RecordLen
    BY Lengths
  <2>2. file[n * RecordLen + RecordLen] = [entry |-> writing.entry, at |-> RecordLen]
    BY <1>2, <2>1
  <2>3. (n + 1) * RecordLen = n * RecordLen + RecordLen
    BY <1>3, Places
  <2> QED
    BY <2>2, <2>3
<1>8. RecordOf(file, writing.entry, n + 1)
  BY <1>3, <1>6, <1>7 DEF RecordOf
<1>9. ASSUME NEW l \in Nat, NEW e, RecordOf(file, e, l) PROVE l <= n + 1
  <2> DEFINE m == n + 1
  <2>1. l * RecordLen <= m * RecordLen /\ m \in Nat
    BY <1>1, <1>3, <1>4, <1>9, RecordOfCells
  <2>2. m < l => (m + 1) * RecordLen <= l * RecordLen
    BY <2>1, Places
  <2>3. (m + 1) * RecordLen = m * RecordLen + RecordLen /\ m * RecordLen \in Nat /\ l * RecordLen \in Nat
    BY <2>1, Places
  <2> HIDE DEF m
  <2>4. ~(m < l)
    <3> DEFINE a == l * RecordLen
               b == m * RecordLen
    <3>1. a <= b /\ (m < l => b + RecordLen <= a) /\ a \in Nat /\ b \in Nat
      BY <2>1, <2>2, <2>3
    <3> HIDE DEF a, b
    <3> QED
      BY <3>1, Lengths
  <2>5. l <= m
    BY <2>1, <2>4
  <2> QED
    BY <2>5 DEF m
<1> QED
  <2>1. n + 1 \in Nat
    BY <1>3
  <2> QED
    BY <1>8, <1>9, <2>1

LEMMA InitHeld == Init => HeldInv
<1> SUFFICES ASSUME Init PROVE HeldInv
  OBVIOUS
<1>1. Range(<<>>) = {}
  BY DEF Range
<1> QED
  BY <1>1, EmptyInOrder DEF Init, HeldInv

LEMMA AckAppendHeld == TypeInv /\ PiecesInv /\ HeldInv /\ AckAppend => HeldInv'
<1> SUFFICES ASSUME TypeInv, PiecesInv, HeldInv, AckAppend PROVE HeldInv'
  OBVIOUS
<1> DEFINE e == writing.entry
<1>1. /\ UNCHANGED <<file, disk, appended, secured>> /\ writing' = Nil
      /\ writing # Nil /\ writing.cells = RecordLen
      /\ held' = IF writing.clean THEN Append(held, e) ELSE held
  BY DEF AckAppend
<1>2. CASE ~writing.clean
  BY <1>1, <1>2 DEF HeldInv
<1>3. CASE writing.clean
  <2>1. held \in Seq(Entries) /\ e \in Entries /\ file \in Seq(Cell) /\ held' = Append(held, e)
    BY <1>1, <1>3 DEF TypeInv, TypeOK
  <2> DEFINE last == Len(held) + 1
  <2>2. /\ DOMAIN held' = 1 .. last /\ DOMAIN held = 1 .. Len(held) /\ Len(held) \in Nat
        /\ \A i \in DOMAIN held : held'[i] = held[i]
        /\ held'[last] = e
        /\ Range(held') = Range(held) \cup {e}
    BY <2>1, AppendedRange
  <2>3. PICK k \in Nat :
          /\ RecordOf(file, e, k)
          /\ \A d : \A l \in Nat : RecordOf(file, d, l) => l <= k
    BY <1>1, <1>3, CleanRecord DEF HeldInv
  <2>4. ASSUME NEW l \in Nat, NEW i \in DOMAIN held, RecordOf(file, held[i], l) PROVE l < k
    <3>1. l <= k
      BY <2>3, <2>4
    <3>2. held[i] # e
      BY <1>1 DEF HeldInv, Range
    <3>3. l # k
      BY <2>3, <2>4, <3>2 DEF RecordOf
    <3> QED
      BY <3>1, <3>3
  <2>5. \A i \in DOMAIN held' : i \in DOMAIN held \/ i = last
    BY <2>2
  <2>6. \A i, j \in DOMAIN held' : i < j => i \in DOMAIN held
    BY <2>2
  <2> HIDE DEF last, e
  <2>7. ASSUME NEW i \in DOMAIN held' PROVE \E l \in Nat : RecordOf(file, held'[i], l)
    BY <2>2, <2>3, <2>5 DEF HeldInv, HasInOrder
  <2>8. ASSUME NEW i \in DOMAIN held', NEW j \in DOMAIN held', i < j
        PROVE  \E l, m \in Nat : l < m /\ RecordOf(file, held'[i], l) /\ RecordOf(file, held'[j], m)
    <3>1. i \in DOMAIN held /\ held'[i] = held[i]
      BY <2>2, <2>6, <2>8
    <3>2. CASE j \in DOMAIN held
      <4>1. held'[j] = held[j]
        BY <2>2, <3>2
      <4> QED
        BY <2>8, <3>1, <3>2, <4>1 DEF HeldInv, HasInOrder
    <3>3. CASE j = last
      <4>1. PICK l \in Nat : RecordOf(file, held[i], l)
        BY <3>1 DEF HeldInv, HasInOrder
      <4>2. l < k
        BY <2>4, <3>1, <4>1
      <4> QED
        BY <2>2, <2>3, <3>1, <3>3, <4>1, <4>2
    <3> QED
      BY <2>5, <3>2, <3>3
  <2>9. HasInOrder(file, held')
    BY <2>7, <2>8 DEF HasInOrder
  <2>10. Range(held') \subseteq appended
    BY <1>1, <2>2 DEF HeldInv, PiecesInv, e
  <2> QED
    BY <1>1, <2>9, <2>10 DEF HeldInv
<1> QED
  BY <1>2, <1>3

LEMMA WriteCellHeld == TypeInv /\ HeldInv /\ WriteCell => HeldInv'
<1> SUFFICES ASSUME TypeInv, HeldInv, WriteCell PROVE HeldInv'
  OBVIOUS
<1>1. UNCHANGED <<disk, appended, held, secured>>
  BY DEF WriteCell, history
<1>2. /\ file \in Seq(Cell) /\ file' \in Seq(Cell) /\ Continues(file', file)
      /\ writing # Nil /\ writing'.entry = writing.entry /\ writing'.clean = writing.clean
      /\ Len(file) \in Nat /\ Len(file') = Len(file) + 1
  BY CellWritten
<1>3. HasInOrder(file', held)
  BY <1>2, HeldContinues DEF HeldInv
<1>4. ASSUME Continues(file, disk) PROVE Continues(file', disk)
  <2>1. disk \in Seq(Cell) /\ Len(disk) \in Nat
    BY LenProperties DEF TypeInv, TypeOK
  <2>2. Len(disk) <= Len(file) /\ Len(disk) <= Len(file')
    BY <1>2, <1>4, <2>1 DEF Continues
  <2>3. ASSUME NEW p \in 1 .. Len(disk) PROVE file'[p] = disk[p]
    <3>1. p \in 1 .. Len(file)
      BY <1>2, <2>1, <2>2
    <3> QED
      BY <1>2, <1>4, <3>1 DEF Continues
  <2> QED
    BY <2>2, <2>3 DEF Continues
<1>5. ASSUME writing.clean PROVE CleanTail'
  <2>1. PICK n \in 0 .. IntactRecords(file) :
          /\ Len(file) = n * RecordLen + writing.cells
          /\ \A j \in 1 .. writing.cells :
               file[n * RecordLen + j] = [entry |-> writing.entry, at |-> j]
    BY <1>2, <1>5 DEF HeldInv, CleanTail
  <2> DEFINE c == writing.cells
             p == n * RecordLen
  <2>2. /\ c \in Nat /\ writing'.cells = c + 1
        /\ file'[Len(file) + 1] = [entry |-> writing.entry, at |-> c + 1]
    BY CellWritten
  <2>3. /\ IntactRecords(file) \in Nat /\ IntactRecords(file') \in Nat
        /\ IntactRecords(file) <= IntactRecords(file')
    BY <1>2, IntactRecordsFound, RecordsContinue
  <2>4. n \in 0 .. IntactRecords(file') /\ n \in Nat
    BY <2>3
  <2>5. p \in Nat /\ Len(file) = p + c
    BY <2>1, <2>4, Places
  <2>6. \A j \in 1 .. c : file[p + j] = [entry |-> writing.entry, at |-> j]
    BY <2>1
  <2> HIDE DEF c, p
  <2>7. Len(file') = p + (c + 1)
    BY <1>2, <2>2, <2>5
  <2>8. ASSUME NEW j \in 1 .. c + 1 PROVE file'[p + j] = [entry |-> writing.entry, at |-> j]
    <3>1. CASE j = c + 1
      <4>1. p + j = Len(file) + 1
        BY <2>2, <2>5, <3>1
      <4> QED
        BY <2>2, <3>1, <4>1
    <3>2. CASE j \in 1 .. c
      <4>1. p + j \in 1 .. Len(file)
        BY <2>2, <2>5, <3>2
      <4>2. file'[p + j] = file[p + j]
        BY <1>2, <4>1 DEF Continues
      <4> QED
        BY <2>6, <3>2, <4>2
    <3> QED
      BY <2>2, <3>1, <3>2
  <2>9. \E m \in 0 .. IntactRecords(file') :
          /\ Len(file') = m * RecordLen + writing'.cells
          /\ \A j \in 1 .. writing'.cells :
               file'[m * RecordLen + j] = [entry |-> writing'.entry, at |-> j]
    <3>1. /\ Len(file') = n * RecordLen + writing'.cells
          /\ \A j \in 1 .. writing'.cells :
               file'[n * RecordLen + j] = [entry |-> writing'.entry, at |-> j]
      BY <1>2, <2>2, <2>7, <2>8 DEF p
    <3> QED
      BY <2>4, <3>1
  <2> QED
    BY <2>9 DEF CleanTail
<1> QED
  BY <1>1, <1>2, <1>3, <1>4, <1>5 DEF HeldInv

LEMMA BeginAppendHeld ==
  ASSUME TypeInv, HeldInv, NEW e \in Entries, BeginAppend(e)
  PROVE  HeldInv'
<1>1. /\ UNCHANGED <<file, disk, held, secured>> /\ appended' = appended \cup {e}
      /\ e \notin appended
      /\ writing'.entry = e /\ writing'.cells = 0 /\ writing'.clean = Whole(file)
  BY DEF BeginAppend
<1>2. ASSUME Whole(file) PROVE CleanTail'
  <2>1. file \in Seq(Cell) /\ IntactRecords(file) \in Nat
    BY IntactRecordsFound DEF TypeInv, TypeOK
  <2>2. /\ IntactRecords(file) \in 0 .. IntactRecords(file)
        /\ Len(file) = IntactRecords(file) * RecordLen + 0
        /\ 1 .. 0 = {}
    <3> DEFINE a == IntactRecords(file) * RecordLen
    <3>1. a \in Nat /\ Len(file) = a /\ IntactRecords(file) \in 0 .. IntactRecords(file)
      BY <1>2, <2>1, Places DEF Whole
    <3> HIDE DEF a
    <3>2. a = a + 0 /\ 1 .. 0 = {}
      BY <3>1
    <3> QED
      BY <3>1, <3>2 DEF a
  <2>3. \E n \in 0 .. IntactRecords(file) :
          /\ Len(file) = n * RecordLen + writing'.cells
          /\ \A j \in 1 .. writing'.cells : file[n * RecordLen + j] = [entry |-> e, at |-> j]
    BY <1>1, <2>2
  <2> QED
    BY <1>1, <2>3 DEF CleanTail
<1> QED
  BY <1>1, <1>2 DEF HeldInv

LEMMA PowerFailureHeld == TypeInv /\ HeldInv /\ PowerFailure => HeldInv'
<1> SUFFICES ASSUME TypeInv, HeldInv, PowerFailure PROVE HeldInv'
  OBVIOUS
<1>1. PICK f \in CrashImages : file' = f /\ disk' = f
  BY DEF PowerFailure
<1>2. /\ writing' = Nil /\ held' = secured /\ UNCHANGED <<appended, secured>>
  BY DEF PowerFailure
<1>3. f \in Seq(Cell) /\ disk \in Seq(Cell) /\ (Continues(file, disk) => Continues(f, disk))
  BY ImageParts DEF TypeInv, TypeOK
<1>4. HasInOrder(f, secured)
  <2>1. CASE secured = <<>>
    BY <2>1, EmptyInOrder
  <2>2. CASE secured # <<>>
    BY <1>3, <2>2, HeldContinues DEF HeldInv
  <2> QED
    BY <2>1, <2>2
<1>5. Continues(f, f)
  BY <1>3, LenProperties DEF Continues
<1> QED
  BY <1>1, <1>2, <1>4, <1>5 DEF HeldInv

LEMMA NextHeld == TypeInv /\ PiecesInv /\ HeldInv /\ [Next]_vars => HeldInv'
<1> SUFFICES ASSUME TypeInv, PiecesInv, HeldInv, [Next]_vars PROVE HeldInv'
  OBVIOUS
<1>1. CASE \/ Create \/ FailAppend \/ BeginReplay \/ Crash
           \/ ReplayEof \/ ReplayTorn \/ ReplayRefused \/ ReplayRecord
  <2>1. /\ UNCHANGED <<file, disk, appended, held, secured>>
        /\ writing' = writing \/ writing' = Nil
    BY <1>1 DEF Create, FailAppend, BeginReplay, Crash, ReplayEof, ReplayTorn,
                ReplayRefused, ReplayRecord, EndReplay, history
  <2> QED
    BY <2>1 DEF HeldInv, CleanTail
<1>2. CASE Truncate
  <2>1. /\ held' = <<>> /\ secured' = <<>> /\ writing' = Nil /\ UNCHANGED <<disk, appended>>
    BY <1>2 DEF Truncate, Free
  <2>2. Range(<<>>) = {}
    BY DEF Range
  <2> QED
    BY <2>1, <2>2, EmptyInOrder DEF HeldInv
<1>3. CASE Sync
  <2>1. /\ disk' = file /\ file' = file /\ writing' = Nil
        /\ secured' = held /\ held' = held /\ appended' = appended
    BY <1>3 DEF Sync, Free
  <2>2. Continues(file, file)
    BY LenProperties DEF Continues, TypeInv, TypeOK
  <2> QED
    BY <2>1, <2>2 DEF HeldInv
<1>4. CASE UNCHANGED vars
  BY <1>4 DEF vars, handle, history, HeldInv, CleanTail
<1> QED
  BY <1>1, <1>2, <1>3, <1>4, AckAppendHeld, WriteCellHeld, BeginAppendHeld, PowerFailureHeld DEF Next

-----------------------------------------------------------------------------
(* What a replay makes of such a file *)

\* A replay has handed over the records the file begins with, up to its
\* place; whatever it makes of what follows them it reads behind them.
HandedInv ==
  replay.status \in {"running", "ok", "err"} =>
    /\ \A i \in DOMAIN replay.entries :
         \/ i <= IntactRecords(file) /\ replay.entries[i] = file[i * RecordLen].entry
         \/ i > IntactRecords(file) /\ replay.entries[i] = Garbage
         \/ /\ i > IntactRecords(file)
            /\ \E p \in DOMAIN file :
                 /\ p > IntactRecords(file) * RecordLen
                 /\ file[p] = [entry |-> replay.entries[i], at |-> PrefixLen + 1]
    /\ Len(replay.entries) <= IntactRecords(file) => replay.pos = Len(replay.entries) * RecordLen
    /\ Len(replay.entries) > IntactRecords(file) => replay.pos >= IntactRecords(file) * RecordLen
    /\ replay.status # "running" => Len(replay.entries) >= IntactRecords(file)

LEMMA HandedRecordStep == TypeInv /\ HandedInv /\ ReplayRecord => HandedInv'
<1> SUFFICES ASSUME TypeInv, HandedInv, ReplayRecord PROVE HandedInv'
  OBVIOUS
<1> DEFINE k == Len(replay.entries)
           n == IntactRecords(file)
           pos == replay.pos
<1>1. /\ file' = file /\ replay.status = "running" /\ Unread >= PrefixLen
  BY DEF ReplayRecord
<1>2. PICK length \in LengthsAt(pos) :
        \E e \in DecodedAt(pos + PrefixLen, length) \ {Nil} :
          replay' = [replay EXCEPT !.pos = @ + PrefixLen + length, !.entries = Append(@, e)]
  BY DEF ReplayRecord
<1>3. PICK e \in DecodedAt(pos + PrefixLen, length) \ {Nil} :
        replay' = [replay EXCEPT !.pos = @ + PrefixLen + length, !.entries = Append(@, e)]
  BY <1>2
<1>4. /\ replay.entries \in Seq(Entries \cup {Garbage}) /\ pos \in Nat /\ file \in Seq(Cell)
      /\ length \in Nat /\ e \in Entries \cup {Garbage}
  <2>1. replay.entries \in Seq(Entries \cup {Garbage}) /\ pos \in Nat /\ file \in Seq(Cell)
    BY DEF TypeInv, TypeOK
  <2>2. length \in Nat /\ e \in Entries \cup {Garbage}
    BY <1>2, <1>3, ReadTypes DEF TypeInv
  <2> QED
    BY <2>1, <2>2
<1>5. /\ replay'.status = "running" /\ replay'.pos = pos + PrefixLen + length
      /\ replay'.entries = Append(replay.entries, e)
  BY <1>1, <1>3 DEF TypeInv, TypeOK
<1>6. /\ k \in Nat /\ n \in Nat /\ n * RecordLen \in Nat
      /\ DOMAIN replay.entries = 1 .. k /\ DOMAIN replay'.entries = 1 .. k + 1
      /\ Len(replay'.entries) = k + 1
      /\ \A i \in DOMAIN replay.entries : replay'.entries[i] = replay.entries[i]
      /\ replay'.entries[k + 1] = e
  <2>1. n \in Nat /\ n * RecordLen \in Nat
    BY <1>4, IntactRecordsFound, Places
  <2>2. /\ replay'.entries \in Seq(Entries \cup {Garbage}) /\ Len(replay'.entries) = k + 1
        /\ \A i \in 1 .. k : replay'.entries[i] = replay.entries[i]
        /\ replay'.entries[k + 1] = e
    BY <1>4, <1>5, AppendProperties
  <2> QED
    BY <1>4, <2>1, <2>2, LenProperties
<1> DEFINE Handed(i, es) ==
             \/ i <= n /\ es[i] = file[i * RecordLen].entry
             \/ i > n /\ es[i] = Garbage
             \/ /\ i > n
                /\ \E p \in DOMAIN file :
                     p > n * RecordLen /\ file[p] = [entry |-> es[i], at |-> PrefixLen + 1]
<1>7. \A i \in DOMAIN replay.entries : Handed(i, replay.entries)
  BY <1>1 DEF HandedInv
<1>8. \A i \in DOMAIN replay.entries : Handed(i, replay'.entries)
  BY <1>6, <1>7
<1>9. CASE k < n
  <2>1. pos = k * RecordLen
    <3>1. k <= n
      <4> HIDE DEF k, n
      <4> QED
        BY <1>6, <1>9
    <3> QED
      BY <1>1, <3>1 DEF HandedInv
  <2>2. PICK d \in Entries :
          /\ LengthsAt(k * RecordLen) = {DataLen}
          /\ DecodedAt(k * RecordLen + PrefixLen, DataLen) = {d}
          /\ file[k * RecordLen + RecordLen].entry = d
    BY <1>6, <1>9, RecordRead
  <2>3. length = DataLen /\ e = d
    BY <1>2, <1>3, <2>1, <2>2
  <2>4. (k + 1) * RecordLen = k * RecordLen + RecordLen /\ k * RecordLen \in Nat
    BY <1>6, Places
  <2>5. replay'.pos = (k + 1) * RecordLen
    <3> DEFINE a == k * RecordLen
    <3>1. replay'.pos = a + PrefixLen + DataLen /\ a \in Nat
      BY <1>5, <2>1, <2>3, <2>4
    <3> HIDE DEF a
    <3>2. replay'.pos = a + RecordLen
      BY <3>1, Lengths DEF RecordLen
    <3> QED
      BY <2>4, <3>2 DEF a
  <2>6. replay'.entries[k + 1] = file[(k + 1) * RecordLen].entry
    BY <1>6, <2>2, <2>3, <2>4
  <2> HIDE DEF k, n
  <2>7. k + 1 <= n /\ ~(k + 1 > n)
    BY <1>6, <1>9
  <2>8. Handed(k + 1, replay'.entries)
    BY <2>6, <2>7
  <2>9. \A i \in DOMAIN replay'.entries : i \in DOMAIN replay.entries \/ i = k + 1
    BY <1>6
  <2>10. \A i \in DOMAIN replay'.entries : Handed(i, replay'.entries)
    BY <1>8, <2>8, <2>9
  <2> QED
    BY <1>1, <1>5, <1>6, <2>5, <2>7, <2>10 DEF HandedInv, n
<1>10. CASE ~(k < n)
  <2>1. pos >= n * RecordLen
    <3>1. k = n \/ k > n
      <4> HIDE DEF k, n
      <4> QED
        BY <1>6, <1>10
    <3>2. CASE k = n
      <4>1. k <= n
        <5> HIDE DEF k, n
        <5> QED
          BY <1>6, <3>2
      <4>2. pos = n * RecordLen
        BY <1>1, <3>2, <4>1 DEF HandedInv
      <4> HIDE DEF n, pos
      <4> QED
        BY <1>4, <4>2
    <3>3. CASE k > n
      BY <1>1, <3>3 DEF HandedInv
    <3> QED
      BY <3>1, <3>2, <3>3
  <2>2. \/ e = Garbage
        \/ /\ (pos + PrefixLen) + 1 \in DOMAIN file
           /\ file[(pos + PrefixLen) + 1] = [entry |-> e, at |-> PrefixLen + 1]
    <3>1. pos + PrefixLen \in Nat
      BY <1>4, Lengths
    <3> QED
      BY <1>3, <3>1, DecodedCell
  <2> DEFINE first == n * RecordLen
  <2>3. first \in Nat /\ pos >= first
    BY <1>6, <2>1
  <2> HIDE DEF k, n, pos, first
  <2>4. (pos + PrefixLen) + 1 > first /\ pos + PrefixLen + length >= first
    BY <1>4, <2>3, Lengths
  <2>5. k + 1 > n /\ ~(k + 1 <= n)
    BY <1>6, <1>10
  <2>6. Handed(k + 1, replay'.entries)
    BY <1>6, <2>2, <2>4, <2>5 DEF first
  <2>7. \A i \in DOMAIN replay'.entries : i \in DOMAIN replay.entries \/ i = k + 1
    BY <1>6
  <2>8. \A i \in DOMAIN replay'.entries : Handed(i, replay'.entries)
    BY <1>8, <2>6, <2>7
  <2>9. replay'.pos >= n * RecordLen
    BY <1>5, <2>4 DEF first
  <2> QED
    BY <1>1, <1>5, <1>6, <2>5, <2>8, <2>9 DEF HandedInv, n
<1> QED
  BY <1>9, <1>10

\* A replay ends behind those records: each of them is read as what it is.
LEMMA HandedEndStep ==
  ASSUME TypeInv, HandedInv, ReplayEof \/ ReplayTorn \/ ReplayRefused
  PROVE  HandedInv'
<1>1. /\ file' = file /\ replay.status = "running"
      /\ replay'.entries = replay.entries /\ replay'.pos = replay.pos
  BY DEF ReplayEof, ReplayTorn, ReplayRefused, EndReplay, TypeInv, TypeOK
<1>2. CASE ReplayRefused
  <2>1. replay'.status = "refused"
    BY <1>2 DEF ReplayRefused, EndReplay, TypeInv, TypeOK
  <2> QED
    BY <2>1 DEF HandedInv
<1>3. CASE ReplayEof \/ ReplayTorn
  <2> DEFINE k == Len(replay.entries)
             n == IntactRecords(file)
  <2>1. k \in Nat /\ n \in Nat /\ Len(file) \in Nat
    BY IntactRecordsFound, LenProperties DEF TypeInv, TypeOK
  <2>2. ASSUME k < n PROVE FALSE
    <3>1. replay.pos = k * RecordLen
      <4>1. k <= n
        <5> HIDE DEF k, n
        <5> QED
          BY <2>1, <2>2
      <4> QED
        BY <1>1, <4>1 DEF HandedInv
    <3>2. PICK d \in Entries :
            LengthsAt(replay.pos) = {DataLen} /\ DecodedAt(replay.pos + PrefixLen, DataLen) = {d}
      BY <2>1, <2>2, <3>1, RecordRead
    <3>3. replay.pos + RecordLen <= Len(file)
      BY <2>1, <2>2, <3>1, RecordRead
    <3>4. replay.pos \in Nat /\ RecordLen = PrefixLen + DataLen
      BY DEF TypeInv, TypeOK, RecordLen
    <3>5. ~(Unread < PrefixLen) /\ ~(DataLen > Unread - PrefixLen)
      BY <2>1, <3>3, <3>4, Lengths DEF Unread
    <3>6. Nil \notin {d}
      BY DistinctAssumption
    <3> QED
      BY <1>3, <3>2, <3>5, <3>6 DEF ReplayEof, ReplayTorn
  <2>3. k >= n
    <3> HIDE DEF k, n
    <3> QED
      BY <2>1, <2>2
  <2> QED
    BY <1>1, <2>3 DEF HandedInv
<1> QED
  BY <1>2, <1>3

LEMMA InitHanded == Init => HandedInv
BY DEF Init, HandedInv, NoReplay

LEMMA NextHanded == TypeInv /\ HandedInv /\ [Next]_vars => HandedInv'
<1> SUFFICES ASSUME TypeInv, HandedInv, [Next]_vars PROVE HandedInv'
  OBVIOUS
<1>1. ASSUME replay'.status \notin {"running", "ok", "err"} PROVE HandedInv'
  BY <1>1 DEF HandedInv
<1>2. CASE \/ (\E e \in Entries : BeginAppend(e)) \/ Truncate \/ Sync \/ Crash \/ PowerFailure
  <2>1. replay'.status = "none"
    BY <1>2 DEF BeginAppend, Truncate, Sync, Crash, PowerFailure, NoReplay
  <2> QED
    BY <1>1, <2>1
<1>3. CASE Create \/ WriteCell \/ FailAppend \/ AckAppend
  <2>1. replay' = NoReplay
    BY <1>3 DEF Create, WriteCell, FailAppend, AckAppend, TypeInv, HandleOK
  <2> QED
    BY <1>1, <2>1 DEF NoReplay
<1>4. CASE BeginReplay
  <2>1. /\ replay' = [status |-> "running", pos |-> 0, entries |-> <<>>] /\ file' = file
    BY <1>4 DEF BeginReplay, NoReplay
  <2>2. Len(<<>>) = 0 /\ 0 * RecordLen = 0 /\ DOMAIN <<>> = {}
    BY Lengths, EmptySeq
  <2>3. IntactRecords(file) \in Nat
    BY IntactRecordsFound DEF TypeInv, TypeOK
  <2>4. ~(0 > IntactRecords(file))
    BY <2>3
  <2>5. /\ replay'.status = "running" /\ replay'.pos = 0 /\ Len(replay'.entries) = 0
        /\ DOMAIN replay'.entries = {}
    BY <2>1, <2>2
  <2> QED
    BY <2>1, <2>2, <2>4, <2>5 DEF HandedInv
<1>5. CASE UNCHANGED vars
  BY <1>5 DEF vars, handle, HandedInv
<1> QED
  BY <1>2, <1>3, <1>4, <1>5, HandedRecordStep, HandedEndStep DEF Next

\* A finished replay has handed the k-th of the records over as its k-th
\* entry, and nowhere else.
LEMMA HandedAtPlace ==
  ASSUME TypeInv, PiecesInv, HandedInv, Finished, NEW e \in Entries, NEW k \in Nat,
         RecordOf(file, e, k)
  PROVE  /\ k \in DOMAIN replay.entries /\ replay.entries[k] = e
         /\ \A m \in DOMAIN replay.entries : replay.entries[m] = e => m = k
<1> DEFINE n == IntactRecords(file)
           es == replay.entries
<1>1. file \in Seq(Cell) /\ es \in Seq(Entries \cup {Garbage})
  BY DEF TypeInv, TypeOK
<1>2. n \in Nat /\ DOMAIN es = 1 .. Len(es) /\ Len(es) \in Nat
  BY <1>1, IntactRecordsFound, LenProperties
<1>3. Len(es) >= n
  BY DEF HandedInv, Finished
<1>4. k \in 1 .. n
  BY DEF RecordOf
<1>5. \A i \in DOMAIN es :
        \/ i <= n /\ es[i] = file[i * RecordLen].entry
        \/ i > n /\ es[i] = Garbage
        \/ /\ i > n
           /\ \E p \in DOMAIN file :
                p > n * RecordLen /\ file[p] = [entry |-> es[i], at |-> PrefixLen + 1]
  BY DEF HandedInv, Finished
<1>6. /\ (k - 1) * RecordLen \in Nat /\ (k - 1) * RecordLen + RecordLen = k * RecordLen
      /\ k * RecordLen \in DOMAIN file
      /\ \A j \in 1 .. RecordLen : file[(k - 1) * RecordLen + j] = [entry |-> e, at |-> j]
  BY <1>1, RecordOfCells
<1>7. k \in DOMAIN es /\ k <= n /\ ~(k > n)
  <2> HIDE DEF n, es
  <2> QED
    BY <1>2, <1>3, <1>4
<1>8. es[k] = e
  BY <1>5, <1>7 DEF RecordOf
<1>9. ASSUME NEW m \in DOMAIN es, es[m] = e PROVE m = k
  <2>1. CASE m <= n /\ es[m] = file[m * RecordLen].entry
    <3>1. m \in 1 .. n /\ m \in Nat
      <4> HIDE DEF n, es
      <4> QED
        BY <1>2, <2>1
    <3>2. RecordOf(file, e, m)
      BY <1>9, <2>1, <3>1 DEF RecordOf
    <3>3. /\ m * RecordLen \in DOMAIN file /\ (m - 1) * RecordLen + RecordLen = m * RecordLen
          /\ \A j \in 1 .. RecordLen : file[(m - 1) * RecordLen + j] = [entry |-> e, at |-> j]
      BY <1>1, <3>1, <3>2, RecordOfCells
    <3>4. RecordLen \in 1 .. RecordLen
      BY Lengths
    <3>5. file[m * RecordLen] = file[k * RecordLen]
      <4>1. file[(m - 1) * RecordLen + RecordLen] = [entry |-> e, at |-> RecordLen]
        BY <3>3, <3>4
      <4>2. file[(k - 1) * RecordLen + RecordLen] = [entry |-> e, at |-> RecordLen]
        BY <1>6, <3>4
      <4> QED
        BY <1>6, <3>3, <4>1, <4>2
    <3>6. m * RecordLen = k * RecordLen
      BY <1>6, <3>3, <3>5 DEF PiecesInv, PiecesOnce
    <3> QED
      BY <3>1, <3>6, Places
  <2>2. es[m] # Garbage
    BY <1>9, DistinctAssumption
  <2>3. CASE \E p \in DOMAIN file :
               p > n * RecordLen /\ file[p] = [entry |-> es[m], at |-> PrefixLen + 1]
    <3>1. PICK p \in DOMAIN file :
            p > n * RecordLen /\ file[p] = [entry |-> e, at |-> PrefixLen + 1]
      BY <1>9, <2>3
    <3> DEFINE start == (k - 1) * RecordLen
               q == start + (PrefixLen + 1)
    <3>2. PrefixLen + 1 \in 1 .. RecordLen
      BY Lengths
    <3>3. file[q] = [entry |-> e, at |-> PrefixLen + 1]
      BY <1>6, <3>2
    <3>4. k * RecordLen <= n * RecordLen
      <4>1. k - 1 \in Nat /\ k - 1 < n /\ (k - 1) + 1 = k
        BY <1>2, <1>4
      <4> DEFINE c == k - 1
      <4> HIDE DEF c, n
      <4>2. (c + 1) * RecordLen <= n * RecordLen
        BY <1>2, <4>1, Places DEF c
      <4>3. c + 1 = k
        BY <4>1 DEF c
      <4> QED
        BY <4>2, <4>3
    <3> DEFINE b == k * RecordLen
               a == n * RecordLen
    <3>5. /\ start \in Nat /\ b = start + RecordLen /\ b <= a /\ a \in Nat
          /\ b \in 1 .. Len(file) /\ Len(file) \in Nat /\ DOMAIN file = 1 .. Len(file)
      BY <1>1, <1>2, <1>6, <3>4, Places, LenProperties
    <3> DEFINE len == Len(file)
    <3>6. p > a /\ p \in 1 .. len /\ b \in 1 .. len /\ len \in Nat
      BY <3>1, <3>5
    <3> HIDE DEF start, a, b, len
    <3>7. q \in 1 .. len /\ q <= b /\ b <= a
      BY <3>2, <3>5, <3>6, Lengths
    <3>8. q \in DOMAIN file
      BY <3>5, <3>7 DEF len
    <3>9. p = q
      BY <3>1, <3>3, <3>8 DEF PiecesInv, PiecesOnce
    <3>10. FALSE
      BY <3>5, <3>6, <3>7, <3>9
    <3> QED
      BY <3>10
  <2> QED
    BY <1>5, <2>1, <2>2, <2>3
<1> QED
  BY <1>7, <1>8, <1>9

\* What append answered Ok for behind whole records is handed over by every
\* later replay, once and in the order of the appends, whatever appends,
\* failed writes, syncs, crashes and power failures follow; after a power
\* failure, what a sync had followed (wal.rs append, sync, replay).
THEOREM HeldAreReplayed == Spec => []HeldEntriesReplayed
<1>1. TypeInv /\ PiecesInv /\ HeldInv /\ HandedInv => HeldEntriesReplayed
  <2> SUFFICES ASSUME TypeInv, PiecesInv, HeldInv, HandedInv, Finished
               PROVE  /\ Range(held) \subseteq Range(replay.entries)
                      /\ \A i, j \in DOMAIN held, m, n \in DOMAIN replay.entries :
                           replay.entries[m] = held[i] /\ replay.entries[n] = held[j]
                             => (m < n <=> i < j)
    BY DEF HeldEntriesReplayed
  <2>1. \A i \in DOMAIN held : held[i] \in Entries /\ i \in Nat
    <3>1. held \in Seq(Entries) /\ DOMAIN held = 1 .. Len(held) /\ Len(held) \in Nat
      BY LenProperties DEF TypeInv, TypeOK
    <3> QED
      BY <3>1, ElementOfSeq
  <2>2. \A i \in DOMAIN held : \E k \in Nat : RecordOf(file, held[i], k)
    BY DEF HeldInv, HasInOrder
  <2>3. Range(held) \subseteq Range(replay.entries)
    <3>1. ASSUME NEW i \in DOMAIN held PROVE held[i] \in Range(replay.entries)
      <4>1. PICK k \in Nat : RecordOf(file, held[i], k)
        BY <2>2
      <4>2. k \in DOMAIN replay.entries /\ replay.entries[k] = held[i]
        BY <2>1, <4>1, HandedAtPlace
      <4> QED
        BY <4>2 DEF Range
    <3> QED
      BY <3>1 DEF Range
  <2>4. ASSUME NEW i \in DOMAIN held, NEW j \in DOMAIN held, i < j,
               NEW m \in DOMAIN replay.entries, NEW n \in DOMAIN replay.entries,
               replay.entries[m] = held[i], replay.entries[n] = held[j]
        PROVE  m < n
    <3>1. PICK k \in Nat, l \in Nat :
            k < l /\ RecordOf(file, held[i], k) /\ RecordOf(file, held[j], l)
      BY <2>4 DEF HeldInv, HasInOrder
    <3>2. m = k
      BY <2>1, <2>4, <3>1, HandedAtPlace
    <3>3. n = l
      BY <2>1, <2>4, <3>1, HandedAtPlace
    <3> QED
      BY <3>1, <3>2, <3>3
  <2>5. ASSUME NEW i \in DOMAIN held,
               NEW m \in DOMAIN replay.entries, NEW n \in DOMAIN replay.entries,
               replay.entries[m] = held[i], replay.entries[n] = held[i]
        PROVE  m = n
    <3>1. PICK k \in Nat : RecordOf(file, held[i], k)
      BY <2>2
    <3>2. m = k
      BY <2>1, <2>5, <3>1, HandedAtPlace
    <3>3. n = k
      BY <2>1, <2>5, <3>1, HandedAtPlace
    <3> QED
      BY <3>2, <3>3
  <2>6. ASSUME NEW i \in DOMAIN held, NEW j \in DOMAIN held,
               NEW m \in DOMAIN replay.entries, NEW n \in DOMAIN replay.entries,
               replay.entries[m] = held[i], replay.entries[n] = held[j]
        PROVE  m < n <=> i < j
    <3>1. m \in Nat /\ n \in Nat /\ i \in Nat /\ j \in Nat
      BY <2>1, LenProperties DEF TypeInv, TypeOK
    <3>2. CASE i < j
      BY <2>4, <2>6, <3>2
    <3>3. CASE i = j
      <4>1. m = n
        BY <2>5, <2>6, <3>3
      <4> QED
        BY <3>1, <3>3, <4>1
    <3>4. CASE j < i
      <4>1. n < m
        BY <2>4, <2>6, <3>4
      <4> QED
        BY <3>1, <3>4, <4>1
    <3> QED
      BY <3>1, <3>2, <3>3, <3>4
  <2> QED
    BY <2>3, <2>6
<1> QED
  BY <1>1, InitType, NextType, InitPieces, NextPieces, InitHeld, NextHeld, InitHanded, NextHanded,
     PTL DEF Spec
=============================================================================
