---------------------------- MODULE WriteAheadLog ----------------------------
(***************************************************************************)
(* storage/src/wal.rs: an append-only file of records, each a length       *)
(* prefix and an encoded entry, that a restarted program replays.          *)
(*                                                                         *)
(* The file is a sequence of cells: cell [entry |-> e, at |-> i] is the    *)
(* i-th piece of the record of entry e, the first PrefixLen pieces are its *)
(* length prefix.  A record is written cell by cell, because write_all may *)
(* issue several writes: an error, the death of the process or the loss of *)
(* power between two of them leaves a torn record.  What the cells of a    *)
(* torn record mean to a reader that takes them for a prefix or an entry   *)
(* is not determined: any length up to MaxLength, any outcome of decoding. *)
(*                                                                         *)
(* The log is not written or replayed by the server yet; the model's       *)
(* caller uses it as its tests do and as a recovering server would.        *)
(***************************************************************************)
EXTENDS Integers, Sequences, SequencesExt

CONSTANTS
  Entries,        (* the entries appended, each at most once: they differ  *)
                  (* by their own timestamp                                *)
  Garbage,        (* an entry nobody appended                              *)
  Nil,
  PrefixLen,      (* cells of a length prefix                              *)
  DataLen,        (* cells of an encoded entry                             *)
  MaxLength,      (* the largest length a misread prefix may announce      *)
  MaxStops        (* bound: crashes and power failures                     *)

ASSUME LengthAssumption == {PrefixLen, DataLen, MaxLength} \subseteq Nat \ {0}
ASSUME StopsAssumption == MaxStops \in Nat
ASSUME DistinctAssumption == Garbage \notin Entries /\ Nil \notin Entries

RecordLen == PrefixLen + DataLen

Cell == [entry : Entries, at : 1 .. RecordLen]

Record(e) == [i \in 1 .. RecordLen |-> [entry |-> e, at |-> i]]

NoReplay == [status |-> "none", pos |-> 0, entries |-> <<>>]

VARIABLES
  file,      (* what a reader of the file finds                            *)
  disk,      (* what of it the last sync_all has put on stable storage     *)
  log,       (* the open WriteAheadLog, or Nil                             *)
  writing,   (* the append in progress, or Nil                             *)
  replay,    (* the replay in progress, or the last one's result           *)
  stops,
  appended,  (* history: the entries append was called with                *)
  acked,     (* history: those it answered Ok for, since the last truncate *)
             (* or power failure                                           *)
  held,      (* history: those of them the file had only whole records for *)
  secured,   (* history: those of held a sync has followed                 *)
  dropped,   (* history: entries truncated and not yet synced away         *)
  gone       (* history: entries whose truncation a sync has followed      *)

handle  == <<log, writing, replay>>
history == <<appended, acked, held, secured, dropped, gone>>
vars    == <<file, disk, handle, stops, history>>

-----------------------------------------------------------------------------
(* What is in the file *)

\* Is there a whole record of one entry at the n-th record's place?
WholeRecord(f, n) ==
  \E e \in Entries : SubSeq(f, (n - 1) * RecordLen + 1, n * RecordLen) = Record(e)

\* The longest run of whole records the file begins with.
IntactRecords(f) ==
  CHOOSE n \in 0 .. Len(f) \div RecordLen :
    /\ \A i \in 1 .. n : WholeRecord(f, i)
    /\ n + 1 <= Len(f) \div RecordLen => ~WholeRecord(f, n + 1)

IntactEntries(f) == [n \in 1 .. IntactRecords(f) |-> f[n * RecordLen].entry]

Whole(f) == Len(f) = IntactRecords(f) * RecordLen

\* What the file may hold when power returns: the synced content, or that and
\* any part of what was written since; a truncation not synced may be undone.
CrashImages ==
  {disk} \cup {f \in Prefixes(file) : IsPrefix(disk, file) => IsPrefix(disk, f)}

-----------------------------------------------------------------------------
(* Operations of the open log.  append and truncate borrow it mutably and  *)
(* replay shares it, so they never overlap.                                *)

Free == log # Nil /\ writing = Nil /\ replay.status # "running"

Create ==
  /\ log = Nil
  /\ log' = [entry_count |-> 0]
  /\ UNCHANGED <<file, disk, writing, replay, stops, history>>

BeginAppend(e) ==
  /\ Free
  /\ e \notin appended
  /\ writing' = [entry |-> e, cells |-> 0, clean |-> Whole(file)]
  /\ appended' = appended \cup {e}
  /\ replay' = NoReplay
  /\ UNCHANGED <<file, disk, log, stops, acked, held, secured, dropped, gone>>

WriteCell ==
  /\ writing # Nil
  /\ writing.cells < RecordLen
  /\ file' = Append(file, Record(writing.entry)[writing.cells + 1])
  /\ writing' = [writing EXCEPT !.cells = @ + 1]
  /\ UNCHANGED <<disk, log, replay, stops, history>>

\* A write fails: append answers Err, and what it has written stays.
FailAppend ==
  /\ writing # Nil
  /\ writing.cells < RecordLen
  /\ writing' = Nil
  /\ UNCHANGED <<file, disk, log, replay, stops, history>>

\* flush does nothing to a File.
AckAppend ==
  /\ writing # Nil
  /\ writing.cells = RecordLen
  /\ log' = [log EXCEPT !.entry_count = @ + 1]
  /\ writing' = Nil
  /\ acked' = Append(acked, writing.entry)
  /\ held' = IF writing.clean THEN Append(held, writing.entry) ELSE held
  /\ UNCHANGED <<file, disk, replay, stops, appended, secured, dropped, gone>>

\* Faulty variant: entry_count is not reset.
TruncateKeepingCount ==
  /\ Free
  /\ file' = <<>>
  /\ replay' = NoReplay
  /\ acked' = <<>> /\ held' = <<>> /\ secured' = <<>>
  /\ dropped' = dropped \cup appended
  /\ UNCHANGED <<log, disk, writing, stops, appended, gone>>

\* Faulty variant: the writer goes back to the start and the file keeps its
\* length.
TruncateBySeek ==
  /\ Free
  /\ log' = [entry_count |-> 0]
  /\ replay' = NoReplay
  /\ acked' = <<>> /\ held' = <<>> /\ secured' = <<>>
  /\ dropped' = dropped \cup appended
  /\ UNCHANGED <<file, disk, writing, stops, appended, gone>>

Truncate ==
  /\ Free
  /\ file' = <<>>
  /\ log' = [entry_count |-> 0]
  /\ replay' = NoReplay
  /\ acked' = <<>> /\ held' = <<>> /\ secured' = <<>>
  /\ dropped' = dropped \cup appended
  /\ UNCHANGED <<disk, writing, stops, appended, gone>>

\* Faulty variant: flushing the File instead of syncing it.
SyncByFlush ==
  /\ Free
  /\ replay' = NoReplay
  /\ secured' = held
  /\ gone' = gone \cup dropped
  /\ dropped' = {}
  /\ UNCHANGED <<file, disk, log, writing, stops, appended, acked, held>>

Sync ==
  /\ Free
  /\ disk' = file
  /\ replay' = NoReplay
  /\ secured' = held
  /\ gone' = gone \cup dropped
  /\ dropped' = {}
  /\ UNCHANGED <<file, log, writing, stops, appended, acked, held>>

-----------------------------------------------------------------------------
(* replay *)

BeginReplay ==
  /\ Free
  /\ replay' = [NoReplay EXCEPT !.status = "running"]
  /\ UNCHANGED <<file, disk, log, writing, stops, history>>

Unread == Len(file) - replay.pos

\* The entries whose record's pieces from .. to are the cells after pos.
PieceOf(pos, from, to) ==
  {e \in Entries :
     /\ pos + to - from < Len(file)
     /\ SubSeq(file, pos + 1, pos + to - from + 1) = SubSeq(Record(e), from, to)}

\* The lengths the prefix at pos may be read as.
LengthsAt(pos) == IF PieceOf(pos, 1, PrefixLen) # {} THEN {DataLen} ELSE 0 .. MaxLength

\* What decoding the n cells from pos on may yield; Nil if they cannot be
\* decoded.
DecodedAt(pos, n) ==
  IF n = DataLen /\ PieceOf(pos, PrefixLen + 1, RecordLen) # {}
  THEN PieceOf(pos, PrefixLen + 1, RecordLen)
  ELSE {Garbage, Nil}

EndReplay(status) ==
  /\ replay' = [replay EXCEPT !.status = status]
  /\ UNCHANGED <<file, disk, log, writing, stops, history>>

\* Faulty variant: the end of the file is an error like another.
ReplayEofFails ==
  /\ replay.status = "running"
  /\ Unread < PrefixLen
  /\ EndReplay("err")

\* Less than a prefix is left: the loop ends.
ReplayEof ==
  /\ replay.status = "running"
  /\ Unread < PrefixLen
  /\ EndReplay("ok")

\* A length prefix announces more than is left, or what it announces cannot
\* be decoded: replay answers Err.
ReplayTorn ==
  /\ replay.status = "running"
  /\ Unread >= PrefixLen
  /\ \E n \in LengthsAt(replay.pos) :
       \/ n > Unread - PrefixLen
       \/ n <= Unread - PrefixLen /\ Nil \in DecodedAt(replay.pos + PrefixLen, n)
  /\ EndReplay("err")

\* The callback or a read fails: replay answers that error.
ReplayRefused == replay.status = "running" /\ EndReplay("refused")

\* Faulty variant: the entry is read with read, which may read less.
ReplayRecordShort ==
  /\ replay.status = "running"
  /\ Unread >= PrefixLen
  /\ \E n \in LengthsAt(replay.pos) :
       \E e \in DecodedAt(replay.pos + PrefixLen, n) \ {Nil} :
         replay' = [replay EXCEPT !.pos = @ + PrefixLen + n, !.entries = Append(@, e)]
  /\ UNCHANGED <<file, disk, log, writing, stops, history>>

ReplayRecord ==
  /\ replay.status = "running"
  /\ Unread >= PrefixLen
  /\ \E n \in LengthsAt(replay.pos) :
       /\ n <= Unread - PrefixLen
       /\ \E e \in DecodedAt(replay.pos + PrefixLen, n) \ {Nil} :
            replay' = [replay EXCEPT !.pos = @ + PrefixLen + n, !.entries = Append(@, e)]
  /\ UNCHANGED <<file, disk, log, writing, stops, history>>

-----------------------------------------------------------------------------
(* The program stops *)

\* The process dies, or drops the log; what it has written stays in the file.
Crash ==
  /\ log # Nil
  /\ stops < MaxStops
  /\ stops' = stops + 1
  /\ log' = Nil /\ writing' = Nil /\ replay' = NoReplay
  /\ UNCHANGED <<file, disk, history>>

\* The machine dies: what was not synced may be lost.
PowerFailure ==
  /\ stops < MaxStops
  /\ stops' = stops + 1
  /\ log' = Nil /\ writing' = Nil /\ replay' = NoReplay
  /\ \E f \in CrashImages : file' = f /\ disk' = f
  /\ acked' = secured /\ held' = secured /\ dropped' = {}
  /\ UNCHANGED <<appended, secured, gone>>

-----------------------------------------------------------------------------
Init ==
  /\ file = <<>> /\ disk = <<>>
  /\ log = Nil /\ writing = Nil /\ replay = NoReplay
  /\ stops = 0
  /\ appended = {} /\ acked = <<>> /\ held = <<>> /\ secured = <<>>
  /\ dropped = {} /\ gone = {}

Next ==
  \/ Create
  \/ \E e \in Entries : BeginAppend(e)
  \/ WriteCell \/ FailAppend \/ AckAppend
  \/ Truncate
  \/ Sync
  \/ BeginReplay \/ ReplayEof \/ ReplayTorn \/ ReplayRefused \/ ReplayRecord
  \/ Crash \/ PowerFailure

Spec == Init /\ [][Next]_vars

-----------------------------------------------------------------------------
(* Properties *)

\* Every variable has its type; the write in progress has no more cells than
\* a record, and a replay is never past the end of the file.
TypeOK ==
  /\ file \in Seq(Cell) /\ disk \in Seq(Cell)
  /\ log \in [entry_count : Nat] \cup {Nil}
  /\ writing \in [entry : Entries, cells : 0 .. RecordLen, clean : BOOLEAN] \cup {Nil}
  /\ replay \in [status : {"none", "running", "ok", "err", "refused"},
                 pos : 0 .. Len(file), entries : Seq(Entries \cup {Garbage})]
  /\ stops \in 0 .. MaxStops
  /\ appended \subseteq Entries /\ dropped \subseteq Entries /\ gone \subseteq Entries
  /\ acked \in Seq(Entries) /\ held \in Seq(Entries) /\ secured \in Seq(Entries)

Finished == replay.status \in {"ok", "err"}

\* An entry append answered Ok for while the file had no torn record is
\* handed to the callback by every later replay, once, in the order of the
\* appends, whatever the process has gone through since; after a power failure
\* this is promised of the entries a sync had followed.
HeldEntriesReplayed ==
  Finished =>
    /\ Range(held) \subseteq Range(replay.entries)
    /\ \A i, j \in DOMAIN held, m, n \in DOMAIN replay.entries :
         replay.entries[m] = held[i] /\ replay.entries[n] = held[j] => (m < n <=> i < j)

\* When no record is torn, replay answers Ok, with the file's entries and
\* nothing else.
WholeFileReplaysExactly ==
  Finished /\ Whole(file) => replay.status = "ok" /\ replay.entries = IntactEntries(file)

\* What was truncated away, with a sync after it, never comes back, even
\* when power fails between later writes.
TruncatedStaysGone == Finished => Range(replay.entries) \cap gone = {}

\* entry_count never promises more entries than a replay of a file without
\* torn records finds, whichever handles wrote them.
CountedEntriesReplayed ==
  Finished /\ Whole(file) => log.entry_count <= Len(replay.entries)

\* The round trip of test_wal_append_and_replay: every entry append answered
\* Ok for is replayed.
AckedEntriesReplayed == Finished => Range(acked) \subseteq Range(replay.entries)
=============================================================================
