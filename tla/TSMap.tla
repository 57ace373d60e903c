-------------------------------- MODULE TSMap --------------------------------
(***************************************************************************)
(* storage/src/memory.rs: the concurrent map from keys to time series.     *)
(*                                                                         *)
(* The map is a DashMap, split into shards that each have a reader-writer  *)
(* lock; a series has a reader-writer lock of its own.  A call runs in a   *)
(* thread, one step at a time, and pc[t] says where it is:                 *)
(*                                                                         *)
(*   insert                  waits for the shard (write), then the series  *)
(*                           (write), and changes the series in steps:     *)
(*                           take the open block, push it, open a new one  *)
(*   scan_range, get_series  shard (read), then series (read)              *)
(*   keys, get_stats,        walk the shards in order, holding one shard   *)
(*   seal_expired_blocks     (read) until the next is locked; the last two *)
(*                           lock each series they visit                   *)
(*   len                     locks the shards one after the other          *)
(*                                                                         *)
(* Every lock is released by a guard's scope, so who holds what is a       *)
(* function of pc: see "Guards" below.                                     *)
(***************************************************************************)
EXTENDS SeriesStorage

CONSTANTS
  Keys, Threads,
  Roles,             (* the operations each thread calls                   *)
  NumShards,         (* the DashMap's shards are 1 .. NumShards            *)
  ShardOf,           (* the shard a key hashes to                          *)
  Clock,             (* what SystemTime::now may answer                    *)
  WriterPreference   (* does a waiting writer hold up new readers?         *)

Operations ==
  {"insert", "scan_range", "get_series", "keys", "len", "get_stats", "seal_expired_blocks"}

ASSUME RolesAssumption == Roles \in [Threads -> SUBSET Operations]
ASSUME ShardsAssumption == NumShards \in Nat /\ ShardOf \in [Keys -> 1 .. NumShards]
ASSUME KeysAssumption == Nil \notin Keys
ASSUME ClockAssumption == Clock \subseteq Nat
ASSUME PreferenceAssumption == WriterPreference \in BOOLEAN

VARIABLES
  known,     (* the keys that have an entry in the map                     *)
  series,    (* the series of each key; EmptySeries for a key not known    *)
  pc,        (* where each thread is                                       *)
  call,      (* the arguments of its call; key is the entry it works on    *)
  limbo,     (* the block it took out of current_block, or Nil             *)
  shard,     (* the last shard its walk locked, 0 before the first         *)
  todo,      (* the keys of that shard it has not visited                  *)
  answer,    (* what its call has gathered, its result when pc is "done"   *)
  accepted,  (* history: the points stored by insert, per key, in order    *)
  cuts,      (* history: how many of them were stored at each seal         *)
  atCall     (* history: what was stored when the thread's call began      *)

store    == <<known, series>>
walk     == <<shard, todo>>
history  == <<accepted, cuts>>
vars     == <<store, pc, call, limbo, walk, answer, history, atCall>>

Call == [op    : Operations \cup {"none"},
         key   : Keys \cup {Nil},
         point : Point \cup {Nil},
         start : Timestamps \cup {0},
         end   : Timestamps \cup {0}]

NoCall == [op |-> "none", key |-> Nil, point |-> Nil, start |-> 0, end |-> 0]

Report == [status : {"none", "Ok", "InvalidTimeRange", "KeyNotFound"},
           points : Seq(Point),
           keys   : SUBSET Keys,
           count  : Nat,
           blocks : Nat,
           len    : Nat]

NoAnswer == [status |-> "none", points |-> <<>>, keys |-> {}, count |-> 0, blocks |-> 0, len |-> 0]

NothingAtCall == [known |-> {}, count |-> 0]

PCs ==
  {"idle", "done",
   "insert_shard", "insert_storage", "insert_body", "insert_push", "insert_new", "insert_unlock",
   "read_shard", "read_storage", "read_body", "read_unlock",
   "iter_next", "iter_storage", "iter_body", "iter_push", "iter_unlock", "len_next"}

-----------------------------------------------------------------------------
(* Guards: the locks a thread holds, as sets of shards and of keys *)

WriteShards(t) ==
  IF pc[t] \in {"insert_storage", "insert_body", "insert_push", "insert_new", "insert_unlock"}
  THEN {ShardOf[call[t].key]} ELSE {}

Walking(t) == pc[t] \in {"iter_next", "iter_storage", "iter_body", "iter_push", "iter_unlock"}

\* Faulty variant: get_stats calls len before its iterator is dropped.
ReadShardsInLen(t) ==
  CASE pc[t] \in {"read_storage", "read_body", "read_unlock"} -> {ShardOf[call[t].key]}
    [] Walking(t) /\ shard[t] > 0 -> {shard[t]}
    [] pc[t] = "len_next" /\ call[t].op = "get_stats" -> {NumShards}
    [] OTHER -> {}

ReadShards(t) ==
  CASE pc[t] \in {"read_storage", "read_body", "read_unlock"} -> {ShardOf[call[t].key]}
    [] Walking(t) /\ shard[t] > 0 -> {shard[t]}
    [] OTHER -> {}

\* Faulty variant: the sealing walk unlocks the series once it has taken the
\* open block, and pushes it afterwards.
WriteSeriesBriefly(t) ==
  IF \/ pc[t] \in {"insert_body", "insert_push", "insert_new", "insert_unlock"}
     \/ pc[t] = "iter_body" /\ call[t].op = "seal_expired_blocks"
  THEN {call[t].key} ELSE {}

WriteSeries(t) ==
  IF \/ pc[t] \in {"insert_body", "insert_push", "insert_new", "insert_unlock", "iter_push"}
     \/ pc[t] \in {"iter_body", "iter_unlock"} /\ call[t].op = "seal_expired_blocks"
  THEN {call[t].key} ELSE {}

ReadSeries(t) ==
  IF \/ pc[t] \in {"read_body", "read_unlock"}
     \/ pc[t] \in {"iter_body", "iter_unlock"} /\ call[t].op = "get_stats"
  THEN {call[t].key} ELSE {}

\* A writer that waits: it may keep new readers out (WriterPreference).
AwaitsShardWrite(t, s) == pc[t] = "insert_shard" /\ ShardOf[call[t].key] = s

AwaitsSeriesWrite(t, k) ==
  /\ call[t].key = k
  /\ \/ pc[t] = "insert_storage"
     \/ pc[t] = "iter_storage" /\ call[t].op = "seal_expired_blocks"

ShardFreeToWrite(s) == \A t \in Threads : s \notin WriteShards(t) \cup ReadShards(t)

ShardFreeToRead(s) ==
  /\ \A t \in Threads : s \notin WriteShards(t)
  /\ WriterPreference => \A t \in Threads : ~AwaitsShardWrite(t, s)

SeriesFreeToWrite(k) == \A t \in Threads : k \notin WriteSeries(t) \cup ReadSeries(t)

SeriesFreeToRead(k) ==
  /\ \A t \in Threads : k \notin WriteSeries(t)
  /\ WriterPreference => \A t \in Threads : ~AwaitsSeriesWrite(t, k)

Goto(t, from, to) == pc[t] = from /\ pc' = [pc EXCEPT ![t] = to]

KeysIn(s) == {k \in known : ShardOf[k] = s}

AcceptedTotal == SumFunction([k \in known |-> Len(accepted[k])])

-----------------------------------------------------------------------------
(* Calls begin and end *)

\* Every insert carries a value of its own, so that a value names a point.
\* The size of Values bounds the points stored.
Fresh(v) ==
  /\ \A k \in Keys : \A i \in DOMAIN accepted[k] : accepted[k][i].value # v
  /\ \A t \in Threads : call[t].point # Nil => call[t].point.value # v

\* What is stored when the call c begins, for the calls that report on it.
StoredAt(c) ==
  CASE c.op = "scan_range" -> [known |-> known, count |-> Len(accepted[c.key])]
    [] c.op \in {"keys", "get_stats"} -> [known |-> known, count |-> AcceptedTotal]
    [] OTHER -> NothingAtCall

\* Thread t makes the call c and goes on at pc "to".
Begin(t, c, to) ==
  /\ c.op \in Roles[t]
  /\ Goto(t, "idle", to)
  /\ call' = [call EXCEPT ![t] = c]
  /\ atCall' = [atCall EXCEPT ![t] = StoredAt(c)]
  /\ UNCHANGED <<store, limbo, walk, history>>

CallInsert(t) ==
  \E k \in Keys, p \in Point :
    /\ Fresh(p.value)
    /\ Begin(t, [NoCall EXCEPT !.op = "insert", !.key = k, !.point = p], "insert_shard")
    /\ UNCHANGED answer

\* scan_range with start > end fails before it looks the key up.
CallScan(t) ==
  \E k \in Keys, start, end \in Timestamps :
    LET c == [NoCall EXCEPT !.op = "scan_range", !.key = k, !.start = start, !.end = end]
    IN  \/ /\ start <= end
           /\ Begin(t, c, "read_shard")
           /\ UNCHANGED answer
        \/ /\ start > end
           /\ Begin(t, c, "done")
           /\ answer' = [answer EXCEPT ![t].status = "InvalidTimeRange"]

CallGetSeries(t) ==
  \E k \in Keys :
    /\ Begin(t, [NoCall EXCEPT !.op = "get_series", !.key = k], "read_shard")
    /\ UNCHANGED answer

CallWalk(t) ==
  \E op \in {"keys", "get_stats", "seal_expired_blocks"} :
    /\ Begin(t, [NoCall EXCEPT !.op = op], "iter_next")
    /\ UNCHANGED answer

CallLen(t) ==
  /\ Begin(t, [NoCall EXCEPT !.op = "len"], "len_next")
  /\ UNCHANGED answer

Return(t) ==
  /\ Goto(t, "done", "idle")
  /\ call' = [call EXCEPT ![t] = NoCall]
  /\ answer' = [answer EXCEPT ![t] = NoAnswer]
  /\ atCall' = [atCall EXCEPT ![t] = NothingAtCall]
  /\ UNCHANGED <<store, limbo, walk, history>>

-----------------------------------------------------------------------------
(* insert *)

\* entry(key).or_insert_with(..): the shard is locked and the entry made.
LockEntry(t) ==
  /\ Goto(t, "insert_shard", "insert_storage")
  /\ ShardFreeToWrite(ShardOf[call[t].key])
  /\ known' = known \cup {call[t].key}
  /\ UNCHANGED <<series, call, limbo, walk, answer, history, atCall>>

LockEntrySeries(t) ==
  /\ Goto(t, "insert_storage", "insert_body")
  /\ SeriesFreeToWrite(call[t].key)
  /\ UNCHANGED <<store, call, limbo, walk, answer, history, atCall>>

\* The open block takes the point.
AppendCurrent(t) ==
  LET k == call[t].key
      block == series[k].current_block
  IN  /\ Goto(t, "insert_body", "insert_unlock")
      /\ block # Nil
      /\ CanAccept(block, call[t].point.timestamp)
      /\ series' = [series EXCEPT ![k].current_block = Pushed(block, call[t].point)]
      /\ accepted' = [accepted EXCEPT ![k] = Append(@, call[t].point)]
      /\ answer' = [answer EXCEPT ![t].status = "Ok"]
      /\ UNCHANGED <<known, call, limbo, walk, cuts, atCall>>

\* Faulty variant: the open block is copied, not taken.
TakeBlockCopy(t) ==
  /\ limbo' = [limbo EXCEPT ![t] = Sealed(series[call[t].key].current_block)]
  /\ UNCHANGED series

\* The first half of seal_current_block: current_block.take(), sealed.
TakeBlock(t) ==
  LET k == call[t].key
  IN  /\ limbo' = [limbo EXCEPT ![t] = Sealed(series[k].current_block)]
      /\ series' = [series EXCEPT ![k].current_block = Nil]

\* The open block cannot take the point: it is sealed to make room.
TakeRejecting(t) ==
  LET block == series[call[t].key].current_block
  IN  /\ Goto(t, "insert_body", "insert_push")
      /\ block # Nil
      /\ ~CanAccept(block, call[t].point.timestamp)
      /\ TakeBlock(t)
      /\ UNCHANGED <<known, call, walk, answer, history, atCall>>

\* The second half of seal_current_block, called by insert and by the
\* sealing walk.  An insert keeps limbo until its new block is in place.
PushSealed(t) ==
  LET k == call[t].key
  IN  /\ \/ Goto(t, "insert_push", "insert_new") /\ UNCHANGED limbo
         \/ Goto(t, "iter_push", "iter_unlock") /\ limbo' = [limbo EXCEPT ![t] = Nil]
      /\ series' = [series EXCEPT ![k] = PushCompressed(@, limbo[t])]
      /\ cuts' = [cuts EXCEPT ![k] = Append(@, Len(accepted[k]))]
      /\ UNCHANGED <<known, call, walk, answer, accepted, atCall>>

\* A new block starts at the point and takes it, unless its end wrapped
\* round below its start: then the insert fails, after the seal.
OpenBlock(t) ==
  LET k == call[t].key
      p == call[t].point
      block == NewBlock(p.timestamp)
  IN  /\ \/ Goto(t, "insert_new", "insert_unlock")
         \/ Goto(t, "insert_body", "insert_unlock") /\ series[k].current_block = Nil
      /\ limbo' = [limbo EXCEPT ![t] = Nil]
      /\ \/ /\ CanAccept(block, p.timestamp)
            /\ series' = [series EXCEPT ![k].current_block = Pushed(block, p)]
            /\ accepted' = [accepted EXCEPT ![k] = Append(@, p)]
            /\ answer' = [answer EXCEPT ![t].status = "Ok"]
         \/ /\ ~CanAccept(block, p.timestamp)
            /\ answer' = [answer EXCEPT ![t].status = "InvalidTimeRange"]
            /\ UNCHANGED <<series, accepted>>
      /\ UNCHANGED <<known, call, walk, cuts, atCall>>

UnlockInsert(t) ==
  /\ Goto(t, "insert_unlock", "done")
  /\ UNCHANGED <<store, call, limbo, walk, answer, history, atCall>>

Insert(t) ==
  \/ CallInsert(t) \/ LockEntry(t) \/ LockEntrySeries(t)
  \/ AppendCurrent(t) \/ TakeRejecting(t) \/ OpenBlock(t) \/ UnlockInsert(t)

-----------------------------------------------------------------------------
(* scan_range and get_series *)

\* series.get(key): a missing key ends the call, and nothing stays locked.
LockShardToRead(t) ==
  /\ pc[t] = "read_shard"
  /\ ShardFreeToRead(ShardOf[call[t].key])
  /\ \/ /\ call[t].key \in known
        /\ Goto(t, "read_shard", "read_storage")
        /\ UNCHANGED answer
     \/ /\ call[t].key \notin known
        /\ Goto(t, "read_shard", "done")
        /\ answer' = [answer EXCEPT ![t].status = "KeyNotFound"]
  /\ UNCHANGED <<store, call, limbo, walk, history, atCall>>

LockSeriesToRead(t) ==
  /\ Goto(t, "read_storage", "read_body")
  /\ SeriesFreeToRead(call[t].key)
  /\ UNCHANGED <<store, call, limbo, walk, answer, history, atCall>>

ReadSeriesData(t) ==
  LET s == series[call[t].key]
  IN  /\ Goto(t, "read_body", "read_unlock")
      /\ \/ /\ call[t].op = "scan_range"
            /\ answer' = [answer EXCEPT ![t].status = "Ok",
                                        ![t].points = InRange(s, call[t].start, call[t].end)]
         \/ /\ call[t].op = "get_series"
            /\ answer' = [answer EXCEPT ![t].status = "Ok",
                                        ![t].points = CurrentPoints(s),
                                        ![t].blocks = Len(s.sealed_blocks),
                                        ![t].count = PointCount(s)]
      /\ UNCHANGED <<store, call, limbo, walk, history, atCall>>

UnlockRead(t) ==
  /\ Goto(t, "read_unlock", "done")
  /\ UNCHANGED <<store, call, limbo, walk, answer, history, atCall>>

Read(t) ==
  \/ CallScan(t) \/ CallGetSeries(t)
  \/ LockShardToRead(t) \/ LockSeriesToRead(t) \/ ReadSeriesData(t) \/ UnlockRead(t)

-----------------------------------------------------------------------------
(* keys, get_stats, seal_expired_blocks: DashMap's iterator; len *)

\* Faulty variant: a shard that is locked is passed over.
NextShardOrSkip(t) ==
  /\ Goto(t, "iter_next", "iter_next")
  /\ todo[t] = {}
  /\ shard[t] < NumShards
  /\ shard' = [shard EXCEPT ![t] = @ + 1]
  /\ todo' = [todo EXCEPT ![t] = IF ShardFreeToRead(shard[t] + 1) THEN KeysIn(shard[t] + 1) ELSE {}]
  /\ UNCHANGED <<store, call, limbo, answer, history, atCall>>

\* The iterator locks its next shard, then lets go of the one it was in.
NextShard(t) ==
  /\ Goto(t, "iter_next", "iter_next")
  /\ todo[t] = {}
  /\ shard[t] < NumShards
  /\ ShardFreeToRead(shard[t] + 1)
  /\ shard' = [shard EXCEPT ![t] = @ + 1]
  /\ todo' = [todo EXCEPT ![t] = KeysIn(shard[t] + 1)]
  /\ UNCHANGED <<store, call, limbo, answer, history, atCall>>

VisitKey(t) ==
  \E k \in todo[t] :
    /\ call[t].op = "keys"
    /\ Goto(t, "iter_next", "iter_next")
    /\ todo' = [todo EXCEPT ![t] = @ \ {k}]
    /\ answer' = [answer EXCEPT ![t].keys = @ \cup {k}]
    /\ UNCHANGED <<store, call, limbo, shard, history, atCall>>

VisitSeries(t) ==
  \E k \in todo[t] :
    /\ call[t].op \in {"get_stats", "seal_expired_blocks"}
    /\ Goto(t, "iter_next", "iter_storage")
    /\ todo' = [todo EXCEPT ![t] = @ \ {k}]
    /\ call' = [call EXCEPT ![t].key = k]
    /\ UNCHANGED <<store, limbo, shard, answer, history, atCall>>

LockVisited(t) ==
  /\ Goto(t, "iter_storage", "iter_body")
  /\ \/ call[t].op = "seal_expired_blocks" /\ SeriesFreeToWrite(call[t].key)
     \/ call[t].op = "get_stats" /\ SeriesFreeToRead(call[t].key)
  /\ UNCHANGED <<store, call, limbo, walk, answer, history, atCall>>

\* seal_if_expired: the wall clock answers anything in Clock.
SealIfExpired(t) ==
  LET block == series[call[t].key].current_block
  IN  /\ pc[t] = "iter_body"
      /\ call[t].op = "seal_expired_blocks"
      /\ \/ /\ Goto(t, "iter_body", "iter_push")
            /\ block # Nil
            /\ \E now \in Clock : ShouldSeal(block, now)
            /\ TakeBlock(t)
         \/ /\ Goto(t, "iter_body", "iter_unlock")
            /\ block # Nil => \E now \in Clock : ~ShouldSeal(block, now)
            /\ UNCHANGED <<series, limbo>>
      /\ UNCHANGED <<known, call, walk, answer, history, atCall>>

AddStats(t) ==
  LET s == series[call[t].key]
  IN  /\ call[t].op = "get_stats"
      /\ Goto(t, "iter_body", "iter_unlock")
      /\ answer' = [answer EXCEPT ![t].count = @ + PointCount(s),
                                  ![t].blocks = @ + BlockCount(s),
                                  ![t].keys = @ \cup {call[t].key}]
      /\ UNCHANGED <<store, call, limbo, walk, history, atCall>>

UnlockVisited(t) ==
  /\ Goto(t, "iter_unlock", "iter_next")
  /\ call' = [call EXCEPT ![t].key = Nil]
  /\ UNCHANGED <<store, limbo, walk, answer, history, atCall>>

\* The iterator is dropped with the last shard's lock; get_stats goes on to
\* ask for len.
EndWalk(t) ==
  /\ todo[t] = {}
  /\ shard[t] = NumShards
  /\ \/ call[t].op = "get_stats" /\ Goto(t, "iter_next", "len_next")
     \/ call[t].op # "get_stats" /\ Goto(t, "iter_next", "done")
  /\ shard' = [shard EXCEPT ![t] = 0]
  /\ UNCHANGED <<store, call, limbo, todo, answer, history, atCall>>

LenShard(t) ==
  /\ Goto(t, "len_next", "len_next")
  /\ shard[t] < NumShards
  /\ ShardFreeToRead(shard[t] + 1)
  /\ shard' = [shard EXCEPT ![t] = @ + 1]
  /\ answer' = [answer EXCEPT ![t].len = @ + Cardinality(KeysIn(shard[t] + 1))]
  /\ UNCHANGED <<store, call, limbo, todo, history, atCall>>

EndLen(t) ==
  /\ Goto(t, "len_next", "done")
  /\ shard[t] = NumShards
  /\ shard' = [shard EXCEPT ![t] = 0]
  /\ UNCHANGED <<store, call, limbo, todo, answer, history, atCall>>

Walk(t) ==
  \/ CallWalk(t) \/ NextShard(t) \/ VisitKey(t) \/ VisitSeries(t) \/ LockVisited(t)
  \/ SealIfExpired(t) \/ AddStats(t) \/ UnlockVisited(t) \/ EndWalk(t)
  \/ CallLen(t) \/ LenShard(t) \/ EndLen(t)

-----------------------------------------------------------------------------

Init ==
  /\ known = {}
  /\ series = [k \in Keys |-> EmptySeries]
  /\ pc = [t \in Threads |-> "idle"]
  /\ call = [t \in Threads |-> NoCall]
  /\ limbo = [t \in Threads |-> Nil]
  /\ shard = [t \in Threads |-> 0]
  /\ todo = [t \in Threads |-> {}]
  /\ answer = [t \in Threads |-> NoAnswer]
  /\ accepted = [k \in Keys |-> <<>>]
  /\ cuts = [k \in Keys |-> <<>>]
  /\ atCall = [t \in Threads |-> NothingAtCall]

ThreadStep(t) == Insert(t) \/ Read(t) \/ Walk(t) \/ PushSealed(t) \/ Return(t)

Next == \E t \in Threads : ThreadStep(t)

Spec == Init /\ [][Next]_vars

\* Fairness: the scheduler runs every thread that has a call in progress and
\* is not waiting for a lock, and a lock that stays free is granted.  Nothing
\* is assumed of a lock that other threads take again and again.
FairSpec == Spec /\ \A t \in Threads : WF_vars(pc[t] # "idle" /\ ThreadStep(t))

-----------------------------------------------------------------------------
(* Properties *)

\* The types of what the calls work on ...
StoreTypeOK ==
  /\ known \subseteq Keys
  /\ series \in [Keys -> Series]
  /\ pc \in [Threads -> PCs]
  /\ call \in [Threads -> Call]
  /\ limbo \in [Threads -> Block \cup {Nil}]
  /\ shard \in [Threads -> 0 .. NumShards]
  /\ todo \in [Threads -> SUBSET Keys]
  /\ accepted \in [Keys -> Seq(Point)]
  /\ cuts \in [Keys -> Seq(Nat)]

\* ... and of what they report.
ReportTypeOK ==
  /\ answer \in [Threads -> Report]
  /\ atCall \in [Threads -> [known : SUBSET Keys, count : Nat]]

\* The variables have their types.
TypeOK == StoreTypeOK /\ ReportTypeOK

LastCut(k) == IF cuts[k] = <<>> THEN 0 ELSE cuts[k][Len(cuts[k])]

CutBefore(k, i) == IF i = 1 THEN 0 ELSE cuts[k][i - 1]

\* Thread t has taken the open block of k and not yet pushed it.
Unpushed(t, k) == pc[t] \in {"insert_push", "iter_push"} /\ call[t].key = k

\* Sealed block i of k was made from the points stored between two cuts.
SealedFrom(k, i) ==
  LET first == CutBefore(k, i) + 1
      last  == cuts[k][i]
      block == series[k].sealed_blocks[i]
  IN  /\ first <= last /\ last <= Len(accepted[k])
      /\ block.count = last - first + 1
      /\ block.start_timestamp = accepted[k][first].timestamp
      /\ block.end_timestamp = accepted[k][last].timestamp
      /\ block.compressed_data = SubSeq(accepted[k], first + 1, last)

\* The points not in a sealed block yet are, in order, those of the open
\* block, or of the block a thread has taken and is about to push.
OpenHoldsRest(k) ==
  LET rest == SubSeq(accepted[k], LastCut(k) + 1, Len(accepted[k]))
  IN  /\ \A t \in Threads : Unpushed(t, k) =>
           limbo[t].points = rest /\ series[k].current_block = Nil
      /\ (\A t \in Threads : ~Unpushed(t, k)) => CurrentPoints(series[k]) = rest

\* Every point insert accepted is in exactly one block, and the blocks cut
\* the accepted points in arrival order: no interleaving of inserts and the
\* sealing task loses a point, stores it twice, seals a block twice or out of
\* order (memory.rs insert_point, seal_current_block, seal_if_expired).
ArrivalPartition ==
  \A k \in Keys :
    /\ Len(cuts[k]) = Len(series[k].sealed_blocks)
    /\ \A i \in DOMAIN cuts[k] : SealedFrom(k, i)
    /\ OpenHoldsRest(k)

\* The points of a sealed block lie within BlockDuration of the first, which
\* is the earliest, also when timestamps are close to u64::MAX
\* (block.rs can_accept and its wrapping end_time).
BlockSpan ==
  \A k \in Keys : \A i \in DOMAIN cuts[k] :
    \A j \in CutBefore(k, i) + 1 .. cuts[k][i] :
      LET start == series[k].sealed_blocks[i].start_timestamp
      IN  /\ start <= accepted[k][j].timestamp
          /\ accepted[k][j].timestamp < start + BlockDuration

\* While a thread has a series locked to read, the series does not change;
\* while it has a shard locked to read, no key enters the shard, so an
\* iterator's table does not change under it (the guards of memory.rs).
StableUnderRead ==
  [][\A t \in Threads :
       /\ \A k \in ReadSeries(t) : series'[k] = series[k]
       /\ \A s \in ReadShards(t) : KeysIn(s)' = KeysIn(s)]_vars

\* get_stats is not a snapshot of the map, but the points it counts are never
\* fewer than were stored when the call began and never more than have been
\* stored since (memory.rs get_stats).
StatsBracketed ==
  \A t \in Threads : pc[t] = "done" /\ call[t].op = "get_stats" =>
    atCall[t].count <= answer[t].count /\ answer[t].count <= AcceptedTotal

\* A walk visits every key that was in the map when it began, and the
\* series_count that get_stats takes afterwards is no less than the number of
\* series it added up (memory.rs keys, get_stats).
WalkMissesNoKey ==
  \A t \in Threads : pc[t] = "done" =>
    /\ call[t].op \in {"keys", "get_stats"} =>
         atCall[t].known \subseteq answer[t].keys /\ answer[t].keys \subseteq known
    /\ call[t].op = "get_stats" => Cardinality(answer[t].keys) <= answer[t].len

\* A scan finds every point in its range that was stored before the call and
\* has not been sealed since, and a key that was in the map when the call
\* began is found (memory.rs scan_range).
ScanSeesUnsealed ==
  \A t \in Threads : pc[t] = "done" /\ call[t].op = "scan_range" =>
    LET k == call[t].key
    IN  /\ answer[t].status = "KeyNotFound" => k \notin atCall[t].known
        /\ answer[t].status = "Ok" =>
             \A i \in LastCut(k) + 1 .. atCall[t].count :
               /\ call[t].start <= accepted[k][i].timestamp
               /\ accepted[k][i].timestamp <= call[t].end
               => accepted[k][i] \in Range(answer[t].points)

\* Once no new call begins, every call in progress returns: no order of the
\* locks the calls take, nor of the writers and readers waiting for them,
\* blocks a thread for ever (the guards of memory.rs over DashMap's shards).
CallsReturn ==
  <>[][\A t \in Threads : pc[t] = "idle" => pc'[t] = "idle"]_vars =>
    \A t \in Threads : pc[t] # "idle" ~> pc[t] = "idle"

\* Claimed, and false: the range a sealed block carries, which scan_range
\* tests before it skips the block, covers the block's points.
RangeCoversBlock ==
  \A k \in Keys : \A i \in DOMAIN cuts[k] :
    \A j \in CutBefore(k, i) + 1 .. cuts[k][i] :
      accepted[k][j].timestamp <= series[k].sealed_blocks[i].end_timestamp

\* Claimed, and false: a range query answers the stored points in its range.
ScanComplete ==
  \A t \in Threads : pc[t] = "done" /\ call[t].op = "scan_range" /\ answer[t].status = "Ok" =>
    \A i \in 1 .. atCall[t].count :
      LET p == accepted[call[t].key][i]
      IN  call[t].start <= p.timestamp /\ p.timestamp <= call[t].end => p \in Range(answer[t].points)

=============================================================================
