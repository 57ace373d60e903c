------------------------ MODULE TSMapRefinementProofs ------------------------
(***************************************************************************)
(* The map implements PointStore, for every number of threads, keys and    *)
(* shards, any timestamps, block duration and clock.                       *)
(*                                                                         *)
(* Each step of a thread is a step of PointStore under the mapping of      *)
(* TSMapRefinement, or changes nothing there (StepSimulates).  On top of   *)
(* the invariants of TSMapProofs this needs to know what call a thread is  *)
(* in and whether it has its answer (OpOK), that the window of a block in  *)
(* use has not wrapped round (OpenOK), and why a thread has taken a block  *)
(* and how far it has got (TakenOK).                                       *)
(***************************************************************************)
EXTENDS TSMapRefinement, TSMapProofs

-----------------------------------------------------------------------------
(* Calls and answers *)

ReadPCs == {"read_shard", "read_storage", "read_body", "read_unlock"}

WalkPCs == {"iter_next", "iter_storage", "iter_body", "iter_push", "iter_unlock", "len_next"}

\* The thread has found its key in the map, or put it there.
FoundPCs == {"insert_storage", "insert_body", "insert_push", "insert_new", "insert_unlock",
             "read_storage", "read_body", "read_unlock"}

OnSeriesOps == {"insert", "scan_range", "get_series"}

WalkOps == {"keys", "len", "get_stats", "seal_expired_blocks"}

Answered(t) ==
  \/ pc[t] \in {"insert_unlock", "read_unlock"}
  \/ pc[t] = "done" /\ call[t].op \in OnSeriesOps

OpOK(t) ==
  /\ pc[t] \in InsertPCs => call[t].op = "insert"
  /\ pc[t] \in ReadPCs => call[t].op \in {"scan_range", "get_series"}
  /\ pc[t] \in WalkPCs => call[t].op \in WalkOps
  /\ (pc[t] = "idle") <=> (call[t].op = "none")
  /\ pc[t] \in FoundPCs => call[t].key \in known
  /\ (answer[t].status # "none") <=> Answered(t)

\* A call that begins.
LEMMA BeginOp ==
  ASSUME TypeInv, ReportTypeOK, NEW t \in Threads, OpOK(t),
         CallInsert(t) \/ CallScan(t) \/ CallGetSeries(t) \/ CallWalk(t) \/ CallLen(t)
  PROVE  OpOK(t)'
<1>1. ASSUME NEW c, NEW to, Begin(t, c, to)
      PROVE  /\ pc[t] = "idle" /\ pc'[t] = to /\ call'[t] = c /\ answer[t].status = "none"
             /\ answer' = answer => answer'[t].status = "none"
  BY <1>1 DEF Begin, Goto, TypeInv, StoreTypeOK, OpOK, Answered
<1>2. CASE CallInsert(t)
  <2> DEFINE C(key, p) == [NoCall EXCEPT !.op = "insert", !.key = key, !.point = p]
  <2>1. PICK key \in Keys, p \in Point : Begin(t, C(key, p), "insert_shard") /\ answer' = answer
    BY <1>2 DEF CallInsert
  <2>2. C(key, p).op = "insert"
    BY DEF NoCall
  <2> HIDE DEF C
  <2>3. call'[t].op = "insert" /\ pc'[t] = "insert_shard" /\ answer'[t].status = "none"
    BY <1>1, <2>1, <2>2
  <2> QED
    BY <2>3 DEF OpOK, Answered, InsertPCs, ReadPCs, WalkPCs, FoundPCs
<1>3. CASE CallScan(t)
  <2> DEFINE C(key, start, end) ==
        [NoCall EXCEPT !.op = "scan_range", !.key = key, !.start = start, !.end = end]
  <2>1. PICK key \in Keys, start, end \in Timestamps :
          \/ Begin(t, C(key, start, end), "read_shard") /\ answer' = answer
          \/ /\ Begin(t, C(key, start, end), "done")
             /\ answer' = [answer EXCEPT ![t].status = "InvalidTimeRange"]
    BY <1>3 DEF CallScan
  <2>2. C(key, start, end).op = "scan_range"
    BY DEF NoCall
  <2> HIDE DEF C
  <2>3. call'[t].op = "scan_range"
    BY <1>1, <2>1, <2>2
  <2>4. \/ pc'[t] = "read_shard" /\ answer'[t].status = "none"
        \/ pc'[t] = "done" /\ answer'[t].status = "InvalidTimeRange"
    BY <1>1, <2>1 DEF ReportTypeOK, Report
  <2> QED
    BY <2>3, <2>4 DEF OpOK, Answered, InsertPCs, ReadPCs, WalkPCs, FoundPCs, OnSeriesOps
<1>4. CASE CallGetSeries(t)
  <2> DEFINE C(key) == [NoCall EXCEPT !.op = "get_series", !.key = key]
  <2>1. PICK key \in Keys : Begin(t, C(key), "read_shard") /\ answer' = answer
    BY <1>4 DEF CallGetSeries
  <2>2. C(key).op = "get_series"
    BY DEF NoCall
  <2> HIDE DEF C
  <2>3. call'[t].op = "get_series" /\ pc'[t] = "read_shard" /\ answer'[t].status = "none"
    BY <1>1, <2>1, <2>2
  <2> QED
    BY <2>3 DEF OpOK, Answered, InsertPCs, ReadPCs, WalkPCs, FoundPCs
<1>5. CASE CallWalk(t)
  BY <1>1, <1>5 DEF CallWalk, NoCall, OpOK, Answered, InsertPCs, ReadPCs, WalkPCs, FoundPCs, WalkOps
<1>6. CASE CallLen(t)
  BY <1>1, <1>6 DEF CallLen, NoCall, OpOK, Answered, InsertPCs, ReadPCs, WalkPCs, FoundPCs, WalkOps
<1> QED
  BY <1>2, <1>3, <1>4, <1>5, <1>6

\* The thread's own steps.
LEMMA OwnOp ==
  ASSUME TypeInv, ReportTypeOK, NEW t \in Threads, OpOK(t), MoveStep(t) \/ SeriesStep(t)
  PROVE  OpOK(t)'
<1>1. /\ pc \in [Threads -> PCs] /\ call \in [Threads -> Call]
      /\ DOMAIN answer = Threads /\ answer[t] \in Report
  BY DEF TypeInv, StoreTypeOK, ReportTypeOK
<1> USE DEF OpOK, Answered, InsertPCs, ReadPCs, WalkPCs, FoundPCs, OnSeriesOps, WalkOps, Goto, store
<1>2. CASE LockEntry(t) \/ LockEntrySeries(t) \/ UnlockInsert(t)
  BY <1>1, <1>2 DEF LockEntry, LockEntrySeries, UnlockInsert
<1>3. CASE LockShardToRead(t)
  BY <1>1, <1>3 DEF LockShardToRead, Report
<1>4. CASE LockSeriesToRead(t) \/ UnlockRead(t)
  BY <1>1, <1>4 DEF LockSeriesToRead, UnlockRead
<1>5. CASE ReadSeriesData(t)
  <2>1. /\ pc[t] = "read_body" /\ pc'[t] = "read_unlock" /\ call' = call /\ known' = known
        /\ answer'[t].status = "Ok"
    BY <1>1, <1>5 DEF ReadSeriesData, Report
  <2> QED
    BY <1>1, <2>1
<1>6. CASE NextShard(t) \/ LockVisited(t)
  BY <1>1, <1>6 DEF NextShard, LockVisited
<1>7. CASE VisitKey(t) \/ AddStats(t) \/ LenShard(t)
  <2>1. answer'[t].status = answer[t].status
    BY <1>1, <1>7 DEF VisitKey, AddStats, LenShard, Report
  <2> QED
    BY <1>1, <1>7, <2>1 DEF VisitKey, AddStats, LenShard
<1>8. CASE VisitSeries(t) \/ UnlockVisited(t)
  <2>1. call'[t].op = call[t].op /\ answer' = answer
    BY <1>1, <1>8 DEF VisitSeries, UnlockVisited, Call
  <2> QED
    BY <1>1, <1>8, <2>1 DEF VisitSeries, UnlockVisited
<1>9. CASE EndWalk(t) \/ EndLen(t)
  BY <1>1, <1>9 DEF EndWalk, EndLen
<1>10. CASE Return(t)
  BY <1>1, <1>10 DEF Return, NoCall, NoAnswer
<1>11. CASE AppendCurrent(t) \/ OpenBlock(t)
  <2>1. answer'[t].status \in {"Ok", "InvalidTimeRange"}
    BY <1>1, <1>11 DEF AppendCurrent, OpenBlock, Report
  <2> QED
    BY <1>1, <1>11, <2>1 DEF AppendCurrent, OpenBlock
<1>12. CASE TakeRejecting(t) \/ SealIfExpired(t) \/ PushSealed(t)
  BY <1>1, <1>12 DEF TakeRejecting, SealIfExpired, PushSealed
<1> QED
  BY <1>2, <1>3, <1>4, <1>5, <1>6, <1>7, <1>8, <1>9, <1>10, <1>11, <1>12 DEF MoveStep, SeriesStep

\* Whose answer is whose.
CallInv == \A t \in Threads : OpOK(t)

\* Every step keeps track of calls and answers.
LEMMA NextCall ==
  ASSUME TypeInv, WalkInv, ReportTypeOK, CallInv, NEW t \in Threads, ThreadStep(t)
  PROVE  CallInv'
<1>1. OpOK(t)'
  BY ThreadStepCases, BeginOp, OwnOp DEF CallInv
<1>2. ASSUME NEW u \in Threads \ {t} PROVE OpOK(u)'
  <2>1. /\ pc'[u] = pc[u] /\ call'[u] = call[u] /\ answer'[u] = answer[u]
        /\ known \subseteq known'
    BY StepLocks, OthersWalk, KnownGrows
  <2> QED
    BY <2>1 DEF CallInv, OpOK, Answered
<1> QED
  BY <1>1, <1>2 DEF CallInv

-----------------------------------------------------------------------------
(* Windows of the blocks in use *)

\* The end of a block's window is after its start, not wrapped round.
Unwrapped(b) == b.end_time = b.start_time + BlockDuration

OpenOK(b) == Unwrapped(b) /\ ~b.is_sealed

\* A thread has taken a block because its point does not fit there, or
\* because the block has expired; then it pushes the block.
TakenOK(t) ==
  /\ Unwrapped(limbo[t])
  /\ pc[t] \in {"insert_push", "insert_new"} =>
       ~ (/\ limbo[t].start_time <= call[t].point.timestamp
          /\ call[t].point.timestamp < limbo[t].end_time)
  /\ pc[t] = "iter_push" => \E now \in Clock : now >= limbo[t].end_time
  /\ pc[t] = "insert_new" =>
       LET blocks == series[call[t].key].sealed_blocks
       IN  blocks # <<>> /\ blocks[Len(blocks)].count = Len(limbo[t].points)

WindowsInv ==
  /\ \A k \in Keys : series[k].current_block # Nil => OpenOK(series[k].current_block)
  /\ \A t \in Threads : limbo[t] # Nil => TakenOK(t)

\* The remainder of a number less than twice the modulus.
LEMMA WrappedOnce ==
  ASSUME NEW n \in Nat \ {0}, NEW x \in Nat, n <= x, x < 2 * n
  PROVE  x % n = x - n
<1> DEFINE q == x \div n
           r == x % n
<1>1. q \in Int /\ r \in 0 .. n - 1 /\ x = n * q + r
  OBVIOUS
<1> HIDE DEF q, r
<1>2. q >= 1
  <2> SUFFICES ASSUME q <= 0 PROVE FALSE
    BY <1>1
  <2>1. n * q <= 0
    BY <1>1
  <2> QED
    BY <1>1, <2>1
<1>3. q <= 1
  <2> SUFFICES ASSUME q >= 2 PROVE FALSE
    BY <1>1
  <2>1. n * q >= 2 * n
    BY <1>1
  <2> QED
    BY <1>1, <2>1
<1>4. q = 1
  BY <1>1, <1>2, <1>3
<1>5. r = x - n
  BY <1>1, <1>4
<1> QED
  BY <1>5 DEF r

\* A new block takes the point it was opened for just when its window ends
\* before the clock does.
LEMMA NewWindow ==
  ASSUME NEW p \in Point
  PROVE  LET block == NewBlock(p.timestamp)
         IN  /\ CanAccept(block, p.timestamp) <=> p.timestamp + BlockDuration < Modulus
             /\ CanAccept(block, p.timestamp) => OpenOK(Pushed(block, p))
<1> DEFINE x == p.timestamp
           end == (x + BlockDuration) % Modulus
<1>1. /\ x \in Nat /\ x < Modulus /\ Modulus \in Nat \ {0} /\ BlockDuration \in Nat
      /\ BlockDuration < Modulus /\ BlockDuration > 0
  BY PointTypes, TimestampsAssumption, ModulusAssumption, DurationAssumption
<1>2. CASE x + BlockDuration < Modulus
  <2>1. end = x + BlockDuration
    <3> HIDE DEF x
    <3> QED
      BY <1>1, <1>2
  <2> QED
    BY <1>1, <1>2, <2>1 DEF CanAccept, NewBlock, OpenOK, Unwrapped, Pushed
<1>3. CASE ~(x + BlockDuration < Modulus)
  <2>1. \A y \in Nat : Modulus <= y /\ y < 2 * Modulus => y % Modulus = y - Modulus
    BY <1>1, WrappedOnce
  <2>2. ~(x < end)
    <3> HIDE DEF x
    <3>1. (x + BlockDuration) % Modulus = (x + BlockDuration) - Modulus
      <4>1. /\ x + BlockDuration \in Nat /\ Modulus <= x + BlockDuration
            /\ x + BlockDuration < 2 * Modulus
        BY <1>1, <1>3
      <4> QED
        BY <2>1, <4>1, Zenon
    <3>2. (x + BlockDuration) - Modulus < x
      BY <1>1
    <3> HIDE DEF end
    <3>3. end = (x + BlockDuration) % Modulus
      BY Zenon DEF end
    <3>4. end < x
      BY <3>1, <3>2, <3>3, Zenon
    <3>5. end \in Int
      BY <1>1, <3>1, <3>3
    <3> QED
      BY <1>1, <3>4, <3>5
  <2> QED
    BY <1>3, <2>2 DEF CanAccept, NewBlock
<1> QED
  BY <1>2, <1>3

\* The thread's step on its series keeps the windows of the blocks it leaves
\* there and of the block it has taken.
LEMMA OwnWindows ==
  ASSUME Inv, WindowsInv, NEW t \in Threads, SeriesStep(t), NEW key \in Keys, key = call[t].key
  PROVE  /\ series'[key].current_block # Nil => OpenOK(series'[key].current_block)
         /\ limbo'[t] # Nil => TakenOK(t)'
<1> DEFINE p == call[t].point
           s == series[key]
           block == s.current_block
<1>1. /\ pc \in [Threads -> PCs] /\ call' = call /\ limbo \in [Threads -> Block \cup {Nil}]
      /\ series \in [Keys -> Series] /\ s \in Series /\ block \in Block \cup {Nil}
      /\ Nil \notin Block
      /\ pc[t] \in HandlingPCs <=> limbo[t] # Nil
      /\ pc[t] \in InsertPCs => p \in Point
  BY SeriesStepWrites, NilIsNoBlock DEF Inv, TypeInv, StoreTypeOK, Control, Series
<1>2. /\ block # Nil => OpenOK(block) /\ block \in Block
      /\ limbo[t] # Nil => TakenOK(t) /\ limbo[t] \in Block /\ limbo[t].points # <<>>
  BY <1>1 DEF WindowsInv, Inv, BlocksOK, InWindow
<1> USE DEF Goto, HandlingPCs
<1>3. CASE AppendCurrent(t)
  <2>1. /\ series'[key].current_block = Pushed(block, p) /\ block # Nil
        /\ pc[t] = "insert_body" /\ limbo' = limbo
    BY <1>1, <1>3 DEF AppendCurrent, Series
  <2>2. OpenOK(Pushed(block, p))
    BY <1>2, <2>1 DEF Pushed, Block, OpenOK, Unwrapped
  <2> QED
    BY <1>1, <2>1, <2>2
<1>4. ASSUME block # Nil, TakeBlock(t)
      PROVE  /\ series'[key].current_block = Nil
             /\ limbo'[t] = Sealed(block)
             /\ Sealed(block).start_time = block.start_time
             /\ Sealed(block).end_time = block.end_time
             /\ Unwrapped(Sealed(block))
  BY <1>1, <1>2, <1>4 DEF TakeBlock, Sealed, Series, Block, OpenOK, Unwrapped
<1>5. CASE TakeRejecting(t)
  <2>1. /\ block # Nil /\ TakeBlock(t) /\ pc'[t] = "insert_push"
        /\ ~CanAccept(block, p.timestamp)
    BY <1>1, <1>5 DEF TakeRejecting
  <2>2. ~(block.start_time <= p.timestamp /\ p.timestamp < block.end_time)
    BY <1>2, <2>1 DEF CanAccept, OpenOK
  <2> QED
    BY <1>1, <1>4, <2>1, <2>2 DEF TakenOK
<1>6. CASE SealIfExpired(t)
  <2>1. CASE UNCHANGED <<series, limbo>> /\ pc'[t] = "iter_unlock" /\ pc[t] = "iter_body"
    BY <1>1, <1>2, <2>1
  <2>2. CASE /\ pc'[t] = "iter_push" /\ block # Nil /\ TakeBlock(t)
             /\ \E now \in Clock : ShouldSeal(block, now)
    BY <1>1, <1>4, <2>2 DEF TakenOK, ShouldSeal
  <2> QED
    BY <1>1, <1>6, <2>1, <2>2 DEF SealIfExpired
<1>7. CASE PushSealed(t)
  <2>1. /\ pc[t] \in HandlingPCs
        /\ series'[key] = PushCompressed(s, limbo[t])
        /\ \/ pc[t] = "insert_push" /\ pc'[t] = "insert_new" /\ limbo' = limbo
           \/ pc'[t] = "iter_unlock" /\ limbo'[t] = Nil
    BY <1>1, <1>7 DEF PushSealed
  <2> DEFINE b == limbo[t]
             q == Compress(b)
  <2>2. q.count = Len(b.points) /\ q.count > 0 /\ q \in CompressedBlock
    <3>1. b \in Block /\ b.points # <<>>
      BY <1>1, <1>2, <2>1
    <3>2. Len(b.points) > 0
      BY <3>1, LenProperties, EmptySeq DEF Block
    <3> QED
      BY <3>1, <3>2, BlockTypes DEF Compress
  <2>3. /\ series'[key].current_block = block
        /\ series'[key].sealed_blocks = Append(s.sealed_blocks, q)
    BY <1>1, <2>1, <2>2 DEF PushCompressed, Series
  <2>4. /\ Append(s.sealed_blocks, q) # <<>>
        /\ Append(s.sealed_blocks, q)[Len(Append(s.sealed_blocks, q))] = q
    <3>1. s.sealed_blocks \in Seq(CompressedBlock)
      BY <1>1 DEF Series
    <3> DEFINE old == s.sealed_blocks
    <3>2. old \in Seq(CompressedBlock)
      BY <3>1
    <3> HIDE DEF old, q
    <3>3. Append(old, q) # <<>> /\ Append(old, q)[Len(Append(old, q))] = q
      BY <2>2, <3>2, AppendProperties, LenProperties
    <3> QED
      BY <3>3 DEF old
  <2> HIDE DEF q
  <2> QED
    BY <1>1, <1>2, <2>1, <2>2, <2>3, <2>4 DEF TakenOK
<1>8. CASE OpenBlock(t)
  <2>1. /\ limbo'[t] = Nil /\ pc[t] \in InsertPCs
        /\ \/ /\ CanAccept(NewBlock(p.timestamp), p.timestamp)
              /\ series'[key].current_block = Pushed(NewBlock(p.timestamp), p)
           \/ series' = series
    BY <1>1, <1>8 DEF OpenBlock, Series, InsertPCs
  <2> QED
    BY <1>1, <1>2, <2>1, NewWindow
<1> QED
  BY <1>3, <1>5, <1>6, <1>7, <1>8 DEF SeriesStep

\* Every step keeps the windows of the blocks in use.
LEMMA NextWindows ==
  ASSUME Inv, WindowsInv, NEW t \in Threads, ThreadStep(t)
  PROVE  WindowsInv'
<1>1. \A u \in Threads \ {t} : pc'[u] = pc[u] /\ call'[u] = call[u]
  BY StepLocks DEF Inv
<1>2. CASE SeriesStep(t)
  <2> DEFINE key == call[t].key
  <2>1. /\ key \in Keys /\ key \in WriteSeries(t)
        /\ \A k \in Keys \ {key} : series'[k] = series[k]
        /\ \A u \in Threads \ {t} : limbo'[u] = limbo[u]
    BY <1>2, SeriesStepWrites DEF Inv
  <2>2. /\ series'[key].current_block # Nil => OpenOK(series'[key].current_block)
        /\ limbo'[t] # Nil => TakenOK(t)'
    BY <1>2, <2>1, OwnWindows
  <2>3. ASSUME NEW k \in Keys, series'[k].current_block # Nil
        PROVE  OpenOK(series'[k].current_block)
    BY <2>1, <2>2, <2>3 DEF WindowsInv
  <2>4. ASSUME NEW u \in Threads \ {t}, limbo'[u] # Nil PROVE TakenOK(u)'
    <3>1. limbo[u] # Nil /\ TakenOK(u) /\ pc[u] \in HandlingPCs
      BY <2>1, <2>4 DEF WindowsInv, Inv, TypeInv, Control
    <3>2. call[u].key # key
      BY <2>1, <3>1, AloneOnSeries
    <3>3. pc[u] = "insert_new" => series'[call[u].key] = series[call[u].key]
      BY <2>1, <3>2 DEF Inv, TypeInv, Control, InsertPCs
    <3> QED
      BY <1>1, <2>1, <2>4, <3>1, <3>3 DEF TakenOK
  <2> QED
    BY <2>2, <2>3, <2>4 DEF WindowsInv
<1>3. CASE ~SeriesStep(t)
  <2>1. UNCHANGED <<series, limbo>> /\ pc[t] \notin HandlingPCs
    BY <1>3, ThreadStepCases, QuietStepStore DEF Inv
  <2>2. limbo[t] = Nil
    BY <2>1 DEF Inv, TypeInv, Control
  <2>3. ASSUME NEW u \in Threads, limbo'[u] # Nil PROVE TakenOK(u)'
    <3>1. u # t /\ TakenOK(u)
      BY <2>1, <2>2, <2>3 DEF WindowsInv
    <3> QED
      BY <1>1, <2>1, <3>1 DEF TakenOK
  <2> QED
    BY <2>1, <2>3 DEF WindowsInv, OpenOK, Unwrapped
<1> QED
  BY <1>2, <1>3

-----------------------------------------------------------------------------
(* The mapping: what is recent, and what is archived *)

\* The sizes of the first n of the blocks.
Counts(blocks, n) == [i \in 1 .. n |-> blocks[i].count]

MappedBy(k) ==
  /\ \A t \in Threads : Holds(t, k) =>
       /\ recentPoints[k] = limbo[t].points
       /\ \A u \in Threads : Holds(u, k) => u = t
       /\ BetweenBlocks(k) <=> pc[t] = "insert_new"
  /\ (\A t \in Threads : ~Holds(t, k)) =>
       recentPoints[k] = CurrentPoints(series[k]) /\ ~BetweenBlocks(k)
  /\ BetweenBlocks(k) =>
       archivedBatches[k] = Counts(series[k].sealed_blocks, Len(series[k].sealed_blocks) - 1)
  /\ ~BetweenBlocks(k) =>
       archivedBatches[k] = Counts(series[k].sealed_blocks, Len(series[k].sealed_blocks))

\* What the mapping gives for a series, according to who has its block.
LEMMA Mapping == Inv => \A k \in Keys : MappedBy(k)
<1> SUFFICES ASSUME Inv, NEW k \in Keys PROVE MappedBy(k)
  OBVIOUS
<1>1. ASSUME NEW t \in Threads, NEW u \in Threads, Holds(t, k), Holds(u, k) PROVE t = u
  <2>1. pc[t] \in HandlingPCs /\ pc[u] \in HandlingPCs /\ call[t].key = k /\ call[u].key = k
    BY <1>1 DEF Holds, Inv, TypeInv, Control
  <2>2. k \in WriteSeries(t)
    BY <2>1 DEF HandlingPCs, WriteSeries
  <2> QED
    BY <2>1, <2>2, AloneOnSeries
<1>2. ASSUME NEW t \in Threads, Holds(t, k)
      PROVE  recentPoints[k] = limbo[t].points /\ (BetweenBlocks(k) <=> pc[t] = "insert_new")
  <2> DEFINE h == CHOOSE u \in Threads : Holds(u, k)
  <2>1. h \in Threads /\ Holds(h, k)
    BY <1>2
  <2>2. h = t
    BY <1>1, <1>2, <2>1
  <2>3. recentPoints[k] = limbo[h].points
    BY <1>2 DEF recentPoints
  <2>4. BetweenBlocks(k) <=> pc[t] = "insert_new"
    BY <1>1, <1>2 DEF BetweenBlocks
  <2> QED
    BY <2>2, <2>3, <2>4
<1>3. (\A t \in Threads : ~Holds(t, k)) =>
        recentPoints[k] = CurrentPoints(series[k]) /\ ~BetweenBlocks(k)
  BY DEF recentPoints, BetweenBlocks
<1>4. /\ BetweenBlocks(k) =>
           archivedBatches[k] = Counts(series[k].sealed_blocks, Len(series[k].sealed_blocks) - 1)
      /\ ~BetweenBlocks(k) =>
           archivedBatches[k] = Counts(series[k].sealed_blocks, Len(series[k].sealed_blocks))
  BY DEF archivedBatches, Counts
<1> QED
  BY <1>1, <1>2, <1>3, <1>4 DEF MappedBy

\* The same of the next state.
LEMMA MappingNext == Inv' => \A k \in Keys : MappedBy(k)'
<1>1. (Inv => \A k \in Keys : MappedBy(k))'
  BY Mapping, PTL
<1> QED
  BY <1>1
\* A step off the series leaves what is recent and what is archived alone.
LEMMA QuietMapping ==
  ASSUME Inv, Inv', NEW t \in Threads, ThreadStep(t), ~SeriesStep(t)
  PROVE  UNCHANGED <<recentPoints, archivedBatches>>
<1>1. /\ UNCHANGED <<series, limbo>> /\ pc[t] \notin HandlingPCs /\ pc'[t] \notin HandlingPCs
      /\ \A u \in Threads \ {t} : pc'[u] = pc[u] /\ call'[u] = call[u]
  BY ThreadStepCases, QuietStepStore, StepLocks DEF Inv
<1>2. limbo[t] = Nil
  BY <1>1 DEF Inv, TypeInv, Control
<1>3. ASSUME NEW k \in Keys, NEW u \in Threads
      PROVE  (Holds(u, k)' <=> Holds(u, k)) /\ (Holds(u, k) => pc'[u] = pc[u])
  BY <1>1, <1>2 DEF Holds
<1>4. ASSUME NEW k \in Keys
      PROVE  recentPoints'[k] = recentPoints[k] /\ archivedBatches'[k] = archivedBatches[k]
  <2>1. MappedBy(k) /\ MappedBy(k)'
    BY Mapping, MappingNext
  <2>2. BetweenBlocks(k)' <=> BetweenBlocks(k)
    BY <1>3 DEF BetweenBlocks
  <2>3. archivedBatches'[k] = archivedBatches[k]
    BY <1>1, <2>1, <2>2 DEF MappedBy
  <2>4. CASE \E u \in Threads : Holds(u, k)
    BY <1>1, <1>3, <2>1, <2>3, <2>4 DEF MappedBy
  <2>5. CASE \A u \in Threads : ~Holds(u, k)
    BY <1>1, <1>3, <2>1, <2>3, <2>5 DEF MappedBy
  <2> QED
    BY <2>4, <2>5
<1> QED
  BY <1>4 DEF recentPoints, archivedBatches

\* A step on a series leaves what is recent and archived of the others alone.
LEMMA OthersMapping ==
  ASSUME Inv, Inv', NEW t \in Threads, SeriesStep(t), NEW k \in Keys \ {call[t].key}
  PROVE  recentPoints'[k] = recentPoints[k] /\ archivedBatches'[k] = archivedBatches[k]
<1>1. /\ series'[k] = series[k] /\ call' = call
      /\ \A u \in Threads \ {t} : pc'[u] = pc[u] /\ limbo'[u] = limbo[u]
  BY SeriesStepWrites DEF Inv
<1>2. ASSUME NEW u \in Threads
      PROVE  /\ Holds(u, k)' <=> Holds(u, k)
             /\ Holds(u, k) => pc'[u] = pc[u] /\ limbo'[u] = limbo[u]
  BY <1>1 DEF Holds
<1>3. MappedBy(k) /\ MappedBy(k)'
  BY Mapping, MappingNext
<1>4. BetweenBlocks(k)' <=> BetweenBlocks(k)
  BY <1>2 DEF BetweenBlocks
<1>5. archivedBatches'[k] = archivedBatches[k]
  BY <1>1, <1>3, <1>4 DEF MappedBy
<1>6. CASE \E u \in Threads : Holds(u, k)
  BY <1>1, <1>2, <1>3, <1>5, <1>6 DEF MappedBy
<1>7. CASE \A u \in Threads : ~Holds(u, k)
  BY <1>1, <1>2, <1>3, <1>5, <1>7 DEF MappedBy
<1> QED
  BY <1>6, <1>7

\* What thread t sees of its series k, now that it alone works there.
SeenBy(t, k) ==
  LET blocks == series[k].sealed_blocks
  IN  /\ limbo[t] # Nil => recentPoints[k] = limbo[t].points
      /\ limbo[t] = Nil => recentPoints[k] = CurrentPoints(series[k])
      /\ pc[t] = "insert_new" => archivedBatches[k] = Counts(blocks, Len(blocks) - 1)
      /\ pc[t] # "insert_new" => archivedBatches[k] = Counts(blocks, Len(blocks))

LEMMA OwnMapping ==
  ASSUME Inv, Inv', NEW t \in Threads, SeriesStep(t), NEW k \in Keys, k = call[t].key
  PROVE  SeenBy(t, k) /\ SeenBy(t, k)'
<1>1. /\ k \in WriteSeries(t) /\ call' = call
      /\ \A u \in Threads \ {t} : pc'[u] = pc[u] /\ limbo'[u] = limbo[u]
  BY SeriesStepWrites DEF Inv
<1>2. /\ pc[t] = "insert_new" => limbo[t] # Nil
      /\ pc'[t] = "insert_new" => limbo'[t] # Nil
  BY DEF Inv, TypeInv, Control, HandlingPCs
<1>3. ASSUME NEW u \in Threads \ {t} PROVE ~Holds(u, k) /\ ~Holds(u, k)'
  <2>1. ~(pc[u] \in HandlingPCs /\ call[u].key = k)
    BY <1>1, AloneOnSeries
  <2>2. ~Holds(u, k)
    BY <2>1 DEF Holds, Inv, TypeInv, Control
  <2> QED
    BY <1>1, <2>2 DEF Holds
<1>4. MappedBy(k) /\ MappedBy(k)'
  BY Mapping, MappingNext
<1>5. SeenBy(t, k)
  <2>1. CASE limbo[t] # Nil
    <3>1. Holds(t, k)
      BY <2>1 DEF Holds
    <3> QED
      BY <1>4, <2>1, <3>1 DEF MappedBy, SeenBy
  <2>2. CASE limbo[t] = Nil
    <3>1. \A u \in Threads : ~Holds(u, k)
      BY <1>3, <2>2 DEF Holds
    <3> QED
      BY <1>2, <1>4, <2>2, <3>1 DEF MappedBy, SeenBy
  <2> QED
    BY <2>1, <2>2
<1>6. SeenBy(t, k)'
  <2>1. CASE limbo'[t] # Nil
    <3>1. Holds(t, k)'
      BY <1>1, <2>1 DEF Holds
    <3> QED
      BY <1>4, <2>1, <3>1 DEF MappedBy, SeenBy
  <2>2. CASE limbo'[t] = Nil
    <3>1. \A u \in Threads : ~Holds(u, k)'
      BY <1>3, <2>2 DEF Holds
    <3> QED
      BY <1>2, <1>4, <2>2, <3>1 DEF MappedBy, SeenBy
  <2> QED
    BY <2>1, <2>2
<1> QED
  BY <1>5, <1>6
-----------------------------------------------------------------------------
(* The mapping: requests and results *)

\* A thread's step changes its own request and result only.
LEMMA ReportsMapping ==
  ASSUME TypeInv, WalkInv, NEW t \in Threads, ThreadStep(t)
  PROVE  /\ pendingRequest' = [pendingRequest EXCEPT ![t] = RequestOf(call'[t])]
         /\ givenResult' = [givenResult EXCEPT ![t] = ResultOf(call'[t], answer'[t])]
<1>1. \A u \in Threads \ {t} : call'[u] = call[u] /\ answer'[u] = answer[u]
  BY StepLocks, OthersWalk
<1>2. pendingRequest' = [u \in Threads |-> RequestOf(call'[u])]
  BY DEF pendingRequest, RequestOf
<1>3. givenResult' = [u \in Threads |-> ResultOf(call'[u], answer'[u])]
  BY DEF givenResult, ResultOf
<1>4. /\ pendingRequest = [u \in Threads |-> RequestOf(call[u])]
      /\ givenResult = [u \in Threads |-> ResultOf(call[u], answer[u])]
  BY DEF pendingRequest, givenResult
<1> QED
  BY <1>1, <1>2, <1>3, <1>4

\* A call has a result in the abstract store just when it is answered.
LEMMA ResultGiven ==
  ASSUME ReportTypeOK, NEW t \in Threads, OpOK(t)
  PROVE  /\ Answered(t) => givenResult[t] # Nil
         /\ ~Answered(t) => givenResult[t] = Nil
<1> DEFINE a == answer[t]
           c == call[t]
<1>1. a \in Report /\ givenResult[t] = ResultOf(c, a)
  BY DEF ReportTypeOK, givenResult
<1>2. ASSUME Answered(t) PROVE ResultOf(c, a) \in Store!Result
  <2>1. a.status \in {"Ok", "InvalidTimeRange", "KeyNotFound"}
    BY <1>1, <1>2 DEF OpOK, Report
  <2>2. CASE a.status = "Ok" /\ c.op = "scan_range"
    BY <1>1, <2>2 DEF ResultOf, Store!Result, Store!Point, Point, Report
  <2>3. CASE a.status = "Ok" /\ c.op = "get_series"
    BY <1>1, <2>3 DEF ResultOf, Store!Result, Store!Point, Point, Report
  <2>4. CASE ~(a.status = "Ok" /\ c.op = "scan_range") /\ ~(a.status = "Ok" /\ c.op = "get_series")
    <3>1. ResultOf(c, a) = [status |-> a.status]
      BY <2>1, <2>4 DEF ResultOf
    <3> QED
      BY <2>1, <3>1 DEF Store!Result
  <2> QED
    BY <2>2, <2>3, <2>4
<1>3. ASSUME ~Answered(t) PROVE ResultOf(c, a) = Nil
  BY <1>3 DEF OpOK, ResultOf
<1> QED
  BY <1>1, <1>2, <1>3, NilRequestAssumption

\* The request of a call on a series.
LEMMA RequestMade ==
  ASSUME NEW c \in Call, c.op \in OnSeriesOps, c.key \in Keys, c.op = "insert" => c.point \in Point
  PROVE  /\ RequestOf(c) \in Store!Request /\ RequestOf(c) # Nil
         /\ RequestOf(c).op = c.op /\ RequestOf(c).key = c.key
         /\ c.op = "insert" => RequestOf(c).point = c.point
         /\ c.op = "scan_range" => RequestOf(c).start = c.start /\ RequestOf(c).end = c.end
<1> DEFINE r == RequestOf(c)
<1>1. c.start \in 0 .. Modulus - 1 /\ c.end \in 0 .. Modulus - 1
  <2>1. c.start \in Timestamps \cup {0} /\ c.end \in Timestamps \cup {0}
    BY DEF Call
  <2>2. 0 \in 0 .. Modulus - 1
    BY ModulusAssumption
  <2> QED
    BY <2>1, <2>2, TimestampsAssumption
<1>2. CASE c.op = "insert"
  BY <1>2, NilRequestAssumption DEF RequestOf, Store!Request, Store!Point, Point
<1>3. CASE c.op = "scan_range"
  BY <1>1, <1>3, NilRequestAssumption DEF RequestOf, Store!Request
<1>4. CASE c.op = "get_series"
  BY <1>4, NilRequestAssumption DEF RequestOf, Store!Request
<1> QED
  BY <1>2, <1>3, <1>4 DEF OnSeriesOps

\* A thread that inserts or reads has made a request.
LEMMA Requesting ==
  ASSUME TypeInv, NEW t \in Threads, OpOK(t), pc[t] \in InsertPCs \cup ReadPCs
  PROVE  LET c == call[t]
         IN  /\ c \in Call /\ c.op \in OnSeriesOps /\ c.key \in Keys
             /\ pendingRequest[t] # Nil
             /\ pendingRequest[t].op = c.op /\ pendingRequest[t].key = c.key
             /\ c.op = "insert" => pendingRequest[t].point = c.point
             /\ c.op = "scan_range" => /\ pendingRequest[t].start = c.start
                                       /\ pendingRequest[t].end = c.end
<1> DEFINE c == call[t]
<1>1. c \in Call /\ c.op \in OnSeriesOps /\ c.key \in Keys /\ (c.op = "insert" => c.point \in Point)
  BY DEF TypeInv, StoreTypeOK, Control, OpOK, OnSeriesOps, InsertPCs, ReadPCs, OnSeriesPCs
<1>2. pendingRequest[t] = RequestOf(c)
  BY DEF pendingRequest
<1> HIDE DEF c
<1> QED
  BY <1>1, <1>2, RequestMade DEF c
-----------------------------------------------------------------------------
(* What reads find *)

\* The sum in PointStore is the sum in TSMap.
LEMMA SameSum == ASSUME NEW f PROVE Store!SumFunction(f) = SumFunction(f)
BY Zenon DEF SumFunction, SumFunctionOnSet, FoldFunctionOnSet, MapThenFoldSet,
             Store!SumFunction, Store!SumFunctionOnSet, Store!FoldFunctionOnSet, Store!MapThenFoldSet

\* So is the size of a set.
LEMMA SameCardinality == ASSUME NEW S PROVE Store!Cardinality(S) = Cardinality(S)
BY Zenon DEF Cardinality, Store!Cardinality

\* The points that scan_range sorts are a chronological answer.
LEMMA ScanIsChronological ==
  ASSUME NEW points \in Seq(Point), NEW start, NEW end
  PROVE  SortByTimestamp(points, Picked(points, start, end))
           \in Store!Chronological(points, start, end)
<1> DEFINE picked == Picked(points, start, end)
           size == Cardinality(picked)
<1>1. picked \in SUBSET (DOMAIN points) /\ Store!Places(points, start, end) = picked
  BY DEF Picked, Store!Places
<1> HIDE DEF picked
<1>2. PICK place \in [1 .. size -> picked] :
        /\ SortByTimestamp(points, picked) = [n \in 1 .. size |-> points[place[n]]]
        /\ \A m, n \in 1 .. size : m < n => Precedes(points, place[m], place[n])
  BY <1>1, SortedPlaces
<1>3. DOMAIN place = 1 .. size
  OBVIOUS
<1> DEFINE Earlier(i, j) == \/ points[i].timestamp < points[j].timestamp
                            \/ points[i].timestamp = points[j].timestamp /\ i < j
           InOrder == {f \in [1 .. size -> picked] : \A m, n \in DOMAIN f : m < n => Earlier(f[m], f[n])}
<1>4. \A m, n \in DOMAIN place : m < n => Earlier(place[m], place[n])
  BY <1>2, <1>3 DEF Precedes
<1>5. place \in InOrder
  BY <1>2, <1>4
<1>6. Store!Chronological(points, start, end) = {[n \in DOMAIN f |-> points[f[n]]] : f \in InOrder}
  BY <1>1, SameCardinality, Zenon DEF Store!Chronological, Store!Arranged
<1> HIDE DEF InOrder
<1>7. [n \in DOMAIN place |-> points[place[n]]] \in Store!Chronological(points, start, end)
  BY <1>5, <1>6
<1> QED
  BY <1>2, <1>3, <1>7 DEF picked
-----------------------------------------------------------------------------
(* Every step of the map is a step of the store, or none *)

MapInv == Inv /\ WalkInv /\ ReportTypeOK /\ CallInv /\ WindowsInv

\* A call begins: the request appears, and a scan of an empty range is refused.
LEMMA BeginSimulates ==
  ASSUME MapInv, MapInv', NEW t \in Threads,
         CallInsert(t) \/ CallScan(t) \/ CallGetSeries(t) \/ CallWalk(t) \/ CallLen(t)
  PROVE  Store!Invoke(t) \/ Store!InvokeInvalid(t) \/ UNCHANGED Store!vars
<1> DEFINE c == call'[t]
<1>1. ThreadStep(t) /\ ~SeriesStep(t)
  BY DEF ThreadStep, Insert, Read, Walk, SeriesStep, CallInsert, CallScan, CallGetSeries, CallWalk,
         CallLen, Begin, Goto, AppendCurrent, TakeRejecting, SealIfExpired, PushSealed, OpenBlock
<1>2. UNCHANGED <<recentPoints, archivedBatches>>
  BY <1>1, QuietMapping DEF MapInv
<1>3. /\ pendingRequest' = [pendingRequest EXCEPT ![t] = RequestOf(c)]
      /\ givenResult' = [givenResult EXCEPT ![t] = ResultOf(c, answer'[t])]
  BY <1>1, ReportsMapping DEF MapInv, Inv
<1>4. /\ pc[t] = "idle" /\ known' = known /\ c \in Call
  BY DEF CallInsert, CallScan, CallGetSeries, CallWalk, CallLen, Begin, Goto, store,
         MapInv, Inv, TypeInv, StoreTypeOK
<1>5. pendingRequest[t] = Nil /\ givenResult[t] = Nil /\ answer[t].status = "none"
  <2>1. OpOK(t)
    BY DEF MapInv, CallInv
  <2>2. call[t].op = "none" /\ answer[t].status = "none"
    BY <1>4, <2>1 DEF OpOK, Answered
  <2> QED
    BY <2>2 DEF pendingRequest, givenResult, RequestOf, ResultOf
<1>6. ASSUME answer' = answer PROVE givenResult' = givenResult
  <2>1. ResultOf(c, answer'[t]) = Nil
    BY <1>5, <1>6 DEF ResultOf
  <2> QED
    BY <1>3, <1>5, <2>1 DEF givenResult
<1>7. ASSUME c.op \in OnSeriesOps, c.key \in Keys, c.op = "insert" => c.point \in Point,
             c.op = "scan_range" => c.start <= c.end, answer' = answer
      PROVE  Store!Invoke(t)
  <2> HIDE DEF c
  <2>1. /\ RequestOf(c) \in Store!Request /\ pendingRequest'[t] = RequestOf(c)
        /\ RequestOf(c).op = "scan_range" => RequestOf(c).start <= RequestOf(c).end
    BY <1>3, <1>4, <1>7, RequestMade DEF pendingRequest
  <2> QED
    BY <1>2, <1>3, <1>4, <1>5, <1>6, <1>7, <2>1 DEF Store!Invoke, Store!Requested
<1>8. ASSUME NEW d, NEW to, Begin(t, d, to) PROVE c = d
  BY <1>8 DEF Begin, MapInv, Inv, TypeInv, StoreTypeOK
<1>9. CASE CallInsert(t)
  <2> DEFINE C(key, p) == [NoCall EXCEPT !.op = "insert", !.key = key, !.point = p]
  <2>1. PICK key \in Keys, p \in Point : Begin(t, C(key, p), "insert_shard") /\ answer' = answer
    BY <1>9 DEF CallInsert
  <2>2. C(key, p).op = "insert" /\ C(key, p).key = key /\ C(key, p).point = p
    BY DEF NoCall
  <2> HIDE DEF C
  <2> QED
    BY <1>7, <1>8, <2>1, <2>2 DEF OnSeriesOps
<1>10. CASE CallGetSeries(t)
  <2> DEFINE C(key) == [NoCall EXCEPT !.op = "get_series", !.key = key]
  <2>1. PICK key \in Keys : Begin(t, C(key), "read_shard") /\ answer' = answer
    BY <1>10 DEF CallGetSeries
  <2>2. C(key).op = "get_series" /\ C(key).key = key
    BY DEF NoCall
  <2> HIDE DEF C
  <2> QED
    BY <1>7, <1>8, <2>1, <2>2 DEF OnSeriesOps
<1>11. CASE CallScan(t)
  <2> DEFINE C(key, start, end) ==
        [NoCall EXCEPT !.op = "scan_range", !.key = key, !.start = start, !.end = end]
  <2>1. PICK key \in Keys, start, end \in Timestamps :
          \/ start <= end /\ Begin(t, C(key, start, end), "read_shard") /\ answer' = answer
          \/ /\ start > end
             /\ Begin(t, C(key, start, end), "done")
             /\ answer' = [answer EXCEPT ![t].status = "InvalidTimeRange"]
    BY <1>11 DEF CallScan
  <2>2. /\ C(key, start, end).op = "scan_range" /\ C(key, start, end).key = key
        /\ C(key, start, end).start = start /\ C(key, start, end).end = end
    BY DEF NoCall
  <2> HIDE DEF C
  <2>3. c = C(key, start, end)
    BY <1>8, <2>1
  <2>4. CASE start <= end /\ answer' = answer
    BY <1>7, <2>2, <2>3, <2>4 DEF OnSeriesOps
  <2>5. CASE start > end /\ answer' = [answer EXCEPT ![t].status = "InvalidTimeRange"]
    <3>1. answer'[t].status = "InvalidTimeRange"
      BY <2>5 DEF MapInv, ReportTypeOK, Report
    <3>2. ResultOf(c, answer'[t]) = [status |-> "InvalidTimeRange"]
      BY <3>1 DEF ResultOf
    <3> HIDE DEF c
    <3>3. /\ RequestOf(c) \in Store!Request /\ pendingRequest'[t] = RequestOf(c)
          /\ RequestOf(c).op = "scan_range"
          /\ RequestOf(c).start = start /\ RequestOf(c).end = end
      BY <1>3, <1>4, <2>2, <2>3, RequestMade DEF pendingRequest, OnSeriesOps
    <3> QED
      BY <1>2, <1>3, <1>4, <1>5, <2>5, <3>2, <3>3
         DEF Store!InvokeInvalid, Store!Requested, Store!Answer
  <2> QED
    BY <2>1, <2>4, <2>5
<1>12. CASE CallWalk(t) \/ CallLen(t)
  <2>1. c.op \notin OnSeriesOps /\ answer' = answer
    BY <1>12 DEF CallWalk, CallLen, Begin, NoCall, MapInv, Inv, TypeInv, StoreTypeOK, OnSeriesOps
  <2>2. RequestOf(c) = Nil
    BY <2>1 DEF RequestOf, OnSeriesOps
  <2>3. pendingRequest' = pendingRequest
    BY <1>3, <1>5, <2>2 DEF pendingRequest
  <2> QED
    BY <1>2, <1>4, <1>6, <2>1, <2>3 DEF Store!vars
<1> QED
  BY <1>9, <1>10, <1>11, <1>12
\* What a read answers with.
LEMMA ReadSimulates ==
  ASSUME MapInv, MapInv', NEW t \in Threads, ReadSeriesData(t)
  PROVE  Store!Scan(t) \/ Store!Snapshot(t)
<1> DEFINE k == call[t].key
           s == series[k]
           r == ResultOf(call[t], answer'[t])
<1>1. ThreadStep(t) /\ ~SeriesStep(t)
  BY DEF ThreadStep, Read, SeriesStep, ReadSeriesData, Goto, AppendCurrent, TakeRejecting,
         SealIfExpired, PushSealed, OpenBlock
<1>2. /\ UNCHANGED <<recentPoints, archivedBatches>>
      /\ pendingRequest' = [pendingRequest EXCEPT ![t] = RequestOf(call'[t])]
      /\ givenResult' = [givenResult EXCEPT ![t] = r]
      /\ pc[t] = "read_body" /\ known' = known /\ call' = call
  BY <1>1, QuietMapping, ReportsMapping DEF MapInv, Inv, ReadSeriesData, Goto, store
<1>3. UNCHANGED pendingRequest
  BY <1>2 DEF pendingRequest
<1>4. /\ call[t].op \in OnSeriesOps /\ k \in Keys /\ k \in known /\ givenResult[t] = Nil
      /\ pendingRequest[t] # Nil
      /\ pendingRequest[t].op = call[t].op /\ pendingRequest[t].key = k
      /\ call[t].op = "scan_range" => /\ pendingRequest[t].start = call[t].start
                                      /\ pendingRequest[t].end = call[t].end
  <2>1. OpOK(t) /\ ~Answered(t) /\ pc[t] \in InsertPCs \cup ReadPCs
    BY <1>2 DEF MapInv, CallInv, Answered, ReadPCs
  <2> QED
    BY <1>2, <2>1, Requesting, ResultGiven DEF MapInv, Inv, OpOK, FoundPCs
<1>5. /\ recentPoints[k] = CurrentPoints(s)
      /\ archivedBatches[k] = Counts(s.sealed_blocks, Len(s.sealed_blocks))
  <2>1. k \in ReadSeries(t)
    BY <1>2 DEF ReadSeries
  <2>2. \A u \in Threads : ~Holds(u, k)
    BY <2>1, ReadAlone DEF Holds, MapInv, Inv, TypeInv, Control
  <2>3. MappedBy(k)
    BY <1>4, Mapping DEF MapInv
  <2> QED
    BY <2>2, <2>3 DEF MappedBy
<1>6. /\ s \in Series /\ s.sealed_blocks \in Seq(CompressedBlock) /\ CurrentPoints(s) \in Seq(Point)
      /\ answer \in [Threads -> Report]
  <2>1. s \in Series /\ answer \in [Threads -> Report]
    BY <1>4 DEF MapInv, ReportTypeOK, Inv, TypeInv, StoreTypeOK
  <2> QED
    BY <2>1, SeriesCounts DEF Series
<1>7. CASE call[t].op = "scan_range"
  <2> DEFINE points == InRange(s, call[t].start, call[t].end)
  <2>1. answer'[t].status = "Ok" /\ answer'[t].points = points
    BY <1>6, <1>7 DEF ReadSeriesData, Report
  <2>2. r = [status |-> "Ok", points |-> points]
    BY <1>7, <2>1 DEF ResultOf
  <2>3. points \in Store!Chronological(recentPoints[k], call[t].start, call[t].end)
    BY <1>5, <1>6, ScanIsChronological DEF InRange
  <2> HIDE DEF points, r, k
  <2>4. Store!Scan(t)
    BY <1>2, <1>3, <1>4, <1>7, <2>2, <2>3 DEF Store!Scan, Store!Requests, Store!Answer
  <2> QED
    BY <2>4
<1>8. CASE call[t].op = "get_series"
  <2> DEFINE blocks == s.sealed_blocks
             counts == Counts(blocks, Len(blocks))
  <2>1. /\ answer'[t].status = "Ok" /\ answer'[t].points = CurrentPoints(s)
        /\ answer'[t].blocks = Len(blocks) /\ answer'[t].count = PointCount(s)
    BY <1>6, <1>8 DEF ReadSeriesData, Report
  <2>2. DOMAIN blocks = 1 .. Len(blocks) /\ Len(blocks) \in Nat
    <3>1. blocks \in Seq(CompressedBlock)
      BY <1>6
    <3> HIDE DEF blocks
    <3> QED
      BY <3>1
  <2>3. Len(counts) = Len(blocks)
    BY <2>2 DEF Counts
  <2>4. PointCount(s) = Len(CurrentPoints(s)) + SumFunction(counts)
    BY <2>2 DEF PointCount, Counts
  <2>5. r = [status |-> "Ok", points |-> CurrentPoints(s), batches |-> Len(blocks),
             count |-> PointCount(s)]
    BY <1>8, <2>1 DEF ResultOf
  <2> HIDE DEF r, k, s
  <2>6. Store!Snapshot(t)
    <3>1. r = [status |-> "Ok", points |-> recentPoints[k],
               batches |-> Len(archivedBatches[k]),
               count |-> Len(recentPoints[k]) + Store!SumFunction(archivedBatches[k])]
      BY <1>5, <2>3, <2>4, <2>5, SameSum
    <3> HIDE DEF counts
    <3> QED
      BY <1>2, <1>3, <1>4, <1>8, <3>1 DEF Store!Snapshot, Store!Requests, Store!Answer
  <2> QED
    BY <2>6
<1> QED
  BY <1>7, <1>8 DEF ReadSeriesData
\* The steps of a thread that leave the series as they are.
LEMMA MoveSimulates ==
  ASSUME MapInv, MapInv', NEW t \in Threads, MoveStep(t)
  PROVE  \/ Store!Announce(t) \/ Store!NotFound(t) \/ Store!Scan(t) \/ Store!Snapshot(t)
         \/ Store!Return(t) \/ UNCHANGED Store!vars
<1> DEFINE c == call[t]
<1>1. ThreadStep(t) /\ ~SeriesStep(t)
  <2>1. ThreadStep(t)
    BY DEF MoveStep, ThreadStep, Insert, Read, Walk
  <2>2. ~SeriesStep(t)
    BY DEF MoveStep, SeriesStep, LockEntry, LockEntrySeries, UnlockInsert, LockShardToRead,
           LockSeriesToRead, ReadSeriesData, UnlockRead, NextShard, VisitKey, VisitSeries,
           LockVisited, AddStats, UnlockVisited, EndWalk, LenShard, EndLen, Return, Goto,
           AppendCurrent, TakeRejecting, SealIfExpired, PushSealed, OpenBlock,
           MapInv, Inv, TypeInv, StoreTypeOK
  <2> QED
    BY <2>1, <2>2
<1>2. /\ UNCHANGED <<recentPoints, archivedBatches>>
      /\ pendingRequest' = [pendingRequest EXCEPT ![t] = RequestOf(call'[t])]
      /\ givenResult' = [givenResult EXCEPT ![t] = ResultOf(call'[t], answer'[t])]
  BY <1>1, QuietMapping, ReportsMapping DEF MapInv, Inv
<1>3. ASSUME call' = call, answer' = answer PROVE UNCHANGED <<pendingRequest, givenResult>>
  BY <1>3 DEF pendingRequest, givenResult
<1>4. /\ OpOK(t) /\ OpOK(t)' /\ answer \in [Threads -> Report] /\ TypeInv
      /\ call \in [Threads -> Call]
  BY DEF MapInv, CallInv, ReportTypeOK, Inv, TypeInv, StoreTypeOK
<1>5. ASSUME c.op \notin OnSeriesOps, call'[t].op \notin OnSeriesOps,
             answer[t].status = "none", answer'[t].status = "none"
      PROVE  UNCHANGED <<pendingRequest, givenResult>>
  <2>1. /\ RequestOf(call'[t]) = Nil /\ ResultOf(call'[t], answer'[t]) = Nil
        /\ pendingRequest[t] = Nil /\ givenResult[t] = Nil
    BY <1>5 DEF RequestOf, ResultOf, OnSeriesOps, pendingRequest, givenResult
  <2> QED
    BY <1>2, <2>1 DEF pendingRequest, givenResult
<1>6. CASE \/ LockEntrySeries(t) \/ UnlockInsert(t) \/ LockSeriesToRead(t) \/ UnlockRead(t)
           \/ NextShard(t) \/ LockVisited(t) \/ EndWalk(t) \/ EndLen(t)
  <2>1. call' = call /\ answer' = answer /\ known' = known
    BY <1>6 DEF LockEntrySeries, UnlockInsert, LockSeriesToRead, UnlockRead, NextShard,
                LockVisited, EndWalk, EndLen, store
  <2> QED
    BY <1>2, <1>3, <2>1 DEF Store!vars
<1>7. CASE VisitKey(t) \/ VisitSeries(t) \/ AddStats(t) \/ UnlockVisited(t) \/ LenShard(t)
  <2>1. /\ pc[t] \in WalkPCs /\ pc'[t] \in WalkPCs /\ known' = known
    BY <1>4, <1>7 DEF VisitKey, VisitSeries, AddStats, UnlockVisited, LenShard, Goto, WalkPCs,
                      store, TypeInv, StoreTypeOK
  <2>2. /\ c.op \notin OnSeriesOps /\ call'[t].op \notin OnSeriesOps
        /\ answer[t].status = "none" /\ answer'[t].status = "none"
    BY <1>4, <2>1 DEF OpOK, Answered, WalkPCs, WalkOps, OnSeriesOps
  <2> QED
    BY <1>2, <1>5, <2>1, <2>2 DEF Store!vars
<1>8. CASE LockEntry(t)
  <2>1. /\ pc[t] = "insert_shard" /\ known' = known \cup {c.key} /\ call' = call /\ answer' = answer
    BY <1>8 DEF LockEntry, Goto
  <2>2. /\ pendingRequest[t] # Nil /\ pendingRequest[t].op = "insert"
        /\ pendingRequest[t].key = c.key /\ givenResult[t] = Nil
    <3>1. c.op = "insert" /\ pc[t] \in InsertPCs \cup ReadPCs /\ ~Answered(t)
      BY <1>4, <2>1 DEF OpOK, InsertPCs, Answered
    <3> QED
      BY <1>4, <3>1, Requesting, ResultGiven DEF MapInv
  <2> QED
    BY <1>2, <1>3, <2>1, <2>2 DEF Store!Announce, Store!Requests
<1>9. CASE LockShardToRead(t)
  <2>1. CASE c.key \in known
    BY <1>2, <1>3, <1>9, <2>1 DEF LockShardToRead, store, Store!vars
  <2>2. CASE c.key \notin known
    <3>1. /\ pc[t] = "read_shard" /\ known' = known /\ call' = call
          /\ answer'[t].status = "KeyNotFound"
      BY <1>4, <1>9, <2>2 DEF LockShardToRead, store, Report
    <3>2. ResultOf(call'[t], answer'[t]) = [status |-> "KeyNotFound"]
      BY <3>1 DEF ResultOf
    <3>3. /\ pendingRequest[t] # Nil /\ pendingRequest[t].op \in {"scan_range", "get_series"}
          /\ pendingRequest[t].key = c.key /\ givenResult[t] = Nil
      <4>1. /\ c.op \in {"scan_range", "get_series"} /\ pc[t] \in InsertPCs \cup ReadPCs
            /\ ~Answered(t)
        BY <1>4, <3>1 DEF OpOK, ReadPCs, Answered
      <4> QED
        BY <1>4, <4>1, Requesting, ResultGiven DEF MapInv
    <3>4. UNCHANGED pendingRequest
      BY <3>1 DEF pendingRequest
    <3> QED
      BY <1>2, <2>2, <3>1, <3>2, <3>3, <3>4 DEF Store!NotFound, Store!Requests, Store!Answer
  <2> QED
    BY <2>1, <2>2
<1>10. CASE ReadSeriesData(t)
  BY <1>10, ReadSimulates
<1>11. CASE Return(t)
  <2>1. /\ pc[t] = "done" /\ known' = known
        /\ call'[t] = NoCall /\ answer'[t] = NoAnswer
    BY <1>4, <1>11 DEF Return, Goto, store
  <2>2. RequestOf(call'[t]) = Nil /\ ResultOf(call'[t], answer'[t]) = Nil
    BY <2>1 DEF NoCall, NoAnswer, RequestOf, ResultOf
  <2>3. CASE c.op \in OnSeriesOps
    <3>1. givenResult[t] # Nil
      BY <1>4, <2>1, <2>3, ResultGiven DEF MapInv, Answered
    <3> QED
      BY <1>2, <2>1, <2>2, <3>1 DEF Store!Return
  <2>4. CASE c.op \notin OnSeriesOps
    <3>1. answer[t].status = "none"
      BY <1>4, <2>1, <2>4 DEF OpOK, Answered
    <3>2. call'[t].op \notin OnSeriesOps /\ answer'[t].status = "none"
      BY <2>1 DEF NoCall, NoAnswer, OnSeriesOps
    <3> QED
      BY <1>2, <1>5, <2>1, <2>4, <3>1, <3>2 DEF Store!vars
  <2> QED
    BY <2>3, <2>4
<1> QED
  BY <1>6, <1>7, <1>8, <1>9, <1>10, <1>11 DEF MoveStep
-----------------------------------------------------------------------------
(* The steps on a series *)

\* The sizes of one block more.
LEMMA CountsOneMore ==
  ASSUME NEW blocks, NEW n \in Nat, \A i \in 1 .. n + 1 : blocks[i].count \in Nat
  PROVE  Counts(blocks, n + 1) = Append(Counts(blocks, n), blocks[n + 1].count)
<1> DEFINE f == Counts(blocks, n)
           g == Counts(blocks, n + 1)
<1>1. f \in Seq(Nat) /\ Len(f) = n /\ \A i \in 1 .. n : f[i] = blocks[i].count
  BY DEF Counts
<1>2. g \in Seq(Nat) /\ Len(g) = n + 1 /\ \A i \in 1 .. n + 1 : g[i] = blocks[i].count
  BY DEF Counts
<1> HIDE DEF f, g
<1> DEFINE h == Append(f, blocks[n + 1].count)
<1>3. /\ h \in Seq(Nat) /\ Len(h) = n + 1 /\ h[n + 1] = blocks[n + 1].count
      /\ \A i \in 1 .. n : h[i] = f[i]
  BY <1>1, AppendProperties
<1> HIDE DEF h
<1>4. \A i \in 1 .. n + 1 : g[i] = h[i]
  <2>1. \A i \in 1 .. n + 1 : i \in 1 .. n \/ i = n + 1
    OBVIOUS
  <2>2. g[n + 1] = h[n + 1]
    BY <1>2, <1>3
  <2>3. \A i \in 1 .. n : g[i] = h[i]
    <3>1. \A i \in 1 .. n : i \in 1 .. n + 1
      OBVIOUS
    <3> QED
      BY <1>1, <1>2, <1>3, <3>1, Zenon
  <2> QED
    BY <2>1, <2>2, <2>3, Zenon
<1>5. g = h
  BY <1>2, <1>3, <1>4, SeqEqual
<1> QED
  BY <1>5 DEF f, g, h

\* A block that is pushed adds its size and leaves the others.
LEMMA CountsPushed ==
  ASSUME NEW blocks \in Seq(CompressedBlock), NEW q \in CompressedBlock
  PROVE  LET pushed == Append(blocks, q)
         IN  /\ Counts(pushed, Len(pushed) - 1) = Counts(blocks, Len(blocks))
             /\ Counts(pushed, Len(pushed)) = Append(Counts(blocks, Len(blocks)), q.count)
<1> DEFINE pushed == Append(blocks, q)
           n == Len(blocks)
<1>1. /\ pushed \in Seq(CompressedBlock) /\ n \in Nat /\ Len(pushed) = n + 1 /\ pushed[n + 1] = q
      /\ \A i \in 1 .. n : pushed[i] = blocks[i]
  BY AppendProperties, LenProperties
<1>2. \A i \in 1 .. n + 1 : pushed[i].count \in Nat
  <2> HIDE DEF pushed, n
  <2>1. \A i \in 1 .. n + 1 : pushed[i] \in CompressedBlock
    BY <1>1
  <2> QED
    BY <2>1 DEF CompressedBlock
<1> HIDE DEF pushed
<1>3. Counts(pushed, n) = Counts(blocks, n)
  BY <1>1 DEF Counts
<1>4. Counts(pushed, n + 1) = Append(Counts(pushed, n), q.count)
  BY <1>1, <1>2, CountsOneMore
<1>5. Len(pushed) - 1 = n
  BY <1>1
<1> QED
  BY <1>1, <1>3, <1>4, <1>5 DEF pushed

\* What is common to the steps on the series k of thread t.
LEMMA SeriesFrame ==
  ASSUME MapInv, MapInv', NEW t \in Threads, SeriesStep(t), NEW k \in Keys, k = call[t].key
  PROVE  /\ known' = known /\ UNCHANGED pendingRequest
         /\ recentPoints' = [recentPoints EXCEPT ![k] = recentPoints'[k]]
         /\ archivedBatches' = [archivedBatches EXCEPT ![k] = archivedBatches'[k]]
         /\ givenResult' = [givenResult EXCEPT ![t] = ResultOf(call[t], answer'[t])]
         /\ recentPoints'[k] = recentPoints[k] => UNCHANGED recentPoints
         /\ archivedBatches'[k] = archivedBatches[k] => UNCHANGED archivedBatches
<1>1. known' = known /\ call' = call
  BY SeriesStepWrites DEF MapInv, Inv
<1>2. \A j \in Keys \ {k} :
        recentPoints'[j] = recentPoints[j] /\ archivedBatches'[j] = archivedBatches[j]
  BY OthersMapping DEF MapInv
<1>3. /\ recentPoints' = [recentPoints EXCEPT ![k] = recentPoints'[k]]
      /\ recentPoints'[k] = recentPoints[k] => recentPoints' = recentPoints
  <2>1. /\ recentPoints = [j \in Keys |-> recentPoints[j]]
        /\ recentPoints' = [j \in Keys |-> recentPoints'[j]]
    BY DEF recentPoints
  <2> QED
    BY <1>2, <2>1
<1>4. /\ archivedBatches' = [archivedBatches EXCEPT ![k] = archivedBatches'[k]]
      /\ archivedBatches'[k] = archivedBatches[k] => archivedBatches' = archivedBatches
  <2>1. /\ archivedBatches = [j \in Keys |-> archivedBatches[j]]
        /\ archivedBatches' = [j \in Keys |-> archivedBatches'[j]]
    BY DEF archivedBatches
  <2> QED
    BY <1>2, <2>1
<1>5. ThreadStep(t)
  BY DEF SeriesStep, ThreadStep, Insert, Walk
<1>6. givenResult' = [givenResult EXCEPT ![t] = ResultOf(call[t], answer'[t])]
  BY <1>1, <1>5, ReportsMapping DEF MapInv, Inv
<1> QED
  BY <1>1, <1>3, <1>4, <1>6 DEF pendingRequest
\* An insert that is about to store its point.
LEMMA Inserting ==
  ASSUME MapInv, NEW t \in Threads, pc[t] \in {"insert_body", "insert_new"}
  PROVE  LET c == call[t]
         IN  /\ c.op = "insert" /\ c.key \in Keys /\ c.point \in Point /\ c.key \in known
             /\ Store!Requests(t, "insert") /\ pendingRequest[t].key = c.key
             /\ pendingRequest[t].point = c.point
             /\ givenResult[t] = Nil
<1>1. OpOK(t) /\ pc[t] \in InsertPCs \cup ReadPCs /\ ~Answered(t)
  BY DEF MapInv, CallInv, InsertPCs, Answered
<1>2. /\ call[t].op = "insert" /\ call[t].key \in Keys /\ call[t].point \in Point
      /\ call[t].key \in known
  BY <1>1 DEF OpOK, InsertPCs, FoundPCs, MapInv, Inv, TypeInv, Control
<1> QED
  BY <1>1, <1>2, Requesting, ResultGiven DEF MapInv, Inv, Store!Requests

\* The open block takes the point: the point is in the window.
LEMMA AppendSimulates ==
  ASSUME MapInv, MapInv', NEW t \in Threads, AppendCurrent(t)
  PROVE  Store!Store(t)
<1> DEFINE k == call[t].key
           p == call[t].point
           b == series[k].current_block
<1>1. /\ pc[t] = "insert_body" /\ pc'[t] = "insert_unlock" /\ b # Nil /\ CanAccept(b, p.timestamp)
      /\ limbo' = limbo /\ SeriesStep(t)
  BY DEF AppendCurrent, Goto, SeriesStep, MapInv, Inv, TypeInv, StoreTypeOK
<1>2. /\ call[t].op = "insert" /\ k \in Keys /\ p \in Point /\ k \in known
      /\ Store!Requests(t, "insert") /\ pendingRequest[t].key = k /\ pendingRequest[t].point = p
      /\ givenResult[t] = Nil
  BY <1>1, Inserting
<1>3. /\ series[k] \in Series /\ b \in Block /\ b.points \in Seq(Point)
      /\ InWindow(b) /\ OpenOK(b) /\ limbo[t] = Nil /\ limbo'[t] = Nil
  BY <1>1, <1>2, ZenonT(60) DEF MapInv, WindowsInv, Inv, TypeInv, StoreTypeOK, Control, HandlingPCs, BlocksOK,
                    Series, Block
<1>4. /\ series'[k].current_block = Pushed(b, p)
      /\ series'[k].sealed_blocks = series[k].sealed_blocks
      /\ answer'[t].status = "Ok"
  BY <1>2, <1>3 DEF AppendCurrent, Series, MapInv, ReportTypeOK, Report, Inv, TypeInv, StoreTypeOK
<1>5. Pushed(b, p) # Nil /\ Pushed(b, p).points = Append(b.points, p)
  BY <1>2, <1>3, BlockTypes, NilIsNoBlock DEF Pushed, Block
<1>6. /\ recentPoints[k] = b.points /\ recentPoints'[k] = Append(b.points, p)
      /\ archivedBatches'[k] = archivedBatches[k]
  <2>1. ASSUME NEW c \in Keys, c = k
        PROVE  /\ recentPoints[c] = CurrentPoints(series[c])
               /\ recentPoints'[c] = CurrentPoints(series'[c])
               /\ archivedBatches'[c] = archivedBatches[c]
    <3>1. Inv /\ Inv'
      BY DEF MapInv
    <3>2. SeenBy(t, c) /\ SeenBy(t, c)'
      BY <1>1, <2>1, <3>1, OwnMapping
    <3>3. series'[c].sealed_blocks = series[c].sealed_blocks
      BY <1>4, <2>1
    <3>4. recentPoints[c] = CurrentPoints(series[c]) /\ recentPoints'[c] = CurrentPoints(series'[c])
      BY <1>3, <3>2 DEF SeenBy, CurrentPoints
    <3>5. archivedBatches'[c] = archivedBatches[c]
      BY <1>1, <3>2, <3>3 DEF SeenBy
    <3> QED
      BY <3>4, <3>5
  <2>2. series[k].current_block # Nil /\ series'[k].current_block # Nil
    BY <1>1, <1>4, <1>5
  <2> QED
    BY <1>2, <1>4, <1>5, <2>1, <2>2 DEF CurrentPoints
<1>7. /\ recentPoints[k] # <<>> /\ recentPoints[k][1].timestamp <= p.timestamp
      /\ p.timestamp < recentPoints[k][1].timestamp + BlockDuration
  BY <1>1, <1>3, <1>6 DEF InWindow, OpenOK, Unwrapped, CanAccept
<1>8. ResultOf(call[t], answer'[t]) = [status |-> "Ok"]
  BY <1>2, <1>4 DEF ResultOf
<1> HIDE DEF k, p, b
<1>9. /\ known' = known /\ UNCHANGED <<pendingRequest, archivedBatches>>
      /\ recentPoints' = [recentPoints EXCEPT ![k] = Append(@, p)]
      /\ givenResult' = [givenResult EXCEPT ![t] = [status |-> "Ok"]]
  BY <1>1, <1>2, <1>6, <1>8, SeriesFrame DEF k, archivedBatches
<1>10. Store!InWindow(k, p.timestamp)
  BY <1>7 DEF Store!InWindow
<1> QED
  BY <1>2, <1>9, <1>10 DEF Store!Store, Store!Answer

\* A new block is opened: what was recent is archived, and the point is
\* recent if the new window ends before the clock does.
LEMMA OpenSimulates ==
  ASSUME MapInv, MapInv', NEW t \in Threads, OpenBlock(t)
  PROVE  Store!Store(t)
<1> DEFINE k == call[t].key
           p == call[t].point
           s == series[k]
           new == NewBlock(p.timestamp)
           blocks == s.sealed_blocks
<1>1. /\ pc[t] \in {"insert_body", "insert_new"} /\ pc'[t] = "insert_unlock" /\ SeriesStep(t)
      /\ pc[t] = "insert_body" => s.current_block = Nil
      /\ limbo'[t] = Nil
  BY DEF OpenBlock, Goto, SeriesStep, MapInv, Inv, TypeInv, StoreTypeOK
<1>2. /\ call[t].op = "insert" /\ k \in Keys /\ p \in Point /\ k \in known
      /\ Store!Requests(t, "insert") /\ pendingRequest[t].key = k /\ pendingRequest[t].point = p
      /\ givenResult[t] = Nil
  BY <1>1, Inserting
<1>3. s \in Series /\ blocks \in Seq(CompressedBlock) /\ s.current_block = Nil
  BY <1>1, <1>2 DEF MapInv, Inv, TypeInv, StoreTypeOK, BlocksOK, Series
<1>4. archivedBatches'[k] =
        IF recentPoints[k] = <<>> THEN archivedBatches[k]
        ELSE Append(archivedBatches[k], Len(recentPoints[k]))
  <2>1. archivedBatches'[k] = Counts(blocks, Len(blocks))
    <3>1. series'[k].sealed_blocks = blocks
      <4>1. \/ series' = [series EXCEPT ![k].current_block = Pushed(new, p)]
            \/ series' = series
        BY DEF OpenBlock
      <4>2. series \in [Keys -> Series]
        BY DEF MapInv, Inv, TypeInv, StoreTypeOK
      <4> HIDE DEF k, new, p
      <4> QED
        BY <1>2, <4>1, <4>2 DEF Series
    <3> QED
      BY <1>1, <1>2, <3>1, OwnMapping DEF MapInv, SeenBy
  <2>2. CASE pc[t] = "insert_body"
    <3>1. limbo[t] = Nil
      BY <2>2 DEF MapInv, Inv, TypeInv, Control, HandlingPCs
    <3>2. recentPoints[k] = <<>> /\ archivedBatches[k] = Counts(blocks, Len(blocks))
      BY <1>1, <1>2, <1>3, <2>2, <3>1, OwnMapping DEF MapInv, SeenBy, CurrentPoints
    <3> QED
      BY <2>1, <3>2
  <2>3. CASE pc[t] = "insert_new"
    <3>1. /\ limbo[t] # Nil /\ limbo[t].points # <<>>
          /\ blocks # <<>> /\ blocks[Len(blocks)].count = Len(limbo[t].points)
      BY <2>3 DEF MapInv, WindowsInv, TakenOK, Inv, TypeInv, Control, HandlingPCs, BlocksOK, InWindow
    <3>2. recentPoints[k] = limbo[t].points /\ archivedBatches[k] = Counts(blocks, Len(blocks) - 1)
      BY <1>1, <1>2, <2>3, <3>1, OwnMapping DEF MapInv, SeenBy
    <3>3. Counts(blocks, Len(blocks)) = Append(Counts(blocks, Len(blocks) - 1), blocks[Len(blocks)].count)
      <4> HIDE DEF blocks
      <4>1. Len(blocks) \in Nat /\ Len(blocks) > 0
        BY <1>3, <3>1, LenProperties, EmptySeq
      <4>2. \A i \in 1 .. Len(blocks) : blocks[i] \in CompressedBlock
        BY <1>3
      <4>3. \A i \in 1 .. Len(blocks) : blocks[i].count \in Nat
        BY <4>2 DEF CompressedBlock
      <4> DEFINE n == Len(blocks) - 1
      <4>4. n \in Nat /\ n + 1 = Len(blocks)
        BY <4>1
      <4> HIDE DEF n
      <4>5. Counts(blocks, n + 1) = Append(Counts(blocks, n), blocks[n + 1].count)
        BY <4>3, <4>4, CountsOneMore
      <4> QED
        BY <4>4, <4>5 DEF n
    <3> QED
      BY <2>1, <3>1, <3>2, <3>3
  <2> QED
    BY <1>1, <2>2, <2>3
<1>5. ~Store!InWindow(k, p.timestamp)
  <2>1. CASE pc[t] = "insert_body"
    <3>1. limbo[t] = Nil
      BY <2>1 DEF MapInv, Inv, TypeInv, Control, HandlingPCs
    <3>2. recentPoints[k] = <<>>
      BY <1>1, <1>2, <1>3, <3>1, OwnMapping DEF MapInv, SeenBy, CurrentPoints
    <3> QED
      BY <3>2 DEF Store!InWindow
  <2>2. CASE pc[t] = "insert_new"
    <3>1. /\ limbo[t] # Nil /\ InWindow(limbo[t]) /\ TakenOK(t)
      BY <2>2 DEF MapInv, WindowsInv, Inv, TypeInv, Control, HandlingPCs, BlocksOK
    <3>2. recentPoints[k] = limbo[t].points
      BY <1>1, <1>2, <2>2, <3>1, OwnMapping DEF MapInv, SeenBy
    <3> QED
      BY <2>2, <3>1, <3>2 DEF Store!InWindow, InWindow, TakenOK, Unwrapped
  <2> QED
    BY <1>1, <2>1, <2>2
<1>6. Store!Representable(p.timestamp) <=> CanAccept(new, p.timestamp)
  BY <1>2, NewWindow DEF Store!Representable
<1>7. CASE CanAccept(new, p.timestamp)
  <2>1. /\ series'[k].current_block = Pushed(new, p) /\ answer'[t].status = "Ok"
    <3>1. /\ series' = [series EXCEPT ![k].current_block = Pushed(new, p)]
          /\ answer' = [answer EXCEPT ![t].status = "Ok"]
      BY <1>7 DEF OpenBlock
    <3>2. series \in [Keys -> Series] /\ answer \in [Threads -> Report]
      BY DEF MapInv, ReportTypeOK, Inv, TypeInv, StoreTypeOK
    <3> HIDE DEF k, new, p
    <3> QED
      BY <1>2, <3>1, <3>2 DEF Series, Report
  <2>2. Pushed(new, p) # Nil /\ Pushed(new, p).points = <<p>>
    BY <1>2, OpenedInWindow, NewBlockType, BlockTypes, NilIsNoBlock, PointTypes
  <2>3. recentPoints'[k] = <<p>>
    BY <1>1, <1>2, <2>1, <2>2, OwnMapping DEF MapInv, SeenBy, CurrentPoints
  <2>4. ResultOf(call[t], answer'[t]) = [status |-> "Ok"]
    BY <1>2, <2>1 DEF ResultOf
  <2> HIDE DEF k, p, s, new
  <2>5. /\ known' = known /\ UNCHANGED pendingRequest /\ Store!Archive(k, <<p>>)
        /\ givenResult' = [givenResult EXCEPT ![t] = [status |-> "Ok"]]
    BY <1>1, <1>2, <1>4, <2>3, <2>4, SeriesFrame DEF k, Store!Archive
  <2> QED
    BY <1>2, <1>5, <1>6, <1>7, <2>5 DEF Store!Store, Store!Answer
<1>8. CASE ~CanAccept(new, p.timestamp)
  <2>1. /\ series'[k].current_block = Nil /\ answer'[t].status = "InvalidTimeRange"
    BY <1>2, <1>3, <1>8 DEF OpenBlock, MapInv, ReportTypeOK, Report
  <2>2. recentPoints'[k] = <<>>
    BY <1>1, <1>2, <2>1, OwnMapping DEF MapInv, SeenBy, CurrentPoints
  <2>3. ResultOf(call[t], answer'[t]) = [status |-> "InvalidTimeRange"]
    BY <1>2, <2>1 DEF ResultOf
  <2> HIDE DEF k, p, s, new
  <2>4. /\ known' = known /\ UNCHANGED pendingRequest /\ Store!Archive(k, <<>>)
        /\ givenResult' = [givenResult EXCEPT ![t] = [status |-> "InvalidTimeRange"]]
    BY <1>1, <1>2, <1>4, <2>2, <2>3, SeriesFrame DEF k, Store!Archive
  <2> QED
    BY <1>2, <1>5, <1>6, <1>8, <2>4 DEF Store!Store, Store!Answer
<1> QED
  BY <1>7, <1>8
\* A block is taken, by an insert or by the sealing task: to the callers its
\* points are as recent as before.
LEMMA TakeSimulates ==
  ASSUME MapInv, MapInv', NEW t \in Threads, TakeRejecting(t) \/ SealIfExpired(t)
  PROVE  UNCHANGED Store!vars
<1> DEFINE k == call[t].key
           s == series[k]
           b == s.current_block
<1>1. SeriesStep(t) /\ k \in Keys /\ call' = call /\ answer' = answer
  BY SeriesStepWrites DEF MapInv, Inv, SeriesStep, TakeRejecting, SealIfExpired
<1>2. /\ s \in Series /\ b \in Block \cup {Nil} /\ series \in [Keys -> Series]
      /\ limbo \in [Threads -> Block \cup {Nil}] /\ limbo[t] = Nil
      /\ pc[t] # "insert_new" /\ pc'[t] # "insert_new"
  BY <1>1 DEF MapInv, Inv, TypeInv, StoreTypeOK, Control, HandlingPCs, Series, TakeRejecting,
              SealIfExpired, Goto
<1>3. recentPoints[k] = CurrentPoints(s) /\ SeenBy(t, k)' /\ SeenBy(t, k)
  BY <1>1, <1>2, OwnMapping DEF MapInv, SeenBy
<1>4. recentPoints'[k] = recentPoints[k] /\ series'[k].sealed_blocks = s.sealed_blocks
  <2>1. CASE b # Nil /\ TakeBlock(t)
    <3>1. limbo'[t] = Sealed(b) /\ series'[k].sealed_blocks = s.sealed_blocks
      BY <1>1, <1>2, <2>1 DEF TakeBlock, Series
    <3>2. Sealed(b) # Nil /\ Sealed(b).points = b.points
      BY <1>2, <2>1, BlockTypes, NilIsNoBlock DEF Sealed, Block
    <3>3. recentPoints'[k] = b.points
      BY <1>1, <1>3, <3>1, <3>2 DEF SeenBy
    <3> QED
      BY <1>3, <2>1, <3>1, <3>3 DEF CurrentPoints
  <2>2. CASE UNCHANGED <<series, limbo>>
    BY <1>1, <1>2, <1>3, <2>2 DEF SeenBy
  <2> QED
    BY <2>1, <2>2 DEF TakeRejecting, SealIfExpired
<1>5. archivedBatches'[k] = archivedBatches[k]
  BY <1>1, <1>2, <1>3, <1>4 DEF SeenBy
<1> HIDE DEF k
<1>6. known' = known /\ UNCHANGED <<pendingRequest, recentPoints, archivedBatches>>
  BY <1>1, <1>4, <1>5, SeriesFrame DEF k
<1>7. UNCHANGED givenResult
  BY <1>1 DEF givenResult
<1> QED
  BY <1>6, <1>7 DEF Store!vars

\* The block is pushed.  What an insert pushes is archived when it opens the
\* next block; what the sealing task pushes is archived now.
LEMMA PushSimulates ==
  ASSUME MapInv, MapInv', NEW t \in Threads, PushSealed(t)
  PROVE  (\E k \in Keys : Store!SealExpired(k)) \/ UNCHANGED Store!vars
<1> DEFINE k == call[t].key
           s == series[k]
           b == limbo[t]
           q == Compress(b)
           blocks == s.sealed_blocks
<1>1. /\ SeriesStep(t) /\ k \in Keys /\ call' = call /\ answer' = answer
      /\ pc[t] \in {"insert_push", "iter_push"}
  BY SeriesStepWrites DEF MapInv, Inv, SeriesStep, PushSealed, Goto
<1>2. /\ s \in Series /\ blocks \in Seq(CompressedBlock) /\ series \in [Keys -> Series]
      /\ limbo[t] # Nil /\ b \in Block /\ b.points \in Seq(Point)
      /\ InWindow(b) /\ b.points # <<>> /\ TakenOK(t) /\ pc \in [Threads -> PCs]
      /\ limbo \in [Threads -> Block \cup {Nil}]
  BY <1>1 DEF MapInv, WindowsInv, Inv, TypeInv, StoreTypeOK, Control, HandlingPCs, BlocksOK,
              InWindow, Series, Block
<1>3. q \in CompressedBlock /\ q.count = Len(b.points) /\ q.count > 0
  <2>1. Len(b.points) > 0
    BY <1>2, LenProperties, EmptySeq
  <2> QED
    BY <1>2, <2>1, BlockTypes DEF Compress
<1>4. series'[k].sealed_blocks = Append(blocks, q) /\ series'[k].current_block = s.current_block
  <2>1. series' = [series EXCEPT ![k] = PushCompressed(@, b)]
    BY DEF PushSealed
  <2>2. PushCompressed(s, b) = [s EXCEPT !.sealed_blocks = Append(@, q)]
    BY <1>3 DEF PushCompressed
  <2> HIDE DEF q
  <2> QED
    BY <1>1, <1>2, <2>1, <2>2 DEF Series
<1>5. UNCHANGED givenResult
  BY <1>1 DEF givenResult
<1>6. recentPoints[k] = b.points /\ archivedBatches[k] = Counts(blocks, Len(blocks))
  BY <1>1, <1>2, OwnMapping DEF MapInv, SeenBy
<1>7. CASE pc[t] = "insert_push"
  <2>1. pc'[t] = "insert_new" /\ limbo' = limbo
    BY <1>2, <1>7 DEF PushSealed, Goto
  <2>2. recentPoints'[k] = recentPoints[k]
    BY <1>1, <1>2, <1>6, <2>1, OwnMapping DEF MapInv, SeenBy
  <2>3. archivedBatches'[k] = Counts(Append(blocks, q), Len(Append(blocks, q)) - 1)
    BY <1>1, <1>4, <2>1, OwnMapping DEF MapInv, SeenBy
  <2>4. archivedBatches'[k] = archivedBatches[k]
    BY <1>2, <1>3, <1>6, <2>3, CountsPushed
  <2> HIDE DEF k
  <2>5. known' = known /\ UNCHANGED <<pendingRequest, recentPoints, archivedBatches>>
    BY <1>1, <2>2, <2>4, SeriesFrame DEF k
  <2> QED
    BY <1>5, <2>5 DEF Store!vars
<1>8. CASE pc[t] = "iter_push"
  <2>1. pc'[t] = "iter_unlock" /\ limbo'[t] = Nil
    BY <1>2, <1>8 DEF PushSealed, Goto
  <2>2. s.current_block = Nil
    <3>1. Unpushed(t, k)
      BY <1>8 DEF Unpushed
    <3> QED
      BY <1>1, <3>1 DEF MapInv, Inv, ArrivalPartition, OpenHoldsRest
  <2>3. recentPoints'[k] = <<>>
    BY <1>1, <1>4, <2>1, <2>2, OwnMapping DEF MapInv, SeenBy, CurrentPoints
  <2>4. archivedBatches'[k] = Counts(Append(blocks, q), Len(Append(blocks, q)))
    BY <1>1, <1>4, <2>1, OwnMapping DEF MapInv, SeenBy
  <2>5. archivedBatches'[k] = Append(archivedBatches[k], Len(recentPoints[k]))
    <3> DEFINE bs == blocks
               e  == q
    <3>1. bs \in Seq(CompressedBlock) /\ e \in CompressedBlock /\ e.count = Len(recentPoints[k])
      BY <1>2, <1>3, <1>6
    <3>2. archivedBatches[k] = Counts(bs, Len(bs))
          /\ archivedBatches'[k] = Counts(Append(bs, e), Len(Append(bs, e)))
      BY <1>6, <2>4
    <3> HIDE DEF bs, e
    <3>3. Counts(Append(bs, e), Len(Append(bs, e))) = Append(Counts(bs, Len(bs)), e.count)
      BY <3>1, CountsPushed
    <3> QED
      BY <3>1, <3>2, <3>3
  <2>6. \E now \in Clock : Store!Expired(k, now)
    BY <1>2, <1>6, <1>8 DEF TakenOK, Unwrapped, InWindow, Store!Expired
  <2>7. recentPoints[k] # <<>>
    BY <1>2, <1>6
  <2> HIDE DEF k
  <2>8. known' = known /\ UNCHANGED pendingRequest /\ Store!Archive(k, <<>>)
    BY <1>1, <2>3, <2>5, <2>7, SeriesFrame DEF k, Store!Archive
  <2>9. Store!SealExpired(k)
    BY <1>5, <2>6, <2>8 DEF Store!SealExpired
  <2> QED
    BY <1>1, <2>9 DEF k
<1> QED
  BY <1>1, <1>7, <1>8

-----------------------------------------------------------------------------

\* A step of the map is a step of the store or changes nothing there.
LEMMA StepSimulates ==
  ASSUME MapInv, MapInv', [Next]_vars
  PROVE  [Store!Next]_(Store!vars)
<1>1. CASE UNCHANGED vars
  BY <1>1 DEF vars, store, walk, history, Store!vars, recentPoints, archivedBatches, pendingRequest,
              givenResult, Holds, BetweenBlocks
<1>2. ASSUME NEW t \in Threads, ThreadStep(t) PROVE [Store!Next]_(Store!vars)
  <2>1. CASE CallInsert(t) \/ CallScan(t) \/ CallGetSeries(t) \/ CallWalk(t) \/ CallLen(t)
    BY <2>1, BeginSimulates DEF Store!Next
  <2>2. CASE MoveStep(t)
    BY <2>2, MoveSimulates DEF Store!Next
  <2>3. CASE AppendCurrent(t) \/ OpenBlock(t)
    BY <2>3, AppendSimulates, OpenSimulates DEF Store!Next
  <2>4. CASE TakeRejecting(t) \/ SealIfExpired(t)
    BY <2>4, TakeSimulates
  <2>5. CASE PushSealed(t)
    BY <2>5, PushSimulates DEF Store!Next
  <2> QED
    BY <1>2, <2>1, <2>2, <2>3, <2>4, <2>5, ThreadStepCases DEF SeriesStep
<1> QED
  BY <1>1, <1>2 DEF Next

\* The map starts as the store does.
LEMMA InitSimulates == Init => Store!Init
<1> SUFFICES ASSUME Init PROVE Store!Init
  OBVIOUS
<1>1. \A t \in Threads, k \in Keys : ~Holds(t, k)
  BY DEF Init, Holds
<1>2. recentPoints = [k \in Keys |-> <<>>]
  BY <1>1 DEF Init, recentPoints, CurrentPoints, EmptySeries
<1>3. archivedBatches = [k \in Keys |-> <<>>]
  <2>1. \A k \in Keys : archivedBatches[k] = <<>>
    <3> SUFFICES ASSUME NEW k \in Keys PROVE archivedBatches[k] = <<>>
      OBVIOUS
    <3>1. ~BetweenBlocks(k) /\ series[k].sealed_blocks = <<>>
      BY <1>1 DEF BetweenBlocks, Init, EmptySeries
    <3> QED
      BY <3>1 DEF archivedBatches
  <2>2. archivedBatches = [k \in Keys |-> archivedBatches[k]]
    BY DEF archivedBatches
  <2> QED
    BY <2>1, <2>2
<1>4. pendingRequest = [t \in Threads |-> Nil] /\ givenResult = [t \in Threads |-> Nil]
  BY DEF Init, NoCall, NoAnswer, pendingRequest, givenResult, RequestOf, ResultOf
<1> QED
  BY <1>2, <1>3, <1>4 DEF Init, Store!Init

LEMMA InitMap == Init => MapInv
<1> SUFFICES ASSUME Init PROVE MapInv
  OBVIOUS
<1>1. Inv /\ WalkInv
  BY InitInv, InitWalk
<1>2. ReportTypeOK
  BY DEF Init, ReportTypeOK, Report, NoAnswer, NothingAtCall
<1>3. CallInv
  BY DEF Init, CallInv, OpOK, Answered, NoCall, NoAnswer, InsertPCs, ReadPCs, WalkPCs, FoundPCs
<1>4. WindowsInv
  BY DEF Init, WindowsInv, EmptySeries
<1> QED
  BY <1>1, <1>2, <1>3, <1>4 DEF MapInv

LEMMA NextMap == MapInv /\ [Next]_vars => MapInv'
<1> SUFFICES ASSUME MapInv, [Next]_vars PROVE MapInv'
  OBVIOUS
<1>1. Inv' /\ WalkInv' /\ ReportTypeOK'
  BY NextInv, NextWalk, NextReport DEF MapInv, Inv
<1>2. CASE UNCHANGED vars
  BY <1>1, <1>2 DEF vars, store, walk, history, MapInv, CallInv, OpOK, Answered, WindowsInv, OpenOK,
                    Unwrapped, TakenOK
<1>3. ASSUME NEW t \in Threads, ThreadStep(t) PROVE CallInv' /\ WindowsInv'
  BY <1>3, NextCall, NextWindows DEF MapInv, Inv
<1> QED
  BY <1>1, <1>2, <1>3 DEF Next, MapInv

\* insert, scan_range, get_series and the sealing of a block are atomic to
\* the threads that call them, however their steps and locks interleave
\* (memory.rs insert_point, scan_range, to_time_series, seal_if_expired).
THEOREM MapImplementsStore == Spec => ImplementsPointStore
<1>1. Init => MapInv
  BY InitMap
<1>2. MapInv /\ [Next]_vars => MapInv'
  BY NextMap
<1>3. MapInv /\ MapInv' /\ [Next]_vars => [Store!Next]_(Store!vars)
  BY StepSimulates
<1>4. Init => Store!Init
  BY InitSimulates
<1> QED
  BY <1>1, <1>2, <1>3, <1>4, PTL DEF Spec, ImplementsPointStore, Store!Spec
=============================================================================
