------------------------------ MODULE TSMapProofs ------------------------------
(***************************************************************************)
(* Theorems about TSMap for every number of threads, keys and shards, any  *)
(* timestamps, block duration and clock.                                   *)
(*                                                                         *)
(* The store.  The inductive invariant says, from the outside in: where a  *)
(* thread is determines what its call carries (Control); threads that      *)
(* write a series have it for themselves (Exclusive); the open block, or   *)
(* the block a thread has taken, is not empty and keeps its points in its  *)
(* window (BlocksOK); the sealed blocks cut the accepted points            *)
(* (ArrivalPartition).                                                     *)
(*                                                                         *)
(* The readers.  A scan finds what was stored in its range before the call *)
(* and has not been sealed since, and a walk misses no key.  A scan's call *)
(* and answer are followed from one step to the next (ScanInv): at the     *)
(* step that reads the series no thread has its open block in hand, so the *)
(* open block holds everything stored after the last seal.  A walk is      *)
(* followed from shard to shard (WalkInv): keys are never taken from the   *)
(* map, so what was in it when the call began is still in the shard when   *)
(* the walk locks it, and what get_stats has added up is still there when  *)
(* len counts the shards afterwards.                                       *)
(***************************************************************************)
EXTENDS TSMap, SequenceTheorems, SumProofs, FunctionTheorems, TLAPS

InsertPCs ==
  {"insert_shard", "insert_storage", "insert_body", "insert_push", "insert_new", "insert_unlock"}

OnSeriesPCs ==
  {"read_shard", "read_storage", "read_body", "read_unlock",
   "iter_storage", "iter_body", "iter_push", "iter_unlock"}

\* A thread at one of these has a block in limbo.
HandlingPCs == {"insert_push", "insert_new", "iter_push"}

Control ==
  \A t \in Threads :
    /\ pc[t] \in InsertPCs => call[t].key \in Keys /\ call[t].point \in Point
    /\ pc[t] \in OnSeriesPCs => call[t].key \in Keys
    /\ pc[t] \in HandlingPCs <=> limbo[t] # Nil
    /\ pc[t] = "iter_push" => call[t].op = "seal_expired_blocks"

TypeInv == StoreTypeOK /\ Control

-----------------------------------------------------------------------------
(* Types *)

\* None is not a block, a point or a key.
LEMMA NilIsNoBlock == Nil \notin Block /\ Nil \notin Point /\ Nil \notin Keys
BY NilAssumption, KeysAssumption

\* The empty map has its types.
LEMMA InitTypeInv == Init => TypeInv
<1> SUFFICES ASSUME Init PROVE TypeInv
    OBVIOUS
<1>1. series \in [Keys -> Series]
  BY EmptySeq DEF Init, EmptySeries, Series
<1>2. StoreTypeOK
  BY <1>1, ShardsAssumption DEF Init, StoreTypeOK, NoCall, Call, PCs
<1>3. Control
  BY DEF Init, Control, InsertPCs, OnSeriesPCs, HandlingPCs
<1> QED BY <1>2, <1>3 DEF TypeInv

\* Operators of the series keep the types.
LEMMA BlockTypes ==
  ASSUME NEW b \in Block
  PROVE  /\ \A p \in Point : Pushed(b, p) \in Block
         /\ Sealed(b) \in Block
         /\ Compress(b) \in CompressedBlock
<1>1. b.points \in Seq(Point) /\ b.start_time \in Timestamps
  BY DEF Block
<1>2. \A p \in Point : Pushed(b, p) \in Block
  BY DEF Block, Pushed
<1>3. Sealed(b) \in Block
  BY DEF Block, Sealed
<1>4. Compress(b) \in CompressedBlock
  <2>1. CASE b.points = <<>>
    BY <1>1, <2>1, EmptySeq DEF Compress, CompressedBlock
  <2>2. CASE b.points # <<>>
    <3>1. Tail(b.points) \in Seq(Point) /\ Len(b.points) \in Nat \ {0}
      BY <1>1, <2>2, HeadTailProperties, EmptySeq, LenProperties
    <3>2. b.points[1] \in Point /\ b.points[Len(b.points)] \in Point
      BY <1>1, <3>1, ElementOfSeq
    <3> QED BY <2>2, <3>1, <3>2 DEF Compress, CompressedBlock, Point
  <2> QED BY <2>1, <2>2
<1> QED BY <1>2, <1>3, <1>4

\* A block opened at a timestamp has its type, its end being reduced to 64 bits.
LEMMA NewBlockType == \A start \in Timestamps : NewBlock(start) \in Block
<1> SUFFICES ASSUME NEW start \in Timestamps PROVE NewBlock(start) \in Block
    OBVIOUS
<1>1. (start + BlockDuration) % Modulus \in 0 .. Modulus - 1
  BY TimestampsAssumption, ModulusAssumption, DurationAssumption
<1> QED BY <1>1, EmptySeq DEF NewBlock, Block

\* Pushing a compressed block keeps the type of a series.
LEMMA PushCompressedType ==
  ASSUME NEW s \in Series, NEW b \in Block
  PROVE  PushCompressed(s, b) \in Series
<1>1. Append(s.sealed_blocks, Compress(b)) \in Seq(CompressedBlock)
  BY BlockTypes, AppendProperties DEF Series
<1> QED BY <1>1 DEF PushCompressed, Series

\* A call begins with arguments of the right types.
LEMMA BeginType ==
  ASSUME TypeInv, NEW t \in Threads, CallInsert(t) \/ CallScan(t) \/ CallGetSeries(t) \/ CallWalk(t) \/ CallLen(t)
  PROVE  TypeInv'
<1> USE NilIsNoBlock DEF TypeInv
<1>1. ASSUME NEW c \in Call, NEW to \in PCs \ HandlingPCs, Begin(t, c, to),
             to \in InsertPCs => c.key \in Keys /\ c.point \in Point,
             to \in OnSeriesPCs => c.key \in Keys
      PROVE  TypeInv'
  <2>1. StoreTypeOK'
    BY <1>1 DEF StoreTypeOK, Begin, Goto, store, walk, history
  <2>2. Control'
    BY <1>1 DEF StoreTypeOK, Control, Begin, Goto, PCs, InsertPCs, OnSeriesPCs, HandlingPCs
  <2> QED BY <2>1, <2>2
<1> USE DEF InsertPCs, OnSeriesPCs, HandlingPCs, PCs, NoCall, Operations, Call
<1>2. CASE CallInsert(t)
  BY <1>1, <1>2 DEF CallInsert
<1>3. CASE CallScan(t)
  BY <1>1, <1>3 DEF CallScan
<1>4. CASE CallGetSeries(t)
  BY <1>1, <1>4 DEF CallGetSeries
<1>5. CASE CallWalk(t)
  BY <1>1, <1>5 DEF CallWalk
<1>6. CASE CallLen(t)
  BY <1>1, <1>6 DEF CallLen
<1> QED BY <1>2, <1>3, <1>4, <1>5, <1>6

\* The steps that move a thread and change no series.
MoveStep(t) ==
  \/ LockEntry(t) \/ LockEntrySeries(t) \/ UnlockInsert(t)
  \/ LockShardToRead(t) \/ LockSeriesToRead(t) \/ ReadSeriesData(t) \/ UnlockRead(t)
  \/ NextShard(t) \/ VisitKey(t) \/ VisitSeries(t) \/ LockVisited(t)
  \/ AddStats(t) \/ UnlockVisited(t) \/ EndWalk(t) \/ LenShard(t) \/ EndLen(t)
  \/ Return(t)

\* Giving a call a key, or taking it away, keeps the type of a call.
LEMMA CallKeyType ==
  ASSUME NEW c \in Call, NEW k \in Keys \cup {Nil}
  PROVE  [c EXCEPT !.key = k] \in Call
BY DEF Call

\* The steps that only lock, unlock, visit or return keep the types.
LEMMA MoveType ==
  ASSUME TypeInv, NEW t \in Threads, MoveStep(t)
  PROVE  TypeInv'
<1> USE NilIsNoBlock, ShardsAssumption
    DEF TypeInv, StoreTypeOK, Control, Goto, store, walk, history, PCs, InsertPCs, OnSeriesPCs, HandlingPCs
<1>1. CASE LockEntry(t)
  BY <1>1 DEF LockEntry
<1>2. CASE LockEntrySeries(t)
  BY <1>2 DEF LockEntrySeries
<1>3. CASE UnlockInsert(t)
  BY <1>3 DEF UnlockInsert
<1>4. CASE LockShardToRead(t)
  BY <1>4, ZenonT(60) DEF LockShardToRead
<1>5. CASE LockSeriesToRead(t)
  BY <1>5 DEF LockSeriesToRead
<1>6. CASE ReadSeriesData(t)
  BY <1>6 DEF ReadSeriesData
<1>7. CASE UnlockRead(t)
  BY <1>7 DEF UnlockRead
<1>8. CASE NextShard(t)
  BY <1>8 DEF NextShard, KeysIn
<1>9. CASE VisitKey(t)
  BY <1>9 DEF VisitKey
<1>10. CASE VisitSeries(t)
  <2>1. StoreTypeOK'
    <3>1. PICK k \in todo[t] : call' = [call EXCEPT ![t].key = k]
      BY <1>10 DEF VisitSeries
    <3>2. [call[t] EXCEPT !.key = k] \in Call
      BY CallKeyType
    <3>3. call' \in [Threads -> Call]
      BY <3>1, <3>2
    <3> QED BY <1>10, <3>3 DEF VisitSeries
  <2>2. Control'
    BY <1>10 DEF VisitSeries
  <2> QED BY <2>1, <2>2
<1>11. CASE LockVisited(t)
  BY <1>11 DEF LockVisited
<1>12. CASE AddStats(t)
  BY <1>12 DEF AddStats
<1>13. CASE UnlockVisited(t)
  <2>1. StoreTypeOK'
    <3>1. [call[t] EXCEPT !.key = Nil] \in Call
      BY CallKeyType
    <3>2. call' \in [Threads -> Call]
      BY <1>13, <3>1 DEF UnlockVisited
    <3> QED BY <1>13, <3>2 DEF UnlockVisited
  <2>2. Control'
    BY <1>13 DEF UnlockVisited
  <2> QED BY <2>1, <2>2
<1>14. CASE EndWalk(t)
  <2>1. StoreTypeOK'
    <3>1. shard' \in [Threads -> 0 .. NumShards]
      BY <1>14 DEF EndWalk
    <3>2. pc' \in [Threads -> PCs]
      BY <1>14 DEF EndWalk
    <3> QED BY <1>14, <3>1, <3>2 DEF EndWalk
  <2>2. Control'
    BY <1>14 DEF EndWalk
  <2> QED BY <2>1, <2>2
<1>15. CASE LenShard(t)
  BY <1>15 DEF LenShard
<1>16. CASE EndLen(t)
  BY <1>16 DEF EndLen
<1>17. CASE Return(t)
  BY <1>17 DEF Return, NoCall, Call, Operations
<1> QED BY <1>1, <1>2, <1>3, <1>4, <1>5, <1>6, <1>7, <1>8, <1>9, <1>10, <1>11, <1>12, <1>13, <1>14, <1>15, <1>16, <1>17 DEF MoveStep

\* Replacing or dropping the open block keeps the type of a series.
LEMMA CurrentBlockType ==
  ASSUME NEW s \in Series, NEW b \in Block \cup {Nil}
  PROVE  [s EXCEPT !.current_block = b] \in Series
BY DEF Series

\* The steps of insert and of the sealing walk that change a series.
SeriesStep(t) ==
  \/ AppendCurrent(t) \/ TakeRejecting(t) \/ SealIfExpired(t) \/ PushSealed(t) \/ OpenBlock(t)

\* The steps of insert and of the sealing walk on a series keep the types.
LEMMA SeriesStepType ==
  ASSUME TypeInv, NEW t \in Threads, SeriesStep(t)
  PROVE  TypeInv'
<1> USE NilIsNoBlock DEF TypeInv, StoreTypeOK, Goto, store, walk, history
<1> DEFINE k == call[t].key
           p == call[t].point
           block == series[k].current_block
<1>1. pc[t] \in InsertPCs \cup OnSeriesPCs
  BY DEF SeriesStep, AppendCurrent, TakeRejecting, SealIfExpired, PushSealed, OpenBlock,
         InsertPCs, OnSeriesPCs
<1>2. k \in Keys /\ series[k] \in Series /\ block \in Block \cup {Nil}
  BY <1>1 DEF Control, Series
<1>3. pc[t] \in InsertPCs => p \in Point
  BY DEF Control
<1>4. CASE AppendCurrent(t)
  <2>1. block \in Block /\ p \in Point
    BY <1>2, <1>3, <1>4 DEF AppendCurrent, InsertPCs
  <2>2. [series[k] EXCEPT !.current_block = Pushed(block, p)] \in Series
    BY <1>2, <2>1, BlockTypes, CurrentBlockType
  <2>3. series' \in [Keys -> Series]
    BY <1>2, <1>4, <2>2 DEF AppendCurrent
  <2>4. accepted' \in [Keys -> Seq(Point)]
    BY <1>2, <1>4, <2>1, AppendProperties DEF AppendCurrent
  <2>5. StoreTypeOK'
    BY <1>4, <2>3, <2>4 DEF AppendCurrent, PCs
  <2>6. Control'
    BY <1>4 DEF AppendCurrent, Control, InsertPCs, OnSeriesPCs, HandlingPCs
  <2> QED BY <2>5, <2>6
<1>5. ASSUME TakeBlock(t), block # Nil, NEW to \in {"insert_push", "iter_push"},
             pc[t] \in {"insert_body", "iter_body"}, pc' = [pc EXCEPT ![t] = to],
             to = "insert_push" => pc[t] = "insert_body",
             to = "iter_push" => call[t].op = "seal_expired_blocks",
             UNCHANGED <<known, call, shard, todo, accepted, cuts>>
      PROVE  TypeInv'
  <2>1. Sealed(block) \in Block /\ Sealed(block) # Nil
    BY <1>2, <1>5, BlockTypes
  <2>2. limbo' = [limbo EXCEPT ![t] = Sealed(block)]
    BY <1>5 DEF TakeBlock
  <2>3. [series[k] EXCEPT !.current_block = Nil] \in Series
    BY <1>2, CurrentBlockType
  <2>4. series' \in [Keys -> Series]
    BY <1>2, <1>5, <2>3 DEF TakeBlock
  <2>5. StoreTypeOK'
    BY <1>5, <2>1, <2>2, <2>4 DEF PCs
  <2>6. Control'
    BY <1>2, <1>3, <1>5, <2>1, <2>2 DEF Control, InsertPCs, OnSeriesPCs, HandlingPCs
  <2> QED BY <2>5, <2>6
<1>6. CASE TakeRejecting(t)
  BY <1>5, <1>6 DEF TakeRejecting
<1>7. CASE SealIfExpired(t)
  <2>1. CASE UNCHANGED <<series, limbo>> /\ Goto(t, "iter_body", "iter_unlock")
    BY <1>7, <2>1 DEF SealIfExpired, Control, PCs, InsertPCs, OnSeriesPCs, HandlingPCs
  <2>2. CASE block # Nil /\ TakeBlock(t) /\ Goto(t, "iter_body", "iter_push")
    BY <1>5, <1>7, <2>2 DEF SealIfExpired
  <2> QED BY <1>7, <2>1, <2>2 DEF SealIfExpired
<1>8. CASE PushSealed(t)
  <2>1. limbo[t] \in Block
    BY <1>8 DEF PushSealed, Control, HandlingPCs
  <2>2. series' \in [Keys -> Series]
    BY <1>2, <1>8, <2>1, PushCompressedType DEF PushSealed
  <2>3. cuts' \in [Keys -> Seq(Nat)]
    <3>1. Len(accepted[k]) \in Nat
      BY <1>2, LenProperties
    <3> QED BY <1>2, <1>8, <3>1, AppendProperties DEF PushSealed
  <2>4. StoreTypeOK'
    BY <1>8, <2>2, <2>3 DEF PushSealed, PCs
  <2>5. Control'
    BY <1>8 DEF PushSealed, Control, InsertPCs, OnSeriesPCs, HandlingPCs
  <2> QED BY <2>4, <2>5
<1>9. CASE OpenBlock(t)
  <2>1. p \in Point /\ p.timestamp \in Timestamps
    BY <1>3, <1>9 DEF OpenBlock, InsertPCs, Point
  <2>2. [series[k] EXCEPT !.current_block = Pushed(NewBlock(p.timestamp), p)] \in Series
    BY <1>2, <2>1, NewBlockType, BlockTypes, CurrentBlockType
  <2>3. series' \in [Keys -> Series]
    BY <1>2, <1>9, <2>2, ZenonT(60) DEF OpenBlock
  <2>4. accepted' \in [Keys -> Seq(Point)]
    <3>1. Append(accepted[k], p) \in Seq(Point)
      BY <1>2, <2>1, AppendProperties
    <3>2. accepted' = accepted \/ accepted' = [accepted EXCEPT ![k] = Append(@, p)]
      BY <1>9 DEF OpenBlock
    <3> QED BY <1>2, <3>1, <3>2
  <2>5. StoreTypeOK'
    BY <1>9, <2>3, <2>4 DEF OpenBlock, PCs
  <2>6. Control'
    BY <1>9 DEF OpenBlock, Control, InsertPCs, OnSeriesPCs, HandlingPCs
  <2> QED BY <2>5, <2>6
<1> QED BY <1>4, <1>6, <1>7, <1>8, <1>9 DEF SeriesStep

\* Every step of a thread begins a call, moves it on, or works on a series.
LEMMA ThreadStepCases ==
  ASSUME NEW t \in Threads, ThreadStep(t)
  PROVE  \/ CallInsert(t) \/ CallScan(t) \/ CallGetSeries(t) \/ CallWalk(t) \/ CallLen(t)
         \/ MoveStep(t)
         \/ SeriesStep(t)
BY DEF ThreadStep, Insert, Read, Walk, MoveStep, SeriesStep

\* Every step keeps the types.
LEMMA NextTypeInv == TypeInv /\ [Next]_vars => TypeInv'
<1> SUFFICES ASSUME TypeInv, [Next]_vars PROVE TypeInv'
    OBVIOUS
<1>1. CASE Next
  BY <1>1, ThreadStepCases, BeginType, MoveType, SeriesStepType DEF Next
<1>2. CASE UNCHANGED vars
  BY <1>2 DEF TypeInv, StoreTypeOK, Control, vars, store, walk, history
<1> QED BY <1>1, <1>2

\* The state the calls work on is well typed, and a thread that works on a
\* series has the key and the point of a call.
THEOREM TypeCorrect == Spec => []TypeInv
BY InitTypeInv, NextTypeInv, PTL DEF Spec

-----------------------------------------------------------------------------
(* Locks *)

Exclusive ==
  \A t, u \in Threads :
    t # u => WriteSeries(t) \cap (WriteSeries(u) \cup ReadSeries(u)) = {}

\* A step of t moves no other thread, and t has no new lock on a series
\* that was not free.
LEMMA StepLocks ==
  ASSUME TypeInv, NEW t \in Threads, ThreadStep(t)
  PROVE  /\ \A u \in Threads \ {t} : pc'[u] = pc[u] /\ call'[u] = call[u]
         /\ \A k \in WriteSeries(t)' : k \in WriteSeries(t) \/ SeriesFreeToWrite(k)
         /\ \A k \in ReadSeries(t)' : k \in ReadSeries(t) \/ SeriesFreeToRead(k)
<1> USE DEF TypeInv, StoreTypeOK, Goto, WriteSeries, ReadSeries
<1>1. CASE CallInsert(t) \/ CallScan(t) \/ CallGetSeries(t) \/ CallWalk(t) \/ CallLen(t)
  BY <1>1, ZenonT(60) DEF CallInsert, CallScan, CallGetSeries, CallWalk, CallLen, Begin
<1>2. CASE MoveStep(t)
  <2>1. CASE LockEntrySeries(t) \/ LockSeriesToRead(t) \/ LockVisited(t)
    BY <2>1 DEF LockEntrySeries, LockSeriesToRead, LockVisited
  <2>2. CASE LockEntry(t) \/ UnlockInsert(t) \/ LockShardToRead(t) \/ ReadSeriesData(t) \/ UnlockRead(t)
    BY <2>2 DEF LockEntry, UnlockInsert, LockShardToRead, ReadSeriesData, UnlockRead
  <2>3. CASE NextShard(t) \/ VisitKey(t) \/ VisitSeries(t) \/ AddStats(t) \/ UnlockVisited(t)
    BY <2>3 DEF NextShard, VisitKey, VisitSeries, AddStats, UnlockVisited
  <2>4. CASE EndWalk(t) \/ LenShard(t) \/ EndLen(t) \/ Return(t)
    BY <2>4 DEF EndWalk, LenShard, EndLen, Return
  <2> QED BY <1>2, <2>1, <2>2, <2>3, <2>4 DEF MoveStep
<1>3. CASE SeriesStep(t)
  BY <1>3, ZenonT(60) DEF SeriesStep, AppendCurrent, TakeRejecting, SealIfExpired, PushSealed, OpenBlock, Control
<1> QED BY <1>1, <1>2, <1>3, ThreadStepCases

\* No thread holds a series to begin with.
LEMMA InitExclusive == Init => Exclusive
BY DEF Init, Exclusive, WriteSeries, ReadSeries

\* No step gives a series to a second thread while one writes it.
LEMMA NextExclusive == TypeInv /\ Exclusive /\ [Next]_vars => Exclusive'
<1> SUFFICES ASSUME TypeInv, Exclusive, [Next]_vars PROVE Exclusive'
    OBVIOUS
<1>1. ASSUME NEW t \in Threads, ThreadStep(t) PROVE Exclusive'
  <2>1. \A u \in Threads \ {t} :
          WriteSeries(u)' = WriteSeries(u) /\ ReadSeries(u)' = ReadSeries(u)
    BY <1>1, StepLocks DEF WriteSeries, ReadSeries
  <2>2. ASSUME NEW u \in Threads \ {t}
        PROVE  /\ WriteSeries(t)' \cap (WriteSeries(u)' \cup ReadSeries(u)') = {}
               /\ WriteSeries(u)' \cap (WriteSeries(t)' \cup ReadSeries(t)') = {}
    <3>1. \A k \in WriteSeries(t)' : k \notin WriteSeries(u) \cup ReadSeries(u)
      BY <1>1, <2>2, StepLocks DEF Exclusive, SeriesFreeToWrite
    <3>2. \A k \in ReadSeries(t)' : k \notin WriteSeries(u)
      BY <1>1, <2>2, StepLocks DEF Exclusive, SeriesFreeToRead
    <3> QED BY <2>1, <3>1, <3>2
  <2> QED BY <2>1, <2>2 DEF Exclusive
<1>2. CASE UNCHANGED vars
  BY <1>2 DEF Exclusive, WriteSeries, ReadSeries, vars
<1> QED BY <1>1, <1>2 DEF Next

-----------------------------------------------------------------------------
(* Nothing changes under a reader *)

\* Only a thread that has a series locked to write changes it.
LEMMA SeriesStepWrites ==
  ASSUME TypeInv, NEW t \in Threads, SeriesStep(t)
  PROVE  /\ call[t].key \in Keys
         /\ call[t].key \in WriteSeries(t)
         /\ ReadSeries(t) = {}
         /\ known' = known
         /\ call' = call
         /\ \A u \in Threads \ {t} : pc'[u] = pc[u] /\ limbo'[u] = limbo[u]
         /\ \A k \in Keys \ {call[t].key} :
              series'[k] = series[k] /\ accepted'[k] = accepted[k] /\ cuts'[k] = cuts[k]
<1> USE DEF TypeInv, StoreTypeOK, Control, Goto, WriteSeries, ReadSeries, InsertPCs, OnSeriesPCs
<1>1. CASE AppendCurrent(t)
  BY <1>1 DEF AppendCurrent
<1>2. CASE TakeRejecting(t)
  BY <1>2 DEF TakeRejecting, TakeBlock, history
<1>3. CASE SealIfExpired(t)
  BY <1>3 DEF SealIfExpired, TakeBlock, history
<1>4. CASE PushSealed(t)
  BY <1>4 DEF PushSealed
<1>5. CASE OpenBlock(t)
  BY <1>5 DEF OpenBlock
<1> QED BY <1>1, <1>2, <1>3, <1>4, <1>5 DEF SeriesStep

\* The other steps leave the store alone, but for the key an insert enters.
LEMMA QuietStepStore ==
  ASSUME TypeInv, NEW t \in Threads,
         \/ CallInsert(t) \/ CallScan(t) \/ CallGetSeries(t) \/ CallWalk(t) \/ CallLen(t)
         \/ MoveStep(t)
  PROVE  /\ UNCHANGED <<series, limbo, accepted, cuts>>
         /\ pc[t] \notin HandlingPCs /\ pc'[t] \notin HandlingPCs
         /\ known' = known \/ LockEntry(t)
<1> USE DEF TypeInv, StoreTypeOK, Goto, HandlingPCs, store, history
<1>1. CASE CallInsert(t) \/ CallScan(t) \/ CallGetSeries(t) \/ CallWalk(t) \/ CallLen(t)
  BY <1>1 DEF CallInsert, CallScan, CallGetSeries, CallWalk, CallLen, Begin
<1>2. CASE LockEntry(t) \/ LockEntrySeries(t) \/ UnlockInsert(t) \/ LockShardToRead(t)
           \/ LockSeriesToRead(t) \/ ReadSeriesData(t) \/ UnlockRead(t) \/ Return(t)
  BY <1>2 DEF LockEntry, LockEntrySeries, UnlockInsert, LockShardToRead, LockSeriesToRead,
              ReadSeriesData, UnlockRead, Return
<1>3. CASE NextShard(t) \/ VisitKey(t) \/ VisitSeries(t) \/ LockVisited(t) \/ AddStats(t)
           \/ UnlockVisited(t) \/ EndWalk(t) \/ LenShard(t) \/ EndLen(t)
  BY <1>3 DEF NextShard, VisitKey, VisitSeries, LockVisited, AddStats, UnlockVisited, EndWalk,
              LenShard, EndLen
<1> QED BY <1>1, <1>2, <1>3 DEF MoveStep

StableStep ==
  \A t \in Threads :
    /\ \A k \in ReadSeries(t) : series'[k] = series[k]
    /\ \A s \in ReadShards(t) : KeysIn(s)' = KeysIn(s)

\* No step changes what another thread has locked to read.
LEMMA NextStable == TypeInv /\ Exclusive /\ [Next]_vars => [StableStep]_vars
<1> SUFFICES ASSUME TypeInv, Exclusive, NEW t \in Threads, ThreadStep(t),
                    NEW u \in Threads
             PROVE  /\ \A k \in ReadSeries(u) : series'[k] = series[k]
                    /\ \A s \in ReadShards(u) : KeysIn(s)' = KeysIn(s)
    BY DEF Next, StableStep
<1>1. ReadSeries(u) \subseteq Keys
  BY DEF TypeInv, Control, ReadSeries, OnSeriesPCs
<1>2. CASE SeriesStep(t)
  <2>1. call[t].key \notin ReadSeries(u)
    BY <1>2, SeriesStepWrites DEF Exclusive
  <2>2. \A k \in ReadSeries(u) : series'[k] = series[k]
    BY <1>1, <1>2, <2>1, SeriesStepWrites
  <2>3. \A s \in ReadShards(u) : KeysIn(s)' = KeysIn(s)
    BY <1>2, SeriesStepWrites DEF KeysIn
  <2> QED BY <2>2, <2>3
<1>3. CASE known' = known /\ series' = series
  BY <1>3 DEF KeysIn
<1>4. CASE LockEntry(t)
  <2>1. series' = series /\ known' = known \cup {call[t].key}
    BY <1>4 DEF LockEntry
  <2>2. ShardOf[call[t].key] \notin ReadShards(u)
    BY <1>4 DEF LockEntry, ShardFreeToWrite
  <2> QED BY <2>1, <2>2 DEF KeysIn
<1> QED BY <1>2, <1>3, <1>4, ThreadStepCases, QuietStepStore

\* While a thread has a series locked to read, nobody changes it, and while
\* it has a shard locked to read, no key enters the shard: what get_stats,
\* to_time_series and scan_range read under the guard is one state.
THEOREM ReadersSeeStableState == Spec => StableUnderRead
<1>1. TypeInv /\ Exclusive /\ [Next]_vars => (TypeInv /\ Exclusive)'
  BY NextTypeInv, NextExclusive
<1>2. TypeInv /\ Exclusive /\ [Next]_vars => [StableStep]_vars
  BY NextStable
<1>3. Init => TypeInv /\ Exclusive
  BY InitTypeInv, InitExclusive
<1>4. Spec => [][StableStep]_vars
  BY <1>1, <1>2, <1>3, PTL DEF Spec
<1> QED BY <1>4 DEF StableUnderRead, StableStep

-----------------------------------------------------------------------------
(* Slices of the accepted points *)

\* What slicing a sequence yields does not change when an element is appended.
LEMMA AppendSlices ==
  ASSUME NEW S, NEW a \in Seq(S), NEW x \in S
  PROVE  /\ Len(Append(a, x)) = Len(a) + 1
         /\ \A i \in 1 .. Len(a) : Append(a, x)[i] = a[i]
         /\ \A m \in 1 .. Len(a) + 1, n \in 0 .. Len(a) :
              SubSeq(Append(a, x), m, n) = SubSeq(a, m, n)
         /\ \A m \in 1 .. Len(a) + 1 :
              SubSeq(Append(a, x), m, Len(a) + 1) = Append(SubSeq(a, m, Len(a)), x)
<1> DEFINE b == Append(a, x)
<1>1. b \in Seq(S) /\ Len(b) = Len(a) + 1 /\ Len(a) \in Nat /\ b[Len(a) + 1] = x
      /\ \A i \in 1 .. Len(a) : b[i] = a[i]
  BY AppendProperties, LenProperties
<1>2. \A i \in 1 .. Len(a) : a[i] \in S
  BY ElementOfSeq
<1>3. ASSUME NEW m \in 1 .. Len(a) + 1, NEW n \in 0 .. Len(a)
      PROVE  SubSeq(b, m, n) = SubSeq(a, m, n)
  <2>1. \A i \in m .. n : a[i] \in S /\ b[i] = a[i]
    BY <1>1, <1>2
  <2>2. /\ SubSeq(a, m, n) \in Seq(S) /\ SubSeq(b, m, n) \in Seq(S)
        /\ Len(SubSeq(a, m, n)) = Len(SubSeq(b, m, n))
        /\ Len(SubSeq(a, m, n)) = IF m <= n THEN n - m + 1 ELSE 0
        /\ \A i \in 1 .. n - m + 1 : SubSeq(a, m, n)[i] = a[m + i - 1]
                                   /\ SubSeq(b, m, n)[i] = b[m + i - 1]
    BY <1>1, <2>1, SubSeqProperties
  <2>3. \A i \in 1 .. n - m + 1 : SubSeq(a, m, n)[i] = SubSeq(b, m, n)[i]
    BY <1>1, <2>1, <2>2
  <2>4. \A i \in 1 .. Len(SubSeq(a, m, n)) : SubSeq(a, m, n)[i] = SubSeq(b, m, n)[i]
    BY <1>1, <2>2, <2>3
  <2> QED BY <2>2, <2>4, SeqEqual
<1>4. ASSUME NEW m \in 1 .. Len(a) + 1
      PROVE  SubSeq(b, m, Len(a) + 1) = Append(SubSeq(a, m, Len(a)), x)
  <2>1. SubSeq(b, m, Len(b)) = SubSeq(b, m, Len(b) - 1) \o << b[Len(b)] >>
    BY <1>1, SubSeqRecursiveSecond
  <2>2. SubSeq(b, m, Len(a)) = SubSeq(a, m, Len(a))
    BY <1>1, <1>3
  <2>3. SubSeq(a, m, Len(a)) \in Seq(S)
    BY <1>1, <1>2, SubSeqProperties
  <2> QED BY <1>1, <2>1, <2>2, <2>3, AppendIsConcat
<1> QED BY <1>1, <1>3, <1>4

\* What the compressor makes of a slice m .. n that is not empty.
LEMMA SliceFacts ==
  ASSUME NEW S, NEW a \in Seq(S), NEW m \in 1 .. Len(a), NEW n \in m .. Len(a)
  PROVE  LET slice == SubSeq(a, m, n)
         IN  /\ slice \in Seq(S) /\ slice # <<>>
             /\ Len(slice) = n - m + 1
             /\ \A i \in 1 .. n - m + 1 : slice[i] = a[m + i - 1]
             /\ slice[1] = a[m] /\ slice[Len(slice)] = a[n]
             /\ Tail(slice) = SubSeq(a, m + 1, n)
<1>1. \A i \in m .. n : a[i] \in S
  BY ElementOfSeq, LenProperties
<1>2. /\ SubSeq(a, m, n) \in Seq(S)
      /\ Len(SubSeq(a, m, n)) = n - m + 1
      /\ \A i \in 1 .. n - m + 1 : SubSeq(a, m, n)[i] = a[m + i - 1]
  BY <1>1, SubSeqProperties, LenProperties
<1>3. Tail(SubSeq(a, m, n)) = SubSeq(a, m + 1, n)
  BY HeadTailOfSubSeq
<1>4. SubSeq(a, m, n) # <<>>
  BY <1>2, EmptySeq
<1>5. SubSeq(a, m, n)[1] = a[m] /\ SubSeq(a, m, n)[n - m + 1] = a[n]
  BY <1>2, LenProperties
<1> QED BY <1>2, <1>3, <1>4, <1>5

-----------------------------------------------------------------------------
(* The accepted points are partitioned into blocks *)

KeyPartition(k) ==
  /\ Len(cuts[k]) = Len(series[k].sealed_blocks)
  /\ \A i \in DOMAIN cuts[k] : SealedFrom(k, i)
  /\ OpenHoldsRest(k)

\* A block's points are there, and in its window.
InWindow(b) ==
  /\ b.points # <<>>
  /\ b.start_time = b.points[1].timestamp
  /\ b.end_time <= b.start_time + BlockDuration
  /\ \A i \in 1 .. Len(b.points) :
       /\ b.start_time <= b.points[i].timestamp
       /\ b.points[i].timestamp < b.start_time + BlockDuration

BlocksOK ==
  /\ \A k \in Keys : series[k].current_block # Nil => InWindow(series[k].current_block)
  /\ \A t \in Threads :
       /\ limbo[t] # Nil => InWindow(limbo[t])
       /\ pc[t] = "insert_new" => series[call[t].key].current_block = Nil

Inv == TypeInv /\ Exclusive /\ BlocksOK /\ ArrivalPartition

\* ArrivalPartition, one key at a time.
LEMMA PartitionByKey == ArrivalPartition <=> \A k \in Keys : KeyPartition(k)
BY DEF ArrivalPartition, KeyPartition

\* The cuts of a key grow and lie within its accepted points.
LEMMA CutsInRange ==
  ASSUME TypeInv, NEW k \in Keys, KeyPartition(k)
  PROVE  /\ accepted[k] \in Seq(Point) /\ cuts[k] \in Seq(Nat)
         /\ LastCut(k) \in 0 .. Len(accepted[k])
         /\ \A i \in DOMAIN cuts[k] :
              /\ cuts[k][i] \in 1 .. Len(accepted[k])
              /\ CutBefore(k, i) + 1 \in 1 .. cuts[k][i]
<1>1. accepted[k] \in Seq(Point) /\ cuts[k] \in Seq(Nat)
  BY DEF TypeInv, StoreTypeOK
<1>2. \A i \in DOMAIN cuts[k] : i \in 1 .. Len(cuts[k]) /\ cuts[k][i] \in Nat
  BY <1>1, LenProperties, ElementOfSeq
<1>3. \A i \in DOMAIN cuts[k] : CutBefore(k, i) \in Nat
  BY <1>1, <1>2, LenProperties DEF CutBefore
<1>4. \A i \in DOMAIN cuts[k] : CutBefore(k, i) + 1 <= cuts[k][i] /\ cuts[k][i] <= Len(accepted[k])
  BY DEF KeyPartition, SealedFrom
<1>5. LastCut(k) \in 0 .. Len(accepted[k])
  <2>1. CASE cuts[k] = <<>>
    BY <1>1, <2>1, LenProperties DEF LastCut
  <2>2. CASE cuts[k] # <<>>
    <3>1. Len(cuts[k]) \in DOMAIN cuts[k]
      BY <1>1, <2>2, LenProperties, EmptySeq
    <3> QED BY <1>1, <1>2, <1>4, <2>2, <3>1, LenProperties DEF LastCut
  <2> QED BY <2>1, <2>2
<1> QED BY <1>1, <1>2, <1>3, <1>4, <1>5, LenProperties

\* A key whose series, history and unpushed block stay as they are.
LEMMA KeyUntouched ==
  ASSUME NEW k \in Keys, KeyPartition(k),
         series'[k] = series[k], accepted'[k] = accepted[k], cuts'[k] = cuts[k],
         \A t \in Threads : Unpushed(t, k)' <=> Unpushed(t, k),
         \A t \in Threads : Unpushed(t, k) => limbo'[t] = limbo[t]
  PROVE  KeyPartition(k)'
<1>1. \A i \in DOMAIN cuts[k] : SealedFrom(k, i)'
  BY DEF KeyPartition, SealedFrom, CutBefore
<1>2. OpenHoldsRest(k)'
  BY DEF KeyPartition, OpenHoldsRest, LastCut
<1> QED BY <1>1, <1>2 DEF KeyPartition

\* The open block takes a point: the sealed blocks are the same slices.
LEMMA KeyAppends ==
  ASSUME TypeInv, NEW k \in Keys, KeyPartition(k), NEW p \in Point,
         \A t \in Threads : ~Unpushed(t, k) /\ ~Unpushed(t, k)',
         series'[k].sealed_blocks = series[k].sealed_blocks,
         CurrentPoints(series'[k]) = Append(CurrentPoints(series[k]), p),
         accepted'[k] = Append(accepted[k], p), cuts'[k] = cuts[k]
  PROVE  KeyPartition(k)'
<1> DEFINE a == accepted[k]
           b == accepted'[k]
<1>1. /\ a \in Seq(Point) /\ Len(a) \in Nat
      /\ LastCut(k) + 1 \in 1 .. Len(a) + 1 /\ LastCut(k)' = LastCut(k)
  BY CutsInRange, LenProperties DEF LastCut
<1>2. /\ Len(b) = Len(a) + 1
      /\ \A i \in 1 .. Len(a) : b[i] = a[i]
      /\ \A m \in 1 .. Len(a) + 1, n \in 0 .. Len(a) : SubSeq(b, m, n) = SubSeq(a, m, n)
      /\ \A m \in 1 .. Len(a) + 1 : SubSeq(b, m, Len(a) + 1) = Append(SubSeq(a, m, Len(a)), p)
  <2>1. a \in Seq(Point) /\ b = Append(a, p)
    BY <1>1
  <2> HIDE DEF a, b
  <2> QED BY <2>1, AppendSlices
<1>3. ASSUME NEW i \in DOMAIN cuts[k]
      PROVE  SealedFrom(k, i)'
  <2> DEFINE first == CutBefore(k, i) + 1
             last  == cuts[k][i]
  <2>1. last \in 1 .. Len(a) /\ first \in 1 .. last /\ CutBefore(k, i)' = CutBefore(k, i)
    BY CutsInRange DEF CutBefore
  <2>2. SealedFrom(k, i)
    BY DEF KeyPartition
  <2>3. b[first] = a[first] /\ b[last] = a[last]
    BY <1>1, <1>2, <2>1
  <2>4. SubSeq(b, first + 1, last) = SubSeq(a, first + 1, last)
    <3> DEFINE m == first + 1
    <3>1. m \in 1 .. Len(a) + 1 /\ last \in 0 .. Len(a)
      BY <1>1, <2>1
    <3>2. SubSeq(b, m, last) = SubSeq(a, m, last)
      <4> HIDE DEF m, last, a, b
      <4> QED BY <1>2, <3>1
    <3> QED BY <3>2
  <2>5. /\ (CutBefore(k, i) + 1)' = first /\ cuts'[k][i] = last
        /\ series'[k].sealed_blocks[i] = series[k].sealed_blocks[i]
    BY <2>1
  <2>6. first <= last /\ last <= Len(b)
    BY <1>1, <1>2, <2>1
  <2> QED BY <2>2, <2>3, <2>4, <2>5, <2>6 DEF SealedFrom
<1>4. OpenHoldsRest(k)'
  <2>1. CurrentPoints(series[k]) = SubSeq(a, LastCut(k) + 1, Len(a))
    BY DEF KeyPartition, OpenHoldsRest
  <2>2. SubSeq(b, LastCut(k) + 1, Len(b)) = Append(SubSeq(a, LastCut(k) + 1, Len(a)), p)
    BY <1>1, <1>2
  <2> QED BY <1>1, <2>1, <2>2 DEF OpenHoldsRest
<1> QED BY <1>3, <1>4 DEF KeyPartition

\* The open block is pushed: it becomes the last slice.
LEMMA KeyPushes ==
  ASSUME TypeInv, NEW k \in Keys, KeyPartition(k), NEW t \in Threads,
         Unpushed(t, k), limbo[t] \in Block, limbo[t].points # <<>>,
         \A u \in Threads : ~Unpushed(u, k)',
         series'[k] = PushCompressed(series[k], limbo[t]),
         accepted'[k] = accepted[k], cuts'[k] = Append(cuts[k], Len(accepted[k]))
  PROVE  KeyPartition(k)' /\ series'[k].current_block = Nil
<1> DEFINE a == accepted[k]
           c == cuts[k]
           sealed == series[k].sealed_blocks
           block == limbo[t]
           m == LastCut(k) + 1
<1>1. /\ a \in Seq(Point) /\ Len(a) \in Nat /\ c \in Seq(Nat) /\ Len(c) \in Nat
      /\ sealed \in Seq(CompressedBlock) /\ Len(sealed) = Len(c) /\ LastCut(k) \in 0 .. Len(a)
  <2>1. series[k] \in Series
    BY DEF TypeInv, StoreTypeOK
  <2> QED BY <2>1, CutsInRange, LenProperties DEF KeyPartition, Series
<1>2. block.points = SubSeq(a, m, Len(a)) /\ series[k].current_block = Nil
  BY DEF KeyPartition, OpenHoldsRest
<1>3. m \in 1 .. Len(a)
  BY <1>1, <1>2, SubSeqEmpty
<1>4. /\ Compress(block) \in CompressedBlock
      /\ Compress(block).count = Len(a) - m + 1
      /\ Compress(block).start_timestamp = a[m].timestamp
      /\ Compress(block).end_timestamp = a[Len(a)].timestamp
      /\ Compress(block).compressed_data = SubSeq(a, m + 1, Len(a))
  <2>1. Len(a) \in m .. Len(a)
    BY <1>1, <1>3
  <2> DEFINE slice == SubSeq(a, m, Len(a))
  <2>2. /\ Len(slice) = Len(a) - m + 1 /\ slice[1] = a[m] /\ slice[Len(slice)] = a[Len(a)]
        /\ Tail(slice) = SubSeq(a, m + 1, Len(a))
    <3> HIDE DEF m, a
    <3> QED BY <1>1, <1>3, <2>1, SliceFacts
  <2> HIDE DEF m, a
  <2> QED BY <1>2, <2>2, BlockTypes DEF Compress
<1>5. /\ series'[k].sealed_blocks = Append(sealed, Compress(block))
      /\ series'[k].current_block = Nil
  <2>1. Compress(block).count > 0
    BY <1>1, <1>3, <1>4
  <2>2. series[k] \in Series
    BY DEF TypeInv, StoreTypeOK
  <2> QED BY <1>2, <2>1, <2>2 DEF PushCompressed, Series
<1>6. /\ Len(cuts'[k]) = Len(c) + 1 /\ cuts'[k][Len(c) + 1] = Len(a)
      /\ \A i \in 1 .. Len(c) : cuts'[k][i] = c[i]
      /\ Len(series'[k].sealed_blocks) = Len(c) + 1
      /\ series'[k].sealed_blocks[Len(c) + 1] = Compress(block)
      /\ \A i \in 1 .. Len(c) : series'[k].sealed_blocks[i] = sealed[i]
      /\ DOMAIN cuts'[k] = 1 .. Len(c) + 1
  <2>1. /\ Len(cuts'[k]) = Len(c) + 1 /\ cuts'[k][Len(c) + 1] = Len(a)
        /\ \A i \in 1 .. Len(c) : cuts'[k][i] = c[i]
        /\ DOMAIN cuts'[k] = 1 .. Len(c) + 1
    <3>1. cuts'[k] = Append(c, Len(a))
      OBVIOUS
    <3> HIDE DEF a, c
    <3> QED BY <1>1, <3>1, AppendProperties, LenProperties
  <2>2. /\ Len(series'[k].sealed_blocks) = Len(c) + 1
        /\ series'[k].sealed_blocks[Len(c) + 1] = Compress(block)
        /\ \A i \in 1 .. Len(c) : series'[k].sealed_blocks[i] = sealed[i]
    <3> DEFINE q == Compress(block)
               r == series'[k].sealed_blocks
    <3>1. r = Append(sealed, q) /\ q \in CompressedBlock /\ sealed \in Seq(CompressedBlock)
      BY <1>1, <1>4, <1>5
    <3>2. Len(r) = Len(sealed) + 1 /\ r[Len(sealed) + 1] = q
          /\ \A i \in 1 .. Len(sealed) : r[i] = sealed[i]
      <4> HIDE DEF q, r, sealed
      <4> QED BY <3>1, AppendProperties
    <3> QED BY <1>1, <3>2
  <2> QED BY <2>1, <2>2
<1>7. ASSUME NEW i \in 1 .. Len(c)
      PROVE  SealedFrom(k, i)'
  <2>1. SealedFrom(k, i)
    BY <1>1, LenProperties DEF KeyPartition
  <2>2. CutBefore(k, i)' = CutBefore(k, i)
    BY <1>1, <1>6 DEF CutBefore
  <2> QED BY <1>6, <2>1, <2>2 DEF SealedFrom
<1>8. ASSUME NEW n \in Nat, n = Len(c) + 1
      PROVE  SealedFrom(k, n)'
  <2>1. (CutBefore(k, n) + 1)' = m
    <3>1. CASE c = <<>>
      BY <1>1, <1>8, <3>1 DEF CutBefore, LastCut
    <3>2. CASE c # <<>>
      <4>1. Len(c) # 0 /\ n # 1 /\ n - 1 = Len(c) /\ Len(c) \in 1 .. Len(c)
        BY <1>1, <1>8, <3>2, EmptySeq, LenProperties
      <4>2. cuts'[k][n - 1] = c[Len(c)]
        BY <1>6, <4>1
      <4> QED BY <3>2, <4>1, <4>2 DEF CutBefore, LastCut
    <3> QED BY <3>1, <3>2
  <2>2. cuts'[k][n] = Len(a) /\ series'[k].sealed_blocks[n] = Compress(block)
    BY <1>6, <1>8
  <2>3. m <= Len(a)
    BY <1>1, <1>3
  <2> HIDE DEF m
  <2> QED BY <1>4, <2>1, <2>2, <2>3 DEF SealedFrom
<1>9. OpenHoldsRest(k)'
  <2>1. LastCut(k)' = Len(a)
    <3>1. Len(cuts'[k]) # 0
      BY <1>1, <1>6
    <3>2. cuts'[k] # <<>>
      <4> HIDE DEF c
      <4>1. Len(<<>>) = 0
        OBVIOUS
      <4> QED BY <3>1, <4>1, Zenon
    <3>3. cuts'[k][Len(cuts'[k])] = Len(a)
      BY <1>6
    <3> QED BY <3>2, <3>3 DEF LastCut
  <2>2. SubSeq(a, Len(a) + 1, Len(a)) = <<>>
    BY <1>1, SubSeqEmpty
  <2> QED BY <1>5, <2>1, <2>2 DEF OpenHoldsRest, CurrentPoints
<1>10. \A i \in DOMAIN cuts'[k] : SealedFrom(k, i)'
  <2>1. \A i \in DOMAIN cuts'[k] : i \in 1 .. Len(c) \/ (i \in Nat /\ i = Len(c) + 1)
    BY <1>1, <1>6
  <2> HIDE DEF c
  <2> QED BY <1>7, <1>8, <2>1
<1> QED BY <1>5, <1>6, <1>9, <1>10 DEF KeyPartition

\* The timestamp of a point is one of Timestamps.
LEMMA PointTypes ==
  ASSUME NEW p \in Point
  PROVE  p.timestamp \in Timestamps /\ p.timestamp \in Nat
<1>1. \A i \in Timestamps : i \in Nat
  BY TimestampsAssumption, ModulusAssumption
<1> QED BY <1>1 DEF Point

\* A block takes only points of its window, so these stay within it.
LEMMA PushedInWindow ==
  ASSUME NEW b \in Block, NEW p \in Point, InWindow(b), CanAccept(b, p.timestamp)
  PROVE  InWindow(Pushed(b, p))
<1> DEFINE q == Append(b.points, p)
<1>1. /\ b.points \in Seq(Point) /\ Len(b.points) \in Nat \ {0}
      /\ b.start_time \in Int /\ b.end_time \in Int /\ p.timestamp \in Int /\ BlockDuration \in Int
  <2>1. b.points \in Seq(Point) /\ b.points # <<>>
    BY DEF InWindow, Block
  <2>2. Len(b.points) \in Nat \ {0}
    BY <2>1, EmptySeq, LenProperties
  <2>3. b.start_time \in Int /\ b.end_time \in Int /\ p.timestamp \in Int
    <3>1. b.start_time \in Timestamps /\ b.end_time \in 0 .. Modulus - 1
      BY DEF Block
    <3>2. \A i \in 0 .. Modulus - 1 : i \in Int
      BY ModulusAssumption
    <3>3. p.timestamp \in Int
      BY PointTypes
    <3> QED BY <3>1, <3>2, <3>3, TimestampsAssumption
  <2> QED BY <2>1, <2>2, <2>3, DurationAssumption, ModulusAssumption
<1>2. /\ q \in Seq(Point) /\ Len(q) = Len(b.points) + 1 /\ q[Len(b.points) + 1] = p
      /\ \A i \in 1 .. Len(b.points) : q[i] = b.points[i]
  BY <1>1, AppendProperties
<1>3. q # <<>>
  BY <1>1, <1>2, EmptySeq
<1>4. Pushed(b, p).points = q /\ Pushed(b, p).start_time = b.start_time /\ Pushed(b, p).end_time = b.end_time
  BY DEF Pushed, Block
<1>5. b.start_time <= p.timestamp /\ p.timestamp < b.start_time + BlockDuration
  BY <1>1 DEF CanAccept, InWindow
<1>6. \A i \in 1 .. Len(q) : b.start_time <= q[i].timestamp /\ q[i].timestamp < b.start_time + BlockDuration
  BY <1>1, <1>2, <1>5 DEF InWindow
<1> HIDE DEF q
<1> QED BY <1>1, <1>2, <1>3, <1>4, <1>6, SMTT(30) DEF InWindow

\* Arithmetic modulo 2^64 never makes a number larger.
LEMMA ReducedBelow == ASSUME NEW x \in Nat, NEW n \in Nat \ {0} PROVE x % n <= x
<1>1. CASE x < n
  <2>1. x % n = x
    BY <1>1
  <2> QED BY <2>1
<1>2. CASE x >= n
  <2>1. x % n \in 0 .. n - 1
    OBVIOUS
  <2> QED BY <1>2, <2>1
<1> QED BY <1>1, <1>2

\* A block opened for a point holds that point alone, inside its window.
LEMMA OpenedInWindow ==
  ASSUME NEW p \in Point
  PROVE  /\ InWindow(Pushed(NewBlock(p.timestamp), p))
         /\ Pushed(NewBlock(p.timestamp), p).points = <<p>>
<1>1. p.timestamp \in Nat /\ (p.timestamp + BlockDuration) % Modulus <= p.timestamp + BlockDuration
  <2>1. p.timestamp \in Nat /\ p.timestamp + BlockDuration \in Nat
    BY PointTypes, ModulusAssumption, DurationAssumption
  <2> QED BY <2>1, ModulusAssumption, ReducedBelow
<1>2. Pushed(NewBlock(p.timestamp), p).points = <<p>>
  BY DEF Pushed, NewBlock
<1> QED BY <1>1, <1>2, DurationAssumption, ModulusAssumption DEF InWindow, Pushed, NewBlock

Blocks == BlocksOK /\ ArrivalPartition

\* A step that touches no series, limbo or history.
LEMMA QuietStepBlocks ==
  ASSUME Inv, NEW t \in Threads, ThreadStep(t), ~SeriesStep(t)
  PROVE  Blocks'
<1>1. /\ UNCHANGED <<series, limbo, accepted, cuts>>
      /\ pc[t] \notin HandlingPCs /\ pc'[t] \notin HandlingPCs
      /\ \A u \in Threads \ {t} : pc'[u] = pc[u] /\ call'[u] = call[u]
  BY ThreadStepCases, QuietStepStore, StepLocks DEF Inv
<1>2. \A k \in Keys, u \in Threads : Unpushed(u, k)' <=> Unpushed(u, k)
  BY <1>1 DEF Unpushed, HandlingPCs
<1>3. ASSUME NEW k \in Keys PROVE KeyPartition(k)'
  BY <1>1, <1>2, KeyUntouched, PartitionByKey DEF Inv
<1>4. ArrivalPartition'
  BY <1>3 DEF ArrivalPartition, KeyPartition
<1>5. BlocksOK'
  BY <1>1 DEF Inv, BlocksOK, InWindow, HandlingPCs
<1> QED BY <1>4, <1>5 DEF Blocks

\* The thread that changes a series is the only one with a block of it.
LEMMA AloneOnSeries ==
  ASSUME Inv, NEW t \in Threads, NEW k \in WriteSeries(t), NEW u \in Threads \ {t}
  PROVE  ~(pc[u] \in HandlingPCs /\ call[u].key = k)
BY DEF Inv, Exclusive, WriteSeries, HandlingPCs

\* A step on the series of one key: it is enough to look at that key, its
\* open block and what the thread has in limbo.
LEMMA OneKey ==
  ASSUME Inv, NEW t \in Threads, SeriesStep(t), NEW key \in Keys, key = call[t].key,
         KeyPartition(key)',
         series'[key].current_block # Nil => InWindow(series'[key].current_block),
         limbo'[t] # Nil => InWindow(limbo'[t]),
         pc'[t] = "insert_new" => series'[key].current_block = Nil
  PROVE  Blocks'
<1>1. /\ key \in Keys /\ key \in WriteSeries(t) /\ call' = call
      /\ \A u \in Threads \ {t} : pc'[u] = pc[u] /\ limbo'[u] = limbo[u]
      /\ \A k \in Keys \ {key} :
           series'[k] = series[k] /\ accepted'[k] = accepted[k] /\ cuts'[k] = cuts[k]
  BY SeriesStepWrites DEF Inv
<1>2. ASSUME NEW k \in Keys PROVE KeyPartition(k)'
  <2>1. CASE k = key
    BY <2>1
  <2>2. CASE k # key
    <3>1. \A u \in Threads : Unpushed(u, k)' <=> Unpushed(u, k)
      BY <1>1, <2>2 DEF Unpushed
    <3>2. \A u \in Threads : Unpushed(u, k) => limbo'[u] = limbo[u]
      BY <1>1, <2>2 DEF Unpushed
    <3>3. KeyPartition(k)
      BY PartitionByKey DEF Inv
    <3> QED BY <1>1, <2>2, <3>1, <3>2, <3>3, KeyUntouched
  <2> QED BY <2>1, <2>2
<1>3. ArrivalPartition'
  BY <1>2 DEF ArrivalPartition, KeyPartition
<1>4. \A k \in Keys : series'[k].current_block # Nil => InWindow(series'[k].current_block)
  BY <1>1 DEF Inv, BlocksOK
<1>5. ASSUME NEW u \in Threads \ {t}
      PROVE  /\ limbo'[u] # Nil => InWindow(limbo'[u])
             /\ pc'[u] = "insert_new" => series'[call'[u].key].current_block = Nil
  <2>1. limbo'[u] # Nil => InWindow(limbo'[u])
    BY <1>1 DEF Inv, BlocksOK
  <2>2. ASSUME pc'[u] = "insert_new" PROVE series'[call'[u].key].current_block = Nil
    <3>1. call[u].key # key
      BY <1>1, <2>2, AloneOnSeries DEF HandlingPCs
    <3>2. call[u].key \in Keys
      BY <1>1, <2>2 DEF Inv, TypeInv, Control, InsertPCs
    <3> QED BY <1>1, <2>2, <3>1, <3>2 DEF Inv, BlocksOK
  <2> QED BY <2>1, <2>2
<1>6. BlocksOK'
  BY <1>1, <1>4, <1>5 DEF BlocksOK, InWindow
<1> QED BY <1>3, <1>6 DEF Blocks

\* The steps on a series keep its points in its blocks, in arrival order.
LEMMA SeriesStepBlocks ==
  ASSUME Inv, TypeInv', NEW t \in Threads, SeriesStep(t)
  PROVE  Blocks'
<1> PICK k \in Keys : k = call[t].key /\ k \in WriteSeries(t)
    BY SeriesStepWrites DEF Inv
<1> DEFINE p == call[t].point
           block == series[k].current_block
<1>1. /\ series[k] \in Series /\ block \in Block \cup {Nil} /\ KeyPartition(k)
      /\ block # Nil => InWindow(block)
      /\ call' = call /\ \A u \in Threads \ {t} : pc'[u] = pc[u] /\ limbo'[u] = limbo[u]
  BY SeriesStepWrites, PartitionByKey DEF Inv, TypeInv, StoreTypeOK, Series, BlocksOK
<1>2. \A u \in Threads \ {t} : ~Unpushed(u, k) /\ ~Unpushed(u, k)'
  BY <1>1, AloneOnSeries DEF Unpushed, HandlingPCs
<1>3. pc \in [Threads -> PCs] /\ limbo \in [Threads -> Block \cup {Nil}] /\ series \in [Keys -> Series]
      /\ accepted \in [Keys -> Seq(Point)] /\ cuts \in [Keys -> Seq(Nat)]
  BY DEF Inv, TypeInv, StoreTypeOK
<1>4. pc[t] \in InsertPCs => p \in Point
  BY DEF Inv, TypeInv, Control
<1>5. CASE AppendCurrent(t)
  <2>1. /\ pc[t] = "insert_body" /\ pc'[t] = "insert_unlock" /\ block # Nil
        /\ CanAccept(block, p.timestamp) /\ p \in Point
        /\ series'[k] = [series[k] EXCEPT !.current_block = Pushed(block, p)]
        /\ accepted'[k] = Append(accepted[k], p) /\ cuts' = cuts /\ limbo' = limbo
    BY <1>3, <1>4, <1>5 DEF AppendCurrent, Goto, InsertPCs
  <2>2. /\ series'[k].current_block = Pushed(block, p)
        /\ series'[k].sealed_blocks = series[k].sealed_blocks
    BY <1>1, <2>1 DEF Series
  <2>3. Pushed(block, p) # Nil /\ Pushed(block, p).points = Append(block.points, p)
    <3>1. block \in Block
      BY <1>1, <2>1
    <3>2. Pushed(block, p) # Nil
      <4>1. p \in Point
        BY <2>1
      <4> HIDE DEF block, p
      <4>2. Pushed(block, p) \in Block
        BY <3>1, <4>1, BlockTypes
      <4> QED BY <4>2, NilIsNoBlock
    <3> QED BY <3>1, <3>2 DEF Pushed, Block
  <2>4. \A u \in Threads : ~Unpushed(u, k) /\ ~Unpushed(u, k)'
    BY <1>2, <2>1 DEF Unpushed
  <2>5. CurrentPoints(series'[k]) = Append(CurrentPoints(series[k]), p)
    BY <2>1, <2>2, <2>3 DEF CurrentPoints
  <2>6. KeyPartition(k)'
    BY <1>1, <2>1, <2>2, <2>4, <2>5, KeyAppends DEF Inv
  <2>7. InWindow(series'[k].current_block)
    BY <1>1, <2>1, <2>2, PushedInWindow
  <2>8. limbo'[t] # Nil => InWindow(limbo'[t])
    BY <2>1 DEF Inv, BlocksOK
  <2> QED BY <2>1, <2>6, <2>7, <2>8, OneKey
<1>6. ASSUME TakeBlock(t), block # Nil, NEW to \in {"insert_push", "iter_push"},
             pc[t] \notin {"insert_push", "iter_push"}, pc'[t] = to,
             accepted' = accepted, cuts' = cuts
      PROVE  Blocks'
  <2>1. /\ limbo'[t] = Sealed(block)
        /\ series'[k] = [series[k] EXCEPT !.current_block = Nil]
    BY <1>3, <1>6 DEF TakeBlock
  <2>2. series'[k].current_block = Nil /\ series'[k].sealed_blocks = series[k].sealed_blocks
    BY <1>1, <2>1 DEF Series
  <2>3. Unpushed(t, k)' /\ ~Unpushed(t, k)
    BY <1>1, <1>6 DEF Unpushed
  <2>4. /\ Sealed(block).points = block.points /\ Sealed(block).start_time = block.start_time
        /\ Sealed(block).end_time = block.end_time
    BY <1>1, <1>6 DEF Sealed, Block
  <2>5. \A i \in DOMAIN cuts[k] : SealedFrom(k, i)'
    <3> SUFFICES ASSUME NEW i \in DOMAIN cuts[k] PROVE SealedFrom(k, i)'
        OBVIOUS
    <3>1. SealedFrom(k, i)
      BY <1>1 DEF KeyPartition
    <3>2. CutBefore(k, i)' = CutBefore(k, i)
      BY <1>6 DEF CutBefore
    <3> QED BY <1>6, <2>2, <3>1, <3>2 DEF SealedFrom
  <2>6. OpenHoldsRest(k)'
    <3>1. CurrentPoints(series[k]) = SubSeq(accepted[k], LastCut(k) + 1, Len(accepted[k]))
      BY <1>1, <1>2, <2>3 DEF KeyPartition, OpenHoldsRest
    <3>2. limbo'[t].points = SubSeq(accepted[k], LastCut(k) + 1, Len(accepted[k]))
      BY <1>6, <2>1, <2>4, <3>1 DEF CurrentPoints
    <3>3. \A u \in Threads : Unpushed(u, k)' => u = t
      BY <1>2
    <3>4. LastCut(k)' = LastCut(k)
      BY <1>6 DEF LastCut
    <3> QED BY <1>6, <2>2, <2>3, <3>2, <3>3, <3>4 DEF OpenHoldsRest
  <2>7. KeyPartition(k)'
    BY <1>1, <1>6, <2>2, <2>5, <2>6 DEF KeyPartition
  <2>8. InWindow(limbo'[t])
    BY <1>1, <1>6, <2>1, <2>4 DEF InWindow
  <2> QED BY <1>6, <2>2, <2>7, <2>8, OneKey
<1>7. CASE TakeRejecting(t)
  BY <1>3, <1>6, <1>7 DEF TakeRejecting, Goto, history
<1>8. CASE SealIfExpired(t)
  <2>1. CASE UNCHANGED <<series, limbo>> /\ Goto(t, "iter_body", "iter_unlock")
    <3>1. /\ pc[t] = "iter_body" /\ pc'[t] = "iter_unlock"
          /\ UNCHANGED <<series, limbo, accepted, cuts>>
      BY <1>3, <1>8, <2>1 DEF SealIfExpired, Goto, history
    <3>2. \A u \in Threads : Unpushed(u, k)' <=> Unpushed(u, k)
      BY <1>2, <3>1 DEF Unpushed
    <3>3. KeyPartition(k)'
      BY <1>1, <3>1, <3>2, KeyUntouched
    <3>4. /\ series'[k].current_block # Nil => InWindow(series'[k].current_block)
          /\ limbo'[t] # Nil => InWindow(limbo'[t])
      BY <1>1, <3>1 DEF Inv, BlocksOK
    <3> QED BY <3>1, <3>3, <3>4, OneKey
  <2>2. CASE block # Nil /\ TakeBlock(t) /\ Goto(t, "iter_body", "iter_push")
    BY <1>3, <1>6, <1>8, <2>2 DEF SealIfExpired, Goto, history
  <2> QED BY <1>8, <2>1, <2>2 DEF SealIfExpired
<1>9. CASE PushSealed(t)
  <2>1. /\ pc[t] \in {"insert_push", "iter_push"} /\ pc'[t] \in {"insert_new", "iter_unlock"}
        /\ limbo'[t] = limbo[t] \/ limbo'[t] = Nil
        /\ series'[k] = PushCompressed(series[k], limbo[t])
        /\ cuts'[k] = Append(cuts[k], Len(accepted[k])) /\ accepted' = accepted
    BY <1>3, <1>9 DEF PushSealed, Goto
  <2>2. limbo[t] \in Block /\ InWindow(limbo[t]) /\ limbo[t].points # <<>>
    BY <1>3, <2>1 DEF Inv, TypeInv, Control, HandlingPCs, BlocksOK, InWindow
  <2>3. Unpushed(t, k) /\ \A u \in Threads : ~Unpushed(u, k)'
    BY <1>1, <1>2, <2>1 DEF Unpushed
  <2>4. KeyPartition(k)' /\ series'[k].current_block = Nil
    BY <1>1, <2>1, <2>2, <2>3, KeyPushes DEF Inv
  <2> QED BY <2>1, <2>2, <2>4, OneKey
<1>10. CASE OpenBlock(t)
  <2>1. /\ pc[t] \in {"insert_new", "insert_body"} /\ pc'[t] = "insert_unlock"
        /\ limbo'[t] = Nil /\ cuts' = cuts /\ p \in Point
    BY <1>3, <1>4, <1>10 DEF OpenBlock, Goto, InsertPCs
  <2>2. block = Nil
    BY <1>10 DEF OpenBlock, Goto, Inv, BlocksOK
  <2>3. \A u \in Threads : ~Unpushed(u, k) /\ ~Unpushed(u, k)'
    BY <1>2, <2>1 DEF Unpushed
  <2>4. CASE UNCHANGED <<series, accepted>>
    <3>1. KeyPartition(k)'
      BY <1>1, <2>1, <2>3, <2>4, KeyUntouched
    <3> QED BY <2>1, <2>2, <2>4, <3>1, OneKey
  <2>5. CASE /\ series' = [series EXCEPT ![k].current_block = Pushed(NewBlock(p.timestamp), p)]
             /\ accepted' = [accepted EXCEPT ![k] = Append(@, p)]
    <3>1. /\ series'[k].current_block = Pushed(NewBlock(p.timestamp), p)
          /\ series'[k].sealed_blocks = series[k].sealed_blocks
          /\ accepted'[k] = Append(accepted[k], p)
      BY <1>1, <1>3, <2>5 DEF Series
    <3>2. /\ InWindow(Pushed(NewBlock(p.timestamp), p)) /\ Pushed(NewBlock(p.timestamp), p) # Nil
          /\ Pushed(NewBlock(p.timestamp), p).points = <<p>>
      BY <2>1, OpenedInWindow, NewBlockType, BlockTypes, PointTypes, NilIsNoBlock
    <3>3. CurrentPoints(series'[k]) = Append(CurrentPoints(series[k]), p)
      BY <2>2, <3>1, <3>2 DEF CurrentPoints
    <3>4. KeyPartition(k)'
      BY <1>1, <2>1, <2>3, <3>1, <3>3, KeyAppends DEF Inv
    <3> QED BY <2>1, <3>1, <3>2, <3>4, OneKey
  <2> QED BY <1>10, <2>4, <2>5 DEF OpenBlock
<1> QED BY <1>5, <1>7, <1>8, <1>9, <1>10 DEF SeriesStep

\* The empty map partitions no points into no blocks.
LEMMA InitBlocks == Init => Blocks
<1> SUFFICES ASSUME Init PROVE Blocks
    OBVIOUS
<1>1. \A k \in Keys : series[k].current_block = Nil /\ series[k].sealed_blocks = <<>>
                      /\ accepted[k] = <<>> /\ cuts[k] = <<>>
  BY DEF Init, EmptySeries
<1>2. BlocksOK
  BY <1>1 DEF Init, BlocksOK
<1>3. ASSUME NEW k \in Keys PROVE KeyPartition(k)
  <2>1. SubSeq(<<>>, 1, 0) = <<>>
    BY SubSeqEmpty
  <2>2. OpenHoldsRest(k)
    BY <1>1, <2>1 DEF Init, OpenHoldsRest, Unpushed, LastCut, CurrentPoints
  <2> QED BY <1>1, <2>2 DEF KeyPartition
<1> QED BY <1>2, <1>3, PartitionByKey DEF Blocks

\* The invariant is inductive.
LEMMA NextInv == Inv /\ [Next]_vars => Inv'
<1> SUFFICES ASSUME Inv, [Next]_vars PROVE Inv'
    OBVIOUS
<1>1. TypeInv' /\ Exclusive'
  BY NextTypeInv, NextExclusive DEF Inv
<1>2. CASE Next
  <2>1. PICK t \in Threads : ThreadStep(t)
    BY <1>2 DEF Next
  <2>2. Blocks'
    BY <1>1, <2>1, QuietStepBlocks, SeriesStepBlocks
  <2> QED BY <1>1, <2>2 DEF Inv, Blocks
<1>3. CASE UNCHANGED vars
  <2>1. \A k \in Keys, u \in Threads : Unpushed(u, k)' <=> Unpushed(u, k)
    BY <1>3 DEF vars, Unpushed
  <2>2. ASSUME NEW k \in Keys PROVE KeyPartition(k)'
    BY <1>3, <2>1, KeyUntouched, PartitionByKey DEF Inv, vars, store, history
  <2>3. ArrivalPartition'
    BY <2>2 DEF ArrivalPartition, KeyPartition
  <2>4. BlocksOK'
    BY <1>3 DEF Inv, BlocksOK, InWindow, vars, store
  <2> QED BY <1>1, <2>3, <2>4 DEF Inv
<1> QED BY <1>2, <1>3

\* The invariant holds of the empty map.
LEMMA InitInv == Init => Inv
BY InitTypeInv, InitExclusive, InitBlocks DEF Inv, Blocks

\* The invariant holds of every reachable state.
LEMMA InvHolds == Spec => []Inv
BY InitInv, NextInv, PTL DEF Spec

\* Every accepted point is in exactly one block and the blocks cut the points
\* in arrival order, whatever inserts and sealing walks run at once
\* (memory.rs insert_point, seal_current_block, seal_if_expired).
THEOREM PointsArePartitioned == Spec => []ArrivalPartition
<1>1. Inv => ArrivalPartition
  BY DEF Inv
<1> QED BY <1>1, InvHolds, PTL

-----------------------------------------------------------------------------
(* A sealed block spans less than BlockDuration *)

\* BlockSpan in terms of the history: the points between two cuts are in the
\* window that the first of them opens.
SliceSpan(k) ==
  \A i \in DOMAIN cuts[k] : \A j \in CutBefore(k, i) + 1 .. cuts[k][i] :
    LET start == accepted[k][CutBefore(k, i) + 1].timestamp
    IN  /\ start <= accepted[k][j].timestamp
        /\ accepted[k][j].timestamp < start + BlockDuration

SlicesSpan == \A k \in Keys : SliceSpan(k)

\* The span of the sealed blocks, stated of the slices they were made from.
LEMMA SpanOfSlices == Inv /\ SlicesSpan => BlockSpan
<1> SUFFICES ASSUME Inv, SlicesSpan, NEW k \in Keys, NEW i \in DOMAIN cuts[k]
             PROVE  \A j \in CutBefore(k, i) + 1 .. cuts[k][i] :
                      LET start == series[k].sealed_blocks[i].start_timestamp
                      IN  /\ start <= accepted[k][j].timestamp
                          /\ accepted[k][j].timestamp < start + BlockDuration
    BY DEF BlockSpan
<1>1. SealedFrom(k, i)
  BY PartitionByKey DEF Inv, KeyPartition
<1>2. series[k].sealed_blocks[i].start_timestamp = accepted[k][CutBefore(k, i) + 1].timestamp
  BY <1>1 DEF SealedFrom
<1> QED BY <1>2 DEF SlicesSpan, SliceSpan

\* Appending to accepted leaves the slices as they are.
LEMMA SpanKept ==
  ASSUME TypeInv, NEW k \in Keys, KeyPartition(k), SliceSpan(k), cuts'[k] = cuts[k],
         accepted'[k] = accepted[k] \/ \E p \in Point : accepted'[k] = Append(accepted[k], p)
  PROVE  SliceSpan(k)'
<1> SUFFICES ASSUME NEW i \in DOMAIN cuts[k], NEW j \in CutBefore(k, i) + 1 .. cuts[k][i]
             PROVE  LET start == accepted'[k][CutBefore(k, i) + 1].timestamp
                    IN  /\ start <= accepted'[k][j].timestamp
                        /\ accepted'[k][j].timestamp < start + BlockDuration
    BY DEF SliceSpan, CutBefore
<1>1. /\ accepted[k] \in Seq(Point) /\ cuts[k][i] \in 1 .. Len(accepted[k])
      /\ CutBefore(k, i) + 1 \in 1 .. cuts[k][i]
  BY CutsInRange
<1>2. j \in 1 .. Len(accepted[k]) /\ CutBefore(k, i) + 1 \in 1 .. Len(accepted[k])
  BY <1>1, LenProperties
<1>3. \A l \in 1 .. Len(accepted[k]) : accepted'[k][l] = accepted[k][l]
  BY <1>1, AppendSlices
<1> QED BY <1>2, <1>3 DEF SliceSpan

\* The block pushed keeps the window it had while it was open.
LEMMA SpanPushed ==
  ASSUME TypeInv, NEW k \in Keys, KeyPartition(k), SliceSpan(k), NEW t \in Threads,
         Unpushed(t, k), limbo[t] \in Block, InWindow(limbo[t]),
         accepted'[k] = accepted[k], cuts'[k] = Append(cuts[k], Len(accepted[k]))
  PROVE  SliceSpan(k)'
<1> DEFINE a == accepted[k]
           c == cuts[k]
           m == LastCut(k) + 1
           points == limbo[t].points
<1>1. /\ a \in Seq(Point) /\ Len(a) \in Nat /\ c \in Seq(Nat) /\ Len(c) \in Nat
      /\ m \in 1 .. Len(a) + 1 /\ points = SubSeq(a, m, Len(a)) /\ points # <<>>
  BY CutsInRange, LenProperties, SMTT(30) DEF KeyPartition, OpenHoldsRest, InWindow
<1>2. m \in 1 .. Len(a) /\ Len(a) \in m .. Len(a)
  BY <1>1, SubSeqEmpty
<1>3. Len(points) = Len(a) - m + 1 /\ \A i \in 1 .. Len(a) - m + 1 : points[i] = a[m + i - 1]
  <2> HIDE DEF a, m, points
  <2> QED BY <1>1, <1>2, SliceFacts
<1>4. ASSUME NEW j \in m .. Len(a)
      PROVE  /\ a[m].timestamp <= a[j].timestamp
             /\ a[j].timestamp < a[m].timestamp + BlockDuration
  <2>1. j - m + 1 \in 1 .. Len(points) /\ points[j - m + 1] = a[j] /\ points[1] = a[m]
    <3> HIDE DEF a, m, points
    <3>1. j - m + 1 \in 1 .. Len(a) - m + 1 /\ m + (j - m + 1) - 1 = j
          /\ 1 \in 1 .. Len(a) - m + 1 /\ m + 1 - 1 = m
      BY <1>1, <1>2, SMTT(30)
    <3>2. points[j - m + 1] = a[m + (j - m + 1) - 1] /\ points[1] = a[m + 1 - 1]
      BY <1>3, <3>1
    <3> QED BY <1>3, <3>1, <3>2
  <2> QED BY <2>1 DEF InWindow
<1>5. /\ Len(cuts'[k]) = Len(c) + 1 /\ cuts'[k][Len(c) + 1] = Len(a)
      /\ \A i \in 1 .. Len(c) : cuts'[k][i] = c[i]
      /\ DOMAIN cuts'[k] = 1 .. Len(c) + 1
  <2>1. cuts'[k] = Append(c, Len(a))
    OBVIOUS
  <2> HIDE DEF a, c
  <2> QED BY <1>1, <2>1, AppendProperties, LenProperties
<1> SUFFICES ASSUME NEW i \in DOMAIN cuts'[k], NEW j \in CutBefore(k, i)' + 1 .. cuts'[k][i]
             PROVE  LET start == a[CutBefore(k, i)' + 1].timestamp
                    IN  /\ start <= a[j].timestamp
                        /\ a[j].timestamp < start + BlockDuration
    BY DEF SliceSpan
<1>6. CASE i \in 1 .. Len(c)
  <2>1. CutBefore(k, i)' = CutBefore(k, i) /\ cuts'[k][i] = c[i] /\ i \in DOMAIN c
    <3>1. cuts'[k][i] = c[i] /\ i \in DOMAIN c
      BY <1>1, <1>5, <1>6, LenProperties
    <3>2. i # 1 => cuts'[k][i - 1] = c[i - 1]
      <4>1. i # 1 => i - 1 \in 1 .. Len(c)
        BY <1>1, <1>6, SMTT(30)
      <4> QED BY <1>5, <4>1
    <3>3. CutBefore(k, i)' = CutBefore(k, i)
      BY <3>2 DEF CutBefore
    <3> QED BY <3>1, <3>3
  <2> QED BY <2>1 DEF SliceSpan
<1>7. CASE i = Len(c) + 1
  <2>1. CutBefore(k, i)' + 1 = m
    <3>1. CASE c = <<>>
      BY <1>1, <1>7, <3>1 DEF CutBefore, LastCut
    <3>2. CASE c # <<>>
      <4>1. Len(c) # 0 /\ i # 1 /\ i - 1 = Len(c) /\ Len(c) \in 1 .. Len(c)
        BY <1>1, <1>7, <3>2, EmptySeq, LenProperties
      <4>2. cuts'[k][i - 1] = c[Len(c)]
        BY <1>5, <4>1
      <4> QED BY <3>2, <4>1, <4>2 DEF CutBefore, LastCut
    <3> QED BY <3>1, <3>2
  <2> QED BY <1>4, <1>5, <1>7, <2>1
<1> QED BY <1>1, <1>5, <1>6, <1>7

\* Every step keeps the span of the sealed blocks.
LEMMA NextSpan == Inv /\ SlicesSpan /\ [Next]_vars => SlicesSpan'
<1> SUFFICES ASSUME Inv, SlicesSpan, [Next]_vars, NEW k \in Keys PROVE SliceSpan(k)'
    BY DEF SlicesSpan
<1>1. TypeInv /\ KeyPartition(k) /\ SliceSpan(k)
  BY PartitionByKey DEF Inv, SlicesSpan
<1>2. CASE UNCHANGED <<accepted, cuts>>
  BY <1>1, <1>2, SpanKept
<1>3. ASSUME NEW t \in Threads, SeriesStep(t) PROVE SliceSpan(k)'
  <2>1. CASE k # call[t].key
    BY <1>1, <1>3, <2>1, SeriesStepWrites, SpanKept
  <2>2. CASE k = call[t].key /\ PushSealed(t)
    <3>1. Unpushed(t, k) /\ limbo[t] \in Block /\ InWindow(limbo[t])
      BY <2>2 DEF PushSealed, Goto, Unpushed, Inv, TypeInv, StoreTypeOK, Control, HandlingPCs, BlocksOK
    <3>2. accepted'[k] = accepted[k] /\ cuts'[k] = Append(cuts[k], Len(accepted[k]))
      BY <2>2 DEF PushSealed, Inv, TypeInv, StoreTypeOK
    <3> QED BY <1>1, <3>1, <3>2, SpanPushed
  <2>3. CASE k = call[t].key /\ ~PushSealed(t)
    <3>1. call[t].point \in Point \/ accepted' = accepted
      BY <1>3, <2>3 DEF SeriesStep, AppendCurrent, TakeRejecting, SealIfExpired, OpenBlock,
                        Goto, history, Inv, TypeInv, Control, InsertPCs
    <3>2. /\ cuts' = cuts
          /\ accepted' = accepted \/ accepted'[k] = Append(accepted[k], call[t].point)
      BY <1>3, <2>3 DEF SeriesStep, AppendCurrent, TakeRejecting, SealIfExpired, OpenBlock,
                        history, Inv, TypeInv, StoreTypeOK
    <3> QED BY <1>1, <3>1, <3>2, SpanKept
  <2> QED BY <2>1, <2>2, <2>3
<1>4. CASE UNCHANGED vars
  BY <1>2, <1>4 DEF vars, history
<1> QED BY <1>2, <1>3, <1>4, ThreadStepCases, QuietStepStore DEF Next, Inv

\* The points of a sealed block lie in the window of BlockDuration that its
\* first point opens, close to the end of the clock too (block.rs can_accept
\* against an end_time that wraps).
THEOREM BlocksSpanTheirWindow == Spec => []BlockSpan
<1>1. Init => SlicesSpan
  BY DEF Init, SlicesSpan, SliceSpan
<1>2. Inv /\ SlicesSpan /\ [Next]_vars => SlicesSpan'
  BY NextSpan
<1>3. Inv /\ SlicesSpan => BlockSpan
  BY SpanOfSlices
<1> QED BY <1>1, <1>2, <1>3, InvHolds, PTL DEF Spec

-----------------------------------------------------------------------------
(* Sorting by rank loses nothing *)

Before(points, picked, i) == {j \in picked : Precedes(points, j, i)}

\* Two places of points with natural timestamps: one precedes the other.
LEMMA RanksDiffer ==
  ASSUME NEW points, NEW picked \in SUBSET (DOMAIN points), IsFiniteSet(picked),
         \A i \in picked : i \in Nat /\ points[i].timestamp \in Nat,
         NEW i \in picked, NEW j \in picked, Precedes(points, j, i)
  PROVE  Cardinality(Before(points, picked, j)) < Cardinality(Before(points, picked, i))
<1> DEFINE low == Before(points, picked, j)
           high == Before(points, picked, i)
<1>1. low \subseteq high
  BY DEF Before, Precedes
<1>2. j \in high /\ j \notin low
  BY DEF Before, Precedes
<1>3. high \subseteq picked
  BY DEF Before
<1>4. IsFiniteSet(high)
  BY <1>3, FS_Subset
<1>5. IsFiniteSet(low) /\ Cardinality(low) <= Cardinality(high) /\ Cardinality(high) # Cardinality(low)
  <2> HIDE DEF low, high
  <2> QED
    BY <1>1, <1>2, <1>4, FS_Subset
<1>6. Cardinality(low) \in Nat /\ Cardinality(high) \in Nat
  BY <1>4, <1>5, FS_CardinalityType
<1> QED
  BY <1>5, <1>6

Rank(points, picked, i) == Cardinality(Before(points, picked, i))

\* The ranks of the picked places are 0, 1, ..., each taken once.
LEMMA RanksAreAllTaken ==
  ASSUME NEW points \in Seq(Point), NEW picked \in SUBSET (DOMAIN points)
  PROVE  /\ IsFiniteSet(picked) /\ Cardinality(picked) \in Nat
         /\ \A i \in picked : i \in Nat /\ points[i] \in Point /\ points[i].timestamp \in Nat
         /\ \A i \in picked : Rank(points, picked, i) \in 0 .. Cardinality(picked) - 1
         /\ \A i, j \in picked : Rank(points, picked, i) = Rank(points, picked, j) => i = j
         /\ \A r \in 0 .. Cardinality(picked) - 1 : \E i \in picked : Rank(points, picked, i) = r
<1> DEFINE rank(j) == Rank(points, picked, j)
           size == Cardinality(picked)
<1>1. DOMAIN points = 1 .. Len(points) /\ Len(points) \in Nat
  BY LenProperties
<1>2. IsFiniteSet(picked) /\ size \in Nat
  <2>1. IsFiniteSet(1 .. Len(points))
    BY <1>1, FS_Interval
  <2>2. IsFiniteSet(picked)
    BY <1>1, <2>1, FS_Subset
  <2> QED
    BY <2>2, FS_CardinalityType
<1>3. \A j \in picked : j \in Nat /\ points[j] \in Point /\ points[j].timestamp \in Nat
  <2>1. \A j \in picked : points[j] \in Point
    BY <1>1, ElementOfSeq
  <2> QED
    BY <1>1, <2>1, PointTypes
<1>4. ASSUME NEW i \in picked PROVE rank(i) \in 0 .. size - 1
  <2>1. Before(points, picked, i) \subseteq picked \ {i}
    BY <1>3 DEF Before, Precedes
  <2>2. IsFiniteSet(picked \ {i}) /\ Cardinality(picked \ {i}) = size - 1
    BY <1>2, FS_RemoveElement
  <2>3. IsFiniteSet(Before(points, picked, i)) /\ rank(i) <= size - 1
    BY <2>1, <2>2, FS_Subset DEF Rank
  <2>4. rank(i) \in Nat
    BY <2>3, FS_CardinalityType DEF Rank
  <2> QED
    BY <1>2, <2>3, <2>4
<1>5. ASSUME NEW i \in picked, NEW j \in picked, j # i
      PROVE  rank(j) # rank(i)
  <2>1. Precedes(points, j, i) \/ Precedes(points, i, j)
    BY <1>3, <1>5 DEF Precedes
  <2>2. rank(i) \in Nat /\ rank(j) \in Nat
    BY <1>4
  <2>3. CASE Precedes(points, j, i)
    <3>1. rank(j) < rank(i)
      BY <1>2, <1>3, <2>3, RanksDiffer DEF Rank
    <3> QED
      BY <2>2, <3>1
  <2>4. CASE Precedes(points, i, j)
    <3>1. rank(i) < rank(j)
      BY <1>2, <1>3, <2>4, RanksDiffer DEF Rank
    <3> QED
      BY <2>2, <3>1
  <2> QED
    BY <2>1, <2>3, <2>4
<1>6. \A r \in 0 .. size - 1 : \E i \in picked : rank(i) = r
  <2> DEFINE f == [i \in picked |-> rank(i)]
             T == 0 .. size - 1
  <2> HIDE DEF rank
  <2>1. f \in Injection(picked, T)
    BY <1>4, <1>5, Fun_IsInj
  <2>2. IsFiniteSet(T) /\ Cardinality(T) = size
    <3> HIDE DEF size
    <3>1. size - 1 \in Int /\ (0 > size - 1 => size = 0) /\ size - 1 - 0 + 1 = size
      BY <1>2
    <3> QED
      BY <3>1, FS_Interval
  <2>3. f \in Surjection(picked, T)
    <3> HIDE DEF f, T
    <3> QED
      BY <2>1, <2>2, FS_Injection
  <2>4. \A r \in T : \E i \in picked : f[i] = r
    <3> HIDE DEF f, T
    <3> QED
      BY <2>3, Fun_SurjectionProperties
  <2> QED
    BY <2>4
<1> QED
  BY <1>2, <1>3, <1>4, <1>5, <1>6

\* What is sorted is the points at the picked places, each place once, in an
\* order in which each precedes the next.
LEMMA SortedPlaces ==
  ASSUME NEW points \in Seq(Point), NEW picked \in SUBSET (DOMAIN points)
  PROVE  \E place \in [1 .. Cardinality(picked) -> picked] :
           /\ SortByTimestamp(points, picked) = [n \in 1 .. Cardinality(picked) |-> points[place[n]]]
           /\ \A i \in picked : \E n \in 1 .. Cardinality(picked) : place[n] = i
           /\ \A m, n \in 1 .. Cardinality(picked) : m < n => Precedes(points, place[m], place[n])
<1> DEFINE rank(j) == Rank(points, picked, j)
           size == Cardinality(picked)
           place == [n \in 1 .. size |-> CHOOSE i \in picked : rank(i) = n - 1]
<1>1. /\ IsFiniteSet(picked) /\ size \in Nat
      /\ \A i \in picked : i \in Nat /\ points[i].timestamp \in Nat
      /\ \A i \in picked : rank(i) \in 0 .. size - 1
      /\ \A i, j \in picked : rank(i) = rank(j) => i = j
      /\ \A r \in 0 .. size - 1 : \E i \in picked : rank(i) = r
  BY RanksAreAllTaken
<1>2. SortByTimestamp(points, picked) = [n \in 1 .. size |-> points[place[n]]]
  BY DEF SortByTimestamp, Rank, Before
<1> HIDE DEF rank
<1>3. ASSUME NEW n \in 1 .. size PROVE place[n] \in picked /\ rank(place[n]) = n - 1
  <2>1. n - 1 \in 0 .. size - 1
    BY <1>1
  <2>2. \E i \in picked : rank(i) = n - 1
    BY <1>1, <2>1
  <2> QED
    BY <2>2
<1>4. ASSUME NEW i \in picked PROVE \E n \in 1 .. size : place[n] = i
  <2> DEFINE n == rank(i) + 1
  <2>1. n \in 1 .. size /\ n - 1 = rank(i)
    BY <1>1
  <2> HIDE DEF n, place
  <2>2. rank(place[n]) = rank(i) /\ place[n] \in picked
    BY <1>3, <2>1
  <2>3. place[n] = i
    BY <1>1, <2>2
  <2> QED
    BY <2>1, <2>3
<1>5. ASSUME NEW m \in 1 .. size, NEW n \in 1 .. size, m < n
      PROVE  Precedes(points, place[m], place[n])
  <2>1. /\ place[m] \in picked /\ place[n] \in picked
        /\ rank(place[m]) = m - 1 /\ rank(place[n]) = n - 1 /\ m - 1 < n - 1
    BY <1>1, <1>3, <1>5
  <2> DEFINE i == place[m]
             j == place[n]
  <2> HIDE DEF place
  <2>2. i \in picked /\ j \in picked /\ rank(i) \in Int /\ rank(j) \in Int /\ rank(i) < rank(j)
    BY <1>1, <2>1
  <2> HIDE DEF i, j
  <2>3. ~Precedes(points, j, i)
    <3> SUFFICES ASSUME Precedes(points, j, i) PROVE FALSE
      OBVIOUS
    <3>1. rank(j) < rank(i)
      BY <1>1, <2>2, RanksDiffer DEF rank, Rank
    <3> QED
      BY <2>2, <3>1
  <2>4. i # j
    BY <2>2
  <2>5. Precedes(points, i, j)
    BY <1>1, <2>2, <2>3, <2>4 DEF Precedes
  <2> QED
    BY <2>5 DEF i, j
<1>6. place \in [1 .. size -> picked]
  BY <1>3
<1> HIDE DEF place
<1> QED
  BY <1>2, <1>4, <1>5, <1>6

\* Every picked point is among the sorted ones, and these are points.
LEMMA SortKeepsPicked ==
  ASSUME NEW points \in Seq(Point), NEW picked \in SUBSET (DOMAIN points)
  PROVE  /\ SortByTimestamp(points, picked) \in Seq(Point)
         /\ \A i \in picked : points[i] \in Range(SortByTimestamp(points, picked))
<1> DEFINE size == Cardinality(picked)
           sorted == SortByTimestamp(points, picked)
<1>1. PICK place \in [1 .. size -> picked] :
        /\ sorted = [n \in 1 .. size |-> points[place[n]]]
        /\ \A i \in picked : \E n \in 1 .. size : place[n] = i
  BY SortedPlaces
<1>2. size \in Nat /\ \A i \in picked : points[i] \in Point
  BY RanksAreAllTaken
<1>3. sorted \in [1 .. size -> Point]
  BY <1>1, <1>2
<1>4. sorted \in Seq(Point)
  <2> HIDE DEF sorted
  <2> QED
    BY <1>2, <1>3, SeqDef
<1>5. ASSUME NEW i \in picked PROVE points[i] \in Range(sorted)
  <2>1. PICK n \in 1 .. size : place[n] = i
    BY <1>1
  <2>2. n \in DOMAIN sorted /\ sorted[n] = points[i]
    BY <1>1, <2>1
  <2> QED
    BY <2>2 DEF Range
<1> QED
  BY <1>4, <1>5

-----------------------------------------------------------------------------
(* What is stored only grows *)

\* No step takes a key from the map or a stored point from its place, and
\* what is sealed stays sealed.
Grows ==
  /\ known \subseteq known'
  /\ \A k \in Keys :
       /\ Len(accepted[k]) <= Len(accepted'[k])
       /\ \A i \in 1 .. Len(accepted[k]) : accepted'[k][i] = accepted[k][i]
       /\ LastCut(k) <= LastCut(k)' /\ LastCut(k)' \in Nat

LEMMA SeriesStepGrows ==
  ASSUME Inv, NEW t \in Threads, SeriesStep(t)
  PROVE  Grows
<1> DEFINE key == call[t].key
<1>1. /\ key \in Keys /\ known' = known
      /\ \A k \in Keys \ {key} : accepted'[k] = accepted[k] /\ cuts'[k] = cuts[k]
  BY SeriesStepWrites DEF Inv
<1>2. /\ accepted[key] \in Seq(Point) /\ Len(accepted[key]) \in Nat /\ cuts[key] \in Seq(Nat)
      /\ LastCut(key) \in 0 .. Len(accepted[key])
  BY <1>1, CutsInRange, PartitionByKey, LenProperties DEF Inv
<1>3. \A k \in Keys : Len(accepted[k]) \in Nat /\ LastCut(k) \in Nat
  BY CutsInRange, PartitionByKey, LenProperties DEF Inv
<1>4. /\ accepted \in [Keys -> Seq(Point)] /\ cuts \in [Keys -> Seq(Nat)]
      /\ pc \in [Threads -> PCs]
  BY DEF Inv, TypeInv, StoreTypeOK
<1>5. \/ accepted' = accepted
      \/ /\ call[t].point \in Point
         /\ accepted'[key] = Append(accepted[key], call[t].point)
  <2>1. pc[t] \in InsertPCs => call[t].point \in Point
    BY DEF Inv, TypeInv, Control
  <2>2. CASE AppendCurrent(t)
    BY <1>1, <1>4, <2>1, <2>2 DEF AppendCurrent, Goto, InsertPCs
  <2>3. CASE OpenBlock(t)
    BY <1>1, <1>4, <2>1, <2>3 DEF OpenBlock, Goto, InsertPCs
  <2>4. CASE TakeRejecting(t) \/ SealIfExpired(t) \/ PushSealed(t)
    BY <2>4 DEF TakeRejecting, SealIfExpired, PushSealed, history
  <2> QED
    BY <2>2, <2>3, <2>4 DEF SeriesStep
<1>6. \/ cuts' = cuts
      \/ cuts'[key] = Append(cuts[key], Len(accepted[key]))
  BY <1>1, <1>4 DEF SeriesStep, AppendCurrent, TakeRejecting, SealIfExpired, PushSealed,
     OpenBlock, history
<1>7. /\ Len(accepted[key]) <= Len(accepted'[key])
      /\ \A i \in 1 .. Len(accepted[key]) : accepted'[key][i] = accepted[key][i]
  <2>1. CASE accepted' = accepted
    BY <1>2, <2>1
  <2>2. CASE /\ call[t].point \in Point
             /\ accepted'[key] = Append(accepted[key], call[t].point)
    <3> HIDE DEF key
    <3> QED
      BY <1>2, <2>2, AppendProperties
  <2> QED
    BY <1>5, <2>1, <2>2
<1>8. LastCut(key) <= LastCut(key)' /\ LastCut(key)' \in Nat
  <2>1. CASE cuts' = cuts
    <3>1. LastCut(key)' = LastCut(key)
      BY <2>1, SeriesStepWrites DEF Inv, LastCut
    <3> QED
      BY <1>2, <3>1
  <2>2. CASE cuts'[key] = Append(cuts[key], Len(accepted[key]))
    <3> DEFINE longer == Append(cuts[key], Len(accepted[key]))
    <3>1. longer # <<>> /\ longer[Len(longer)] = Len(accepted[key])
      <4> HIDE DEF key
      <4> QED
        BY <1>2, AppendProperties
    <3>2. LastCut(key)' = Len(accepted[key])
      <4> HIDE DEF longer
      <4>1. cuts'[key] = longer
        BY <2>2 DEF longer
      <4>2. key' = key
        BY SeriesStepWrites DEF Inv
      <4> QED
        BY <3>1, <4>1, <4>2 DEF LastCut
    <3> QED
      BY <1>2, <3>2
  <2> QED
    BY <1>6, <2>1, <2>2
<1>9. ASSUME NEW k \in Keys
      PROVE  /\ Len(accepted[k]) <= Len(accepted'[k])
             /\ \A i \in 1 .. Len(accepted[k]) : accepted'[k][i] = accepted[k][i]
             /\ LastCut(k) <= LastCut(k)' /\ LastCut(k)' \in Nat
  <2>1. CASE k # key
    BY <1>1, <1>3, <2>1 DEF LastCut
  <2>2. CASE k = key
    <3>1. LastCut(k)' = LastCut(key)'
      BY <2>2, SeriesStepWrites DEF Inv, LastCut
    <3> QED
      BY <1>7, <1>8, <2>2, <3>1
  <2> QED
    BY <2>1, <2>2
<1> QED
  BY <1>1, <1>9 DEF Grows

LEMMA StepGrows ==
  ASSUME Inv, NEW t \in Threads, ThreadStep(t)
  PROVE  Grows
<1>1. \A k \in Keys : Len(accepted[k]) \in Nat /\ LastCut(k) \in Nat
  BY CutsInRange, PartitionByKey, LenProperties DEF Inv
<1>2. CASE SeriesStep(t)
  BY <1>2, SeriesStepGrows
<1>3. CASE ~SeriesStep(t)
  <2>1. UNCHANGED <<accepted, cuts>> /\ (known' = known \/ LockEntry(t))
    BY <1>3, ThreadStepCases, QuietStepStore DEF Inv
  <2>2. known \subseteq known'
    BY <2>1 DEF LockEntry
  <2> QED
    BY <1>1, <2>1, <2>2 DEF Grows, LastCut
<1> QED
  BY <1>2, <1>3

-----------------------------------------------------------------------------
(* A scan in progress *)

ScanPCs == {"read_shard", "read_storage", "read_body", "read_unlock", "done"}

\* A scan's answer has what it should: see ScanSeesUnsealed.
Found(t) ==
  LET k == call[t].key
  IN  \A i \in LastCut(k) + 1 .. atCall[t].count :
        /\ call[t].start <= accepted[k][i].timestamp
        /\ accepted[k][i].timestamp <= call[t].end
        => accepted[k][i] \in Range(answer[t].points)

ScanOK(t) ==
  /\ pc[t] \in ScanPCs
  /\ call[t].key \in Keys
  /\ atCall[t].known \subseteq known
  /\ atCall[t].count \in 0 .. Len(accepted[call[t].key])
  /\ pc[t] \in {"read_shard", "read_storage", "read_body"} => answer[t].status = "none"
  /\ answer[t].status = "KeyNotFound" => call[t].key \notin atCall[t].known
  /\ answer[t].status = "Ok" => Found(t)

ScanInv ==
  /\ DOMAIN answer = Threads /\ DOMAIN atCall = Threads
  /\ \A t \in Threads :
       /\ {"status", "points"} \subseteq DOMAIN answer[t]
       /\ pc[t] = "idle" => call[t].op = "none" /\ answer[t].status = "none"
       /\ call[t].op = "scan_range" => ScanOK(t)

LEMMA InitScan == Init => ScanInv
BY DEF Init, ScanInv, NoCall, NoAnswer

\* A scan is not disturbed by what others do.
LEMMA ScanUndisturbed ==
  ASSUME Inv, TypeInv', Grows, NEW t \in Threads, ScanOK(t),
         pc'[t] \in ScanPCs,
         pc'[t] \in {"read_shard", "read_storage", "read_body"} =>
           pc[t] \in {"read_shard", "read_storage", "read_body"},
         call'[t] = call[t], atCall'[t] = atCall[t], answer'[t] = answer[t]
  PROVE  ScanOK(t)'
<1> DEFINE k == call[t].key
<1>1. /\ k \in Keys
      /\ atCall[t].count \in Nat /\ atCall[t].count <= Len(accepted[k])
      /\ Len(accepted[k]) \in Nat /\ LastCut(k) \in Nat
  BY CutsInRange, PartitionByKey, LenProperties DEF Inv, ScanOK
<1>2. /\ Len(accepted[k]) <= Len(accepted'[k])
      /\ LastCut(k) <= LastCut(k)' /\ LastCut(k)' \in Nat
      /\ \A i \in 1 .. Len(accepted[k]) : accepted'[k][i] = accepted[k][i]
  <2>1. \A j \in Keys : LastCut(j) <= LastCut(j)' /\ LastCut(j)' \in Nat
    BY DEF Grows
  <2> QED
    BY <1>1, <2>1 DEF Grows, LastCut
<1>3. Len(accepted'[k]) \in Int /\ atCall[t].count \in 0 .. Len(accepted'[k])
  <2>1. accepted'[k] \in Seq(Point)
    BY <1>1 DEF TypeInv, StoreTypeOK
  <2> QED
    BY <1>1, <1>2, <2>1, LenProperties
<1>4. Found(t) => Found(t)'
  <2> SUFFICES ASSUME Found(t), NEW i \in LastCut(k)' + 1 .. atCall[t].count,
                      call[t].start <= accepted'[k][i].timestamp,
                      accepted'[k][i].timestamp <= call[t].end
               PROVE  accepted'[k][i] \in Range(answer[t].points)
    BY DEF Found
  <2>1. i \in LastCut(k) + 1 .. atCall[t].count /\ i \in 1 .. Len(accepted[k])
    BY <1>1, <1>2
  <2> QED
    BY <1>2, <2>1 DEF Found
<1> QED
  BY <1>1, <1>3, <1>4 DEF ScanOK, Grows

\* A step of t changes the call and the answer of t only.
LEMMA OthersReports ==
  ASSUME ScanInv, NEW t \in Threads, ThreadStep(t)
  PROVE  /\ DOMAIN answer' = Threads /\ DOMAIN atCall' = Threads
         /\ \A u \in Threads \ {t} : answer'[u] = answer[u] /\ atCall'[u] = atCall[u]
         /\ {"status", "points"} \subseteq DOMAIN answer'[t]
<1> USE DEF ScanInv, Goto
<1>1. CASE CallInsert(t) \/ CallScan(t) \/ CallGetSeries(t) \/ CallWalk(t) \/ CallLen(t)
  BY <1>1, ZenonT(60) DEF CallInsert, CallScan, CallGetSeries, CallWalk, CallLen, Begin
<1>2. CASE LockEntry(t) \/ LockEntrySeries(t) \/ UnlockInsert(t) \/ LockShardToRead(t)
           \/ LockSeriesToRead(t) \/ ReadSeriesData(t) \/ UnlockRead(t)
  BY <1>2 DEF LockEntry, LockEntrySeries, UnlockInsert, LockShardToRead, LockSeriesToRead,
              ReadSeriesData, UnlockRead
<1>3. CASE NextShard(t) \/ VisitKey(t) \/ VisitSeries(t) \/ LockVisited(t) \/ AddStats(t)
           \/ UnlockVisited(t) \/ EndWalk(t) \/ LenShard(t) \/ EndLen(t)
  BY <1>3 DEF NextShard, VisitKey, VisitSeries, LockVisited, AddStats, UnlockVisited, EndWalk,
              LenShard, EndLen
<1>4. CASE Return(t)
  BY <1>4 DEF Return, NoAnswer
<1>5. CASE SeriesStep(t)
  BY <1>5 DEF SeriesStep, AppendCurrent, TakeRejecting, SealIfExpired, PushSealed, OpenBlock
<1> QED
  BY <1>1, <1>2, <1>3, <1>4, <1>5, ThreadStepCases DEF MoveStep

\* What follows the first points of a sequence.
LEMMA SliceAfter ==
  ASSUME NEW a \in Seq(Point), NEW cut \in Nat, cut + 1 \in 1 .. Len(a)
  PROVE  LET rest == SubSeq(a, cut + 1, Len(a))
         IN  /\ rest \in Seq(Point) /\ Len(rest) = Len(a) - cut
             /\ \A n \in 1 .. Len(a) - cut : rest[n] = a[cut + n]
<1> DEFINE m == cut + 1
           rest == SubSeq(a, m, Len(a))
<1>1. Len(a) \in Nat /\ m \in 1 .. Len(a) /\ Len(a) \in m .. Len(a)
  BY LenProperties
<1>2. /\ rest \in Seq(Point) /\ Len(rest) = Len(a) - m + 1
      /\ \A n \in 1 .. Len(a) - m + 1 : rest[n] = a[m + n - 1]
  <2> HIDE DEF m
  <2> QED
    BY <1>1, SliceFacts
<1>3. Len(a) - m + 1 = Len(a) - cut /\ \A n \in Nat : m + n - 1 = cut + n
  BY <1>1
<1>4. \A n \in 1 .. Len(a) - cut : rest[n] = a[cut + n]
  <2> HIDE DEF m, rest
  <2> QED
    BY <1>1, <1>2, <1>3
<1> QED
  BY <1>2, <1>3, <1>4

\* While a thread reads a series, no thread has the open block in hand.
LEMMA ReadAlone ==
  ASSUME Inv, NEW t \in Threads, NEW k \in ReadSeries(t)
  PROVE  \A u \in Threads : ~(pc[u] \in HandlingPCs /\ call[u].key = k)
<1> SUFFICES ASSUME NEW u \in Threads, pc[u] \in HandlingPCs, call[u].key = k
             PROVE  FALSE
  OBVIOUS
<1>1. k \in WriteSeries(u)
  <2>1. pc[u] = "iter_push" => call[u].op = "seal_expired_blocks"
    BY DEF Inv, TypeInv, Control
  <2> QED
    BY <2>1 DEF WriteSeries, HandlingPCs
<1>2. u # t
  BY DEF ReadSeries, HandlingPCs
<1> QED
  BY <1>1, <1>2 DEF Inv, Exclusive

\* The step that reads the series finds what is stored and not sealed.
LEMMA ReadFinds ==
  ASSUME Inv, ScanInv, NEW t \in Threads, ReadSeriesData(t), call[t].op = "scan_range"
  PROVE  /\ answer'[t].status = "Ok"
         /\ \A i \in LastCut(call[t].key) + 1 .. atCall[t].count :
              LET p == accepted[call[t].key][i]
              IN  call[t].start <= p.timestamp /\ p.timestamp <= call[t].end
                    => p \in Range(answer'[t].points)
<1> DEFINE k == call[t].key
           open == CurrentPoints(series[k])
<1>1. /\ k \in Keys /\ pc[t] = "read_body"
      /\ atCall[t].count \in 0 .. Len(accepted[k])
  BY DEF ScanInv, ScanOK, ReadSeriesData, Goto
<1>2. \A u \in Threads : ~Unpushed(u, k)
  <2>1. k \in ReadSeries(t)
    BY <1>1 DEF ReadSeries
  <2> QED
    BY <2>1, ReadAlone DEF Unpushed, HandlingPCs
<1>3. open = SubSeq(accepted[k], LastCut(k) + 1, Len(accepted[k]))
  BY <1>1, <1>2 DEF Inv, ArrivalPartition, OpenHoldsRest
<1>4. /\ accepted[k] \in Seq(Point) /\ Len(accepted[k]) \in Nat
      /\ LastCut(k) \in 0 .. Len(accepted[k])
  BY <1>1, CutsInRange, PartitionByKey, LenProperties DEF Inv
<1>5. /\ answer'[t].status = "Ok"
      /\ answer'[t].points = SortByTimestamp(open, Picked(open, call[t].start, call[t].end))
  BY DEF ReadSeriesData, InRange, ScanInv
<1>6. ASSUME NEW i \in LastCut(k) + 1 .. atCall[t].count,
             call[t].start <= accepted[k][i].timestamp,
             accepted[k][i].timestamp <= call[t].end
      PROVE  accepted[k][i] \in Range(answer'[t].points)
  <2> DEFINE cut == LastCut(k)
             a == accepted[k]
             j == i - cut
  <2>1. /\ cut \in Nat /\ Len(a) \in Nat /\ cut + 1 \in 1 .. Len(a)
        /\ i \in cut + 1 .. Len(a) /\ j \in 1 .. Len(a) - cut
    BY <1>1, <1>4
  <2>2. /\ open \in Seq(Point) /\ Len(open) = Len(a) - cut
        /\ \A n \in 1 .. Len(a) - cut : open[n] = a[cut + n]
    <3>1. a \in Seq(Point) /\ open = SubSeq(a, cut + 1, Len(a))
      BY <1>3, <1>4
    <3> HIDE DEF open, a, cut
    <3> QED
      BY <2>1, <3>1, SliceAfter
  <2>3. j \in DOMAIN open /\ open[j] = a[i]
    <3>1. cut + j = i
      BY <2>1
    <3> HIDE DEF open, a, j
    <3> QED
      BY <2>1, <2>2, <3>1, LenProperties
  <2>4. j \in Picked(open, call[t].start, call[t].end)
    BY <1>6, <2>3 DEF Picked
  <2>5. Picked(open, call[t].start, call[t].end) \in SUBSET (DOMAIN open)
    BY DEF Picked
  <2>6. open[j] \in Range(SortByTimestamp(open, Picked(open, call[t].start, call[t].end)))
    <3> HIDE DEF open, j
    <3> QED
      BY <2>2, <2>4, <2>5, SortKeepsPicked
  <2> QED
    BY <1>5, <2>3, <2>6
<1> QED
  BY <1>5, <1>6

\* A step of the thread itself.
LEMMA OwnScan ==
  ASSUME Inv, TypeInv', ScanInv, Grows, NEW t \in Threads, ThreadStep(t)
  PROVE  /\ pc'[t] = "idle" => call'[t].op = "none" /\ answer'[t].status = "none"
         /\ call'[t].op = "scan_range" => ScanOK(t)'
<1> DEFINE k == call[t].key
<1>1. /\ pc \in [Threads -> PCs] /\ call \in [Threads -> Call]
      /\ DOMAIN answer = Threads /\ DOMAIN atCall = Threads
      /\ {"status", "points"} \subseteq DOMAIN answer[t]
      /\ pc[t] = "idle" => call[t].op = "none" /\ answer[t].status = "none"
      /\ call[t].op = "scan_range" => ScanOK(t)
  BY DEF Inv, TypeInv, StoreTypeOK, ScanInv
<1>2. CASE CallInsert(t) \/ CallGetSeries(t) \/ CallWalk(t) \/ CallLen(t)
  <2>1. pc'[t] # "idle"
    BY <1>1, <1>2 DEF CallInsert, CallGetSeries, CallWalk, CallLen, Begin, Goto
  <2>2. CASE CallInsert(t)
    <3>1. PICK key \in Keys, p \in Point :
            call'[t] = [NoCall EXCEPT !.op = "insert", !.key = key, !.point = p]
      BY <1>1, <2>2 DEF CallInsert, Begin
    <3> QED
      BY <2>1, <3>1 DEF NoCall
  <2>3. CASE CallGetSeries(t)
    <3>1. PICK key \in Keys : call'[t] = [NoCall EXCEPT !.op = "get_series", !.key = key]
      BY <1>1, <2>3 DEF CallGetSeries, Begin
    <3> QED
      BY <2>1, <3>1 DEF NoCall
  <2>4. CASE CallWalk(t)
    <3>1. PICK op \in {"keys", "get_stats", "seal_expired_blocks"} :
            call'[t] = [NoCall EXCEPT !.op = op]
      BY <1>1, <2>4 DEF CallWalk, Begin
    <3> QED
      BY <2>1, <3>1 DEF NoCall
  <2>5. CASE CallLen(t)
    BY <1>1, <2>1, <2>5 DEF CallLen, Begin, NoCall
  <2> QED
    BY <1>2, <2>2, <2>3, <2>4, <2>5
<1>3. CASE CallScan(t)
  <2> DEFINE C(key, start, end) ==
        [NoCall EXCEPT !.op = "scan_range", !.key = key, !.start = start, !.end = end]
  <2>a. PICK key \in Keys, start, end \in Timestamps :
          \/ Begin(t, C(key, start, end), "read_shard") /\ answer' = answer
          \/ /\ Begin(t, C(key, start, end), "done")
             /\ answer' = [answer EXCEPT ![t].status = "InvalidTimeRange"]
    BY <1>3 DEF CallScan
  <2>b. C(key, start, end).op = "scan_range" /\ C(key, start, end).key = key
    BY DEF NoCall
  <2>c. \A to : Begin(t, C(key, start, end), to) =>
          /\ pc[t] = "idle" /\ pc'[t] = to
          /\ call'[t] = C(key, start, end)
          /\ atCall'[t] = StoredAt(C(key, start, end))
          /\ known' = known /\ accepted' = accepted
    <3> HIDE DEF C
    <3> QED
      BY <1>1 DEF Begin, Goto, store, history
  <2>d. StoredAt(C(key, start, end)) = [known |-> known, count |-> Len(accepted[key])]
    <3> HIDE DEF C
    <3> QED
      BY <2>b DEF StoredAt
  <2>1. /\ call'[t] = C(key, start, end)
        /\ atCall'[t] = [known |-> known, count |-> Len(accepted[key])]
        /\ \/ pc'[t] = "read_shard" /\ answer' = answer
           \/ pc'[t] = "done" /\ answer'[t].status = "InvalidTimeRange"
        /\ pc[t] = "idle"
        /\ known' = known /\ accepted' = accepted
    <3> HIDE DEF C
    <3> QED
      BY <1>1, <2>a, <2>c, <2>d
  <2>2. call'[t].op = "scan_range" /\ call'[t].key = key
    BY <2>1 DEF NoCall
  <2>3. Len(accepted[key]) \in Nat
    BY LenProperties DEF Inv, TypeInv, StoreTypeOK
  <2> QED
    BY <1>1, <2>1, <2>2, <2>3 DEF ScanOK, ScanPCs
<1>4. CASE LockShardToRead(t)
  <2>1. /\ pc[t] = "read_shard" /\ call' = call /\ atCall' = atCall
        /\ \/ pc'[t] = "read_storage" /\ answer' = answer
           \/ pc'[t] = "done" /\ k \notin known /\ answer'[t].status = "KeyNotFound"
    BY <1>1, <1>4 DEF LockShardToRead, Goto
  <2>2. CASE pc'[t] = "read_storage" /\ answer' = answer
    BY <1>1, <2>1, <2>2, ScanUndisturbed DEF ScanPCs
  <2>3. CASE pc'[t] = "done" /\ k \notin known /\ answer'[t].status = "KeyNotFound"
    <3>1. known' = known /\ accepted' = accepted
      BY <1>4 DEF LockShardToRead, store, history
    <3> QED
      BY <1>1, <2>1, <2>3, <3>1 DEF ScanOK, ScanPCs
  <2> QED
    BY <2>1, <2>2, <2>3
<1>5. CASE LockSeriesToRead(t) \/ UnlockRead(t)
  <2>1. /\ call' = call /\ atCall' = atCall /\ answer' = answer
        /\ \/ pc[t] = "read_storage" /\ pc'[t] = "read_body"
           \/ pc[t] = "read_unlock" /\ pc'[t] = "done"
    BY <1>1, <1>5 DEF LockSeriesToRead, UnlockRead, Goto
  <2> QED
    BY <1>1, <2>1, ScanUndisturbed DEF ScanPCs
<1>6. CASE ReadSeriesData(t)
  <2>1. /\ pc'[t] = "read_unlock" /\ UNCHANGED <<call, atCall, known, accepted, cuts>>
    BY <1>1, <1>6 DEF ReadSeriesData, Goto, store, history
  <2>2. ASSUME call[t].op = "scan_range" PROVE ScanOK(t)'
    <3>1. /\ answer'[t].status = "Ok"
          /\ \A i \in LastCut(k) + 1 .. atCall[t].count :
               accepted[k][i].timestamp >= call[t].start /\ accepted[k][i].timestamp <= call[t].end
                 => accepted[k][i] \in Range(answer'[t].points)
      BY <1>6, <2>2, ReadFinds
    <3>2. Found(t)'
      BY <2>1, <1>6, <2>2, ReadFinds DEF Found, LastCut
    <3> QED
      BY <1>1, <2>1, <2>2, <3>1, <3>2 DEF ScanOK, ScanPCs
  <2> QED
    BY <2>1, <2>2
<1>7. CASE Return(t)
  BY <1>1, <1>7 DEF Return, Goto, NoCall, NoAnswer
<1>8. CASE \/ LockEntry(t) \/ LockEntrySeries(t) \/ UnlockInsert(t) \/ SeriesStep(t)
           \/ NextShard(t) \/ VisitKey(t) \/ VisitSeries(t) \/ LockVisited(t) \/ AddStats(t)
           \/ UnlockVisited(t) \/ EndWalk(t) \/ LenShard(t) \/ EndLen(t)
  <2>1. CASE LockEntry(t) \/ LockEntrySeries(t) \/ SeriesStep(t)
    BY <1>1, <2>1 DEF LockEntry, LockEntrySeries, SeriesStep, AppendCurrent, TakeRejecting,
       SealIfExpired, PushSealed, OpenBlock, Goto, ScanOK, ScanPCs
  <2>2. CASE UnlockInsert(t)
    BY <1>1, <2>2 DEF UnlockInsert, Goto, ScanOK, ScanPCs
  <2>3. CASE NextShard(t) \/ VisitKey(t) \/ LockVisited(t) \/ AddStats(t) \/ LenShard(t)
    BY <1>1, <2>3 DEF NextShard, VisitKey, LockVisited, AddStats, LenShard, Goto, ScanOK, ScanPCs
  <2>4. CASE VisitSeries(t) \/ UnlockVisited(t)
    BY <1>1, <2>4 DEF VisitSeries, UnlockVisited, Goto, ScanOK, ScanPCs, Call
  <2>5. CASE EndWalk(t) \/ EndLen(t)
    BY <1>1, <2>5 DEF EndWalk, EndLen, Goto, ScanOK, ScanPCs
  <2> QED
    BY <1>8, <2>1, <2>2, <2>3, <2>4, <2>5
<1> QED
  BY <1>2, <1>3, <1>4, <1>5, <1>6, <1>7, <1>8, ThreadStepCases DEF MoveStep

LEMMA NextScan == Inv /\ ScanInv /\ [Next]_vars => ScanInv'
<1> SUFFICES ASSUME Inv, ScanInv, [Next]_vars PROVE ScanInv'
  OBVIOUS
<1>1. TypeInv'
  BY NextInv DEF Inv
<1>2. ASSUME NEW t \in Threads, ThreadStep(t) PROVE ScanInv'
  <2>1. Grows
    BY <1>2, StepGrows
  <2>2. ASSUME NEW u \in Threads \ {t}
        PROVE  /\ {"status", "points"} \subseteq DOMAIN answer'[u]
               /\ pc'[u] = "idle" => call'[u].op = "none" /\ answer'[u].status = "none"
               /\ call'[u].op = "scan_range" => ScanOK(u)'
    <3>1. /\ pc'[u] = pc[u] /\ call'[u] = call[u]
          /\ answer'[u] = answer[u] /\ atCall'[u] = atCall[u]
      BY <1>2, StepLocks, OthersReports DEF Inv
    <3>2. ASSUME ScanOK(u) PROVE ScanOK(u)'
      BY <1>1, <2>1, <3>1, <3>2, ScanUndisturbed DEF ScanOK
    <3> QED
      BY <3>1, <3>2 DEF ScanInv
  <2>3. /\ pc'[t] = "idle" => call'[t].op = "none" /\ answer'[t].status = "none"
        /\ call'[t].op = "scan_range" => ScanOK(t)'
    BY <1>1, <1>2, <2>1, OwnScan
  <2>4. /\ DOMAIN answer' = Threads /\ DOMAIN atCall' = Threads
        /\ {"status", "points"} \subseteq DOMAIN answer'[t]
    BY <1>2, OthersReports
  <2> QED
    BY <2>2, <2>3, <2>4 DEF ScanInv
<1>3. CASE UNCHANGED vars
  BY <1>3 DEF ScanInv, ScanOK, Found, LastCut, vars, store, history
<1> QED
  BY <1>2, <1>3 DEF Next

\* A scan finds every point in its range that was stored before the call and
\* has not been sealed since, and a key that was in the map when the call
\* began is found, whatever inserts and sealing walks run meanwhile
\* (memory.rs scan_range).
THEOREM ScansFindUnsealed == Spec => []ScanSeesUnsealed
<1>1. Spec => [](Inv /\ ScanInv)
  BY InitInv, NextInv, InitScan, NextScan, PTL DEF Spec
<1>2. ScanInv => ScanSeesUnsealed
  BY DEF ScanInv, ScanOK, Found, ScanSeesUnsealed
<1> QED
  BY <1>1, <1>2, PTL

-----------------------------------------------------------------------------
(* A walk in progress *)

Collecting == {"keys", "get_stats"}

IterPCs == {"iter_next", "iter_storage", "iter_body", "iter_unlock"}

\* The key a walk has taken from its shard and not yet added.
InHand(t) == IF pc[t] \in {"iter_storage", "iter_body"} THEN {call[t].key} ELSE {}

\* The keys a walk has gathered from the shards len has counted.
Counted(t, s) == {k \in answer[t].keys : ShardOf[k] <= s}

WalkOK(t) ==
  /\ pc[t] \in IterPCs \cup {"len_next", "done"}
  /\ atCall[t].known \subseteq known
  /\ todo[t] \cup InHand(t) \cup answer[t].keys \subseteq known
  /\ answer[t].len \in Nat
  /\ pc[t] \in IterPCs => \A k \in atCall[t].known : ShardOf[k] <= shard[t] =>
       k \in todo[t] \cup InHand(t) \cup answer[t].keys
  /\ pc[t] \in {"len_next", "done"} => atCall[t].known \subseteq answer[t].keys
  /\ pc[t] = "len_next" => Cardinality(Counted(t, shard[t])) <= answer[t].len
  /\ pc[t] = "done" /\ call[t].op = "get_stats" =>
       Cardinality(answer[t].keys) <= answer[t].len

\* Where no walk is in progress, none is left over.
PlaceOK(t) ==
  /\ pc[t] \notin IterPCs \cup {"iter_push", "len_next"} => shard[t] = 0
  /\ pc[t] \notin IterPCs \cup {"iter_push"} => todo[t] = {}
  /\ pc[t] = "idle" => call[t].op = "none" /\ answer[t] = NoAnswer
  /\ {"keys", "len"} \subseteq DOMAIN answer[t]

WalkInv ==
  /\ DOMAIN answer = Threads /\ DOMAIN atCall = Threads
  /\ IsFiniteSet(known)
  /\ \A t \in Threads : PlaceOK(t) /\ (call[t].op \in Collecting => WalkOK(t))

LEMMA InitWalk == Init => WalkInv
BY FS_EmptySet DEF Init, WalkInv, PlaceOK, Collecting, IterPCs, NoCall, NoAnswer

-----------------------------------------------------------------------------
(* What a step leaves alone *)

\* A step enters at most one key, and takes none away.
LEMMA KnownGrows ==
  ASSUME TypeInv, WalkInv, NEW t \in Threads, ThreadStep(t)
  PROVE  known \subseteq known' /\ IsFiniteSet(known')
<1>1. known' = known \/ known' = known \cup {call[t].key}
  <2>1. CASE SeriesStep(t)
    BY <2>1, SeriesStepWrites
  <2>2. CASE ~SeriesStep(t)
    BY <2>2, ThreadStepCases, QuietStepStore DEF LockEntry
  <2> QED
    BY <2>1, <2>2
<1>2. IsFiniteSet(known) /\ IsFiniteSet(known \cup {call[t].key})
  BY FS_AddElement DEF WalkInv
<1> QED
  BY <1>1, <1>2

\* A step of t changes the walk and the answer of t only.
LEMMA OthersWalk ==
  ASSUME TypeInv, WalkInv, NEW t \in Threads, ThreadStep(t)
  PROVE  /\ DOMAIN answer' = Threads /\ DOMAIN atCall' = Threads
         /\ \A u \in Threads \ {t} :
              /\ answer'[u] = answer[u] /\ atCall'[u] = atCall[u]
              /\ shard'[u] = shard[u] /\ todo'[u] = todo[u]
<1> USE DEF WalkInv, TypeInv, StoreTypeOK, Goto, walk, history
<1>1. CASE CallInsert(t) \/ CallScan(t) \/ CallGetSeries(t) \/ CallWalk(t) \/ CallLen(t)
  BY <1>1 DEF CallInsert, CallScan, CallGetSeries, CallWalk, CallLen, Begin
<1>2. CASE LockEntry(t) \/ LockEntrySeries(t) \/ UnlockInsert(t) \/ LockShardToRead(t)
           \/ LockSeriesToRead(t) \/ ReadSeriesData(t) \/ UnlockRead(t)
  BY <1>2 DEF LockEntry, LockEntrySeries, UnlockInsert, LockShardToRead, LockSeriesToRead,
              ReadSeriesData, UnlockRead
<1>3. CASE NextShard(t) \/ VisitKey(t) \/ VisitSeries(t) \/ LockVisited(t) \/ AddStats(t)
           \/ UnlockVisited(t) \/ EndWalk(t) \/ LenShard(t) \/ EndLen(t)
  BY <1>3 DEF NextShard, VisitKey, VisitSeries, LockVisited, AddStats, UnlockVisited, EndWalk,
              LenShard, EndLen
<1>4. CASE Return(t)
  BY <1>4 DEF Return
<1>5. CASE SeriesStep(t)
  BY <1>5 DEF SeriesStep, AppendCurrent, TakeRejecting, SealIfExpired, PushSealed, OpenBlock
<1> QED
  BY <1>1, <1>2, <1>3, <1>4, <1>5, ThreadStepCases DEF MoveStep

\* A walk is not disturbed by what others do.
LEMMA WalkUndisturbed ==
  ASSUME NEW t \in Threads, WalkOK(t), known \subseteq known',
         pc'[t] = pc[t], call'[t] = call[t], answer'[t] = answer[t], atCall'[t] = atCall[t],
         shard'[t] = shard[t], todo'[t] = todo[t]
  PROVE  WalkOK(t)'
BY DEF WalkOK, InHand, Counted

-----------------------------------------------------------------------------
(* The steps of a walk *)

\* A call that begins finds no walk left over.
LEMMA BeginWalks ==
  ASSUME TypeInv, WalkInv, NEW t \in Threads,
         CallInsert(t) \/ CallScan(t) \/ CallGetSeries(t) \/ CallWalk(t) \/ CallLen(t)
  PROVE  PlaceOK(t)' /\ (call'[t].op \in Collecting => WalkOK(t)')
<1> USE DEF TypeInv, StoreTypeOK, WalkInv
<1>1. ASSUME NEW c, NEW to \in {"insert_shard", "read_shard", "done"}, Begin(t, c, to),
             c.op \notin Collecting,
             \/ answer' = answer
             \/ answer' = [answer EXCEPT ![t].status = "InvalidTimeRange"]
      PROVE  PlaceOK(t)' /\ (call'[t].op \in Collecting => WalkOK(t)')
  <2>1. /\ pc[t] = "idle" /\ pc'[t] = to /\ call'[t].op \notin Collecting
        /\ UNCHANGED <<shard, todo>>
    BY <1>1 DEF Begin, Goto, walk
  <2>2. {"keys", "len"} \subseteq DOMAIN answer'[t]
    BY <1>1 DEF PlaceOK
  <2> QED
    BY <2>1, <2>2 DEF PlaceOK, IterPCs
<1>2. CASE CallInsert(t)
  BY <1>1, <1>2 DEF CallInsert, NoCall, Collecting
<1>3. CASE CallScan(t)
  BY <1>1, <1>3 DEF CallScan, NoCall, Collecting
<1>4. CASE CallGetSeries(t)
  BY <1>1, <1>4 DEF CallGetSeries, NoCall, Collecting
<1>5. CASE CallLen(t)
  BY <1>5 DEF CallLen, Begin, Goto, walk, NoCall, Collecting, PlaceOK, IterPCs
<1>6. CASE CallWalk(t)
  <2>1. PICK op \in {"keys", "get_stats", "seal_expired_blocks"} :
          Begin(t, [NoCall EXCEPT !.op = op], "iter_next") /\ answer' = answer
    BY <1>6 DEF CallWalk
  <2>2. [NoCall EXCEPT !.op = op].op = op
    BY DEF NoCall
  <2>3. /\ pc[t] = "idle" /\ pc'[t] = "iter_next" /\ call'[t].op = op
        /\ UNCHANGED <<shard, todo, known>>
        /\ atCall'[t] = StoredAt([NoCall EXCEPT !.op = op])
    BY <2>1, <2>2 DEF Begin, Goto, walk, store
  <2>4. answer'[t] = NoAnswer /\ shard'[t] = 0 /\ todo'[t] = {}
    BY <2>1, <2>3 DEF PlaceOK, IterPCs
  <2>5. op \in Collecting => atCall'[t].known = known
    BY <2>2, <2>3 DEF StoredAt, Collecting
  <2>6. \A k \in known : ~(ShardOf[k] <= 0)
    BY ShardsAssumption
  <2> QED
    <3>1. /\ answer'[t].keys = {} /\ answer'[t].len = 0
          /\ {"keys", "len"} \subseteq DOMAIN answer'[t]
      BY <2>4 DEF NoAnswer
    <3>2. PlaceOK(t)'
      BY <2>3, <3>1 DEF PlaceOK, IterPCs
    <3>3. op \in Collecting => WalkOK(t)'
      <4> SUFFICES ASSUME op \in Collecting PROVE WalkOK(t)'
        OBVIOUS
      <4>1. pc'[t] = "iter_next" /\ InHand(t)' = {} /\ known' = known
        BY <2>3 DEF InHand
      <4>2. atCall'[t].known = known /\ shard'[t] = 0 /\ todo'[t] = {}
        BY <2>4, <2>5
      <4>3. \A k \in atCall'[t].known : ~(ShardOf[k] <= shard'[t])
        BY <2>6, <4>2
      <4> QED
        BY <3>1, <4>1, <4>2, <4>3 DEF WalkOK, IterPCs
    <3> QED
      BY <2>3, <3>2, <3>3
<1> QED
  BY <1>2, <1>3, <1>4, <1>5, <1>6

\* len adds the next shard, of which the walk has gathered no more keys than
\* are there.
LEMMA LenCounts ==
  ASSUME TypeInv, WalkInv, NEW t \in Threads, WalkOK(t), LenShard(t)
  PROVE  Cardinality(Counted(t, shard[t] + 1)) <= answer[t].len + Cardinality(KeysIn(shard[t] + 1))
<1> DEFINE s == shard[t]
           here == {k \in answer[t].keys : ShardOf[k] = s + 1}
<1>1. /\ s \in Nat /\ pc[t] = "len_next" /\ answer[t].keys \subseteq known /\ known \subseteq Keys
      /\ answer[t].len \in Nat /\ IsFiniteSet(known)
      /\ Cardinality(Counted(t, s)) <= answer[t].len
  BY ShardsAssumption DEF TypeInv, StoreTypeOK, WalkInv, WalkOK, LenShard, Goto
<1>2. \A k \in known : ShardOf[k] \in Nat
  BY <1>1, ShardsAssumption
<1>3. Counted(t, s + 1) = Counted(t, s) \cup here /\ Counted(t, s) \cap here = {}
  <2> HIDE DEF s
  <2> QED
    BY <1>1, <1>2 DEF Counted
<1>4. /\ IsFiniteSet(Counted(t, s)) /\ IsFiniteSet(here) /\ IsFiniteSet(KeysIn(s + 1))
      /\ Cardinality(here) <= Cardinality(KeysIn(s + 1))
  <2>1. IsFiniteSet(KeysIn(s + 1)) /\ IsFiniteSet(Counted(t, s))
    BY <1>1, FS_Subset DEF KeysIn, Counted
  <2>2. here \in SUBSET KeysIn(s + 1)
    BY <1>1 DEF KeysIn
  <2> QED
    BY <2>1, <2>2, FS_Subset
<1>5. /\ Cardinality(Counted(t, s + 1)) =
           Cardinality(Counted(t, s)) + Cardinality(here) - Cardinality(Counted(t, s) \cap here)
      /\ Cardinality(Counted(t, s) \cap here) = 0
  BY <1>3, <1>4, FS_Union, FS_EmptySet
<1>6. /\ Cardinality(Counted(t, s)) \in Nat /\ Cardinality(here) \in Nat
      /\ Cardinality(KeysIn(s + 1)) \in Nat
  BY <1>4, FS_CardinalityType
<1> QED
  BY <1>1, <1>4, <1>5, <1>6

\* The walk's own steps.
LEMMA WalkMoves ==
  ASSUME TypeInv, WalkInv, NEW t \in Threads,
         \/ NextShard(t) \/ VisitKey(t) \/ VisitSeries(t) \/ LockVisited(t) \/ AddStats(t)
         \/ UnlockVisited(t) \/ EndWalk(t) \/ LenShard(t) \/ EndLen(t)
  PROVE  PlaceOK(t)' /\ (call'[t].op \in Collecting => WalkOK(t)')
<1>1. /\ known \subseteq Keys /\ pc \in [Threads -> PCs] /\ call \in [Threads -> Call]
      /\ shard \in [Threads -> 0 .. NumShards] /\ todo \in [Threads -> SUBSET Keys]
      /\ DOMAIN answer = Threads /\ {"keys", "len"} \subseteq DOMAIN answer[t]
      /\ PlaceOK(t) /\ (call[t].op \in Collecting => WalkOK(t))
      /\ NumShards \in Nat
  BY ShardsAssumption DEF TypeInv, StoreTypeOK, WalkInv, PlaceOK
<1>2. \A k \in known : ShardOf[k] \in 1 .. NumShards
  BY <1>1, ShardsAssumption
<1> USE DEF Goto, store, history, walk
<1>3. CASE NextShard(t)
  <2>1. /\ pc[t] = "iter_next" /\ pc'[t] = "iter_next" /\ todo[t] = {}
        /\ shard'[t] = shard[t] + 1 /\ shard[t] \in Nat
        /\ todo'[t] = KeysIn(shard[t] + 1)
        /\ call' = call /\ answer' = answer /\ atCall' = atCall /\ known' = known
    BY <1>1, <1>3 DEF NextShard
  <2>2. PlaceOK(t)'
    BY <1>1, <2>1 DEF PlaceOK, IterPCs
  <2>3. ASSUME WalkOK(t), NEW k \in atCall[t].known, ShardOf[k] <= shard[t] + 1
        PROVE  k \in KeysIn(shard[t] + 1) \cup answer[t].keys
    <3>1. k \in known /\ ShardOf[k] \in Nat
      BY <1>2, <2>3 DEF WalkOK
    <3>2. CASE ShardOf[k] = shard[t] + 1
      BY <3>1, <3>2 DEF KeysIn
    <3>3. CASE ShardOf[k] <= shard[t]
      BY <2>1, <2>3, <3>3 DEF WalkOK, InHand, IterPCs
    <3> QED
      BY <2>1, <2>3, <3>1, <3>2, <3>3
  <2>4. WalkOK(t) => WalkOK(t)'
    <3> SUFFICES ASSUME WalkOK(t) PROVE WalkOK(t)'
      OBVIOUS
    <3>1. KeysIn(shard[t] + 1) \subseteq known
      BY DEF KeysIn
    <3> QED
      BY <2>1, <2>3, <3>1 DEF WalkOK, InHand, IterPCs
  <2> QED
    BY <1>1, <2>1, <2>2, <2>4
<1>4. CASE VisitKey(t)
  <2>1. PICK k \in todo[t] :
          /\ todo' = [todo EXCEPT ![t] = @ \ {k}]
          /\ answer' = [answer EXCEPT ![t].keys = @ \cup {k}]
    BY <1>4 DEF VisitKey
  <2>2. /\ pc[t] = "iter_next" /\ pc'[t] = "iter_next"
        /\ todo'[t] = todo[t] \ {k} /\ answer'[t].keys = answer[t].keys \cup {k}
        /\ answer'[t].len = answer[t].len /\ DOMAIN answer'[t] = DOMAIN answer[t]
        /\ shard' = shard /\ call' = call /\ atCall' = atCall /\ known' = known
    BY <1>1, <1>4, <2>1 DEF VisitKey
  <2> QED
    BY <1>1, <2>2 DEF PlaceOK, WalkOK, InHand, IterPCs
<1>5. CASE VisitSeries(t)
  <2>1. PICK k \in todo[t] : todo' = [todo EXCEPT ![t] = @ \ {k}] /\ call' = [call EXCEPT ![t].key = k]
    BY <1>5 DEF VisitSeries
  <2>2. /\ pc[t] = "iter_next" /\ pc'[t] = "iter_storage" /\ todo'[t] = todo[t] \ {k}
        /\ call'[t].key = k /\ call'[t].op = call[t].op
        /\ shard' = shard /\ answer' = answer /\ atCall' = atCall /\ known' = known
    BY <1>1, <1>5, <2>1 DEF VisitSeries, Call
  <2> QED
    BY <1>1, <2>2 DEF PlaceOK, WalkOK, InHand, IterPCs
<1>6. CASE LockVisited(t)
  BY <1>1, <1>6 DEF LockVisited, PlaceOK, WalkOK, InHand, IterPCs
<1>7. CASE AddStats(t)
  <2>1. /\ pc[t] = "iter_body" /\ pc'[t] = "iter_unlock"
        /\ answer'[t].keys = answer[t].keys \cup {call[t].key}
        /\ answer'[t].len = answer[t].len /\ DOMAIN answer'[t] = DOMAIN answer[t]
        /\ shard' = shard /\ todo' = todo /\ call' = call /\ atCall' = atCall /\ known' = known
    BY <1>1, <1>7 DEF AddStats
  <2> QED
    BY <1>1, <2>1 DEF PlaceOK, WalkOK, InHand, IterPCs
<1>8. CASE UnlockVisited(t)
  <2>1. /\ pc[t] = "iter_unlock" /\ pc'[t] = "iter_next" /\ call'[t].op = call[t].op
        /\ UNCHANGED <<known, answer, atCall, shard, todo>>
    BY <1>1, <1>8 DEF UnlockVisited, Call
  <2> QED
    BY <1>1, <2>1 DEF PlaceOK, WalkOK, InHand, IterPCs
<1>9. CASE EndWalk(t)
  <2>1. /\ pc[t] = "iter_next" /\ todo[t] = {} /\ shard[t] = NumShards /\ shard'[t] = 0
        /\ pc'[t] \in {"len_next", "done"}
        /\ pc'[t] = "done" => call[t].op # "get_stats"
        /\ UNCHANGED <<known, answer, atCall, todo, call>>
    BY <1>1, <1>9 DEF EndWalk
  <2>2. ASSUME WalkOK(t) PROVE atCall[t].known \subseteq answer[t].keys
    BY <1>2, <2>1, <2>2 DEF WalkOK, InHand, IterPCs
  <2>3. ASSUME WalkOK(t) PROVE Cardinality(Counted(t, 0)) = 0
    <3>1. Counted(t, 0) = {}
      BY <1>2, <2>3 DEF Counted, WalkOK
    <3> QED
      BY <3>1, FS_EmptySet
  <2>4. Counted(t, shard[t])' = Counted(t, 0)
    BY <2>1 DEF Counted
  <2> QED
    BY <1>1, <2>1, <2>2, <2>3, <2>4 DEF PlaceOK, WalkOK, InHand, IterPCs
<1>10. CASE LenShard(t)
  <2>1. /\ pc[t] = "len_next" /\ pc'[t] = "len_next" /\ shard'[t] = shard[t] + 1
        /\ answer'[t].len = answer[t].len + Cardinality(KeysIn(shard[t] + 1))
        /\ answer'[t].keys = answer[t].keys /\ DOMAIN answer'[t] = DOMAIN answer[t]
        /\ UNCHANGED <<known, atCall, todo, call>>
    BY <1>1, <1>10 DEF LenShard
  <2>2. Cardinality(KeysIn(shard[t] + 1)) \in Nat
    <3>1. IsFiniteSet(KeysIn(shard[t] + 1))
      BY FS_Subset DEF KeysIn, WalkInv
    <3> QED
      BY <3>1, FS_CardinalityType
  <2>3. Counted(t, shard[t])' = Counted(t, shard[t] + 1)
    BY <2>1 DEF Counted
  <2>4. WalkOK(t) => Cardinality(Counted(t, shard[t])') <= answer'[t].len
    BY <1>10, <2>1, <2>3, LenCounts
  <2> QED
    BY <1>1, <2>1, <2>2, <2>4 DEF PlaceOK, WalkOK, InHand, IterPCs
<1>11. CASE EndLen(t)
  <2>1. /\ pc[t] = "len_next" /\ pc'[t] = "done" /\ shard[t] = NumShards /\ shard'[t] = 0
        /\ UNCHANGED <<known, answer, atCall, todo, call>>
    BY <1>1, <1>11 DEF EndLen
  <2>2. WalkOK(t) => Counted(t, NumShards) = answer[t].keys
    BY <1>2 DEF Counted, WalkOK
  <2> QED
    BY <1>1, <2>1, <2>2 DEF PlaceOK, WalkOK, InHand, IterPCs
<1> QED
  BY <1>3, <1>4, <1>5, <1>6, <1>7, <1>8, <1>9, <1>10, <1>11

\* The steps of the other calls.
LEMMA OtherMoves ==
  ASSUME TypeInv, WalkInv, NEW t \in Threads,
         \/ LockEntry(t) \/ LockEntrySeries(t) \/ UnlockInsert(t) \/ LockShardToRead(t)
         \/ LockSeriesToRead(t) \/ ReadSeriesData(t) \/ UnlockRead(t) \/ Return(t)
         \/ SeriesStep(t)
  PROVE  PlaceOK(t)' /\ (call'[t].op \in Collecting => WalkOK(t)')
<1>1. /\ pc \in [Threads -> PCs] /\ call \in [Threads -> Call]
      /\ DOMAIN answer = Threads /\ {"keys", "len"} \subseteq DOMAIN answer[t]
      /\ PlaceOK(t) /\ (call[t].op \in Collecting => WalkOK(t))
  BY DEF TypeInv, StoreTypeOK, WalkInv, PlaceOK
<1> USE DEF Goto, walk
<1>2. CASE Return(t)
  BY <1>1, <1>2 DEF Return, PlaceOK, IterPCs, NoCall, NoAnswer, Collecting
<1>3. CASE ~Return(t)
  <2>1. /\ pc[t] \notin {"iter_next", "iter_storage", "iter_unlock", "len_next", "done", "idle"}
        /\ pc'[t] \notin {"iter_storage", "iter_body", "iter_next", "idle", "len_next"}
        /\ pc'[t] \in {"iter_push", "iter_unlock"} <=> pc[t] \in {"iter_body", "iter_push"}
        /\ call[t].op \notin Collecting
    <3>1. CASE SealIfExpired(t) \/ PushSealed(t)
      BY <1>1, <3>1 DEF SealIfExpired, PushSealed, Collecting, WalkOK, IterPCs, TypeInv, Control
    <3>2. CASE ~(SealIfExpired(t) \/ PushSealed(t))
      BY <1>1, <1>3, <3>2 DEF LockEntry, LockEntrySeries, UnlockInsert, LockShardToRead,
         LockSeriesToRead, ReadSeriesData, UnlockRead, SeriesStep, AppendCurrent, TakeRejecting,
         OpenBlock, WalkOK, IterPCs
    <3> QED
      BY <3>1, <3>2
  <2>2. UNCHANGED <<shard, todo, call>> /\ {"keys", "len"} \subseteq DOMAIN answer'[t]
    BY <1>1, <1>3 DEF LockEntry, LockEntrySeries, UnlockInsert, LockShardToRead,
       LockSeriesToRead, ReadSeriesData, UnlockRead, SeriesStep, AppendCurrent, TakeRejecting,
       SealIfExpired, PushSealed, OpenBlock
  <2> QED
    BY <1>1, <2>1, <2>2 DEF PlaceOK, IterPCs
<1> QED
  BY <1>2, <1>3

LEMMA NextWalk == TypeInv /\ WalkInv /\ [Next]_vars => WalkInv'
<1> SUFFICES ASSUME TypeInv, WalkInv, [Next]_vars PROVE WalkInv'
  OBVIOUS
<1>1. ASSUME NEW t \in Threads, ThreadStep(t) PROVE WalkInv'
  <2>1. known \subseteq known' /\ IsFiniteSet(known')
    BY <1>1, KnownGrows
  <2>2. PlaceOK(t)' /\ (call'[t].op \in Collecting => WalkOK(t)')
    BY <1>1, ThreadStepCases, BeginWalks, WalkMoves, OtherMoves DEF MoveStep
  <2>3. ASSUME NEW u \in Threads \ {t}
        PROVE  PlaceOK(u)' /\ (call'[u].op \in Collecting => WalkOK(u)')
    <3>1. /\ pc'[u] = pc[u] /\ call'[u] = call[u] /\ answer'[u] = answer[u]
          /\ atCall'[u] = atCall[u] /\ shard'[u] = shard[u] /\ todo'[u] = todo[u]
      BY <1>1, StepLocks, OthersWalk
    <3>2. PlaceOK(u)'
      BY <3>1 DEF WalkInv, PlaceOK
    <3>3. call[u].op \in Collecting => WalkOK(u)'
      BY <2>1, <3>1, WalkUndisturbed DEF WalkInv
    <3> QED
      BY <3>1, <3>2, <3>3
  <2> QED
    BY <1>1, <2>1, <2>2, <2>3, OthersWalk DEF WalkInv
<1>2. CASE UNCHANGED vars
  BY <1>2 DEF WalkInv, PlaceOK, WalkOK, InHand, Counted, vars, store, walk
<1> QED
  BY <1>1, <1>2 DEF Next

\* A walk visits every key that was in the map when it began, whatever keys
\* enter meanwhile, and the series_count that get_stats takes afterwards is no
\* less than the number of series it added up (memory.rs keys, get_stats).
THEOREM WalksMissNoKey == Spec => []WalkMissesNoKey
<1>1. Spec => [](TypeInv /\ WalkInv)
  BY InitTypeInv, NextTypeInv, InitWalk, NextWalk, PTL DEF Spec
<1>2. WalkInv => WalkMissesNoKey
  BY DEF WalkInv, WalkOK, WalkMissesNoKey, Collecting, IterPCs
<1> QED
  BY <1>1, <1>2, PTL

-----------------------------------------------------------------------------
(* The types of what calls report *)

\* The points and blocks of a series can be counted.
LEMMA SeriesCounts ==
  ASSUME NEW s \in Series
  PROVE  /\ CurrentPoints(s) \in Seq(Point)
         /\ Len(s.sealed_blocks) \in Nat
         /\ BlockCount(s) \in Nat
         /\ PointCount(s) \in Nat
<1> DEFINE sealed == s.sealed_blocks
           counts == [i \in DOMAIN sealed |-> sealed[i].count]
<1>1. /\ sealed \in Seq(CompressedBlock) /\ Len(sealed) \in Nat
      /\ DOMAIN sealed = 1 .. Len(sealed) /\ IsFiniteSet(DOMAIN sealed)
  BY LenProperties, FS_Interval DEF Series
<1>2. CurrentPoints(s) \in Seq(Point) /\ Len(CurrentPoints(s)) \in Nat
  <2>1. CurrentPoints(s) \in Seq(Point)
    BY EmptySeq DEF CurrentPoints, Series, Block
  <2> QED
    BY <2>1, LenProperties
<1>3. SumFunction(counts) \in Nat
  <2>1. ASSUME NEW i \in DOMAIN sealed PROVE counts[i] \in Nat
    <3>1. sealed[i] \in CompressedBlock
      <4> HIDE DEF sealed
      <4> QED
        BY <1>1, <2>1, ElementOfSeq
    <3> QED
      BY <3>1 DEF CompressedBlock
  <2>2. SumFunctionOnSet(counts, DOMAIN sealed) \in Nat
    <3> HIDE DEF counts, sealed
    <3> QED
      BY <1>1, <2>1, SumType
  <2> QED
    BY <2>2 DEF SumFunction
<1>4. PointCount(s) = Len(CurrentPoints(s)) + SumFunction(counts)
  BY DEF PointCount
<1>5. BlockCount(s) = Len(sealed) \/ BlockCount(s) = Len(sealed) + 1
  <2>1. Len(sealed) + 0 = Len(sealed)
    BY <1>1
  <2> QED
    BY <2>1 DEF BlockCount
<1> HIDE DEF counts
<1> QED
  BY <1>1, <1>2, <1>3, <1>4, <1>5

\* What is stored in the map can be counted.
LEMMA TotalType == TypeInv /\ IsFiniteSet(known) => AcceptedTotal \in Nat
<1> SUFFICES ASSUME TypeInv, IsFiniteSet(known) PROVE AcceptedTotal \in Nat
  OBVIOUS
<1> DEFINE lengths == [k \in known |-> Len(accepted[k])]
<1>1. \A k \in known : lengths[k] \in Nat
  BY LenProperties DEF TypeInv, StoreTypeOK
<1>2. SumFunctionOnSet(lengths, known) \in Nat
  <2> HIDE DEF lengths
  <2> QED
    BY <1>1, SumType
<1> QED
  BY <1>2 DEF AcceptedTotal, SumFunction

\* The reports stay functions.
LEMMA ReportFunctions ==
  ASSUME ReportTypeOK, NEW t \in Threads, ThreadStep(t)
  PROVE  /\ answer' = [u \in Threads |-> answer'[u]]
         /\ atCall' = [u \in Threads |-> atCall'[u]]
<1> USE DEF ReportTypeOK
<1>1. CASE CallInsert(t) \/ CallScan(t) \/ CallGetSeries(t) \/ CallWalk(t) \/ CallLen(t)
  BY <1>1 DEF CallInsert, CallScan, CallGetSeries, CallWalk, CallLen, Begin
<1>2. CASE LockEntry(t) \/ LockEntrySeries(t) \/ UnlockInsert(t) \/ LockShardToRead(t)
           \/ LockSeriesToRead(t) \/ UnlockRead(t) \/ ReadSeriesData(t)
  BY <1>2 DEF LockEntry, LockEntrySeries, UnlockInsert, LockShardToRead, LockSeriesToRead,
              ReadSeriesData, UnlockRead
<1>3. CASE NextShard(t) \/ VisitKey(t) \/ VisitSeries(t) \/ LockVisited(t) \/ AddStats(t)
           \/ UnlockVisited(t) \/ EndWalk(t) \/ LenShard(t) \/ EndLen(t)
  BY <1>3 DEF NextShard, VisitKey, VisitSeries, LockVisited, AddStats, UnlockVisited, EndWalk,
              LenShard, EndLen
<1>4. CASE Return(t)
  BY <1>4 DEF Return
<1>5. CASE SeriesStep(t)
  BY <1>5 DEF SeriesStep, AppendCurrent, TakeRejecting, SealIfExpired, PushSealed, OpenBlock
<1> QED
  BY <1>1, <1>2, <1>3, <1>4, <1>5, ThreadStepCases DEF MoveStep

\* What a thread answers next, given the step it takes, and what it noted
\* when its call began, have their types.
LEMMA OwnReport ==
  ASSUME Inv, WalkInv, ReportTypeOK, NEW t \in Threads, ThreadStep(t)
  PROVE  answer'[t] \in Report /\ atCall'[t] \in [known : SUBSET Keys, count : Nat]
<1>1. /\ DOMAIN answer = Threads /\ answer[t] \in Report
      /\ DOMAIN atCall = Threads /\ atCall[t] \in [known : SUBSET Keys, count : Nat]
      /\ known \subseteq Keys /\ call[t] \in Call /\ series \in [Keys -> Series]
      /\ IsFiniteSet(known) /\ AcceptedTotal \in Nat
      /\ \A k \in Keys : Len(accepted[k]) \in Nat
  BY TotalType, LenProperties DEF Inv, TypeInv, StoreTypeOK, ReportTypeOK, WalkInv
<1>2. \A s \in {"Ok", "InvalidTimeRange", "KeyNotFound"} : [answer[t] EXCEPT !.status = s] \in Report
  BY <1>1 DEF Report
<1>3. ASSUME NEW c, NEW to, Begin(t, c, to), c.op = "scan_range" => c.key \in Keys
      PROVE  atCall'[t] \in [known : SUBSET Keys, count : Nat]
  <2>1. atCall'[t] = StoredAt(c)
    BY <1>1, <1>3 DEF Begin
  <2> QED
    BY <1>1, <1>3, <2>1 DEF StoredAt, NothingAtCall
<1>4. CASE CallInsert(t) \/ CallGetSeries(t) \/ CallWalk(t) \/ CallLen(t)
  <2>1. CASE CallInsert(t)
    BY <1>1, <1>3, <2>1 DEF CallInsert, NoCall
  <2>2. CASE CallGetSeries(t)
    BY <1>1, <1>3, <2>2 DEF CallGetSeries, NoCall
  <2>3. CASE CallWalk(t)
    BY <1>1, <1>3, <2>3 DEF CallWalk, NoCall
  <2>4. CASE CallLen(t)
    BY <1>1, <1>3, <2>4 DEF CallLen, NoCall
  <2> QED
    BY <1>4, <2>1, <2>2, <2>3, <2>4
<1>5. CASE CallScan(t)
  <2>1. PICK k \in Keys, start, end \in Timestamps, to \in {"read_shard", "done"} :
          /\ Begin(t, [NoCall EXCEPT !.op = "scan_range", !.key = k, !.start = start, !.end = end], to)
          /\ \/ answer' = answer
             \/ answer' = [answer EXCEPT ![t].status = "InvalidTimeRange"]
    BY <1>5 DEF CallScan
  <2>2. atCall'[t] \in [known : SUBSET Keys, count : Nat]
    BY <1>3, <2>1 DEF NoCall
  <2> QED
    BY <1>1, <1>2, <2>1, <2>2
<1>6. CASE LockShardToRead(t)
  BY <1>1, <1>2, <1>6 DEF LockShardToRead
<1>7. CASE ReadSeriesData(t)
  <2> DEFINE s == series[call[t].key]
             points == InRange(s, call[t].start, call[t].end)
  <2>1. s \in Series
    BY <1>1, <1>7 DEF ReadSeriesData, Goto, Inv, TypeInv, Control, OnSeriesPCs
  <2>2. CurrentPoints(s) \in Seq(Point) /\ Len(s.sealed_blocks) \in Nat /\ PointCount(s) \in Nat
    BY <2>1, SeriesCounts
  <2>3. points \in Seq(Point)
    <3> DEFINE open == CurrentPoints(s)
    <3>1. Picked(open, call[t].start, call[t].end) \in SUBSET (DOMAIN open)
      BY DEF Picked
    <3>2. SortByTimestamp(open, Picked(open, call[t].start, call[t].end)) \in Seq(Point)
      <4> HIDE DEF open
      <4> QED
        BY <2>2, <3>1, SortKeepsPicked DEF open
    <3> QED
      BY <3>2 DEF InRange
  <2>4. atCall' = atCall
    BY <1>7 DEF ReadSeriesData
  <2>5. \/ answer' = [answer EXCEPT ![t].status = "Ok", ![t].points = points]
        \/ answer' = [answer EXCEPT ![t].status = "Ok", ![t].points = CurrentPoints(s),
                                    ![t].blocks = Len(s.sealed_blocks), ![t].count = PointCount(s)]
    BY <1>7 DEF ReadSeriesData
  <2>6. \/ answer'[t] = [answer[t] EXCEPT !.status = "Ok", !.points = points]
        \/ answer'[t] = [answer[t] EXCEPT !.status = "Ok", !.points = CurrentPoints(s),
                                          !.blocks = Len(s.sealed_blocks), !.count = PointCount(s)]
    <3> HIDE DEF s, points
    <3> QED
      BY <1>1, <2>5
  <2>7. answer'[t] \in Report
    <3> HIDE DEF s, points
    <3> QED
      BY <1>1, <2>2, <2>3, <2>6 DEF Report
  <2> QED
    BY <1>1, <2>4, <2>7
<1>8. CASE VisitKey(t)
  <2>1. PICK k \in todo[t] : answer' = [answer EXCEPT ![t].keys = @ \cup {k}]
    BY <1>8 DEF VisitKey
  <2>2. k \in Keys /\ atCall' = atCall
    BY <1>8 DEF Inv, TypeInv, StoreTypeOK, VisitKey
  <2>3. answer'[t] = [answer[t] EXCEPT !.keys = @ \cup {k}]
    BY <1>1, <2>1
  <2> QED
    BY <1>1, <2>2, <2>3 DEF Report
<1>9. CASE AddStats(t)
  <2> DEFINE s == series[call[t].key]
  <2>1. s \in Series /\ call[t].key \in Keys /\ atCall' = atCall
    BY <1>1, <1>9 DEF AddStats, Goto, Inv, TypeInv, Control, OnSeriesPCs
  <2>2. BlockCount(s) \in Nat /\ PointCount(s) \in Nat
    BY <2>1, SeriesCounts
  <2> DEFINE a == answer[t]
             count == a.count + PointCount(s)
             blocks == a.blocks + BlockCount(s)
             keys == a.keys \cup {call[t].key}
  <2>3. answer'[t] = [a EXCEPT !.count = count, !.blocks = blocks, !.keys = keys]
    BY <1>1, <1>9 DEF AddStats
  <2>4. a \in Report /\ count \in Nat /\ blocks \in Nat /\ keys \in SUBSET Keys
    <3>1. a.count \in Nat /\ a.blocks \in Nat /\ a.keys \in SUBSET Keys
      BY <1>1 DEF Report
    <3> QED
      BY <1>1, <2>1, <2>2, <3>1
  <2> HIDE DEF a, count, blocks, keys
  <2> QED
    BY <1>1, <2>1, <2>3, <2>4 DEF Report
<1>10. CASE LenShard(t)
  <2>1. IsFiniteSet(KeysIn(shard[t] + 1))
    BY <1>1, FS_Subset DEF KeysIn
  <2>2. Cardinality(KeysIn(shard[t] + 1)) \in Nat /\ atCall' = atCall
    BY <1>10, <2>1, FS_CardinalityType DEF LenShard
  <2>3. answer'[t] = [answer[t] EXCEPT !.len = @ + Cardinality(KeysIn(shard[t] + 1))]
    BY <1>1, <1>10 DEF LenShard
  <2> QED
    BY <1>1, <2>2, <2>3, SMTT(30) DEF Report
<1>11. CASE Return(t)
  BY <1>1, <1>11, EmptySeq DEF Return, NoAnswer, Report, NothingAtCall
<1>12. CASE SeriesStep(t)
  BY <1>1, <1>2, <1>12 DEF SeriesStep, AppendCurrent, TakeRejecting, SealIfExpired, PushSealed, OpenBlock
<1>13. CASE \/ LockEntry(t) \/ LockEntrySeries(t) \/ UnlockInsert(t) \/ LockSeriesToRead(t)
            \/ UnlockRead(t) \/ NextShard(t) \/ VisitSeries(t) \/ LockVisited(t)
            \/ UnlockVisited(t) \/ EndWalk(t) \/ EndLen(t)
  BY <1>1, <1>13 DEF LockEntry, LockEntrySeries, UnlockInsert, LockSeriesToRead, UnlockRead,
     NextShard, VisitSeries, LockVisited, UnlockVisited, EndWalk, EndLen
<1> QED
  BY <1>4, <1>5, <1>6, <1>7, <1>8, <1>9, <1>10, <1>11, <1>12, <1>13, ThreadStepCases DEF MoveStep

\* Every step keeps the types of the reports.
LEMMA NextReport == Inv /\ WalkInv /\ ReportTypeOK /\ [Next]_vars => ReportTypeOK'
<1> SUFFICES ASSUME Inv, WalkInv, ReportTypeOK, [Next]_vars PROVE ReportTypeOK'
  OBVIOUS
<1>1. ASSUME NEW t \in Threads, ThreadStep(t) PROVE ReportTypeOK'
  <2>1. /\ answer'[t] \in Report /\ atCall'[t] \in [known : SUBSET Keys, count : Nat]
        /\ DOMAIN answer' = Threads /\ DOMAIN atCall' = Threads
        /\ \A u \in Threads \ {t} : answer'[u] = answer[u] /\ atCall'[u] = atCall[u]
    BY <1>1, OwnReport, OthersWalk DEF Inv
  <2> QED
    BY <1>1, <2>1, ReportFunctions DEF ReportTypeOK
<1>2. CASE UNCHANGED vars
  BY <1>2 DEF ReportTypeOK, vars
<1> QED
  BY <1>1, <1>2 DEF Next

\* Every variable of the map has its type in every reachable state: a range
\* query answers points, get_series and get_stats count (memory.rs
\* scan_range, to_time_series, get_stats, len).
THEOREM MapTypeCorrect == Spec => []TypeOK
<1>1. Init => ReportTypeOK
  BY EmptySeq DEF Init, ReportTypeOK, Report, NoAnswer, NothingAtCall
<1>2. Inv /\ WalkInv /\ [Next]_vars => WalkInv'
  BY NextWalk DEF Inv
<1>3. Inv /\ ReportTypeOK => TypeOK
  BY DEF Inv, TypeInv, TypeOK
<1> QED
  BY <1>1, <1>2, <1>3, InitInv, NextInv, InitWalk, NextReport, PTL DEF Spec

-----------------------------------------------------------------------------
(* What get_stats counts *)

\* The points of a series nobody writes are all that were stored under its
\* key: each sealed block counts the points between two cuts.
LEMMA CountsAccepted ==
  ASSUME Inv, NEW k \in Keys, \A u \in Threads : ~Unpushed(u, k)
  PROVE  PointCount(series[k]) = Len(accepted[k])
<1> DEFINE sealed == series[k].sealed_blocks
           c == cuts[k]
           a == accepted[k]
           n == Len(c)
           counts == [i \in DOMAIN sealed |-> sealed[i].count]
<1>1. /\ a \in Seq(Point) /\ Len(a) \in Nat /\ c \in Seq(Nat) /\ n \in Nat
      /\ DOMAIN c = 1 .. n /\ LastCut(k) \in 0 .. Len(a)
      /\ \A i \in 1 .. n : c[i] \in Nat /\ CutBefore(k, i) \in Int
      /\ sealed \in Seq(CompressedBlock) /\ DOMAIN sealed = 1 .. n
  <2>1. series[k] \in Series /\ KeyPartition(k)
    BY PartitionByKey DEF Inv, TypeInv, StoreTypeOK
  <2>2. sealed \in Seq(CompressedBlock) /\ Len(sealed) = n
    BY <2>1 DEF Series, KeyPartition
  <2>3. c \in Seq(Nat) /\ a \in Seq(Point) /\ LastCut(k) \in 0 .. Len(a)
    BY <2>1, CutsInRange DEF Inv
  <2>4. n \in Nat /\ DOMAIN c = 1 .. n /\ \A i \in 1 .. n : c[i] \in Nat
    BY <2>3, LenProperties, ElementOfSeq
  <2>5. \A i \in 1 .. n : CutBefore(k, i) \in Int
    <3> SUFFICES ASSUME NEW i \in 1 .. n PROVE CutBefore(k, i) \in Int
      OBVIOUS
    <3>1. i = 1 \/ i - 1 \in 1 .. n
      BY <2>4
    <3> QED
      BY <2>4, <3>1 DEF CutBefore
  <2> QED
    BY <2>2, <2>3, <2>4, <2>5, LenProperties
<1>2. ASSUME NEW i \in 1 .. n
      PROVE  c[i] \in Int /\ counts[i] = c[i] - (IF i = 1 THEN 0 ELSE c[i - 1])
  <2>1. SealedFrom(k, i)
    BY <1>1 DEF Inv, ArrivalPartition
  <2> DEFINE b == CutBefore(k, i)
             last == c[i]
  <2>2. sealed[i].count = last - (b + 1) + 1 /\ last \in Int /\ b \in Int
    BY <1>1, <2>1 DEF SealedFrom
  <2>3. last - (b + 1) + 1 = last - b
    <3> HIDE DEF b, last
    <3> QED
      BY <2>2
  <2>4. counts[i] = last - b
    BY <1>1, <2>2, <2>3
  <2> QED
    BY <1>1, <2>4 DEF CutBefore
<1>3. SumFunction(counts) = LastCut(k)
  <2>1. /\ n = 0 => SumFunctionOnSet(counts, 1 .. n) = 0
        /\ n > 0 => SumFunctionOnSet(counts, 1 .. n) = c[n]
    <3>1. /\ n \in Nat /\ \A i \in 1 .. n : c[i] \in Int
          /\ n > 0 => counts[1] = c[1]
          /\ \A i \in 2 .. n : counts[i] = c[i] - c[i - 1]
      <4> HIDE DEF counts, c, n
      <4>1. n \in Nat /\ \A i \in 1 .. n : c[i] \in Int
        BY <1>1
      <4>2. ASSUME n > 0 PROVE counts[1] = c[1]
        <5>1. 1 \in 1 .. n
          BY <4>1, <4>2
        <5>2. c[1] \in Int /\ counts[1] = c[1] - 0
          BY <1>2, <5>1
        <5> QED
          BY <5>2
      <4>3. \A i \in 2 .. n : i \in 1 .. n /\ i # 1
        BY <4>1
      <4>4. \A i \in 2 .. n : counts[i] = c[i] - c[i - 1]
        BY <1>2, <4>3
      <4> QED
        BY <4>1, <4>2, <4>4
    <3> HIDE DEF counts, c, n
    <3> QED
      BY <3>1, SumOfSteps
  <2>2. n = 0 <=> c = <<>>
    BY <1>1, EmptySeq
  <2> QED
    BY <1>1, <2>1, <2>2 DEF SumFunction, LastCut
<1>4. Len(CurrentPoints(series[k])) = Len(a) - LastCut(k)
  <2>1. CurrentPoints(series[k]) = SubSeq(a, LastCut(k) + 1, Len(a))
    BY DEF Inv, ArrivalPartition, OpenHoldsRest
  <2>2. CASE LastCut(k) = Len(a)
    <3>1. SubSeq(a, LastCut(k) + 1, Len(a)) = <<>>
      BY <1>1, <2>2, SubSeqEmpty
    <3> QED
      BY <1>1, <2>1, <2>2, <3>1, EmptySeq
  <2>3. CASE LastCut(k) < Len(a)
    <3> DEFINE cut == LastCut(k)
    <3>1. cut \in Nat /\ cut + 1 \in 1 .. Len(a)
      BY <1>1, <2>3
    <3>2. Len(SubSeq(a, cut + 1, Len(a))) = Len(a) - cut
      <4> HIDE DEF a, cut
      <4> QED
        BY <1>1, <3>1, SliceAfter
    <3> QED
      BY <2>1, <3>2
  <2> QED
    BY <1>1, <2>2, <2>3
<1> QED
  BY <1>1, <1>3, <1>4 DEF PointCount

\* get_stats adds each series once.
VisitsOnce(t) ==
  pc[t] \in IterPCs =>
    /\ answer[t].keys \cap (todo[t] \cup InHand(t)) = {}
    /\ todo[t] \cap InHand(t) = {}
    /\ \A k \in answer[t].keys : ShardOf[k] <= shard[t]
    /\ \A k \in todo[t] \cup InHand(t) : ShardOf[k] = shard[t]

\* The total noted when the call began is a sum over the keys there were,
\* the count a sum over the keys visited, and what was counted of a key lies
\* between what was stored of it then and what is stored of it now.
Bracketed(t) ==
  \E low \in [atCall[t].known -> Nat], got \in [answer[t].keys -> Nat] :
    /\ SumFunction(low) = atCall[t].count
    /\ SumFunction(got) = answer[t].count
    /\ \A k \in atCall[t].known : low[k] <= Len(accepted[k])
    /\ \A k \in answer[t].keys : got[k] <= Len(accepted[k])
    /\ \A k \in atCall[t].known \cap answer[t].keys : low[k] <= got[k]

StatsInv == \A t \in Threads : call[t].op = "get_stats" => VisitsOnce(t) /\ Bracketed(t)

\* The bracket stays while others add points.
LEMMA BracketedStays ==
  ASSUME TypeInv, TypeInv', Grows, NEW t \in Threads, Bracketed(t),
         atCall'[t] = atCall[t], answer'[t].keys = answer[t].keys, answer'[t].count = answer[t].count,
         atCall[t].known \cup answer[t].keys \subseteq Keys
  PROVE  Bracketed(t)'
<1>1. \A k \in Keys : /\ Len(accepted[k]) \in Nat /\ Len(accepted[k]) <= Len(accepted'[k])
                      /\ Len(accepted'[k]) \in Nat
  BY LenProperties DEF Grows, TypeInv, StoreTypeOK
<1>2. PICK low \in [atCall[t].known -> Nat], got \in [answer[t].keys -> Nat] :
        /\ SumFunction(low) = atCall[t].count
        /\ SumFunction(got) = answer[t].count
        /\ \A k \in atCall[t].known : low[k] <= Len(accepted[k])
        /\ \A k \in answer[t].keys : got[k] <= Len(accepted[k])
        /\ \A k \in atCall[t].known \cap answer[t].keys : low[k] <= got[k]
  BY DEF Bracketed
<1>3. \A k \in atCall[t].known : low[k] \in Nat /\ low[k] <= Len(accepted'[k])
  BY <1>1, <1>2
<1>4. \A k \in answer[t].keys : got[k] \in Nat /\ got[k] <= Len(accepted'[k])
  BY <1>1, <1>2
<1> QED
  BY <1>2, <1>3, <1>4 DEF Bracketed

\* When get_stats begins, nothing has been counted.
LEMMA BeginStats ==
  ASSUME Inv, WalkInv, NEW t \in Threads, CallWalk(t), call'[t].op = "get_stats"
  PROVE  VisitsOnce(t)' /\ Bracketed(t)'
<1>1. PICK op \in {"keys", "get_stats", "seal_expired_blocks"} :
        Begin(t, [NoCall EXCEPT !.op = op], "iter_next") /\ answer' = answer
  BY DEF CallWalk
<1>2. [NoCall EXCEPT !.op = op].op = op
  BY DEF NoCall
<1>3. /\ pc[t] = "idle" /\ pc'[t] = "iter_next" /\ call'[t].op = op /\ op = "get_stats"
      /\ UNCHANGED <<shard, todo, known, accepted>>
      /\ atCall'[t] = StoredAt([NoCall EXCEPT !.op = op])
  BY <1>1, <1>2 DEF Begin, Goto, walk, store, history, Inv, TypeInv, StoreTypeOK, WalkInv
<1>4. answer'[t] = NoAnswer /\ todo'[t] = {}
  BY <1>1, <1>3 DEF WalkInv, PlaceOK, IterPCs
<1>5. atCall'[t] = [known |-> known, count |-> AcceptedTotal]
  BY <1>2, <1>3 DEF StoredAt
<1>6. VisitsOnce(t)'
  BY <1>3, <1>4 DEF VisitsOnce, InHand, NoAnswer
<1>7. Bracketed(t)'
  <2> DEFINE low == [k \in known |-> Len(accepted[k])]
             got == [k \in {} |-> 0]
  <2>1. known \subseteq Keys /\ \A k \in Keys : Len(accepted[k]) \in Nat
    BY LenProperties DEF Inv, TypeInv, StoreTypeOK
  <2>2. low \in [known -> Nat] /\ got \in [{} -> Nat]
    BY <2>1
  <2>3. SumFunction(low) = AcceptedTotal
    BY DEF AcceptedTotal
  <2>4. SumFunction(got) = 0
    BY SumOfNone DEF SumFunction
  <2>5. \A k \in known : low[k] <= Len(accepted'[k])
    BY <1>3, <2>1
  <2>6. /\ atCall'[t].known = known /\ atCall'[t].count = AcceptedTotal
        /\ answer'[t].keys = {} /\ answer'[t].count = 0
    BY <1>4, <1>5 DEF NoAnswer
  <2> HIDE DEF low, got
  <2> QED
    BY <2>2, <2>3, <2>4, <2>5, <2>6 DEF Bracketed
<1> QED
  BY <1>6, <1>7

\* get_stats adds a series it has locked: all that is stored under its key.
LEMMA AddBrackets ==
  ASSUME Inv, ReportTypeOK, NEW t \in Threads, IsFiniteSet(answer[t].keys),
         VisitsOnce(t), Bracketed(t), AddStats(t)
  PROVE  Bracketed(t)'
<1> DEFINE key == call[t].key
           keys == answer[t].keys
           count == PointCount(series[key])
<1>1. /\ pc[t] = "iter_body" /\ call[t].op = "get_stats" /\ key \in Keys /\ key \notin keys
      /\ UNCHANGED <<accepted, atCall, known>>
  BY DEF AddStats, Goto, Inv, TypeInv, Control, OnSeriesPCs, VisitsOnce, InHand, IterPCs, history,
         store
<1>2. count = Len(accepted[key]) /\ count \in Nat
  <2>1. key \in ReadSeries(t)
    BY <1>1 DEF ReadSeries
  <2>2. \A u \in Threads : ~Unpushed(u, key)
    BY <2>1, ReadAlone DEF Unpushed, HandlingPCs
  <2>3. accepted[key] \in Seq(Point)
    BY <1>1 DEF Inv, TypeInv, StoreTypeOK
  <2> QED
    BY <1>1, <2>2, <2>3, CountsAccepted, LenProperties
<1>3. answer'[t].keys = keys \cup {key} /\ answer'[t].count = answer[t].count + count
  <2>1. answer[t] \in Report /\ DOMAIN answer = Threads
    BY DEF ReportTypeOK
  <2> QED
    BY <2>1 DEF AddStats, Report
<1>4. PICK low \in [atCall[t].known -> Nat], got \in [keys -> Nat] :
        /\ SumFunction(low) = atCall[t].count
        /\ SumFunction(got) = answer[t].count
        /\ \A k \in atCall[t].known : low[k] <= Len(accepted[k])
        /\ \A k \in keys : got[k] <= Len(accepted[k])
        /\ \A k \in atCall[t].known \cap keys : low[k] <= got[k]
  BY DEF Bracketed
<1> DEFINE more == [k \in keys \cup {key} |-> IF k = key THEN count ELSE got[k]]
<1>5. /\ more \in [keys \cup {key} -> Nat] /\ more[key] = count
      /\ \A k \in keys : more[k] = got[k]
  BY <1>1, <1>2, <1>4
<1>6. SumFunction(more) = answer[t].count + count
  <2> HIDE DEF more, count, key, keys
  <2>1. IsFiniteSet(keys) /\ \A k \in keys : got[k] \in Int /\ more[k] = got[k]
    BY <1>5 DEF keys
  <2>2. SumFunctionOnSet(more, keys) = SumFunctionOnSet(got, keys)
    BY <2>1, SumSame
  <2>3. \A k \in keys \cup {key} : more[k] \in Int
    BY <1>5
  <2>4. SumFunctionOnSet(more, keys \cup {key}) = more[key] + SumFunctionOnSet(more, keys)
    BY <1>1, <2>1, <2>3, SumOfMore
  <2>5. DOMAIN more = keys \cup {key} /\ DOMAIN got = keys
    BY <1>5
  <2>6. SumFunctionOnSet(got, keys) = answer[t].count /\ SumFunctionOnSet(got, keys) \in Int
    BY <1>4, <2>1, <2>5, SumType DEF SumFunction
  <2>7. SumFunctionOnSet(more, keys \cup {key}) = answer[t].count + count
    BY <1>2, <1>5, <2>2, <2>4, <2>6
  <2> QED
    BY <2>5, <2>7 DEF SumFunction
<1>7. \A k \in keys \cup {key} : more[k] <= Len(accepted[k])
  <2> HIDE DEF more, count, key, keys
  <2> QED
    BY <1>2, <1>4, <1>5
<1>8. \A k \in atCall[t].known \cap (keys \cup {key}) : low[k] <= more[k]
  <2> HIDE DEF more, count, key, keys
  <2> QED
    BY <1>2, <1>4, <1>5
<1>9. atCall'[t] = atCall[t] /\ accepted' = accepted
  BY <1>1
<1> HIDE DEF more, count, key, keys
<1>10. /\ low \in [atCall'[t].known -> Nat] /\ more \in [answer'[t].keys -> Nat]
       /\ SumFunction(low) = atCall'[t].count
       /\ SumFunction(more) = answer'[t].count
       /\ \A k \in atCall'[t].known : low[k] <= Len(accepted'[k])
       /\ \A k \in answer'[t].keys : more[k] <= Len(accepted'[k])
       /\ \A k \in atCall'[t].known \cap answer'[t].keys : low[k] <= more[k]
  BY <1>3, <1>4, <1>5, <1>6, <1>7, <1>8, <1>9
<1> QED
  BY <1>10 DEF Bracketed

\* get_stats has visited each series at most once, and its count stays in the
\* bracket, whatever step its thread takes.
LEMMA OwnStats ==
  ASSUME Inv, TypeInv', WalkInv, ReportTypeOK, StatsInv, Grows, NEW t \in Threads, ThreadStep(t),
         call'[t].op = "get_stats"
  PROVE  VisitsOnce(t)' /\ Bracketed(t)'
<1> USE DEF Goto, store, history, walk
<1>1. /\ known \subseteq Keys /\ pc \in [Threads -> PCs] /\ call \in [Threads -> Call]
      /\ shard \in [Threads -> 0 .. NumShards] /\ todo \in [Threads -> SUBSET Keys]
      /\ answer[t] \in Report /\ atCall[t].known \subseteq Keys
      /\ DOMAIN answer = Threads /\ DOMAIN atCall = Threads
      /\ \A k \in Keys : ShardOf[k] \in Nat
      /\ NumShards \in Nat /\ shard[t] \in Nat
      /\ TypeInv
  BY ShardsAssumption DEF Inv, TypeInv, StoreTypeOK, ReportTypeOK
<1>2. CASE CallWalk(t)
  BY <1>2, BeginStats
<1>3. ~(CallInsert(t) \/ CallScan(t) \/ CallGetSeries(t) \/ CallLen(t) \/ Return(t))
  <2>1. ASSUME NEW c, NEW to, Begin(t, c, to) PROVE call'[t] = c
    BY <1>1, <2>1 DEF Begin
  <2>2. ~CallInsert(t)
    BY <2>1 DEF CallInsert, NoCall
  <2>3. ~CallScan(t)
    BY <2>1 DEF CallScan, NoCall
  <2>4. ~CallGetSeries(t) /\ ~CallLen(t)
    BY <2>1 DEF CallGetSeries, CallLen, NoCall
  <2>5. ~Return(t)
    BY <1>1 DEF Return, NoCall
  <2> QED
    BY <2>2, <2>3, <2>4, <2>5
<1>4. ASSUME ~CallWalk(t)
      PROVE  /\ call[t].op = "get_stats"
             /\ WalkOK(t) /\ VisitsOnce(t) /\ Bracketed(t)
             /\ answer[t].keys \subseteq known /\ todo[t] \cup InHand(t) \subseteq known
             /\ IsFiniteSet(answer[t].keys)
  <2>1. call'[t].op = call[t].op
    <3>1. CASE VisitSeries(t) \/ UnlockVisited(t)
      BY <1>1, <3>1 DEF VisitSeries, UnlockVisited, Call
    <3>2. CASE ~(VisitSeries(t) \/ UnlockVisited(t))
      BY <1>1, <1>3, <1>4, <3>2, ThreadStepCases, SeriesStepWrites DEF MoveStep, LockEntry,
         LockEntrySeries, UnlockInsert, LockShardToRead, LockSeriesToRead, ReadSeriesData,
         UnlockRead, NextShard, VisitKey, LockVisited, AddStats, EndWalk, LenShard, EndLen
    <3> QED
      BY <3>1, <3>2
  <2>2. call[t].op = "get_stats" /\ WalkOK(t) /\ VisitsOnce(t) /\ Bracketed(t) /\ IsFiniteSet(known)
    BY <2>1 DEF WalkInv, StatsInv, Collecting
  <2> QED
    BY <2>2, FS_Subset DEF WalkOK
<1>5. ASSUME ~CallWalk(t)
      PROVE  \/ NextShard(t) \/ VisitSeries(t) \/ LockVisited(t) \/ AddStats(t)
             \/ UnlockVisited(t) \/ EndWalk(t) \/ LenShard(t) \/ EndLen(t)
  <2>1. call[t].op = "get_stats" /\ pc[t] \in IterPCs \cup {"len_next", "done"}
    BY <1>4, <1>5 DEF WalkOK
  <2>2. ~(LockEntry(t) \/ LockEntrySeries(t) \/ UnlockInsert(t) \/ LockShardToRead(t)
          \/ LockSeriesToRead(t) \/ ReadSeriesData(t) \/ UnlockRead(t) \/ VisitKey(t))
    BY <2>1 DEF LockEntry, LockEntrySeries, UnlockInsert, LockShardToRead,
         LockSeriesToRead, ReadSeriesData, UnlockRead, VisitKey, IterPCs
  <2>3. ~SeriesStep(t)
    BY <2>1 DEF SeriesStep, AppendCurrent, TakeRejecting, SealIfExpired, PushSealed, OpenBlock,
         IterPCs
  <2> QED
    BY <1>3, <1>5, <2>2, <2>3, ThreadStepCases DEF MoveStep
<1>6. ASSUME ~CallWalk(t), ~AddStats(t) PROVE Bracketed(t)'
  <2>1. atCall' = atCall /\ answer'[t].keys = answer[t].keys /\ answer'[t].count = answer[t].count
    <3>1. CASE LenShard(t)
      BY <1>1, <3>1 DEF LenShard, Report
    <3>2. CASE ~LenShard(t)
      BY <1>5, <1>6, <3>2 DEF NextShard, VisitSeries, LockVisited, UnlockVisited, EndWalk, EndLen
    <3> QED
      BY <3>1, <3>2
  <2> QED
    BY <1>1, <1>4, <1>6, <2>1, BracketedStays
<1>7. ASSUME ~CallWalk(t), pc'[t] \in IterPCs PROVE VisitsOnce(t)'
  <2>1. VisitsOnce(t) /\ answer[t].keys \subseteq known
    BY <1>4, <1>7
  <2>2. CASE NextShard(t)
    <3>1. /\ pc[t] = "iter_next" /\ pc'[t] = "iter_next" /\ todo[t] = {}
          /\ shard'[t] = shard[t] + 1 /\ todo'[t] = KeysIn(shard[t] + 1)
          /\ answer' = answer
      BY <1>1, <2>2 DEF NextShard
    <3>2. \A k \in answer[t].keys : ShardOf[k] \in Nat /\ ShardOf[k] <= shard[t]
      BY <1>1, <2>1, <3>1 DEF VisitsOnce, IterPCs
    <3>3. \A k \in KeysIn(shard[t] + 1) : ShardOf[k] = shard[t] + 1
      BY DEF KeysIn
    <3>4. \A k \in answer[t].keys : ShardOf[k] # shard[t] + 1 /\ ShardOf[k] <= shard[t] + 1
      BY <1>1, <3>2
    <3> QED
      BY <3>1, <3>3, <3>4 DEF VisitsOnce, InHand
  <2>3. CASE VisitSeries(t)
    <3>1. PICK k \in todo[t] : todo' = [todo EXCEPT ![t] = @ \ {k}] /\ call' = [call EXCEPT ![t].key = k]
      BY <2>3 DEF VisitSeries
    <3>2. /\ pc[t] = "iter_next" /\ pc'[t] = "iter_storage" /\ todo'[t] = todo[t] \ {k}
          /\ call'[t].key = k /\ shard' = shard /\ answer' = answer
      BY <1>1, <2>3, <3>1 DEF VisitSeries, Call
    <3> QED
      BY <2>1, <3>2 DEF VisitsOnce, InHand, IterPCs
  <2>4. CASE LockVisited(t)
    BY <1>1, <2>1, <2>4 DEF LockVisited, VisitsOnce, InHand, IterPCs
  <2>5. CASE AddStats(t)
    <3>1. /\ pc[t] = "iter_body" /\ pc'[t] = "iter_unlock"
          /\ answer'[t].keys = answer[t].keys \cup {call[t].key}
          /\ shard' = shard /\ todo' = todo
      BY <1>1, <2>5 DEF AddStats, Report
    <3>2. ShardOf[call[t].key] = shard[t] /\ call[t].key \notin todo[t]
      BY <2>1, <3>1 DEF VisitsOnce, InHand, IterPCs
    <3> QED
      BY <1>1, <2>1, <3>1, <3>2 DEF VisitsOnce, InHand, IterPCs
  <2>6. CASE UnlockVisited(t)
    <3>1. pc[t] = "iter_unlock" /\ pc'[t] = "iter_next" /\ UNCHANGED <<answer, shard, todo>>
      BY <1>1, <2>6 DEF UnlockVisited
    <3> QED
      BY <2>1, <3>1 DEF VisitsOnce, InHand, IterPCs
  <2> QED
    BY <1>1, <1>5, <1>7, <2>2, <2>3, <2>4, <2>5, <2>6 DEF EndWalk, LenShard, EndLen, IterPCs
<1>8. ASSUME AddStats(t), ~CallWalk(t) PROVE Bracketed(t)'
  BY <1>4, <1>8, AddBrackets
<1>9. pc'[t] \notin IterPCs => VisitsOnce(t)'
  BY DEF VisitsOnce
<1> QED
  BY <1>2, <1>6, <1>7, <1>8, <1>9

\* Every step keeps what get_stats has counted in its bracket.
LEMMA NextStats ==
  Inv /\ WalkInv /\ ReportTypeOK /\ StatsInv /\ [Next]_vars => StatsInv'
<1> SUFFICES ASSUME Inv, WalkInv, ReportTypeOK, StatsInv, [Next]_vars PROVE StatsInv'
  OBVIOUS
<1>1. TypeInv /\ TypeInv'
  BY NextInv DEF Inv
<1>2. ASSUME NEW t \in Threads, ThreadStep(t) PROVE StatsInv'
  <2>1. Grows
    BY <1>2, StepGrows
  <2>2. ASSUME NEW u \in Threads \ {t}, call'[u].op = "get_stats"
        PROVE  VisitsOnce(u)' /\ Bracketed(u)'
    <3>1. /\ pc'[u] = pc[u] /\ call'[u] = call[u] /\ answer'[u] = answer[u]
          /\ atCall'[u] = atCall[u] /\ shard'[u] = shard[u] /\ todo'[u] = todo[u]
      BY <1>1, <1>2, StepLocks, OthersWalk
    <3>2. VisitsOnce(u) /\ Bracketed(u)
      BY <2>2, <3>1 DEF StatsInv
    <3>3. VisitsOnce(u)'
      BY <3>1, <3>2 DEF VisitsOnce, InHand
    <3>4. atCall[u].known \cup answer[u].keys \subseteq Keys
      BY DEF ReportTypeOK, Report
    <3>5. Bracketed(u)'
      BY <1>1, <2>1, <3>1, <3>2, <3>4, BracketedStays
    <3> QED
      BY <3>3, <3>5
  <2>3. call'[t].op = "get_stats" => VisitsOnce(t)' /\ Bracketed(t)'
    BY <1>1, <1>2, <2>1, OwnStats
  <2> QED
    BY <2>2, <2>3 DEF StatsInv
<1>3. CASE UNCHANGED vars
  <2>1. UNCHANGED <<pc, call, answer, atCall, shard, todo, accepted>>
    BY <1>3 DEF vars, history, walk
  <2>2. ASSUME NEW t \in Threads, VisitsOnce(t) PROVE VisitsOnce(t)'
    BY <2>1, <2>2 DEF VisitsOnce, InHand
  <2>3. ASSUME NEW t \in Threads, Bracketed(t) PROVE Bracketed(t)'
    BY <2>1, <2>3 DEF Bracketed
  <2> QED
    BY <2>1, <2>2, <2>3 DEF StatsInv
<1> QED
  BY <1>2, <1>3 DEF Next

\* A count in its bracket, once every key of the bracket was visited.
LEMMA BracketHolds ==
  ASSUME Inv, WalkInv, NEW t \in Threads, Bracketed(t), WalkOK(t), pc[t] = "done"
  PROVE  atCall[t].count <= answer[t].count /\ answer[t].count <= AcceptedTotal
<1> DEFINE before == atCall[t].known
           keys == answer[t].keys
           lengths == [k \in known |-> Len(accepted[k])]
<1>1. PICK low \in [before -> Nat], got \in [keys -> Nat] :
        /\ SumFunction(low) = atCall[t].count
        /\ SumFunction(got) = answer[t].count
        /\ \A k \in before : low[k] <= Len(accepted[k])
        /\ \A k \in keys : got[k] <= Len(accepted[k])
        /\ \A k \in before \cap keys : low[k] <= got[k]
  BY DEF Bracketed
<1>2. /\ before \subseteq keys /\ keys \subseteq known /\ known \subseteq Keys
      /\ IsFiniteSet(known)
  BY DEF WalkInv, WalkOK, Inv, TypeInv, StoreTypeOK
<1>3. IsFiniteSet(keys) /\ IsFiniteSet(before)
  BY <1>2, FS_Subset
<1>4. \A k \in known : lengths[k] = Len(accepted[k]) /\ lengths[k] \in Nat
  BY <1>2, LenProperties DEF Inv, TypeInv, StoreTypeOK
<1>5. AcceptedTotal = SumFunctionOnSet(lengths, known)
  BY DEF AcceptedTotal, SumFunction
<1>6. /\ atCall[t].count = SumFunctionOnSet(low, before)
      /\ answer[t].count = SumFunctionOnSet(got, keys)
  BY <1>1 DEF SumFunction
<1> HIDE DEF before, keys, lengths
<1>7. SumFunctionOnSet(low, before) <= SumFunctionOnSet(got, before)
  <2>1. \A k \in before : low[k] \in Int /\ got[k] \in Int /\ low[k] <= got[k]
    BY <1>1, <1>2
  <2> QED
    BY <1>3, <2>1, SumGrows
<1>8. SumFunctionOnSet(got, before) <= SumFunctionOnSet(got, keys)
  BY <1>1, <1>2, <1>3, SumOfPart
<1>9. SumFunctionOnSet(got, keys) <= SumFunctionOnSet(lengths, keys)
  <2>1. \A k \in keys : got[k] \in Int /\ lengths[k] \in Int /\ got[k] <= lengths[k]
    BY <1>1, <1>2, <1>4
  <2> QED
    BY <1>3, <2>1, SumGrows
<1>10. SumFunctionOnSet(lengths, keys) <= SumFunctionOnSet(lengths, known)
  BY <1>2, <1>4, SumOfPart
<1>11. /\ SumFunctionOnSet(low, before) \in Nat /\ SumFunctionOnSet(got, before) \in Nat
       /\ SumFunctionOnSet(got, keys) \in Nat /\ SumFunctionOnSet(lengths, keys) \in Nat
       /\ SumFunctionOnSet(lengths, known) \in Nat
  <2>1. \A k \in before : low[k] \in Nat /\ got[k] \in Nat
    BY <1>1, <1>2
  <2>2. \A k \in keys : got[k] \in Nat /\ lengths[k] \in Nat
    BY <1>1, <1>2, <1>4
  <2>3. SumFunctionOnSet(low, before) \in Nat /\ SumFunctionOnSet(got, before) \in Nat
    BY <1>3, <2>1, SumType
  <2>4. SumFunctionOnSet(got, keys) \in Nat /\ SumFunctionOnSet(lengths, keys) \in Nat
    BY <1>3, <2>2, SumType
  <2>5. SumFunctionOnSet(lengths, known) \in Nat
    BY <1>2, <1>4, SumType
  <2> QED
    BY <2>3, <2>4, <2>5
<1> QED
  BY <1>5, <1>6, <1>7, <1>8, <1>9, <1>10, <1>11

\* get_stats adds the series up one after the other while inserts and sealing
\* walks go on, and what it reports is no snapshot of the map; but it never
\* counts fewer points than were stored when it was called, nor more than are
\* stored when it returns (memory.rs get_stats).
THEOREM StatsAreBracketed == Spec => []StatsBracketed
<1>1. Init => StatsInv
  BY DEF Init, StatsInv, NoCall
<1>2. Init => ReportTypeOK
  BY EmptySeq DEF Init, ReportTypeOK, Report, NoAnswer, NothingAtCall
<1>3. Inv /\ WalkInv /\ [Next]_vars => WalkInv'
  BY NextWalk DEF Inv
<1>4. Inv /\ WalkInv /\ StatsInv => StatsBracketed
  BY BracketHolds DEF StatsInv, StatsBracketed, WalkInv, Collecting
<1> QED
  BY <1>1, <1>2, <1>3, <1>4, InitInv, NextInv, InitWalk, NextReport, NextStats, PTL DEF Spec
=============================================================================
