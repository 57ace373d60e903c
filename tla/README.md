# A verification of the Gorilla-inspired time series database

TLA+ modules for the parts of the database that carry its logic, TLC runs that
check them on small instances, and TLAPS proofs of the properties of the core.
Source paths below are relative to the repository (`storage/src/memory.rs`).

## The system

| Part | State | Operations | Modelled in |
|---|---|---|---|
| `TSMap` (`storage/src/memory.rs`) | a DashMap of keys to series; a reader-writer lock per shard and per series | `insert`, `scan_range`, `get_series`, `keys`, `len`, `get_stats`, `seal_expired_blocks` | `TSMap` |
| `TimeSeriesStorage`, `TimeSeriesBlock` (`memory.rs`, `block.rs`) | sealed blocks, at most one open block of points | `insert_point`, `seal_current_block`, `seal_if_expired`, `scan_range`, `compress` | `SeriesStorage`, used by `TSMap` |
| `WriteAheadLog` (`wal.rs`) | an append-only file, `entry_count` | `create`, `append`, `replay`, `truncate`, `sync` | `WriteAheadLog` |
| codecs (`compression/src`) | last timestamp and delta; last value and window; bit streams | `compress`, `decompress`, bit reader and writer | `BitStream`, `TimestampCodec`, `ValueCodec` |
| block stream (`block.rs compress`) | the stream of one block | compress a block; read it back | `BlockCodec` |
| `TimeSeries` (`tsdb-core/src/data_model.rs`) | a copy of a series | `new`, `add_point`, `seal_current_block`, `point_count` | `TimeSeries` |
| `QueryEngine` (`query/src/engine.rs`) | none of its own | `execute`, `execute_multi`; `list_keys`, `get_storage_stats` pass a call on | `QueryEngine`, over `PointStore` |
| aggregation (`query/src/aggregation.rs`) | the loop of one call | `aggregate_points`, `downsample_points` | `Aggregation` |
| server (`src/bin/server.rs`) | the map, shared by two tasks; a timer | ingestion, a cleanup task every 60 s, two reports, two queries | `Server`, over `QueryEngine` |

`replication`, `shard-manager` and `tools` are empty crates, and much of what
the repository's README lists (checkpointing, object storage, correlation,
percentiles) has no code. They have no module here. The write-ahead log has
code and tests, but the server neither writes nor replays it, so `TSMap` and
`WriteAheadLog` are not composed.

How the parts interact: the server's ingestion, its cleanup task and its
queries share one `TSMap`; a query is a `scan_range` whose answer is then
thinned out and aggregated, with nothing locked. Sealing a block runs the two compressors.
`get_series` hands out a `TimeSeries`, a copy its holder may change.

What is hard in it: inserts, walks and the sealing task interleave on two
levels of locks; a block is taken out of its series before its compressed form
is put back; points come in any order; arithmetic on timestamps wraps; a log
record is written in pieces; bit fields are cut to their width; the loop over
windows may never end; several queries, or a query and a report, meet a store
that changes between them. `PROJECT.json` lists these hazards at their lines, with the properties that cover them.

What makes each part correct: no accepted point is lost, doubled or put out of
order, and a block keeps to its two hours (storage); every call takes effect at
one moment between its beginning and its end, walks miss nothing that was there
and every call returns (map); what was acknowledged is replayed, what was
truncated is not (log); what was compressed is decompressed (codecs); every
point a series takes is handed out once (`TimeSeries`); windows partition the
points they are given, a call of several queries answers all of them or fails
with the error of the first that does, and returns (queries); reports count every point and sweeps seal all that is due (server).

## The modules

**`SeriesStorage`** is the sequential data type: blocks, `can_accept`, sealing,
`compress`, range scan, counts. A compressed block's stream is abstracted to
the points it has a record for, all but the first; `BlockCodec` models the bits.
A scan answers a sequence of points in the order of timestamps, those of one
timestamp in the order they came, as the stable sort of `scan_range` leaves them.

**`TSMap`** runs its operators under the locks. Every call is a sequence of
steps of a thread, `pc[t]` says where it is:

| pc | code |
|---|---|
| `insert_shard`, `insert_storage` | waiting in `entry(key)`, then in `write()` (memory.rs 27-31) |
| `insert_body` | `insert_point`: append, or take the open block (124-131) |
| `insert_push` | the rest of `seal_current_block` (142-148) |
| `insert_new` | the new block (133-137) |
| `read_shard`, `read_storage`, `read_body` | `series.get`, `read()`, then `scan_range` or `to_time_series` |
| `iter_next`, `iter_storage`, `iter_body`, `iter_push` | DashMap's iterator in `keys`, `get_stats`, `seal_expired_blocks` |
| `len_next` | `len`, also at the end of `get_stats` (86) |

`insert_unlock`, `read_unlock` and `iter_unlock` are the ends of the scopes. The
guards are scoped values, so who holds which lock is a function of `pc`
(`WriteShards`, `ReadShards`, `WriteSeries`, `ReadSeries`), and no variable can
disagree with the code. DashMap's and parking_lot's locks are external: a
writer excludes everyone, readers exclude writers, and `WriterPreference` says
whether a writer that waits keeps new readers out (parking_lot does, DashMap's
own lock does not, which makes the setting a worst case). DashMap's iterator
holds one shard until it has locked the next; its `len` locks one at a time.
`accepted`, `cuts` and `atCall` are history variables: no action reads them but
`Fresh`, which gives each insert a new value.

Integer arithmetic is that of the release build: `NewBlock` wraps at `Modulus`.

**`PointStore`** is what callers may rely on, without locks, shards or blocks:
each call takes effect in one step. A scan sees the recent points of a series,
archived ones are counted only. Its answer to a scan is described (the places in range, in
an order in which each place comes after those of smaller timestamps and the earlier ones of its own), where
`SeriesStorage` computes it by ranks: the refinement shows that the two agree.
**`TSMapRefinement`** maps `TSMap` to it: while a
thread has a block in hand, that block's points are still recent.

**`WriteAheadLog`**: the file is a sequence of cells, each a piece of one
entry's record. `append` writes cell by cell and can fail, or the process or the
machine can stop, between any two. `disk` is what `sync_all` has secured; after
a power failure the file is that, or that with any part of what was written
since, and a truncation not synced may be undone. A reader that takes the cells of a
torn record for a prefix or an entry may find any length up to `MaxLength`, fail to decode,
or decode an entry nobody wrote. Writes that reach the disk out of order within
the unsynced part are not modelled.

**`BitStream`, `TimestampCodec`, `ValueCodec`** translate the codecs bit by bit;
widths are constants. **`BlockCodec`** writes the stream of one block and reads
it back with the two decompressors. The repository has no block reader, so ours
is external: it starts from what a `CompressedBlock` stores, assumes some first
value, which is not stored, and reads until `InsufficientData`. Timestamps of one block are
less than a block apart, so the differences do not overflow and the 32-bit field
holds them; in the instance they are below 4097 and the field has 15 bits.

**`TimeSeries`**: a new series, or a copy made by `to_time_series`. A copy
without an open block ignores the points added to it, without an answer, and so
does a series after an empty seal (data_model.rs 42-55). `PointsHandedOnce` speaks
of the points the series has taken.

**`Aggregation`** is a state machine of the loop in `aggregate_points`, one step
per window (`NextWindow`), between a call (`BeginWindows`) and its answer
(`TakeWindows`); `window_end` wraps at `Modulus`. `Downsample` is
`downsample_points`: the places kept are written down instead of stepped to.
Values are integers and NaN, averages are pairs, the standard deviation is kept
as its square: rounding is left out. `WindowsSpec` is also a contract: the caller
hands over points in the order of timestamps (`BeginSorted`).

**`QueryEngine`** runs a client's calls over `PointStore`, each call of which is
one step, while another thread inserts and blocks are sealed at any moment. A
query is checked (`RejectQuery`), scans (`CallScan`, `AnswerScan`), and is
answered with raw points (`AnswerPoints`) or goes through the steps of
`Aggregation` (`StartWindows` to `AnswerWindows`). `Deliver` and `Fail` are the two
ways on from a query of `execute_multi`; `execute` is a call with one query.
`asked` and `scanned` are history variables.

**`Server`** adds the two tasks and two times to it. `elapsed` is the monotonic time
of tokio's timer; the system's time, which main and `should_seal` read, may be set
forward and back, so each reading is any time of `Clock`. `task` says where main is:
`ingest` (simulate_data_ingestion), `count` and `recount` (the two reports, one
step per series, as `get_stats` locks one at a time), `list`, `raw`, `average`
(demo_queries). A `sweep` of the cleanup task visits the series one by one and
asks for the system's time anew for each; its fields `before` and `earliest` are history. tokio's timer fires at once and makes up for ticks
it missed (its default); when main returns, the process ends, a sweep in
progress excepted.

The `MC` modules hold the values of constants that a `.cfg` cannot write.
Operators whose comment begins "Faulty variant" are not part of the model: each
is a plausible bug that the property named in `PROJECT.json` detects.

One thing the variants showed: an `insert` holds its shard for writing as long
as its series, so its series lock protects nothing the shard lock does not. The
lock that carries the properties is the one `seal_expired_blocks` takes on each
series, because the walk holds the shard only for reading; a walk that let go of
it between the take and the push breaks `StableUnderRead`, `StatsBracketed` and
`ImplementsPointStore`.

## The runs

| cfg | instance | result |
|---|---|---|
| `TSMapStore` | one thread inserts, one inserts, scans and copies, the sealing task; one key, 3 points at 4, 5 and 6, blocks of 2, 64 bits shrunk to 8 values | types; `ArrivalPartition`; `BlockSpan`; `ScanSeesUnsealed`; `StableUnderRead`; `TSMap` implements `PointStore` |
| `TSMapWalks` | ingestion, sealing, `keys`, `get_stats`, `len` over two shards, writers preferred | `StatsBracketed`, `WalkMissesNoKey`; `CallsReturn` under fairness |
| `WalRecovery` | 3 entries, 2 stops, records of 4 cells | the log's five properties |
| `CodecBlock` | 3 points, 8 timestamps around the limits of the fields, all words of 2 bits, all assumed first values | frame; timestamps right until the first misfit; errors of values are the first value's |
| `TimeSeriesSeal` | 5 points, 4 seals, new and copied series | `PointsHandedOnce` |
| `QueryEngine` | 13 queries (raw, thinned to 0 and 2, every aggregation, thinned sums, windows of 1, 2 and 3) and 5 pairs of queries, while 3 points arrive at 1, 2 or 5 in any order | partition and roll-up of the windows; all results or the first error; thinning, and every point left counted once; a later query finds no less; `Aggregation`'s contract is kept; queries return under fairness |
| `Server` | 2 metrics, 3 batches, system times 2, 4 and 6 in any order, blocks of 2, sweeps every 1 of the timer, up to 1 | reports exact; the average is of the points shown, or of none; sweeps seal what was due; the server ends under fairness |

Five runs show where the code does not do what a comment, a test or the README
says. Each checks that one statement and TLC answers with a trace:

| cfg | what it shows |
|---|---|
| `TSMapRange` | a sealed block's range ends at the last point to arrive, not at the latest |
| `TSMapScanComplete` | a point leaves the answers of range queries when its block is sealed |
| `WalLostAppend` | an append behind a torn record is answered `Ok` and never replayed: replay stops with `Err` at the torn one |
| `CodecRoundTrip` | changes of delta of -63 to -1, 256 and 2048 are decoded wrong |
| `QueryHangs` | a query with windows of size 0, or whose end wraps, is accepted and never answered |

Three more disagreements have no run of their own:

- The first value of a block is stored nowhere: `compress` writes the points from the second on
  (block.rs 64), and `CompressedBlock` has a field for the first timestamp only (data_model.rs 19-24).
  By `ValuesOffByFirst` no value a reader decodes is right unless it guesses that one, while a comment
  of `scan_range` (memory.rs 181) means to decompress the block and filter its points.
- The window of the value codec starts as 0 and 0 (value.rs 14), which every difference fits
  (value.rs 34), so the branch that narrows it is never taken, and every value that changes costs 66
  bits, one bit's change too. The repository's README (line 125) promises "2-8x compression depending
  on data patterns" of values; `ChangesCostWords` below proves that there is none, in any block, but for a value that is
  repeated.
- `add_point` drops a point without an answer if a series has no open block (data_model.rs 43): after
  a seal that took an empty one, and in a copy of a series without one.

More things the models show. An aggregation over a range without points is answered with raw
points (engine.rs 88), which the server logs as unexpected (server.rs 128): it
does so whenever a sweep falls between its two queries and seals the metric.
`with_max_points(0)` answers one point, and because the step is rounded up,
thinning 21 points to 20 leaves 11 (aggregation.rs 99). A window whose end wraps
need not hang: it may also push windows that hold the same points again, which is
why `WindowsPartition` asks for `Proper` windows and `MaxWindows` bounds the loop.
In the debug build the same addition panics.

**Bounds.** Three points suffice for an append, an early seal and a new block to
meet on one key, with the sealing task in between; of the timestamps 4, 5 and 6
two fall into the block of the first, one is at the end of that block, and the
last one's block wraps (6 + 2 in 8); the clock answers before and after the
blocks' ends, in any order, as `SystemTime` may. Locks need
one writer, one sealing walk and one reading walk for every order of two locks
in two modes. Two stops let a crash fall into the use of a recovered log. Two
changes of delta (three points) reach every field from both sides, the second
after a delta that is not 0. Three points in the query runs
make a window with two points beside one with one, a gap that a window skips, a
thinning that drops one and, with negative values and NaN, a different answer of
every aggregation; two queries make every order of an insert, a seal and a scan.
The real times of the
server (blocks of 7200 s, queries over 300 s, averages over 60 s, points every 1 s)
are far apart; the instance keeps only that a step is less than a block and than a query's range, and
a window less than both, so that a run has points in several windows, points too late for the
open block, and sweeps before, between and after the queries. The timer fires once or twice; each reading of the
system's time is before or at the end of a block. `MaxStops`, `MaxSeals`, `MaxPoints`, `MaxWindows`,
`MaxElapsed`, `Arrivals` and the sizes of `Values`, `Entries` and `Points` are the
bounds; the guards name them. `TSMapStore` uses the symmetry of the values, and
the log and series runs that of the entries and points: nothing orders them.
`CHECK_DEADLOCK FALSE` stands where the system may stop: a block read to its
end, all points added and sealed, the server at its end, a loop over windows at
`MaxWindows`, and in `TSMapWalks`, where a thread that waits for ever is what
`CallsReturn` is about.

**Fairness.** It is weak everywhere: a thread with something to do is run by the
operating system, or by tokio's workers (`server.rs` 18-27), and a lock that
stays free is granted. For `CallsReturn` that is every thread with a call in
progress. Nothing is assumed of a lock that is taken again and again, so the
property speaks of the calls in progress once no new ones begin: a deadlock would
show, starvation by ever new readers would not, and the code does nothing against
the latter. For `QueriesReturn` and `AllQueriesReturn` it is the client's steps and
the answer to its scan, for `ServerEnds` the steps of main and of the cleanup task:
one step of `PointStore` stands for a call that returns, which is `CallsReturn`.
The timer's time passes in `Server` without fairness, and nothing there waits for it.
`QueriesReturn` excepts only calls that are in the loop over windows one of which is empty or ends
beyond 64 bits.

## What is proved

`TSMapProofs` proves, for any threads, keys, shards, timestamps, values, clock,
block duration and modulus, with the constants' assumptions only:

- `TypeCorrect`: the state keeps its types, and where a thread is in the code
  tells what its call carries.
- `ReadersSeeStableState`: `Spec => StableUnderRead`.
- `PointsArePartitioned`: `Spec => []ArrivalPartition`.
- `BlocksSpanTheirWindow`: `Spec => []BlockSpan`.

`ArrivalPartition` is not inductive. Which of two threads at work on a series
finds the open block in place depends on the locks, so the invariant adds
`Exclusive` (a thread that writes a series has it to itself); that a block which
is pushed has points, and that they are in its window, is `BlocksOK`; that a
thread which has a block in hand has the key of its call is `Control`. The
proof goes step by step: calls begin, threads move between locks, threads work
on a series; only the last kind touches points. The lemmas `KeyAppends` and
`KeyPushes` say what an append and a push do to the partition of one key, and
`AloneOnSeries` that no other thread holds a block of it. `BlockSpan` follows
from the same invariant with the span stated of the slices between two cuts:
the window of a block in hand becomes the span of the slice it is pushed as.
The wrap of a block's end needs no case of its own: a block whose end wrapped
accepts nothing, so it never holds a point.

Of the readers it proves `ScansFindUnsealed`: `Spec => []ScanSeesUnsealed`. A scan
waits twice for locks while others insert and seal, so the invariant `ScanInv`
says at each of its places what is known of the points stored when it was called:
they stay where they are in `accepted` (`Grows`), and once the answer is there, all
of them after the last cut are in it. When the series is read, the reader's lock
means that no thread has the block in hand (`Exclusive`), so the open block is
exactly what was stored after the last cut. That the sort keeps every point is
`SortKeepsPicked`: no two of the picked places have the same rank.

It also has `WalksMissNoKey`: `Spec => []WalkMissesNoKey`. Keys are never
taken from the map, so it is enough to follow a walk: what was in the map when the
call began, in the shards locked so far, is gathered, in hand or still to be visited
(`WalkOK`); and what the shards counted by `len` hold is at least what was gathered
from them (`LenCounts`). Who holds which lock is not needed.

Two more theorems follow there. `MapTypeCorrect` is `Spec => []TypeOK`, with
what the calls report: a scan's points are points, the keys collected are keys.
`StatsAreBracketed` is `Spec => []StatsBracketed`. For each series that `get_stats` has
added up, `StatsInv` keeps the number it was added with: no less than the series
had at the call, no more than it has now. The sums
over keys then compare term by term, and inserts that come later only raise the
upper one.

`SumProofs` has the lemmas on sums these proofs need. Induction over a finite set is
out of the provers' reach as a rule, so each claim is proved by taking a subset of the
least cardinality for which it fails (`Least`).

`TSMapRefinementProofs` proves `MapImplementsStore`: `Spec => ImplementsPointStore`.
`insert`, the reads and the sealing of a block each take effect in the one step that
touches the points under the series' lock (for a seal, the push), every other step
of a thread is a stutter of the store. The invariants say what a thread's place
means for the mapped request and answer (`OpOK`), that the block in hand is the tail
of what the store still holds as recent (`TakenOK`, `OpenOK`), and that the points of
a series lie in their blocks (`WindowsInv`). That the scan's ranks and the store's order are
the same arrangement is `SortedPlaces`. `NilRequestAssumption` says that the store's
"no request" is none of its requests.

`QueryEngineProofs` begins with the loop of `Aggregation` and proves, for any points in order,
window size and modulus:

- `WindowsPartitionPoints`: `WindowsSpec => []WindowsPartition`. The invariant says
  that the windows pushed partition the points before `current_window_start`.
- `WindowsRollUpToPoints`: `WindowsSpec => []WindowsRollUp`. `RollInv` says the same of
  the windows pushed and the points before `current_window_start`, with the values as
  sums, least, greatest, first and last of what the window covers; `PushRolls` adds a
  window to it. The empty fold of each aggregation (0, the infinities) is what lets
  `Min` and `Max` be compared window by window, and a NaN stays a NaN in the sum.
  `NumbersAssumption` says that the values are integers or NaN. The standard deviation
  does not roll up, and nothing is claimed of it.
- `EmptyWindowsHang`: with a window size of 0 the loop never returns; no bound on
  the windows is needed, since none is ever finished.
- `DownsampleEvenly`: the points kept are `Even`, for any number of points and any
  `max_points`, 0 included.

For the queries, with any batches and arrivals, it proves:

- `AnswersAllOrNone`: `Spec => []AllOrNothing`. The results are those of the first
  queries of the call and the batch holds the others (`AnsweredInOrder`), whatever the
  store and the loop answer. `ErrorInv` says that the error of a call that has failed is that of
  the query after the last that scanned (`NumberAtHand`), and that the key of a query that scanned
  is known to the store from then on, so that a later query is not told otherwise.
- `EngineTypeCorrect`: `Spec => []QueryTypeOK`, from `CallerInv`: what is asked of the
  store is the scan of the query at hand, what it answers is in the order of
  timestamps, and where the call is tells how many scans are done.
- `EngineKeepsContract`: `Spec => ImplementsWindows`. The loop is handed points in
  order only, those left after thinning included. This carries
  `WindowsPartitionPoints` and `WindowsRollUpToPoints` over to the queries:
  `EngineWindowsPartition`, `EngineRollsUp`.
- `EngineThinsEvenly`: `Spec => []ThinnedEvenly`, and `EngineCountsKept`: `Spec =>
  []CountsKeptPoints`: the counts sum to the number of points left after thinning, which is
  `max_points` at most. `ResultsInv` says of each result which points it was made of;
  that the counts of the windows sum to them is `CountsAddUp`, by
  `CountsInv` of the loop: the windows so far count what comes before
  `current_window_start`.
- `EngineFindsMore`: `Spec => []LaterFindsMore`. `LaterInv` follows a point from the scan
  that found it through the answer on its way to those that come after it: it stays in
  the store until it is sealed, and what is sealed does not come back.

All have the hypothesis that the thread that queries is not the one that
inserts. `EngineFindsMore` also needs `DistinctArrivals`, that no two inserts bring the same
point: the property compares points, and with equal ones a new point would pass for
one that was found and sealed. `NilAssumption` says that "none" is no error and no answer.

`ServerProofs` proves, for any metrics, batches, times, steps and durations:

- `ServerTypeCorrect`: `ServerSpec => []ServerTypeOK`.
- `ServerReportsExact`: `ServerSpec => []ReportsExact`.
- `ServerAverageOfShown`: `ServerSpec => []AverageOfShown`.
- `ServerSweepsDue`: `ServerSpec => SweepSealsDue`.

The invariant `ServerInv` has five parts. `QueryInv` is the invariant of
`QueryEngineProofs` for one thread that inserts first and queries afterwards: while it
inserts, its call on the store is an insert (`InsertOK`) and not a scan (`ScanOK`), which
is why the lemmas there speak of each step alone and not of `QueryEngine`'s `Next`.
`IngestInv` counts the points stored: as many as inserts have returned, and one more
once the one in progress has its answer. `ReportInv` says that what `get_stats` has added up and
what is stored of the series still to be visited make the whole, which a seal does not
change (`SealKeepsStored`). `ShowInv` says of every number of points on its way from a
scan to a result that it is the number there are in the range still (`Seen`) or, for the average, the
number shown or 0: between the two queries nothing is inserted, so that all a sweep can do to the
series is to empty its open block. `SweepInv` keeps for each series that
had an open block as the sweep began (`Dealt`) that it has been sealed once more, or that the same
block is still open and either to be visited or not expired by the earliest time the sweep was told; a
block that has expired by one time has by every later one, a key never loses a sealed block (`Advances`),
and nothing is assumed of the order in which the system's times are read.

The assumptions on the constants are what server.rs fixes: the metrics are distinct
literals (`MetricsAssumption`), there is a batch to load (`LoadAssumption`), and
times are milliseconds since 1970 as the clock shows them, so that five minutes less or two hours
more do not leave 64 bits (`FarFromEndAssumption`); `TimerAssumption` says that the bound on the
timer's time is a number;
`NoneAssumption` says that "none" is no sweep and nothing the second query asks for.

`WriteAheadLogProofs` proves, for any entries, lengths of prefix and entry, lengths
misread from a torn record, and number of crashes and power failures:

- `LogTypeCorrect`: `Spec => []TypeOK`.
- `TruncatedNeverReturns`: `Spec => []TruncatedStaysGone`. `GoneInv` says where a
  truncated entry may still be: until a sync follows, on the disk, from where a power
  failure brings it back; afterwards nowhere. What a reader takes for an entry is in
  the file or is nobody's (`DecodedFromFile`).
- `WholeFilesReplayed`: `Spec => []WholeFileReplaysExactly`. `ReadInv` says that a
  replay of a whole file is at the end of the records it has handed over. That the
  next one is read as what it is, whatever a torn one could be read as, is
  `WholeRead`; that there is a longest run of whole records is `IntactRecordsFound`,
  by the least number.
- `CountsAreReplayed`: `Spec => []CountedEntriesReplayed`, from `CountInv`: the file
  has room for the entries counted and the cells of the append in progress.
- `HeldAreReplayed`: `Spec => []HeldEntriesReplayed`, also of a file with torn records
  at its end. `PiecesInv` says that no piece of a record is in the file twice, since an
  entry is appended once. `HeldInv` keeps the held entries among the records
  the file begins with, in their order, and the secured ones among those of the disk: an append
  that began behind whole records makes one more of them (`CleanRecord`), later writes only
  continue the file (`RecordsContinue`), and what a power failure leaves begins with the
  disk wherever the file did (`ImageParts`). `HandedInv` says that a replay reads these
  records as what they are, that it cannot end before the last of them, and that what it makes
  of the rest is Garbage or an entry found behind them, so none of theirs
  (`HandedAtPlace`).

`BlockCodecProofs` proves, for any timestamps of one block, any words and number of points,
any width of a word and of its counts, and a widest field of 13 to 32 bits:

- `CodecTypeCorrect`: `Spec => []TypeOK`.
- `ReaderKeepsFrame`: `Spec => []ReaderInFrame`.
- `TimestampsUntilMisfit`: `Spec => []TimestampsRightUntilMisfit`.
- `ValuesShareError`: `Spec => []ValuesOffByFirst`.
- `BlockReadsBack`: a block without a misfit is read back as it was written, point by
  point, if the reader is given the first value. So the two things the runs find
  fault with, the misfits and the first value that is not stored, are all that is lost.
- `ChangesCostWords`: `Spec => []ChangesTakeWholeWords`, defined there: a value that changes takes a
  word and two bits, in every block.

`ReaderInFrame` is not inductive, since it says where the reader is and not what it finds there.
`StreamInv` describes the stream by its marks: between those of two points there is the prefix
of some field and room for its bits, and a value record that is a 0, or 1, 0 and the
difference of the two values as a whole word (`PointAt`); behind the last mark there are zeros.
A record once written stays what it is (`PointAtLonger`). That the value record has these two forms
only is `WriterInv`: the window is the whole word, so that every difference fits it (`ZeroCounts`,
`ValueWritten`). `ReaderInv` puts the reader at the mark of the last point it has read, with a window that is
the whole word too. No prefix of a field begins another (`FieldsDiffer`), so it finds the field
that was written whatever number it makes of its bits (`PointRead`), and the exclusive or of what
it has and of what it should have passes from value to value (`XorCancels`). Behind the last
point it reads zeros, one point for every two of them (`ZerosRead`).

What the timestamps are read as is on top of that. `TimestampInv` says that behind each mark
there are the bits which a compressor writes that has seen the points before, and that the reader's
state is that compressor's, up to the first misfit. The step from record to record is
`TimestampDecoded`, and under it is arithmetic: with `high(k)` what is left of a number above its
k lowest bits, each bit is a difference of two `high`s (`BitSplit`), so that their sum telescopes
and n bits read back as the number less what is above them (`UnsignedOfBits`); with a sign, a number that fits is
read as itself and the least one too many as the least (`SignedOfBits`). Field by field that gives exactly the
misfits (`FieldDecodes`). The provers have no law for powers of 2 but know the value of each,
which is why the widest field has at most the 32 bits that the code gives it
(`WideAssumption`). `SpanAssumption` says that the timestamps of a block are close enough for that
field: in the code they are less than `BLOCK_DURATION_MS` apart (7 200 000, below 2^23), which
`BlocksSpanTheirWindow` proves of the map, and the field holds 2^31.

`TimeSeriesProofs` proves `EachPointHandedOnce`: `Spec => []PointsHandedOnce`, for any points and
any number of seals. With the types it is inductive as it stands; what it takes are the laws of
`FlattenSeq`, which joins the answers by a recursive function: the recursion has a solution
(`JoinsSolved`) and only one (`JoinsAgree`), so that an answer more is joined at the end
(`FlattenAppend`). `NilAssumption` says that `None` is no block.

Only model-checked: `CallsReturn`, `QueriesReturn` and `ServerEnds`, since liveness is out
of TLAPS's reach. Every invariant and every other action or temporal property that the passing runs
check is proved.

## Not modelled

- `replication`, `shard-manager`, `tools`: empty crates.
- The demo client: one thread over a map of its own, with the calls the server
  makes; the error types, which have no behaviour.
- `is_empty`, `peek_bits`, `bit_count`, `point_count`, `compressed_size` of the
  statistics: they read and change nothing. `simulate_metric_value` and all logging.
- A loss of precision in floating-point sums and averages.
- The debug build, where the additions that wrap here panic, in `NewBlock` with the
  series' lock held.
- A `truncate` whose `seek` fails after `set_len` (wal.rs 107), which would leave `entry_count` as it
  was: the two are one step, since a seek in a regular file does not fail.
- The directory entry of a new log file, which the code never syncs: a power failure in the model
  leaves the file, be it empty.
- Where a block reader stops: the padding decodes as further points, and no code decides.
- Starvation by ever new readers, see Fairness; writes that reach the disk out of
  order.

## What could follow

In TLC: a block reader over `BlockCodec`, once the repository has one, in place of the empty
loop of `scan_range`; `BlockReadsBack` says what it may count on. In TLAPS: that a narrowed
window of the value codec would be read back too, should the code come to narrow it.
