-------------------------------- MODULE Server --------------------------------
(***************************************************************************)
(* src/bin/server.rs: the main task loads a batch of points, one for each  *)
(* metric, every Step of time, reports on the store, runs two queries on   *)
(* a metric, reports again and ends the process.  The cleanup task seals   *)
(* expired blocks meanwhile, on a timer, in a thread of its own.           *)
(*                                                                         *)
(* There are two times.  The timer's is monotonic: elapsed.  The system's  *)
(* may be set forward and back, so that every reading of it, by main or by *)
(* should_seal, is any time of Clock.                                      *)
(*                                                                         *)
(* The queries are QueryEngine's, with client and ingest both the thread   *)
(* of main; the store is PointStore.  get_stats and seal_expired_blocks    *)
(* walk the map as in TSMap, one step per series.  The values inserted are *)
(* left open.                                                              *)
(***************************************************************************)
EXTENDS QueryEngine

CONSTANTS
  Metrics,       (* the keys, in the order of a batch                      *)
  MaxElapsed,    (* bound: the timer's time stops here                     *)
  Step,          (* between the timestamps of two batches                  *)
  Interval,      (* between two ticks of the cleanup task                  *)
  QueryRange,    (* how far the queries look back                          *)
  AverageWindow  (* the windows of the second one                          *)

ASSUME OneThreadAssumption == client = ingest
ASSUME MetricsAssumption ==
  Metrics \in Seq(Keys) /\ Metrics # <<>> /\ \A i, j \in DOMAIN Metrics : Metrics[i] = Metrics[j] => i = j
ASSUME LoadAssumption == Arrivals # <<>>

ASSUME TimerAssumption == MaxElapsed \in Nat

\* Times are milliseconds since 1970, far from either end of 64 bits.
ASSUME FarFromEndAssumption ==
  /\ QueryRange \in Nat /\ Clock \subseteq QueryRange .. Modulus - 1
  /\ BlockDuration \in Nat /\ AverageWindow \in 1 .. Modulus - 1
  /\ \A t \in Timestamps : t + BlockDuration < Modulus /\ t + AverageWindow < Modulus

\* None is nothing that the second query asks for, and no sweep.
ASSUME NoneAssumption ==
  /\ Nil # "Avg" /\ Nil # AverageWindow
  /\ Nil \notin [listed   : SUBSET Keys,
                 visited  : SUBSET Keys,
                 before   : UNION {[S -> Nat] : S \in SUBSET Keys},
                 earliest : Nat]

VARIABLES
  elapsed,      (* the timer's time                                        *)
  task,         (* what main is doing                                      *)
  start_time,   (* the timestamp of the first batch, or Nil                *)
  inserted,     (* the inserts that have returned                          *)
  uncounted,    (* the series get_stats has not visited                    *)
  total_points, (* of those it has                                         *)
  reports,      (* the stats it has reported                               *)
  queried,      (* the metric queried, and when: a record, or Nil          *)
  shown,        (* the results main has logged                             *)
  sweep,        (* the sweep of the cleanup task in progress, or Nil       *)
  next_tick     (* when the timer next fires                               *)

countVars == <<uncounted, total_points, reports>>
mainVars  == <<task, start_time, inserted, countVars, queried, shown>>
sweepVars == <<sweep, next_tick>>
allVars   == <<vars, mainVars, sweepVars, elapsed>>

-----------------------------------------------------------------------------
(* simulate_data_ingestion *)

ReadStartTime ==
  /\ task = "start"
  /\ task' = "ingest"
  /\ start_time' \in Clock
  /\ UNCHANGED <<vars, inserted, countVars, queried, shown, sweepVars, elapsed>>

InsertNext ==
  LET batch_number == inserted \div Len(Metrics)
  IN  /\ task = "ingest"
      /\ batch_number < Len(Arrivals)
      /\ \E value \in Arrivals[batch_number + 1] :
           request' = [request EXCEPT ![ingest] =
             [op    |-> "insert",
              key   |-> Metrics[(inserted % Len(Metrics)) + 1],
              point |-> [timestamp |-> start_time + batch_number * Step, value |-> value]]]
      /\ Store!Invoke(ingest)
      /\ UNCHANGED <<clientVars, windowVars, mainVars, sweepVars, elapsed>>

InsertStep ==
  /\ Store!Announce(ingest) \/ Store!Store(ingest)
  /\ UNCHANGED <<clientVars, windowVars, mainVars, sweepVars, elapsed>>

\* An error is logged, and the next point inserted.
InsertReturns ==
  /\ task = "ingest"
  /\ Store!Return(ingest)
  /\ inserted' = inserted + 1
  /\ UNCHANGED <<clientVars, windowVars, task, start_time, countVars, queried, shown, sweepVars, elapsed>>

-----------------------------------------------------------------------------
(* get_stats, after the ingestion and after the queries *)

StartCounting(from, to) ==
  /\ task = from
  /\ task' = to
  /\ uncounted' = known
  /\ total_points' = 0
  /\ UNCHANGED <<vars, start_time, inserted, reports, queried, shown, sweepVars, elapsed>>

IngestionDone == inserted = Len(Metrics) * Len(Arrivals) /\ StartCounting("ingest", "count")

\* Faulty variant: main returns after the queries.
EndAfterQueries ==
  /\ task = "queries_done"
  /\ task' = "ended"
  /\ UNCHANGED <<vars, start_time, inserted, countVars, queried, shown, sweepVars, elapsed>>

QueriesDone == StartCounting("queries_done", "recount")

\* Faulty variant: the points of the open block only are counted.
CountOpen(k) ==
  /\ k \in uncounted
  /\ uncounted' = uncounted \ {k}
  /\ total_points' = total_points + Len(recent[k])
  /\ UNCHANGED <<vars, task, start_time, inserted, reports, queried, shown, sweepVars, elapsed>>

CountSeries(k) ==
  /\ k \in uncounted
  /\ uncounted' = uncounted \ {k}
  /\ total_points' = total_points + Len(recent[k]) + SumFunction(archived[k])
  /\ UNCHANGED <<vars, task, start_time, inserted, reports, queried, shown, sweepVars, elapsed>>

\* The report, after the last of which main returns.
Report ==
  /\ uncounted = {}
  /\ \/ task = "count" /\ task' = "list"
     \/ task = "recount" /\ task' = "ended"
  /\ reports' = Append(reports, [series_count |-> Cardinality(known), total_points |-> total_points])
  /\ UNCHANGED <<vars, start_time, inserted, uncounted, total_points, queried, shown, sweepVars, elapsed>>

-----------------------------------------------------------------------------
(* demo_queries *)

\* The first of the keys listed, which are in no order; and the time.
ListKeys ==
  /\ task = "list"
  /\ task' = "raw"
  /\ \E k \in known, now \in Clock : queried' = [key |-> k, now |-> now]
  /\ UNCHANGED <<vars, start_time, inserted, countVars, shown, sweepVars, elapsed>>

RawQuery ==
  [key |-> queried.key, start_time |-> queried.now - QueryRange, end_time |-> queried.now,
   aggregation |-> Nil, window_size |-> Nil, max_points |-> Nil]

\* Faulty variants: the second query asks for the time anew, which is later,
\* or for windows of a fraction of a second, which is 0.
AverageQueryLater ==
  [RawQuery EXCEPT !.aggregation = "Avg", !.window_size = AverageWindow,
                   !.start_time = @ + 1, !.end_time = @ + 1]

AverageQueryBrief == [RawQuery EXCEPT !.aggregation = "Avg", !.window_size = 0]

AverageQuery == [RawQuery EXCEPT !.aggregation = "Avg", !.window_size = AverageWindow]

CallQuery ==
  /\ \/ task = "raw" /\ Call(<<RawQuery>>)
     \/ task = "average" /\ Call(<<AverageQuery>>)
  /\ UNCHANGED <<mainVars, sweepVars, elapsed>>

QueryStep ==
  /\ Execute \/ AnswerScan
  /\ UNCHANGED <<mainVars, sweepVars, elapsed>>

LogResult ==
  /\ \/ task = "raw" /\ task' = "average"
     \/ task = "average" /\ task' = "queries_done"
  /\ ReturnExecute
  /\ shown' = shown \o results
  /\ UNCHANGED <<start_time, inserted, countVars, queried, sweepVars, elapsed>>

-----------------------------------------------------------------------------
(* The cleanup task *)

\* The timer fires at once when main spawns the task.  A tick that was missed
\* fires as soon as the sweep before it is done.  before and earliest are
\* history: how often each series with an open block had been sealed, and the
\* earliest time that the sweep has been told, at first none.
Tick ==
  /\ sweep = Nil
  /\ task # "ended"
  /\ next_tick <= elapsed
  /\ next_tick' = next_tick + Interval
  /\ sweep' = [listed   |-> known,
               visited  |-> {},
               before   |-> [k \in {j \in known : recent[j] # <<>>} |-> Len(archived[k])],
               earliest |-> Modulus]
  /\ UNCHANGED <<vars, mainVars, elapsed>>

\* Each series with an open block is asked for the time anew.  A series that
\* entered the map after the walk began is visited or not.
SweepSeries(k) ==
  /\ sweep # Nil
  /\ k \in known \ sweep.visited
  /\ \E now \in Clock :
       /\ sweep' = [sweep EXCEPT !.visited  = @ \cup {k},
                                !.earliest = IF recent[k] # <<>> /\ now < @ THEN now ELSE @]
       /\ \/ Store!Expired(k, now) /\ Store!SealExpired(k)
          \/ ~Store!Expired(k, now) /\ UNCHANGED storeVars
  /\ UNCHANGED <<clientVars, windowVars, mainVars, next_tick, elapsed>>

\* Faulty variant: the sweep is over once it has sealed a block.
SweepEndEarly ==
  /\ sweep # Nil
  /\ sweep.visited # {}
  /\ sweep' = Nil
  /\ UNCHANGED <<vars, mainVars, next_tick, elapsed>>

SweepEnd ==
  /\ sweep # Nil
  /\ sweep.listed \subseteq sweep.visited
  /\ sweep' = Nil
  /\ UNCHANGED <<vars, mainVars, next_tick, elapsed>>

PassTime ==
  /\ elapsed < MaxElapsed
  /\ elapsed' = elapsed + 1
  /\ UNCHANGED <<vars, mainVars, sweepVars>>

-----------------------------------------------------------------------------

ServerInit ==
  /\ Init
  /\ elapsed = 0
  /\ task = "start"
  /\ start_time = Nil
  /\ inserted = 0
  /\ uncounted = {}
  /\ total_points = 0
  /\ reports = <<>>
  /\ queried = Nil
  /\ shown = <<>>
  /\ sweep = Nil
  /\ next_tick = 0

Main ==
  \/ ReadStartTime \/ InsertNext \/ InsertStep \/ InsertReturns
  \/ IngestionDone \/ (\E k \in Keys : CountSeries(k)) \/ Report
  \/ ListKeys \/ CallQuery \/ QueryStep \/ LogResult \/ QueriesDone

Cleanup == Tick \/ (\E k \in Keys : SweepSeries(k)) \/ SweepEnd

ServerNext == Main \/ Cleanup \/ PassTime

\* Both tasks have a thread of the runtime, which gets the locks it waits for.
ServerSpec ==
  ServerInit /\ [][ServerNext]_allVars /\ WF_allVars(Main) /\ WF_allVars(Cleanup)

-----------------------------------------------------------------------------
(* Properties *)

\* The state is well formed; main reports twice and logs two results.
ServerTypeOK ==
  /\ QueryTypeOK
  /\ elapsed \in 0 .. MaxElapsed
  /\ task \in {"start", "ingest", "count", "list", "raw", "average", "queries_done", "recount", "ended"}
  /\ inserted \in 0 .. Len(Metrics) * Len(Arrivals)
  /\ uncounted \subseteq known /\ known \subseteq Range(Metrics)
  /\ task = "ended" => Len(reports) = 2 /\ Len(shown) = 2
  /\ sweep # Nil => sweep.listed \cup sweep.visited \subseteq known

\* Both reports count every point that was inserted, although the cleanup
\* task moves points out of the open blocks while the series are added up
\* (server.rs main, memory.rs get_stats).
ReportsExact ==
  \A r \in DOMAIN reports :
    /\ reports[r].series_count = Len(Metrics)
    /\ reports[r].total_points = inserted

\* The average is over the points that were shown just before, or, when the
\* cleanup task has sealed them in between, over none: never over some of
\* them or over others (server.rs demo_queries).
AverageOfShown ==
  Len(shown) = 2 =>
    LET averaged == shown[2].result
        count == SumFunction([w \in DOMAIN averaged.points |-> averaged.points[w].count])
    IN  \/ averaged.kind = "Aggregated" /\ count = Len(shown[1].result.points)
        \/ averaged.kind = "Points" /\ averaged.points = <<>>

\* When a sweep ends, every block that was open as it began is sealed, by
\* whomever, or had not expired at one of the times the sweep was told,
\* wherever the system's time has jumped meanwhile (server.rs main,
\* memory.rs seal_expired_blocks, block.rs should_seal).
SweepSealsDue ==
  [][sweep # Nil /\ sweep' = Nil =>
       \A k \in DOMAIN sweep.before :
         Len(archived[k]) > sweep.before[k] \/ ~Store!Expired(k, sweep.earliest)]_allVars

\* The server ends, and no sweep stays unfinished (server.rs main).
ServerEnds == <>[](task = "ended" /\ sweep = Nil)
=============================================================================
