----------------------------- MODULE QueryEngine -----------------------------
(***************************************************************************)
(* query/src/engine.rs: a client runs queries against a store that other   *)
(* threads insert into and that seals blocks meanwhile.                    *)
(*                                                                         *)
(* The store is PointStore, which TSMap implements: each of its calls is   *)
(* one step.  A query is a scan of the store, whose answer is thinned out  *)
(* and aggregated by the steps of Aggregation, with nothing locked; the    *)
(* queries of execute_multi run one after the other.  The engine keeps no  *)
(* state of its own, so that one client stands for any number: they meet   *)
(* in the store only.                                                      *)
(***************************************************************************)
EXTENDS Aggregation

CONSTANTS
  Keys,
  client,        (* the thread that runs queries                           *)
  ingest,        (* the thread that inserts                                *)
  Batches,       (* the sequences of queries the client may run            *)
  InsertKeys,    (* the keys that are inserted into                        *)
  Arrivals,      (* bound: what the value of each point inserted may be    *)
  BlockDuration,
  Clock,         (* what SystemTime::now may answer                        *)
  Nil            (* None                                                   *)

Threads == {client, ingest}

Query == [key         : Keys,
          start_time  : 0 .. Modulus - 1,
          end_time    : 0 .. Modulus - 1,
          aggregation : Aggregations \cup {Nil},
          window_size : (0 .. Modulus - 1) \cup {Nil},
          max_points  : Nat \cup {Nil}]

\* None is no error, and no answer to an insert.
ASSUME NilAssumption ==
  Nil \notin {"InvalidTimeRange", "InvalidQuery"} \cup [status : {"Ok", "InvalidTimeRange"}]
ASSUME BatchesAssumption == Batches \subseteq Seq(Query)
ASSUME ArrivalsAssumption == Arrivals \in Seq(SUBSET Values) /\ InsertKeys \subseteq Keys

VARIABLES
  known, recent, archived,   (* the store, see PointStore                  *)
  request, reply,
  at,        (* where the client is: "idle", "query", "scan", "windows",   *)
             (* "returned"                                                 *)
  batch,     (* its queries that have no result yet                        *)
  results,   (* the results it has gathered                                *)
  outcome,   (* the status of the call that returned, or Nil               *)
  asked,     (* history: the queries of the call                           *)
  scanned    (* history: what the scan of each query with a result found   *)

Store == INSTANCE PointStore WITH result <- reply

storeVars  == <<known, recent, archived, request, reply>>
clientVars == <<at, batch, results, outcome, asked, scanned>>
vars       == <<storeVars, clientVars, windowVars>>

-----------------------------------------------------------------------------
(* The store, and the threads that change it *)

\* The points stored of a key, and of all.
Stored(k) == Len(recent[k]) + SumFunction(archived[k])

Inserted == SumFunction([k \in known |-> Stored(k)])

\* insert is called with a point; the one call in progress is not stored yet.
CallInsert ==
  /\ Inserted < Len(Arrivals)
  /\ \E k \in InsertKeys, timestamp \in Timestamps, value \in Arrivals[Inserted + 1] :
       LET p == [timestamp |-> timestamp, value |-> value]
       IN  request' = [request EXCEPT ![ingest] = [op |-> "insert", key |-> k, point |-> p]]
  /\ Store!Invoke(ingest)
  /\ UNCHANGED <<clientVars, windowVars>>

StoreStep ==
  /\ \/ Store!Announce(ingest) \/ Store!Store(ingest) \/ Store!Return(ingest)
     \/ \E k \in Keys : Store!SealExpired(k)
  /\ UNCHANGED <<clientVars, windowVars>>

AnswerScan ==
  /\ Store!Scan(client) \/ Store!NotFound(client)
  /\ UNCHANGED <<clientVars, windowVars>>

-----------------------------------------------------------------------------
(* execute and execute_multi *)

\* A call with no query, which only execute_multi takes, returns at once.
Call(queries) ==
  /\ at = "idle"
  /\ batch' = queries
  /\ asked' = queries
  /\ \/ queries # <<>> /\ at' = "query" /\ UNCHANGED outcome
     \/ queries = <<>> /\ at' = "returned" /\ outcome' = "Ok"
  /\ UNCHANGED <<storeVars, windowVars, results, scanned>>

CallExecute == \E queries \in Batches : Call(queries)

\* Faulty variant: a window_size is not asked for.
InvalidRange(q) == IF q.start_time > q.end_time THEN "InvalidTimeRange" ELSE Nil

Invalid(q) ==
  CASE q.start_time > q.end_time -> "InvalidTimeRange"
    [] q.start_time <= q.end_time /\ q.aggregation # Nil /\ q.window_size = Nil -> "InvalidQuery"
    [] OTHER -> Nil

\* Faulty variant: a query that fails is passed over.
FailSkipping(status) ==
  /\ batch' = Tail(batch)
  /\ \/ Tail(batch) # <<>> /\ at' = "query" /\ UNCHANGED outcome
     \/ Tail(batch) = <<>> /\ at' = "returned" /\ outcome' = "Ok"
  /\ UNCHANGED <<results, asked, scanned>>

\* The "?" after a query: its error is the answer of the call, and the
\* results of the queries before it are dropped.
Fail(status) ==
  /\ at' = "returned"
  /\ outcome' = status
  /\ results' = <<>>
  /\ batch' = <<>>
  /\ UNCHANGED <<asked, scanned>>

\* A query has its result; the next one follows, if there is one.
Deliver(result) ==
  /\ results' = Append(results, [key |-> Head(batch).key, result |-> result])
  /\ batch' = Tail(batch)
  /\ \/ Tail(batch) # <<>> /\ at' = "query" /\ UNCHANGED outcome
     \/ Tail(batch) = <<>> /\ at' = "returned" /\ outcome' = "Ok"
  /\ UNCHANGED asked

RejectQuery ==
  /\ at = "query"
  /\ Invalid(Head(batch)) # Nil
  /\ Fail(Invalid(Head(batch)))
  /\ UNCHANGED <<storeVars, windowVars>>

CallScan ==
  LET q == Head(batch)
  IN  /\ at = "query"
      /\ Invalid(q) = Nil
      /\ request' = [request EXCEPT ![client] =
           [op |-> "scan_range", key |-> q.key, start |-> q.start_time, end |-> q.end_time]]
      /\ Store!Invoke(client)
      /\ at' = "scan"
      /\ UNCHANGED <<batch, results, outcome, asked, scanned, windowVars>>

ScanFailed ==
  /\ at = "scan"
  /\ Store!Return(client)
  /\ reply[client].status # "Ok"
  /\ Fail(reply[client].status)
  /\ UNCHANGED <<windowVars>>

\* The points of a query's scan, thinned out if it says so.
Thinned(q, ps) == IF q.max_points = Nil THEN ps ELSE Downsample(ps, q.max_points)

\* A scan that finds nothing is answered as raw points, whatever was asked.
AnswerPoints ==
  LET q == Head(batch)
      ps == reply[client].points
  IN  /\ at = "scan"
      /\ Store!Return(client)
      /\ reply[client].status = "Ok"
      /\ ps = <<>> \/ q.aggregation = Nil
      /\ Deliver([kind |-> "Points", points |-> IF ps = <<>> THEN ps ELSE Thinned(q, ps)])
      /\ scanned' = Append(scanned, ps)
      /\ UNCHANGED <<windowVars>>

\* Faulty variant: points are thinned out only to be shown, not aggregated.
StartWindowsUnthinned ==
  LET q == Head(batch)
      ps == reply[client].points
  IN  /\ at = "scan"
      /\ Store!Return(client)
      /\ reply[client].status = "Ok"
      /\ ps # <<>> /\ q.aggregation # Nil
      /\ BeginWindows(ps, q.aggregation, q.window_size)
      /\ at' = "windows"
      /\ scanned' = Append(scanned, ps)
      /\ UNCHANGED <<batch, results, outcome, asked>>

StartWindows ==
  LET q == Head(batch)
      ps == reply[client].points
  IN  /\ at = "scan"
      /\ Store!Return(client)
      /\ reply[client].status = "Ok"
      /\ ps # <<>> /\ q.aggregation # Nil
      /\ BeginWindows(Thinned(q, ps), q.aggregation, q.window_size)
      /\ at' = "windows"
      /\ scanned' = Append(scanned, ps)
      /\ UNCHANGED <<batch, results, outcome, asked>>

WindowStep ==
  /\ NextWindow \/ EndWindows
  /\ UNCHANGED <<storeVars, clientVars>>

AnswerWindows ==
  /\ at = "windows"
  /\ TakeWindows
  /\ Deliver([kind |-> "Aggregated", points |-> windows])
  /\ UNCHANGED <<scanned, storeVars>>

ReturnExecute ==
  /\ at = "returned"
  /\ at' = "idle"
  /\ results' = <<>>
  /\ outcome' = Nil
  /\ asked' = <<>>
  /\ scanned' = <<>>
  /\ UNCHANGED <<batch, storeVars, windowVars>>

-----------------------------------------------------------------------------

Init ==
  /\ Store!Init
  /\ WindowsInit
  /\ at = "idle"
  /\ batch = <<>>
  /\ results = <<>>
  /\ outcome = Nil
  /\ asked = <<>>
  /\ scanned = <<>>

\* The steps that run the queries of a call, up to its answer.
Execute ==
  \/ RejectQuery \/ CallScan \/ ScanFailed \/ AnswerPoints
  \/ StartWindows \/ WindowStep \/ AnswerWindows

Next == CallInsert \/ StoreStep \/ AnswerScan \/ CallExecute \/ Execute \/ ReturnExecute

Spec == Init /\ [][Next]_vars

\* The thread that runs a query is scheduled, and its scan gets the locks it
\* waits for (TSMap's CallsReturn).
FairSpec ==
  Spec /\ WF_vars(Execute) /\ WF_vars(ReturnExecute) /\ WF_vars(AnswerScan)

-----------------------------------------------------------------------------
(* Properties *)

\* A query that has reached its windows has a window_size, so that taking it
\* out of the query does not panic (engine.rs execute, "validated above").
QueryTypeOK ==
  /\ at \in {"idle", "query", "scan", "windows", "returned"}
  /\ batch \in Seq(Query) /\ asked \in Seq(Query)
  /\ outcome \in {Nil, "Ok", "InvalidTimeRange", "InvalidQuery", "KeyNotFound"}
  /\ Len(results) <= Len(scanned) /\ Len(scanned) <= Len(asked)
  /\ \A i \in DOMAIN scanned : scanned[i] \in Seq(Point)
  /\ stage # "idle" <=> at = "windows"
  /\ aggregation \in Aggregations /\ window_size \in 0 .. Modulus - 1

\* A call that succeeds has one result for each query, in their order, of the
\* key that was asked for.  A call that fails has the error of the first query
\* that fails: the ones before it were valid and have scanned, and what one of
\* them has found is not missing for a later one (engine.rs execute_multi).
AllOrNothing ==
  at = "returned" =>
    /\ \A i \in DOMAIN scanned : Invalid(asked[i]) = Nil
    /\ outcome = "Ok" =>
         /\ Len(results) = Len(asked)
         /\ \A i \in DOMAIN asked : results[i].key = asked[i].key
    /\ outcome # "Ok" =>
         LET failed == Len(scanned) + 1
         IN  /\ failed \in DOMAIN asked
             /\ outcome # "KeyNotFound" => Invalid(asked[failed]) = outcome
             /\ outcome = "KeyNotFound" =>
                  /\ Invalid(asked[failed]) = Nil
                  /\ \A i \in DOMAIN scanned : asked[i].key # asked[failed].key

\* An aggregation counts every point that is left of its scan, once: with
\* max_points no more than that, or one for 0, so that its sums and counts are
\* not those of the range (engine.rs execute: downsample_points comes before
\* aggregate_points).
CountsKeptPoints ==
  at = "returned" /\ outcome = "Ok" =>
    \A i \in DOMAIN results :
      LET total == SumFunction([w \in DOMAIN results[i].result.points |->
                                  results[i].result.points[w].count])
      IN  results[i].result.kind = "Aggregated" /\ Fits(scanned[i], asked[i].window_size) =>
            /\ total = Len(Thinned(asked[i], scanned[i]))
            /\ asked[i].max_points # Nil => total <= Max({1, asked[i].max_points})

\* Raw points that are thinned out are spread over the whole range: they are
\* more than half as many as asked for, a fixed number of points apart, and
\* no further from the end (engine.rs execute, aggregation.rs
\* downsample_points).
ThinnedEvenly ==
  at = "returned" /\ outcome = "Ok" =>
    \A i \in DOMAIN results :
      results[i].result.kind = "Points" /\ asked[i].max_points # Nil =>
        Even(scanned[i], results[i].result.points, asked[i].max_points)

\* The queries of a call are no snapshot, but time does not run backwards
\* from one to the next: a point that one has found, and that is not sealed
\* when the call returns, the later ones find (engine.rs execute_multi,
\* memory.rs scan_range).
LaterFindsMore ==
  at = "returned" =>
    \A i, j \in DOMAIN scanned :
      i < j /\ asked[i].key = asked[j].key =>
        \A p \in Range(scanned[i]) \cap Range(recent[asked[i].key]) :
          asked[j].start_time <= p.timestamp /\ p.timestamp <= asked[j].end_time =>
            p \in Range(scanned[j])

\* The points an aggregation is given are in the order of timestamps, which
\* is all that aggregate_points relies on (engine.rs execute, memory.rs
\* scan_range's sort).
ImplementsWindows == WindowsSpec

\* A query is answered, whatever is inserted and sealed meanwhile, unless it
\* cuts windows one of which is empty or ends beyond 64 bits (engine.rs
\* execute_multi, aggregation.rs aggregate_points).
QueriesReturn == at # "idle" ~> at = "idle" \/ (at = "windows" /\ ~Proper)

\* Claimed, and false: every query that validate accepts is answered.
AllQueriesReturn == at # "idle" ~> at = "idle"
=============================================================================
