------------------------------ MODULE PointStore ------------------------------
(***************************************************************************)
(* What the storage engine promises of one series to the threads that call *)
(* it, with no locks, shards or blocks: insert, scan_range and get_series  *)
(* each take effect in one step between the call and the answer, and so    *)
(* does the sealing of an expired block.                                   *)
(*                                                                         *)
(* The points of a series are recent until they are archived.  A scan sees *)
(* the recent ones only; the archived ones are counted, in batches.  TSMap *)
(* is shown to implement this module in TSMapRefinement.                   *)
(***************************************************************************)
EXTENDS Integers, Sequences, FiniteSets, Functions

CONSTANTS Keys, Threads, Timestamps, Values, BlockDuration, Modulus, Clock, Nil

Point == [timestamp : Timestamps, value : Values]

Request == [op : {"insert"}, key : Keys, point : Point]
             \cup [op : {"scan_range"}, key : Keys, start : 0 .. Modulus - 1, end : 0 .. Modulus - 1]
             \cup [op : {"get_series"}, key : Keys]

Result == [status : {"Ok", "InvalidTimeRange", "KeyNotFound"}]
            \cup [status : {"Ok"}, points : Seq(Point)]
            \cup [status : {"Ok"}, points : Seq(Point), batches : Nat, count : Nat]

VARIABLES
  known,     (* the keys a caller can find                                 *)
  recent,    (* the points of each key that scans see, in arrival order    *)
  archived,  (* the sizes of the batches of each key sealed so far         *)
  request,   (* each thread's request, or Nil                              *)
  result     (* the answer to it, or Nil                                   *)

vars == <<known, recent, archived, request, result>>

\* recent has room for a point at a timestamp: it lies in the window that
\* the first recent point opened.
InWindow(k, timestamp) ==
  /\ recent[k] # <<>>
  /\ recent[k][1].timestamp <= timestamp
  /\ timestamp < recent[k][1].timestamp + BlockDuration

\* A window must end before the clock does.
Representable(timestamp) == timestamp + BlockDuration < Modulus

Expired(k, now) == recent[k] # <<>> /\ recent[k][1].timestamp + BlockDuration <= now

\* What was recent of k is archived, and rest is recent instead.
Archive(k, rest) ==
  /\ recent' = [recent EXCEPT ![k] = rest]
  /\ archived' = [archived EXCEPT ![k] = IF recent[k] = <<>> THEN @ ELSE Append(@, Len(recent[k]))]

Answer(t, r) == result[t] = Nil /\ result' = [result EXCEPT ![t] = r]

\* Thread t makes the request r.  Invoke takes r from the next state instead
\* of choosing one, so that a checker of these actions need not try them all.
Requested(t, r) ==
  /\ request[t] = Nil
  /\ r \in Request
  /\ request' = [request EXCEPT ![t] = r]

Invoke(t) ==
  LET r == request'[t]
  IN  /\ Requested(t, r)
      /\ r.op = "scan_range" => r.start <= r.end
      /\ UNCHANGED <<known, recent, archived, result>>

\* A scan of an empty range is refused as it is made.
InvokeInvalid(t) ==
  LET r == request'[t]
  IN  /\ Requested(t, r)
      /\ r.op = "scan_range" /\ r.start > r.end
      /\ Answer(t, [status |-> "InvalidTimeRange"])
      /\ UNCHANGED <<known, recent, archived>>

\* The places of the points whose timestamp is in a range.
Places(points, start, end) ==
  {i \in DOMAIN points : start <= points[i].timestamp /\ points[i].timestamp <= end}

\* The points at the places picked, one after another as Before says.
Arranged(points, picked, Before(_, _)) ==
  {[n \in DOMAIN place |-> points[place[n]]] :
     place \in {f \in [1 .. Cardinality(picked) -> picked] :
                 \A m, n \in DOMAIN f : m < n => Before(f[m], f[n])}}

\* Faulty variants: the points are not sorted, or a timestamp keeps its last.
InArrivalOrder(points, start, end) ==
  Arranged(points, Places(points, start, end), LAMBDA i, j : i < j)

OnePerTimestamp(points, start, end) ==
  Arranged(points,
           {i \in Places(points, start, end) :
              \A j \in Places(points, start, end) : points[j].timestamp = points[i].timestamp => j <= i},
           LAMBDA i, j : points[i].timestamp < points[j].timestamp)

\* The answers to a scan, of which there is one: the points in the range by
\* timestamp, those of one timestamp in arrival order.
Chronological(points, start, end) ==
  Arranged(points, Places(points, start, end),
           LAMBDA i, j : \/ points[i].timestamp < points[j].timestamp
                         \/ points[i].timestamp = points[j].timestamp /\ i < j)

Requests(t, op) == request[t] # Nil /\ request[t].op = op /\ result[t] = Nil

\* The key appears in the map before its first point does.
Announce(t) ==
  /\ Requests(t, "insert")
  /\ known' = known \cup {request[t].key}
  /\ UNCHANGED <<recent, archived, request, result>>

Store(t) ==
  LET k == request[t].key
      p == request[t].point
  IN  /\ Requests(t, "insert")
      /\ k \in known
      /\ \/ /\ InWindow(k, p.timestamp)
            /\ recent' = [recent EXCEPT ![k] = Append(@, p)]
            /\ UNCHANGED archived
            /\ Answer(t, [status |-> "Ok"])
         \/ /\ ~InWindow(k, p.timestamp) /\ Representable(p.timestamp)
            /\ Archive(k, <<p>>)
            /\ Answer(t, [status |-> "Ok"])
         \/ /\ ~InWindow(k, p.timestamp) /\ ~Representable(p.timestamp)
            /\ Archive(k, <<>>)
            /\ Answer(t, [status |-> "InvalidTimeRange"])
      /\ UNCHANGED <<known, request>>

NotFound(t) ==
  /\ Requests(t, "scan_range") \/ Requests(t, "get_series")
  /\ request[t].key \notin known
  /\ Answer(t, [status |-> "KeyNotFound"])
  /\ UNCHANGED <<known, recent, archived, request>>

Scan(t) ==
  /\ Requests(t, "scan_range")
  /\ request[t].key \in known
  /\ \E points \in Chronological(recent[request[t].key], request[t].start, request[t].end) :
       Answer(t, [status |-> "Ok", points |-> points])
  /\ UNCHANGED <<known, recent, archived, request>>

Snapshot(t) ==
  /\ Requests(t, "get_series")
  /\ request[t].key \in known
  /\ Answer(t, [status |-> "Ok",
                points |-> recent[request[t].key],
                batches |-> Len(archived[request[t].key]),
                count |-> Len(recent[request[t].key]) + SumFunction(archived[request[t].key])])
  /\ UNCHANGED <<known, recent, archived, request>>

\* The sealing task archives what has expired, on its own account.
SealExpired(k) ==
  /\ \E now \in Clock : Expired(k, now)
  /\ Archive(k, <<>>)
  /\ UNCHANGED <<known, request, result>>

Return(t) ==
  /\ result[t] # Nil
  /\ request' = [request EXCEPT ![t] = Nil]
  /\ result' = [result EXCEPT ![t] = Nil]
  /\ UNCHANGED <<known, recent, archived>>

Init ==
  /\ known = {}
  /\ recent = [k \in Keys |-> <<>>]
  /\ archived = [k \in Keys |-> <<>>]
  /\ request = [t \in Threads |-> Nil]
  /\ result = [t \in Threads |-> Nil]

Next ==
  \/ \E t \in Threads :
       \/ Invoke(t) \/ InvokeInvalid(t) \/ Announce(t) \/ Store(t)
       \/ NotFound(t) \/ Scan(t) \/ Snapshot(t) \/ Return(t)
  \/ \E k \in Keys : SealExpired(k)

Spec == Init /\ [][Next]_vars
=============================================================================
