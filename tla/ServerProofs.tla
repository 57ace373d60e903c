----------------------------- MODULE ServerProofs -----------------------------
(***************************************************************************)
(* The server of Server, for any metrics, batches, times and durations:    *)
(* its state keeps its types, both reports count every point inserted, the *)
(* average is over the points shown, and a sweep seals what was due.       *)
(*                                                                         *)
(* The invariant has one part for the queries, which QueryEngineProofs     *)
(* carries over to a thread that inserts first and then queries, and one   *)
(* each for the ingestion, the reports, the results shown and the sweep.   *)
(***************************************************************************)
EXTENDS Server, QueryEngineProofs

Tasks == {"start", "ingest", "count", "list", "raw", "average", "queries_done", "recount", "ended"}

\* The inserts of the whole ingestion.
All == Len(Metrics) * Len(Arrivals)

-----------------------------------------------------------------------------
(* The invariant *)

\* What QueryEngineProofs says of the queries, whoever inserts.
QueriesKept ==
  BatchInv /\ ScannedOK /\ PlaceOK /\ WindowsInv /\ CountsInv /\ ResultsInv

\* Outside of the ingestion the calls on the store are those of the queries,
\* and there is a query at two places only.
QueryInv ==
  /\ StoreTyped /\ CountsTyped /\ QueriesKept
  /\ task # "ingest" => ScanOK
  /\ task \notin {"raw", "average"} => at = "idle"

\* The insert in progress is the next one.
InsertOK ==
  /\ request[ingest] = Nil => reply[ingest] = Nil
  /\ request[ingest] # Nil =>
       /\ request[ingest].op = "insert" /\ inserted < All
       /\ request[ingest].key = Metrics[(inserted % Len(Metrics)) + 1]
  /\ reply[ingest] # Nil => request[ingest].key \in known

\* Every insert that has returned, and the one about to, has stored a point.
IngestInv ==
  /\ task \in Tasks
  /\ inserted \in 0 .. All
  /\ task \notin {"start", "ingest"} => inserted = All
  /\ task = "ingest" => InsertOK
  /\ known \subseteq Range(Metrics)
  /\ \A i \in DOMAIN Metrics : i <= inserted => Metrics[i] \in known
  /\ Inserted = inserted + (IF task = "ingest" /\ reply[ingest] # Nil THEN 1 ELSE 0)

\* The points stored of the keys in S.
StoredOf(S) == SumFunctionOnSet([k \in S |-> Stored(k)], S)

FullReport == [series_count |-> Len(Metrics), total_points |-> All]

\* What get_stats has added up and what it has yet to visit is all there is.
ReportInv ==
  /\ reports \in Seq({FullReport})
  /\ task \in {"start", "ingest", "count"} => Len(reports) = 0
  /\ task \in {"list", "raw", "average", "queries_done", "recount"} => Len(reports) = 1
  /\ task = "ended" => Len(reports) = 2
  /\ uncounted \subseteq known
  /\ task \notin {"count", "recount"} => uncounted = {}
  /\ task \in {"count", "recount"} => total_points \in Nat /\ total_points + StoredOf(uncounted) = All

\* The places of the points that the queries ask for.
Asked == Store!Places(recent[queried.key], queried.now - QueryRange, queried.now)

\* n points were found, which are those still to be found if any is.
Seen(n) == recent[queried.key] = <<>> \/ n = Cardinality(Asked)

\* n is a number of points that the query at hand may have found.
Finds(n) ==
  \/ task = "raw" /\ Seen(n)
  \/ task = "average" /\ (n = 0 \/ n = Len(shown[1].result.points))

TheQuery == IF task = "raw" THEN RawQuery ELSE AverageQuery

ShowInv ==
  /\ \E S : shown \in Seq(S)
  /\ task \in {"start", "ingest", "count", "list", "raw"} => Len(shown) = 0
  /\ task = "average" => Len(shown) = 1 /\ Seen(Len(shown[1].result.points))
  /\ task \in {"queries_done", "recount", "ended"} => Len(shown) = 2
  /\ AverageOfShown
  /\ task \in {"raw", "average"} =>
       /\ queried.key \in known /\ queried.now \in Clock
       /\ at # "idle" => asked = <<TheQuery>>
       /\ at = "returned" => outcome = "Ok"
       /\ reply[client] # Nil => reply[client].status = "Ok" /\ Finds(Len(reply[client].points))
       /\ \A i \in DOMAIN scanned : Finds(Len(scanned[i]))

Sweep == [listed   : SUBSET Keys,
          visited  : SUBSET Keys,
          before   : UNION {[S -> Nat] : S \in SUBSET Keys},
          earliest : Nat]

\* A block that was open as the sweep began is sealed, or it is still the open
\* one and, if the sweep has visited it, had not expired at the earliest time.
Dealt(k) ==
  \/ Len(archived[k]) > sweep.before[k]
  \/ /\ Len(archived[k]) = sweep.before[k] /\ recent[k] # <<>>
     /\ k \in sweep.visited => ~Store!Expired(k, sweep.earliest)

SweepInv ==
  /\ elapsed \in 0 .. MaxElapsed
  /\ sweep # Nil =>
       /\ sweep \in Sweep
       /\ sweep.listed \subseteq known /\ sweep.visited \subseteq known
       /\ DOMAIN sweep.before \subseteq sweep.listed
       /\ \A k \in DOMAIN sweep.before : Dealt(k)

ServerInv == QueryInv /\ IngestInv /\ ReportInv /\ ShowInv /\ SweepInv

-----------------------------------------------------------------------------
(* The beginning, and what the other parts are kept by *)

\* The one thread of main.
LEMMA OneThread == client \in Threads /\ ingest = client
BY OneThreadAssumption DEF Threads

\* The batches, counted out.
LEMMA BatchesCounted ==
  /\ Len(Metrics) \in Nat \ {0} /\ DOMAIN Metrics = 1 .. Len(Metrics)
  /\ All \in Nat /\ Len(Metrics) <= All
  /\ \A n \in Nat : /\ n \div Len(Metrics) < Len(Arrivals) => n < All
                    /\ (n % Len(Metrics)) + 1 \in DOMAIN Metrics
                    /\ n < Len(Metrics) => n % Len(Metrics) = n
<1> DEFINE l == Len(Metrics)
           a == Len(Arrivals)
<1>1. l \in Nat \ {0} /\ DOMAIN Metrics = 1 .. l
  <2>1. Metrics \in Seq(Keys) /\ Metrics # <<>>
    BY MetricsAssumption
  <2> QED
    BY <2>1, EmptySeq, LenProperties
<1>2. a \in Nat \ {0}
  <2>1. Arrivals \in Seq(SUBSET Values) /\ Arrivals # <<>>
    BY ArrivalsAssumption, LoadAssumption
  <2> QED
    BY <2>1, EmptySeq, LenProperties
<1>3. All = l * a
  BY DEF All
<1> HIDE DEF l, a
<1>4. l * a \in Nat /\ l <= l * a
  BY <1>1, <1>2
<1>5. ASSUME NEW n \in Nat
      PROVE  /\ n \div l < a => n < l * a
             /\ (n % l) + 1 \in 1 .. l
             /\ n < l => n % l = n
  <2>1. n = l * (n \div l) + (n % l) /\ n % l \in 0 .. l - 1 /\ n \div l \in Nat
    BY <1>1
  <2>2. ASSUME n \div l < a PROVE n < l * a
    <3> DEFINE d == n \div l
    <3>1. d \in Nat /\ d + 1 <= a /\ n < l * d + l
      BY <1>1, <1>2, <2>1, <2>2
    <3> HIDE DEF d
    <3>2. l * (d + 1) <= l * a
      BY <1>1, <1>2, <3>1
    <3>3. l * (d + 1) = l * d + l
      BY <1>1, <3>1
    <3> QED
      BY <1>1, <1>2, <3>1, <3>2, <3>3
  <2> QED
    BY <1>1, <2>1, <2>2
<1> QED
  BY <1>1, <1>3, <1>4, <1>5 DEF l, a

LEMMA InitServer == ServerInit => ServerInv
<1> SUFFICES ASSUME ServerInit PROVE ServerInv
  OBVIOUS
<1>1. Init /\ elapsed = 0 /\ task = "start" /\ inserted = 0 /\ uncounted = {} /\ reports = <<>>
      /\ shown = <<>> /\ sweep = Nil
  BY DEF ServerInit
<1>2. EngineInv /\ CountsTyped /\ Inserted = 0 /\ known = {} /\ at = "idle"
  BY <1>1, InitEngine, InitCounts DEF Init, Store!Init
<1>3. QueryInv
  BY <1>1, <1>2 DEF EngineInv, CallerInv, QueryInv, QueriesKept
<1>4. IngestInv
  BY <1>1, <1>2, BatchesCounted DEF IngestInv, Tasks
<1>5. ReportInv
  BY <1>1, EmptySeq DEF ReportInv
<1>6. ShowInv
  BY <1>1, EmptySeq DEF ShowInv, AverageOfShown
<1>7. SweepInv
  BY <1>1, TimerAssumption DEF SweepInv
<1> QED
  BY <1>3, <1>4, <1>5, <1>6, <1>7 DEF ServerInv

\* The queries at rest.
LEMMA QueriesAtRest ==
  ASSUME QueriesKept, UNCHANGED <<clientVars, windowVars>>
  PROVE  QueriesKept'
<1>1. UNCHANGED windowVars /\ UNCHANGED clientVars
  OBVIOUS
<1>2. BatchInv'
  BY <1>1 DEF clientVars, QueriesKept, BatchInv, AnsweredInOrder, AllAnswered
<1>3. ScannedOK' /\ PlaceOK'
  BY <1>1 DEF clientVars, windowVars, QueriesKept, ScannedOK, PlaceOK
<1>4. WindowsInv' /\ CountsInv'
  BY <1>1, NextKeepsInv, NextKeepsCounts DEF QueriesKept
<1>5. ResultsInv'
  BY <1>1 DEF clientVars, windowVars, QueriesKept, ResultsInv, InHand, ResultOf, Thinned, Fits, Total
<1> QED
  BY <1>2, <1>3, <1>4, <1>5 DEF QueriesKept

\* Outside of the ingestion, the invariant of the queries is that of
\* QueryEngineProofs.
LEMMA QueriesOfEngine ==
  ASSUME QueryInv, task # "ingest"
  PROVE  EngineInv
BY DEF QueryInv, QueriesKept, EngineInv, CallerInv

LEMMA StoreAtRest ==
  ASSUME StoreTyped, CountsTyped, UNCHANGED storeVars
  PROVE  StoreTyped' /\ CountsTyped' /\ Inserted' = Inserted
BY DEF storeVars, StoreTyped, CountsTyped, Inserted, Stored

-----------------------------------------------------------------------------
(* The ingestion *)

LEMMA InsertNextKeeps ==
  ASSUME ServerInv, InsertNext
  PROVE  QueryInv' /\ IngestInv'
<1> USE OneThread DEF ServerInv
<1>1. /\ task = "ingest" /\ inserted \div Len(Metrics) < Len(Arrivals)
      /\ Store!Invoke(ingest) /\ UNCHANGED <<clientVars, windowVars>>
      /\ UNCHANGED <<task, inserted>>
  BY DEF InsertNext, mainVars
<1>2. PICK p : request' = [request EXCEPT ![ingest] =
                 [op |-> "insert", key |-> Metrics[(inserted % Len(Metrics)) + 1], point |-> p]]
  BY DEF InsertNext
<1>3. StoreTyped /\ StoreTyped' /\ UNCHANGED <<known, recent, archived, reply>> /\ request[ingest] = Nil
  BY <1>1, StoreCallTypes DEF QueryInv, StoreCall, Store!Invoke, Store!Requested
<1>4. CountsTyped' /\ Inserted' = Inserted
  BY <1>3 DEF QueryInv, CountsTyped, Inserted, Stored
<1>5. QueryInv'
  BY <1>1, <1>3, <1>4, QueriesAtRest DEF QueryInv, clientVars
<1>6. reply[ingest] = Nil /\ inserted < All
  BY <1>1, <1>3, BatchesCounted DEF IngestInv, InsertOK
<1>7. /\ request'[ingest].op = "insert"
      /\ request'[ingest].key = Metrics[(inserted % Len(Metrics)) + 1]
  BY <1>2, <1>3 DEF StoreTyped
<1>8. InsertOK'
  BY <1>1, <1>3, <1>6, <1>7 DEF InsertOK
<1> QED
  BY <1>1, <1>3, <1>4, <1>5, <1>8 DEF IngestInv

\* A call to insert is made in the ingestion only.
LEMMA InsertsIngest ==
  ASSUME QueryInv, Store!Requests(ingest, "insert")
  PROVE  task = "ingest"
<1>1. request[ingest] # Nil /\ request[ingest].op = "insert"
  BY DEF Store!Requests
<1> SUFFICES ASSUME task # "ingest" PROVE FALSE
  OBVIOUS
<1>2. request[ingest] = ScanOf(Head(batch))
  BY <1>1, OneThread DEF QueryInv, ScanOK
<1> QED
  BY <1>1, <1>2 DEF ScanOf

LEMMA AnnounceKeeps ==
  ASSUME ServerInv, Store!Announce(ingest), UNCHANGED <<clientVars, windowVars, task, inserted>>
  PROVE  QueryInv' /\ IngestInv' /\ task = "ingest"
<1> USE OneThread DEF ServerInv
<1>1. /\ task = "ingest" /\ request[ingest] # Nil /\ reply[ingest] = Nil
      /\ UNCHANGED <<recent, archived, request, reply>>
      /\ known' = known \cup {request[ingest].key}
  BY InsertsIngest DEF Store!Announce, Store!Requests
<1>2. StoreTyped' /\ CountsTyped' /\ Inserted' = Inserted
  BY StoreCallTypes, AnnounceCounts DEF QueryInv, StoreCall, NothingNew
<1>3. QueryInv'
  BY <1>1, <1>2, QueriesAtRest DEF QueryInv, clientVars
<1>4. request[ingest].key \in Range(Metrics)
  <2>1. request[ingest].key = Metrics[(inserted % Len(Metrics)) + 1] /\ inserted \in Nat
    BY <1>1, BatchesCounted DEF IngestInv, InsertOK
  <2> QED
    BY <2>1, BatchesCounted DEF Range
<1>5. InsertOK'
  BY <1>1 DEF IngestInv, InsertOK
<1> QED
  BY <1>1, <1>2, <1>3, <1>4, <1>5 DEF IngestInv

LEMMA StoreKeeps ==
  ASSUME ServerInv, Store!Store(ingest), UNCHANGED <<clientVars, windowVars, task, inserted>>
  PROVE  QueryInv' /\ IngestInv' /\ task = "ingest"
<1> USE OneThread DEF ServerInv
<1>1. /\ task = "ingest" /\ request[ingest] # Nil /\ reply[ingest] = Nil
      /\ request[ingest].op = "insert" /\ request[ingest].key \in known
      /\ UNCHANGED <<known, request>>
  BY InsertsIngest DEF Store!Store, Store!Requests
<1>2. StoreTyped /\ StoreTyped' /\ CountsTyped' /\ Inserted' = Inserted + 1
  <2>1. StoreTyped /\ CountsTyped /\ StoreTyped'
    BY StoreCallTypes DEF QueryInv, StoreCall
  <2>2. Store!Representable(request[ingest].point.timestamp)
    <3>1. request[ingest] \in Store!Request
      BY <1>1, <2>1 DEF StoreTyped
    <3>2. request[ingest].point.timestamp \in Timestamps
      BY <1>1, <3>1 DEF Store!Request, Store!Point
    <3> QED
      BY <3>2, FarFromEndAssumption DEF Store!Representable
  <2> QED
    BY <2>1, <2>2, StoreCounts DEF OneNew
<1>3. reply'[ingest] # Nil
  <2>1. \E status \in {"Ok", "InvalidTimeRange"} : reply' = [reply EXCEPT ![ingest] = [status |-> status]]
    BY DEF Store!Store, Store!Answer
  <2> QED
    BY <1>2, <2>1, NilAssumption DEF StoreTyped
<1>4. QueryInv'
  BY <1>1, <1>2, QueriesAtRest DEF QueryInv, clientVars
<1>5. InsertOK'
  BY <1>1 DEF IngestInv, InsertOK
<1>6. inserted \in Nat /\ Inserted = inserted
  BY <1>1, BatchesCounted DEF IngestInv
<1> QED
  BY <1>1, <1>2, <1>3, <1>4, <1>5, <1>6 DEF IngestInv

LEMMA InsertReturnsKeeps ==
  ASSUME ServerInv, InsertReturns
  PROVE  QueryInv' /\ IngestInv'
<1> USE OneThread DEF ServerInv
<1>1. /\ task = "ingest" /\ task' = task /\ inserted' = inserted + 1 /\ reply[ingest] # Nil
      /\ Store!Return(ingest) /\ UNCHANGED <<clientVars, windowVars>>
      /\ UNCHANGED <<known, recent, archived>>
  BY DEF InsertReturns, Store!Return
<1>2. StoreTyped' /\ request'[ingest] = Nil /\ reply'[ingest] = Nil
  BY <1>1, StoreCallTypes DEF QueryInv, StoreCall, StoreTyped, Store!Return
<1>3. CountsTyped' /\ Inserted' = Inserted
  BY <1>1 DEF QueryInv, CountsTyped, Inserted, Stored
<1>4. QueryInv'
  BY <1>1, <1>2, <1>3, QueriesAtRest DEF QueryInv, clientVars
<1>5. /\ inserted \in Nat /\ inserted < All /\ Inserted = inserted + 1
      /\ Metrics[(inserted % Len(Metrics)) + 1] \in known
  <2>1. InsertOK /\ inserted \in 0 .. All /\ Inserted = inserted + 1
    BY <1>1 DEF IngestInv
  <2>2. request[ingest] # Nil
    BY <1>1, <2>1 DEF InsertOK
  <2>3. /\ inserted < All /\ request[ingest].key \in known
        /\ request[ingest].key = Metrics[(inserted % Len(Metrics)) + 1]
    BY <1>1, <2>1, <2>2 DEF InsertOK
  <2> QED
    BY <2>1, <2>3, BatchesCounted
<1>6. ASSUME NEW i \in DOMAIN Metrics, i <= inserted + 1 PROVE Metrics[i] \in known
  <2>1. CASE i <= inserted
    BY <2>1 DEF IngestInv
  <2>2. CASE ~(i <= inserted)
    <3>1. i = inserted + 1 /\ inserted < Len(Metrics)
      <4>1. i \in 1 .. Len(Metrics) /\ Len(Metrics) \in Nat
        BY BatchesCounted
      <4> QED
        BY <1>5, <1>6, <2>2, <4>1
    <3>2. inserted % Len(Metrics) = inserted
      BY <1>5, <3>1, BatchesCounted
    <3> QED
      BY <1>5, <3>1, <3>2
  <2> QED
    BY <2>1, <2>2
<1>7. InsertOK' /\ inserted + 1 \in 0 .. All
  BY <1>2, <1>5, BatchesCounted DEF InsertOK
<1> QED
  BY <1>1, <1>2, <1>3, <1>4, <1>5, <1>6, <1>7 DEF IngestInv

\* Meanwhile nothing is reported or shown.
LEMMA IngestionShowsNothing ==
  ASSUME ReportInv, ShowInv, task = "ingest", UNCHANGED <<task, uncounted, reports, shown>>
  PROVE  ReportInv' /\ ShowInv'
<1>1. ReportInv'
  BY DEF ReportInv
<1>2. ShowInv'
  BY DEF ShowInv, AverageOfShown
<1> QED
  BY <1>1, <1>2

-----------------------------------------------------------------------------
(* The sealing of a block *)

LEMMA SealKeepsStored ==
  ASSUME StoreTyped, CountsTyped, NEW k \in Keys, Store!SealExpired(k)
  PROVE  /\ UNCHANGED <<known, request, reply>>
         /\ \A j \in Keys : Stored(j)' = Stored(j)
         /\ \A j \in Keys : recent'[j] = <<>> \/ recent'[j] = recent[j]
<1>1. Store!Archive(k, <<>>) /\ UNCHANGED <<known, request, reply>>
  BY DEF Store!SealExpired
<1>2. <<>> \in Seq(Point) /\ Len(<<>>) = 0
  OBVIOUS
<1>3. /\ Stored(k)' = Stored(k) + 0 /\ recent'[k] = <<>>
      /\ \A j \in Keys \ {k} : recent'[j] = recent[j] /\ archived'[j] = archived[j]
  BY <1>1, <1>2, ArchiveCounts
<1>4. Stored(k) \in Nat
  BY CountsType
<1>5. \A j \in Keys : Stored(j)' = Stored(j)
  BY <1>3, <1>4 DEF Stored
<1> QED
  BY <1>1, <1>3, <1>5

\* What is stored of some keys is stored of all together.
LEMMA StoredStays ==
  ASSUME NEW S, \A k \in S : Stored(k)' = Stored(k)
  PROVE  SumFunctionOnSet([k \in S |-> Stored(k)'], S) = StoredOf(S)
<1>1. [k \in S |-> Stored(k)'] = [k \in S |-> Stored(k)]
  OBVIOUS
<1> QED
  BY <1>1 DEF StoredOf

LEMMA SealKeeps ==
  ASSUME ServerInv, NEW k \in Keys, Store!SealExpired(k),
         UNCHANGED <<clientVars, windowVars, mainVars>>
  PROVE  QueryInv' /\ IngestInv' /\ ReportInv' /\ ShowInv'
<1> USE DEF ServerInv
<1>1. StoreTyped /\ CountsTyped
  BY DEF QueryInv
<1>2. /\ UNCHANGED <<known, request, reply>>
      /\ \A j \in Keys : Stored(j)' = Stored(j)
      /\ \A j \in Keys : recent'[j] = <<>> \/ recent'[j] = recent[j]
  BY <1>1, SealKeepsStored
<1>3. /\ UNCHANGED clientVars /\ UNCHANGED windowVars
      /\ UNCHANGED <<task, start_time, inserted, uncounted, total_points, reports, queried, shown>>
  BY DEF mainVars, countVars
<1>4. StoreTyped' /\ CountsTyped' /\ Inserted' = Inserted
  BY <1>1, SealTypes, SealCounts DEF NothingNew
<1>5. QueryInv'
  BY <1>2, <1>3, <1>4, QueriesAtRest DEF QueryInv, clientVars, ScanOK, ScanOf, Invalid
<1>6. IngestInv'
  BY <1>2, <1>3, <1>4 DEF IngestInv, InsertOK
<1>7. ReportInv'
  <2>1. uncounted \subseteq Keys
    BY <1>1 DEF ReportInv, CountsTyped
  <2>2. StoredOf(uncounted)' = StoredOf(uncounted)
    <3>1. StoredOf(uncounted)' = SumFunctionOnSet([j \in uncounted |-> Stored(j)'], uncounted)
      BY <1>3 DEF StoredOf
    <3> QED
      BY <1>2, <2>1, <3>1, StoredStays
  <2> QED
    BY <1>2, <1>3, <2>2 DEF ReportInv
<1>8. ASSUME task \in {"raw", "average"}, NEW n, Seen(n) PROVE Seen(n)'
  <2>1. queried.key \in Keys
    BY <1>1, <1>8 DEF ShowInv, CountsTyped
  <2>2. recent'[queried.key] = <<>> \/ recent'[queried.key] = recent[queried.key]
    BY <1>2, <2>1
  <2> QED
    BY <1>3, <1>8, <2>2 DEF Seen, Asked, Store!Places
<1>9. ShowInv'
  <2>1. \A n : Finds(n) => Finds(n)'
    BY <1>3, <1>8 DEF Finds
  <2>2. TheQuery' = TheQuery /\ (AverageOfShown => AverageOfShown')
    BY <1>3 DEF TheQuery, RawQuery, AverageQuery, AverageOfShown
  <2> QED
    BY <1>2, <1>3, <1>8, <2>1, <2>2 DEF ShowInv, clientVars
<1> QED
  BY <1>5, <1>6, <1>7, <1>9

-----------------------------------------------------------------------------
(* The sweep *)

\* A key is sealed once more, or keeps its open block.
Advances(k) ==
  \/ Len(archived'[k]) > Len(archived[k])
  \/ /\ archived'[k] = archived[k]
     /\ recent[k] # <<>> => recent'[k] # <<>> /\ recent'[k][1] = recent[k][1]

LEMMA ArchiveAdvances ==
  ASSUME StoreTyped, CountsTyped, NEW k \in Keys, NEW rest, Store!Archive(k, rest)
  PROVE  /\ \A j \in Keys : Advances(j)
         /\ recent[k] # <<>> => Len(archived'[k]) > Len(archived[k])
<1>1. /\ archived'[k] = IF recent[k] = <<>> THEN archived[k] ELSE Append(archived[k], Len(recent[k]))
      /\ \A j \in Keys \ {k} : recent'[j] = recent[j] /\ archived'[j] = archived[j]
  BY DEF Store!Archive, StoreTyped, CountsTyped
<1>2. recent[k] # <<>> => Len(archived'[k]) > Len(archived[k])
  <2> DEFINE l == Len(recent[k])
  <2>1. archived[k] \in Seq(Nat) /\ l \in Nat
    BY DEF StoreTyped, CountsTyped
  <2> HIDE DEF l
  <2>2. Len(Append(archived[k], l)) = Len(archived[k]) + 1 /\ Len(archived[k]) \in Nat
    BY <2>1, AppendProperties, LenProperties
  <2> QED
    BY <1>1, <2>2 DEF l
<1> QED
  BY <1>1, <1>2 DEF Advances

LEMMA StoreAdvances ==
  ASSUME StoreTyped, CountsTyped, Store!Store(ingest)
  PROVE  \A k \in Keys : Advances(k)
<1> DEFINE k == request[ingest].key
           p == request[ingest].point
<1>1. k \in Keys /\ p \in Point
  <2>1. request[ingest] \in Store!Request /\ request[ingest].op = "insert"
    BY OneThread DEF StoreTyped, Store!Store, Store!Requests
  <2> QED
    BY <2>1 DEF Store!Request, Store!Point, Point
<1> HIDE DEF k, p
<1>2. \/ recent' = [recent EXCEPT ![k] = Append(@, p)] /\ archived' = archived
      \/ \E rest : Store!Archive(k, rest)
  BY DEF Store!Store, k, p
<1>3. CASE recent' = [recent EXCEPT ![k] = Append(@, p)] /\ archived' = archived
  <2>1. recent[k] \in Seq(Point) /\ recent'[k] = Append(recent[k], p)
        /\ \A j \in Keys \ {k} : recent'[j] = recent[j]
    BY <1>1, <1>3 DEF StoreTyped
  <2>2. recent[k] # <<>> => recent'[k] # <<>> /\ recent'[k][1] = recent[k][1]
    <3>1. /\ Len(Append(recent[k], p)) = Len(recent[k]) + 1 /\ Len(recent[k]) \in Nat
          /\ \A i \in 1 .. Len(recent[k]) : Append(recent[k], p)[i] = recent[k][i]
      BY <1>1, <2>1, AppendProperties, LenProperties
    <3>2. recent[k] # <<>> => Len(recent[k]) # 0
      BY <2>1, EmptySeq
    <3>3. Len(<<>>) = 0
      OBVIOUS
    <3> QED
      BY <2>1, <3>1, <3>2, <3>3
  <2> QED
    BY <1>3, <2>1, <2>2 DEF Advances
<1> QED
  BY <1>1, <1>2, <1>3, ArchiveAdvances

\* What was dealt with stays so while keys advance and the sweep is told
\* earlier times, if a visit seals what it finds expired.
LEMMA DealtStays ==
  ASSUME StoreTyped, CountsTyped, CountsTyped', NEW k \in Keys, Advances(k), Dealt(k),
         sweep.earliest \in Nat, sweep'.earliest \in Nat, sweep'.earliest <= sweep.earliest,
         sweep.before[k] \in Nat, sweep'.before[k] = sweep.before[k],
         k \in sweep'.visited \ sweep.visited /\ recent[k] # <<>> =>
           \/ ~Store!Expired(k, sweep'.earliest)
           \/ Len(archived'[k]) > Len(archived[k])
  PROVE  Dealt(k)'
<1> DEFINE first  == recent[k][1].timestamp
           before == sweep.earliest
           after  == sweep'.earliest
<1>1. Len(archived[k]) \in Nat /\ Len(archived'[k]) \in Nat
  BY LenProperties DEF CountsTyped
<1>2. CASE Len(archived'[k]) > Len(archived[k])
  BY <1>1, <1>2 DEF Dealt
<1>3. CASE Len(archived[k]) > sweep.before[k]
  BY <1>1, <1>3 DEF Dealt, Advances
<1>4. CASE ~(Len(archived'[k]) > Len(archived[k])) /\ ~(Len(archived[k]) > sweep.before[k])
  <2>1. /\ recent[k] # <<>> /\ Len(archived[k]) = sweep.before[k]
        /\ k \in sweep.visited => ~Store!Expired(k, before)
    BY <1>4 DEF Dealt
  <2>2. archived'[k] = archived[k] /\ recent'[k] # <<>> /\ recent'[k][1] = recent[k][1]
    BY <1>4, <2>1 DEF Advances
  <2>3. first \in Nat /\ BlockDuration \in Nat /\ before \in Nat /\ after \in Nat /\ after <= before
    <3>1. recent[k] \in Seq(Point)
      BY DEF StoreTyped
    <3>2. recent[k][1] \in Point
      BY <2>1, <3>1, EmptySeq
    <3> QED
      BY <3>2, TimestampRange, FarFromEndAssumption
  <2>4. ASSUME k \in sweep'.visited PROVE ~(first + BlockDuration <= after)
    <3>1. CASE k \in sweep.visited
      <4>1. ~(first + BlockDuration <= before)
        BY <2>1, <3>1 DEF Store!Expired
      <4> HIDE DEF first, before, after
      <4> QED
        BY <2>3, <4>1
    <3>2. CASE k \notin sweep.visited
      BY <1>4, <2>1, <2>4, <3>2 DEF Store!Expired
    <3> QED
      BY <3>1, <3>2
  <2>5. k \in sweep'.visited => ~Store!Expired(k, sweep.earliest)'
    BY <2>2, <2>4 DEF Store!Expired
  <2> QED
    BY <2>1, <2>2, <2>5 DEF Dealt
<1> QED
  BY <1>2, <1>3, <1>4

\* A sweep in progress goes on while keys advance.
LEMMA SweepGoesOn ==
  ASSUME SweepInv, StoreTyped, CountsTyped, CountsTyped',
         known \subseteq known', elapsed' \in 0 .. MaxElapsed,
         \A k \in Keys : Advances(k), sweep' = sweep
  PROVE  SweepInv'
<1> SUFFICES ASSUME sweep # Nil PROVE SweepInv'
  BY DEF SweepInv
<1>1. /\ sweep \in Sweep /\ DOMAIN sweep.before \subseteq Keys /\ sweep.earliest \in Nat
      /\ \A k \in DOMAIN sweep.before : sweep.before[k] \in Nat
  BY DEF SweepInv, Sweep
<1>2. ASSUME NEW k \in DOMAIN sweep.before PROVE Dealt(k)'
  <2>1. k \in Keys /\ sweep.before[k] \in Nat /\ Dealt(k) /\ Advances(k)
    BY <1>1 DEF SweepInv
  <2>2. sweep.earliest <= sweep.earliest
    BY <1>1
  <2> QED
    BY <1>1, <2>1, <2>2, DealtStays
<1> QED
  BY <1>1, <1>2 DEF SweepInv

LEMMA TickKeeps ==
  ASSUME SweepInv, StoreTyped, CountsTyped, Tick
  PROVE  SweepInv'
<1> DEFINE open == {j \in known : recent[j] # <<>>}
           before == [k \in open |-> Len(archived[k])]
<1>1. /\ sweep' = [listed |-> known, visited |-> {}, before |-> before, earliest |-> Modulus]
      /\ UNCHANGED vars /\ elapsed' = elapsed
  BY DEF Tick
<1>2. UNCHANGED <<known, recent, archived>>
  BY <1>1 DEF vars, storeVars
<1>3. known \subseteq Keys /\ \A k \in Keys : Len(archived[k]) \in Nat
  BY LenProperties DEF CountsTyped
<1>4. open \in SUBSET Keys /\ before \in [open -> Nat] /\ \A k \in open : recent[k] # <<>>
  BY <1>3
<1>5. \A k \in open : before[k] = Len(archived[k])
  OBVIOUS
<1>6. DOMAIN before = open /\ open \subseteq known
  OBVIOUS
<1> HIDE DEF open, before
<1>7. sweep'.listed = known /\ sweep'.visited = {} /\ sweep'.before = before /\ sweep' \in Sweep
  <2>1. before \in UNION {[S -> Nat] : S \in SUBSET Keys}
    BY <1>4
  <2>2. Modulus \in Nat
    BY ClockWidthAssumption
  <2> QED
    BY <1>1, <1>3, <2>1, <2>2 DEF Sweep
<1>8. \A k \in open : Dealt(k)'
  BY <1>2, <1>4, <1>5, <1>7 DEF Dealt
<1> QED
  BY <1>1, <1>2, <1>6, <1>7, <1>8 DEF SweepInv

LEMMA SweepSeriesKeeps ==
  ASSUME SweepInv, StoreTyped, CountsTyped, CountsTyped', NEW k \in Keys, SweepSeries(k)
  PROVE  SweepInv' /\ sweep' \in Sweep
<1>1. PICK now \in Clock :
        /\ sweep' = [sweep EXCEPT !.visited  = @ \cup {k},
                                  !.earliest = IF recent[k] # <<>> /\ now < @ THEN now ELSE @]
        /\ \/ Store!Expired(k, now) /\ Store!SealExpired(k)
           \/ ~Store!Expired(k, now) /\ UNCHANGED storeVars
  BY DEF SweepSeries
<1>2. sweep # Nil /\ k \in known /\ elapsed' = elapsed
  BY DEF SweepSeries
<1>3. /\ sweep \in Sweep /\ DOMAIN sweep.before \subseteq Keys /\ sweep.earliest \in Nat
      /\ \A j \in DOMAIN sweep.before : sweep.before[j] \in Nat
      /\ now \in Nat /\ known \subseteq Keys
  BY <1>2, FarFromEndAssumption, ClockWidthAssumption DEF SweepInv, Sweep, CountsTyped
<1> DEFINE told == IF recent[k] # <<>> /\ now < sweep.earliest THEN now ELSE sweep.earliest
<1>4. told \in Nat /\ told <= sweep.earliest /\ (recent[k] # <<>> => told <= now)
  BY <1>3
<1>5. /\ sweep'.listed = sweep.listed /\ sweep'.visited = sweep.visited \cup {k}
      /\ sweep'.before = sweep.before /\ sweep'.earliest = told /\ sweep' \in Sweep
  BY <1>1, <1>3, <1>4 DEF Sweep
<1> HIDE DEF told
<1>6. /\ known' = known /\ \A j \in Keys : Advances(j)
      /\ Store!Expired(k, now) => Len(archived'[k]) > Len(archived[k])
  <2>1. CASE Store!Expired(k, now) /\ Store!SealExpired(k)
    <3>1. known' = known /\ Store!Archive(k, <<>>) /\ recent[k] # <<>>
      BY <2>1 DEF Store!SealExpired, Store!Expired
    <3> QED
      BY <3>1, ArchiveAdvances
  <2>2. CASE ~Store!Expired(k, now) /\ UNCHANGED storeVars
    BY <2>2 DEF storeVars, Advances
  <2> QED
    BY <1>1, <2>1, <2>2
<1>7. ASSUME recent[k] # <<>>
      PROVE  ~Store!Expired(k, told) \/ Len(archived'[k]) > Len(archived[k])
  <2> DEFINE first == recent[k][1].timestamp
  <2>1. first \in Nat /\ BlockDuration \in Nat
    <3>1. recent[k] \in Seq(Point)
      BY DEF StoreTyped
    <3>2. recent[k][1] \in Point
      BY <1>7, <3>1, EmptySeq
    <3> QED
      BY <3>2, TimestampRange, FarFromEndAssumption
  <2>2. first + BlockDuration <= told => first + BlockDuration <= now
    <3> HIDE DEF first
    <3> QED
      BY <1>3, <1>4, <1>7, <2>1
  <2> QED
    BY <1>6, <2>2 DEF Store!Expired
<1>8. ASSUME NEW j \in DOMAIN sweep.before PROVE Dealt(j)'
  <2>1. j \in Keys /\ sweep.before[j] \in Nat /\ Dealt(j) /\ Advances(j)
    BY <1>2, <1>3, <1>6 DEF SweepInv
  <2>2. j \in sweep'.visited \ sweep.visited => j = k
    BY <1>5
  <2>3. j \in sweep'.visited \ sweep.visited /\ recent[j] # <<>> =>
          ~Store!Expired(j, sweep'.earliest) \/ Len(archived'[j]) > Len(archived[j])
    BY <1>5, <1>7, <2>2
  <2>4. sweep'.before[j] = sweep.before[j] /\ sweep'.earliest \in Nat /\ sweep'.earliest <= sweep.earliest
    BY <1>4, <1>5
  <2> QED
    BY <1>3, <2>1, <2>3, <2>4, DealtStays
<1> QED
  BY <1>2, <1>3, <1>5, <1>6, <1>8 DEF SweepInv

-----------------------------------------------------------------------------
(* The reports *)

\* Main at rest: neither the store nor the queries are touched.
LEMMA MainAtRest ==
  ASSUME QueryInv, UNCHANGED vars, task' # "ingest" => ScanOK, task' \notin {"raw", "average"} => at = "idle"
  PROVE  QueryInv' /\ Inserted' = Inserted
<1>1. UNCHANGED storeVars /\ UNCHANGED clientVars /\ UNCHANGED windowVars
  BY DEF vars
<1>2. StoreTyped' /\ CountsTyped' /\ QueriesKept' /\ Inserted' = Inserted
  BY <1>1, StoreAtRest, QueriesAtRest DEF QueryInv
<1>3. (ScanOK => ScanOK') /\ at' = at
  BY <1>1 DEF storeVars, clientVars, ScanOK, ScanOf, Invalid
<1> QED
  BY <1>2, <1>3 DEF QueryInv

\* At rest and out of a query no call on the store is in progress.
LEMMA NoCallAtRest ==
  ASSUME ScanOK, at = "idle"
  PROVE  request[client] = Nil /\ reply[client] = Nil
BY DEF ScanOK

LEMMA StoredOfKnown == StoredOf(known) = Inserted
<1>1. DOMAIN [k \in known |-> Stored(k)] = known
  OBVIOUS
<1> QED
  BY <1>1 DEF StoredOf, Inserted, SumFunction

LEMMA CountUpTo ==
  ASSUME NEW n \in Nat
  PROVE  IsFiniteSet(1 .. n) /\ Cardinality(1 .. n) = n
<1> DEFINE S == 1 .. n
           c == Cardinality(S)
<1>1. IsFiniteSet(S) /\ c = IF 1 > n THEN 0 ELSE n - 1 + 1
  BY FS_Interval
<1> HIDE DEF c
<1>2. c = n
  BY <1>1
<1> QED
  BY <1>1, <1>2 DEF c

\* Once everything is inserted, every metric is known.
LEMMA EveryMetricKnown ==
  ASSUME IngestInv, inserted = All
  PROVE  Cardinality(known) = Len(Metrics)
<1> DEFINE l == Len(Metrics)
<1>1. DOMAIN Metrics = 1 .. l /\ l \in Nat /\ l <= All
  BY BatchesCounted
<1>2. known = Range(Metrics)
  <2>1. \A i \in DOMAIN Metrics : Metrics[i] \in known
    BY <1>1, BatchesCounted DEF IngestInv
  <2> QED
    BY <2>1 DEF IngestInv, Range
<1>3. Metrics \in Surjection(1 .. l, known) /\ Metrics \in Injection(1 .. l, known)
  <2>1. Metrics \in [1 .. l -> known] /\ \A k \in known : \E i \in 1 .. l : Metrics[i] = k
    <3>1. Metrics \in Seq(Keys)
      BY MetricsAssumption
    <3>2. Metrics = [i \in 1 .. l |-> Metrics[i]]
      BY <1>1, <3>1
    <3> HIDE DEF l
    <3> QED
      BY <1>1, <1>2, <3>2 DEF Range
  <2>2. \A i, j \in 1 .. l : Metrics[i] = Metrics[j] => i = j
    BY <1>1, MetricsAssumption
  <2> QED
    BY <2>1, <2>2 DEF Surjection, Injection, IsInjective
<1>4. IsFiniteSet(1 .. l) /\ Cardinality(1 .. l) = l
  BY <1>1, CountUpTo
<1> HIDE DEF l
<1>5. Cardinality(known) = Cardinality(1 .. l)
  BY <1>3, <1>4, FS_Surjection
<1> QED
  BY <1>4, <1>5 DEF l

LEMMA ReadStartTimeKeeps ==
  ASSUME ServerInv, ReadStartTime
  PROVE  QueryInv' /\ IngestInv' /\ ReportInv' /\ ShowInv'
<1> USE OneThread DEF ServerInv
<1>1. /\ task = "start" /\ task' = "ingest" /\ UNCHANGED vars
      /\ UNCHANGED <<inserted, uncounted, total_points, reports, queried, shown>>
  BY DEF ReadStartTime, countVars
<1>2. QueryInv' /\ Inserted' = Inserted
  BY <1>1, MainAtRest DEF QueryInv
<1>3. UNCHANGED <<known, request, reply>> /\ request[ingest] = Nil /\ reply[ingest] = Nil
  BY <1>1, NoCallAtRest DEF vars, storeVars, QueryInv
<1>4. IngestInv'
  BY <1>1, <1>2, <1>3 DEF IngestInv, InsertOK, Tasks
<1>5. ReportInv'
  BY <1>1, <1>3 DEF ReportInv
<1>6. ShowInv'
  BY <1>1 DEF ShowInv, AverageOfShown
<1> QED
  BY <1>2, <1>4, <1>5, <1>6

\* get_stats starts with every series to visit.
LEMMA StartCountingKeeps ==
  ASSUME ServerInv, IngestionDone \/ QueriesDone
  PROVE  QueryInv' /\ IngestInv' /\ ReportInv' /\ ShowInv'
<1> USE OneThread DEF ServerInv
<1>1. /\ \/ task = "ingest" /\ task' = "count" /\ inserted = All
         \/ task = "queries_done" /\ task' = "recount"
      /\ UNCHANGED vars /\ uncounted' = known /\ total_points' = 0
      /\ UNCHANGED <<inserted, reports, queried, shown>>
  BY DEF IngestionDone, QueriesDone, StartCounting, All
<1>2. inserted = All /\ All \in Nat
  BY <1>1, BatchesCounted DEF IngestInv
<1>3. at = "idle" /\ request[ingest] = Nil /\ reply[ingest] = Nil /\ ScanOK
  <2>1. at = "idle"
    BY <1>1 DEF QueryInv
  <2>2. CASE task = "ingest"
    <3>1. InsertOK /\ ~(inserted < All)
      BY <1>2, <2>2 DEF IngestInv
    <3> QED
      BY <2>1, <3>1 DEF InsertOK, ScanOK
  <2>3. CASE task # "ingest"
    BY <2>1, <2>3, NoCallAtRest DEF QueryInv
  <2> QED
    BY <2>1, <2>2, <2>3
<1>4. QueryInv' /\ Inserted' = Inserted
  BY <1>1, <1>3, MainAtRest
<1>5. UNCHANGED <<known, recent, archived, request, reply>>
  BY <1>1 DEF vars, storeVars
<1>6. Inserted = All
  BY <1>2, <1>3 DEF IngestInv
<1>7. IngestInv'
  BY <1>1, <1>2, <1>4, <1>5, <1>6 DEF IngestInv, Tasks
<1>8. total_points' + StoredOf(uncounted)' = All /\ total_points' \in Nat
  <2>1. StoredOf(uncounted)' = StoredOf(known)
    BY <1>1, <1>5 DEF StoredOf, Stored
  <2> QED
    BY <1>1, <1>2, <1>6, <2>1, StoredOfKnown
<1>9. ReportInv'
  BY <1>1, <1>5, <1>8 DEF ReportInv
<1>10. ShowInv'
  BY <1>1 DEF ShowInv, AverageOfShown
<1> QED
  BY <1>4, <1>7, <1>9, <1>10

LEMMA CountSeriesKeeps ==
  ASSUME ServerInv, NEW k \in Keys, CountSeries(k)
  PROVE  QueryInv' /\ IngestInv' /\ ReportInv' /\ ShowInv'
<1> USE DEF ServerInv
<1>1. /\ k \in uncounted /\ uncounted' = uncounted \ {k}
      /\ total_points' = total_points + Len(recent[k]) + SumFunction(archived[k])
      /\ UNCHANGED vars /\ UNCHANGED <<task, inserted, reports, queried, shown>>
  BY DEF CountSeries
<1>2. task \in {"count", "recount"}
  BY <1>1 DEF ReportInv
<1>3. QueryInv' /\ Inserted' = Inserted
  BY <1>1, <1>2, MainAtRest DEF QueryInv
<1>4. UNCHANGED <<known, recent, archived, request, reply>>
  BY <1>1 DEF vars, storeVars
<1>5. IngestInv'
  BY <1>1, <1>2, <1>3, <1>4 DEF IngestInv
<1>6. Len(recent[k]) \in Nat /\ SumFunction(archived[k]) \in Nat
  <2>1. recent[k] \in Seq(Point) /\ archived[k] \in Seq(Nat)
    BY DEF QueryInv, StoreTyped, CountsTyped
  <2>2. SumFunction(archived[k]) \in Nat
    BY <2>1, SumOfAppend
  <2> QED
    BY <2>1, <2>2
<1>7. StoredOf(uncounted) = Stored(k) + StoredOf(uncounted \ {k}) /\ StoredOf(uncounted \ {k}) \in Nat
  <2> DEFINE f == [j \in uncounted |-> Stored(j)]
             g == [j \in uncounted \ {k} |-> Stored(j)]
  <2>1. IsFiniteSet(uncounted) /\ IsFiniteSet(uncounted \ {k})
    BY FS_Subset DEF ReportInv, QueryInv, CountsTyped
  <2>2. \A j \in uncounted : Stored(j) \in Nat
    BY CountsType DEF ReportInv, QueryInv, CountsTyped
  <2>3. /\ \A j \in uncounted : f[j] \in Int
        /\ \A j \in uncounted \ {k} : f[j] \in Int /\ g[j] = f[j]
        /\ \A j \in uncounted \ {k} : g[j] \in Nat
        /\ f[k] = Stored(k)
    BY <1>1, <2>2
  <2>4. StoredOf(uncounted) = SumFunctionOnSet(f, uncounted)
        /\ StoredOf(uncounted \ {k}) = SumFunctionOnSet(g, uncounted \ {k})
    BY DEF StoredOf
  <2> HIDE DEF f, g
  <2>5. SumFunctionOnSet(f, uncounted) = f[k] + SumFunctionOnSet(f, uncounted \ {k})
    BY <1>1, <2>1, <2>3, SumOfOne
  <2>6. SumFunctionOnSet(g, uncounted \ {k}) = SumFunctionOnSet(f, uncounted \ {k})
    BY <2>1, <2>3, SumSame
  <2>7. SumFunctionOnSet(g, uncounted \ {k}) \in Nat
    BY <2>1, <2>3, SumType
  <2> QED
    BY <2>3, <2>4, <2>5, <2>6, <2>7
<1>8. total_points' \in Nat /\ total_points' + StoredOf(uncounted)' = All
  <2>1. total_points \in Nat /\ total_points + StoredOf(uncounted) = All
    BY <1>2 DEF ReportInv
  <2>2. StoredOf(uncounted)' = StoredOf(uncounted \ {k})
    BY <1>1, <1>4 DEF StoredOf, Stored
  <2>3. Stored(k) = Len(recent[k]) + SumFunction(archived[k])
    BY DEF Stored
  <2> QED
    BY <1>1, <1>6, <1>7, <2>1, <2>2, <2>3
<1>9. ReportInv'
  BY <1>1, <1>2, <1>4, <1>8 DEF ReportInv
<1>10. ShowInv'
  BY <1>1, <1>2 DEF ShowInv, AverageOfShown
<1> QED
  BY <1>3, <1>5, <1>9, <1>10

LEMMA ReportKeeps ==
  ASSUME ServerInv, Report
  PROVE  QueryInv' /\ IngestInv' /\ ReportInv' /\ ShowInv'
<1> USE DEF ServerInv
<1> DEFINE r == [series_count |-> Cardinality(known), total_points |-> total_points]
<1>1. /\ \/ task = "count" /\ task' = "list"
         \/ task = "recount" /\ task' = "ended"
      /\ uncounted = {} /\ reports' = Append(reports, r)
      /\ UNCHANGED vars /\ UNCHANGED <<inserted, uncounted, total_points, queried, shown>>
  BY DEF Report
<1>2. QueryInv' /\ Inserted' = Inserted
  BY <1>1, MainAtRest DEF QueryInv
<1>3. UNCHANGED <<known, request, reply>>
  BY <1>1 DEF vars, storeVars
<1>4. IngestInv'
  BY <1>1, <1>2, <1>3 DEF IngestInv, Tasks
<1>5. r = FullReport
  <2>1. Cardinality(known) = Len(Metrics)
    BY <1>1, EveryMetricKnown DEF IngestInv
  <2>2. StoredOf({}) = 0
    BY SumOfNone DEF StoredOf
  <2>3. total_points \in Nat /\ total_points + StoredOf({}) = All
    BY <1>1 DEF ReportInv
  <2>4. total_points = All
    BY <2>2, <2>3
  <2> QED
    BY <2>1, <2>4 DEF FullReport
<1> HIDE DEF r
<1>6. reports' \in Seq({FullReport}) /\ Len(reports') = Len(reports) + 1
  BY <1>1, <1>5, AppendProperties DEF ReportInv
<1>7. ReportInv'
  BY <1>1, <1>3, <1>6 DEF ReportInv
<1>8. ShowInv'
  BY <1>1 DEF ShowInv, AverageOfShown
<1> QED
  BY <1>2, <1>4, <1>7, <1>8

LEMMA ListKeysKeeps ==
  ASSUME ServerInv, ListKeys
  PROVE  QueryInv' /\ IngestInv' /\ ReportInv' /\ ShowInv'
<1> USE DEF ServerInv
<1>1. /\ task = "list" /\ task' = "raw" /\ UNCHANGED vars
      /\ UNCHANGED <<inserted, uncounted, total_points, reports, shown>>
      /\ \E k \in known, now \in Clock : queried' = [key |-> k, now |-> now]
  BY DEF ListKeys, countVars
<1>2. QueryInv' /\ Inserted' = Inserted
  BY <1>1, MainAtRest DEF QueryInv
<1>3. UNCHANGED <<known, request, reply, at, scanned>>
  BY <1>1 DEF vars, storeVars, clientVars
<1>4. IngestInv'
  BY <1>1, <1>2, <1>3 DEF IngestInv, Tasks
<1>5. ReportInv'
  BY <1>1, <1>3 DEF ReportInv
<1>6. at = "idle" /\ reply[client] = Nil /\ DOMAIN scanned = {}
  BY <1>1, NoCallAtRest DEF QueryInv, QueriesKept, ScannedOK
<1>7. queried'.key \in known' /\ queried'.now \in Clock
  BY <1>1, <1>3
<1>8. ShowInv'
  BY <1>1, <1>3, <1>6, <1>7 DEF ShowInv, AverageOfShown
<1> QED
  BY <1>2, <1>4, <1>5, <1>8

\* Neither main nor the store is touched: time passes, or a sweep begins or
\* ends.
LEMMA OthersAtRest ==
  ASSUME ServerInv, UNCHANGED vars, UNCHANGED mainVars
  PROVE  QueryInv' /\ IngestInv' /\ ReportInv' /\ ShowInv'
<1> USE DEF ServerInv
<1>1. UNCHANGED <<task, start_time, inserted, uncounted, total_points, reports, queried, shown>>
  BY DEF mainVars, countVars
<1>2. /\ UNCHANGED <<known, recent, archived, request, reply, at, asked, outcome, scanned>>
  BY DEF vars, storeVars, clientVars
<1>3. QueryInv' /\ Inserted' = Inserted
  BY <1>1, MainAtRest DEF QueryInv
<1>4. IngestInv'
  BY <1>1, <1>2, <1>3 DEF IngestInv, InsertOK
<1>5. ReportInv'
  BY <1>1, <1>2 DEF ReportInv, StoredOf, Stored
<1>6. ShowInv'
  BY <1>1, <1>2 DEF ShowInv, AverageOfShown, Finds, Seen, Asked, Store!Places, TheQuery, RawQuery,
     AverageQuery
<1> QED
  BY <1>3, <1>4, <1>5, <1>6

-----------------------------------------------------------------------------
(* The queries *)

LEMMA TheQueryValid ==
  ASSUME queried.key \in Keys, queried.now \in Clock, task \in {"raw", "average"}
  PROVE  /\ TheQuery \in Query /\ Invalid(TheQuery) = Nil
         /\ TheQuery.key = queried.key
         /\ TheQuery.start_time = queried.now - QueryRange /\ TheQuery.end_time = queried.now
         /\ TheQuery.max_points = Nil
         /\ task = "raw" => TheQuery.aggregation = Nil
         /\ task = "average" => TheQuery.aggregation = "Avg" /\ TheQuery.window_size = AverageWindow
<1> DEFINE start == queried.now - QueryRange
           key == queried.key
           now == queried.now
           raw == [key |-> key, start_time |-> start, end_time |-> now,
                   aggregation |-> Nil, window_size |-> Nil, max_points |-> Nil]
           average == [raw EXCEPT !.aggregation = "Avg", !.window_size = AverageWindow]
<1>1. /\ start \in 0 .. Modulus - 1 /\ now \in 0 .. Modulus - 1 /\ start <= now
      /\ AverageWindow \in 0 .. Modulus - 1 /\ ~(start > now)
  <2>1. now \in QueryRange .. Modulus - 1 /\ AverageWindow \in 1 .. Modulus - 1
    BY FarFromEndAssumption
  <2>2. QueryRange \in Nat /\ Modulus \in Nat
    BY FarFromEndAssumption, ClockWidthAssumption
  <2> QED
    BY <2>1, <2>2
<1>2. RawQuery = raw /\ AverageQuery = average
  BY DEF RawQuery, AverageQuery
<1>3. key \in Keys
  OBVIOUS
<1> HIDE DEF start, key, now
<1>4. raw \in Query
  BY <1>1, <1>3 DEF Query
<1>5. Invalid(raw) = Nil
  BY <1>1 DEF Invalid
<1>6. /\ average.key = raw.key /\ average.start_time = raw.start_time /\ average.end_time = raw.end_time
      /\ average.max_points = raw.max_points
      /\ average.aggregation = "Avg" /\ average.window_size = AverageWindow
      /\ average \in Query
  <2> HIDE DEF raw
  <2> QED
    BY <1>1, <1>4 DEF Query, Aggregations
<1>7. /\ raw.key = key /\ raw.start_time = start /\ raw.end_time = now /\ raw.max_points = Nil
      /\ raw.aggregation = Nil
  OBVIOUS
<1> HIDE DEF raw, average
<1>8. Invalid(average) = Nil
  BY <1>1, <1>6, <1>7, NoneAssumption DEF Invalid
<1> QED
  BY <1>2, <1>4, <1>5, <1>6, <1>7, <1>8 DEF TheQuery, start, key, now

\* The query at hand, at any of its steps.
LEMMA QueryAtHand ==
  ASSUME ServerInv, at # "idle"
  PROVE  /\ task \in {"raw", "average"} /\ EngineInv /\ ScanOK
         /\ queried.key \in known /\ queried.key \in Keys /\ queried.now \in Clock
         /\ asked = <<TheQuery>> /\ Len(asked) = 1 /\ asked[1] = TheQuery
         /\ at \in {"query", "scan", "windows"} => Head(batch) = TheQuery
<1> USE DEF ServerInv
<1>1. task \in {"raw", "average"}
  BY DEF QueryInv
<1>2. EngineInv /\ ScanOK
  BY <1>1, QueriesOfEngine DEF QueryInv
<1>3. /\ queried.key \in known /\ queried.key \in Keys /\ queried.now \in Clock
      /\ asked = <<TheQuery>>
  BY <1>1 DEF ShowInv, QueryInv, CountsTyped
<1> DEFINE q == TheQuery
<1> HIDE DEF q
<1>4. asked = <<q>>
  BY <1>3 DEF q
<1>5. Len(asked) = 1 /\ asked[1] = q
  BY <1>4
<1>6. ASSUME at \in {"query", "scan", "windows"} PROVE Head(batch) = q
  <2>1. PICK S : results \in Seq(S)
    BY <1>2 DEF EngineInv, BatchInv
  <2>2. /\ batch \in Seq(Query) /\ batch # <<>> /\ Len(asked) = Len(results) + Len(batch)
        /\ \A i \in 1 .. Len(batch) : batch[i] = asked[Len(results) + i]
    BY <1>2, <1>6 DEF EngineInv, BatchInv, AnsweredInOrder
  <2>3. Len(results) \in Nat /\ Len(batch) \in Nat /\ Len(batch) # 0
    BY <2>1, <2>2, EmptySeq, LenProperties
  <2>4. Head(batch) = batch[1]
    BY <2>2, HeadTailProperties
  <2> DEFINE m == Len(results)
             n == Len(batch)
  <2>5. m \in Nat /\ n \in Nat /\ n # 0 /\ m + n = 1
    BY <1>5, <2>2, <2>3
  <2> HIDE DEF m, n
  <2>6. m = 0 /\ 1 \in 1 .. n /\ m + 1 = 1
    BY <2>5
  <2>7. batch[1] = asked[m + 1]
    BY <2>2, <2>6 DEF m, n
  <2> QED
    BY <1>5, <2>4, <2>6, <2>7
<1> QED
  BY <1>1, <1>2, <1>3, <1>5, <1>6 DEF q

LEMMA CallQueryKeeps ==
  ASSUME ServerInv, CallQuery
  PROVE  QueryInv' /\ IngestInv' /\ ReportInv' /\ ShowInv'
<1> USE DEF ServerInv
<1>1. /\ task \in {"raw", "average"} /\ Call(<<TheQuery>>)
      /\ UNCHANGED <<task, start_time, inserted, uncounted, total_points, reports, queried, shown>>
  BY DEF CallQuery, TheQuery, mainVars, countVars
<1>2. queried.key \in known /\ queried.key \in Keys /\ queried.now \in Clock
  BY <1>1 DEF ShowInv, QueryInv, CountsTyped
<1> DEFINE q == TheQuery
<1>3. q \in Query
  BY <1>1, <1>2, TheQueryValid
<1>4. q' = q
  BY <1>1 DEF TheQuery, RawQuery, AverageQuery
<1> HIDE DEF q
<1>5. /\ at = "idle" /\ at' = "query" /\ asked' = <<q>> /\ <<q>> \in Seq(Query)
      /\ UNCHANGED storeVars /\ UNCHANGED windowVars /\ UNCHANGED <<results, scanned>>
  <2>1. <<q>> \in Seq(Query) /\ <<q>> # <<>>
    BY <1>3
  <2>2. Call(<<q>>)
    BY <1>1 DEF q
  <2> QED
    BY <2>1, <2>2 DEF Call
<1>6. EngineInv
  BY <1>1, QueriesOfEngine
<1>7. BatchInv' /\ CallerInv'
  <2>1. Call(<<q>>)
    BY <1>1 DEF q
  <2> QED
    BY <1>5, <1>6, <2>1, CallKeepsBatch, CallKeepsCaller DEF EngineInv
<1>8. WindowsInv' /\ CountsInv'
  BY <1>5, <1>6, NextKeepsInv, NextKeepsCounts DEF EngineInv
<1>9. ResultsInv'
  <2>1. results' = <<>> /\ at' # "windows"
    BY <1>5, <1>6 DEF EngineInv, BatchInv
  <2> QED
    BY <2>1, EmptySeq DEF ResultsInv, InHand
<1>10. StoreTyped' /\ CountsTyped' /\ Inserted' = Inserted
  BY <1>5, StoreAtRest DEF QueryInv
<1>11. QueryInv'
  BY <1>1, <1>5, <1>7, <1>8, <1>9, <1>10 DEF QueryInv, QueriesKept, CallerInv
<1>12. UNCHANGED <<known, recent, archived, request, reply>>
  BY <1>5 DEF storeVars
<1>13. IngestInv'
  BY <1>1, <1>10, <1>12 DEF IngestInv
<1>14. ReportInv'
  BY <1>1, <1>12 DEF ReportInv
<1>15. \A n : Finds(n) => Finds(n)'
  BY <1>1, <1>12 DEF Finds, Seen, Asked, Store!Places
<1>16. ShowInv'
  <2>1. task = "average" => Len(shown) = 1 /\ Seen(Len(shown[1].result.points))'
    BY <1>1, <1>12 DEF ShowInv, Seen, Asked, Store!Places
  <2>2. AverageOfShown'
    BY <1>1 DEF ShowInv, AverageOfShown
  <2>3. asked' = <<TheQuery>>'
    BY <1>4, <1>5 DEF q
  <2> QED
    BY <1>1, <1>5, <1>12, <1>15, <2>1, <2>2, <2>3 DEF ShowInv
<1> QED
  BY <1>11, <1>13, <1>14, <1>16

\* A query goes on at a place where there is one.
LEMMA QueryGoesOn ==
  ASSUME ServerInv, Execute \/ AnswerScan
  PROVE  at # "idle"
<1> USE OneThread DEF ServerInv
<1>1. CASE Execute
  <2>1. CASE WindowStep
    BY <2>1 DEF WindowStep, NextWindow, EndWindows, QueryInv, QueriesKept, PlaceOK
  <2>2. CASE ~WindowStep
    BY <1>1, <2>2 DEF Execute, RejectQuery, CallScan, ScanFailed, AnswerPoints, StartWindows, AnswerWindows
  <2> QED
    BY <2>1, <2>2
<1>2. CASE AnswerScan
  <2>1. request[client] # Nil /\ request[client].op \in {"scan_range", "get_series"}
    BY <1>2 DEF AnswerScan, Store!Scan, Store!NotFound, Store!Requests
  <2>2. task # "ingest"
    <3> SUFFICES ASSUME task = "ingest" PROVE FALSE
      OBVIOUS
    <3>1. InsertOK
      BY DEF IngestInv
    <3> QED
      BY <2>1, <3>1 DEF InsertOK
  <2> QED
    BY <2>1, <2>2 DEF QueryInv, ScanOK
<1> QED
  BY <1>1, <1>2

\* The scan of the query finds the key, and in it what is asked for.
LEMMA ScanShows ==
  ASSUME ServerInv, AnswerScan
  PROVE  reply'[client].status = "Ok" /\ Finds(Len(reply'[client].points))
<1> USE OneThread DEF ServerInv
<1>1. /\ task \in {"raw", "average"} /\ ScanOK /\ StoreTyped
      /\ queried.key \in known /\ queried.key \in Keys /\ queried.now \in Clock
      /\ at \in {"query", "scan", "windows"} => Head(batch) = TheQuery
  BY QueryGoesOn, QueryAtHand DEF QueryInv
<1>2. request[client] # Nil
  BY DEF AnswerScan, Store!Scan, Store!NotFound, Store!Requests
<1>3. request[client] = ScanOf(TheQuery)
  BY <1>1, <1>2 DEF ScanOK
<1>4. /\ TheQuery.key = queried.key
      /\ TheQuery.start_time = queried.now - QueryRange /\ TheQuery.end_time = queried.now
  BY <1>1, TheQueryValid
<1>5. /\ request[client].key = queried.key
      /\ request[client].start = queried.now - QueryRange /\ request[client].end = queried.now
  BY <1>3, <1>4 DEF ScanOf
<1>6. ~Store!NotFound(client)
  BY <1>1, <1>5 DEF Store!NotFound
<1>7. PICK ps \in Store!Chronological(recent[queried.key], queried.now - QueryRange, queried.now) :
        Store!Answer(client, [status |-> "Ok", points |-> ps])
  BY <1>5, <1>6 DEF AnswerScan, Store!Scan
<1>8. Len(ps) = Cardinality(Asked)
  <2>1. recent[queried.key] \in Seq(Point)
    BY <1>1 DEF StoreTyped
  <2> QED
    BY <1>7, <2>1, ScanFinds DEF Asked
<1>9. reply'[client] = [status |-> "Ok", points |-> ps]
  BY <1>1, <1>7 DEF Store!Answer, StoreTyped
<1>10. Finds(Len(ps))
  <2>1. CASE task = "raw"
    BY <1>8, <2>1 DEF Finds, Seen
  <2>2. CASE task = "average"
    <3>1. Seen(Len(shown[1].result.points))
      BY <2>2 DEF ShowInv
    <3>2. CASE recent[queried.key] = <<>>
      <4>1. Asked = {}
        BY <3>2 DEF Asked, Store!Places
      <4> QED
        BY <1>8, <2>2, <4>1, FS_EmptySet DEF Finds
    <3>3. CASE recent[queried.key] # <<>>
      BY <1>8, <2>2, <3>1, <3>3 DEF Finds, Seen
    <3> QED
      BY <3>2, <3>3
  <2> QED
    BY <1>1, <2>1, <2>2
<1> QED
  BY <1>9, <1>10

\* A further number of points that the query may have found.
LEMMA FoundOneMore ==
  ASSUME NEW S, scanned \in Seq(S), NEW ps, scanned' = Append(scanned, ps), Finds(Len(ps)),
         \A i \in DOMAIN scanned : Finds(Len(scanned[i]))
  PROVE  \A i \in DOMAIN scanned' : Finds(Len(scanned'[i]))
<1>1. /\ scanned' \in Seq(S \cup {ps}) /\ Len(scanned) \in Nat /\ Len(scanned') = Len(scanned) + 1
      /\ \A i \in 1 .. Len(scanned) : scanned'[i] = scanned[i]
      /\ scanned'[Len(scanned) + 1] = ps
  BY AppendAny
<1>2. DOMAIN scanned = 1 .. Len(scanned) /\ DOMAIN scanned' = 1 .. Len(scanned) + 1
  BY <1>1
<1> QED
  BY <1>1, <1>2

\* What a step of the query leaves of what it has found.
LEMMA QueryStepShows ==
  ASSUME ServerInv, Execute \/ AnswerScan
  PROVE  /\ asked' = asked /\ UNCHANGED <<known, recent, archived>>
         /\ at' = "returned" => outcome' = "Ok"
         /\ reply'[client] # Nil => reply'[client].status = "Ok" /\ Finds(Len(reply'[client].points))
         /\ \A i \in DOMAIN scanned' : Finds(Len(scanned'[i]))
<1> USE DEF ServerInv
<1>1. /\ task \in {"raw", "average"} /\ EngineInv
      /\ queried.key \in Keys /\ queried.now \in Clock
      /\ at \in {"query", "scan", "windows"} => Head(batch) = TheQuery
  BY QueryGoesOn, QueryAtHand
<1>2. /\ at = "returned" => outcome = "Ok"
      /\ reply[client] # Nil => reply[client].status = "Ok" /\ Finds(Len(reply[client].points))
      /\ \A i \in DOMAIN scanned : Finds(Len(scanned[i]))
  BY <1>1 DEF ShowInv
<1>3. DOMAIN reply = Threads /\ scanned \in Seq({ps \in Seq(Point) : Chronologic(ps)})
  BY <1>1 DEF EngineInv, CallerInv, StoreTyped, ScannedOK
<1>4. CASE RejectQuery
  <2>1. Invalid(TheQuery) = Nil
    BY <1>1, TheQueryValid
  <2> QED
    BY <1>1, <1>4, <2>1 DEF RejectQuery
<1>5. CASE CallScan
  BY <1>2, <1>5 DEF CallScan, Store!Invoke
<1>6. CASE ScanFailed
  BY <1>2, <1>6 DEF ScanFailed, Store!Return
<1>7. CASE AnswerPoints \/ StartWindows
  <2> DEFINE ps == reply[client].points
  <2>1. /\ Store!Return(client) /\ asked' = asked /\ scanned' = Append(scanned, ps)
        /\ at' = "returned" => outcome' = "Ok"
    BY <1>7 DEF AnswerPoints, StartWindows, Deliver
  <2>2. reply'[client] = Nil /\ Finds(Len(ps)) /\ UNCHANGED <<known, recent, archived>>
    BY <1>2, <1>3, <2>1, OneThread DEF Store!Return
  <2> HIDE DEF ps
  <2> QED
    BY <1>2, <1>3, <2>1, <2>2, FoundOneMore
<1>8. CASE WindowStep
  BY <1>2, <1>8 DEF WindowStep, storeVars, clientVars
<1>9. CASE AnswerWindows
  BY <1>2, <1>9 DEF AnswerWindows, Deliver, storeVars
<1>10. CASE AnswerScan
  <2>1. UNCHANGED clientVars /\ UNCHANGED <<known, recent, archived>>
    BY <1>10 DEF AnswerScan, Store!Scan, Store!NotFound
  <2> QED
    BY <1>2, <1>10, <2>1, ScanShows DEF clientVars
<1> QED
  BY <1>4, <1>5, <1>6, <1>7, <1>8, <1>9, <1>10 DEF Execute

LEMMA QueryStepKeeps ==
  ASSUME ServerInv, QueryStep
  PROVE  QueryInv' /\ IngestInv' /\ ReportInv' /\ ShowInv'
<1> USE DEF ServerInv
<1>1. /\ Execute \/ AnswerScan
      /\ UNCHANGED <<task, start_time, inserted, uncounted, total_points, reports, queried, shown>>
  BY DEF QueryStep, mainVars, countVars
<1>2. /\ task \in {"raw", "average"} /\ EngineInv /\ at # "idle" /\ asked = <<TheQuery>>
      /\ queried.key \in known /\ queried.now \in Clock
  BY <1>1, QueryGoesOn, QueryAtHand DEF ShowInv
<1>3. [Next]_vars /\ BatchInv /\ CallerInv /\ WindowsInv /\ CountsInv
  BY <1>1, <1>2 DEF Next, EngineInv
<1>4. BatchInv' /\ ResultsInv'
  BY <1>2, <1>3, NextBatch, NextResults
<1>5. CallerInv'
  BY <1>1, <1>3, ExecuteKeepsCaller, AnswerKeepsCaller
<1>6. WindowsInv' /\ CountsInv'
  <2>1. [WindowsNext]_windowVars
    BY <1>3, StepsKeepContract
  <2> QED
    BY <1>3, <2>1, NextKeepsInv, NextKeepsCounts
<1>7. /\ asked' = asked /\ UNCHANGED <<known, recent, archived>>
      /\ at' = "returned" => outcome' = "Ok"
      /\ reply'[client] # Nil => reply'[client].status = "Ok" /\ Finds(Len(reply'[client].points))
      /\ \A i \in DOMAIN scanned' : Finds(Len(scanned'[i]))
  BY <1>1, QueryStepShows
<1>8. CountsTyped' /\ Inserted' = Inserted
  BY <1>7 DEF QueryInv, CountsTyped, Inserted, Stored
<1>9. QueryInv'
  BY <1>1, <1>2, <1>4, <1>5, <1>6, <1>8 DEF QueryInv, QueriesKept, CallerInv
<1>10. IngestInv'
  BY <1>1, <1>2, <1>7, <1>8 DEF IngestInv
<1>11. ReportInv'
  BY <1>1, <1>2, <1>7 DEF ReportInv
<1>12. ShowInv'
  <2>1. /\ task = "average" => Len(shown) = 1 /\ Seen(Len(shown[1].result.points))'
        /\ \A n : Finds(n) => Finds(n)'
    BY <1>1, <1>7 DEF ShowInv, Finds, Seen, Asked, Store!Places
  <2>2. AverageOfShown' /\ asked' = <<TheQuery>>'
    BY <1>1, <1>2, <1>7 DEF ShowInv, AverageOfShown, TheQuery, RawQuery, AverageQuery
  <2> QED
    BY <1>1, <1>2, <1>7, <2>1, <2>2 DEF ShowInv
<1> QED
  BY <1>9, <1>10, <1>11, <1>12

\* What main logs is appended to what it has logged.
LEMMA OneMoreShown ==
  ASSUME NEW S, shown \in Seq(S), NEW T, results \in Seq(T), Len(results) = 1,
         shown' = shown \o results
  PROVE  /\ shown' \in Seq(S \cup T) /\ Len(shown') = Len(shown) + 1
         /\ \A i \in 1 .. Len(shown) : shown'[i] = shown[i]
         /\ shown'[Len(shown) + 1] = results[1]
<1>1. shown \in Seq(S \cup T) /\ results \in Seq(S \cup T)
  <2>1. /\ shown \in [1 .. Len(shown) -> S \cup T] /\ Len(shown) \in Nat
        /\ results \in [1 .. Len(results) -> S \cup T] /\ Len(results) \in Nat
    BY LenProperties
  <2> QED
    BY <2>1, SeqDef
<1>2. Len(shown) \in Nat
  BY <1>1, LenProperties
<1>3. /\ shown' \in Seq(S \cup T) /\ Len(shown') = Len(shown) + 1
      /\ \A i \in 1 .. Len(shown) + 1 :
           shown'[i] = IF i <= Len(shown) THEN shown[i] ELSE results[i - Len(shown)]
  <2> DEFINE U == S \cup T
  <2>1. shown \in Seq(U) /\ results \in Seq(U)
    BY <1>1
  <2> HIDE DEF U
  <2>2. /\ shown \o results \in Seq(U) /\ Len(shown \o results) = Len(shown) + Len(results)
        /\ \A i \in 1 .. Len(shown) + Len(results) :
             (shown \o results)[i] = IF i <= Len(shown) THEN shown[i] ELSE results[i - Len(shown)]
    BY <2>1, ConcatProperties
  <2>3. /\ shown' \in Seq(U) /\ Len(shown') = Len(shown) + 1
        /\ \A i \in 1 .. Len(shown) + 1 :
             shown'[i] = IF i <= Len(shown) THEN shown[i] ELSE results[i - Len(shown)]
    BY <2>2, Zenon
  <2> QED
    BY <2>3 DEF U
<1> DEFINE n == Len(shown)
<1> HIDE DEF n
<1>4. /\ \A i \in 1 .. n : i \in 1 .. n + 1 /\ i <= n
      /\ n + 1 \in 1 .. n + 1 /\ ~(n + 1 <= n) /\ (n + 1) - n = 1
  BY <1>2 DEF n
<1> QED
  BY <1>3, <1>4 DEF n

\* The one result of a query that has been answered.
LEMMA ResultAtHand ==
  ASSUME ServerInv, at = "returned"
  PROVE  /\ outcome = "Ok" /\ Len(results) = 1 /\ \E S : results \in Seq(S)
         /\ \E ps \in Seq(Point) :
              Finds(Len(ps)) /\ ResultOf(TheQuery, ps, results[1].result)
<1> USE DEF ServerInv
<1>1. task \in {"raw", "average"} /\ EngineInv /\ Len(asked) = 1 /\ asked[1] = TheQuery
  BY QueryAtHand
<1>2. outcome = "Ok" /\ \A i \in DOMAIN scanned : Finds(Len(scanned[i]))
  BY <1>1 DEF ShowInv
<1>3. PICK S : results \in Seq(S)
  BY <1>1 DEF EngineInv, BatchInv
<1>4. Len(results) = 1
  BY <1>1, <1>2 DEF EngineInv, BatchInv, AllAnswered
<1>5. 1 \in DOMAIN results
  BY <1>3, <1>4
<1>6. scanned[1] \in Seq(Point) /\ ResultOf(TheQuery, scanned[1], results[1].result)
  BY <1>1, <1>2, <1>5, EachResult
<1>7. 1 \in DOMAIN scanned
  <2>1. /\ scanned \in Seq({ps \in Seq(Point) : Chronologic(ps)})
        /\ Len(results) <= Len(scanned)
    BY <1>1 DEF EngineInv, CallerInv, ScannedOK
  <2> QED
    BY <1>4, <2>1
<1> QED
  BY <1>2, <1>3, <1>4, <1>6, <1>7

\* The first query shows what it found.
LEMMA RawShows ==
  ASSUME ServerInv, at = "returned", task = "raw"
  PROVE  Seen(Len(results[1].result.points))
<1>1. PICK ps \in Seq(Point) : Finds(Len(ps)) /\ ResultOf(TheQuery, ps, results[1].result)
  BY ResultAtHand
<1>2. TheQuery.aggregation = Nil /\ TheQuery.max_points = Nil
  <2>1. queried.key \in Keys /\ queried.now \in Clock
    BY QueryAtHand
  <2> QED
    BY <2>1, TheQueryValid
<1>3. results[1].result.points = ps
  BY <1>1, <1>2 DEF ResultOf, Thinned
<1> QED
  BY <1>1, <1>3 DEF Finds

\* The second one averages what the first has shown, or nothing.
LEMMA AverageShows ==
  ASSUME ServerInv, at = "returned", task = "average"
  PROVE  LET averaged == results[1].result
         IN  \/ averaged.kind = "Aggregated" /\ Total(averaged.points) = Len(shown[1].result.points)
             \/ averaged.kind = "Points" /\ averaged.points = <<>>
<1> DEFINE averaged == results[1].result
<1>1. PICK ps \in Seq(Point) : Finds(Len(ps)) /\ ResultOf(TheQuery, ps, averaged)
  BY ResultAtHand
<1>2. /\ TheQuery.aggregation # Nil /\ TheQuery.max_points = Nil
      /\ TheQuery.window_size = AverageWindow
  <2>1. queried.key \in Keys /\ queried.now \in Clock
    BY QueryAtHand
  <2> QED
    BY <2>1, TheQueryValid, NoneAssumption
<1>3. Thinned(TheQuery, ps) = ps
  BY <1>2 DEF Thinned
<1>4. Fits(ps, AverageWindow)
  <2>1. \A i \in DOMAIN ps : ps[i] \in Point
    OBVIOUS
  <2>2. \A i \in DOMAIN ps : ps[i].timestamp \in Timestamps
    BY <2>1 DEF Point
  <2>3. \A i \in DOMAIN ps : ps[i].timestamp + AverageWindow < Modulus
    BY <2>2, FarFromEndAssumption
  <2> QED
    BY <2>3, FarFromEndAssumption DEF Fits
<1>5. CASE averaged.kind = "Points"
  BY <1>1, <1>2, <1>3, <1>5 DEF ResultOf
<1>6. CASE averaged.kind # "Points"
  <2>1. averaged.kind = "Aggregated" /\ ps # <<>> /\ Total(averaged.points) = Len(ps)
    BY <1>1, <1>2, <1>3, <1>4, <1>6 DEF ResultOf
  <2>2. Len(ps) # 0
    BY <2>1, EmptySeq
  <2> QED
    BY <1>1, <2>1, <2>2 DEF Finds
<1> QED
  BY <1>5, <1>6

LEMMA LogResultKeeps ==
  ASSUME ServerInv, LogResult
  PROVE  QueryInv' /\ IngestInv' /\ ReportInv' /\ ShowInv'
<1> USE DEF ServerInv
<1>1. /\ \/ task = "raw" /\ task' = "average"
         \/ task = "average" /\ task' = "queries_done"
      /\ ReturnExecute /\ at = "returned" /\ at' = "idle" /\ shown' = shown \o results
      /\ UNCHANGED <<start_time, inserted, uncounted, total_points, reports, queried>>
      /\ UNCHANGED storeVars /\ UNCHANGED windowVars
  BY DEF LogResult, ReturnExecute, countVars
<1>2. /\ EngineInv /\ ScanOK /\ queried.key \in known /\ queried.now \in Clock
  BY <1>1, QueryAtHand
<1>3. [Next]_vars /\ BatchInv /\ CallerInv /\ WindowsInv /\ CountsInv
  BY <1>1, <1>2 DEF Next, EngineInv
<1>4. BatchInv' /\ ResultsInv' /\ CallerInv' /\ WindowsInv' /\ CountsInv'
  BY <1>1, <1>2, <1>3, NextBatch, NextResults, EndKeepsCaller, NextKeepsInv, NextKeepsCounts
<1>5. CountsTyped' /\ Inserted' = Inserted
  BY <1>1, StoreAtRest DEF QueryInv
<1>6. QueryInv'
  BY <1>1, <1>4, <1>5 DEF QueryInv, QueriesKept, CallerInv
<1>7. UNCHANGED <<known, recent, archived, request, reply>>
  BY <1>1 DEF storeVars
<1>8. IngestInv'
  BY <1>1, <1>5, <1>7 DEF IngestInv, Tasks
<1>9. ReportInv'
  BY <1>1, <1>7 DEF ReportInv
<1>10. PICK S, T : shown \in Seq(S) /\ results \in Seq(T)
  BY <1>1, ResultAtHand DEF ShowInv
<1>11. /\ shown' \in Seq(S \cup T) /\ Len(shown') = Len(shown) + 1
       /\ \A i \in 1 .. Len(shown) : shown'[i] = shown[i]
       /\ shown'[Len(shown) + 1] = results[1]
  BY <1>1, <1>10, ResultAtHand, OneMoreShown
<1>12. reply'[client] = Nil /\ DOMAIN scanned' = {}
  <2>1. reply[client] = Nil
    BY <1>1, <1>2 DEF ScanOK
  <2> QED
    BY <1>1, <1>7, <2>1 DEF ReturnExecute
<1>13. CASE task = "raw"
  <2>1. Len(shown) = 0 /\ Len(shown') = 1 /\ shown'[1] = results[1]
    BY <1>11, <1>13 DEF ShowInv
  <2>2. Seen(Len(shown[1].result.points))'
    BY <1>1, <1>7, <1>13, <2>1, RawShows DEF Seen, Asked, Store!Places
  <2>3. AverageOfShown'
    BY <2>1 DEF AverageOfShown
  <2> QED
    BY <1>1, <1>2, <1>6, <1>7, <1>8, <1>9, <1>11, <1>12, <1>13, <2>1, <2>2, <2>3 DEF ShowInv
<1>14. CASE task = "average"
  <2>1. Len(shown) = 1 /\ Len(shown') = 2 /\ shown'[1] = shown[1] /\ shown'[2] = results[1]
    <3>1. Len(shown) = 1
      BY <1>14 DEF ShowInv
    <3>2. Len(shown') = 1 + 1 /\ shown'[1 + 1] = results[1] /\ \A i \in 1 .. 1 : shown'[i] = shown[i]
      BY <1>11, <3>1, Zenon
    <3> QED
      BY <3>1, <3>2
  <2>2. AverageOfShown'
    BY <1>1, <1>14, <2>1, AverageShows DEF AverageOfShown, Total
  <2> QED
    BY <1>1, <1>6, <1>8, <1>9, <1>11, <1>14, <2>1, <2>2 DEF ShowInv
<1> QED
  BY <1>1, <1>13, <1>14

-----------------------------------------------------------------------------
(* Every step *)

\* Main only adds to the keys, and seals blocks at the most.
LEMMA MainAdvances ==
  ASSUME ServerInv, Main
  PROVE  elapsed' = elapsed /\ sweep' = sweep /\ known \subseteq known' /\ \A k \in Keys : Advances(k)
<1> USE DEF ServerInv
<1>1. elapsed' = elapsed /\ sweep' = sweep
  BY DEF Main, ReadStartTime, InsertNext, InsertStep, InsertReturns, IngestionDone, QueriesDone,
     StartCounting, CountSeries, Report, ListKeys, CallQuery, QueryStep, LogResult, sweepVars
<1>2. CASE InsertStep
  <2>1. CASE Store!Announce(ingest)
    BY <1>1, <2>1 DEF Store!Announce, Advances
  <2>2. CASE Store!Store(ingest)
    <3>1. \A k \in Keys : Advances(k)
      BY <2>2, StoreAdvances DEF QueryInv
    <3>2. known' = known
      BY <2>2 DEF Store!Store
    <3> QED
      BY <1>1, <3>1, <3>2
  <2> QED
    BY <1>2, <2>1, <2>2 DEF InsertStep
<1>3. CASE ~InsertStep
  <2>1. UNCHANGED <<known, recent, archived>>
    <3>1. CASE QueryStep
      BY <3>1, QueryStepShows DEF QueryStep
    <3>2. CASE InsertNext \/ InsertReturns
      BY <3>2 DEF InsertNext, InsertReturns, Store!Invoke, Store!Return
    <3>3. CASE CallQuery \/ LogResult
      BY <3>3 DEF CallQuery, Call, LogResult, ReturnExecute, storeVars
    <3>4. CASE ~(QueryStep \/ InsertNext \/ InsertReturns \/ CallQuery \/ LogResult)
      BY <1>3, <3>4 DEF Main, ReadStartTime, IngestionDone, QueriesDone, StartCounting, CountSeries,
         Report, ListKeys, vars, storeVars
    <3> QED
      BY <3>1, <3>2, <3>3, <3>4
  <2> QED
    BY <1>1, <2>1 DEF Advances
<1> QED
  BY <1>1, <1>2, <1>3

LEMMA MainKeeps ==
  ASSUME ServerInv, Main
  PROVE  ServerInv'
<1>1. QueryInv' /\ IngestInv' /\ ReportInv' /\ ShowInv'
  <2>1. CASE InsertNext \/ InsertStep \/ InsertReturns
    <3>1. /\ UNCHANGED <<clientVars, windowVars>>
          /\ UNCHANGED <<task, uncounted, reports, shown>>
      BY <2>1 DEF InsertNext, InsertStep, InsertReturns, mainVars, countVars
    <3>2. InsertStep => UNCHANGED <<clientVars, windowVars, task, inserted>>
      BY DEF InsertStep, mainVars
    <3>3. QueryInv' /\ IngestInv' /\ task = "ingest"
      <4>1. InsertNext \/ InsertReturns => task = "ingest"
        BY DEF InsertNext, InsertReturns
      <4>2. InsertStep => Store!Announce(ingest) \/ Store!Store(ingest)
        BY DEF InsertStep
      <4> QED
        BY <2>1, <3>2, <4>1, <4>2, InsertNextKeeps, InsertReturnsKeeps, AnnounceKeeps, StoreKeeps
    <3>4. ReportInv' /\ ShowInv'
      BY <3>1, <3>3, IngestionShowsNothing DEF ServerInv
    <3> QED
      BY <3>3, <3>4
  <2>2. CASE ~(InsertNext \/ InsertStep \/ InsertReturns)
    BY <2>2, ReadStartTimeKeeps, StartCountingKeeps, CountSeriesKeeps, ReportKeeps, ListKeysKeeps,
       CallQueryKeeps, QueryStepKeeps, LogResultKeeps DEF Main
  <2> QED
    BY <2>1, <2>2
<1>2. SweepInv'
  <2>1. elapsed' = elapsed /\ sweep' = sweep /\ known \subseteq known' /\ \A k \in Keys : Advances(k)
    BY MainAdvances
  <2>2. SweepInv /\ StoreTyped /\ CountsTyped /\ CountsTyped'
    BY <1>1 DEF ServerInv, QueryInv
  <2>3. elapsed' \in 0 .. MaxElapsed
    BY <2>1, <2>2 DEF SweepInv
  <2> QED
    BY <2>1, <2>2, <2>3, SweepGoesOn
<1> QED
  BY <1>1, <1>2 DEF ServerInv

LEMMA CleanupKeeps ==
  ASSUME ServerInv, Cleanup
  PROVE  ServerInv'
<1>1. SweepInv /\ StoreTyped /\ CountsTyped
  BY DEF ServerInv, QueryInv
<1>2. CASE Tick
  <2>1. UNCHANGED vars /\ UNCHANGED mainVars
    BY <1>2 DEF Tick
  <2> QED
    BY <1>1, <1>2, <2>1, OthersAtRest, TickKeeps DEF ServerInv
<1>3. ASSUME NEW k \in Keys, SweepSeries(k) PROVE ServerInv'
  <2>1. /\ UNCHANGED <<clientVars, windowVars, mainVars>>
        /\ UNCHANGED clientVars /\ UNCHANGED windowVars /\ UNCHANGED mainVars
        /\ Store!SealExpired(k) \/ UNCHANGED storeVars
    BY <1>3 DEF SweepSeries
  <2>2. QueryInv' /\ IngestInv' /\ ReportInv' /\ ShowInv'
    <3>1. CASE Store!SealExpired(k)
      BY <2>1, <3>1, SealKeeps
    <3>2. CASE UNCHANGED storeVars
      <4>1. UNCHANGED vars
        BY <2>1, <3>2 DEF vars
      <4> QED
        BY <2>1, <4>1, OthersAtRest
    <3> QED
      BY <2>1, <3>1, <3>2
  <2>3. SweepInv'
    BY <1>1, <1>3, <2>2, SweepSeriesKeeps DEF QueryInv
  <2> QED
    BY <2>2, <2>3 DEF ServerInv
<1>4. CASE SweepEnd
  <2>1. UNCHANGED vars /\ UNCHANGED mainVars /\ elapsed' = elapsed /\ sweep' = Nil
    BY <1>4 DEF SweepEnd
  <2> QED
    BY <1>1, <2>1, OthersAtRest DEF ServerInv, SweepInv
<1> QED
  BY <1>2, <1>3, <1>4 DEF Cleanup

LEMMA NextServer == ServerInv /\ [ServerNext]_allVars => ServerInv'
<1> SUFFICES ASSUME ServerInv, [ServerNext]_allVars PROVE ServerInv'
  OBVIOUS
<1>1. CASE PassTime \/ UNCHANGED allVars
  <2>1. UNCHANGED vars /\ UNCHANGED mainVars /\ sweep' = sweep
    BY <1>1 DEF PassTime, allVars, sweepVars
  <2>2. QueryInv' /\ IngestInv' /\ ReportInv' /\ ShowInv'
    BY <2>1, OthersAtRest
  <2>3. elapsed' \in 0 .. MaxElapsed
    <3>1. elapsed \in 0 .. MaxElapsed /\ MaxElapsed \in Nat
      BY TimerAssumption DEF ServerInv, SweepInv
    <3>2. elapsed' = elapsed \/ (elapsed < MaxElapsed /\ elapsed' = elapsed + 1)
      BY <1>1 DEF PassTime, allVars
    <3> QED
      BY <3>1, <3>2
  <2>4. known' = known /\ \A k \in Keys : Advances(k)
    BY <2>1 DEF vars, storeVars, Advances
  <2>5. SweepInv /\ StoreTyped /\ CountsTyped /\ CountsTyped'
    BY <2>2 DEF ServerInv, QueryInv
  <2>6. SweepInv'
    BY <2>1, <2>3, <2>4, <2>5, SweepGoesOn
  <2> QED
    BY <2>2, <2>6 DEF ServerInv
<1> QED
  BY <1>1, MainKeeps, CleanupKeeps DEF ServerNext

-----------------------------------------------------------------------------
(* What follows *)

\* The state of the server keeps its types, with whatever main and the
\* cleanup task have done by turns; at the end both reports were made and
\* both results shown (server.rs main).
THEOREM ServerTypeCorrect == ServerSpec => []ServerTypeOK
<1>1. ServerInv => ServerTypeOK
  <2> SUFFICES ASSUME ServerInv PROVE ServerTypeOK
    OBVIOUS
  <2> USE DEF ServerInv
  <2>1. QueryTypeOK
    <3>1. BatchInv /\ ScannedOK /\ PlaceOK
      BY DEF QueryInv, QueriesKept
    <3>2. Len(results) <= Len(scanned) /\ Len(scanned) <= Len(asked)
      BY <3>1, ScannedOfAsked
    <3>3. \A i \in DOMAIN scanned : scanned[i] \in Seq(Point)
      BY <3>1 DEF ScannedOK
    <3> QED
      BY <3>1, <3>2, <3>3 DEF BatchInv, PlaceOK, QueryTypeOK
  <2> QED
    BY <2>1 DEF IngestInv, ReportInv, ShowInv, SweepInv, ServerTypeOK, Tasks, All
<1> QED
  BY <1>1, InitServer, NextServer, PTL DEF ServerSpec

\* Both reports count every point that was inserted, however the cleanup
\* task moves points out of the open blocks while main adds the series up
\* (server.rs main, memory.rs get_stats).
THEOREM ServerReportsExact == ServerSpec => []ReportsExact
<1>1. ServerInv => ReportsExact
  <2> SUFFICES ASSUME ServerInv, NEW r \in DOMAIN reports
               PROVE  reports[r] = FullReport /\ inserted = All
    BY DEF ReportsExact, FullReport
  <2>1. reports \in Seq({FullReport})
    BY DEF ServerInv, ReportInv
  <2>2. reports[r] \in {FullReport} /\ Len(reports) # 0
    BY <2>1
  <2>3. task \notin {"start", "ingest"}
    BY <2>2 DEF ServerInv, ReportInv
  <2> QED
    BY <2>2, <2>3 DEF ServerInv, IngestInv
<1> QED
  BY <1>1, InitServer, NextServer, PTL DEF ServerSpec

\* The average is over all of the points shown just before, or over none,
\* if the cleanup task has sealed them in between (server.rs demo_queries).
THEOREM ServerAverageOfShown == ServerSpec => []AverageOfShown
<1>1. ServerInv => AverageOfShown
  BY DEF ServerInv, ShowInv
<1> QED
  BY <1>1, InitServer, NextServer, PTL DEF ServerSpec

\* When a sweep ends, every block that was open as it began is sealed, by it
\* or by an insert, or had not expired at one of the times the sweep was told,
\* with the system's time set forward and back at will (server.rs main,
\* memory.rs seal_expired_blocks, block.rs should_seal).
THEOREM ServerSweepsDue == ServerSpec => SweepSealsDue
<1> DEFINE Sealed ==
      sweep # Nil /\ sweep' = Nil =>
        \A k \in DOMAIN sweep.before :
          Len(archived[k]) > sweep.before[k] \/ ~Store!Expired(k, sweep.earliest)
<1>1. ServerInv /\ [ServerNext]_allVars => Sealed
  <2> SUFFICES ASSUME ServerInv, [ServerNext]_allVars, sweep # Nil, sweep' = Nil,
                      NEW k \in DOMAIN sweep.before
               PROVE  Len(archived[k]) > sweep.before[k] \/ ~Store!Expired(k, sweep.earliest)
    OBVIOUS
  <2>1. SweepInv /\ StoreTyped /\ CountsTyped
    BY DEF ServerInv, QueryInv
  <2>2. SweepEnd
    <3>1. CASE Main \/ PassTime \/ UNCHANGED allVars
      BY <3>1, MainAdvances DEF PassTime, allVars, sweepVars
    <3>2. CASE Tick
      BY <3>2 DEF Tick
    <3>3. ASSUME NEW j \in Keys, SweepSeries(j) PROVE FALSE
      <4>1. j \in Keys /\ CountsTyped'
        <5>1. ServerInv'
          BY NextServer
        <5> QED
          BY <2>1, <3>3, <5>1 DEF SweepSeries, CountsTyped, ServerInv, QueryInv
      <4>2. sweep' \in Sweep
        BY <2>1, <3>3, <4>1, SweepSeriesKeeps
      <4> QED
        BY <4>2, NoneAssumption DEF Sweep
    <3> QED
      BY <3>1, <3>2, <3>3 DEF ServerNext, Cleanup
  <2>3. k \in sweep.visited /\ Dealt(k)
    BY <2>1, <2>2 DEF SweepEnd, SweepInv
  <2> QED
    BY <2>3 DEF Dealt
<1>2. ServerSpec => [][Sealed]_allVars
  BY <1>1, InitServer, NextServer, PTL DEF ServerSpec
<1> QED
  BY <1>2 DEF SweepSealsDue

=============================================================================
