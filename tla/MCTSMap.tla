------------------------------- MODULE MCTSMap -------------------------------
(* Instances of TSMap for TLC. *)
EXTENDS TSMapRefinement, TLC

CONSTANTS ingest1, ingest2, cleanup, reader, k1, k2, k3

\* The server: ingestion, cleanup task, a thread that runs range queries.
ScanRoles ==
  (ingest1 :> {"insert"} @@ cleanup :> {"seal_expired_blocks"} @@ reader :> {"scan_range"})

\* One thread that inserts, one that inserts and reads, the cleanup task.
StoreRoles ==
  (ingest1 :> {"insert"} @@ cleanup :> {"seal_expired_blocks"}
     @@ reader :> {"insert", "scan_range", "get_series"})

\* Ingestion, cleanup task, a thread that lists keys and asks for stats.
WalkRoles ==
  (ingest1 :> {"insert"} @@ cleanup :> {"seal_expired_blocks"}
     @@ reader :> {"keys", "get_stats", "len"})

OneShard == [k \in Keys |-> 1]
TwoShards == [k \in Keys |-> IF k = k1 THEN 1 ELSE 2]

ValueSymmetry == Permutations(Values)
=============================================================================
