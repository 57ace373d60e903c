---------------------------- MODULE MCBlockCodec ----------------------------
(* Instances of BlockCodec for TLC. *)
EXTENDS BlockCodec

\* Differences at both sides of every field's limits, in both directions.
LimitTimestamps == {0, 1, 64, 65, 256, 321, 2048, 2049}

AllWords == Word
=============================================================================
