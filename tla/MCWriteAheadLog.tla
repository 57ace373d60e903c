--------------------------- MODULE MCWriteAheadLog ---------------------------
(* Instances of WriteAheadLog for TLC. *)
EXTENDS WriteAheadLog, TLC

EntrySymmetry == Permutations(Entries)
=============================================================================
