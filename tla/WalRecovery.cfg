SPECIFICATION Spec
CONSTANTS
  Entries = {e1, e2, e3}
  Garbage = Garbage
  Nil = Nil
  PrefixLen = 2
  DataLen = 2
  MaxLength = 5
  MaxStops = 2
SYMMETRY EntrySymmetry
INVARIANT TypeOK
INVARIANT HeldEntriesReplayed
INVARIANT WholeFileReplaysExactly
INVARIANT CountedEntriesReplayed
INVARIANT TruncatedStaysGone
