SPECIFICATION Spec
CONSTANTS
  Entries = {e1, e2}
  Garbage = Garbage
  Nil = Nil
  PrefixLen = 2
  DataLen = 2
  MaxLength = 5
  MaxStops = 1
SYMMETRY EntrySymmetry
INVARIANT AckedEntriesReplayed
