------------------------------ MODULE ValueCodec ------------------------------
(***************************************************************************)
(* ValueCompressor and ValueDecompressor of compression/src/value.rs.  A   *)
(* value is a word of WordBits bits (the bits of an f64) and is written as *)
(* its difference from the one before, without the zeros at its ends that  *)
(* the window, the last counts of leading and trailing zeros, covers.      *)
(***************************************************************************)
EXTENDS BitStream

CONSTANTS
  WordBits,    (* 64                                                       *)
  LeadBits,    (* the width of a count of leading zeros, 5                 *)
  LengthBits   (* the width of a count of meaningful bits, 6               *)

ASSUME WidthAssumption == {WordBits, LeadBits, LengthBits} \subseteq Nat \ {0}

Word == [1 .. WordBits -> Bit]

Xor(a, b) == [i \in 1 .. WordBits |-> (a[i] + b[i]) % 2]

\* leading_zeros and trailing_zeros of a word that is not 0.
LeadingZeros(x) ==
  CHOOSE n \in 0 .. WordBits - 1 : x[n + 1] = 1 /\ \A i \in 1 .. n : x[i] = 0

TrailingZeros(x) ==
  CHOOSE n \in 0 .. WordBits - 1 :
    x[WordBits - n] = 1 /\ \A i \in WordBits - n + 1 .. WordBits : x[i] = 0

FirstValue(value) == [last |-> value, leading |-> 0, trailing |-> 0]

InWindow(state, x) == LeadingZeros(x) >= state.leading /\ TrailingZeros(x) >= state.trailing

\* The bits of x between its leading and trailing zeros.
Meaningful(x, leading, trailing) == SubSeq(x, leading + 1, WordBits - trailing)

\* The bits compress writes for the value, and its state afterwards.
ValueRecord(state, value) ==
  LET x == Xor(value, state.last)
      l == LeadingZeros(x)
      t == TrailingZeros(x)
  IN IF value = state.last THEN <<0>>
     ELSE IF InWindow(state, x)
     THEN <<1, 0>> \o Meaningful(x, state.leading, state.trailing)
     ELSE <<1, 1>> \o Bits(l, LeadBits) \o Bits(WordBits - l - t, LengthBits) \o Meaningful(x, l, t)

\* Faulty variant: the last value is kept only when a new window is written.
ValueAfterStale(state, value) ==
  LET x == Xor(value, state.last)
  IN IF value = state.last \/ InWindow(state, x) THEN state
     ELSE [last |-> value, leading |-> LeadingZeros(x), trailing |-> TrailingZeros(x)]

ValueAfter(state, value) ==
  LET x == Xor(value, state.last)
  IN IF value = state.last THEN state
     ELSE IF InWindow(state, x) THEN [state EXCEPT !.last = value]
     ELSE [last |-> value, leading |-> LeadingZeros(x), trailing |-> TrailingZeros(x)]

\* The window and the meaningful bits' place in the record these bits begin
\* with; NoRecord if they end too early.
NoRecord == [leading |-> 0, trailing |-> 0, first |-> 1, length |-> 0]

WindowRecord(first, leading, trailing) ==
  [leading |-> leading, trailing |-> trailing, first |-> first,
   length  |-> first - 1 + WordBits - leading - trailing]

RecordOf(state, bits) ==
  LET header == 2 + LeadBits + LengthBits
      l      == Unsigned(SubSeq(bits, 3, 2 + LeadBits))
      m      == Unsigned(SubSeq(bits, 3 + LeadBits, header))
      r      == IF bits[2] = 0 THEN WindowRecord(3, state.leading, state.trailing)
                ELSE IF Len(bits) < header THEN NoRecord
                ELSE WindowRecord(header + 1, l, WordBits - l - m)
  IN IF bits = <<>> THEN NoRecord
     ELSE IF bits[1] = 0 THEN [NoRecord EXCEPT !.length = 1]
     ELSE IF Len(bits) < 2 \/ r.length > Len(bits) THEN NoRecord ELSE r

\* decompress of the bits: the value it answers is the state's last one.
ValueRead(state, bits) ==
  LET r == RecordOf(state, bits)
      x == Zeros(r.leading) \o SubSeq(bits, r.first, r.length) \o Zeros(r.trailing)
  IN IF bits[1] = 0 THEN state
     ELSE [last |-> Xor(state.last, x), leading |-> r.leading, trailing |-> r.trailing]
=============================================================================
