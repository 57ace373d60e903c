------------------------------ MODULE BitStream ------------------------------
(***************************************************************************)
(* The bits BitWriter and BitReader of compression/src/timestamp.rs        *)
(* exchange: a stream is a sequence of 0s and 1s, most significant bit of  *)
(* a number first.                                                         *)
(***************************************************************************)
EXTENDS Integers, Sequences, Functions

Bit == {0, 1}

\* What write_bits(v, n) appends: the n low bits of v in two's complement.
Bits(v, n) == [i \in 1 .. n |-> (v \div 2 ^ (n - i)) % 2]

\* The number read_bits answers for these bits.
Unsigned(bits) == SumFunction([i \in 1 .. Len(bits) |-> bits[i] * 2 ^ (Len(bits) - i)])

\* The same bits with their first one as the sign.
Signed(bits) == Unsigned(bits) - IF bits[1] = 1 THEN 2 ^ Len(bits) ELSE 0

Zeros(n) == [i \in 1 .. n |-> 0]

\* Faulty variant: as many zeros as the last byte has bits.
PaddedByUse(bits) == bits \o Zeros(Len(bits) % 8)

\* finish hands out whole bytes.
Padded(bits) == bits \o Zeros((-Len(bits)) % 8)

\* What is left of the stream at bit position pos.
From(bits, pos) == SubSeq(bits, pos + 1, Len(bits))
=============================================================================
