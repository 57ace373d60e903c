-------------------------- MODULE BlockCodecProofs --------------------------
(***************************************************************************)
(* Theorems about BlockCodec for any timestamps that lie in one block and  *)
(* any words, any number of points, any width of a word and of its counts, *)
(* and a widest field of up to 32 bits.                                    *)
(*                                                                         *)
(* The invariant describes the stream by its marks: between those of two   *)
(* points there is the prefix of some field and room for its bits, then a  *)
(* 0, or 1, 0 and a whole word, the difference of the two values; behind   *)
(* the last mark there are zeros (StreamInv).  That it is a whole word is  *)
(* due to the window, which stays what it is at first (WriterInv).  So the *)
(* reader, whose window does too, goes from mark to mark, and each value   *)
(* it makes is off by what the one before was (ReaderInv).                 *)
(*                                                                         *)
(* On top of that, TimestampInv says which bits are behind a mark: those   *)
(* of the next timestamp, as the compressor writes it that has seen the    *)
(* ones before.  What the bits of a number are read as is a sum that       *)
(* telescopes (UnsignedOfBits), so a change of delta is read as it is      *)
(* unless its field cannot hold it (FieldDecodes), and the reader's state  *)
(* is the compressor's up to the first that is not.                        *)
(***************************************************************************)
EXTENDS BlockCodec, SumProofs, SequenceTheorems

-----------------------------------------------------------------------------
(* Sequences of bits *)

LEMMA Widths ==
  /\ WideBits \in Nat /\ WideBits \in 13 .. 32
  /\ WordBits \in Nat /\ WordBits >= 1
  /\ LeadBits \in Nat /\ LengthBits \in Nat
BY WideAssumption, WidthAssumption

LEMMA FromFacts ==
  ASSUME NEW b \in Seq(Bit), NEW p \in 0 .. Len(b)
  PROVE  /\ From(b, p) \in Seq(Bit) /\ Len(From(b, p)) = Len(b) - p
         /\ \A j \in 1 .. Len(b) - p : From(b, p)[j] = b[p + j]
<1> DEFINE n == Len(b)
<1>1. n \in Nat /\ p \in 0 .. n
  BY LenProperties
<1>2. \A i \in p + 1 .. n : b[i] \in Bit
  BY <1>1, ElementOfSeq
<1>3. From(b, p) = SubSeq(b, p + 1, n)
  BY DEF From
<1> HIDE DEF n
<1>4. p + 1 \in Int /\ n \in Int /\ n - (p + 1) + 1 = n - p /\ (IF p + 1 <= n THEN n - p ELSE 0) = n - p
  BY <1>1
<1>5. \A j \in 1 .. n - p : (p + 1) + j - 1 = p + j
  BY <1>1
<1>6. /\ SubSeq(b, p + 1, n) \in Seq(Bit)
      /\ Len(SubSeq(b, p + 1, n)) = IF p + 1 <= n THEN n - (p + 1) + 1 ELSE 0
      /\ \A j \in 1 .. n - (p + 1) + 1 : SubSeq(b, p + 1, n)[j] = b[(p + 1) + j - 1]
  BY <1>2, <1>4, SubSeqProperties
<1> QED
  BY <1>3, <1>4, <1>5, <1>6 DEF n

\* A sequence is given by its length and elements.
LEMMA BitsOf ==
  ASSUME NEW n \in Nat, NEW s \in [1 .. n -> Bit]
  PROVE  s \in Seq(Bit) /\ Len(s) = n
OBVIOUS

LEMMA WordSeq == \A w \in Word : w \in Seq(Bit) /\ Len(w) = WordBits
BY BitsOf, Widths DEF Word

LEMMA ZerosFacts ==
  ASSUME NEW n \in Nat
  PROVE  Zeros(n) \in Seq(Bit) /\ Len(Zeros(n)) = n /\ \A i \in 1 .. n : Zeros(n)[i] = 0
<1>1. Zeros(n) \in [1 .. n -> Bit]
  BY DEF Zeros, Bit
<1> QED
  BY <1>1, BitsOf DEF Zeros

LEMMA BitsFacts ==
  ASSUME NEW v \in Int, NEW n \in Nat
  PROVE  Bits(v, n) \in Seq(Bit) /\ Len(Bits(v, n)) = n
<1>1. \A i \in 1 .. n : n - i \in Nat
  OBVIOUS
<1>2. \A k \in Nat : (v \div 2 ^ k) % 2 \in Bit
  BY DEF Bit
<1>3. Bits(v, n) \in [1 .. n -> Bit]
  BY <1>1, <1>2 DEF Bits
<1> QED
  BY <1>3, BitsOf

\* What is written behind a stream leaves the stream as it was.
LEMMA Extended ==
  ASSUME NEW b \in Seq(Bit), NEW r \in Seq(Bit)
  PROVE  /\ b \o r \in Seq(Bit) /\ Len(b \o r) = Len(b) + Len(r)
         /\ Len(b) <= Len(b \o r)
         /\ \A i \in 1 .. Len(b) : (b \o r)[i] = b[i]
         /\ \A i \in 1 .. Len(r) : (b \o r)[Len(b) + i] = r[i]
<1> DEFINE m == Len(b)
           n == Len(r)
<1>1. m \in Nat /\ n \in Nat
  BY LenProperties
<1>2. /\ b \o r \in Seq(Bit) /\ Len(b \o r) = m + n
      /\ \A i \in 1 .. m + n : (b \o r)[i] = IF i <= m THEN b[i] ELSE r[i - m]
  BY ConcatProperties
<1> HIDE DEF m, n
<1>3. m <= m + n
  BY <1>1
<1>4. \A i \in 1 .. m : i \in 1 .. m + n /\ i <= m
  BY <1>1
<1>5. \A i \in 1 .. n : m + i \in 1 .. m + n /\ ~(m + i <= m) /\ (m + i) - m = i
  BY <1>1
<1> QED
  BY <1>2, <1>3, <1>4, <1>5 DEF m, n

LEMMA NumberFacts ==
  ASSUME NEW b \in Seq(Bit)
  PROVE  Unsigned(b) \in Int /\ Signed(b) \in Int
<1> DEFINE n == Len(b)
           t == [i \in 1 .. n |-> b[i] * 2 ^ (n - i)]
<1>1. n \in Nat
  BY LenProperties
<1>2. \A i \in 1 .. n : b[i] \in Int
  BY ElementOfSeq DEF Bit
<1> HIDE DEF n
<1>3. \A k \in Nat : 2 ^ k \in Int
  OBVIOUS
<1>4. \A i \in 1 .. n : t[i] \in Int
  BY <1>1, <1>2, <1>3
<1>5. IsFiniteSet(1 .. n) /\ DOMAIN t = 1 .. n
  BY <1>1, FS_Interval
<1>6. Unsigned(b) = SumFunctionOnSet(t, 1 .. n)
  BY <1>5 DEF Unsigned, SumFunction, n
<1>7. Unsigned(b) \in Int
  <2> HIDE DEF t
  <2>1. SumFunctionOnSet(t, 1 .. n) \in Int
    <3> DEFINE S == 1 .. n
    <3>1. IsFiniteSet(S) /\ \A x \in S : t[x] \in Int
      BY <1>4, <1>5
    <3> HIDE DEF S
    <3>2. SumFunctionOnSet(t, S) \in Int
      BY <3>1, SumType
    <3> QED
      BY <3>2 DEF S
  <2> QED
    BY <1>6, <2>1
<1>8. 2 ^ n \in Int
  BY <1>1, <1>3
<1> QED
  BY <1>7, <1>8 DEF Signed, n

-----------------------------------------------------------------------------
(* Powers of 2 *)

Doubles(k) == 2 ^ k \in Nat /\ 2 ^ k >= 1 /\ 2 ^ (k + 1) = 2 * 2 ^ k

\* The provers know the powers of 2 by their values, and no field is wider
\* than 32 bits.
LEMMA Doubling == \A k \in 0 .. 31 : Doubles(k)
<1> SUFFICES ASSUME NEW k \in 0 .. 31 PROVE Doubles(k)
  OBVIOUS
<1>1. CASE k \in 0 .. 7
  <2>1. /\ Doubles(0) /\ Doubles(1) /\ Doubles(2) /\ Doubles(3)
        /\ Doubles(4) /\ Doubles(5) /\ Doubles(6) /\ Doubles(7)
    BY DEF Doubles
  <2>2. k = 0 \/ k = 1 \/ k = 2 \/ k = 3 \/ k = 4 \/ k = 5 \/ k = 6 \/ k = 7
    BY <1>1
  <2> QED
    BY <2>1, <2>2
<1>2. CASE k \in 8 .. 15
  <2>1. /\ Doubles(8) /\ Doubles(9) /\ Doubles(10) /\ Doubles(11)
        /\ Doubles(12) /\ Doubles(13) /\ Doubles(14) /\ Doubles(15)
    BY DEF Doubles
  <2>2. k = 8 \/ k = 9 \/ k = 10 \/ k = 11 \/ k = 12 \/ k = 13 \/ k = 14 \/ k = 15
    BY <1>2
  <2> QED
    BY <2>1, <2>2
<1>3. CASE k \in 16 .. 23
  <2>1. /\ Doubles(16) /\ Doubles(17) /\ Doubles(18) /\ Doubles(19)
        /\ Doubles(20) /\ Doubles(21) /\ Doubles(22) /\ Doubles(23)
    BY DEF Doubles
  <2>2. k = 16 \/ k = 17 \/ k = 18 \/ k = 19 \/ k = 20 \/ k = 21 \/ k = 22 \/ k = 23
    BY <1>3
  <2> QED
    BY <2>1, <2>2
<1>4. CASE k \in 24 .. 31
  <2>1. /\ Doubles(24) /\ Doubles(25) /\ Doubles(26) /\ Doubles(27)
        /\ Doubles(28) /\ Doubles(29) /\ Doubles(30) /\ Doubles(31)
    BY DEF Doubles
  <2>2. k = 24 \/ k = 25 \/ k = 26 \/ k = 27 \/ k = 28 \/ k = 29 \/ k = 30 \/ k = 31
    BY <1>4
  <2> QED
    BY <2>1, <2>2
<1> QED
  BY <1>1, <1>2, <1>3, <1>4

\* A number cut at a bit: what is above it, and the bit.
LEMMA BitSplit ==
  ASSUME NEW v \in Int, NEW k \in 0 .. 31
  PROVE  /\ (v \div 2 ^ k) * 2 ^ k \in Int /\ (v \div 2 ^ (k + 1)) * 2 ^ (k + 1) \in Int
         /\ ((v \div 2 ^ k) % 2) * 2 ^ k
              = (v \div 2 ^ k) * 2 ^ k - (v \div 2 ^ (k + 1)) * 2 ^ (k + 1)
<1> DEFINE m == 2 ^ k
           q == v \div m
<1>1. m \in Nat /\ m > 0 /\ 2 ^ (k + 1) = 2 * m
  <2>1. Doubles(k)
    BY Doubling
  <2>2. 2 ^ k \in Nat /\ 2 ^ k >= 1 /\ 2 ^ (k + 1) = 2 * 2 ^ k
    BY <2>1 DEF Doubles
  <2> HIDE DEF m
  <2> QED
    BY <2>2 DEF m
<1> HIDE DEF m
<1>2. q \in Int /\ q \div 2 = v \div (2 * m)
  BY <1>1
<1> DEFINE r == v \div (2 * m)
<1>3. r \in Int /\ q = 2 * r + (q % 2) /\ q % 2 \in Int
  <2> HIDE DEF q
  <2> QED
    BY <1>2
<1> HIDE DEF q, r
<1>4. (q % 2) * m = q * m - r * (2 * m) /\ q * m \in Int /\ r * (2 * m) \in Int
  <2> DEFINE b == q % 2
  <2>1. q = 2 * r + b /\ b \in Int
    BY <1>3
  <2> HIDE DEF b
  <2>2. b * m = q * m - r * (2 * m)
    BY <1>1, <1>2, <1>3, <2>1
  <2> QED
    BY <1>1, <1>2, <1>3, <2>2 DEF b
<1> QED
  BY <1>1, <1>4 DEF m, q, r

\* Reading n bits of a number as they are: what is above them is lost.
LEMMA UnsignedOfBits ==
  ASSUME NEW v \in Int, NEW n \in 1 .. 32
  PROVE  /\ Unsigned(Bits(v, n)) = v - (v \div 2 ^ n) * 2 ^ n
         /\ Bits(v, n)[1] = (v \div 2 ^ (n - 1)) % 2
<1> DEFINE b == Bits(v, n)
           f == [i \in 1 .. n |-> b[i] * 2 ^ (n - i)]
           high(k) == (v \div 2 ^ k) * 2 ^ k
           c == [i \in 1 .. n |-> high(n - i) - high(n)]
<1>1. Len(b) = n /\ \A i \in 1 .. n : b[i] = (v \div 2 ^ (n - i)) % 2
  BY BitsFacts DEF Bits
<1>2. ASSUME NEW k \in 0 .. 31
      PROVE  /\ high(k) \in Int /\ high(k + 1) \in Int
             /\ ((v \div 2 ^ k) % 2) * 2 ^ k = high(k) - high(k + 1)
  BY BitSplit
<1>3. high(n) \in Int
  <2>1. n - 1 \in 0 .. 31 /\ (n - 1) + 1 = n
    OBVIOUS
  <2>2. high((n - 1) + 1) \in Int
    BY <1>2, <2>1
  <2> QED
    BY <2>1, <2>2
<1> HIDE DEF b, high
<1>4. ASSUME NEW i \in 1 .. n
      PROVE  high(n - i) \in Int /\ high(n - i + 1) \in Int /\ f[i] = high(n - i) - high(n - i + 1)
  <2>1. n - i \in 0 .. 31
    OBVIOUS
  <2>2. f[i] = ((v \div 2 ^ (n - i)) % 2) * 2 ^ (n - i)
    BY <1>1
  <2> QED
    BY <1>2, <2>1, <2>2
<1>5. \A i \in 1 .. n : c[i] \in Int
  BY <1>3, <1>4
<1>6. f[1] = c[1]
  <2>1. 1 \in 1 .. n /\ n - 1 + 1 = n
    OBVIOUS
  <2>2. f[1] = high(n - 1) - high(n)
    BY <1>4, <2>1
  <2> QED
    BY <2>1, <2>2
<1>7. \A i \in 2 .. n : f[i] = c[i] - c[i - 1]
  <2> SUFFICES ASSUME NEW i \in 2 .. n PROVE f[i] = c[i] - c[i - 1]
    OBVIOUS
  <2>1. i \in 1 .. n /\ i - 1 \in 1 .. n /\ n - i + 1 = n - (i - 1)
    OBVIOUS
  <2>2. f[i] = high(n - i) - high(n - (i - 1))
    BY <1>4, <2>1
  <2>3. c[i] = high(n - i) - high(n) /\ c[i - 1] = high(n - (i - 1)) - high(n)
    BY <2>1
  <2>4. high(n - i) \in Int /\ high(n - (i - 1)) \in Int
    BY <1>4, <2>1
  <2> HIDE DEF f, c
  <2> QED
    BY <1>3, <2>2, <2>3, <2>4
<1>8. SumFunctionOnSet(f, 1 .. n) = c[n]
  <2>1. n \in Nat /\ n > 0
    OBVIOUS
  <2> HIDE DEF f, c
  <2> QED
    BY <1>5, <1>6, <1>7, <2>1, SumOfSteps
<1>9. Unsigned(b) = SumFunctionOnSet(f, 1 .. n)
  BY <1>1 DEF Unsigned, SumFunction
<1>10. c[n] = v - high(n)
  <2>1. n \in 1 .. n /\ n - n = 0
    OBVIOUS
  <2>2. c[n] = high(0) - high(n)
    BY <2>1
  <2>3. high(0) = v
    BY DEF high
  <2> QED
    BY <2>2, <2>3
<1>11. 1 \in 1 .. n
  OBVIOUS
<1> QED
  BY <1>1, <1>8, <1>9, <1>10, <1>11 DEF b, high

\* The quotient is the one number that leaves a remainder.
LEMMA Quotient ==
  ASSUME NEW v \in Int, NEW m \in Nat, m > 0, NEW q \in Int, q * m <= v, v < q * m + m
  PROVE  v \div m = q
OBVIOUS

\* A number that fits n bits with a sign is read as what it is; the least one
\* too many has the bits of the least number.
LEMMA SignedOfBits ==
  ASSUME NEW v \in Int, NEW n \in 1 .. 32, -(2 ^ (n - 1)) <= v, v <= 2 ^ (n - 1)
  PROVE  Signed(Bits(v, n)) = IF v = 2 ^ (n - 1) THEN -(2 ^ (n - 1)) ELSE v
<1> DEFINE h == 2 ^ (n - 1)
           b == Bits(v, n)
<1>1. h \in Nat /\ h > 0 /\ 2 ^ n = 2 * h
  <2>1. n - 1 \in 0 .. 31 /\ (n - 1) + 1 = n
    OBVIOUS
  <2>2. Doubles(n - 1)
    BY <2>1, Doubling
  <2>3. h \in Nat /\ h >= 1 /\ 2 ^ ((n - 1) + 1) = 2 * h
    BY <2>2 DEF Doubles
  <2> HIDE DEF h
  <2> QED
    BY <2>1, <2>3
<1>2. Unsigned(b) = v - (v \div (2 * h)) * (2 * h) /\ b[1] = (v \div h) % 2
  BY <1>1, UnsignedOfBits
<1>3. Len(b) = n
  BY BitsFacts
<1>4. Signed(b) = Unsigned(b) - IF b[1] = 1 THEN 2 * h ELSE 0
  BY <1>1, <1>3 DEF Signed
<1>5. -h <= v /\ v <= h
  OBVIOUS
<1> HIDE DEF h, b
<1>6. 2 * h \in Nat /\ 2 * h > 0
  BY <1>1
<1>7. CASE v < 0
  <2>1. (-1) * h <= v /\ v < (-1) * h + h /\ (-1) * (2 * h) <= v /\ v < (-1) * (2 * h) + 2 * h
    BY <1>1, <1>5, <1>7
  <2>2. v \div h = -1 /\ v \div (2 * h) = -1
    BY <1>1, <1>6, <2>1, Quotient
  <2>3. b[1] = 1 /\ Unsigned(b) = v + 2 * h
    BY <1>1, <1>2, <2>2
  <2> QED
    BY <1>1, <1>4, <1>7, <2>3 DEF h, b
<1>8. CASE v >= 0 /\ v < h
  <2>1. 0 * h <= v /\ v < 0 * h + h /\ 0 * (2 * h) <= v /\ v < 0 * (2 * h) + 2 * h
    BY <1>1, <1>8
  <2>2. v \div h = 0 /\ v \div (2 * h) = 0
    BY <1>1, <1>6, <2>1, Quotient
  <2>3. b[1] = 0 /\ Unsigned(b) = v
    BY <1>1, <1>2, <2>2
  <2> QED
    BY <1>1, <1>4, <1>8, <2>3 DEF h, b
<1>9. CASE v = h
  <2>1. 1 * h <= v /\ v < 1 * h + h /\ 0 * (2 * h) <= v /\ v < 0 * (2 * h) + 2 * h
    BY <1>1, <1>9
  <2>2. v \div h = 1 /\ v \div (2 * h) = 0
    BY <1>1, <1>6, <2>1, Quotient
  <2>3. b[1] = 1 /\ Unsigned(b) = v
    BY <1>1, <1>2, <2>2
  <2> QED
    BY <1>1, <1>4, <1>9, <2>3 DEF h, b
<1> QED
  BY <1>1, <1>5, <1>7, <1>8, <1>9

-----------------------------------------------------------------------------
(* The fields of a timestamp *)

LEMMA PrefixTable ==
  /\ FieldPrefix[1] = <<0>> /\ FieldPrefix[2] = <<1, 0>> /\ FieldPrefix[3] = <<1, 1, 0>>
  /\ FieldPrefix[4] = <<1, 1, 1, 0>> /\ FieldPrefix[5] = <<1, 1, 1, 1>>
BY DEF FieldPrefix

LEMMA PrefixLengths ==
  /\ Len(FieldPrefix[1]) = 1 /\ Len(FieldPrefix[2]) = 2 /\ Len(FieldPrefix[3]) = 3
  /\ Len(FieldPrefix[4]) = 4 /\ Len(FieldPrefix[5]) = 4
BY PrefixTable

LEMMA PrefixBits ==
  /\ FieldPrefix[1][1] = 0
  /\ FieldPrefix[2][1] = 1 /\ FieldPrefix[2][2] = 0
  /\ FieldPrefix[3][1] = 1 /\ FieldPrefix[3][2] = 1 /\ FieldPrefix[3][3] = 0
  /\ FieldPrefix[4][1] = 1 /\ FieldPrefix[4][2] = 1 /\ FieldPrefix[4][3] = 1 /\ FieldPrefix[4][4] = 0
  /\ FieldPrefix[5][1] = 1 /\ FieldPrefix[5][2] = 1 /\ FieldPrefix[5][3] = 1 /\ FieldPrefix[5][4] = 1
BY PrefixTable

LEMMA FieldFacts ==
  ASSUME NEW f \in 1 .. 5
  PROVE  /\ FieldPrefix[f] \in Seq(Bit) /\ Len(FieldPrefix[f]) \in Nat /\ Len(FieldPrefix[f]) >= 1
         /\ FieldWidth[f] \in Nat
         /\ TimestampRecordLength(f) \in Nat /\ TimestampRecordLength(f) >= Len(FieldPrefix[f])
<1>1. f = 1 \/ f = 2 \/ f = 3 \/ f = 4 \/ f = 5
  OBVIOUS
<1>2. FieldPrefix[f] \in Seq(Bit)
  <2>1. 0 \in Bit /\ 1 \in Bit
    BY DEF Bit
  <2>2. <<0>> \in Seq(Bit)
    BY <2>1
  <2>3. <<1, 0>> \in Seq(Bit)
    BY <2>1
  <2>4. <<1, 1, 0>> \in Seq(Bit)
    BY <2>1
  <2>5. <<1, 1, 1, 0>> \in Seq(Bit)
    BY <2>1
  <2>6. <<1, 1, 1, 1>> \in Seq(Bit)
    BY <2>1
  <2> QED
    BY <1>1, <2>2, <2>3, <2>4, <2>5, <2>6, PrefixTable
<1>3. Len(FieldPrefix[f]) \in Nat /\ Len(FieldPrefix[f]) >= 1
  <2> DEFINE n == Len(FieldPrefix[f])
  <2>1. n = 1 \/ n = 2 \/ n = 3 \/ n = 4
    BY <1>1, PrefixLengths
  <2> HIDE DEF n
  <2>2. n \in Nat /\ n >= 1
    BY <2>1
  <2> QED
    BY <2>2 DEF n
<1>4. FieldWidth[f] \in Nat
  BY Widths DEF FieldWidth
<1> QED
  BY <1>2, <1>3, <1>4 DEF TimestampRecordLength

\* No prefix begins another.
LEMMA FieldsDiffer ==
  ASSUME NEW f \in 1 .. 5, NEW g \in 1 .. 5, f # g
  PROVE  \E j \in 1 .. Len(FieldPrefix[f]) :
           j \in 1 .. Len(FieldPrefix[g]) /\ FieldPrefix[f][j] # FieldPrefix[g][j]
<1>1. \A h \in 1 .. 5 : h = 1 \/ h = 2 \/ h = 3 \/ h = 4 \/ h = 5
  OBVIOUS
<1>2. ASSUME NEW a \in 1 .. 5, NEW b \in 1 .. 5, a < b
      PROVE  \E j \in 1 .. 4 : /\ j \in 1 .. Len(FieldPrefix[a]) /\ j \in 1 .. Len(FieldPrefix[b])
                              /\ FieldPrefix[a][j] # FieldPrefix[b][j]
  <2>1. CASE a = 1
    BY <1>1, <1>2, <2>1, PrefixLengths, PrefixBits
  <2>2. CASE a = 2
    BY <1>1, <1>2, <2>2, PrefixLengths, PrefixBits
  <2>3. CASE a = 3
    BY <1>1, <1>2, <2>3, PrefixLengths, PrefixBits
  <2>4. CASE a = 4
    BY <1>1, <1>2, <2>4, PrefixLengths, PrefixBits
  <2> QED
    BY <1>1, <1>2, <2>1, <2>2, <2>3, <2>4
<1>3. f < g \/ g < f
  OBVIOUS
<1> QED
  BY <1>2, <1>3

LEMMA FieldForType == \A dod \in Int : FieldFor(dod) \in 1 .. 5
BY DEF FieldFor

\* The prefix of the f-th field is in b, behind the first p bits.
PrefixAt(b, p, f) ==
  /\ p + Len(FieldPrefix[f]) <= Len(b)
  /\ \A j \in 1 .. Len(FieldPrefix[f]) : b[p + j] = FieldPrefix[f][j]

LEMMA PrefixOf ==
  ASSUME NEW s \in Seq(Bit), NEW f \in 1 .. 5
  PROVE  IsPrefix(FieldPrefix[f], s) <=> PrefixAt(s, 0, f)
<1> DEFINE p == FieldPrefix[f]
           n == Len(p)
<1>1. p \in Seq(Bit) /\ n \in Nat /\ Len(s) \in Nat
  BY FieldFacts, LenProperties
<1>2. PrefixAt(s, 0, f) <=> n <= Len(s) /\ \A j \in 1 .. n : s[j] = p[j]
  <2>1. 0 + n = n /\ \A j \in 1 .. n : 0 + j = j
    BY <1>1
  <2> QED
    BY <2>1 DEF PrefixAt
<1>3. IsPrefix(p, s) <=> n <= Len(s) /\ SubSeq(p, 1, n) = SubSeq(s, 1, n)
  BY DEF IsPrefix
<1> HIDE DEF n, p
<1>4. ASSUME n <= Len(s)
      PROVE  SubSeq(p, 1, n) = SubSeq(s, 1, n) <=> \A j \in 1 .. n : s[j] = p[j]
  <2>1. \A j \in 1 .. n : p[j] \in Bit /\ s[j] \in Bit
    <3>1. \A j \in 1 .. n : j \in 1 .. Len(s) /\ j \in 1 .. Len(p)
      BY <1>1, <1>4 DEF n
    <3> QED
      BY <1>1, <3>1, ElementOfSeq
  <2>2. /\ SubSeq(p, 1, n) \in Seq(Bit) /\ Len(SubSeq(p, 1, n)) = n
        /\ SubSeq(s, 1, n) \in Seq(Bit) /\ Len(SubSeq(s, 1, n)) = n
        /\ \A j \in 1 .. n : SubSeq(p, 1, n)[j] = p[j] /\ SubSeq(s, 1, n)[j] = s[j]
    BY <1>1, <2>1, SubSeqProperties
  <2>3. ASSUME \A j \in 1 .. n : s[j] = p[j] PROVE SubSeq(p, 1, n) = SubSeq(s, 1, n)
    BY <2>2, <2>3, SeqEqual
  <2> QED
    BY <2>2, <2>3
<1> QED
  BY <1>2, <1>3, <1>4 DEF p

\* The field found is the one whose prefix is there.
LEMMA FieldFound ==
  ASSUME NEW s \in Seq(Bit)
  PROVE  /\ FieldOf(s) \in 0 .. 5
         /\ FieldOf(s) # 0 => PrefixAt(s, 0, FieldOf(s))
         /\ \A f \in 1 .. 5 : PrefixAt(s, 0, f) => FieldOf(s) = f
<1>1. \A f \in 1 .. 5 : IsPrefix(FieldPrefix[f], s) <=> PrefixAt(s, 0, f)
  BY PrefixOf
<1>2. FieldOf(s) = IF \E f \in 1 .. 5 : PrefixAt(s, 0, f)
                   THEN CHOOSE f \in 1 .. 5 : IsPrefix(FieldPrefix[f], s) ELSE 0
  BY <1>1 DEF FieldOf
<1>3. ASSUME \E f \in 1 .. 5 : PrefixAt(s, 0, f)
      PROVE  FieldOf(s) \in 1 .. 5 /\ PrefixAt(s, 0, FieldOf(s))
  BY <1>1, <1>2, <1>3
<1>4. ASSUME NEW f \in 1 .. 5, NEW g \in 1 .. 5, PrefixAt(s, 0, f), PrefixAt(s, 0, g)
      PROVE  f = g
  <2> SUFFICES ASSUME f # g PROVE FALSE
    OBVIOUS
  <2>1. PICK j \in 1 .. Len(FieldPrefix[f]) :
          j \in 1 .. Len(FieldPrefix[g]) /\ FieldPrefix[f][j] # FieldPrefix[g][j]
    BY FieldsDiffer
  <2> QED
    BY <1>4, <2>1 DEF PrefixAt
<1>5. \A x : x \in 1 .. 5 => x \in 0 .. 5 /\ x # 0
  OBVIOUS
<1>6. CASE \E f \in 1 .. 5 : PrefixAt(s, 0, f)
  BY <1>3, <1>4, <1>5, <1>6
<1>7. CASE ~\E f \in 1 .. 5 : PrefixAt(s, 0, f)
  BY <1>2, <1>7
<1> QED
  BY <1>6, <1>7

TimestampState == [last : Int, delta : Int]

\* The record of the change dod of delta in the f-th field.
IsRecord(r, dod, f) ==
  /\ r \in Seq(Bit) /\ Len(r) = TimestampRecordLength(f)
  /\ PrefixAt(r, 0, f)
  /\ \A j \in 1 .. FieldWidth[f] : r[Len(FieldPrefix[f]) + j] = Bits(dod, FieldWidth[f])[j]

\* A record of a timestamp is the prefix of its field and the field's bits.
LEMMA RecordParts ==
  ASSUME NEW state \in TimestampState, NEW t \in Int
  PROVE  /\ DeltaOfDelta(state, t) \in Int /\ FieldFor(DeltaOfDelta(state, t)) \in 1 .. 5
         /\ IsRecord(TimestampRecord(state, t), DeltaOfDelta(state, t),
                     FieldFor(DeltaOfDelta(state, t)))
<1> DEFINE dod == DeltaOfDelta(state, t)
           f == FieldFor(dod)
           p == FieldPrefix[f]
           r == Bits(dod, FieldWidth[f])
           k == Len(p)
           n == Len(r)
<1>1. dod \in Int
  <2>1. state.last \in Int /\ state.delta \in Int
    BY DEF TimestampState
  <2> QED
    BY <2>1 DEF DeltaOfDelta
<1>2. f \in 1 .. 5
  BY <1>1, FieldForType
<1>3. p \in Seq(Bit) /\ k \in Nat /\ FieldWidth[f] \in Nat
  BY <1>2, FieldFacts
<1>4. r \in Seq(Bit) /\ n = FieldWidth[f]
  BY <1>1, <1>3, BitsFacts
<1>5. TimestampRecord(state, t) = p \o r
  BY DEF TimestampRecord
<1>6. TimestampRecordLength(f) = k + n
  BY <1>4 DEF TimestampRecordLength
<1> HIDE DEF r, p
<1>7. /\ p \o r \in Seq(Bit) /\ Len(p \o r) = k + n /\ k <= Len(p \o r)
      /\ \A j \in 1 .. k : (p \o r)[j] = p[j]
      /\ \A j \in 1 .. n : (p \o r)[k + j] = r[j]
  BY <1>3, <1>4, Extended
<1>8. PrefixAt(p \o r, 0, f)
  <2>1. 0 + k <= Len(p \o r) /\ \A j \in 1 .. k : 0 + j = j
    BY <1>3, <1>7
  <2> QED
    BY <1>7, <2>1 DEF PrefixAt, p
<1>9. TimestampRecord(state, t) \in Seq(Bit) /\ Len(TimestampRecord(state, t)) = TimestampRecordLength(f)
  BY <1>5, <1>6, <1>7
<1>10. \A j \in 1 .. FieldWidth[f] : TimestampRecord(state, t)[k + j] = r[j]
  BY <1>4, <1>5, <1>7
<1>11. IsRecord(TimestampRecord(state, t), dod, f)
  BY <1>5, <1>8, <1>9, <1>10 DEF IsRecord, p, r
<1> QED
  BY <1>1, <1>2, <1>11

LEMMA TimestampRecordFacts ==
  ASSUME NEW state \in TimestampState, NEW t \in Int
  PROVE  /\ TimestampRecord(state, t) \in Seq(Bit)
         /\ \E f \in 1 .. 5 : /\ Len(TimestampRecord(state, t)) = TimestampRecordLength(f)
                              /\ PrefixAt(TimestampRecord(state, t), 0, f)
BY RecordParts DEF IsRecord

\* Reading a timestamp answers a number, whatever the bits.
LEMMA TimestampReadType ==
  ASSUME NEW state \in [last : Int, delta : Int], NEW s \in Seq(Bit), FieldOf(s) # 0,
         TimestampRecordLength(FieldOf(s)) <= Len(s)
  PROVE  TimestampRead(state, s) \in [last : Int, delta : Int]
<1> DEFINE f == FieldOf(s)
           from == Len(FieldPrefix[f]) + 1
           to == TimestampRecordLength(f)
           b == SubSeq(s, from, to)
<1>1. f \in 1 .. 5
  BY FieldFound
<1>2. from \in Int /\ from >= 1 /\ to \in Int /\ to <= Len(s) /\ Len(s) \in Nat
  <2>1. Len(s) \in Nat /\ to <= Len(s)
    BY LenProperties
  <2>2. Len(FieldPrefix[f]) \in Nat /\ to \in Nat
    BY <1>1, FieldFacts
  <2> QED
    BY <2>1, <2>2
<1> HIDE DEF from, to
<1>3. \A i \in from .. to : s[i] \in Bit
  <2>1. \A i \in from .. to : i \in 1 .. Len(s)
    BY <1>2
  <2> QED
    BY <2>1, ElementOfSeq
<1>4. b \in Seq(Bit)
  BY <1>2, <1>3, SubSeqProperties
<1>5. FieldValue(f, b) \in Int
  <2> HIDE DEF b, f
  <2> QED
    BY <1>4, NumberFacts DEF FieldValue
<1>6. state.last \in Int /\ state.delta \in Int
  OBVIOUS
<1>7. TimestampRead(state, s) =
        [last |-> state.last + (state.delta + FieldValue(f, b)), delta |-> state.delta + FieldValue(f, b)]
  BY DEF TimestampRead, from, to
<1> HIDE DEF f, b
<1> QED
  BY <1>5, <1>6, <1>7

\* The field of a change of delta.
LEMMA FieldOfChange ==
  ASSUME NEW dod \in Int
  PROVE  /\ dod = 0 => FieldFor(dod) = 1
         /\ dod # 0 /\ -63 <= dod /\ dod <= 64 => FieldFor(dod) = 2
         /\ -255 <= dod /\ dod <= 256 /\ (dod < -63 \/ dod > 64) => FieldFor(dod) = 3
         /\ -2047 <= dod /\ dod <= 2048 /\ (dod < -255 \/ dod > 256) => FieldFor(dod) = 4
         /\ dod < -2047 \/ dod > 2048 => FieldFor(dod) = 5
<1> DEFINE a == -63 .. 64
           b == -255 .. 256
           c == -2047 .. 2048
<1>1. FieldFor(dod) = CASE dod = 0                 -> 1
                        [] dod # 0 /\ dod \in a   -> 2
                        [] dod \in b \ a          -> 3
                        [] dod \in c \ b          -> 4
                        [] OTHER                   -> 5
  BY DEF FieldFor
<1>2. /\ dod \in a <=> -63 <= dod /\ dod <= 64
      /\ dod \in b <=> -255 <= dod /\ dod <= 256
      /\ dod \in c <=> -2047 <= dod /\ dod <= 2048
  OBVIOUS
<1> HIDE DEF a, b, c
<1>3. (dod = 0 => dod \in a) /\ (dod \in a => dod \in b) /\ (dod \in b => dod \in c)
  BY <1>2
<1>4. /\ dod = 0 => FieldFor(dod) = 1
      /\ dod # 0 /\ dod \in a => FieldFor(dod) = 2
      /\ dod \in b /\ dod \notin a => FieldFor(dod) = 3
      /\ dod \in c /\ dod \notin b => FieldFor(dod) = 4
  BY <1>1, <1>3
<1>5. ASSUME dod \notin c PROVE FieldFor(dod) = 5
  <2>1. dod # 0 /\ dod \notin a /\ dod \notin b
    BY <1>3, <1>5
  <2> QED
    BY <1>1, <1>5, <2>1
<1> QED
  BY <1>2, <1>4, <1>5

\* The widest field takes this change of delta.
FitsWidest(dod) == -(2 ^ (WideBits - 1)) < dod /\ dod < 2 ^ (WideBits - 1)

\* The changes of delta that are read as another number than was written are
\* the misfits, if the widest field takes the others.
LEMMA FieldDecodes ==
  ASSUME NEW dod \in Int, FitsWidest(dod)
  PROVE  FieldValue(FieldFor(dod), Bits(dod, FieldWidth[FieldFor(dod)])) = dod <=> dod \notin Misfit
<1> DEFINE f == FieldFor(dod)
<1>0. /\ dod = 0 => f = 1
      /\ dod # 0 /\ -63 <= dod /\ dod <= 64 => f = 2
      /\ -255 <= dod /\ dod <= 256 /\ (dod < -63 \/ dod > 64) => f = 3
      /\ -2047 <= dod /\ dod <= 2048 /\ (dod < -255 \/ dod > 256) => f = 4
      /\ dod < -2047 \/ dod > 2048 => f = 5
  BY FieldOfChange
<1> HIDE DEF f
<1>1. 2 ^ 6 = 64 /\ 2 ^ 7 = 128 /\ 2 ^ 8 = 256 /\ 2 ^ 11 = 2048
  OBVIOUS
<1>2. FieldWidth[2] = 7 /\ FieldWidth[3] = 9 /\ FieldWidth[4] = 12 /\ FieldWidth[5] = WideBits
  BY DEF FieldWidth
<1>3. CASE dod = 0
  <2>1. f = 1
    BY <1>0, <1>3
  <2>2. FieldValue(1, Bits(dod, FieldWidth[1])) = 0
    BY DEF FieldValue
  <2>3. dod \notin Misfit
    BY <1>3 DEF Misfit
  <2> QED
    BY <1>3, <2>1, <2>2, <2>3 DEF f
<1>4. CASE dod # 0 /\ -63 <= dod /\ dod <= 64
  <2>1. f = 2
    BY <1>0, <1>4
  <2>2. FieldValue(2, Bits(dod, 7)) = Unsigned(Bits(dod, 7))
    BY DEF FieldValue
  <2>3. Unsigned(Bits(dod, 7)) = dod - (dod \div 128) * 128
    <3>1. 7 \in 1 .. 32
      OBVIOUS
    <3>2. Unsigned(Bits(dod, 7)) = dod - (dod \div 2 ^ 7) * 2 ^ 7
      BY <3>1, UnsignedOfBits
    <3> QED
      BY <1>1, <3>2
  <2>4. dod \in Misfit <=> dod < 0
    BY <1>4 DEF Misfit
  <2>5. dod - (dod \div 128) * 128 = dod <=> ~(dod < 0)
    BY <1>4
  <2> QED
    BY <1>2, <2>1, <2>2, <2>3, <2>4, <2>5 DEF f
<1>5. CASE -255 <= dod /\ dod <= 256 /\ (dod < -63 \/ dod > 64)
  <2>1. f = 3
    BY <1>0, <1>5
  <2>2. FieldValue(3, Bits(dod, 9)) = Signed(Bits(dod, 9))
    BY DEF FieldValue
  <2>3. Signed(Bits(dod, 9)) = IF dod = 256 THEN -256 ELSE dod
    <3>1. 9 \in 1 .. 32 /\ 9 - 1 = 8 /\ -256 <= dod /\ dod <= 256
      BY <1>5
    <3> QED
      BY <1>1, <3>1, SignedOfBits
  <2>4. dod \in Misfit <=> dod = 256
    BY <1>5 DEF Misfit
  <2> QED
    BY <1>2, <2>1, <2>2, <2>3, <2>4 DEF f
<1>6. CASE -2047 <= dod /\ dod <= 2048 /\ (dod < -255 \/ dod > 256)
  <2>1. f = 4
    BY <1>0, <1>6
  <2>2. FieldValue(4, Bits(dod, 12)) = Signed(Bits(dod, 12))
    BY DEF FieldValue
  <2>3. Signed(Bits(dod, 12)) = IF dod = 2048 THEN -2048 ELSE dod
    <3>1. 12 \in 1 .. 32 /\ 12 - 1 = 11 /\ -2048 <= dod /\ dod <= 2048
      BY <1>6
    <3> QED
      BY <1>1, <3>1, SignedOfBits
  <2>4. dod \in Misfit <=> dod = 2048
    BY <1>6 DEF Misfit
  <2> QED
    BY <1>2, <2>1, <2>2, <2>3, <2>4 DEF f
<1>7. CASE dod < -2047 \/ dod > 2048
  <2>1. f = 5
    BY <1>0, <1>7
  <2>2. FieldValue(5, Bits(dod, WideBits)) = Signed(Bits(dod, WideBits))
    BY DEF FieldValue
  <2> DEFINE h == 2 ^ (WideBits - 1)
  <2>3. WideBits \in 1 .. 32 /\ WideBits - 1 \in 0 .. 31
    BY WideAssumption
  <2>4. h \in Nat
    BY <2>3, Doubling DEF Doubles
  <2>5. -h <= dod /\ dod <= h /\ dod # h
    <3>1. -h < dod /\ dod < h
      BY DEF FitsWidest
    <3> HIDE DEF h
    <3> QED
      BY <2>4, <3>1
  <2>6. Signed(Bits(dod, WideBits)) = dod
    BY <2>3, <2>5, SignedOfBits
  <2>7. dod \notin Misfit
    BY <1>7 DEF Misfit
  <2> QED
    BY <1>2, <2>1, <2>2, <2>6, <2>7 DEF f
<1> QED
  BY <1>3, <1>4, <1>5, <1>6, <1>7

\* These bits are in b behind the first p bits.
RecordAt(b, p, r) ==
  /\ p + Len(r) <= Len(b)
  /\ \A j \in 1 .. Len(r) : b[p + j] = r[j]

\* What is read of a record that compress wrote, from the state it wrote it in.
LEMMA RecordRead ==
  ASSUME NEW b \in Seq(Bit), NEW p \in 0 .. Len(b), NEW state \in TimestampState, NEW t \in Int,
         RecordAt(b, p, TimestampRecord(state, t)),
         NEW dod, dod = DeltaOfDelta(state, t), NEW f, f = FieldFor(dod),
         NEW delta, delta = state.delta + FieldValue(f, Bits(dod, FieldWidth[f]))
  PROVE  TimestampRead(state, From(b, p)) = [last |-> state.last + delta, delta |-> delta]
<1> DEFINE r == TimestampRecord(state, t)
           s == From(b, p)
           n == Len(b)
           k == Len(FieldPrefix[f])
           w == FieldWidth[f]
           c == SubSeq(s, k + 1, TimestampRecordLength(f))
<1>1. /\ dod \in Int /\ f \in 1 .. 5 /\ r \in Seq(Bit) /\ Len(r) = TimestampRecordLength(f)
      /\ PrefixAt(r, 0, f)
      /\ \A j \in 1 .. w : r[k + j] = Bits(dod, w)[j]
  <2>1. dod \in Int /\ f \in 1 .. 5 /\ IsRecord(r, dod, f)
    BY RecordParts
  <2> QED
    BY <2>1 DEF IsRecord
<1>2. k \in Nat /\ w \in Nat /\ Len(r) = k + w
  BY <1>1, FieldFacts DEF TimestampRecordLength
<1>3. n \in Nat /\ p \in Nat
  BY LenProperties
<1>4. p + Len(r) <= n /\ \A j \in 1 .. Len(r) : b[p + j] = r[j]
  BY DEF RecordAt
<1>5. s \in Seq(Bit) /\ Len(s) = n - p /\ \A j \in 1 .. n - p : s[j] = b[p + j]
  BY FromFacts
<1>6. \A j \in 1 .. k : FieldPrefix[f][j] = r[j]
  <2>1. \A j \in 1 .. k : r[0 + j] = FieldPrefix[f][j]
    BY <1>1 DEF PrefixAt
  <2> HIDE DEF r, k
  <2> QED
    BY <1>2, <2>1
<1> HIDE DEF s, n, r, k, w
<1>7. k + w <= n - p /\ \A j \in 1 .. k + w : s[j] = r[j]
  <2>1. p + (k + w) <= n
    BY <1>2, <1>4
  <2>2. \A j \in 1 .. k + w : j \in 1 .. n - p
    BY <1>2, <1>3, <2>1
  <2>3. k + w <= n - p
    BY <1>2, <1>3, <2>1
  <2> QED
    BY <1>2, <1>4, <1>5, <2>2, <2>3
<1>8. FieldOf(s) = f
  <2>1. 0 + k <= Len(s) /\ \A j \in 1 .. k : j \in 1 .. k + w /\ 0 + j = j
    BY <1>2, <1>3, <1>5, <1>7
  <2>2. \A j \in 1 .. k : s[0 + j] = FieldPrefix[f][j]
    BY <1>6, <1>7, <2>1
  <2>3. PrefixAt(s, 0, f)
    BY <2>1, <2>2 DEF PrefixAt, k
  <2> QED
    BY <1>1, <1>5, <2>3, FieldFound
<1>9. c = Bits(dod, w)
  <2>1. TimestampRecordLength(f) = k + w
    BY <1>1, <1>2
  <2>2. \A i \in k + 1 .. k + w : i \in 1 .. Len(s)
    BY <1>2, <1>3, <1>5, <1>7
  <2>3. \A i \in k + 1 .. k + w : s[i] \in Bit
    BY <1>5, <2>2, ElementOfSeq
  <2>4. /\ k + 1 \in Int /\ k + w \in Int
        /\ (k + w) - (k + 1) + 1 = w /\ (IF k + 1 <= k + w THEN w ELSE 0) = w
        /\ \A j \in 1 .. w : (k + 1) + j - 1 = k + j /\ k + j \in 1 .. k + w
    BY <1>2
  <2> DEFINE d == SubSeq(s, k + 1, k + w)
  <2>5. /\ d \in Seq(Bit) /\ Len(d) = IF k + 1 <= k + w THEN (k + w) - (k + 1) + 1 ELSE 0
        /\ \A j \in 1 .. (k + w) - (k + 1) + 1 : d[j] = s[(k + 1) + j - 1]
    <3> DEFINE from == k + 1
               to   == k + w
    <3>1. from \in Int /\ to \in Int /\ \A i \in from .. to : s[i] \in Bit
      BY <2>3, <2>4
    <3> HIDE DEF from, to
    <3>2. /\ SubSeq(s, from, to) \in Seq(Bit)
          /\ Len(SubSeq(s, from, to)) = IF from <= to THEN to - from + 1 ELSE 0
          /\ \A j \in 1 .. to - from + 1 : SubSeq(s, from, to)[j] = s[from + j - 1]
      BY <3>1, SubSeqProperties
    <3> QED
      BY <3>2 DEF from, to
  <2> HIDE DEF d
  <2>6. Len(d) = w /\ \A j \in 1 .. w : d[j] = s[k + j]
    BY <2>4, <2>5
  <2>7. \A j \in 1 .. w : d[j] = Bits(dod, w)[j]
    <3>1. \A j \in 1 .. w : r[k + j] = Bits(dod, w)[j]
      BY <1>1 DEF r, k, w
    <3> QED
      BY <1>7, <2>4, <2>6, <3>1
  <2>8. Bits(dod, w) \in Seq(Bit) /\ Len(Bits(dod, w)) = w
    BY <1>1, <1>2, BitsFacts
  <2>9. d = Bits(dod, w)
    BY <2>5, <2>6, <2>7, <2>8, SeqEqual
  <2> QED
    BY <2>1, <2>9 DEF d
<1>10. TimestampRead(state, s) = [last  |-> state.last + (state.delta + FieldValue(f, c)),
                                  delta |-> state.delta + FieldValue(f, c)]
  BY <1>8 DEF TimestampRead, k
<1> HIDE DEF c
<1> QED
  BY <1>9, <1>10 DEF s, w

\* Adding a change of delta that is right, and only such a one, gives the
\* timestamp.
LEMMA RightChange ==
  ASSUME NEW t \in Int, NEW last \in Int, NEW old \in Int, NEW value \in Int
  PROVE  /\ last + (old + value) = t <=> value = t - last - old
         /\ value = t - last - old => old + value = t - last
OBVIOUS

\* The decompressor reads the timestamp that the compressor wrote, and ends in
\* the state it was in then, unless the change of delta is a misfit.
LEMMA TimestampDecoded ==
  ASSUME NEW b \in Seq(Bit), NEW p \in 0 .. Len(b), NEW state \in TimestampState, NEW t \in Int,
         RecordAt(b, p, TimestampRecord(state, t)), NEW dod, dod = DeltaOfDelta(state, t),
         FitsWidest(dod)
  PROVE  /\ dod \notin Misfit => TimestampRead(state, From(b, p)) = TimestampAfter(state, t)
         /\ TimestampRead(state, From(b, p)).last = t <=> dod \notin Misfit
<1> DEFINE f == FieldFor(dod)
           value == FieldValue(f, Bits(dod, FieldWidth[f]))
           delta == state.delta + value
<1>1. state.last \in Int /\ state.delta \in Int
  BY DEF TimestampState
<1>2. dod \in Int /\ dod = t - state.last - state.delta
  BY <1>1 DEF DeltaOfDelta
<1>3. value = dod <=> dod \notin Misfit
  BY <1>2, FieldDecodes
<1>4. value \in Int
  <2>1. f \in 1 .. 5
    BY <1>2, FieldForType
  <2>2. FieldWidth[f] \in Nat
    BY <2>1, FieldFacts
  <2>3. Bits(dod, FieldWidth[f]) \in Seq(Bit)
    BY <1>2, <2>2, BitsFacts
  <2> HIDE DEF f
  <2> QED
    BY <2>3, NumberFacts DEF FieldValue
<1>5. TimestampRead(state, From(b, p)) = [last |-> state.last + delta, delta |-> delta]
  BY RecordRead
<1>6. TimestampAfter(state, t) = [last |-> t, delta |-> t - state.last]
  BY DEF TimestampAfter
<1> DEFINE last == state.last
           old == state.delta
<1> HIDE DEF value, last, old
<1>7. /\ last + (old + value) = t <=> value = dod
      /\ value = dod => old + value = t - last
  <2>1. last \in Int /\ old \in Int /\ dod = t - last - old
    BY <1>1, <1>2 DEF last, old
  <2> QED
    BY <1>4, <2>1, RightChange
<1> QED
  BY <1>3, <1>5, <1>6, <1>7 DEF last, old

-----------------------------------------------------------------------------
(* The records of a value *)

LEMMA XorWord == \A a, b \in Word : Xor(a, b) \in Word
BY DEF Word, Xor, Bit

\* A value that is read with an error passes it on to the next one.
LEMMA XorCancels ==
  ASSUME NEW r \in Word, NEW new \in Word, NEW old \in Word
  PROVE  Xor(Xor(r, Xor(new, old)), new) = Xor(r, old)
<1>1. ASSUME NEW i \in 1 .. WordBits
      PROVE  (((r[i] + ((new[i] + old[i]) % 2)) % 2) + new[i]) % 2 = (r[i] + old[i]) % 2
  <2>1. \A a, b, c \in Bit : (((a + ((b + c) % 2)) % 2) + b) % 2 = (a + c) % 2
    BY DEF Bit
  <2>2. r[i] \in Bit /\ new[i] \in Bit /\ old[i] \in Bit
    BY DEF Word
  <2> QED
    BY <2>1, <2>2
<1> QED
  BY <1>1 DEF Xor

LEMMA WordsDiffer ==
  ASSUME NEW D, NEW a \in [D -> Bit], NEW b \in [D -> Bit], a # b
  PROVE  \E i \in D : a[i] # b[i]
<1> SUFFICES ASSUME \A i \in D : a[i] = b[i] PROVE a = b
  OBVIOUS
<1>1. a = [i \in D |-> a[i]] /\ b = [i \in D |-> b[i]]
  OBVIOUS
<1> QED
  BY <1>1

LEMMA XorDiffers ==
  ASSUME NEW a \in Word, NEW b \in Word, a # b
  PROVE  \E i \in 1 .. WordBits : Xor(a, b)[i] = 1
<1>1. PICK i \in 1 .. WordBits : a[i] # b[i]
  BY WordsDiffer DEF Word
<1>2. a[i] \in Bit /\ b[i] \in Bit
  BY DEF Word
<1>3. (a[i] + b[i]) % 2 = 1
  <2>1. \A x, y \in Bit : x # y => (x + y) % 2 = 1
    BY DEF Bit
  <2> QED
    BY <1>1, <1>2, <2>1
<1> QED
  BY <1>3 DEF Xor

LEMMA ZeroCounts ==
  ASSUME NEW x \in Word, \E i \in 1 .. WordBits : x[i] = 1
  PROVE  LeadingZeros(x) \in 0 .. WordBits - 1 /\ TrailingZeros(x) \in 0 .. WordBits - 1
<1>1. \A i \in 1 .. WordBits : x[i] # 1 => x[i] = 0
  BY DEF Word, Bit
<1>2. \E n \in 0 .. WordBits - 1 : x[n + 1] = 1 /\ \A i \in 1 .. n : x[i] = 0
  <2> DEFINE ones == {n \in Nat : n + 1 \in 1 .. WordBits /\ x[n + 1] = 1}
  <2>1. ones # {}
    <3>1. PICK i \in 1 .. WordBits : x[i] = 1
      OBVIOUS
    <3>2. i - 1 \in Nat /\ (i - 1) + 1 = i
      BY Widths
    <3>3. i - 1 \in ones
      BY <3>1, <3>2
    <3> QED
      BY <3>3
  <2>2. PICK n \in ones : \A m \in ones : n <= m
    <3>1. ones \in SUBSET Nat
      OBVIOUS
    <3> HIDE DEF ones
    <3> QED
      BY <2>1, <3>1, Least
  <2>3. n \in 0 .. WordBits - 1 /\ x[n + 1] = 1
    BY Widths
  <2>4. ASSUME NEW i \in 1 .. n PROVE x[i] = 0
    <3>1. i - 1 \in Nat /\ (i - 1) + 1 = i /\ i \in 1 .. WordBits /\ ~(n <= i - 1)
      BY <2>3, Widths
    <3>2. i - 1 \notin ones
      BY <2>2, <3>1
    <3>3. x[i] # 1
      BY <3>1, <3>2
    <3> QED
      BY <1>1, <3>1, <3>3
  <2> QED
    BY <2>3, <2>4
<1>3. \E n \in 0 .. WordBits - 1 :
        x[WordBits - n] = 1 /\ \A i \in WordBits - n + 1 .. WordBits : x[i] = 0
  <2> DEFINE ones == {n \in Nat : WordBits - n \in 1 .. WordBits /\ x[WordBits - n] = 1}
  <2>1. ones # {}
    <3>1. PICK i \in 1 .. WordBits : x[i] = 1
      OBVIOUS
    <3>2. WordBits - i \in Nat /\ WordBits - (WordBits - i) = i
      BY Widths
    <3>3. WordBits - i \in ones
      BY <3>1, <3>2
    <3> QED
      BY <3>3
  <2>2. PICK n \in ones : \A m \in ones : n <= m
    <3>1. ones \in SUBSET Nat
      OBVIOUS
    <3> HIDE DEF ones
    <3> QED
      BY <2>1, <3>1, Least
  <2>3. n \in 0 .. WordBits - 1 /\ x[WordBits - n] = 1
    BY Widths
  <2>4. ASSUME NEW i \in WordBits - n + 1 .. WordBits PROVE x[i] = 0
    <3>1. /\ WordBits - i \in Nat /\ WordBits - (WordBits - i) = i /\ i \in 1 .. WordBits
          /\ ~(n <= WordBits - i)
      BY <2>3, Widths
    <3>2. WordBits - i \notin ones
      BY <2>2, <3>1
    <3>3. x[i] # 1
      BY <3>1, <3>2
    <3> QED
      BY <1>1, <3>1, <3>3
  <2> QED
    BY <2>3, <2>4
<1> QED
  BY <1>2, <1>3 DEF LeadingZeros, TrailingZeros

\* With the whole word as its window, a compressor writes each new value as a
\* whole word, and keeps the window.
LEMMA ValueWritten ==
  ASSUME NEW old \in Word, NEW new \in Word
  PROVE  /\ ValueAfter(FirstValue(old), new) = FirstValue(new)
         /\ ValueRecord(FirstValue(old), new) \in Seq(Bit)
         /\ new = old => ValueRecord(FirstValue(old), new) = <<0>>
         /\ new # old =>
              /\ Len(ValueRecord(FirstValue(old), new)) = 2 + WordBits
              /\ ValueRecord(FirstValue(old), new)[1] = 1
              /\ ValueRecord(FirstValue(old), new)[2] = 0
              /\ \A j \in 1 .. WordBits :
                   ValueRecord(FirstValue(old), new)[2 + j] = Xor(new, old)[j]
<1> DEFINE state == FirstValue(old)
           x == Xor(new, old)
<1>1. state = [last |-> old, leading |-> 0, trailing |-> 0]
  BY DEF FirstValue
<1>2. state.last = old /\ state.leading = 0 /\ state.trailing = 0
  BY <1>1
<1>3. x \in Word
  BY XorWord
<1>4. 0 \in Bit /\ 1 \in Bit
  BY DEF Bit
<1>5. CASE new = old
  <2>1. ValueRecord(state, new) = <<0>> /\ ValueAfter(state, new) = state
    BY <1>2, <1>5 DEF ValueRecord, ValueAfter
  <2>2. <<0>> \in Seq(Bit)
    BY <1>4
  <2> QED
    BY <1>5, <2>1, <2>2
<1>6. CASE new # old
  <2>1. LeadingZeros(x) \in 0 .. WordBits - 1 /\ TrailingZeros(x) \in 0 .. WordBits - 1
    BY <1>3, <1>6, XorDiffers, ZeroCounts
  <2>2. InWindow(state, x)
    <3> HIDE DEF x, state
    <3> QED
      BY <1>2, <2>1, Widths DEF InWindow
  <2> DEFINE w == Meaningful(x, 0, 0)
  <2>3. /\ ValueRecord(state, new) = <<1, 0>> \o w
        /\ ValueAfter(state, new) = [state EXCEPT !.last = new]
    BY <1>2, <1>6, <2>2 DEF ValueRecord, ValueAfter
  <2>4. ValueAfter(state, new) = FirstValue(new)
    BY <1>1, <2>3 DEF FirstValue
  <2>5. w \in Seq(Bit) /\ Len(w) = WordBits /\ \A j \in 1 .. WordBits : w[j] = x[j]
    <3>1. w = SubSeq(x, 1, WordBits)
      <4>1. 0 + 1 = 1 /\ WordBits - 0 = WordBits
        BY Widths
      <4> QED
        BY <4>1 DEF Meaningful
    <3>2. \A i \in 1 .. WordBits : x[i] \in Bit
      BY <1>3 DEF Word
    <3> HIDE DEF w, x
    <3>3. /\ SubSeq(x, 1, WordBits) \in Seq(Bit) /\ Len(SubSeq(x, 1, WordBits)) = WordBits
          /\ \A j \in 1 .. WordBits : SubSeq(x, 1, WordBits)[j] = x[j]
      BY <3>2, Widths, SubSeqProperties
    <3> QED
      BY <3>1, <3>3
  <2> HIDE DEF w, x, state
  <2>6. <<1, 0>> \in Seq(Bit) /\ Len(<<1, 0>>) = 2 /\ <<1, 0>>[1] = 1 /\ <<1, 0>>[2] = 0
    BY <1>4
  <2>7. /\ <<1, 0>> \o w \in Seq(Bit) /\ Len(<<1, 0>> \o w) = 2 + WordBits
        /\ \A j \in 1 .. 2 + WordBits :
             (<<1, 0>> \o w)[j] = IF j <= 2 THEN <<1, 0>>[j] ELSE w[j - 2]
    BY <2>5, <2>6, ConcatProperties
  <2>8. /\ 1 \in 1 .. 2 + WordBits /\ 2 \in 1 .. 2 + WordBits
        /\ \A j \in 1 .. WordBits : 2 + j \in 1 .. 2 + WordBits /\ ~(2 + j <= 2) /\ (2 + j) - 2 = j
    BY Widths
  <2>9. (<<1, 0>> \o w)[1] = 1 /\ (<<1, 0>> \o w)[2] = 0
    BY <2>6, <2>7, <2>8
  <2>10. \A j \in 1 .. WordBits : (<<1, 0>> \o w)[2 + j] = x[j]
    BY <2>5, <2>7, <2>8
  <2> QED
    BY <1>6, <2>3, <2>4, <2>7, <2>9, <2>10 DEF state, x
<1> QED
  BY <1>5, <1>6

\* A decompressor with that window reads what such a record says.
LEMMA SameValueRead ==
  ASSUME NEW old \in Word, NEW s \in Seq(Bit), s # <<>>, s[1] = 0
  PROVE  /\ RecordOf(FirstValue(old), s) # NoRecord
         /\ RecordOf(FirstValue(old), s).length = 1
         /\ ValueRead(FirstValue(old), s) = FirstValue(old)
<1>1. RecordOf(FirstValue(old), s) = [NoRecord EXCEPT !.length = 1]
  BY DEF RecordOf
<1>2. [NoRecord EXCEPT !.length = 1].length = 1 /\ NoRecord.length = 0
  BY DEF NoRecord
<1>3. ValueRead(FirstValue(old), s) = FirstValue(old)
  BY DEF ValueRead
<1>4. RecordOf(FirstValue(old), s).length = 1
  BY <1>1, <1>2
<1>5. ~(1 = 0)
  OBVIOUS
<1> QED
  BY <1>2, <1>3, <1>4, <1>5

LEMMA NewValueRead ==
  ASSUME NEW old \in Word, NEW x \in Word, NEW s \in Seq(Bit), 2 + WordBits <= Len(s),
         s[1] = 1, s[2] = 0, \A j \in 1 .. WordBits : s[2 + j] = x[j]
  PROVE  /\ RecordOf(FirstValue(old), s) # NoRecord
         /\ RecordOf(FirstValue(old), s).length = 2 + WordBits
         /\ ValueRead(FirstValue(old), s) = FirstValue(Xor(old, x))
<1> DEFINE state == FirstValue(old)
           r == [leading |-> 0, trailing |-> 0, first |-> 3, length |-> 2 + WordBits]
           n == Len(s)
<1>1. state.last = old /\ state.leading = 0 /\ state.trailing = 0
  BY DEF FirstValue
<1>2. n \in Nat /\ s # <<>> /\ ~(n < 2) /\ ~(2 + WordBits > n)
  <2>1. n \in Nat /\ 2 + WordBits <= n
    BY LenProperties
  <2>2. s # <<>>
    <3>1. s = <<>> => n = 0
      BY EmptySeq
    <3> HIDE DEF n
    <3> QED
      BY <2>1, <3>1, Widths
  <2> HIDE DEF n
  <2> QED
    BY <2>1, <2>2, Widths
<1>3. WindowRecord(3, 0, 0) = r
  <2>1. 3 - 1 + WordBits - 0 - 0 = 2 + WordBits
    BY Widths
  <2> QED
    BY <2>1 DEF WindowRecord
<1>4. r.length = 2 + WordBits /\ r.leading = 0 /\ r.trailing = 0 /\ r.first = 3
  OBVIOUS
<1>5. RecordOf(state, s) = r
  <2>1. ~(s[1] = 0)
    OBVIOUS
  <2> HIDE DEF state, r
  <2> QED
    BY <1>1, <1>2, <1>3, <1>4, <2>1 DEF RecordOf, n
<1>6. r # NoRecord
  <2>1. NoRecord.length = 0 /\ ~(2 + WordBits = 0)
    BY Widths DEF NoRecord
  <2> QED
    BY <1>4, <2>1
<1>7. Zeros(0) \o SubSeq(s, 3, 2 + WordBits) \o Zeros(0) = x
  <2>1. Zeros(0) \in Seq(Bit) /\ Len(Zeros(0)) = 0
    BY ZerosFacts
  <2> DEFINE w == SubSeq(s, 3, 2 + WordBits)
             z == Zeros(0)
  <2>2. w \in Seq(Bit) /\ Len(w) = WordBits /\ \A j \in 1 .. WordBits : w[j] = x[j]
    <3>1. \A i \in 3 .. 2 + WordBits : s[i] \in Bit
      <4>1. \A i \in 3 .. 2 + WordBits : i \in 1 .. n
        BY <1>2, Widths
      <4> QED
        BY <4>1, ElementOfSeq DEF n
    <3>2. /\ 3 \in Int /\ 2 + WordBits \in Int /\ (2 + WordBits) - 3 + 1 = WordBits
          /\ 3 <= 2 + WordBits
          /\ \A j \in 1 .. WordBits : 3 + j - 1 = 2 + j
      BY Widths
    <3>3. /\ w \in Seq(Bit)
          /\ Len(w) = IF 3 <= 2 + WordBits THEN (2 + WordBits) - 3 + 1 ELSE 0
          /\ \A j \in 1 .. (2 + WordBits) - 3 + 1 : w[j] = s[3 + j - 1]
      BY <3>1, <3>2, SubSeqProperties
    <3> QED
      BY <3>2, <3>3
  <2> HIDE DEF w, z
  <2>3. z \o w \o z = w
    <3>1. z = <<>>
      BY <2>1, EmptySeq DEF z
    <3> QED
      BY <2>2, <3>1, ConcatEmptySeq
  <2>4. w \in [1 .. WordBits -> Bit] /\ x \in [1 .. WordBits -> Bit]
    BY <2>2, LenProperties DEF Word
  <2>5. w = x
    BY <2>2, <2>4
  <2> QED
    BY <2>3, <2>5 DEF w, z
<1>8. ValueRead(state, s) = [last |-> Xor(old, x), leading |-> 0, trailing |-> 0]
  <2>1. ~(s[1] = 0)
    OBVIOUS
  <2> HIDE DEF state, r
  <2> QED
    BY <1>1, <1>4, <1>5, <1>7, <2>1 DEF ValueRead
<1> QED
  BY <1>4, <1>5, <1>6, <1>8 DEF FirstValue

-----------------------------------------------------------------------------
(* The records of a point *)

Mark == [timestamp : Nat, value : Nat]

\* The record of the value new, after old, is in b between its marks: the
\* window is the whole word.
ValueAt(b, mark, old, new) ==
  \/ /\ new = old
     /\ mark.value = mark.timestamp + 1
     /\ b[mark.timestamp + 1] = 0
  \/ /\ new # old
     /\ mark.value = mark.timestamp + 2 + WordBits
     /\ b[mark.timestamp + 1] = 1 /\ b[mark.timestamp + 2] = 0
     /\ \A j \in 1 .. WordBits : b[mark.timestamp + 2 + j] = Xor(new, old)[j]

\* The two records of a point are in b, behind the first p bits.
PointAt(b, p, mark, old, new) ==
  /\ \E f \in 1 .. 5 : PrefixAt(b, p, f) /\ mark.timestamp = p + TimestampRecordLength(f)
  /\ ValueAt(b, mark, old, new)
  /\ mark.value <= Len(b)

LEMMA PointAtLonger ==
  ASSUME NEW b \in Seq(Bit), NEW c \in Seq(Bit), Len(b) <= Len(c),
         \A i \in 1 .. Len(b) : c[i] = b[i],
         NEW p \in Nat, NEW mark \in Mark, NEW old, NEW new, PointAt(b, p, mark, old, new)
  PROVE  PointAt(c, p, mark, old, new)
<1> DEFINE m == Len(b)
           n == Len(c)
<1>1. m \in Nat /\ n \in Nat /\ m <= n
  BY LenProperties
<1>2. \A i \in 1 .. m : c[i] = b[i]
  OBVIOUS
<1>3. mark.timestamp \in Nat /\ mark.value \in Nat
  BY DEF Mark
<1>4. mark.value <= m
  BY DEF PointAt
<1>5. PICK f \in 1 .. 5 : PrefixAt(b, p, f) /\ mark.timestamp = p + TimestampRecordLength(f)
  BY DEF PointAt
<1>6. PrefixAt(c, p, f)
  <2> DEFINE k == Len(FieldPrefix[f])
  <2>1. k \in Nat
    BY FieldFacts
  <2>2. p + k <= m /\ \A j \in 1 .. k : b[p + j] = FieldPrefix[f][j]
    BY <1>5 DEF PrefixAt
  <2> HIDE DEF k, m, n
  <2>3. p + k <= n /\ \A j \in 1 .. k : p + j \in 1 .. m
    BY <1>1, <2>1, <2>2
  <2>4. \A j \in 1 .. k : c[p + j] = FieldPrefix[f][j]
    BY <1>2, <2>2, <2>3
  <2> QED
    BY <2>3, <2>4 DEF PrefixAt, k, n
<1>7. ValueAt(c, mark, old, new)
  <2> DEFINE t == mark.timestamp
             v == mark.value
  <2>1. t \in Nat /\ v \in Nat /\ v <= m
    BY <1>3, <1>4
  <2>2. ValueAt(b, mark, old, new)
    BY DEF PointAt
  <2> HIDE DEF t, v, m, n
  <2>3. CASE new = old /\ v = t + 1 /\ b[t + 1] = 0
    <3>1. t + 1 \in 1 .. m
      BY <2>1, <2>3
    <3> QED
      BY <1>2, <2>3, <3>1 DEF ValueAt, t, v
  <2>4. CASE /\ new # old /\ v = t + 2 + WordBits /\ b[t + 1] = 1 /\ b[t + 2] = 0
             /\ \A j \in 1 .. WordBits : b[t + 2 + j] = Xor(new, old)[j]
    <3>1. t + 1 \in 1 .. m /\ t + 2 \in 1 .. m /\ \A j \in 1 .. WordBits : t + 2 + j \in 1 .. m
      <4>1. v = t + 2 + WordBits /\ WordBits \in Nat
        BY <2>4, Widths
      <4>2. m \in Nat
        BY <1>1
      <4> QED
        BY <2>1, <4>1, <4>2
    <3>2. /\ c[t + 1] = 1 /\ c[t + 2] = 0
          /\ \A j \in 1 .. WordBits : c[t + 2 + j] = Xor(new, old)[j]
      BY <1>2, <2>4, <3>1
    <3> QED
      BY <2>4, <3>2 DEF ValueAt, t, v
  <2> QED
    BY <2>2, <2>3, <2>4 DEF ValueAt, t, v
<1>8. mark.value <= n
  <2> HIDE DEF m, n
  <2> QED
    BY <1>1, <1>3, <1>4
<1> QED
  BY <1>5, <1>6, <1>7, <1>8 DEF PointAt

\* The stream behind the records of a point, and where they end in it.
Written(b, state, t, old, new) ==
  (b \o TimestampRecord(state, t)) \o ValueRecord(FirstValue(old), new)

WrittenMark(b, state, t, old, new) ==
  [timestamp |-> Len(b \o TimestampRecord(state, t)), value |-> Len(Written(b, state, t, old, new))]

\* The point that compress writes is found at its mark.
LEMMA PointWritten ==
  ASSUME NEW b \in Seq(Bit), NEW state \in TimestampState, NEW t \in Int,
         NEW old \in Word, NEW new \in Word
  PROVE  /\ Written(b, state, t, old, new) \in Seq(Bit)
         /\ Len(b) <= Len(Written(b, state, t, old, new))
         /\ \A i \in 1 .. Len(b) : Written(b, state, t, old, new)[i] = b[i]
         /\ WrittenMark(b, state, t, old, new) \in Mark
         /\ WrittenMark(b, state, t, old, new).value = Len(Written(b, state, t, old, new))
         /\ PointAt(Written(b, state, t, old, new), Len(b), WrittenMark(b, state, t, old, new), old, new)
<1> DEFINE x == TimestampRecord(state, t)
           y == ValueRecord(FirstValue(old), new)
           c == b \o x
           d == c \o y
           k == Len(b)
           m == Len(c)
           n == Len(d)
           mark == [timestamp |-> m, value |-> n]
<1>1. x \in Seq(Bit)
  BY TimestampRecordFacts
<1>2. PICK f \in 1 .. 5 : Len(x) = TimestampRecordLength(f) /\ PrefixAt(x, 0, f)
  BY TimestampRecordFacts
<1>3. y \in Seq(Bit)
  BY ValueWritten
<1>4. /\ c \in Seq(Bit) /\ m = k + Len(x) /\ k <= m
      /\ \A i \in 1 .. k : c[i] = b[i]
      /\ \A i \in 1 .. Len(x) : c[k + i] = x[i]
  <2> HIDE DEF x
  <2> QED
    BY <1>1, Extended
<1>5. /\ d \in Seq(Bit) /\ n = m + Len(y) /\ m <= n
      /\ \A i \in 1 .. m : d[i] = c[i]
      /\ \A i \in 1 .. Len(y) : d[m + i] = y[i]
  <2> HIDE DEF y, c
  <2> QED
    BY <1>3, <1>4, Extended
<1> HIDE DEF c, d
<1>6. k \in Nat /\ m \in Nat /\ n \in Nat /\ Len(x) \in Nat
  BY <1>1, <1>4, <1>5, LenProperties
<1>7. PrefixAt(d, k, f)
  <2> DEFINE l == Len(FieldPrefix[f])
             q == Len(x)
  <2>1. l \in Nat /\ l >= 1
    BY FieldFacts
  <2>2. 0 + l <= q /\ \A j \in 1 .. l : x[0 + j] = FieldPrefix[f][j]
    BY <1>2 DEF PrefixAt
  <2>3. \A j \in 1 .. l : 0 + j = j
    BY <2>1
  <2>4. q \in Nat /\ m = k + q
    BY <1>4, <1>6
  <2> HIDE DEF l, q, k, m, n
  <2>5. k + l <= n /\ \A j \in 1 .. l : j \in 1 .. q /\ k + j \in 1 .. m
    BY <1>5, <1>6, <2>1, <2>2, <2>4
  <2>6. \A j \in 1 .. l : d[k + j] = FieldPrefix[f][j]
    <3> SUFFICES ASSUME NEW j \in 1 .. l PROVE d[k + j] = FieldPrefix[f][j]
      OBVIOUS
    <3>1. d[k + j] = c[k + j]
      BY <1>5, <2>5
    <3>2. c[k + j] = x[j]
      BY <1>4, <2>5 DEF q
    <3>3. x[j] = FieldPrefix[f][j]
      BY <2>2, <2>3
    <3> QED
      BY <3>1, <3>2, <3>3
  <2> QED
    BY <2>5, <2>6 DEF PrefixAt, l, n
<1>8. mark.timestamp = m /\ mark.value = n /\ mark \in Mark
  BY <1>6 DEF Mark
<1>9. ValueAt(d, mark, old, new)
  <2> HIDE DEF m, n, y, mark
  <2>1. CASE new = old
    <3>1. y = <<0>>
      BY <2>1, ValueWritten DEF y
    <3>2. Len(y) = 1 /\ y[1] = 0 /\ 1 \in 1 .. 1
      BY <3>1
    <3> QED
      BY <1>5, <1>8, <2>1, <3>2 DEF ValueAt
  <2>2. CASE new # old
    <3>1. /\ Len(y) = 2 + WordBits /\ y[1] = 1 /\ y[2] = 0
          /\ \A j \in 1 .. WordBits : y[2 + j] = Xor(new, old)[j]
      BY <2>2, ValueWritten DEF y
    <3>2. /\ 1 \in 1 .. 2 + WordBits /\ 2 \in 1 .. 2 + WordBits
          /\ \A j \in 1 .. WordBits : 2 + j \in 1 .. 2 + WordBits /\ m + 2 + j = m + (2 + j)
          /\ m + 2 + WordBits = m + (2 + WordBits)
      BY <1>6, Widths
    <3>3. d[m + 1] = 1 /\ d[m + 2] = 0 /\ n = m + 2 + WordBits
      BY <1>5, <3>1, <3>2
    <3>4. \A j \in 1 .. WordBits : d[m + 2 + j] = Xor(new, old)[j]
      BY <1>5, <3>1, <3>2
    <3> QED
      BY <1>8, <2>2, <3>3, <3>4 DEF ValueAt
  <2> QED
    BY <2>1, <2>2
<1>10. PointAt(d, k, mark, old, new)
  <2>1. mark.timestamp = k + TimestampRecordLength(f)
    BY <1>2, <1>4, <1>8
  <2>2. mark.value <= Len(d)
    BY <1>6, <1>8
  <2> HIDE DEF mark, k
  <2> QED
    BY <1>7, <1>9, <2>1, <2>2 DEF PointAt
<1>11. k <= n /\ \A i \in 1 .. k : d[i] = b[i]
  <2> HIDE DEF k, m, n
  <2>1. k <= n /\ \A i \in 1 .. k : i \in 1 .. m
    BY <1>4, <1>5, <1>6
  <2> QED
    BY <1>4, <1>5, <2>1
<1>12. d = Written(b, state, t, old, new) /\ mark = WrittenMark(b, state, t, old, new)
  BY DEF Written, WrittenMark, c, d
<1> HIDE DEF mark
<1> QED
  BY <1>5, <1>8, <1>10, <1>11, <1>12

\* The decompressors find the records of a point that is at the position, and
\* the value they answer is wrong by what their last one is.
LEMMA PointRead ==
  ASSUME NEW b \in Seq(Bit), NEW p \in 0 .. Len(b), NEW mark \in Mark,
         NEW old \in Word, NEW new \in Word, NEW r \in Word, PointAt(b, p, mark, old, new),
         NEW s, s = From(b, p),
         NEW v, v = From(s, TimestampRecordLength(FieldOf(s)))
  PROVE  /\ s \in Seq(Bit) /\ FieldOf(s) # 0 /\ TimestampRecordLength(FieldOf(s)) <= Len(s)
         /\ v # <<>> /\ RecordOf(FirstValue(r), v) # NoRecord
         /\ Len(b) - Len(v) + RecordOf(FirstValue(r), v).length = mark.value
         /\ \E w \in Word : ValueRead(FirstValue(r), v) = FirstValue(w) /\ Xor(w, new) = Xor(r, old)
<1> DEFINE n == Len(b)
           t == mark.timestamp
<1>1. n \in Nat /\ p \in Nat /\ p <= n
  BY LenProperties
<1>2. t \in Nat /\ mark.value \in Nat /\ mark.value <= n
  BY DEF Mark, PointAt
<1>3. /\ s \in Seq(Bit) /\ Len(s) = n - p
      /\ \A j \in 1 .. n - p : s[j] = b[p + j]
  BY FromFacts
<1>4. PICK f \in 1 .. 5 : PrefixAt(b, p, f) /\ t = p + TimestampRecordLength(f)
  BY DEF PointAt
<1> DEFINE l == TimestampRecordLength(f)
<1>5. l \in Nat /\ Len(FieldPrefix[f]) \in Nat
  BY FieldFacts
<1>6. FieldOf(s) = f /\ f # 0
  <2> DEFINE k == Len(FieldPrefix[f])
  <2>1. p + k <= n /\ \A j \in 1 .. k : b[p + j] = FieldPrefix[f][j]
    BY <1>4 DEF PrefixAt
  <2>2. k \in Nat
    BY <1>5
  <2> HIDE DEF k, n
  <2>3. 0 + k <= n - p /\ \A j \in 1 .. k : 0 + j = j /\ j \in 1 .. n - p
    BY <1>1, <2>1, <2>2
  <2>4. \A j \in 1 .. k : s[0 + j] = FieldPrefix[f][j]
    BY <1>3, <2>1, <2>3
  <2>5. PrefixAt(s, 0, f)
    BY <1>3, <2>3, <2>4 DEF PrefixAt, k
  <2> QED
    BY <1>3, <2>5, FieldFound
<1>7. ValueAt(b, mark, old, new)
  BY DEF PointAt
<1>8. t < mark.value
  <2>1. mark.value = t + 1 \/ mark.value = t + 2 + WordBits
    BY <1>7 DEF ValueAt
  <2> HIDE DEF t
  <2> QED
    BY <1>2, <2>1, Widths
<1>9. l \in 0 .. Len(s)
  <2> HIDE DEF n, l, t
  <2> QED
    BY <1>1, <1>2, <1>3, <1>4, <1>5, <1>8 DEF l
<1>10. /\ v \in Seq(Bit) /\ Len(v) = n - t
       /\ \A j \in 1 .. n - t : v[j] = b[t + j]
  <2>1. /\ v \in Seq(Bit) /\ Len(v) = Len(s) - l
        /\ \A j \in 1 .. Len(s) - l : v[j] = s[l + j]
    BY <1>3, <1>6, <1>9, FromFacts
  <2> HIDE DEF n, l, t
  <2>2. Len(s) - l = n - t
    BY <1>1, <1>3, <1>4, <1>5 DEF l
  <2>3. \A j \in 1 .. n - t : l + j \in 1 .. n - p /\ p + (l + j) = t + j
    <3>1. t = p + l /\ l \in Nat /\ p + l <= n
      BY <1>1, <1>2, <1>4, <1>5, <1>8 DEF l
    <3> QED
      BY <1>1, <3>1
  <2> QED
    BY <1>3, <2>1, <2>2, <2>3
<1>11. v # <<>>
  <2>1. v = <<>> => Len(v) = 0
    OBVIOUS
  <2> HIDE DEF n, t
  <2> QED
    BY <1>1, <1>2, <1>8, <1>10, <2>1
<1>12. CASE new = old /\ mark.value = t + 1 /\ b[t + 1] = 0
  <2>1. 1 \in 1 .. n - t /\ n - (n - t) + 1 = t + 1
    <3> HIDE DEF n, t
    <3> QED
      BY <1>1, <1>2, <1>8
  <2>2. v[1] = 0
    BY <1>10, <1>12, <2>1
  <2>3. /\ RecordOf(FirstValue(r), v) # NoRecord
        /\ RecordOf(FirstValue(r), v).length = 1
        /\ ValueRead(FirstValue(r), v) = FirstValue(r)
    BY <1>10, <1>11, <2>2, SameValueRead
  <2>4. Len(b) - Len(v) + RecordOf(FirstValue(r), v).length = mark.value
    BY <1>10, <1>12, <2>1, <2>3
  <2> QED
    BY <1>3, <1>6, <1>9, <1>11, <1>12, <2>3, <2>4
<1>13. CASE /\ mark.value = t + 2 + WordBits
            /\ b[t + 1] = 1 /\ b[t + 2] = 0
            /\ \A j \in 1 .. WordBits : b[t + 2 + j] = Xor(new, old)[j]
  <2> DEFINE x == Xor(new, old)
  <2>1. x \in Word
    BY XorWord
  <2> HIDE DEF x
  <2>2. /\ 2 + WordBits <= n - t /\ 1 \in 1 .. n - t /\ 2 \in 1 .. n - t
        /\ \A j \in 1 .. WordBits : 2 + j \in 1 .. n - t /\ t + (2 + j) = t + 2 + j
        /\ n - (n - t) + (2 + WordBits) = t + 2 + WordBits
    <3>1. WordBits \in Nat /\ mark.value = t + 2 + WordBits
      BY <1>13, Widths
    <3> HIDE DEF n, t
    <3> QED
      BY <1>1, <1>2, <3>1
  <2>3. v[1] = 1 /\ v[2] = 0
    BY <1>10, <1>13, <2>2
  <2>4. \A j \in 1 .. WordBits : v[2 + j] = x[j]
    <3> SUFFICES ASSUME NEW j \in 1 .. WordBits PROVE v[2 + j] = x[j]
      OBVIOUS
    <3>1. v[2 + j] = b[t + (2 + j)]
      BY <1>10, <2>2
    <3>2. b[t + (2 + j)] = x[j]
      BY <1>13, <2>2 DEF x
    <3> QED
      BY <3>1, <3>2
  <2>5. 2 + WordBits <= Len(v)
    BY <1>10, <2>2
  <2>6. /\ RecordOf(FirstValue(r), v) # NoRecord
        /\ RecordOf(FirstValue(r), v).length = 2 + WordBits
        /\ ValueRead(FirstValue(r), v) = FirstValue(Xor(r, x))
    BY <1>10, <2>1, <2>3, <2>4, <2>5, NewValueRead
  <2>7. Len(b) - Len(v) + RecordOf(FirstValue(r), v).length = mark.value
    BY <1>10, <1>13, <2>2, <2>6
  <2>8. Xor(r, x) \in Word
    BY <2>1, XorWord
  <2>9. Xor(Xor(r, x), new) = Xor(r, old)
    BY XorCancels DEF x
  <2> QED
    BY <1>3, <1>6, <1>9, <1>11, <2>6, <2>7, <2>8, <2>9
<1> QED
  BY <1>7, <1>12, <1>13 DEF ValueAt

\* The zeros behind the last point are read as one point for every two of them.
LEMMA ZerosRead ==
  ASSUME NEW b \in Seq(Bit), NEW p \in 0 .. Len(b), \A j \in p + 1 .. Len(b) : b[j] = 0,
         NEW r \in Word, NEW s, s = From(b, p), FieldOf(s) # 0,
         NEW v, v = From(s, TimestampRecordLength(FieldOf(s))), v # <<>>
  PROVE  /\ s \in Seq(Bit) /\ TimestampRecordLength(FieldOf(s)) <= Len(s)
         /\ Len(b) - Len(v) + RecordOf(FirstValue(r), v).length = p + 2 /\ p + 2 <= Len(b)
         /\ ValueRead(FirstValue(r), v) = FirstValue(r)
<1> DEFINE n == Len(b)
<1>1. n \in Nat /\ p \in Nat /\ p <= n
  BY LenProperties
<1>2. /\ s \in Seq(Bit) /\ Len(s) = n - p
      /\ \A j \in 1 .. n - p : s[j] = b[p + j]
  BY FromFacts
<1>3. \A j \in 1 .. n - p : s[j] = 0
  <2>1. \A j \in p + 1 .. n : b[j] = 0
    OBVIOUS
  <2> HIDE DEF n
  <2>2. \A j \in 1 .. n - p : p + j \in p + 1 .. n
    BY <1>1
  <2> QED
    BY <1>2, <2>1, <2>2
<1>4. FieldOf(s) \in 1 .. 5 /\ PrefixAt(s, 0, FieldOf(s))
  <2>1. FieldOf(s) \in 0 .. 5 /\ PrefixAt(s, 0, FieldOf(s))
    BY <1>2, FieldFound
  <2> QED
    BY <2>1
<1>5. 1 <= n - p
  <2> DEFINE k == Len(FieldPrefix[FieldOf(s)])
  <2>1. k \in Nat /\ k >= 1 /\ 0 + k <= Len(s)
    BY <1>4, FieldFacts DEF PrefixAt
  <2> HIDE DEF k, n
  <2> QED
    BY <1>1, <1>2, <2>1
<1>6. PrefixAt(s, 0, 1)
  <2> HIDE DEF n
  <2>1. 0 + Len(FieldPrefix[1]) <= Len(s)
    BY <1>1, <1>2, <1>5, PrefixLengths
  <2>2. \A j \in 1 .. Len(FieldPrefix[1]) : s[0 + j] = FieldPrefix[1][j]
    <3>1. 1 \in 1 .. n - p
      BY <1>1, <1>5
    <3>2. s[1] = 0
      BY <1>3, <3>1
    <3>3. \A j \in 1 .. Len(FieldPrefix[1]) : j = 1 /\ 0 + j = 1
      BY PrefixLengths
    <3> QED
      BY <3>2, <3>3, PrefixBits
  <2> QED
    BY <2>1, <2>2 DEF PrefixAt
<1>7. FieldOf(s) = 1
  <2>1. 1 \in 1 .. 5
    OBVIOUS
  <2> QED
    BY <1>2, <1>6, <2>1, FieldFound
<1>8. TimestampRecordLength(1) = 1
  BY PrefixLengths DEF TimestampRecordLength, FieldWidth
<1>9. 1 \in 0 .. Len(s)
  <2> HIDE DEF n
  <2> QED
    BY <1>1, <1>2, <1>5
<1>10. /\ v \in Seq(Bit) /\ Len(v) = Len(s) - 1
       /\ \A j \in 1 .. Len(s) - 1 : v[j] = s[1 + j]
  <2>1. v = From(s, 1)
    BY <1>7, <1>8
  <2>2. /\ From(s, 1) \in Seq(Bit) /\ Len(From(s, 1)) = Len(s) - 1
        /\ \A j \in 1 .. Len(s) - 1 : From(s, 1)[j] = s[1 + j]
    BY <1>2, <1>9, FromFacts
  <2> QED
    BY <2>1, <2>2
<1>11. Len(v) # 0
  BY <1>10, EmptySeq
<1>12. v[1] = 0 /\ n - Len(v) + 1 = p + 2 /\ p + 2 <= n
  <2> HIDE DEF n
  <2>1. 1 \in 1 .. Len(s) - 1 /\ 1 + 1 \in 1 .. n - p /\ n - Len(v) + 1 = p + 2 /\ p + 2 <= n
    BY <1>1, <1>2, <1>5, <1>10, <1>11
  <2>2. v[1] = s[1 + 1]
    BY <1>10, <2>1
  <2> QED
    BY <1>3, <2>1, <2>2
<1>13. RecordOf(FirstValue(r), v).length = 1 /\ ValueRead(FirstValue(r), v) = FirstValue(r)
  BY <1>10, <1>12, SameValueRead
<1> QED
  BY <1>2, <1>7, <1>8, <1>9, <1>12, <1>13

\* finish adds zeros, up to a whole number of bytes.
LEMMA PaddedFacts ==
  ASSUME NEW b \in Seq(Bit)
  PROVE  /\ Padded(b) \in Seq(Bit) /\ Len(b) <= Len(Padded(b)) /\ Len(Padded(b)) % 8 = 0
         /\ \A i \in 1 .. Len(b) : Padded(b)[i] = b[i]
         /\ \A i \in Len(b) + 1 .. Len(Padded(b)) : Padded(b)[i] = 0
<1> DEFINE n == Len(b)
           k == (-n) % 8
           z == Zeros(k)
<1>1. n \in Nat
  BY LenProperties
<1>2. k \in Nat /\ (n + k) % 8 = 0
  <2> HIDE DEF n
  <2> QED
    BY <1>1
<1>3. Padded(b) = b \o z
  BY DEF Padded
<1> HIDE DEF k
<1>4. z \in Seq(Bit) /\ Len(z) = k /\ \A i \in 1 .. k : z[i] = 0
  BY <1>2, ZerosFacts
<1> HIDE DEF z
<1>5. /\ b \o z \in Seq(Bit) /\ Len(b \o z) = n + k
      /\ n <= Len(b \o z)
      /\ \A i \in 1 .. n : (b \o z)[i] = b[i]
      /\ \A i \in 1 .. k : (b \o z)[n + i] = z[i]
  BY <1>4, Extended
<1> HIDE DEF n
<1>6. ASSUME NEW i \in n + 1 .. n + k PROVE (b \o z)[i] = 0
  <2>1. i - n \in 1 .. k /\ n + (i - n) = i
    BY <1>1, <1>2
  <2> QED
    BY <1>4, <1>5, <2>1
<1> QED
  BY <1>2, <1>3, <1>5, <1>6 DEF n

-----------------------------------------------------------------------------
(* The invariant *)

\* The stream is made of the records of the points, at their marks, and of
\* zeros behind them.
StreamInv ==
  /\ bits \in Seq(Bit)
  /\ points \in Seq(Point) /\ Len(points) \in 1 .. MaxPoints
  /\ marks \in Seq(Mark) /\ Len(marks) = Len(points)
  /\ marks[1].value = 0
  /\ \A i \in 2 .. Len(points) :
       PointAt(bits, marks[i - 1].value, marks[i], points[i - 1].value, points[i].value)
  /\ marks[Len(points)].value <= Len(bits)
  /\ \A j \in marks[Len(points)].value + 1 .. Len(bits) : bits[j] = 0

\* The value compressor has seen the last point, and its window is the whole
\* word still.
WriterInv ==
  phase = "writing" =>
    /\ marks[Len(points)].value = Len(bits)
    /\ writer.timestamp \in [last : Int, delta : Int]
    /\ writer.value = FirstValue(points[Len(points)].value)

\* The reader is at the mark of the last point it has read, or behind the last
\* of all, and its window is the whole word too.
ReaderInv ==
  /\ phase \in {"writing", "reading", "end"}
  /\ guess \in Values
  /\ pos \in 0 .. Len(bits)
  /\ read \in Seq([timestamp : Int, value : Word]) /\ Len(read) >= 1
  /\ phase = "writing" => Len(read) = 1 /\ pos = 0
  /\ Len(read) <= Len(points) => pos = marks[Len(read)].value
  /\ Len(read) > Len(points) => pos >= marks[Len(points)].value
  /\ phase = "end" => Len(read) >= Len(points)
  /\ phase # "writing" =>
       /\ Len(bits) % 8 = 0
       /\ reader.timestamp \in [last : Int, delta : Int]
       /\ reader.value = FirstValue(read[Len(read)].value)
       /\ \A i \in Known : Xor(read[i].value, points[i].value) = Xor(guess, points[1].value)

LEMMA PointFields ==
  ASSUME NEW p \in Point
  PROVE  p.timestamp \in Int /\ p.value \in Word /\ p.value \in Values
<1>1. p.timestamp \in Timestamps /\ p.value \in Values
  BY DEF Point
<1>2. p.timestamp \in Nat /\ p.value \in Word
  BY <1>1, TimestampsAssumption, ValuesAssumption
<1> QED
  BY <1>1, <1>2

\* The points of the block, and where their records end.
LEMMA PointFacts ==
  ASSUME StreamInv
  PROVE  /\ Len(points) \in Nat /\ Len(points) >= 1 /\ Len(points) <= MaxPoints /\ Len(bits) \in Nat
         /\ \A i \in 1 .. Len(points) :
              /\ points[i] \in Point /\ points[i].value \in Word /\ points[i].timestamp \in Int
              /\ marks[i] \in Mark /\ marks[i].value \in Nat /\ marks[i].timestamp \in Nat
<1>1. /\ bits \in Seq(Bit) /\ points \in Seq(Point) /\ marks \in Seq(Mark)
      /\ Len(marks) = Len(points) /\ Len(points) \in 1 .. MaxPoints
  BY DEF StreamInv
<1>2. Len(points) \in Nat /\ Len(points) >= 1 /\ Len(points) <= MaxPoints /\ Len(bits) \in Nat
  BY <1>1, LenProperties, MaxAssumption
<1>3. \A i \in 1 .. Len(points) : points[i] \in Point /\ marks[i] \in Mark
  BY <1>1, ElementOfSeq
<1>4. \A m \in Mark : m.value \in Nat /\ m.timestamp \in Nat
  BY DEF Mark
<1> QED
  BY <1>2, <1>3, <1>4, PointFields

LEMMA InvInit ==
  ASSUME Init
  PROVE  StreamInv /\ WriterInv /\ ReaderInv
<1>1. PICK p \in Point : points = <<p>> /\ writer = Codec(p.timestamp, p.value) /\ guess = p.value
  BY DEF Init
<1>2. p.timestamp \in Int /\ p.value \in Word /\ p.value \in Values
  BY PointFields
<1>3. bits = <<>> /\ bits \in Seq(Bit) /\ Len(bits) = 0
  BY DEF Init
<1>4. points \in Seq(Point) /\ Len(points) = 1 /\ points[1] = p
  BY <1>1
<1>5. /\ marks \in Seq(Mark) /\ Len(marks) = 1 /\ marks[1].value = 0
  <2>1. marks = <<[timestamp |-> 0, value |-> 0]>>
    BY DEF Init
  <2>2. [timestamp |-> 0, value |-> 0] \in Mark
    BY DEF Mark
  <2> QED
    BY <2>1, <2>2
<1>6. StreamInv
  <2>1. 1 \in 1 .. MaxPoints
    BY MaxAssumption
  <2>2. \A i \in 2 .. 1 : FALSE
    OBVIOUS
  <2>3. \A j \in 0 + 1 .. 0 : FALSE
    OBVIOUS
  <2> QED
    BY <1>3, <1>4, <1>5, <2>1, <2>2, <2>3 DEF StreamInv
<1>7. WriterInv
  <2>1. writer.timestamp = [last |-> p.timestamp, delta |-> 0] /\ writer.value = FirstValue(p.value)
    BY <1>1 DEF Codec, FirstTimestamp
  <2>2. writer.timestamp \in [last : Int, delta : Int]
    BY <1>2, <2>1
  <2> QED
    BY <1>3, <1>4, <1>5, <2>1, <2>2 DEF WriterInv
<1>8. ReaderInv
  <2>1. phase = "writing" /\ pos = 0 /\ read = points
    BY DEF Init
  <2>2. p \in [timestamp : Int, value : Word]
    BY <1>2 DEF Point
  <2>3. read \in Seq([timestamp : Int, value : Word]) /\ Len(read) = 1
    BY <1>1, <2>1, <2>2
  <2> QED
    BY <1>1, <1>2, <1>3, <1>4, <1>5, <2>1, <2>3 DEF ReaderInv
<1> QED
  BY <1>6, <1>7, <1>8

\* A point is written behind the others, which stay as they are.
LEMMA InvWritePoint ==
  ASSUME StreamInv, WriterInv, ReaderInv, NEW p \in Point, WritePoint(p)
  PROVE  StreamInv' /\ WriterInv' /\ ReaderInv'
<1> DEFINE n == Len(points)
           k == Len(bits)
           old == points[n].value
           state == writer.timestamp
           c == bits \o TimestampRecord(state, p.timestamp)
           mark == [timestamp |-> Len(c), value |-> Len(bits')]
<1>1. /\ n \in Nat /\ n >= 1 /\ n <= MaxPoints /\ k \in Nat
      /\ \A i \in 1 .. n :
           /\ points[i] \in Point /\ points[i].value \in Word
           /\ marks[i] \in Mark /\ marks[i].value \in Nat
  BY PointFacts
<1>2. p.timestamp \in Int /\ p.value \in Word
  BY PointFields
<1>3. /\ phase = "writing" /\ n < MaxPoints
      /\ bits' = c \o ValueRecord(writer.value, p.value)
      /\ marks' = Append(marks, mark)
      /\ points' = Append(points, p)
      /\ writer' = [timestamp |-> TimestampAfter(state, p.timestamp),
                    value     |-> ValueAfter(writer.value, p.value)]
      /\ phase' = phase /\ guess' = guess /\ pos' = pos /\ reader' = reader /\ read' = read
  BY DEF WritePoint
<1>4. marks[n].value = k /\ state \in [last : Int, delta : Int] /\ writer.value = FirstValue(old)
  BY <1>3 DEF WriterInv
<1>5. /\ bits \in Seq(Bit) /\ points \in Seq(Point) /\ marks \in Seq(Mark) /\ Len(marks) = n
      /\ marks[1].value = 0
      /\ \A i \in 2 .. n :
           PointAt(bits, marks[i - 1].value, marks[i], points[i - 1].value, points[i].value)
  BY DEF StreamInv
<1>6. old \in Word
  BY <1>1
<1> HIDE DEF old
<1>7. /\ bits' \in Seq(Bit) /\ k <= Len(bits') /\ \A i \in 1 .. k : bits'[i] = bits[i]
      /\ mark \in Mark
      /\ PointAt(bits', k, mark, old, p.value)
  <2>1. bits' = Written(bits, state, p.timestamp, old, p.value)
    BY <1>3, <1>4 DEF Written
  <2>2. mark = WrittenMark(bits, state, p.timestamp, old, p.value)
    BY <2>1 DEF WrittenMark
  <2> HIDE DEF state, mark
  <2>3. bits \in Seq(Bit) /\ state \in TimestampState
    BY <1>4, <1>5 DEF TimestampState
  <2> DEFINE t   == p.timestamp
             new == p.value
             d   == Written(bits, state, t, old, new)
  <2>4. t \in Int /\ new \in Word
    BY <1>2
  <2> HIDE DEF t, new
  <2>5. /\ d \in Seq(Bit) /\ Len(bits) <= Len(d) /\ \A i \in 1 .. Len(bits) : d[i] = bits[i]
        /\ WrittenMark(bits, state, t, old, new) \in Mark
        /\ PointAt(d, Len(bits), WrittenMark(bits, state, t, old, new), old, new)
    BY <1>6, <2>3, <2>4, PointWritten
  <2>6. bits' = d /\ mark = WrittenMark(bits, state, t, old, new)
    BY <2>1, <2>2 DEF t, new
  <2> HIDE DEF d
  <2> QED
    BY <2>5, <2>6 DEF new
<1>8. /\ points' \in Seq(Point) /\ Len(points') = n + 1 /\ points'[n + 1] = p
      /\ \A i \in 1 .. n : points'[i] = points[i]
  BY <1>3, <1>5, AppendProperties
<1>9. mark.value = Len(bits')
  OBVIOUS
<1> HIDE DEF mark
<1>10. /\ marks' \in Seq(Mark) /\ Len(marks') = n + 1 /\ marks'[n + 1] = mark
       /\ \A i \in 1 .. n : marks'[i] = marks[i]
  BY <1>3, <1>5, <1>7, AppendProperties
<1> HIDE DEF n, k
<1>11. n + 1 \in 1 .. MaxPoints /\ 1 \in 1 .. n /\ n \in 1 .. n
  BY <1>1, <1>3, MaxAssumption
<1>12. StreamInv'
  <2>1. ASSUME NEW i \in 2 .. n + 1
        PROVE  PointAt(bits', marks'[i - 1].value, marks'[i], points'[i - 1].value, points'[i].value)
    <3>1. i - 1 \in 1 .. n /\ (i # n + 1 => i \in 2 .. n /\ i \in 1 .. n) /\ (i = n + 1 => i - 1 = n)
      BY <1>1
    <3>2. marks'[i - 1] = marks[i - 1] /\ points'[i - 1] = points[i - 1] /\ marks[i - 1].value \in Nat
      BY <1>1, <1>8, <1>10, <3>1
    <3>3. CASE i = n + 1
      BY <1>4, <1>7, <1>8, <1>10, <3>1, <3>2, <3>3 DEF old
    <3>4. CASE i # n + 1
      <4>1. marks'[i] = marks[i] /\ points'[i] = points[i] /\ marks[i] \in Mark
        BY <1>1, <1>8, <1>10, <3>1, <3>4
      <4>2. PointAt(bits, marks[i - 1].value, marks[i], points[i - 1].value, points[i].value)
        BY <1>5, <3>1, <3>4
      <4>3. PointAt(bits', marks[i - 1].value, marks[i], points[i - 1].value, points[i].value)
        BY <1>5, <1>7, <3>2, <4>1, <4>2, PointAtLonger DEF k
      <4> QED
        BY <3>2, <4>1, <4>3
    <3> QED
      BY <3>3, <3>4
  <2>2. marks'[n + 1].value = Len(bits')
    BY <1>9, <1>10
  <2>3. Len(bits') \in Nat
    BY <1>7, LenProperties
  <2>4. Len(bits') <= Len(bits') /\ \A j \in Len(bits') + 1 .. Len(bits') : FALSE
    BY <2>3
  <2>5. marks'[1].value = 0
    BY <1>5, <1>10, <1>11
  <2> QED
    BY <1>7, <1>8, <1>10, <1>11, <2>1, <2>2, <2>4, <2>5 DEF StreamInv
<1>13. WriterInv'
  <2>1. writer'.timestamp \in [last : Int, delta : Int]
    <3>1. state.last \in Int
      BY <1>4
    <3>2. writer'.timestamp = [last |-> p.timestamp, delta |-> p.timestamp - state.last]
      BY <1>3 DEF TimestampAfter
    <3> QED
      BY <1>2, <3>1, <3>2
  <2>2. writer'.value = FirstValue(p.value)
    <3>1. writer'.value = ValueAfter(FirstValue(old), p.value)
      BY <1>3, <1>4
    <3> QED
      BY <1>2, <1>6, <3>1, ValueWritten
  <2>3. marks'[Len(points')].value = Len(bits')
    BY <1>8, <1>9, <1>10
  <2>4. points'[Len(points')].value = p.value
    BY <1>8
  <2> QED
    BY <2>1, <2>2, <2>3, <2>4 DEF WriterInv
<1>14. ReaderInv'
  <2>1. /\ guess \in Values /\ read \in Seq([timestamp : Int, value : Word])
        /\ Len(read) = 1 /\ pos = 0
    BY <1>3 DEF ReaderInv
  <2>2. 0 \in 0 .. Len(bits')
    BY <1>7, LenProperties
  <2>3. marks'[1].value = 0
    BY <1>5, <1>10, <1>11
  <2>4. ~(1 > n + 1)
    BY <1>1
  <2> QED
    BY <1>3, <1>8, <2>1, <2>2, <2>3, <2>4 DEF ReaderInv
<1> QED
  BY <1>12, <1>13, <1>14

\* What is known of the points read, while they are read.
LEMMA ReadFacts ==
  ASSUME StreamInv, ReaderInv, phase # "writing"
  PROVE  /\ Len(read) \in Nat /\ Len(read) >= 1
         /\ read \in Seq([timestamp : Int, value : Word])
         /\ read[Len(read)].value \in Word
         /\ reader.value = FirstValue(read[Len(read)].value)
         /\ reader.timestamp \in [last : Int, delta : Int]
         /\ \A i \in 1 .. Len(read) : i <= Len(points) =>
              Xor(read[i].value, points[i].value) = Xor(guess, points[1].value)
<1> DEFINE P == [timestamp : Int, value : Word]
<1>1. /\ read \in Seq(P) /\ Len(read) >= 1
      /\ reader.value = FirstValue(read[Len(read)].value)
      /\ reader.timestamp \in [last : Int, delta : Int]
      /\ \A i \in Known : Xor(read[i].value, points[i].value) = Xor(guess, points[1].value)
  BY DEF ReaderInv
<1>2. Len(read) \in Nat /\ DOMAIN read = 1 .. Len(read)
  BY <1>1, LenProperties
<1>3. Len(points) \in Nat /\ DOMAIN points = 1 .. Len(points)
  BY LenProperties DEF StreamInv
<1>4. \A i \in 1 .. Len(read) : i <= Len(points) => i \in Known
  BY <1>2, <1>3 DEF Known
<1>5. read[Len(read)].value \in Word
  <2>1. Len(read) \in 1 .. Len(read)
    BY <1>1, <1>2
  <2>2. read[Len(read)] \in P
    BY <1>1, <2>1, ElementOfSeq
  <2> QED
    BY <2>2
<1> QED
  BY <1>1, <1>2, <1>4, <1>5

LEMMA InvFinish ==
  ASSUME StreamInv, WriterInv, ReaderInv, Finish
  PROVE  StreamInv' /\ WriterInv' /\ ReaderInv'
<1> DEFINE n == Len(points)
           k == Len(bits)
<1>1. /\ n \in Nat /\ n >= 1 /\ n <= MaxPoints /\ k \in Nat
      /\ \A i \in 1 .. n : points[i].value \in Word /\ points[i].timestamp \in Int
      /\ \A i \in 1 .. n : marks[i] \in Mark /\ marks[i].value \in Nat
  BY PointFacts
<1>2. /\ phase = "writing" /\ phase' = "reading" /\ bits' = Padded(bits)
      /\ points' = points /\ marks' = marks /\ pos' = pos
  BY DEF Finish
<1>3. marks[n].value = k
  BY <1>2 DEF WriterInv
<1>4. /\ bits' \in Seq(Bit) /\ k <= Len(bits') /\ Len(bits') % 8 = 0
      /\ \A i \in 1 .. k : bits'[i] = bits[i]
      /\ \A i \in k + 1 .. Len(bits') : bits'[i] = 0
  BY <1>2, PaddedFacts DEF StreamInv
<1>5. /\ bits \in Seq(Bit) /\ points \in Seq(Point) /\ marks \in Seq(Mark) /\ Len(marks) = n
      /\ n \in 1 .. MaxPoints /\ marks[1].value = 0
      /\ \A i \in 2 .. n :
           PointAt(bits, marks[i - 1].value, marks[i], points[i - 1].value, points[i].value)
  BY DEF StreamInv
<1>6. StreamInv'
  <2>1. ASSUME NEW i \in 2 .. n
        PROVE  PointAt(bits', marks[i - 1].value, marks[i], points[i - 1].value, points[i].value)
    <3>1. i - 1 \in 1 .. n /\ i \in 1 .. n
      BY <1>1
    <3>2. marks[i - 1].value \in Nat /\ marks[i] \in Mark
      BY <1>1, <3>1
    <3>3. PointAt(bits, marks[i - 1].value, marks[i], points[i - 1].value, points[i].value)
      BY <1>5
    <3>4. bits \in Seq(Bit) /\ bits' \in Seq(Bit) /\ Len(bits) <= Len(bits')
      BY <1>4, <1>5
    <3>5. \A j \in 1 .. Len(bits) : bits'[j] = bits[j]
      BY <1>4
    <3> QED
      BY <3>2, <3>3, <3>4, <3>5, PointAtLonger
  <2> QED
    BY <1>2, <1>3, <1>4, <1>5, <2>1 DEF StreamInv
<1>7. WriterInv'
  BY <1>2 DEF WriterInv
<1>8. ReaderInv'
  <2>1. PICK v \in Values :
          /\ guess' = v
          /\ reader' = Codec(points[1].timestamp, v)
          /\ read' = <<[timestamp |-> points[1].timestamp, value |-> v]>>
    BY DEF Finish
  <2>2. v \in Word /\ points[1].timestamp \in Int /\ 1 \in 1 .. n
    BY <1>1, ValuesAssumption
  <2>3. [timestamp |-> points[1].timestamp, value |-> v] \in [timestamp : Int, value : Word]
    BY <2>2
  <2>4. /\ read' \in Seq([timestamp : Int, value : Word]) /\ Len(read') = 1
        /\ DOMAIN read' = 1 .. 1 /\ read'[1].value = v
    BY <2>1, <2>3
  <2>5. reader'.timestamp \in [last : Int, delta : Int] /\ reader'.value = FirstValue(v)
    BY <2>1, <2>2 DEF Codec, FirstTimestamp
  <2>6. pos = 0
    BY <1>2 DEF ReaderInv
  <2>7. 0 \in 0 .. Len(bits') /\ ~(1 > n) /\ 1 >= 1
    BY <1>1, <1>4, LenProperties
  <2>8. \A i \in Known' : Xor(read'[i].value, points'[i].value) = Xor(guess', points'[1].value)
    <3>1. \A i \in Known' : i = 1
      BY <2>4 DEF Known
    <3> QED
      BY <1>2, <2>1, <2>4, <3>1
  <2> QED
    BY <1>2, <1>4, <1>5, <2>1, <2>4, <2>5, <2>6, <2>7, <2>8 DEF ReaderInv
<1> QED
  BY <1>6, <1>7, <1>8

\* There is a point ahead while the block has points that are not read, and the
\* reader passes its records; its value has the error of the one before.
LEMMA NextPoint ==
  ASSUME StreamInv, ReaderInv, phase = "reading", Len(read) < Len(points)
  PROVE  /\ PointAhead
         /\ TimestampRead(reader.timestamp, From(bits, pos)) \in [last : Int, delta : Int]
         /\ Len(bits) - Len(AfterTimestamp) + RecordOf(reader.value, AfterTimestamp).length
              = marks[Len(read) + 1].value
         /\ marks[Len(read) + 1].value \in 0 .. Len(bits)
         /\ \E w \in Word :
              /\ ValueRead(reader.value, AfterTimestamp) = FirstValue(w)
              /\ Xor(w, points[Len(read) + 1].value) = Xor(guess, points[1].value)
<1> DEFINE n == Len(points)
           m == Len(read)
           r == read[m].value
           s == From(bits, pos)
           v == From(s, TimestampRecordLength(FieldOf(s)))
           mark == marks[m + 1]
           old == points[m].value
           new == points[m + 1].value
<1>1. /\ n \in Nat /\ Len(bits) \in Nat /\ bits \in Seq(Bit)
      /\ \A i \in 1 .. n : points[i].value \in Word /\ marks[i] \in Mark /\ marks[i].value \in Nat
  BY PointFacts DEF StreamInv
<1>2. /\ m \in Nat /\ m >= 1 /\ r \in Word /\ reader.value = FirstValue(r)
      /\ reader.timestamp \in [last : Int, delta : Int]
      /\ \A i \in 1 .. m : i <= n => Xor(read[i].value, points[i].value) = Xor(guess, points[1].value)
  BY ReadFacts
<1>3. /\ m \in 1 .. m /\ m <= n /\ m \in 1 .. n /\ m + 1 \in 1 .. n /\ m + 1 \in 2 .. n
      /\ (m + 1) - 1 = m
  BY <1>1, <1>2
<1>4. old \in Word /\ new \in Word /\ mark \in Mark /\ mark.value \in Nat
  BY <1>1, <1>3
<1>5. pos \in 0 .. Len(bits) /\ pos = marks[m].value
  BY <1>3 DEF ReaderInv
<1>6. PointAt(bits, pos, mark, old, new)
  <2>1. \A i \in 2 .. n :
          PointAt(bits, marks[i - 1].value, marks[i], points[i - 1].value, points[i].value)
    BY DEF StreamInv
  <2>2. PointAt(bits, marks[(m + 1) - 1].value, marks[m + 1], points[(m + 1) - 1].value,
                points[m + 1].value)
    BY <1>3, <2>1
  <2> QED
    BY <1>3, <1>5, <2>2
<1>7. Xor(r, old) = Xor(guess, points[1].value)
  BY <1>2, <1>3
<1> HIDE DEF m, mark, old, new, r
<1>8. /\ s \in Seq(Bit) /\ FieldOf(s) # 0 /\ TimestampRecordLength(FieldOf(s)) <= Len(s)
      /\ v # <<>> /\ RecordOf(FirstValue(r), v) # NoRecord
      /\ Len(bits) - Len(v) + RecordOf(FirstValue(r), v).length = mark.value
      /\ \E w \in Word : ValueRead(FirstValue(r), v) = FirstValue(w) /\ Xor(w, new) = Xor(r, old)
  BY <1>1, <1>2, <1>4, <1>5, <1>6, PointRead
<1>9. AfterTimestamp = v
  BY <1>8 DEF AfterTimestamp
<1>10. TimestampRead(reader.timestamp, s) \in [last : Int, delta : Int]
  <2> HIDE DEF s
  <2> QED
    BY <1>2, <1>8, TimestampReadType
<1>11. mark.value \in 0 .. Len(bits)
  BY <1>1, <1>4, <1>6 DEF PointAt
<1> HIDE DEF v
<1>12. PointAhead
  BY <1>2, <1>8, <1>9 DEF PointAhead
<1> QED
  BY <1>2, <1>7, <1>8, <1>9, <1>10, <1>11, <1>12 DEF m, mark, new

\* Behind the last point the reader may pass zeros; its value does not change.
LEMMA PointOfZeros ==
  ASSUME StreamInv, ReaderInv, phase = "reading", Len(read) >= Len(points), PointAhead
  PROVE  /\ TimestampRead(reader.timestamp, From(bits, pos)) \in [last : Int, delta : Int]
         /\ Len(bits) - Len(AfterTimestamp) + RecordOf(reader.value, AfterTimestamp).length
              = pos + 2
         /\ pos >= marks[Len(points)].value /\ pos + 2 <= Len(bits)
         /\ ValueRead(reader.value, AfterTimestamp) = reader.value
<1> DEFINE n == Len(points)
           m == Len(read)
           r == read[m].value
           s == From(bits, pos)
           v == From(s, TimestampRecordLength(FieldOf(s)))
<1>1. /\ n \in Nat /\ n >= 1 /\ Len(bits) \in Nat /\ bits \in Seq(Bit)
      /\ \A i \in 1 .. n : marks[i].value \in Nat
  BY PointFacts DEF StreamInv
<1>2. /\ m \in Nat /\ m >= 1 /\ r \in Word /\ reader.value = FirstValue(r)
      /\ reader.timestamp \in [last : Int, delta : Int]
  BY ReadFacts
<1>3. pos \in 0 .. Len(bits)
  BY DEF ReaderInv
<1>4. pos >= marks[n].value
  <2>1. n \in 1 .. n
    BY <1>1
  <2>2. marks[n].value \in Nat
    BY <1>1, <2>1
  <2>3. CASE m = n
    <3>1. pos = marks[n].value
      BY <1>1, <2>3 DEF ReaderInv
    <3> QED
      BY <2>2, <3>1
  <2>4. CASE m > n
    BY <2>4 DEF ReaderInv
  <2> QED
    BY <1>1, <1>2, <2>3, <2>4
<1>5. \A j \in pos + 1 .. Len(bits) : bits[j] = 0
  <2>1. \A j \in marks[n].value + 1 .. Len(bits) : bits[j] = 0
    BY DEF StreamInv
  <2>2. n \in 1 .. n
    BY <1>1
  <2>3. marks[n].value \in Nat
    BY <1>1, <2>2
  <2> DEFINE a == marks[n].value
             k == Len(bits)
  <2> HIDE DEF a, k, n
  <2>4. \A j \in pos + 1 .. k : j \in a + 1 .. k
    BY <1>1, <1>3, <1>4, <2>3 DEF a, k
  <2> QED
    BY <2>1, <2>4 DEF a, k
<1>6. FieldOf(s) # 0 /\ AfterTimestamp = v /\ v # <<>>
  BY DEF PointAhead, AfterTimestamp
<1> HIDE DEF m, r, n
<1>7. /\ s \in Seq(Bit) /\ TimestampRecordLength(FieldOf(s)) <= Len(s)
      /\ Len(bits) - Len(v) + RecordOf(FirstValue(r), v).length = pos + 2 /\ pos + 2 <= Len(bits)
      /\ ValueRead(FirstValue(r), v) = FirstValue(r)
  BY <1>1, <1>2, <1>3, <1>5, <1>6, ZerosRead
<1>8. TimestampRead(reader.timestamp, s) \in [last : Int, delta : Int]
  <2> HIDE DEF s
  <2> QED
    BY <1>2, <1>6, <1>7, TimestampReadType
<1> HIDE DEF v
<1> QED
  BY <1>2, <1>4, <1>6, <1>7, <1>8 DEF n

LEMMA InvReadPoint ==
  ASSUME StreamInv, WriterInv, ReaderInv, ReadPoint
  PROVE  StreamInv' /\ WriterInv' /\ ReaderInv'
<1> DEFINE P == [timestamp : Int, value : Word]
           n == Len(points)
           m == Len(read)
           t == reader'.timestamp
           v == AfterTimestamp
<1>1. /\ phase = "reading" /\ phase' = "reading" /\ PointAhead
      /\ points' = points /\ marks' = marks /\ bits' = bits /\ guess' = guess
      /\ reader' = [timestamp |-> TimestampRead(reader.timestamp, From(bits, pos)),
                    value     |-> ValueRead(reader.value, v)]
      /\ read' = Append(read, [timestamp |-> reader'.timestamp.last, value |-> reader'.value.last])
      /\ pos' = Len(bits) - Len(v) + RecordOf(reader.value, v).length
  BY DEF ReadPoint
<1>2. /\ n \in Nat /\ n >= 1 /\ Len(bits) \in Nat /\ points \in Seq(Point)
      /\ \A i \in 1 .. n : marks[i].value \in Nat
  BY PointFacts DEF StreamInv
<1>3. /\ m \in Nat /\ m >= 1 /\ read \in Seq(P)
      /\ read[m].value \in Word /\ reader.value = FirstValue(read[m].value)
      /\ \A i \in 1 .. m : i <= n => Xor(read[i].value, points[i].value) = Xor(guess, points[1].value)
  BY <1>1, ReadFacts
<1>4. /\ m < n => pos' = marks[m + 1].value
      /\ m >= n => pos' >= marks[n].value
      /\ pos' \in 0 .. Len(bits)
      /\ t \in [last : Int, delta : Int]
      /\ \E w \in Word : /\ reader'.value = FirstValue(w)
                         /\ m < n => Xor(w, points[m + 1].value) = Xor(guess, points[1].value)
  <2>1. CASE m < n
    BY <1>1, <1>2, <1>3, <2>1, NextPoint
  <2>2. CASE m >= n
    <3>1. /\ t \in [last : Int, delta : Int]
          /\ pos' = pos + 2 /\ pos >= marks[n].value /\ pos + 2 <= Len(bits)
          /\ reader'.value = FirstValue(read[m].value)
      BY <1>1, <1>3, <2>2, PointOfZeros
    <3>2. pos \in 0 .. Len(bits)
      BY DEF ReaderInv
    <3>3. n \in 1 .. n
      BY <1>2
    <3>4. marks[n].value \in Nat
      BY <1>2, <3>3
    <3>5. pos + 2 >= marks[n].value /\ pos + 2 \in 0 .. Len(bits) /\ ~(m < n)
      BY <1>2, <1>3, <2>2, <3>1, <3>2, <3>4
    <3> QED
      BY <1>3, <3>1, <3>5
  <2> QED
    BY <1>2, <1>3, <2>1, <2>2
<1>5. PICK w \in Word : /\ reader'.value = FirstValue(w)
                        /\ m < n => Xor(w, points[m + 1].value) = Xor(guess, points[1].value)
  BY <1>4
<1>6. reader'.value.last = w
  BY <1>5 DEF FirstValue
<1> DEFINE p == [timestamp |-> t.last, value |-> w]
<1>7. p \in P
  <2>1. t.last \in Int
    BY <1>4
  <2> QED
    BY <2>1
<1>8. read' = Append(read, p)
  BY <1>1, <1>6
<1>9. /\ read' \in Seq(P) /\ Len(read') = m + 1
      /\ \A i \in 1 .. m : read'[i] = read[i]
      /\ read'[m + 1].value = w
  <2>1. p.value = w
    OBVIOUS
  <2> HIDE DEF p, P
  <2> QED
    BY <1>3, <1>7, <1>8, <2>1, AppendProperties
<1>10. StreamInv'
  BY <1>1 DEF StreamInv
<1>11. WriterInv'
  BY <1>1 DEF WriterInv
<1>12. ReaderInv'
  <2>1. guess \in Values /\ Len(bits) % 8 = 0
    BY <1>1 DEF ReaderInv
  <2>2. reader'.value = FirstValue(read'[Len(read')].value)
    BY <1>5, <1>9
  <2>3. m + 1 <= n => pos' = marks[m + 1].value
    BY <1>2, <1>3, <1>4
  <2>4. m + 1 > n => pos' >= marks[n].value
    BY <1>2, <1>3, <1>4
  <2>5. ASSUME NEW i \in Known'
        PROVE  Xor(read'[i].value, points[i].value) = Xor(guess, points[1].value)
    <3>1. i \in 1 .. m + 1 /\ i \in 1 .. n
      <4>1. DOMAIN read' = 1 .. m + 1
        BY <1>9, LenProperties
      <4>2. DOMAIN points = 1 .. n
        BY <1>2, LenProperties
      <4> QED
        BY <1>1, <4>1, <4>2 DEF Known
    <3>2. CASE i = m + 1
      <4>1. m < n
        BY <1>2, <1>3, <3>1, <3>2
      <4> QED
        BY <1>5, <1>9, <3>2, <4>1
    <3>3. CASE i # m + 1
      <4>1. i \in 1 .. m /\ i <= n
        BY <1>2, <1>3, <3>1, <3>3
      <4>2. read'[i] = read[i]
        BY <1>9, <4>1
      <4>3. Xor(read[i].value, points[i].value) = Xor(guess, points[1].value)
        BY <1>3, <4>1
      <4> QED
        BY <4>2, <4>3
    <3> QED
      BY <3>2, <3>3
  <2>6. m + 1 >= 1
    BY <1>3
  <2> QED
    BY <1>1, <1>4, <1>9, <2>1, <2>2, <2>3, <2>4, <2>5, <2>6 DEF ReaderInv
<1> QED
  BY <1>10, <1>11, <1>12

LEMMA InvEndRead ==
  ASSUME StreamInv, WriterInv, ReaderInv, EndRead
  PROVE  StreamInv' /\ WriterInv' /\ ReaderInv'
<1>1. /\ phase = "reading" /\ phase' = "end" /\ ~PointAhead
      /\ points' = points /\ marks' = marks /\ bits' = bits /\ guess' = guess
      /\ writer' = writer /\ pos' = pos /\ reader' = reader /\ read' = read
  BY DEF EndRead
<1>2. Len(read) >= Len(points)
  <2>1. Len(read) \in Nat /\ Len(points) \in Nat
    BY <1>1, PointFacts, ReadFacts
  <2>2. ~(Len(read) < Len(points))
    BY <1>1, NextPoint
  <2> QED
    BY <2>1, <2>2
<1>3. StreamInv' /\ WriterInv'
  BY <1>1 DEF StreamInv, WriterInv
<1>4. Known' = Known
  BY <1>1 DEF Known
<1>5. ReaderInv'
  BY <1>1, <1>2, <1>4 DEF ReaderInv
<1> QED
  BY <1>3, <1>5

LEMMA InvHolds == Spec => [](StreamInv /\ WriterInv /\ ReaderInv)
<1> DEFINE Inv == StreamInv /\ WriterInv /\ ReaderInv
<1>1. Init => Inv
  BY InvInit
<1>2. Inv /\ [Next]_vars => Inv'
  <2> SUFFICES ASSUME Inv, [Next]_vars PROVE Inv'
    OBVIOUS
  <2>1. CASE \E p \in Point : WritePoint(p)
    BY <2>1, InvWritePoint
  <2>2. CASE Finish
    BY <2>2, InvFinish
  <2>3. CASE ReadPoint
    BY <2>3, InvReadPoint
  <2>4. CASE EndRead
    BY <2>4, InvEndRead
  <2>5. CASE UNCHANGED vars
    <3>1. /\ phase' = phase /\ points' = points /\ bits' = bits /\ writer' = writer
          /\ marks' = marks /\ guess' = guess /\ pos' = pos /\ reader' = reader /\ read' = read
      BY <2>5 DEF vars
    <3>2. Known' = Known
      BY <3>1 DEF Known
    <3> QED
      BY <3>1, <3>2 DEF StreamInv, WriterInv, ReaderInv
  <2> QED
    BY <2>1, <2>2, <2>3, <2>4, <2>5 DEF Next
<1> QED
  BY <1>1, <1>2, PTL DEF Spec

-----------------------------------------------------------------------------
(* What the timestamps are read as *)

\* What a compressor that has seen the first i of these points keeps of them.
StateAfter(q, i) ==
  [last  |-> q[i].timestamp,
   delta |-> IF i = 1 THEN 0 ELSE q[i].timestamp - q[i - 1].timestamp]

\* The point that the reader starts with.
FirstRead == Len(read) = 1 /\ read[1].timestamp = points[1].timestamp

\* At each mark there is the record of the next timestamp, and the compressor
\* has seen all of them; so has the decompressor those it has passed, until
\* there is a misfit among them.
TimestampInv ==
  /\ \A i \in 2 .. Len(points) :
       RecordAt(bits, marks[i - 1].value,
                TimestampRecord(StateAfter(points, i - 1), points[i].timestamp))
  /\ phase = "writing" => FirstRead /\ writer.timestamp = StateAfter(points, Len(points))
  /\ (phase # "writing" /\ Len(read) <= Len(points) /\ \A j \in Misfits : Len(read) < j) =>
       reader.timestamp = StateAfter(points, Len(read))
  /\ TimestampsRightUntilMisfit

LEMMA StateFacts ==
  ASSUME NEW q \in Seq(Point), NEW i \in 1 .. Len(q)
  PROVE  /\ StateAfter(q, i) \in TimestampState
         /\ i # 1 => TimestampAfter(StateAfter(q, i - 1), q[i].timestamp) = StateAfter(q, i)
         /\ \A p \in Point : StateAfter(Append(q, p), i) = StateAfter(q, i)
<1>1. Len(q) \in Nat
  BY LenProperties
<1>2. \A j \in 1 .. Len(q) : q[j].timestamp \in Int
  BY ElementOfSeq, PointFields
<1>3. i # 1 => i - 1 \in 1 .. Len(q)
  BY <1>1
<1>4. StateAfter(q, i) \in TimestampState
  <2>1. (IF i = 1 THEN 0 ELSE q[i].timestamp - q[i - 1].timestamp) \in Int
    BY <1>2, <1>3
  <2> QED
    BY <1>2, <2>1 DEF StateAfter, TimestampState
<1>5. ASSUME i # 1 PROVE TimestampAfter(StateAfter(q, i - 1), q[i].timestamp) = StateAfter(q, i)
  BY <1>5 DEF TimestampAfter, StateAfter
<1>6. ASSUME NEW p \in Point PROVE StateAfter(Append(q, p), i) = StateAfter(q, i)
  <2>1. \A j \in 1 .. Len(q) : Append(q, p)[j] = q[j]
    BY AppendProperties
  <2> QED
    BY <1>3, <2>1 DEF StateAfter
<1> QED
  BY <1>4, <1>5, <1>6

\* No change of delta is too large for the widest field.
LEMMA DodFits ==
  ASSUME StreamInv, NEW i \in 2 .. Len(points)
  PROVE  /\ DeltaOfDelta(StateAfter(points, i - 1), points[i].timestamp) = Dod(i)
         /\ FitsWidest(Dod(i))
<1> DEFINE n == Len(points)
           h == 2 ^ (WideBits - 2)
           t(j) == points[j].timestamp
<1>1. n \in Nat /\ n >= 1
  BY PointFacts
<1>2. \A j, k \in 1 .. n : t(j) \in Int /\ t(j) - t(k) < h
  <2>1. \A j \in 1 .. n : t(j) \in Timestamps /\ t(j) \in Int
    <3>1. \A j \in 1 .. n : points[j] \in Point
      BY PointFacts
    <3> QED
      BY <3>1, PointFields DEF Point
  <2> QED
    BY <2>1, SpanAssumption
<1>3. h \in Nat /\ 2 ^ (WideBits - 1) = 2 * h
  <2>1. WideBits - 2 \in 0 .. 31 /\ (WideBits - 2) + 1 = WideBits - 1
    BY WideAssumption
  <2>2. Doubles(WideBits - 2)
    BY <2>1, Doubling
  <2>3. h \in Nat /\ 2 ^ ((WideBits - 2) + 1) = 2 * h
    BY <2>2 DEF Doubles
  <2> HIDE DEF h
  <2> QED
    BY <2>1, <2>3
<1>4. DeltaOfDelta(StateAfter(points, i - 1), t(i))
        = t(i) - t(i - 1) - IF i - 1 = 1 THEN 0 ELSE t(i - 1) - t((i - 1) - 1)
  BY DEF DeltaOfDelta, StateAfter
<1>5. Dod(i) = IF i = 2 THEN t(2) - t(1) ELSE (t(i) - t(i - 1)) - (t(i - 1) - t(i - 2))
  BY DEF Dod
<1> HIDE DEF h, n, t
<1>6. CASE i = 2
  <2>1. 1 \in 1 .. n /\ 2 \in 1 .. n /\ i - 1 = 1
    BY <1>1, <1>6 DEF n
  <2>2. t(2) - t(1) < h /\ t(1) - t(2) < h /\ t(1) \in Int /\ t(2) \in Int
    BY <1>2, <2>1
  <2>3. t(2) - t(1) - 0 = t(2) - t(1) /\ -(2 * h) < t(2) - t(1) /\ t(2) - t(1) < 2 * h
    BY <1>3, <2>2
  <2>4. Dod(i) = t(2) - t(1) /\ DeltaOfDelta(StateAfter(points, i - 1), t(i)) = t(2) - t(1)
    BY <1>4, <1>5, <1>6, <2>1, <2>2
  <2> QED
    BY <1>3, <2>3, <2>4 DEF t, FitsWidest
<1>7. CASE i # 2
  <2>1. i \in 1 .. n /\ i - 1 \in 1 .. n /\ i - 2 \in 1 .. n /\ i - 1 # 1 /\ (i - 1) - 1 = i - 2
    BY <1>1, <1>7 DEF n
  <2> DEFINE a == t(i)
             b == t(i - 1)
             c == t(i - 2)
  <2>2. a \in Int /\ b \in Int /\ c \in Int /\ a - b < h /\ b - a < h /\ b - c < h /\ c - b < h
    BY <1>2, <2>1
  <2>3. DeltaOfDelta(StateAfter(points, i - 1), t(i)) = a - b - (b - c)
    BY <1>4, <2>1
  <2>4. Dod(i) = (a - b) - (b - c)
    BY <1>5, <1>7
  <2> HIDE DEF a, b, c
  <2>5. -(2 * h) < (a - b) - (b - c) /\ (a - b) - (b - c) < 2 * h
    BY <1>3, <2>2
  <2> QED
    BY <1>3, <2>3, <2>4, <2>5 DEF t, FitsWidest
<1> QED
  BY <1>6, <1>7

LEMMA RecordAtLonger ==
  ASSUME NEW b \in Seq(Bit), NEW c \in Seq(Bit), Len(b) <= Len(c),
         \A i \in 1 .. Len(b) : c[i] = b[i],
         NEW p \in Nat, NEW r \in Seq(Bit), RecordAt(b, p, r)
  PROVE  RecordAt(c, p, r)
<1> DEFINE m == Len(b)
           n == Len(c)
           k == Len(r)
<1>1. m \in Nat /\ n \in Nat /\ k \in Nat /\ m <= n
  BY LenProperties
<1>2. p + k <= m /\ \A j \in 1 .. k : b[p + j] = r[j]
  BY DEF RecordAt
<1>3. \A i \in 1 .. m : c[i] = b[i]
  OBVIOUS
<1> HIDE DEF m, n, k
<1>4. p + k <= n /\ \A j \in 1 .. k : p + j \in 1 .. m
  BY <1>1, <1>2
<1>5. \A j \in 1 .. k : c[p + j] = r[j]
  BY <1>2, <1>3, <1>4
<1> QED
  BY <1>4, <1>5 DEF RecordAt, n, k

\* The record that is appended to a stream is found at its end.
LEMMA RecordWritten ==
  ASSUME NEW b \in Seq(Bit), NEW state \in TimestampState, NEW t \in Int,
         NEW old \in Word, NEW new \in Word
  PROVE  RecordAt(Written(b, state, t, old, new), Len(b), TimestampRecord(state, t))
<1> DEFINE x == TimestampRecord(state, t)
           y == ValueRecord(FirstValue(old), new)
           c == b \o x
<1>1. x \in Seq(Bit) /\ y \in Seq(Bit)
  BY TimestampRecordFacts, ValueWritten
<1> HIDE DEF x, y
<1>2. /\ c \in Seq(Bit) /\ Len(c) = Len(b) + Len(x)
      /\ \A j \in 1 .. Len(x) : c[Len(b) + j] = x[j]
  BY <1>1, Extended
<1>3. Len(b) \in Nat /\ Len(x) \in Nat
  BY <1>1, LenProperties
<1>4. RecordAt(c, Len(b), x)
  BY <1>2, <1>3 DEF RecordAt
<1> HIDE DEF c
<1>5. c \o y \in Seq(Bit) /\ Len(c) <= Len(c \o y) /\ \A i \in 1 .. Len(c) : (c \o y)[i] = c[i]
  BY <1>1, <1>2, Extended
<1>6. RecordAt(c \o y, Len(b), x)
  BY <1>1, <1>2, <1>3, <1>4, <1>5, RecordAtLonger
<1> QED
  BY <1>6 DEF Written, c, x, y

\* There is no misfit before the second point.
LEMMA FirstRight ==
  (StreamInv /\ read \in Seq([timestamp : Int, value : Word]) /\ FirstRead)
    => TimestampsRightUntilMisfit
<1> SUFFICES ASSUME StreamInv, read \in Seq([timestamp : Int, value : Word]), FirstRead,
                    NEW i \in Known
             PROVE  read[i].timestamp = points[i].timestamp <=> i \notin Misfits
  BY DEF TimestampsRightUntilMisfit
<1>1. DOMAIN read = 1 .. 1 /\ Len(points) \in Nat
  BY PointFacts, LenProperties DEF FirstRead
<1>2. i = 1
  BY <1>1 DEF Known
<1>3. 1 \notin Misfits
  BY DEF Misfits
<1> QED
  BY <1>2, <1>3 DEF FirstRead

LEMMA TimestampsInit ==
  ASSUME Init, StreamInv, ReaderInv
  PROVE  TimestampInv
<1>1. PICK p \in Point : points = <<p>> /\ writer = Codec(p.timestamp, p.value)
  BY DEF Init
<1>2. phase = "writing" /\ read = points /\ Len(points) = 1
  BY <1>1 DEF Init
<1>3. FirstRead
  BY <1>2 DEF FirstRead
<1>4. writer.timestamp = StateAfter(points, 1)
  <2>1. points[1] = p
    BY <1>1
  <2> QED
    BY <1>1, <2>1 DEF Codec, FirstTimestamp, StateAfter
<1>5. TimestampsRightUntilMisfit
  BY <1>3, FirstRight DEF ReaderInv
<1>6. \A i \in 2 .. 1 : FALSE
  OBVIOUS
<1> QED
  BY <1>2, <1>3, <1>4, <1>5, <1>6 DEF TimestampInv

LEMMA TimestampsWritePoint ==
  ASSUME StreamInv, WriterInv, ReaderInv, StreamInv', ReaderInv', TimestampInv,
         NEW p \in Point, WritePoint(p)
  PROVE  TimestampInv'
<1> DEFINE n == Len(points)
           k == Len(bits)
           old == points[n].value
           state == StateAfter(points, n)
<1>1. /\ n \in Nat /\ n >= 1
      /\ \A i \in 1 .. n : /\ points[i] \in Point /\ points[i].value \in Word
                           /\ points[i].timestamp \in Int /\ marks[i].value \in Nat
  BY PointFacts
<1>2. p.timestamp \in Int /\ p.value \in Word
  BY PointFields
<1>3. bits \in Seq(Bit) /\ points \in Seq(Point) /\ marks \in Seq(Mark) /\ Len(marks) = n
  BY DEF StreamInv
<1>4. /\ phase = "writing" /\ marks[n].value = k
      /\ writer.timestamp = state /\ writer.value = FirstValue(old) /\ FirstRead
  BY DEF WritePoint, WriterInv, TimestampInv
<1>5. /\ bits' = (bits \o TimestampRecord(writer.timestamp, p.timestamp))
                    \o ValueRecord(writer.value, p.value)
      /\ points' = Append(points, p)
      /\ writer'.timestamp = TimestampAfter(writer.timestamp, p.timestamp)
      /\ phase' = "writing" /\ read' = read
  BY DEF WritePoint
<1>6. \E mark : marks' = Append(marks, mark)
  BY DEF WritePoint
<1>7. n \in 1 .. n /\ 1 \in 1 .. n
  BY <1>1
<1>8. old \in Word /\ state \in TimestampState
  BY <1>1, <1>3, <1>7, StateFacts
<1>9. bits' = Written(bits, state, p.timestamp, old, p.value)
  BY <1>4, <1>5 DEF Written
<1> HIDE DEF state, old
<1>10. bits' \in Seq(Bit) /\ k <= Len(bits') /\ \A i \in 1 .. k : bits'[i] = bits[i]
  <2> DEFINE t   == p.timestamp
             new == p.value
             d   == Written(bits, state, t, old, new)
  <2>1. t \in Int /\ new \in Word
    BY <1>2
  <2> HIDE DEF t, new
  <2>2. d \in Seq(Bit) /\ Len(bits) <= Len(d) /\ \A i \in 1 .. Len(bits) : d[i] = bits[i]
    BY <1>3, <1>8, <2>1, PointWritten
  <2> QED
    BY <1>9, <2>2 DEF t, new
<1>11. RecordAt(bits', k, TimestampRecord(state, p.timestamp))
  BY <1>2, <1>3, <1>8, <1>9, RecordWritten
<1>12. /\ points' \in Seq(Point) /\ Len(points') = n + 1 /\ points'[n + 1] = p
       /\ \A i \in 1 .. n : points'[i] = points[i]
  BY <1>3, <1>5, AppendProperties
<1>13. \A i \in 1 .. n : marks'[i] = marks[i]
  <2>1. PICK mark : marks' = Append(marks, mark)
    BY <1>6
  <2>2. \A i \in 1 .. Len(marks) : Append(marks, mark)[i] = marks[i]
    BY <1>3
  <2> QED
    BY <1>3, <2>1, <2>2
<1>14. \A i \in 1 .. n : StateAfter(points', i) = StateAfter(points, i)
  BY <1>3, <1>5, StateFacts
<1>15. StateAfter(points', n + 1) = TimestampAfter(state, p.timestamp)
  <2>1. n + 1 \in 1 .. Len(points') /\ n + 1 # 1 /\ (n + 1) - 1 = n
    BY <1>1, <1>12
  <2>2. TimestampAfter(StateAfter(points', (n + 1) - 1), points'[n + 1].timestamp)
          = StateAfter(points', n + 1)
    BY <1>12, <2>1, StateFacts
  <2> QED
    BY <1>7, <1>12, <1>14, <2>1, <2>2 DEF state
<1>16. \A i \in 2 .. n : RecordAt(bits, marks[i - 1].value,
                                  TimestampRecord(StateAfter(points, i - 1), points[i].timestamp))
  BY DEF TimestampInv
<1> HIDE DEF n
<1>17. ASSUME NEW i \in 2 .. n + 1
       PROVE  RecordAt(bits', marks'[i - 1].value,
                       TimestampRecord(StateAfter(points', i - 1), points'[i].timestamp))
  <2>1. i - 1 \in 1 .. n /\ (i # n + 1 => i \in 2 .. n /\ i \in 1 .. n) /\ (i = n + 1 => i - 1 = n)
    BY <1>1
  <2>2. marks'[i - 1] = marks[i - 1] /\ StateAfter(points', i - 1) = StateAfter(points, i - 1)
    BY <1>13, <1>14, <2>1
  <2>3. CASE i = n + 1
    BY <1>4, <1>11, <1>12, <2>1, <2>2, <2>3 DEF state
  <2>4. CASE i # n + 1
    <3>1. points'[i] = points[i] /\ points[i].timestamp \in Int /\ marks[i - 1].value \in Nat
      BY <1>1, <1>12, <2>1, <2>4
    <3> DEFINE r == TimestampRecord(StateAfter(points, i - 1), points[i].timestamp)
    <3>2. StateAfter(points, i - 1) \in TimestampState
      BY <1>3, <2>1, StateFacts DEF n
    <3>3. r \in Seq(Bit)
      BY <3>1, <3>2, TimestampRecordFacts
    <3>4. RecordAt(bits, marks[i - 1].value, r)
      BY <1>16, <2>1, <2>4
    <3> HIDE DEF r
    <3>5. RecordAt(bits', marks[i - 1].value, r)
      BY <1>3, <1>10, <3>1, <3>3, <3>4, RecordAtLonger DEF k
    <3> QED
      BY <2>2, <3>1, <3>5 DEF r
  <2> QED
    BY <2>3, <2>4
<1>18. FirstRead'
  BY <1>4, <1>5, <1>7, <1>12 DEF FirstRead
<1>19. TimestampsRightUntilMisfit'
  <2>1. (StreamInv /\ read \in Seq([timestamp : Int, value : Word]) /\ FirstRead)'
          => TimestampsRightUntilMisfit'
    BY FirstRight, PTL
  <2> QED
    BY <1>18, <2>1 DEF ReaderInv
<1>20. writer'.timestamp = StateAfter(points', n + 1)
  BY <1>4, <1>5, <1>15
<1> QED
  BY <1>5, <1>12, <1>17, <1>18, <1>19, <1>20 DEF TimestampInv

LEMMA TimestampsFinish ==
  ASSUME StreamInv, WriterInv, ReaderInv, StreamInv', ReaderInv', TimestampInv, Finish
  PROVE  TimestampInv'
<1> DEFINE n == Len(points)
<1>1. /\ n \in Nat /\ n >= 1
      /\ \A i \in 1 .. n : points[i].timestamp \in Int /\ marks[i].value \in Nat
  BY PointFacts
<1>2. /\ points' = points /\ marks' = marks /\ phase' = "reading" /\ bits' = Padded(bits)
      /\ \E v \in Values :
           /\ reader' = Codec(points[1].timestamp, v)
           /\ read' = <<[timestamp |-> points[1].timestamp, value |-> v]>>
  BY DEF Finish
<1>3. bits \in Seq(Bit) /\ points \in Seq(Point)
  BY DEF StreamInv
<1>4. bits' \in Seq(Bit) /\ Len(bits) <= Len(bits') /\ \A i \in 1 .. Len(bits) : bits'[i] = bits[i]
  BY <1>2, <1>3, PaddedFacts
<1>5. ASSUME NEW i \in 2 .. n
      PROVE  RecordAt(bits', marks[i - 1].value,
                      TimestampRecord(StateAfter(points, i - 1), points[i].timestamp))
  <2>1. i \in 1 .. n /\ i - 1 \in 1 .. n
    BY <1>1
  <2>2. points[i].timestamp \in Int /\ marks[i - 1].value \in Nat
    BY <1>1, <2>1
  <2>3. StateAfter(points, i - 1) \in TimestampState
    BY <1>3, <2>1, StateFacts
  <2> DEFINE r == TimestampRecord(StateAfter(points, i - 1), points[i].timestamp)
  <2>4. r \in Seq(Bit)
    BY <2>2, <2>3, TimestampRecordFacts
  <2>5. RecordAt(bits, marks[i - 1].value, r)
    BY DEF TimestampInv
  <2> HIDE DEF r
  <2>6. RecordAt(bits', marks[i - 1].value, r)
    BY <1>3, <1>4, <2>2, <2>4, <2>5, RecordAtLonger
  <2> QED
    BY <2>6 DEF r
<1>6. FirstRead' /\ reader'.timestamp = StateAfter(points, 1) /\ Len(read') = 1
  <2>1. PICK v \in Values : /\ reader' = Codec(points[1].timestamp, v)
                            /\ read' = <<[timestamp |-> points[1].timestamp, value |-> v]>>
    BY <1>2
  <2>2. reader'.timestamp = [last |-> points[1].timestamp, delta |-> 0]
    BY <2>1 DEF Codec, FirstTimestamp
  <2>3. Len(read') = 1 /\ read'[1].timestamp = points[1].timestamp
    BY <2>1
  <2> QED
    BY <1>2, <2>2, <2>3 DEF FirstRead, StateAfter
<1>7. TimestampsRightUntilMisfit'
  <2>1. (StreamInv /\ read \in Seq([timestamp : Int, value : Word]) /\ FirstRead)'
          => TimestampsRightUntilMisfit'
    BY FirstRight, PTL
  <2> QED
    BY <1>6, <2>1 DEF ReaderInv
<1> QED
  BY <1>2, <1>5, <1>6, <1>7 DEF TimestampInv

\* A timestamp that is read from the right state is right if it is no misfit,
\* and the state is right again.
LEMMA TimestampsNext ==
  ASSUME StreamInv, TimestampInv, NEW m \in 1 .. Len(points), m + 1 <= Len(points),
         NEW p \in 0 .. Len(bits), p = marks[m].value
  PROVE  /\ m + 1 \notin Misfits =>
              TimestampRead(StateAfter(points, m), From(bits, p)) = StateAfter(points, m + 1)
         /\ TimestampRead(StateAfter(points, m), From(bits, p)).last = points[m + 1].timestamp
              <=> m + 1 \notin Misfits
<1> DEFINE n == Len(points)
           i == m + 1
           state == StateAfter(points, m)
           t == points[i].timestamp
<1>1. n \in Nat /\ \A j \in 1 .. n : points[j].timestamp \in Int
  BY PointFacts
<1>2. bits \in Seq(Bit) /\ points \in Seq(Point)
  BY DEF StreamInv
<1>3. i \in 2 .. n /\ i \in 1 .. n /\ i - 1 = m /\ i # 1
  BY <1>1
<1>4. state \in TimestampState /\ TimestampAfter(state, t) = StateAfter(points, i)
  BY <1>2, <1>3, StateFacts
<1>5. DeltaOfDelta(state, t) = Dod(i) /\ FitsWidest(Dod(i))
  BY <1>3, DodFits
<1>6. RecordAt(bits, p, TimestampRecord(state, t))
  BY <1>3 DEF TimestampInv
<1>7. Dod(i) \in Misfit <=> i \in Misfits
  BY <1>3 DEF Misfits
<1>8. t \in Int
  BY <1>1, <1>3
<1> HIDE DEF state, t, i
<1>9. /\ Dod(i) \notin Misfit => TimestampRead(state, From(bits, p)) = TimestampAfter(state, t)
      /\ TimestampRead(state, From(bits, p)).last = t <=> Dod(i) \notin Misfit
  BY <1>2, <1>4, <1>5, <1>6, <1>8, TimestampDecoded
<1> QED
  BY <1>4, <1>7, <1>9 DEF state, t, i

LEMMA TimestampsReadPoint ==
  ASSUME StreamInv, ReaderInv, ReaderInv', TimestampInv, ReadPoint
  PROVE  TimestampInv'
<1> DEFINE P == [timestamp : Int, value : Word]
           n == Len(points)
           m == Len(read)
<1>1. /\ phase = "reading" /\ phase' = "reading"
      /\ points' = points /\ marks' = marks /\ bits' = bits
      /\ reader'.timestamp = TimestampRead(reader.timestamp, From(bits, pos))
      /\ read' = Append(read, [timestamp |-> reader'.timestamp.last, value |-> reader'.value.last])
  BY DEF ReadPoint
<1>2. n \in Nat /\ n >= 1 /\ points \in Seq(Point)
  BY PointFacts DEF StreamInv
<1>3. m \in Nat /\ m >= 1 /\ read \in Seq(P) /\ read' \in Seq(P)
  BY <1>1, ReadFacts DEF ReaderInv
<1>4. /\ Len(read') = m + 1 /\ read'[m + 1].timestamp = reader'.timestamp.last
      /\ \A i \in 1 .. m : read'[i] = read[i]
  BY <1>1, <1>3
<1>5. Misfits' = Misfits /\ \A i : i \in Known <=> i \in 1 .. m /\ i \in 1 .. n
  <2>1. DOMAIN read = 1 .. m /\ DOMAIN points = 1 .. n
    BY <1>2, <1>3, LenProperties
  <2> QED
    BY <1>1, <2>1 DEF Misfits, Dod, Known
<1>6. \A i : i \in Known' <=> i \in 1 .. m + 1 /\ i \in 1 .. n
  <2>1. DOMAIN read' = 1 .. m + 1 /\ DOMAIN points' = 1 .. n
    BY <1>1, <1>2, <1>3, <1>4, LenProperties
  <2> QED
    BY <2>1 DEF Known
<1>7. \A j \in Misfits : j \in Int
  BY DEF Misfits
<1> HIDE DEF m, n
<1>8. ASSUME m < n, \A j \in Misfits : m < j
      PROVE  /\ m + 1 \notin Misfits => reader'.timestamp = StateAfter(points, m + 1)
             /\ read'[m + 1].timestamp = points[m + 1].timestamp <=> m + 1 \notin Misfits
  <2>1. m \in 1 .. n /\ m + 1 <= n /\ m <= n
    BY <1>2, <1>3, <1>8
  <2>2. reader.timestamp = StateAfter(points, m)
    BY <1>1, <1>8, <2>1 DEF TimestampInv, m, n
  <2>3. pos = marks[m].value /\ pos \in 0 .. Len(bits)
    BY <2>1 DEF ReaderInv, m, n
  <2>4. /\ m + 1 \notin Misfits =>
             TimestampRead(StateAfter(points, m), From(bits, pos)) = StateAfter(points, m + 1)
        /\ TimestampRead(StateAfter(points, m), From(bits, pos)).last = points[m + 1].timestamp
             <=> m + 1 \notin Misfits
    BY <2>1, <2>3, TimestampsNext DEF n
  <2> QED
    BY <1>1, <1>4, <2>2, <2>4
<1>9. ASSUME m + 1 <= n, \A j \in Misfits : m + 1 < j
      PROVE  reader'.timestamp = StateAfter(points, m + 1)
  <2>1. m < n /\ m + 1 \notin Misfits /\ \A j \in Misfits : m < j
    BY <1>2, <1>3, <1>7, <1>9
  <2> QED
    BY <1>8, <2>1
<1>10. ASSUME NEW i \in Known', \A j \in Misfits : i <= j
       PROVE  read'[i].timestamp = points[i].timestamp <=> i \notin Misfits
  <2>1. CASE i = m + 1
    <3>1. m < n /\ \A j \in Misfits : m < j
      BY <1>2, <1>3, <1>6, <1>7, <1>10, <2>1
    <3> QED
      BY <1>8, <2>1, <3>1
  <2>2. CASE i # m + 1
    <3>1. i \in 1 .. m /\ i \in 1 .. n
      BY <1>3, <1>6, <2>2
    <3>2. i \in Known
      BY <1>5, <3>1
    <3>3. read[i].timestamp = points[i].timestamp <=> i \notin Misfits
      BY <1>10, <3>2 DEF TimestampInv, TimestampsRightUntilMisfit
    <3> QED
      BY <1>4, <3>1, <3>3
  <2> QED
    BY <2>1, <2>2
<1>11. TimestampsRightUntilMisfit'
  BY <1>1, <1>5, <1>10 DEF TimestampsRightUntilMisfit
<1>12. \A i \in 2 .. n : RecordAt(bits, marks[i - 1].value,
                                  TimestampRecord(StateAfter(points, i - 1), points[i].timestamp))
  BY DEF TimestampInv, n
<1> QED
  BY <1>1, <1>4, <1>5, <1>9, <1>11, <1>12 DEF TimestampInv, n

LEMMA TimestampsHold == Spec => []TimestampInv
<1> DEFINE Inv == StreamInv /\ WriterInv /\ ReaderInv
<1>1. Init /\ Inv => TimestampInv
  BY TimestampsInit
<1>2. Inv /\ Inv' /\ TimestampInv /\ [Next]_vars => TimestampInv'
  <2> SUFFICES ASSUME Inv, Inv', TimestampInv, [Next]_vars PROVE TimestampInv'
    OBVIOUS
  <2>1. CASE \E p \in Point : WritePoint(p)
    BY <2>1, TimestampsWritePoint
  <2>2. CASE Finish
    BY <2>2, TimestampsFinish
  <2>3. CASE ReadPoint
    BY <2>3, TimestampsReadPoint
  <2>4. CASE EndRead \/ UNCHANGED vars
    <3>1. /\ points' = points /\ bits' = bits /\ writer' = writer /\ marks' = marks
          /\ reader' = reader /\ read' = read
          /\ (phase' = "writing" <=> phase = "writing")
      BY <2>4 DEF EndRead, vars
    <3>2. Known' = Known /\ Misfits' = Misfits
      BY <3>1 DEF Known, Misfits, Dod
    <3> QED
      BY <3>1, <3>2 DEF TimestampInv, FirstRead, TimestampsRightUntilMisfit
  <2> QED
    BY <2>1, <2>2, <2>3, <2>4 DEF Next
<1> QED
  BY <1>1, <1>2, InvHolds, PTL DEF Spec

-----------------------------------------------------------------------------
(* The theorems *)

\* The variables keep their types: a sealed stream is made of whole bytes, and
\* the reader's position stays inside it, in the zeros that finish adds too.
THEOREM CodecTypeCorrect == Spec => []TypeOK
<1>1. ASSUME StreamInv, ReaderInv PROVE TypeOK
  <2>1. DOMAIN marks = DOMAIN points
    <3>1. marks \in Seq(Mark) /\ points \in Seq(Point) /\ Len(marks) = Len(points)
      BY <1>1 DEF StreamInv
    <3> QED
      BY <3>1, LenProperties
  <2> QED
    BY <1>1, <2>1 DEF TypeOK, StreamInv, ReaderInv
<1> QED
  BY <1>1, InvHolds, PTL

\* TimestampDecompressor and ValueDecompressor, called in turn, find every
\* record of a block at the bit where compress put it, and do not answer
\* InsufficientData before the last one, whatever they have made of the numbers.
THEOREM ReaderKeepsFrame == Spec => []ReaderInFrame
<1>1. ASSUME ReaderInv PROVE ReaderInFrame
  BY <1>1 DEF ReaderInFrame, ReaderInv
<1> QED
  BY <1>1, InvHolds, PTL

\* TimestampDecompressor reads the timestamps that TimestampCompressor wrote,
\* up to the first change of delta that decompress reads as another number: a
\* negative one of 7 bits, or the largest of 9 or of 12; that one it reads wrong.
THEOREM TimestampsUntilMisfit == Spec => []TimestampsRightUntilMisfit
<1>1. TimestampInv => TimestampsRightUntilMisfit
  BY DEF TimestampInv
<1> QED
  BY <1>1, TimestampsHold, PTL

\* Each value of a block is read with the error of the first value, which the
\* block does not keep: all are right if that one is, and none if it is not.
THEOREM ValuesShareError == Spec => []ValuesOffByFirst
<1>1. ASSUME ReaderInv PROVE ValuesOffByFirst
  BY <1>1 DEF ValuesOffByFirst, ReaderInv
<1> QED
  BY <1>1, InvHolds, PTL

\* A block is read back as it was written if no change of delta is a misfit and
\* the reader is given the first value, which CompressedBlock leaves out: these
\* two are all that compress loses.
THEOREM BlockReadsBack ==
  Spec => [](phase = "end" /\ Misfits = {} /\ guess = points[1].value =>
               \A i \in DOMAIN points : i \in DOMAIN read /\ read[i] = points[i])
<1> DEFINE Whole == phase = "end" /\ Misfits = {} /\ guess = points[1].value =>
                      \A i \in DOMAIN points : i \in DOMAIN read /\ read[i] = points[i]
<1>1. ASSUME StreamInv, ReaderInv, TimestampInv PROVE Whole
  <2> SUFFICES ASSUME phase = "end", Misfits = {}, guess = points[1].value, NEW i \in DOMAIN points
               PROVE  i \in DOMAIN read /\ read[i] = points[i]
    OBVIOUS
  <2>1. /\ read \in Seq([timestamp : Int, value : Word]) /\ Len(read) >= Len(points)
        /\ points \in Seq(Point)
    BY <1>1 DEF ReaderInv, StreamInv
  <2>2. i \in 1 .. Len(points) /\ 1 \in 1 .. Len(points) /\ i \in 1 .. Len(read)
    BY <1>1, <2>1, PointFacts, LenProperties
  <2>3. i \in DOMAIN read /\ i \in Known
    BY <2>1, <2>2, LenProperties DEF Known
  <2>4. read[i] \in [timestamp : Int, value : Word]
    BY <2>1, <2>2, ElementOfSeq
  <2>5. points[i] \in Point /\ points[i].value \in Word /\ points[1].value \in Word
    BY <1>1, <2>2, PointFacts
  <2>6. read[i].timestamp = points[i].timestamp
    BY <1>1, <2>3 DEF TimestampInv, TimestampsRightUntilMisfit
  <2>7. read[i].value = points[i].value
    <3>1. read[i].value \in Word
      BY <2>4
    <3>2. Xor(read[i].value, points[i].value) = Xor(points[1].value, points[1].value)
      BY <1>1, <2>3 DEF ReaderInv
    <3>3. ~\E j \in 1 .. WordBits : Xor(points[1].value, points[1].value)[j] = 1
      <4>1. \A b \in Bit : (b + b) % 2 # 1
        BY DEF Bit
      <4>2. \A j \in 1 .. WordBits : points[1].value[j] \in Bit
        BY <2>5 DEF Word
      <4> QED
        BY <4>1, <4>2 DEF Xor
    <3> QED
      BY <2>5, <3>1, <3>2, <3>3, XorDiffers
  <2>8. \A p : p \in [timestamp : Int, value : Word] \/ p \in Point =>
          p = [timestamp |-> p.timestamp, value |-> p.value]
    BY DEF Point
  <2> QED
    BY <2>3, <2>4, <2>5, <2>6, <2>7, <2>8
<1> QED
  BY <1>1, InvHolds, TimestampsHold, PTL

\* Every value that is not the one before takes a whole word and two bits more.
ChangesTakeWholeWords ==
  \A i \in 2 .. Len(points) :
    marks[i].value - marks[i].timestamp =
      IF points[i].value = points[i - 1].value THEN 1 ELSE 2 + WordBits

\* ValueCompressor starts with the whole word as its window and never narrows
\* it, so no value is ever compressed unless it is the one before, in any block:
\* the README promises 2-8x for values.
THEOREM ChangesCostWords == Spec => []ChangesTakeWholeWords
<1>1. ASSUME StreamInv PROVE ChangesTakeWholeWords
  <2> SUFFICES ASSUME NEW i \in 2 .. Len(points)
               PROVE  marks[i].value - marks[i].timestamp =
                        IF points[i].value = points[i - 1].value THEN 1 ELSE 2 + WordBits
    BY DEF ChangesTakeWholeWords
  <2>1. ValueAt(bits, marks[i], points[i - 1].value, points[i].value)
    BY <1>1 DEF StreamInv, PointAt
  <2>2. i \in 1 .. Len(points)
    BY <1>1, PointFacts
  <2>3. marks[i].timestamp \in Nat /\ WordBits \in Nat
    BY <1>1, <2>2, PointFacts, Widths
  <2> DEFINE t == marks[i].timestamp
             v == marks[i].value
             same == points[i].value = points[i - 1].value
  <2>4. (same /\ v = t + 1) \/ (~same /\ v = t + 2 + WordBits)
    BY <2>1 DEF ValueAt
  <2> HIDE DEF t, v, same
  <2>5. v - t = IF same THEN 1 ELSE 2 + WordBits
    BY <2>3, <2>4 DEF t
  <2> QED
    BY <2>5 DEF t, v, same
<1> QED
  BY <1>1, InvHolds, PTL
=============================================================================
