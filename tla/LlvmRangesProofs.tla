-------------------------- MODULE LlvmRangesProofs --------------------------
(***************************************************************************)
(* Proofs about ranges and slices (LlvmRanges) in every state of every     *)
(* computation, for integers of any width and characters of any number of  *)
(* bytes: that a slice is the bytes at its positions, and that the loop,   *)
(* the list and the test of a range find the same numbers, wherever they   *)
(* wrap.                                                                   *)
(***************************************************************************)
EXTENDS LlvmRanges, LlvmOperatorsProofs, FiniteSetTheorems

-----------------------------------------------------------------------------
(* Lists and bytes                                                         *)

LEMMA ListProperties ==
  ASSUME NEW S, NEW n \in Nat, NEW f \in [1 .. n -> S]
  PROVE  f \in Seq(S) /\ Len(f) = n
<1>1. f \in Seq(S)
  BY SeqDef
<1>. QED  BY <1>1, LenProperties

LEMMA ListOfNone ==
  ASSUME NEW f, f = [i \in 1 .. 0 |-> f[i]]
  PROVE  f = <<>>
<1>1. f \in [1 .. 0 -> {f[i] : i \in 1 .. 0}]
  OBVIOUS
<1>2. f \in Seq({f[i] : i \in 1 .. 0}) /\ Len(f) = 0
  BY <1>1, ListProperties
<1>. QED  BY <1>2, EmptySeq

LEMMA OneByte ==
  /\ Power(2, W8) \in Nat \ {0}
  /\ \A i \in Int : i % Power(2, W8) \in Nat
  /\ \A i \in 0 .. Greatest(W8) : i \in Nat /\ i % Power(2, W8) = i
<1>. DEFINE p == Power(2, W8)
            g == Power(2, W8 - 1)
<1>1. W8 \in Nat /\ W8 - 1 \in Nat
  BY WidthsAssumption
<1>2. p \in Nat \ {0} /\ g \in Nat \ {0} /\ 2 * g <= p
  BY <1>1, PowerPositive, PowerGrows
<1>3. Greatest(W8) = g - 1
  BY DEF Greatest
<1>. HIDE DEF p, g
<1>4. \A i \in Int : i % p \in Nat
  BY <1>2
<1>5. \A i \in 0 .. Greatest(W8) : i \in Nat /\ i % p = i
  BY <1>2, <1>3
<1>. QED  BY <1>2, <1>4, <1>5 DEF p

-----------------------------------------------------------------------------
(* Slices                                                                  *)

LEMMA SmallRemainder ==
  ASSUME NEW i \in Nat, NEW m \in Nat \ {0}, i < m
  PROVE  i % m = i
<1>. DEFINE q == i \div m
            r == i % m
<1>1. q \in Int /\ r \in 0 .. m - 1 /\ i = m * q + r
  OBVIOUS
<1>. HIDE DEF q, r
<1>2. m * q < m * 1 /\ m * (-1) < m * q
  BY <1>1
<1>3. q < 1 /\ -1 < q
  BY <1>1, <1>2
<1>4. q = 0
  BY <1>1, <1>3
<1>. QED  BY <1>1, <1>4 DEF r

BytesAt(s, start, positions) ==
  [i \in 1 .. Cardinality(positions \cap 0 .. Len(s) - 1) |-> s[start + i]]

(* A slice from a position is the bytes at the positions of the string     *)
(* that it names: the sum that is compared does not wrap.                  *)
LEMMA SliceIsClipped ==
  ASSUME NEW S, NEW s \in Seq(S), NEW start \in Ints(W64), NEW length \in Ints(W64), start >= 0
  PROVE  ds_slice_string(s, start, length) =
           BytesAt(s, start, start .. (start + length - 1))
<1>. DEFINE n == Len(s)
            some == start .. (start + length - 1) \cap 0 .. n - 1
            piece == ds_slice_string(s, start, length)
<1>0. BytesAt(s, start, start .. (start + length - 1)) = [i \in 1 .. Cardinality(some) |-> s[start + i]]
  BY DEF BytesAt
<1>1. n \in Nat /\ start \in Nat /\ length \in Int
  BY LenProperties, WrapFits
<1>2. CASE start >= n \/ length <= 0
  <2>1. piece = <<>>
    BY <1>2 DEF ds_slice_string
  <2>. HIDE DEF piece
  <2>2. some = {}
    BY <1>1, <1>2
  <2>3. Cardinality(some) = 0
    BY <2>2, FS_EmptySet
  <2>. DEFINE f == [i \in 1 .. 0 |-> s[start + i]]
  <2>4. f = <<>>
    <3>1. f = [i \in 1 .. 0 |-> f[i]]
      OBVIOUS
    <3>. HIDE DEF f
    <3>. QED  BY <3>1, ListOfNone
  <2>. QED  BY <1>0, <2>1, <2>3, <2>4 DEF piece
<1>3. CASE ~(start >= n \/ length <= 0)
  <2>0. start < n /\ length > 0
    BY <1>1, <1>3
  <2>. DEFINE stop == IF start + length > n THEN n ELSE start + length
  <2>1. start + length \in 0 .. Modulus - 1
    <3>1. start <= Greatest(W64) /\ length <= Greatest(W64)
      BY Widths
    <3>. QED  BY <1>1, <2>0, <3>1, Widths
  <2>2. (start + length) % Modulus = start + length
    <3>. DEFINE sum == start + length
    <3>1. sum \in Nat /\ sum < Modulus /\ Modulus \in Nat \ {0}
      BY <2>1, Widths
    <3>. HIDE DEF sum
    <3>2. sum % Modulus = sum
      BY <3>1, SmallRemainder
    <3>. QED  BY <3>2 DEF sum
  <2>3. piece = SubSeq(s, start + 1, stop)
    BY <1>1, <1>3, <2>2 DEF ds_slice_string
  <2>4. stop \in Nat /\ start < stop /\ stop <= n /\ stop <= start + length
    BY <1>1, <2>0
  <2>5. some = start .. stop - 1
    BY <1>1, <2>0
  <2>6. Cardinality(some) = stop - start
    <3>. DEFINE b == stop - 1
    <3>1. b \in Int /\ ~(start > b) /\ b - start + 1 = stop - start
      BY <1>1, <2>4
    <3>. HIDE DEF b
    <3>2. Cardinality(start .. b) = b - start + 1
      BY <1>1, <3>1, FS_Interval
    <3>. QED  BY <2>5, <3>1, <3>2 DEF b
  <2>. HIDE DEF some, stop, piece
  <2>7. /\ piece \in Seq(S) /\ Len(piece) = stop - start
        /\ \A i \in 1 .. stop - start : piece[i] = s[start + i]
    <3>1. \A i \in start + 1 .. stop : s[i] \in S
      BY <1>1, <2>4, ElementOfSeq DEF n
    <3>. DEFINE m == start + 1
    <3>2. m \in Int /\ stop \in Int /\ stop - m + 1 = stop - start /\ m <= stop
      BY <1>1, <2>4
    <3>3. \A i \in 1 .. stop - start : m + i - 1 = start + i
      BY <1>1, <2>4
    <3>. HIDE DEF m
    <3>4. /\ SubSeq(s, m, stop) \in Seq(S)
          /\ Len(SubSeq(s, m, stop)) = stop - m + 1
          /\ \A i \in 1 .. stop - m + 1 : SubSeq(s, m, stop)[i] = s[m + i - 1]
      BY <3>1, <3>2, SubSeqProperties DEF m
    <3>. QED  BY <2>3, <3>2, <3>3, <3>4 DEF m
  <2>8. piece = [i \in 1 .. stop - start |-> s[start + i]]
    <3>1. piece \in [1 .. stop - start -> S]
      BY <2>7, LenProperties
    <3>. QED  BY <2>7, <3>1
  <2>. QED  BY <1>0, <2>6, <2>8 DEF piece
<1>. QED  BY <1>2, <1>3, Zenon

(* What utf8proc decodes is a character or a byte, and a byte of ASCII is  *)
(* decoded to itself.                                                      *)
LEMMA Decoded ==
  ASSUME NEW s \in Seq(Bytes), s # <<>>
  PROVE  utf8proc_iterate(s) \in Ints(W64) /\ utf8proc_iterate(s) \in Nat \ {0}
<1>. DEFINE decoded == {c \in DOMAIN Encoding : Begins(Encoding[c], s)}
<1>1. 1 .. Greatest(W64) \subseteq Ints(W64) /\ 1 .. Greatest(W64) \subseteq Nat \ {0}
  BY Widths, OneFits
<1>2. CASE decoded = {}
  <2>1. utf8proc_iterate(s) = s[1]
    BY <1>2 DEF utf8proc_iterate
  <2>2. Len(s) \in Nat \ {0}
    BY EmptySeq, LenProperties
  <2>3. s[1] \in Bytes
    <3>1. 1 \in 1 .. Len(s)
      BY <2>2
    <3>. QED  BY <3>1, ElementOfSeq
  <2>. QED  BY <2>1, <2>3, BytesAssumption, ByteProperties
<1>3. CASE decoded # {}
  <2>1. utf8proc_iterate(s) = CHOOSE c \in decoded : TRUE
    BY <1>3 DEF utf8proc_iterate
  <2>2. utf8proc_iterate(s) \in DOMAIN Encoding
    BY <1>3, <2>1
  <2>. QED  BY <1>1, <2>2, EncodingAssumption
<1>. QED  BY <1>2, <1>3

LEMMA DecodedByte ==
  ASSUME NEW b \in 1 .. Greatest(W8)
  PROVE  utf8proc_iterate(<<b>>) = b
<1>. DEFINE s == <<b>>
            decoded == {c \in DOMAIN Encoding : Begins(Encoding[c], s)}
<1>1. b \in DOMAIN Encoding /\ Encoding[b] = s
  BY EncodingAssumption
<1>2. Len(s) = 1 /\ SubSeq(s, 1, Len(s)) = s
  <2>1. s \in Seq({b}) /\ Len(s) = 1
    OBVIOUS
  <2>. QED  BY <2>1, SubSeqFull
<1>3. b \in decoded
  <2>. HIDE DEF s
  <2>1. Begins(s, s)
    BY <1>2 DEF Begins
  <2>. QED  BY <1>1, <2>1
<1>4. ASSUME NEW c \in decoded
      PROVE  c = b
  <2>. DEFINE t == Encoding[c]
  <2>1. c \in DOMAIN Encoding /\ t \in Seq(Bytes) /\ t # <<>> /\ Len(t) <= Len(s) /\ SubSeq(s, 1, Len(t)) = t
    BY EncodingAssumption DEF Begins
  <2>2. Len(t) = 1
    <3>1. Len(t) \in Nat \ {0}
      BY <2>1, EmptySeq, LenProperties
    <3>. QED  BY <1>2, <2>1, <3>1
  <2>3. t = s
    BY <1>2, <2>1, <2>2
  <2>4. Begins(Encoding[c], Encoding[b])
    BY <1>1, <1>2, <2>3 DEF Begins
  <2>. QED  BY <1>1, <2>1, <2>4, PrefixAssumption
<1>5. utf8proc_iterate(s) = CHOOSE c \in decoded : TRUE
  BY <1>3 DEF utf8proc_iterate
<1>. HIDE DEF decoded
<1>. QED  BY <1>3, <1>4, <1>5

LEMMA Ordinals ==
  ASSUME NEW v, Value(v)
  PROVE  /\ ds_get_ordinal(v)[1] \in Ints(W64)
         /\ ds_get_ordinal(v)[2] \in BOOLEAN
         /\ ds_get_ordinal(v)[2] <=> v.kind = "STRING" /\ v # Str(<<>>)
         /\ ds_get_ordinal(v)[2] => ds_get_ordinal(v)[1] \in Nat \ {0}
         /\ IsInt(v) => ds_get_ordinal(v)[1] = v.i
         /\ v.kind = "STRING" /\ v # Str(<<>>) => ds_get_ordinal(v)[1] = utf8proc_iterate(v.s)
<1>1. CASE IsInt(v)
  <2>1. v.kind # "STRING" /\ v # Str(<<>>)
    BY <1>1 DEF IsInt, Str
  <2>2. ds_get_ordinal(v) = <<v.i, FALSE>>
    BY <1>1, <2>1 DEF ds_get_ordinal
  <2>. QED  BY <1>1, <2>1, <2>2, ValuesUnboxed
<1>2. CASE ~IsInt(v) /\ v.kind = "STRING" /\ v # Str(<<>>)
  <2>1. ds_get_ordinal(v) = <<utf8proc_iterate(v.s), TRUE>>
    BY <1>2 DEF ds_get_ordinal
  <2>2. v \in [kind : {"STRING"}, s : Seq(Bytes)] /\ v.s \in Seq(Bytes)
    BY <1>2 DEF Value
  <2>3. v.s # <<>>
    <3>1. v = [kind |-> "STRING", s |-> v.s]
      BY <2>2
    <3>. QED  BY <1>2, <3>1 DEF Str
  <2>4. utf8proc_iterate(v.s) \in Ints(W64) /\ utf8proc_iterate(v.s) \in Nat \ {0}
    BY <2>2, <2>3, Decoded
  <2>. QED  BY <1>2, <2>1, <2>4
<1>3. CASE ~IsInt(v) /\ ~(v.kind = "STRING" /\ v # Str(<<>>))
  <2>1. ds_get_ordinal(v) = <<0, FALSE>>
    BY <1>3 DEF ds_get_ordinal, Str
  <2>. QED  BY <1>3, <2>1, OneFits
<1>. QED  BY <1>1, <1>2, <1>3

LEMMA RangeFields ==
  ASSUME NEW l, NEW r, NEW exclusive
  PROVE  LET range == range_literal(l, r, exclusive)
         IN  /\ range.from = ds_get_ordinal(l)[1] /\ range.to = ds_get_ordinal(r)[1]
             /\ range.exclusive = exclusive
             /\ range.is_char = (ds_get_ordinal(l)[2] /\ ds_get_ordinal(r)[2])
BY DEF range_literal, RangeBox

(* A slice is the bytes at its positions, whatever the integers, and of a  *)
(* range, unless its length wraps.                                         *)
LEMMA SlicesOfValuesAgree ==
  ASSUME Value(operands[1]), Value(operands[2])
  PROVE  SlicesAgree
<1>. DEFINE l == operands[1]
            r == operands[2]
            At(s, positions) == BytesAt(s, l.i, positions)
<1>. SUFFICES ASSUME BothInts(l, r), NEW s \in Texts
              PROVE  /\ slice(s, l, r) = {Str(IF l.i < 0 THEN <<>> ELSE At(s, l.i .. (l.i + r.i - 1)))}
                     /\ \A exclusive \in BOOLEAN :
                          LET last == IF exclusive THEN r.i - 1 ELSE r.i
                          IN  last - l.i + 1 \in Ints(W64) =>
                                slice_range(s, range_literal(l, r, exclusive)) =
                                  Str(IF l.i < 0 THEN <<>> ELSE At(s, l.i .. last))
  BY DEF SlicesAgree, BytesAt
<1>1. /\ IsInt(l) /\ IsInt(r) /\ l.i \in Ints(W64) /\ r.i \in Ints(W64)
      /\ l.i \in Int /\ r.i \in Int
  BY ValuesUnboxed DEF BothInts
<1>2. unbox_i64(l) = {l.i} /\ unbox_i64(r) = {r.i}
  BY <1>1, KindsOfNumbers
<1>3. s \in Seq(Bytes)
  BY TextsAssumption
<1>4. ds_get_ordinal(l)[1] = l.i /\ ds_get_ordinal(r)[1] = r.i
  BY <1>1, Ordinals
<1>5. slice(s, l, r) = {Str(IF l.i < 0 THEN <<>> ELSE At(s, l.i .. (l.i + r.i - 1)))}
  <2>1. slice(s, l, r) = {Str(ds_slice_string(s, l.i, r.i))}
    BY <1>2 DEF slice
  <2>2. CASE l.i < 0
    BY <2>1, <2>2 DEF ds_slice_string
  <2>3. CASE l.i >= 0
    <3>. HIDE DEF l, r
    <3>1. ds_slice_string(s, l.i, r.i) = At(s, l.i .. (l.i + r.i - 1))
      BY <1>1, <1>3, <2>3, SliceIsClipped, Zenon
    <3>2. ~(l.i < 0)
      BY <1>1, <2>3
    <3>. QED  BY <2>1, <3>1, <3>2, Zenon
  <2>. QED  BY <1>1, <2>2, <2>3
<1>6. ASSUME NEW exclusive \in BOOLEAN, NEW last, last = IF exclusive THEN r.i - 1 ELSE r.i,
             last - l.i + 1 \in Ints(W64)
      PROVE  slice_range(s, range_literal(l, r, exclusive)) =
               Str(IF l.i < 0 THEN <<>> ELSE At(s, l.i .. last))
  <2>. DEFINE range == range_literal(l, r, exclusive)
              length == last - l.i + 1
  <2>1. range.from = l.i /\ range.to = r.i /\ range.exclusive = exclusive
    BY <1>4, RangeFields
  <2>2. last \in Int /\ r.i - l.i + (IF exclusive THEN 0 ELSE 1) = length
    BY <1>1, <1>6
  <2>3. slice_range(s, range) = Str(ds_slice_string(s, l.i, length))
    <3>1. slice_range(s, range) =
            Str(ds_slice_string(s, l.i, Wrap(r.i - l.i + IF exclusive THEN 0 ELSE 1)))
      BY <2>1 DEF slice_range
    <3>. QED  BY <1>6, <2>2, <3>1, WrapFits
  <2>4. l.i + length - 1 = last
    BY <1>1, <2>2
  <2>. HIDE DEF range, l, r, length
  <2>5. CASE l.i < 0
    BY <2>3, <2>5 DEF ds_slice_string, range
  <2>6. CASE l.i >= 0
    <3>1. ds_slice_string(s, l.i, length) = At(s, l.i .. (l.i + length - 1))
      <4>1. length \in Ints(W64)
        BY <1>6 DEF length
      <4>. QED  BY <1>1, <1>3, <2>6, <4>1, SliceIsClipped, Zenon
    <3>2. ~(l.i < 0)
      BY <1>1, <2>6
    <3>3. ds_slice_string(s, l.i, length) = At(s, l.i .. last)
      BY <2>4, <3>1, Zenon
    <3>. QED  BY <2>3, <3>2, <3>3, Zenon DEF range
  <2>. QED  BY <1>1, <2>5, <2>6
<1>. HIDE DEF l, r
<1>. QED  BY <1>5, <1>6

(* In every state of every computation a slice is the bytes at its         *)
(* positions, whatever the integers (llvm_runtime.c:320, :1284), and the   *)
(* slice of a range too, unless the length of the range wraps.             *)
THEOREM SlicesAlwaysAgree == OperatorsSpec => []SlicesAgree
<1>1. OperandsAreValues => SlicesAgree
  BY SlicesOfValuesAgree DEF OperandsAreValues
<1>. QED  BY <1>1, OperandsStayValues, PTL

-----------------------------------------------------------------------------
(* What the loops over a range give                                        *)

Bounded(range) ==
  /\ range.from \in Ints(W64) /\ range.to \in Ints(W64)
  /\ range.exclusive \in BOOLEAN /\ range.is_char \in BOOLEAN

Upto(range)  == IF range.exclusive THEN range.to - 1 ELSE range.to
Count(range) == Upto(range) - range.from + 1
Unending(range) == ~range.exclusive /\ range.to = Greatest(W64)

Goes(range, n) ==
  \/ Wrap(range.from + n) < range.to
  \/ ~range.exclusive /\ Wrap(range.from + n) = range.to

Rounds(range) == IF Unending(range) THEN Modulus ELSE IF Count(range) > 0 THEN Count(range) ELSE 0

LEMMA Bounds ==
  ASSUME NEW range, Bounded(range)
  PROVE  /\ range.from \in Int /\ range.to \in Int /\ Upto(range) \in Int /\ Count(range) \in Int
         /\ INT64_MIN <= range.from /\ range.from <= Greatest(W64)
         /\ INT64_MIN <= range.to /\ range.to <= Greatest(W64)
         /\ Upto(range) <= Greatest(W64) /\ Count(range) <= Modulus
         /\ ~Unending(range) => Upto(range) < Greatest(W64) /\ Count(range) < Modulus
         /\ Rounds(range) \in 0 .. Modulus
         /\ (Rounds(range) = Modulus <=> Unending(range))
<1>1. /\ range.from \in Int /\ range.to \in Int
      /\ INT64_MIN <= range.from /\ range.from <= Greatest(W64)
      /\ INT64_MIN <= range.to /\ range.to <= Greatest(W64)
  BY Widths DEF Bounded
<1>2. /\ INT64_MIN \in Int /\ Greatest(W64) \in Nat /\ Modulus \in Nat \ {0}
      /\ Greatest(W64) = INT64_MIN + Modulus - 1
  BY Widths
<1>3. /\ Upto(range) \in Int /\ Upto(range) <= Greatest(W64)
      /\ ~Unending(range) => Upto(range) < Greatest(W64)
  BY <1>1, <1>2 DEF Upto, Unending
<1>4. /\ Count(range) \in Int /\ Count(range) <= Modulus
      /\ ~Unending(range) => Count(range) < Modulus
  BY <1>1, <1>2, <1>3 DEF Count
<1>5. Rounds(range) \in 0 .. Modulus /\ (Rounds(range) = Modulus <=> Unending(range))
  BY <1>2, <1>4 DEF Rounds
<1>. QED  BY <1>1, <1>3, <1>4, <1>5

(* The loop of each goes on for its count of rounds, and at the end of     *)
(* them it stops; up to the greatest integer it never does.                *)
LEMMA LoopGoes ==
  ASSUME NEW range, Bounded(range), NEW n \in Nat
  PROVE  /\ Unending(range) => Goes(range, n)
         /\ ~Unending(range) /\ n < Count(range) =>
              Goes(range, n) /\ Wrap(range.from + n) = range.from + n
         /\ ~Unending(range) /\ n = Rounds(range) => ~Goes(range, n)
<1>. DEFINE x == range.from + n
<1>1. x \in Int
  BY Bounds
<1>2. Unending(range) => Goes(range, n)
  <2>1. Wrap(x) \in Int /\ Wrap(x) <= Greatest(W64)
    <3>. HIDE DEF x
    <3>1. Wrap(x) \in Ints(W64) /\ Wrap(x) \in Int
      BY <1>1, WrapProperties
    <3>. QED  BY <3>1, Widths
  <2>. QED  BY <2>1, Widths DEF Unending, Goes
<1>3. ASSUME ~Unending(range), x <= Upto(range) + 1
      PROVE  Wrap(x) = x
  <2>1. x \in Ints(W64)
    BY <1>1, <1>3, Bounds, Widths
  <2>. QED  BY <2>1, WrapFits
<1>4. ASSUME ~Unending(range), n < Count(range)
      PROVE  Goes(range, n) /\ Wrap(x) = x
  <2>1. x <= Upto(range)
    BY <1>1, <1>4, Bounds DEF Count
  <2>2. Wrap(x) = x
    BY <1>1, <1>3, <1>4, <2>1, Bounds
  <2>3. x < range.to \/ (~range.exclusive /\ x = range.to)
    BY <1>1, <2>1, Bounds DEF Upto
  <2>. QED  BY <2>2, <2>3 DEF Goes
<1>5. ASSUME ~Unending(range), n = Rounds(range)
      PROVE  ~Goes(range, n)
  <2>1. CASE Count(range) > 0
    <3>1. n = Count(range)
      BY <1>5, <2>1 DEF Rounds
    <3>2. x = Upto(range) + 1
      BY <3>1, Bounds DEF Count
    <3>3. Wrap(x) = x
      BY <1>1, <1>3, <1>5, <3>2
    <3>. QED  BY <3>2, <3>3, Bounds DEF Goes, Upto
  <2>2. CASE ~(Count(range) > 0)
    <3>1. n = 0
      BY <1>5, <2>2 DEF Rounds
    <3>2. x = range.from /\ range.from > Upto(range)
      BY <2>2, <3>1, Bounds DEF Count
    <3>3. Wrap(x) = x
      BY <3>2, WrapFits DEF Bounded
    <3>. QED  BY <3>2, <3>3, Bounds DEF Goes, Upto
  <2>. QED  BY <2>1, <2>2
<1>. QED  BY <1>2, <1>4, <1>5

LEMMA RoundsOfLoop ==
  ASSUME NEW range, Bounded(range)
  PROVE  range_each(range) =
           [i \in 1 .. Rounds(range) |-> Element(range, Wrap(range.from + (i - 1)))]
<1>. DEFINE Last(n) == /\ n = Modulus \/ ~Goes(range, n)
                       /\ \A m \in 0 .. n - 1 : Goes(range, m)
            rounds == CHOOSE n \in 0 .. Modulus : Last(n)
            m0 == Rounds(range)
<1>1. m0 \in 0 .. Modulus /\ m0 \in Nat /\ Modulus \in Nat /\ (m0 = Modulus <=> Unending(range))
  BY Bounds, Widths
<1>2. \A m \in 0 .. m0 - 1 : Goes(range, m)
  <2>. SUFFICES ASSUME NEW m \in 0 .. m0 - 1 PROVE Goes(range, m)
    OBVIOUS
  <2>1. m \in Nat
    OBVIOUS
  <2>2. CASE Unending(range)
    BY <2>1, <2>2, LoopGoes
  <2>3. CASE ~Unending(range)
    <3>1. m < Count(range)
      BY <2>3, Bounds DEF Rounds
    <3>. QED  BY <2>1, <2>3, <3>1, LoopGoes
  <2>. QED  BY <2>2, <2>3
<1>3. m0 = Modulus \/ ~Goes(range, m0)
  BY <1>1, LoopGoes
<1>4. Last(m0)
  BY <1>2, <1>3
<1>5. ASSUME NEW n \in 0 .. Modulus, Last(n)
      PROVE  n = m0
  <2>1. CASE n < m0
    <3>1. n # Modulus /\ n \in 0 .. m0 - 1
      BY <1>1, <2>1
    <3>. QED  BY <1>2, <1>5, <3>1
  <2>2. CASE m0 < n
    <3>1. m0 # Modulus /\ m0 \in 0 .. n - 1
      BY <1>1, <2>2
    <3>. QED  BY <1>3, <1>5, <3>1
  <2>. QED  BY <1>1, <2>1, <2>2
<1>. HIDE DEF Last, m0
<1>6. rounds = m0
  BY <1>1, <1>4, <1>5
<1>7. range_each(range) = [i \in 1 .. rounds |-> Element(range, Wrap(range.from + (i - 1)))]
  BY DEF range_each, Last, Goes
<1>. HIDE DEF rounds
<1>. QED  BY <1>6, <1>7 DEF m0

(* to_a counts once, and gives nothing when the count wraps. *)
Size(range) == IF 0 < Count(range) /\ Count(range) <= Greatest(W64) THEN Count(range) ELSE 0

LEMMA ItemsOfList ==
  ASSUME NEW range, Bounded(range)
  PROVE  /\ range_to_a(range) = [i \in 1 .. Size(range) |-> Element(range, range.from + i - 1)]
         /\ Size(range) \in Nat
<1>. DEFINE n == Count(range)
            count == Wrap(n)
            some == IF range.exclusive THEN range.to > range.from ELSE range.to >= range.from
<1>1. n \in Int /\ n <= Modulus
  BY Bounds
<1>2. range.to - range.from + (IF range.exclusive THEN 0 ELSE 1) = n
  BY Bounds DEF Count, Upto
<1>3. some <=> n > 0
  BY Bounds DEF Count, Upto
<1>4. ASSUME 0 < n, n <= Greatest(W64)
      PROVE  count = n
  <2>1. n \in Ints(W64)
    BY <1>1, <1>4, Widths
  <2>. QED  BY <2>1, WrapFits
<1>5. ASSUME n > Greatest(W64)
      PROVE  count <= 0
  <2>. DEFINE k == n - Modulus
  <2>1. k \in Ints(W64) /\ k <= 0 /\ k \in Int
    BY <1>1, <1>5, Widths
  <2>2. Congruent(n, k)
    <3>1. n = k + Modulus * 1
      BY <1>1, Widths
    <3>. HIDE DEF k, n
    <3>. QED  BY <3>1 DEF Congruent
  <2>. HIDE DEF k, n
  <2>3. Wrap(n) = Wrap(k)
    BY <1>1, <2>1, <2>2, WrapsAlike
  <2>. QED  BY <2>1, <2>3, WrapFits
<1>6. range_to_a(range) =
        [i \in 1 .. (IF some /\ count > 0 THEN count ELSE 0) |-> Element(range, range.from + i - 1)]
  BY <1>2 DEF range_to_a
<1>. HIDE DEF some, count, n
<1>7. (IF some /\ count > 0 THEN count ELSE 0) = IF 0 < n /\ n <= Greatest(W64) THEN n ELSE 0
  <2>1. CASE 0 < n /\ n <= Greatest(W64)
    BY <1>1, <1>3, <1>4, <2>1
  <2>2. CASE n > Greatest(W64)
    <3>1. ~(count > 0)
      <4>1. count \in Int
        BY <1>1, WrapProperties DEF count
      <4>. QED  BY <1>5, <2>2, <4>1
    <3>2. ~(n <= Greatest(W64))
      BY <1>1, <2>2, Widths
    <3>. QED  BY <3>1, <3>2
  <2>3. CASE ~(0 < n)
    BY <1>1, <1>3, <2>3
  <2>. QED  BY <1>1, <2>1, <2>2, <2>3, Widths
<1>8. Size(range) \in Nat
  BY Bounds DEF Size
<1>. QED  BY <1>6, <1>7, <1>8, Zenon DEF n, Size

-----------------------------------------------------------------------------
(* The elements of a range                                                 *)

LEMMA ElementOfNumbers ==
  ASSUME NEW range, range.is_char = FALSE, NEW i \in Ints(W64)
  PROVE  Element(range, i) = Int64(i)
BY WrapFits DEF Element, box_i64

LEMMA ElementOfCharacters ==
  ASSUME NEW range, range.is_char = TRUE, NEW i \in Int
  PROVE  Element(range, i) = Str(IF i % Power(2, W8) = 0 THEN <<>> ELSE <<i % Power(2, W8)>>)
BY DEF Element

LEMMA IntegersDiffer ==
  ASSUME NEW i, NEW j, Int64(i) = Int64(j)
  PROVE  i = j
BY DEF Int64

LEMMA TextsDiffer ==
  ASSUME NEW s, NEW t, Str(s) = Str(t)
  PROVE  s = t
BY DEF Str

(* The numbers of a range that ends are those it counts. *)
LEMMA GivenElements ==
  ASSUME NEW range, Bounded(range), ~Unending(range)
  PROVE  /\ \A i \in 1 .. Rounds(range) :
              /\ range.from + (i - 1) \in range.from .. Upto(range)
              /\ range.from + (i - 1) \in Ints(W64)
              /\ range_each(range)[i] = Element(range, range.from + (i - 1))
         /\ \A n \in range.from .. Upto(range) :
              n - range.from + 1 \in 1 .. Rounds(range) /\ n = range.from + ((n - range.from + 1) - 1)
         /\ DOMAIN range_each(range) = 1 .. Rounds(range)
<1>. DEFINE rounds == Rounds(range)
<1>1. rounds = IF Count(range) > 0 THEN Count(range) ELSE 0
  BY DEF Rounds
<1>2. ASSUME NEW i \in 1 .. rounds
      PROVE  /\ range.from + (i - 1) \in range.from .. Upto(range)
             /\ range.from + (i - 1) \in Ints(W64)
             /\ range_each(range)[i] = Element(range, range.from + (i - 1))
  <2>1. i \in Int /\ i - 1 \in Nat /\ i <= Count(range)
    BY <1>1, Bounds
  <2>2. range.from + (i - 1) \in range.from .. Upto(range)
    BY <2>1, Bounds DEF Count
  <2>3. range.from + (i - 1) \in Ints(W64)
    BY <2>2, Bounds, Widths
  <2>4. Wrap(range.from + (i - 1)) = range.from + (i - 1)
    BY <2>3, WrapFits
  <2>5. range_each(range)[i] = Element(range, Wrap(range.from + (i - 1)))
    BY RoundsOfLoop
  <2>. QED  BY <2>2, <2>3, <2>4, <2>5
<1>3. ASSUME NEW n \in range.from .. Upto(range)
      PROVE  n - range.from + 1 \in 1 .. rounds /\ n = range.from + ((n - range.from + 1) - 1)
  BY <1>1, Bounds DEF Count
<1>4. DOMAIN range_each(range) = 1 .. rounds
  BY RoundsOfLoop
<1>. QED  BY <1>2, <1>3, <1>4

(* A number is given if and only if it lies between the bounds. *)
LEMMA GivenNumbers ==
  ASSUME NEW range, Bounded(range), ~Unending(range), range.is_char = FALSE, NEW number \in Ints(W64)
  PROVE  (\E i \in DOMAIN range_each(range) : range_each(range)[i] = Element(range, number))
           <=> number \in range.from .. Upto(range)
<1>. DEFINE given == range_each(range)
<1>1. ASSUME NEW i \in DOMAIN given, given[i] = Element(range, number)
      PROVE  number \in range.from .. Upto(range)
  <2>1. i \in 1 .. Rounds(range)
    BY GivenElements
  <2>2. /\ range.from + (i - 1) \in range.from .. Upto(range) /\ range.from + (i - 1) \in Ints(W64)
        /\ given[i] = Element(range, range.from + (i - 1))
    BY <2>1, GivenElements
  <2>. DEFINE x == range.from + (i - 1)
  <2>. HIDE DEF x, given
  <2>3. Int64(x) = Int64(number)
    BY <1>1, <2>2, ElementOfNumbers DEF x
  <2>. QED  BY <2>2, <2>3, IntegersDiffer DEF x
<1>2. ASSUME number \in range.from .. Upto(range)
      PROVE  \E i \in DOMAIN given : given[i] = Element(range, number)
  <2>. DEFINE i == number - range.from + 1
  <2>1. i \in 1 .. Rounds(range) /\ number = range.from + (i - 1)
    BY <1>2, GivenElements
  <2>. HIDE DEF i
  <2>2. given[i] = Element(range, number)
    BY <2>1, GivenElements
  <2>. QED  BY <2>1, <2>2, GivenElements
<1>. QED  BY <1>1, <1>2, WrapFits

(* The same for the characters of a byte, none of which ends a string. *)
LEMMA GivenCharacters ==
  ASSUME NEW range, Bounded(range), ~Unending(range), range.is_char = TRUE,
         range.from \in 1 .. Greatest(W8), range.to \in 1 .. Greatest(W8), NEW number \in Int
  PROVE  (\E i \in DOMAIN range_each(range) : range_each(range)[i] = Element(range, number))
           <=> number % Power(2, W8) \in range.from .. Upto(range)
<1>. DEFINE given == range_each(range)
            byte == number % Power(2, W8)
<1>0. /\ byte \in Nat /\ range.from \in Nat \ {0} /\ Upto(range) \in Int
      /\ Upto(range) <= Greatest(W8) /\ Greatest(W8) \in Int
  <2>1. Greatest(W8) \in Int
    <3>1. W8 - 1 \in Nat
      BY WidthsAssumption
    <3>2. Power(2, W8 - 1) \in Nat
      BY <3>1, PowerPositive
    <3>. QED  BY <3>2 DEF Greatest
  <2>2. range.from \in Nat \ {0} /\ Upto(range) \in Int /\ Upto(range) <= Greatest(W8)
    BY <2>1 DEF Upto
  <2>. QED  BY <2>1, <2>2, OneByte
<1>1. Element(range, number) = Str(IF byte = 0 THEN <<>> ELSE <<byte>>)
  BY ElementOfCharacters
<1>2. ASSUME NEW x \in range.from .. Upto(range)
      PROVE  Element(range, x) = Str(<<x>>)
  <2>1. x \in 0 .. Greatest(W8) /\ x \in Int /\ x # 0
    BY <1>0
  <2>2. x % Power(2, W8) = x
    BY <2>1, OneByte
  <2>. QED  BY <2>1, <2>2, ElementOfCharacters
<1>. HIDE DEF byte
<1>3. ASSUME NEW i \in DOMAIN given, given[i] = Element(range, number)
      PROVE  byte \in range.from .. Upto(range)
  <2>. DEFINE x == range.from + (i - 1)
  <2>1. i \in 1 .. Rounds(range)
    BY GivenElements
  <2>2. x \in range.from .. Upto(range) /\ given[i] = Element(range, x)
    BY <2>1, GivenElements
  <2>. HIDE DEF x, given
  <2>3. <<x>> = IF byte = 0 THEN <<>> ELSE <<byte>>
    <3>1. Str(<<x>>) = Str(IF byte = 0 THEN <<>> ELSE <<byte>>)
      BY <1>1, <1>2, <1>3, <2>2
    <3>. QED  BY <3>1, TextsDiffer
  <2>4. x = byte
    <3>1. <<x>> # <<>>
      OBVIOUS
    <3>2. <<x>> = <<byte>>
      BY <2>3, <3>1
    <3>. QED  BY <3>2
  <2>. QED  BY <2>2, <2>4
<1>4. ASSUME byte \in range.from .. Upto(range)
      PROVE  \E i \in DOMAIN given : given[i] = Element(range, number)
  <2>. DEFINE i == byte - range.from + 1
  <2>1. i \in 1 .. Rounds(range) /\ byte = range.from + (i - 1)
    BY <1>4, GivenElements
  <2>. HIDE DEF i
  <2>2. given[i] = Element(range, byte)
    BY <2>1, GivenElements
  <2>3. byte # 0
    BY <1>0, <1>4
  <2>4. Element(range, byte) = Element(range, number)
    BY <1>1, <1>2, <1>4, <2>3
  <2>. QED  BY <2>1, <2>2, <2>4, GivenElements
<1>. QED  BY <1>3, <1>4 DEF byte

LEMMA IncludedNumbers ==
  ASSUME NEW range, Bounded(range), NEW v, Value(v)
  PROVE  range_includes(range, v) <=>
           /\ range.is_char <=> ds_get_ordinal(v)[2]
           /\ ds_get_ordinal(v)[1] \in range.from .. Upto(range)
<1>. DEFINE o == ds_get_ordinal(v)
<1>1. o[1] \in Int /\ o[2] \in BOOLEAN
  BY Ordinals, WrapFits
<1>2. range.is_char \in BOOLEAN /\ range.exclusive \in BOOLEAN
  BY DEF Bounded
<1>3. range_includes(range, v) <=>
        /\ range.is_char = o[2]
        /\ o[1] >= range.from
        /\ IF range.exclusive THEN o[1] < range.to ELSE o[1] <= range.to
  BY DEF range_includes
<1>. HIDE DEF o
<1>4. (o[1] >= range.from /\ IF range.exclusive THEN o[1] < range.to ELSE o[1] <= range.to)
        <=> o[1] \in range.from .. Upto(range)
  BY <1>1, Bounds DEF Upto
<1>5. range.is_char = o[2] <=> (range.is_char <=> o[2])
  BY <1>1, <1>2
<1>. QED  BY <1>3, <1>4, <1>5 DEF o

LEMMA IncludedIsGiven ==
  ASSUME NEW range, Bounded(range), ~Unending(range), NEW v, Value(v),
         range.is_char => range.from \in 1 .. Greatest(W8) /\ range.to \in 1 .. Greatest(W8),
         Element(range, ds_get_ordinal(v)[1]) = v \/ (IsInt(v) /\ ~range.is_char)
  PROVE  range_includes(range, v) <=>
           \E i \in DOMAIN range_each(range) :
             range_each(range)[i] = Element(range, ds_get_ordinal(v)[1])
<1>. DEFINE number == ds_get_ordinal(v)[1]
            is_char == ds_get_ordinal(v)[2]
            Given == \E i \in DOMAIN range_each(range) : range_each(range)[i] = Element(range, number)
<1>1. /\ number \in Ints(W64) /\ number \in Int /\ is_char \in BOOLEAN
      /\ is_char <=> v.kind = "STRING" /\ v # Str(<<>>)
  BY Ordinals, WrapFits
<1>2. range_includes(range, v) <=> (range.is_char <=> is_char) /\ number \in range.from .. Upto(range)
  BY IncludedNumbers
<1>3. range.is_char \in BOOLEAN
  BY DEF Bounded
<1>4. CASE range.is_char = FALSE
  <2>1. IsInt(v)
    <3>1. Element(range, number) = Int64(number)
      BY <1>1, <1>4, ElementOfNumbers
    <3>. QED  BY <3>1, BoxesAlike
  <2>2. is_char = FALSE
    BY <1>1, <2>1 DEF IsInt
  <2>3. Given <=> number \in range.from .. Upto(range)
    BY <1>1, <1>4, GivenNumbers
  <2>. QED  BY <1>2, <1>4, <2>2, <2>3
<1>5. CASE range.is_char = TRUE
  <2>. DEFINE byte == number % Power(2, W8)
  <2>1. v = Str(IF byte = 0 THEN <<>> ELSE <<byte>>)
    BY <1>1, <1>5, ElementOfCharacters
  <2>2. Given <=> byte \in range.from .. Upto(range)
    BY <1>1, <1>5, GivenCharacters
  <2>3. range.from \in Nat \ {0}
    <3>1. range.from \in 1 .. Greatest(W8)
      BY <1>5
    <3>. QED  BY <3>1
  <2>6. Upto(range) \in Int /\ Upto(range) <= Greatest(W8) /\ Greatest(W8) \in Int
    <3>1. range.to \in 1 .. Greatest(W8) /\ Greatest(W8) \in Int
      <4>1. W8 - 1 \in Nat
        BY WidthsAssumption
      <4>2. Power(2, W8 - 1) \in Nat
        BY <4>1, PowerPositive
      <4>. QED  BY <1>5, <4>2 DEF Greatest
    <3>. QED  BY <3>1 DEF Upto
  <2>. HIDE DEF Given, byte
  <2>4. CASE byte = 0
    <3>1. v = Str(<<>>)
      BY <2>1, <2>4
    <3>2. is_char = FALSE
      BY <1>1, <3>1
    <3>3. ~Given
      BY <2>2, <2>3, <2>4
    <3>. QED  BY <1>2, <1>5, <3>2, <3>3 DEF Given
  <2>5. CASE byte # 0
    <3>1. v = Str(<<byte>>) /\ v.kind = "STRING" /\ v.s = <<byte>>
      BY <2>1, <2>5 DEF Str
    <3>2. v # Str(<<>>)
      <4>1. <<byte>> # <<>>
        OBVIOUS
      <4>. QED  BY <3>1, <4>1, TextsDiffer
    <3>3. is_char = TRUE /\ number = utf8proc_iterate(<<byte>>)
      BY <1>1, <3>1, <3>2, Ordinals
    <3>4. byte \in range.from .. Upto(range) => number = byte
      <4>. SUFFICES ASSUME byte \in range.from .. Upto(range) PROVE number = byte
        OBVIOUS
      <4>1. byte \in 1 .. Greatest(W8)
        BY <2>3, <2>6
      <4>. QED  BY <3>3, <4>1, DecodedByte
    <3>5. number \in range.from .. Upto(range) => byte = number
      <4>. SUFFICES ASSUME number \in range.from .. Upto(range) PROVE byte = number
        OBVIOUS
      <4>1. number \in 0 .. Greatest(W8)
        BY <1>1, <2>3, <2>6
      <4>. QED  BY <4>1, OneByte DEF byte
    <3>. QED  BY <1>2, <1>5, <2>2, <3>3, <3>4, <3>5 DEF Given
  <2>. QED  BY <2>4, <2>5
<1>. QED  BY <1>3, <1>4, <1>5

LEMMA EachIsEndless ==
  ASSUME NEW range, Bounded(range)
  PROVE  Endless(range_each(range)) <=> Unending(range)
<1>. DEFINE n == Rounds(range)
            f == range_each(range)
<1>1. f = [i \in 1 .. n |-> Element(range, Wrap(range.from + (i - 1)))]
  BY RoundsOfLoop
<1>2. n \in Nat /\ (n = Modulus <=> Unending(range))
  BY Bounds, Widths
<1>. HIDE DEF n, f
<1>3. f \in [1 .. n -> {Element(range, Wrap(range.from + (i - 1))) : i \in 1 .. n}]
  BY <1>1
<1>4. Len(f) = n
  BY <1>2, <1>3, ListProperties
<1>. QED  BY <1>2, <1>4 DEF Endless, f

LEMMA EachIsList ==
  ASSUME NEW range, Bounded(range), ~Unending(range), Upto(range) - range.from < Greatest(W64)
  PROVE  range_each(range) = range_to_a(range)
<1>. DEFINE each == range_each(range)
            list == range_to_a(range)
            n == Rounds(range)
<1>1. Size(range) = n /\ n \in Nat /\ n = IF Count(range) > 0 THEN Count(range) ELSE 0
  <2>1. Count(range) <= Greatest(W64)
    BY Bounds, Widths DEF Count
  <2>. QED  BY <2>1, Bounds DEF Size, Rounds
<1>2. list = [i \in 1 .. n |-> Element(range, range.from + i - 1)]
  BY <1>1, ItemsOfList
<1>3. each = [i \in 1 .. n |-> Element(range, Wrap(range.from + (i - 1)))]
  BY RoundsOfLoop
<1>4. \A i \in 1 .. n : Wrap(range.from + (i - 1)) = range.from + i - 1
  <2>. SUFFICES ASSUME NEW i \in 1 .. n
                PROVE  Wrap(range.from + (i - 1)) = range.from + i - 1
    OBVIOUS
  <2>1. range.from + (i - 1) \in Ints(W64)
    BY GivenElements
  <2>2. range.from + (i - 1) = range.from + i - 1
    BY <1>1, Bounds
  <2>. QED  BY <2>1, <2>2, WrapFits
<1>. HIDE DEF each, list, n
<1>5. each = list
  BY <1>2, <1>3, <1>4
<1>. QED  BY <1>5 DEF each, list

LEMMA ListEnds ==
  ASSUME NEW range, Bounded(range), range_to_a(range) # <<>>
  PROVE  /\ range_first(range) = range_to_a(range)[1]
         /\ ~range.exclusive => range_last(range) = range_to_a(range)[Len(range_to_a(range))]
<1>. DEFINE n == Size(range)
            list == range_to_a(range)
<1>1. list = [i \in 1 .. n |-> Element(range, range.from + i - 1)] /\ n \in Nat
  BY ItemsOfList
<1>. HIDE DEF list, n
<1>2. list \in [1 .. n -> {Element(range, range.from + i - 1) : i \in 1 .. n}]
  BY <1>1
<1>3. Len(list) = n /\ list \in Seq({Element(range, range.from + i - 1) : i \in 1 .. n})
  BY <1>1, <1>2, ListProperties
<1>4. n > 0
  <2>1. list # <<>>
    BY DEF list
  <2>. QED  BY <1>1, <1>3, <2>1, EmptySeq
<1>5. n = Count(range)
  BY <1>4 DEF n, Size
<1>6. list[1] = Element(range, range.from)
  <2>1. 1 \in 1 .. n /\ range.from + 1 - 1 = range.from
    BY <1>1, <1>4, Bounds
  <2>. QED  BY <1>1, <2>1
<1>7. ~range.exclusive => list[n] = Element(range, range.to)
  <2>1. n \in 1 .. n
    BY <1>1, <1>4
  <2>2. ~range.exclusive => range.from + n - 1 = range.to
    BY <1>5, Bounds DEF Count, Upto
  <2>. QED  BY <1>1, <2>1, <2>2
<1>. QED  BY <1>3, <1>6, <1>7 DEF range_first, range_last, list

LEMMA LongListIsEmpty ==
  ASSUME NEW range, Bounded(range), Count(range) > Greatest(W64)
  PROVE  range_to_a(range) = <<>>
<1>. DEFINE list == range_to_a(range)
<1>1. Size(range) = 0
  BY Bounds, Widths DEF Size
<1>2. list = [i \in 1 .. 0 |-> Element(range, range.from + i - 1)]
  BY <1>1, ItemsOfList
<1>. HIDE DEF list
<1>3. list = [i \in 1 .. 0 |-> list[i]]
  BY <1>2
<1>4. list = <<>>
  BY <1>3, ListOfNone
<1>. QED  BY <1>4 DEF list

LEMMA RangesOfValuesAgree ==
  ASSUME OperandsAreValues
  PROVE  RangesAgree
<1>. DEFINE l == operands[1]
            r == operands[2]
<1>0. Value(l) /\ Value(r)
  BY DEF OperandsAreValues
<1>. SUFFICES ASSUME NEW exclusive \in BOOLEAN, NEW range, range = range_literal(l, r, exclusive),
                     NEW upto, upto = IF exclusive THEN range.to - 1 ELSE range.to,
                     NEW given, given = range_each(range), NEW all, all = range_to_a(range)
              PROVE  /\ Endless(given) <=> ~exclusive /\ range.to = Greatest(W64)
                     /\ upto - range.from + 1 > Greatest(W64) => all = <<>>
                     /\ ~Endless(given) /\ upto - range.from < Greatest(W64) => given = all
                     /\ ~Endless(given) /\ (~range.is_char \/ {range.from, range.to} \subseteq 0 .. Greatest(W8)) =>
                          \A v \in Literals \cup {l, r} :
                            LET number == ds_get_ordinal(v)[1]
                            IN  Element(range, number) = v \/ (IsInt(v) /\ ~range.is_char) =>
                                  (range_includes(range, v) <=>
                                     \E i \in DOMAIN given : given[i] = Element(range, number))
                     /\ all # <<>> => /\ range_first(range) = all[1]
                                      /\ ~exclusive => range_last(range) = all[Len(all)]
  BY DEF RangesAgree
<1>1. /\ range.from = ds_get_ordinal(l)[1] /\ range.to = ds_get_ordinal(r)[1]
      /\ range.exclusive = exclusive
      /\ range.is_char = (ds_get_ordinal(l)[2] /\ ds_get_ordinal(r)[2])
  BY RangeFields
<1>2. Bounded(range)
  BY <1>0, <1>1, Ordinals DEF Bounded
<1>3. upto = Upto(range) /\ upto - range.from + 1 = Count(range)
  BY <1>1 DEF Upto, Count
<1>4. Unending(range) <=> ~exclusive /\ range.to = Greatest(W64)
  BY <1>1 DEF Unending
<1>5. Endless(given) <=> Unending(range)
  BY <1>2, EachIsEndless
<1>6. range.is_char => range.from \in Nat \ {0} /\ range.to \in Nat \ {0}
  BY <1>0, <1>1, Ordinals
<1>. HIDE DEF l, r
<1>7. ASSUME ~Endless(given), ~range.is_char \/ {range.from, range.to} \subseteq 0 .. Greatest(W8),
             NEW v \in Literals \cup {l, r},
             Element(range, ds_get_ordinal(v)[1]) = v \/ (IsInt(v) /\ ~range.is_char)
      PROVE  range_includes(range, v) <=>
               \E i \in DOMAIN given : given[i] = Element(range, ds_get_ordinal(v)[1])
  <2>1. Value(v)
    BY <1>0, <1>7, LiteralsAreValues
  <2>2. range.is_char => range.from \in 1 .. Greatest(W8) /\ range.to \in 1 .. Greatest(W8)
    BY <1>6, <1>7
  <2>3. ~Unending(range)
    BY <1>5, <1>7
  <2>. QED  BY <1>2, <1>7, <2>1, <2>2, <2>3, IncludedIsGiven
<1>8. upto - range.from + 1 > Greatest(W64) => all = <<>>
  BY <1>2, <1>3, LongListIsEmpty
<1>9. ~Endless(given) /\ upto - range.from < Greatest(W64) => given = all
  BY <1>2, <1>3, <1>5, EachIsList
<1>10. all # <<>> => /\ range_first(range) = all[1]
                     /\ ~exclusive => range_last(range) = all[Len(all)]
  BY <1>1, <1>2, ListEnds
<1>. QED  BY <1>4, <1>5, <1>7, <1>8, <1>9, <1>10

(* In every state of every computation what a range gives its block, what  *)
(* it turns into and what it includes are the same (llvm_runtime.c:1772-   *)
(* 1827), but where the count does not fit in 64 bits or the bound is the  *)
(* greatest integer: there each is what RangesAgree says.                  *)
THEOREM RangesAlwaysAgree == OperatorsSpec => []RangesAgree
<1>1. OperandsAreValues => RangesAgree
  BY RangesOfValuesAgree
<1>. QED  BY <1>1, OperandsStayValues, PTL
=============================================================================
