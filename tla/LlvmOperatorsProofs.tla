------------------------ MODULE LlvmOperatorsProofs ------------------------
(***************************************************************************)
(* What the operators of the LLVM runtime compute, for integers of every   *)
(* width, doubles of any number of bits and strings of any length: none of *)
(* them tells a 32-bit box from a 64-bit one, the divisions of integers    *)
(* and of doubles agree for every sign, so do the functions that compare,  *)
(* and the powers are those of the integers, wrapped. The values a program *)
(* gets from its literals are those the operators are right about: the     *)
(* last section proves it, and with it the invariants of OperatorsSpec.    *)
(***************************************************************************)
EXTENDS LlvmOperators, SequenceTheorems, WellFoundedInduction, TLAPS

(* What an operator may look at is the same in both boxes. *)
LEMMA BoxesAlike ==
  ASSUME NEW i
  PROVE  /\ IsInt(Int32(i)) /\ IsInt(Int64(i))
         /\ Int32(i).i = i /\ Int64(i).i = i
         /\ ~IsFloat(Int32(i)) /\ ~IsFloat(Int64(i))
         /\ ds_is_boxed(Int32(i)) /\ ds_is_boxed(Int64(i))
         /\ Int32(i) # NULL /\ Int64(i) # NULL
         /\ Int32(i).kind = "INT32" /\ Int64(i).kind = "INT64"
BY DEF IsInt, IsFloat, Int32, Int64, ds_is_boxed, NULL

LEMMA UnboxedAlike ==
  ASSUME NEW i
  PROVE  /\ unbox_i64(Int32(i)) = unbox_i64(Int64(i))
         /\ unbox_float(Int32(i)) = unbox_float(Int64(i))
         /\ IsZero(Int32(i)) <=> IsZero(Int64(i))
         /\ to_string(Int32(i)) = to_string(Int64(i))
<1>1. Int32(i) # Float(0) /\ Int64(i) # Float(0)
  BY DEF Int32, Int64, Float
<1>2. IsZero(Int32(i)) <=> IsZero(Int64(i))
  BY <1>1, BoxesAlike DEF IsZero
<1>3. to_string(Int32(i)) = to_string(Int64(i))
  BY BoxesAlike DEF to_string
<1>. QED  BY <1>2, <1>3, BoxesAlike DEF unbox_i64, unbox_float

LEMMA PairsAlike ==
  ASSUME NEW i, NEW r
  PROVE  /\ BothInts(Int32(i), r) <=> BothInts(Int64(i), r)
         /\ BothInts(r, Int32(i)) <=> BothInts(r, Int64(i))
         /\ OneFloat(Int32(i), r) <=> OneFloat(Int64(i), r)
         /\ OneFloat(r, Int32(i)) <=> OneFloat(r, Int64(i))
         /\ BothBoxed(Int32(i), r) <=> BothBoxed(Int64(i), r)
         /\ BothBoxed(r, Int32(i)) <=> BothBoxed(r, Int64(i))
         /\ ~BothUnboxed(Int32(i), r) /\ ~BothUnboxed(Int64(i), r)
         /\ ~BothUnboxed(r, Int32(i)) /\ ~BothUnboxed(r, Int64(i))
BY BoxesAlike DEF BothInts, OneFloat, BothBoxed, BothUnboxed

(* An operator gives the same for both boxes, on either side. *)
LEMMA ArithmeticAlike ==
  ASSUME NEW i, NEW r
  PROVE  /\ add(Int32(i), r) = add(Int64(i), r) /\ add(r, Int32(i)) = add(r, Int64(i))
         /\ sub(Int32(i), r) = sub(Int64(i), r) /\ sub(r, Int32(i)) = sub(r, Int64(i))
         /\ mul(Int32(i), r) = mul(Int64(i), r) /\ mul(r, Int32(i)) = mul(r, Int64(i))
         /\ shl(Int32(i), r) = shl(Int64(i), r) /\ shl(r, Int32(i)) = shl(r, Int64(i))
         /\ shr(Int32(i), r) = shr(Int64(i), r) /\ shr(r, Int32(i)) = shr(r, Int64(i))
<1>1. add(Int32(i), r) = add(Int64(i), r) /\ add(r, Int32(i)) = add(r, Int64(i))
  BY BoxesAlike, UnboxedAlike, PairsAlike DEF add
<1>2. sub(Int32(i), r) = sub(Int64(i), r) /\ sub(r, Int32(i)) = sub(r, Int64(i))
  BY BoxesAlike, UnboxedAlike, PairsAlike DEF sub, Numeric
<1>3. mul(Int32(i), r) = mul(Int64(i), r) /\ mul(r, Int32(i)) = mul(r, Int64(i))
  BY BoxesAlike, UnboxedAlike, PairsAlike DEF mul, Numeric
<1>4. shl(Int32(i), r) = shl(Int64(i), r) /\ shl(r, Int32(i)) = shl(r, Int64(i))
  BY UnboxedAlike DEF shl
<1>5. shr(Int32(i), r) = shr(Int64(i), r) /\ shr(r, Int32(i)) = shr(r, Int64(i))
  BY UnboxedAlike DEF shr
<1>. QED  BY <1>1, <1>2, <1>3, <1>4, <1>5

LEMMA DivisionAlike ==
  ASSUME NEW i, NEW r
  PROVE  /\ div(Int32(i), r) = div(Int64(i), r) /\ div(r, Int32(i)) = div(r, Int64(i))
         /\ mod(Int32(i), r) = mod(Int64(i), r) /\ mod(r, Int32(i)) = mod(r, Int64(i))
         /\ floor_div(Int32(i), r) = floor_div(Int64(i), r)
         /\ floor_div(r, Int32(i)) = floor_div(r, Int64(i))
         /\ pow(Int32(i), r) = pow(Int64(i), r) /\ pow(r, Int32(i)) = pow(r, Int64(i))
<1>1. div(Int32(i), r) = div(Int64(i), r) /\ div(r, Int32(i)) = div(r, Int64(i))
  BY BoxesAlike, UnboxedAlike, PairsAlike DEF div, Numeric
<1>2. mod(Int32(i), r) = mod(Int64(i), r) /\ mod(r, Int32(i)) = mod(r, Int64(i))
  BY BoxesAlike, UnboxedAlike, PairsAlike DEF mod, Numeric
<1>3. /\ floor_div(Int32(i), r) = floor_div(Int64(i), r)
      /\ floor_div(r, Int32(i)) = floor_div(r, Int64(i))
  BY BoxesAlike, UnboxedAlike, PairsAlike DEF floor_div, Numeric
<1>4. pow(Int32(i), r) = pow(Int64(i), r) /\ pow(r, Int32(i)) = pow(r, Int64(i))
  BY BoxesAlike, UnboxedAlike, PairsAlike DEF pow
<1>. QED  BY <1>1, <1>2, <1>3, <1>4

LEMMA OrderAlike ==
  ASSUME NEW i, NEW r
  PROVE  /\ cmp(Int32(i), r) = cmp(Int64(i), r) /\ cmp(r, Int32(i)) = cmp(r, Int64(i))
         /\ gt(Int32(i), r) = gt(Int64(i), r) /\ gt(r, Int32(i)) = gt(r, Int64(i))
         /\ lt(Int32(i), r) = lt(Int64(i), r) /\ lt(r, Int32(i)) = lt(r, Int64(i))
         /\ gte(Int32(i), r) = gte(Int64(i), r) /\ gte(r, Int32(i)) = gte(r, Int64(i))
         /\ lte(Int32(i), r) = lte(Int64(i), r) /\ lte(r, Int32(i)) = lte(r, Int64(i))
<1>1. cmp(Int32(i), r) = cmp(Int64(i), r) /\ cmp(r, Int32(i)) = cmp(r, Int64(i))
  BY BoxesAlike, UnboxedAlike, PairsAlike DEF cmp
<1>2. gt(Int32(i), r) = gt(Int64(i), r) /\ gt(r, Int32(i)) = gt(r, Int64(i))
  BY BoxesAlike, UnboxedAlike, PairsAlike DEF gt, Compared, Bool
<1>3. lt(Int32(i), r) = lt(Int64(i), r) /\ lt(r, Int32(i)) = lt(r, Int64(i))
  BY BoxesAlike, UnboxedAlike, PairsAlike DEF lt, Compared, Bool
<1>4. gte(Int32(i), r) = gte(Int64(i), r) /\ gte(r, Int32(i)) = gte(r, Int64(i))
  BY BoxesAlike, UnboxedAlike, PairsAlike DEF gte, Compared, Bool
<1>5. lte(Int32(i), r) = lte(Int64(i), r) /\ lte(r, Int32(i)) = lte(r, Int64(i))
  BY BoxesAlike, UnboxedAlike, PairsAlike DEF lte, Compared, Bool
<1>. QED  BY <1>1, <1>2, <1>3, <1>4, <1>5

(* Equality compares boxes as they are only when one of them is no number, *)
(* and then neither box of an integer is the other operand.                *)
LEMMA EqualityAlike ==
  ASSUME NEW i, NEW r
  PROVE  /\ eq(Int32(i), r) = eq(Int64(i), r) /\ eq(r, Int32(i)) = eq(r, Int64(i))
         /\ ne(Int32(i), r) = ne(Int64(i), r) /\ ne(r, Int32(i)) = ne(r, Int64(i))
<1>1. ~IsInt(r) => /\ case_compare(Int32(i), r) = FALSE /\ case_compare(Int64(i), r) = FALSE
                   /\ case_compare(r, Int32(i)) = FALSE /\ case_compare(r, Int64(i)) = FALSE
  BY BoxesAlike DEF case_compare
<1>2. IsInt(r) => /\ BothInts(Int32(i), r) /\ BothInts(Int64(i), r)
                  /\ BothInts(r, Int32(i)) /\ BothInts(r, Int64(i))
  BY BoxesAlike DEF BothInts
<1>3. /\ BothInts(Int32(i), r) => ~OneFloat(Int32(i), r)
      /\ BothInts(Int64(i), r) => ~OneFloat(Int64(i), r)
      /\ BothInts(r, Int32(i)) => ~OneFloat(r, Int32(i))
      /\ BothInts(r, Int64(i)) => ~OneFloat(r, Int64(i))
  BY DEF BothInts, OneFloat, IsInt, IsFloat
<1>4. eq(Int32(i), r) = eq(Int64(i), r) /\ eq(r, Int32(i)) = eq(r, Int64(i))
  <2>1. CASE IsInt(r)
    <3>1. /\ eq(Int32(i), r) = Bool(Int32(i).i = r.i) /\ eq(r, Int32(i)) = Bool(r.i = Int32(i).i)
          /\ eq(Int64(i), r) = Bool(Int64(i).i = r.i) /\ eq(r, Int64(i)) = Bool(r.i = Int64(i).i)
      BY <1>2, <1>3, <2>1, PairsAlike DEF eq
    <3>. QED  BY <3>1, BoxesAlike
  <2>2. CASE ~IsInt(r)
    <3>1. /\ ~BothInts(Int32(i), r) /\ ~BothInts(Int64(i), r)
          /\ ~BothInts(r, Int32(i)) /\ ~BothInts(r, Int64(i))
      BY <2>2 DEF BothInts
    <3>2. CASE OneFloat(Int64(i), r)
      <4>1. /\ OneFloat(Int32(i), r) /\ OneFloat(Int64(i), r)
            /\ OneFloat(r, Int32(i)) /\ OneFloat(r, Int64(i))
        BY <3>2, PairsAlike, BoxesAlike DEF OneFloat, BothBoxed
      <4>2. /\ eq(Int32(i), r) = Bool(Differ(unbox_float(Int32(i)), unbox_float(r), LAMBDA s : s = 0))
            /\ eq(r, Int32(i)) = Bool(Differ(unbox_float(r), unbox_float(Int32(i)), LAMBDA s : s = 0))
            /\ eq(Int64(i), r) = Bool(Differ(unbox_float(Int64(i)), unbox_float(r), LAMBDA s : s = 0))
            /\ eq(r, Int64(i)) = Bool(Differ(unbox_float(r), unbox_float(Int64(i)), LAMBDA s : s = 0))
        BY <3>1, <4>1, PairsAlike DEF eq
      <4>. QED  BY <4>2, UnboxedAlike
    <3>3. CASE ~OneFloat(Int64(i), r)
      <4>1. /\ ~OneFloat(Int32(i), r) /\ ~OneFloat(Int64(i), r)
            /\ ~OneFloat(r, Int32(i)) /\ ~OneFloat(r, Int64(i))
        BY <3>3, PairsAlike, BoxesAlike DEF OneFloat, BothBoxed
      <4>. QED  BY <1>1, <2>2, <3>1, <4>1, PairsAlike DEF eq
    <3>. QED  BY <3>2, <3>3
  <2>. QED  BY <2>1, <2>2
<1>. QED  BY <1>4 DEF ne

(* Literals are boxed as 32-bit integers and results as 64-bit ones        *)
(* (llvm_runtime.c:688): no operator tells them apart, at any widths and   *)
(* whatever the other operand is.                                          *)
THEOREM WidthNeverSeen == WidthIsInvisible
BY ArithmeticAlike, DivisionAlike, OrderAlike, EqualityAlike DEF WidthIsInvisible

-----------------------------------------------------------------------------
(* Division                                                                *)

(* The quotient of C, by a positive divisor: towards zero. *)
LEMMA TruncDivProperties ==
  ASSUME NEW a \in Int, NEW b \in Int, b # 0
  PROVE  /\ TruncDiv(a, b) \in Int
         /\ TruncMod(a, b) \in Int
         /\ a = b * TruncDiv(a, b) + TruncMod(a, b)
         /\ Abs(TruncMod(a, b)) < Abs(b)
         /\ Signum(TruncMod(a, b)) \in {0, Signum(a)}
<1>. DEFINE q == Abs(a) \div Abs(b)
            m == Abs(a) % Abs(b)
<1>1. Abs(a) \in Nat /\ Abs(b) \in Nat \ {0}
  BY DEF Abs
<1>2. q \in Nat /\ m \in 0 .. Abs(b) - 1 /\ Abs(a) = Abs(b) * q + m
  BY <1>1
<1>. HIDE DEF q, m
<1>3. TruncDiv(a, b) = Signum(a) * Signum(b) * q
  BY DEF TruncDiv, q
<1>4. TruncMod(a, b) = Signum(a) * m
  <2>1. TruncMod(a, b) = a - b * (Signum(a) * Signum(b) * q)
    BY <1>3 DEF TruncMod
  <2>2. a = Signum(a) * Abs(a) /\ b = Signum(b) * Abs(b)
    BY DEF Signum, Abs
  <2>3. CASE b > 0
    BY <1>2, <2>1, <2>3 DEF Signum, Abs
  <2>4. CASE b < 0
    BY <1>2, <2>1, <2>4 DEF Signum, Abs
  <2>. QED  BY <2>3, <2>4
<1>5. TruncDiv(a, b) \in Int /\ TruncMod(a, b) \in Int
  BY <1>2, <1>3, <1>4 DEF Signum
<1>6. a = b * TruncDiv(a, b) + TruncMod(a, b)
  BY <1>5 DEF TruncMod
<1>7. Abs(TruncMod(a, b)) < Abs(b) /\ Signum(TruncMod(a, b)) \in {0, Signum(a)}
  BY <1>1, <1>2, <1>4 DEF Signum, Abs
<1>. QED  BY <1>5, <1>6, <1>7

(* "//" rounds down for every sign of the operands, whatever the width     *)
(* (llvm_runtime.c:2907): the quotient of C is one less where something is *)
(* left that has not the sign of the divisor.                              *)
THEOREM FloorDivisionRoundsDown ==
  ASSUME NEW a \in Int, NEW b \in Int, b # 0
  PROVE  LET quotient == ds_int_floor_div(a, b)
         IN  IF b > 0 THEN quotient * b <= a /\ a < (quotient + 1) * b
                      ELSE quotient * b >= a /\ a > (quotient + 1) * b
<1>. DEFINE t == TruncDiv(a, b)
            rest == TruncMod(a, b)
            quotient == ds_int_floor_div(a, b)
<1>1. /\ t \in Int /\ rest \in Int
      /\ a = b * t + rest
      /\ Abs(rest) < Abs(b)
  BY TruncDivProperties
<1>2. quotient = IF rest # 0 /\ (rest > 0) # (b > 0) THEN t - 1 ELSE t
  BY DEF ds_int_floor_div
<1>. HIDE DEF t, rest, quotient
<1>3. (t - 1) * b = b * t - b /\ (t + 1) * b = b * t + b /\ t * b = b * t
  BY <1>1
<1>4. CASE rest # 0 /\ (rest > 0) # (b > 0)
  <2>1. quotient = t - 1 /\ quotient + 1 = t
    BY <1>1, <1>2, <1>4
  <2>2. quotient * b = b * t - b /\ (quotient + 1) * b = b * t
    BY <1>3, <2>1
  <2>3. b > 0 => rest < 0 /\ -rest < b
    BY <1>1, <1>4 DEF Abs
  <2>4. b < 0 => rest > 0 /\ rest < -b
    BY <1>1, <1>4 DEF Abs
  <2>. QED  BY <1>1, <2>2, <2>3, <2>4 DEF quotient
<1>5. CASE ~(rest # 0 /\ (rest > 0) # (b > 0))
  <2>1. quotient = t
    BY <1>2, <1>5
  <2>2. b > 0 => rest >= 0 /\ rest < b
    BY <1>1, <1>5 DEF Abs
  <2>3. b < 0 => rest <= 0 /\ -rest < -b
    BY <1>1, <1>5 DEF Abs
  <2>. QED  BY <1>1, <1>3, <2>1, <2>2, <2>3 DEF quotient
<1>. QED  BY <1>4, <1>5

-----------------------------------------------------------------------------
(* Least and greatest numbers.                                             *)

LEMMA LeastNatural ==
  ASSUME NEW T, T \subseteq Nat, T # {}
  PROVE  \E m \in T : \A n \in T : m <= n
<1>. DEFINE Less == {r \in Nat \X Nat : r[1] < r[2]}
<1>1. IsWellFoundedOn(Less, Nat)
  BY NatLessThanWellFounded DEF OpToRel
<1>2. PICK m \in T : \A n \in T : <<n, m>> \notin Less
  <2>. HIDE DEF Less
  <2>. QED  BY <1>1, WFMin, Zenon
<1>3. \A n \in T : ~(n < m)
  BY <1>2
<1>. QED  BY <1>3

LEMMA GreatestNatural ==
  ASSUME NEW T, T \subseteq Nat, T # {}, NEW bound \in Nat, \A n \in T : n <= bound
  PROVE  \E m \in T : \A n \in T : n <= m
<1>. DEFINE U == {k \in Nat : \E n \in T : k = bound - n}
<1>1. PICK n \in T : TRUE
  OBVIOUS
<1>2. bound - n \in U
  BY <1>1
<1>3. PICK k \in U : \A j \in U : k <= j
  <2>. HIDE DEF U
  <2>1. U \subseteq Nat
    BY DEF U
  <2>. QED  BY <1>2, <2>1, LeastNatural
<1>4. PICK m \in T : k = bound - m
  BY <1>3
<1>5. ASSUME NEW j \in T
      PROVE  j <= m
  <2>1. bound - j \in U
    OBVIOUS
  <2>2. k <= bound - j
    BY <1>3, <2>1
  <2>. QED  BY <1>4, <2>2
<1>. QED  BY <1>5

-----------------------------------------------------------------------------
(* The order of strings                                                    *)

DiffersAt(s, t, i) ==
  /\ i \in 1 .. Len(s) /\ i <= Len(t)
  /\ s[i] # t[i]
  /\ \A j \in 1 .. i - 1 : s[j] = t[j]

Alike(s, t) == \A i \in 1 .. Len(s) : i <= Len(t) => s[i] = t[i]

Below(s, t) ==
  \/ Len(s) < Len(t) /\ Alike(s, t)
  \/ \E i \in 1 .. Len(s) : DiffersAt(s, t, i) /\ s[i] < t[i]

LEMMA Characters ==
  ASSUME NEW s \in Seq(Int)
  PROVE  Len(s) \in Nat /\ \A i \in 1 .. Len(s) : s[i] \in Int
BY LenProperties, ElementOfSeq

LEMMA StrcmpCases ==
  ASSUME NEW s \in Seq(Int), NEW t \in Seq(Int)
  PROVE  \/ Alike(s, t) /\ strcmp(s, t) = Signum(Len(s) - Len(t))
         \/ \E i \in 1 .. Len(s) : DiffersAt(s, t, i) /\ strcmp(s, t) = Signum(s[i] - t[i])
<1>. DEFINE differ == {i \in 1 .. Len(s) : i <= Len(t) /\ s[i] # t[i]}
            i == CHOOSE k \in differ : \A m \in differ : k <= m
<1>1. Len(s) \in Nat /\ Len(t) \in Nat
  BY Characters
<1>2. strcmp(s, t) = IF differ = {} THEN Signum(Len(s) - Len(t)) ELSE Signum(s[i] - t[i])
  BY DEF strcmp
<1>3. CASE differ = {}
  <2>1. Alike(s, t)
    BY <1>3 DEF Alike
  <2>. QED  BY <1>2, <1>3, <2>1
<1>4. CASE differ # {}
  <2>1. \E k \in differ : \A m \in differ : k <= m
    <3>1. differ \subseteq Nat
      BY <1>1
    <3>. HIDE DEF differ
    <3>. QED  BY <1>4, <3>1, LeastNatural
  <2>2. i \in differ /\ \A m \in differ : i <= m
    <3>. HIDE DEF differ
    <3>. QED  BY <2>1
  <2>3. strcmp(s, t) = Signum(s[i] - t[i])
    BY <1>2, <1>4
  <2>. HIDE DEF i
  <2>4. i \in 1 .. Len(s) /\ i <= Len(t) /\ s[i] # t[i]
    BY <2>2
  <2>5. ASSUME NEW j \in 1 .. i - 1
        PROVE  s[j] = t[j]
    <3>1. j \in 1 .. Len(s) /\ j <= Len(t) /\ ~(i <= j)
      BY <1>1, <2>4
    <3>2. j \notin differ
      BY <2>2, <3>1
    <3>. QED  BY <3>1, <3>2
  <2>6. DiffersAt(s, t, i)
    BY <2>4, <2>5 DEF DiffersAt
  <2>. QED  BY <2>3, <2>4, <2>6
<1>. QED  BY <1>3, <1>4

LEMMA FirstDifference ==
  ASSUME NEW s, NEW t, NEW i, NEW k, DiffersAt(s, t, i)
  PROVE  ~Alike(s, t) /\ (DiffersAt(s, t, k) => i = k)
<1>1. ~Alike(s, t)
  BY DEF Alike, DiffersAt
<1>2. ASSUME DiffersAt(s, t, k)
      PROVE  i = k
  <2>1. i \in Int /\ k \in Int /\ i >= 1 /\ k >= 1
    BY <1>2 DEF DiffersAt
  <2>2. ~(i < k) /\ ~(k < i)
    BY <1>2, <2>1 DEF DiffersAt
  <2>. QED  BY <2>1, <2>2
<1>. QED  BY <1>1, <1>2

LEMMA StrcmpProperties ==
  ASSUME NEW s \in Seq(Int), NEW t \in Seq(Int)
  PROVE  /\ strcmp(s, t) \in {-1, 0, 1}
         /\ strcmp(s, t) = 0 <=> s = t
         /\ strcmp(s, t) < 0 <=> Below(s, t)
<1>1. /\ Len(s) \in Nat /\ \A i \in 1 .. Len(s) : s[i] \in Int
      /\ Len(t) \in Nat /\ \A i \in 1 .. Len(t) : t[i] \in Int
  BY Characters
<1>2. CASE Alike(s, t) /\ strcmp(s, t) = Signum(Len(s) - Len(t))
  <2>1. strcmp(s, t) \in {-1, 0, 1} /\ (strcmp(s, t) = 0 <=> Len(s) = Len(t))
        /\ (strcmp(s, t) < 0 <=> Len(s) < Len(t))
    BY <1>1, <1>2 DEF Signum
  <2>2. Len(s) = Len(t) => s = t
    <3>. SUFFICES ASSUME Len(s) = Len(t) PROVE s = t
      OBVIOUS
    <3>1. \A i \in 1 .. Len(s) : s[i] = t[i]
      BY <1>1, <1>2 DEF Alike
    <3>. QED  BY <3>1, SeqEqual
  <2>3. \A i \in 1 .. Len(s) : ~DiffersAt(s, t, i)
    BY <1>2, FirstDifference
  <2>. QED  BY <1>2, <2>1, <2>2, <2>3 DEF Below
<1>3. ASSUME NEW i \in 1 .. Len(s), DiffersAt(s, t, i), strcmp(s, t) = Signum(s[i] - t[i])
      PROVE  /\ strcmp(s, t) \in {-1, 0, 1}
             /\ strcmp(s, t) = 0 <=> s = t
             /\ strcmp(s, t) < 0 <=> Below(s, t)
  <2>1. s[i] \in Int /\ t[i] \in Int /\ s[i] # t[i]
    BY <1>1, <1>3 DEF DiffersAt
  <2>2. strcmp(s, t) \in {-1, 1} /\ (strcmp(s, t) < 0 <=> s[i] < t[i])
    BY <1>3, <2>1 DEF Signum
  <2>3. s # t
    BY <2>1
  <2>4. Below(s, t) <=> s[i] < t[i]
    BY <1>3, FirstDifference DEF Below
  <2>. QED  BY <2>2, <2>3, <2>4
<1>. QED  BY <1>2, <1>3, StrcmpCases

LEMMA BelowTransitive ==
  ASSUME NEW s \in Seq(Int), NEW t \in Seq(Int), NEW u \in Seq(Int), Below(s, t), Below(t, u)
  PROVE  Below(s, u)
<1>1. /\ Len(s) \in Nat /\ \A i \in 1 .. Len(s) : s[i] \in Int
      /\ Len(t) \in Nat /\ \A i \in 1 .. Len(t) : t[i] \in Int
      /\ Len(u) \in Nat /\ \A i \in 1 .. Len(u) : u[i] \in Int
  BY Characters
<1>2. CASE Len(s) < Len(t) /\ Alike(s, t) /\ Len(t) < Len(u) /\ Alike(t, u)
  <2>1. ASSUME NEW i \in 1 .. Len(s), i <= Len(u)
        PROVE  s[i] = u[i]
    <3>1. i \in 1 .. Len(t) /\ i <= Len(t)
      BY <1>1, <1>2
    <3>. QED  BY <1>2, <2>1, <3>1 DEF Alike
  <2>2. Alike(s, u)
    BY <2>1 DEF Alike
  <2>. QED  BY <1>1, <1>2, <2>2 DEF Below
<1>3. ASSUME Len(s) < Len(t), Alike(s, t),
             NEW k \in 1 .. Len(t), DiffersAt(t, u, k), t[k] < u[k]
      PROVE  Below(s, u)
  <2>1. CASE k <= Len(s)
    <3>1. k \in 1 .. Len(s) /\ s[k] = t[k] /\ k <= Len(u)
      BY <1>1, <1>3, <2>1 DEF Alike, DiffersAt
    <3>2. ASSUME NEW j \in 1 .. k - 1
          PROVE  s[j] = u[j]
      <4>1. j \in 1 .. Len(s) /\ j <= Len(t)
        BY <1>1, <3>1
      <4>. QED  BY <1>3, <4>1 DEF Alike, DiffersAt
    <3>3. s[k] < u[k] /\ s[k] # u[k]
      BY <1>1, <1>3, <3>1
    <3>. QED  BY <3>1, <3>2, <3>3 DEF Below, DiffersAt
  <2>2. CASE ~(k <= Len(s))
    <3>1. Len(s) < Len(u)
      BY <1>1, <1>3, <2>2 DEF DiffersAt
    <3>2. Alike(s, u)
      BY <1>1, <1>3, <2>2 DEF Alike, DiffersAt
    <3>. QED  BY <3>1, <3>2 DEF Below
  <2>. QED  BY <2>1, <2>2
<1>4. ASSUME NEW i \in 1 .. Len(s), DiffersAt(s, t, i), s[i] < t[i],
             Len(t) < Len(u), Alike(t, u)
      PROVE  Below(s, u)
  <2>1. i \in 1 .. Len(t) /\ i <= Len(u) /\ t[i] = u[i]
    BY <1>1, <1>4 DEF Alike, DiffersAt
  <2>2. ASSUME NEW j \in 1 .. i - 1
        PROVE  s[j] = u[j]
    <3>1. j \in 1 .. Len(t) /\ j <= Len(u)
      BY <1>1, <2>1
    <3>. QED  BY <1>4, <3>1 DEF Alike, DiffersAt
  <2>3. s[i] < u[i] /\ s[i] # u[i]
    BY <1>1, <1>4, <2>1
  <2>. QED  BY <2>1, <2>2, <2>3 DEF Below, DiffersAt
<1>5. ASSUME NEW i \in 1 .. Len(s), DiffersAt(s, t, i), s[i] < t[i],
             NEW k \in 1 .. Len(t), DiffersAt(t, u, k), t[k] < u[k]
      PROVE  Below(s, u)
  <2>. DEFINE m == IF i < k THEN i ELSE k
  <2>1. m \in 1 .. Len(s) /\ m \in 1 .. Len(t) /\ m <= Len(u) /\ m <= i /\ m <= k
    BY <1>1, <1>5 DEF DiffersAt
  <2>2. s[m] < u[m] /\ s[m] # u[m]
    <3>0. s[m] \in Int /\ t[m] \in Int /\ u[m] \in Int
      BY <1>1, <2>1
    <3>1. CASE i < k
      <4>1. t[i] = u[i]
        BY <1>1, <1>5, <3>1 DEF DiffersAt
      <4>. QED  BY <1>5, <3>0, <3>1, <4>1
    <3>2. CASE i = k
      BY <1>5, <3>0, <3>2
    <3>3. CASE k < i
      <4>1. s[k] = t[k]
        BY <1>1, <1>5, <3>3 DEF DiffersAt
      <4>. QED  BY <1>5, <3>0, <3>3, <4>1
    <3>. QED  BY <1>1, <3>1, <3>2, <3>3
  <2>3. ASSUME NEW j \in 1 .. m - 1
        PROVE  s[j] = u[j]
    <3>1. j \in 1 .. i - 1 /\ j \in 1 .. k - 1
      BY <1>1, <2>1
    <3>. QED  BY <1>5, <3>1 DEF DiffersAt
  <2>. HIDE DEF m
  <2>. QED  BY <2>1, <2>2, <2>3 DEF Below, DiffersAt
<1>. QED  BY <1>2, <1>3, <1>4, <1>5 DEF Below

(* A positive factor on both sides.                                        *)
LEMMA Cancelled ==
  ASSUME NEW x \in Int, NEW y \in Int, NEW k \in Nat \ {0}
  PROVE  /\ k * x <= k * y <=> x <= y
         /\ k * x = k * y <=> x = y
         /\ k * x < k * y <=> x < y
OBVIOUS

-----------------------------------------------------------------------------
(* Recursive functions                                                     *)

LEMMA Upwards ==
  ASSUME NEW T, 0 \in T, \A k \in Nat : k \in T => k + 1 \in T
  PROVE  Nat \subseteq T
<1>. SUFFICES ASSUME ~(Nat \subseteq T) PROVE FALSE
  OBVIOUS
<1>. DEFINE missing == {k \in Nat : k \notin T}
<1>1. PICK m \in missing : \A k \in missing : m <= k
  <2>1. missing \subseteq Nat /\ missing # {}
    OBVIOUS
  <2>. HIDE DEF missing
  <2>. QED  BY <2>1, LeastNatural
<1>2. m # 0 /\ m - 1 \in Nat /\ m - 1 \notin missing
  BY <1>1
<1>. QED  BY <1>1, <1>2

(* What comes of doing a step again and again. *)
Iterated(S, start, step, f) ==
  /\ f \in [Nat -> S]
  /\ f[0] = start
  /\ \A k \in Nat : f[k + 1] = step[f[k]]

LEMMA IterationExists ==
  ASSUME NEW S, NEW start \in S, NEW step \in [S -> S]
  PROVE  \E f : Iterated(S, start, step, f)
<1>. DEFINE Upto(n) == {f \in [0 .. n -> S] :
                          f[0] = start /\ \A k \in 0 .. n - 1 : f[k + 1] = step[f[k]]}
            T == {n \in Nat : Upto(n) # {}}
<1>1. 0 \in T
  <2>1. [k \in 0 .. 0 |-> start] \in Upto(0)
    OBVIOUS
  <2>. HIDE DEF Upto
  <2>. QED  BY <2>1
<1>2. ASSUME NEW n \in Nat, n \in T
      PROVE  n + 1 \in T
  <2>1. PICK f : f \in Upto(n)
    BY <1>2
  <2>. DEFINE g == [k \in 0 .. n + 1 |-> IF k = n + 1 THEN step[f[n]] ELSE f[k]]
  <2>2. f \in [0 .. n -> S] /\ f[0] = start /\ \A k \in 0 .. n - 1 : f[k + 1] = step[f[k]]
    BY <2>1
  <2>3. g \in [0 .. n + 1 -> S] /\ g[0] = start
    BY <2>2
  <2>4. \A k \in 0 .. (n + 1) - 1 : g[k + 1] = step[g[k]]
    BY <2>2
  <2>5. g \in Upto(n + 1)
    BY <2>3, <2>4
  <2>6. n + 1 \in Nat /\ Upto(n + 1) # {}
    <3>. HIDE DEF Upto
    <3>. QED  BY <2>5
  <2>. HIDE DEF Upto
  <2>. QED  BY <2>6
<1>3. Nat \subseteq T
  <2>. HIDE DEF T
  <2>. QED  BY <1>1, <1>2, Upwards
<1>. DEFINE some == [n \in Nat |-> CHOOSE f : f \in Upto(n)]
            F == [n \in Nat |-> some[n][n]]
<1>4. ASSUME NEW n \in Nat
      PROVE  some[n] \in Upto(n)
  <2>1. Upto(n) # {}
    <3>. HIDE DEF Upto
    <3>. QED  BY <1>3
  <2>. HIDE DEF Upto
  <2>. QED  BY <2>1
<1>. HIDE DEF some
<1>5. ASSUME NEW n \in Nat
      PROVE  /\ some[n] \in [0 .. n -> S] /\ some[n][0] = start
             /\ \A k \in 0 .. n - 1 : some[n][k + 1] = step[some[n][k]]
  BY <1>4
<1>. HIDE DEF T
(* Two of them are equal as far as both go. *)
<1>6. ASSUME NEW n \in Nat
      PROVE  \A k \in 0 .. n : some[n][k] = some[n + 1][k]
  <2>. DEFINE U == {k \in Nat : k <= n => some[n][k] = some[n + 1][k]}
  <2>1. 0 \in U
    BY <1>5
  <2>2. ASSUME NEW k \in Nat, k \in U
        PROVE  k + 1 \in U
    <3>. SUFFICES ASSUME k + 1 <= n PROVE some[n][k + 1] = some[n + 1][k + 1]
      OBVIOUS
    <3>1. k \in 0 .. n - 1 /\ k \in 0 .. (n + 1) - 1 /\ some[n][k] = some[n + 1][k]
      BY <2>2
    <3>2. some[n][k + 1] = step[some[n][k]]
      BY <1>5, <3>1
    <3>3. some[n + 1][k + 1] = step[some[n + 1][k]]
      <4>1. n + 1 \in Nat
        OBVIOUS
      <4>. QED  BY <1>5, <3>1, <4>1
    <3>. QED  BY <3>1, <3>2, <3>3
  <2>3. Nat \subseteq U
    <3>. HIDE DEF U
    <3>. QED  BY <2>1, <2>2, Upwards
  <2>. QED  BY <2>3
<1>7. F \in [Nat -> S] /\ F[0] = start
  BY <1>5
<1>8. ASSUME NEW k \in Nat
      PROVE  F[k + 1] = step[F[k]]
  <2>1. some[k + 1][k + 1] = step[some[k + 1][k]]
    <3>1. k + 1 \in Nat /\ k \in 0 .. (k + 1) - 1
      OBVIOUS
    <3>. QED  BY <1>5, <3>1
  <2>2. some[k][k] = some[k + 1][k]
    <3>1. k \in 0 .. k
      OBVIOUS
    <3>. QED  BY <1>6, <3>1
  <2>. QED  BY <2>1, <2>2
<1>. HIDE DEF F
<1>. QED  BY <1>7, <1>8 DEF Iterated

-----------------------------------------------------------------------------
(* Powers                                                                  *)

LEMMA PowerProperties ==
  ASSUME NEW i \in Int
  PROVE  /\ Power(i, 0) = 1
         /\ \A k \in Nat : Power(i, k) \in Int /\ Power(i, k + 1) = i * Power(i, k)
<1>. DEFINE Rec(f) == [j \in Nat |-> IF j = 0 THEN 1 ELSE i * f[j - 1]]
            power == CHOOSE f : f = Rec(f)
            step == [x \in Int |-> i * x]
<1>1. PICK f : Iterated(Int, 1, step, f)
  BY IterationExists
<1>2. f \in [Nat -> Int] /\ f[0] = 1 /\ \A k \in Nat : f[k + 1] = i * f[k]
  BY <1>1 DEF Iterated
<1>3. f = Rec(f)
  <2>1. \A k \in Nat : f[k] = Rec(f)[k]
    <3>. SUFFICES ASSUME NEW k \in Nat, k # 0 PROVE f[k] = i * f[k - 1]
      BY <1>2
    <3>1. k - 1 \in Nat /\ (k - 1) + 1 = k
      OBVIOUS
    <3>. QED  BY <1>2, <3>1
  <2>. QED  BY <1>2, <2>1
<1>4. power = Rec(power)
  BY <1>3, Zenon
<1>5. \A k : Power(i, k) = power[k]
  BY DEF Power
<1>. HIDE DEF power
<1>. DEFINE T == {k \in Nat : power[k] = f[k]}
<1>6. 0 \in T
  BY <1>2, <1>4
<1>7. ASSUME NEW k \in Nat, k \in T
      PROVE  k + 1 \in T
  <2>1. power[k + 1] = i * power[k]
    BY <1>4
  <2>. QED  BY <1>2, <1>7, <2>1
<1>8. Nat \subseteq T
  <2>. HIDE DEF T
  <2>. QED  BY <1>6, <1>7, Upwards
<1>9. \A k \in Nat : Power(i, k) = f[k]
  BY <1>5, <1>8
<1>. QED  BY <1>2, <1>9

LEMMA PowerPositive ==
  ASSUME NEW i \in Nat \ {0}, NEW k \in Nat
  PROVE  Power(i, k) \in Nat \ {0}
<1>. DEFINE T == {n \in Nat : Power(i, n) \in Nat \ {0}}
<1>1. 0 \in T
  <2>1. Power(i, 0) = 1
    BY PowerProperties
  <2>. QED  BY <2>1
<1>2. ASSUME NEW n \in Nat, n \in T
      PROVE  n + 1 \in T
  <2>1. Power(i, n + 1) = i * Power(i, n)
    BY PowerProperties
  <2>. QED  BY <1>2, <2>1
<1>3. Nat \subseteq T
  <2>. HIDE DEF T
  <2>. QED  BY <1>1, <1>2, Upwards
<1>. QED  BY <1>3

(* A greater exponent gives more, if the base is at least 2. *)
LEMMA PowerGrows ==
  ASSUME NEW k \in Nat, NEW m \in Nat, m > k
  PROVE  2 * Power(2, k) <= Power(2, m)
<1>. DEFINE T == {n \in Nat : 2 * Power(2, k) <= Power(2, k + 1 + n)}
<1>1. 0 \in T
  <2>1. Power(2, k + 1) = 2 * Power(2, k)
    BY PowerProperties
  <2>2. k + 1 + 0 = k + 1 /\ Power(2, k) \in Int
    BY PowerProperties
  <2>. QED  BY <2>1, <2>2
<1>2. ASSUME NEW n \in Nat, n \in T
      PROVE  n + 1 \in T
  <2>. DEFINE p == k + 1 + n
  <2>1. p \in Nat /\ p + 1 = k + 1 + (n + 1) /\ 2 * Power(2, k) <= Power(2, p)
    BY <1>2
  <2>. HIDE DEF p
  <2>2. Power(2, p + 1) = 2 * Power(2, p) /\ Power(2, p) \in Nat
    BY <2>1, PowerProperties, PowerPositive
  <2>3. Power(2, k) \in Nat
    BY PowerPositive
  <2>. QED  BY <2>1, <2>2, <2>3
<1>3. Nat \subseteq T
  <2>. HIDE DEF T
  <2>. QED  BY <1>1, <1>2, Upwards
<1>. DEFINE n == m - (k + 1)
<1>4. n \in Nat /\ k + 1 + n = m
  OBVIOUS
<1>. HIDE DEF n
<1>5. n \in T
  BY <1>3, <1>4
<1>. QED  BY <1>4, <1>5

-----------------------------------------------------------------------------
(* Arithmetic that wraps                                                   *)

LEMMA Widths ==
  /\ W64 \in Nat \ {0, 1}
  /\ Power(2, W64 - 1) \in Nat /\ Power(2, W64 - 1) >= 2
  /\ Modulus = 2 * Power(2, W64 - 1) /\ Modulus \in Nat \ {0}
  /\ INT64_MIN = -Power(2, W64 - 1) /\ Greatest(W64) = Power(2, W64 - 1) - 1
  /\ Ints(W64) = INT64_MIN .. Greatest(W64)
  /\ INT64_MIN \in Int /\ Greatest(W64) \in Nat
<1>1. W64 \in Nat \ {0, 1}
  BY WidthsAssumption
<1>. DEFINE n == W64 - 1
<1>2. n \in Nat \ {0} /\ n + 1 = W64
  BY <1>1
<1>. HIDE DEF n
<1>3. Power(2, n) \in Nat /\ 2 * Power(2, 0) <= Power(2, n) /\ Power(2, 0) = 1
  <2>1. Power(2, n) \in Nat
    BY <1>2, PowerPositive
  <2>2. Power(2, 0) = 1
    BY PowerProperties
  <2>3. 2 * Power(2, 0) <= Power(2, n)
    BY <1>2, PowerGrows
  <2>. QED  BY <2>1, <2>2, <2>3
<1>4. Power(2, n + 1) = 2 * Power(2, n)
  BY <1>2, PowerProperties
<1>. QED  BY <1>1, <1>2, <1>3, <1>4 DEF n, Modulus, INT64_MIN, Least, Greatest, Ints

(* Equal but for a multiple of the modulus. *)
Congruent(a, b) == \E q \in Int : a = b + Modulus * q

LEMMA CongruenceProperties ==
  ASSUME NEW a \in Int, NEW b \in Int
  PROVE  /\ Congruent(a, a)
         /\ Congruent(a, b) => Congruent(b, a)
         /\ \A c \in Int : Congruent(a, b) /\ Congruent(b, c) => Congruent(a, c)
         /\ \A c \in Int : Congruent(a, b) => Congruent(a * c, b * c) /\ Congruent(c * a, c * b)
<1>0. Modulus \in Int
  BY Widths
<1>1. Congruent(a, a)
  <2>1. a = a + Modulus * 0
    BY <1>0
  <2>. QED  BY <2>1 DEF Congruent
<1>2. ASSUME Congruent(a, b)
      PROVE  Congruent(b, a)
  <2>1. PICK q \in Int : a = b + Modulus * q
    BY <1>2 DEF Congruent
  <2>2. b = a + Modulus * (-q)
    BY <1>0, <2>1
  <2>. QED  BY <2>2 DEF Congruent
<1>3. ASSUME NEW c \in Int, Congruent(a, b), Congruent(b, c)
      PROVE  Congruent(a, c)
  <2>1. PICK q \in Int, p \in Int : a = b + Modulus * q /\ b = c + Modulus * p
    BY <1>3 DEF Congruent
  <2>2. a = c + Modulus * (q + p)
    BY <1>0, <2>1
  <2>. QED  BY <2>2 DEF Congruent
<1>4. ASSUME NEW c \in Int, Congruent(a, b)
      PROVE  Congruent(a * c, b * c) /\ Congruent(c * a, c * b)
  <2>1. PICK q \in Int : a = b + Modulus * q
    BY <1>4 DEF Congruent
  <2>2. a * c = b * c + Modulus * (q * c)
    BY <1>0, <2>1
  <2>3. c * a = c * b + Modulus * (q * c) /\ q * c \in Int
    BY <1>0, <2>1
  <2>. QED  BY <2>2, <2>3 DEF Congruent
<1>. QED  BY <1>1, <1>2, <1>3, <1>4

LEMMA CongruentProducts ==
  ASSUME NEW a \in Int, NEW b \in Int, NEW c \in Int, Congruent(a, b)
  PROVE  Congruent(a * c, b * c) /\ Congruent(c * a, c * b)
BY CongruenceProperties

LEMMA WrapProperties ==
  ASSUME NEW i \in Int
  PROVE  Wrap(i) \in Ints(W64) /\ Wrap(i) \in Int /\ Congruent(Wrap(i), i)
<1>. DEFINE x == i - INT64_MIN
            m == Modulus
<1>1. x \in Int /\ m \in Nat \ {0} /\ INT64_MIN \in Int
  BY Widths
<1>2. Wrap(i) = (x % m) + INT64_MIN
  BY DEF Wrap
<1>3. x % m \in 0 .. m - 1 /\ x \div m \in Int /\ x = m * (x \div m) + (x % m)
  <2>. HIDE DEF x, m
  <2>. QED  BY <1>1
<1>4. Wrap(i) \in Ints(W64)
  <2>1. Ints(W64) = INT64_MIN .. INT64_MIN + m - 1
    BY Widths
  <2>. HIDE DEF x, m
  <2>. QED  BY <1>1, <1>2, <1>3, <2>1
<1>5. Wrap(i) = i + m * (-(x \div m))
  <2>1. i = x + INT64_MIN
    BY <1>1
  <2>. HIDE DEF x, m
  <2>. QED  BY <1>1, <1>2, <1>3, <2>1
<1>6. -(x \div m) \in Int
  BY <1>3
<1>7. Congruent(Wrap(i), i)
  <2>. HIDE DEF x
  <2>. QED  BY <1>5, <1>6 DEF Congruent
<1>. QED  BY <1>1, <1>2, <1>3, <1>4, <1>7

LEMMA CongruentIsEqual ==
  ASSUME NEW a \in Ints(W64), NEW b \in Ints(W64), Congruent(a, b)
  PROVE  a = b
<1>1. PICK q \in Int : a = b + Modulus * q
  BY DEF Congruent
<1>2. a \in Int /\ b \in Int /\ a - b < Modulus /\ b - a < Modulus /\ Modulus \in Nat \ {0}
  BY Widths
<1>3. Modulus * q < Modulus /\ Modulus * (-q) < Modulus
  BY <1>1, <1>2
<1>4. q < 1 /\ -q < 1
  BY <1>2, <1>3
<1>. QED  BY <1>1, <1>2, <1>4

LEMMA WrapFits ==
  ASSUME NEW i \in Ints(W64)
  PROVE  Wrap(i) = i /\ i \in Int
<1>1. i \in Int
  BY Widths
<1>. QED  BY <1>1, WrapProperties, CongruentIsEqual

LEMMA WrapsAlike ==
  ASSUME NEW a \in Int, NEW b \in Int, Congruent(a, b)
  PROVE  Wrap(a) = Wrap(b)
<1>1. /\ Wrap(a) \in Ints(W64) /\ Wrap(b) \in Ints(W64) /\ Wrap(a) \in Int /\ Wrap(b) \in Int
      /\ Congruent(Wrap(a), a) /\ Congruent(Wrap(b), b)
  BY WrapProperties
<1>2. Congruent(Wrap(a), b) /\ Congruent(b, Wrap(b))
  BY <1>1, CongruenceProperties
<1>3. Congruent(Wrap(a), Wrap(b))
  BY <1>1, <1>2, CongruenceProperties
<1>. QED  BY <1>1, <1>3, CongruentIsEqual

-----------------------------------------------------------------------------
(* Doubles                                                                 *)

LEMMA PowerOfSum ==
  ASSUME NEW i \in Int, NEW j \in Nat, NEW k \in Nat
  PROVE  Power(i, j + k) = Power(i, j) * Power(i, k)
<1>. DEFINE T == {n \in Nat : Power(i, j + n) = Power(i, j) * Power(i, n)}
<1>1. 0 \in T
  <2>1. j + 0 = j /\ Power(i, 0) = 1 /\ Power(i, j) \in Int
    BY PowerProperties
  <2>. QED  BY <2>1
<1>2. ASSUME NEW n \in Nat, n \in T
      PROVE  n + 1 \in T
  <2>. DEFINE a == Power(i, j)
              b == Power(i, n)
  <2>1. a \in Int /\ b \in Int /\ Power(i, n + 1) = i * b
    BY PowerProperties
  <2>2. Power(i, (j + n) + 1) = i * Power(i, j + n) /\ j + (n + 1) = (j + n) + 1
    BY PowerProperties
  <2>3. Power(i, j + n) = a * b
    BY <1>2
  <2>. HIDE DEF a, b
  <2>4. i * (a * b) = a * (i * b)
    BY <2>1
  <2>5. Power(i, j + (n + 1)) = a * Power(i, n + 1)
    BY <2>1, <2>2, <2>3, <2>4
  <2>. QED  BY <2>5 DEF a
<1>3. Nat \subseteq T
  <2>. HIDE DEF T
  <2>. QED  BY <1>1, <1>2, Upwards
<1>. QED  BY <1>3

LEMMA DoubleWidths ==
  /\ Precision \in Nat \ {0} /\ Exponents \in Nat \ {0} /\ Fraction \in Nat \ {0}
  /\ Precision <= Fraction /\ Fraction <= Exponents
  /\ Power(2, Precision) \in Nat /\ Power(2, Precision) >= 2
  /\ Unit \in Nat \ {0} /\ Infinite \in Nat \ {0}
  /\ Infinite = Power(2, Precision) * Power(2, Exponents)
  /\ Power(2, W64 - 1) * Unit < Infinite
<1>1. /\ Precision \in Nat \ {0} /\ Exponents \in Nat \ {0} /\ Fraction \in Nat \ {0}
      /\ Precision <= Fraction /\ Fraction <= Exponents
      /\ W64 - 1 + Fraction < Precision + Exponents
  BY DoublesAssumption
<1>2. Power(2, Precision) \in Nat /\ Power(2, Precision) >= 2
  <2>0. Power(2, 0) = 1
    BY PowerProperties
  <2>1. Power(2, Precision) \in Nat
    BY <1>1, PowerPositive
  <2>2. 2 * Power(2, 0) <= Power(2, Precision)
    BY <1>1, PowerGrows
  <2>. QED  BY <2>0, <2>1, <2>2
<1>3. Unit \in Nat \ {0}
  BY <1>1, PowerPositive DEF Unit
<1>4. Infinite \in Nat \ {0} /\ Infinite = Power(2, Precision) * Power(2, Exponents)
  <2>1. Precision + Exponents \in Nat
    BY <1>1
  <2>2. Power(2, Precision + Exponents) \in Nat \ {0}
    BY <2>1, PowerPositive
  <2>3. Power(2, Precision + Exponents) = Power(2, Precision) * Power(2, Exponents)
    BY <1>1, PowerOfSum
  <2>. QED  BY <2>2, <2>3 DEF Infinite
<1>5. Power(2, W64 - 1) * Unit < Infinite
  <2>1. W64 - 1 \in Nat
    BY Widths
  <2>. DEFINE k == W64 - 1
              j == k + Fraction
              n == Precision + Exponents
  <2>2. k \in Nat /\ j \in Nat /\ n \in Nat /\ n > j
    BY <1>1, <2>1
  <2>3. Power(2, j) = Power(2, k) * Unit
    BY <1>1, <2>2, PowerOfSum DEF Unit
  <2>. HIDE DEF j, n
  <2>4. 2 * Power(2, j) <= Power(2, n) /\ Power(2, j) \in Nat \ {0}
    BY <2>2, PowerGrows, PowerPositive
  <2>. QED  BY <2>2, <2>3, <2>4, <1>4 DEF Infinite, n
<1>. QED  BY <1>1, <1>2, <1>3, <1>4, <1>5

LEMMA DoubleMade ==
  ASSUME NEW m \in Int, Abs(m) <= Power(2, Precision), NEW e \in 0 .. Exponents
  PROVE  m * Power(2, e) \in Doubles
<1>1. Precision - 0 = Precision /\ Exponents + 0 = Exponents
  BY DoubleWidths
<1>2. m \in -Power(2, Precision) .. Power(2, Precision)
  BY DoubleWidths DEF Abs
<1>. QED  BY <1>1, <1>2 DEF Doubles, Multiples

LEMMA DoublesProperties ==
  /\ Doubles \subseteq Int
  /\ 0 \in Doubles /\ -1 \in Doubles /\ Infinite \in Doubles /\ -Infinite \in Doubles
  /\ \A u \in Doubles : -u \in Doubles
  /\ \A i \in Int : Abs(i) <= Power(2, Precision) => i * Unit \in Doubles
<1>1. ASSUME NEW u \in Doubles
      PROVE  u \in Int /\ -u \in Doubles
  <2>0. Precision - 0 = Precision /\ Exponents + 0 = Exponents
    BY DoubleWidths
  <2>1. PICK m \in -Power(2, Precision) .. Power(2, Precision), e \in 0 .. Exponents :
          u = m * Power(2, e)
    BY <2>0 DEF Doubles, Multiples
  <2>2. m \in Int /\ Abs(-m) <= Power(2, Precision) /\ -m \in Int
    BY DoubleWidths DEF Abs
  <2>. DEFINE p == Power(2, e)
  <2>3. p \in Int
    BY PowerProperties, DoubleWidths
  <2>4. (-m) * p \in Doubles
    BY <2>2, DoubleMade
  <2>. HIDE DEF p
  <2>5. u \in Int /\ -u = (-m) * p
    BY <2>1, <2>2, <2>3 DEF p
  <2>. QED  BY <2>4, <2>5
<1>2. 0 \in Doubles /\ -1 \in Doubles
  <2>0. Power(2, 0) = 1
    BY PowerProperties
  <2>1. 0 \in 0 .. Exponents /\ Power(2, 0) = 1 /\ Abs(0) = 0 /\ Abs(-1) = 1
    <3>1. 0 \in 0 .. Exponents
      BY DoubleWidths
    <3>2. Abs(0) = 0 /\ Abs(-1) = 1
      <4>1. \A i \in Int : (i >= 0 => Abs(i) = i) /\ (i < 0 => Abs(i) = -i)
        BY DEF Abs
      <4>. QED  BY <4>1
    <3>. QED  BY <2>0, <3>1, <3>2
  <2>2. 0 * Power(2, 0) \in Doubles /\ (-1) * Power(2, 0) \in Doubles
    BY <2>1, DoubleMade, DoubleWidths
  <2>. QED  BY <2>1, <2>2
<1>3. Infinite \in Doubles
  <2>1. Exponents \in 0 .. Exponents /\ Abs(Power(2, Precision)) = Power(2, Precision)
    BY DoubleWidths DEF Abs
  <2>. QED  BY <2>1, DoubleMade, DoubleWidths
<1>4. \A i \in Int : Abs(i) <= Power(2, Precision) => i * Unit \in Doubles
  <2>1. Fraction \in 0 .. Exponents
    BY DoubleWidths
  <2>. QED  BY <2>1, DoubleMade DEF Unit
<1>. QED  BY <1>1, <1>2, <1>3, <1>4

(* A float is a NaN, or counted by a double. *)
LEMMA FloatKind ==
  ASSUME NEW f \in Floats
  PROVE  /\ IsFloat(f) /\ ~IsInt(f)
         /\ f # NaN => f.u \in Doubles /\ f.u \in Int /\ f = Float(f.u)
<1>1. CASE f = NaN
  BY <1>1 DEF NaN, IsFloat, IsInt
<1>2. CASE f # NaN
  <2>1. PICK u \in Doubles : f = Float(u)
    BY <1>2 DEF Floats
  <2>2. f.u = u
    BY <2>1 DEF Float
  <2>3. f.kind = "FLOAT"
    BY <2>1 DEF Float
  <2>. QED  BY <2>1, <2>2, <2>3, DoublesProperties DEF IsFloat, IsInt
<1>. QED  BY <1>1, <1>2

LEMMA DoubleFloat ==
  ASSUME NEW u
  PROVE  /\ Float(u).u = u /\ Float(u) # NaN /\ IsFloat(Float(u))
         /\ u \in Doubles => Float(u) \in Floats
BY DEF Float, NaN, Floats, IsFloat

LEMMA NearestExists ==
  ASSUME NEW n \in Int, NEW d \in Nat \ {0}
  PROVE  Nearest(n, d) # {}
<1>. DEFINE far(u) == Abs(n - u * d)
            T == {k \in Nat : \E u \in Doubles : k = far(u)}
<1>1. \A u \in Doubles : far(u) \in Nat
  <2>1. ASSUME NEW u \in Int
        PROVE  far(u) \in Nat
    <3>1. n - u * d \in Int
      OBVIOUS
    <3>. QED  BY <3>1 DEF Abs
  <2>. QED  BY <2>1, DoublesProperties
<1>2. T # {}
  BY <1>1, DoublesProperties
<1>3. PICK k \in T : \A j \in T : k <= j
  <2>1. T \subseteq Nat
    OBVIOUS
  <2>. HIDE DEF T
  <2>. QED  BY <1>2, <2>1, LeastNatural
<1>4. PICK u \in Doubles : k = far(u)
  BY <1>3
<1>5. \A v \in Doubles : far(u) <= far(v)
  <2>1. \A v \in Doubles : far(v) \in T
    BY <1>1
  <2>. HIDE DEF T
  <2>. QED  BY <1>3, <1>4, <2>1
<1>6. u \in Nearest(n, d)
  BY <1>5 DEF Nearest
<1>. QED  BY <1>6

LEMMA RoundedIsNearest ==
  ASSUME NEW n \in Int, NEW d \in Nat \ {0}
  PROVE  \E u \in Nearest(n, d) : Rounded(n, d) = Float(u)
<1>. DEFINE nearest == Nearest(n, d)
            chosen == CHOOSE u \in nearest : u \in EvenDoubles \/ nearest \cap EvenDoubles = {}
<1>1. nearest # {}
  BY NearestExists
<1>. HIDE DEF nearest
<1>2. \E u \in nearest : u \in EvenDoubles \/ nearest \cap EvenDoubles = {}
  BY <1>1
<1>3. chosen \in nearest
  BY <1>2
<1>4. Rounded(n, d) = Float(chosen)
  BY DEF Rounded, nearest
<1>. QED  BY <1>3, <1>4 DEF nearest

(* No double lies between a number and what it is rounded to. *)
LEMMA NearestBetween ==
  ASSUME NEW n \in Int, NEW d \in Nat \ {0}, NEW u \in Nearest(n, d), NEW v \in Doubles
  PROVE  /\ u \in Doubles /\ u \in Int /\ v \in Int
         /\ v * d <= n => v <= u
         /\ n <= v * d => u <= v
<1>1. u \in Doubles /\ Abs(n - u * d) <= Abs(n - v * d)
  BY DEF Nearest
<1>2. u \in Int /\ v \in Int
  BY <1>1, DoublesProperties
<1>. DEFINE x == u * d
            y == v * d
<1>3. x \in Int /\ y \in Int /\ Abs(n - x) <= Abs(n - y)
  BY <1>1, <1>2
<1>4. (u < v => x < y) /\ (v < u => y < x)
  BY <1>2
<1>. HIDE DEF x, y
<1>5. y <= n => v <= u
  BY <1>2, <1>3, <1>4 DEF Abs
<1>6. n <= y => u <= v
  BY <1>2, <1>3, <1>4 DEF Abs
<1>. QED  BY <1>1, <1>2, <1>5, <1>6 DEF y

LEMMA RoundedBetween ==
  ASSUME NEW n \in Int, NEW d \in Nat \ {0}
  PROVE  /\ Rounded(n, d) \in Floats /\ Rounded(n, d) # NaN
         /\ Rounded(n, d).u \in Doubles /\ Rounded(n, d).u \in Int
         /\ Rounded(n, d).u \in Nearest(n, d)
         /\ \A v \in Doubles : v * d <= n => v <= Rounded(n, d).u
         /\ \A v \in Doubles : n <= v * d => Rounded(n, d).u <= v
<1>1. PICK u \in Nearest(n, d) : Rounded(n, d) = Float(u)
  BY RoundedIsNearest
<1>2. Rounded(n, d).u = u /\ Rounded(n, d) # NaN
  BY <1>1, DoubleFloat
<1>3. u \in Doubles /\ u \in Int
  BY DoublesProperties, NearestBetween
<1>. QED  BY <1>1, <1>2, <1>3, NearestBetween, DoubleFloat

(* A double is rounded to itself. *)
LEMMA RoundedExact ==
  ASSUME NEW v \in Doubles, NEW d \in Nat \ {0}
  PROVE  Rounded(v * d, d) = Float(v)
<1>1. v \in Int /\ v * d \in Int
  BY DoublesProperties
<1>. DEFINE n == v * d
<1>2. n \in Int /\ v * d <= n /\ n <= v * d
  BY <1>1
<1>. HIDE DEF n
<1>3. Rounded(n, d).u = v
  <2>1. v <= Rounded(n, d).u /\ Rounded(n, d).u <= v /\ Rounded(n, d).u \in Int
    BY <1>2, RoundedBetween
  <2>. QED  BY <1>1, <2>1
<1>4. Rounded(n, d) = Float(Rounded(n, d).u)
  BY <1>2, RoundedBetween, FloatKind
<1>. QED  BY <1>3, <1>4 DEF n

LEMMA RoundedMonotone ==
  ASSUME NEW x \in Int, NEW y \in Int, x <= y
  PROVE  Rounded(x, 1).u <= Rounded(y, 1).u
<1>. DEFINE a == Rounded(x, 1).u
            b == Rounded(y, 1).u
<1>1. /\ a \in Doubles /\ a \in Int /\ a \in Nearest(x, 1)
      /\ b \in Doubles /\ b \in Int /\ b \in Nearest(y, 1)
  BY RoundedBetween
<1>. SUFFICES ASSUME b < a PROVE x = y
  BY <1>1
<1>. HIDE DEF a, b
<1>2. Abs(x - a * 1) <= Abs(x - b * 1) /\ Abs(y - b * 1) <= Abs(y - a * 1)
  BY <1>1 DEF Nearest
<1>. QED  BY <1>1, <1>2 DEF Abs

(* The conversion of 64-bit integers: monotone, and exact for those of no  *)
(* more bits than a double.                                                *)
LEMMA Conversion ==
  ASSUME NEW i \in Ints(W64)
  PROVE  /\ i \in Int
         /\ Converted[i] = Rounded(i * Unit, 1)
         /\ Converted[i] \in Floats /\ Converted[i] # NaN
         /\ Converted[i].u \in Int /\ Converted[i].u \in Doubles
         /\ Abs(i) <= Power(2, Precision) => Converted[i] = Float(i * Unit)
         /\ \A j \in Ints(W64) : i <= j => Converted[i].u <= Converted[j].u
<1>1. \A j \in Ints(W64) : /\ j \in Int /\ j * Unit \in Int
                           /\ Converted[j] = Rounded(j * Unit, 1)
  BY WrapFits, DoubleWidths DEF Converted
<1>2. /\ Converted[i] \in Floats /\ Converted[i] # NaN
      /\ Converted[i].u \in Int /\ Converted[i].u \in Doubles
  BY <1>1, RoundedBetween
<1>3. ASSUME Abs(i) <= Power(2, Precision)
      PROVE  Converted[i] = Float(i * Unit)
  <2>. DEFINE v == i * Unit
  <2>1. v \in Doubles /\ v * 1 = v
    BY <1>1, <1>3, DoublesProperties
  <2>2. Rounded(v * 1, 1) = Float(v)
    <3>. HIDE DEF v
    <3>. QED  BY <2>1, RoundedExact
  <2>. QED  BY <1>1, <2>1, <2>2
<1>4. ASSUME NEW j \in Ints(W64), i <= j
      PROVE  Converted[i].u <= Converted[j].u
  <2>1. i * Unit <= j * Unit
    <3>1. Unit * i <= Unit * j
      BY <1>1, <1>4, DoubleWidths, Cancelled
    <3>. QED  BY <1>1, <3>1, DoubleWidths
  <2>. QED  BY <1>1, <2>1, RoundedMonotone
<1>. QED  BY <1>1, <1>2, <1>3, <1>4

(* What is computed from two floats is a float. *)
LEMMA FloatOperations ==
  ASSUME NEW a \in Floats, NEW b \in Floats
  PROVE  /\ FloatNegated(a) \in Floats
         /\ FloatSum(a, b) \in Floats
         /\ FloatProduct(a, b) \in Floats
         /\ FloatQuotient(a, b) \in Floats
         /\ fmod(a, b) \in Floats
         /\ floor(a) \in Floats
<1>1. NaN \in Floats /\ Float(0) \in Floats /\ \A s : Infinity(s) \in Floats
  BY DoublesProperties, DoubleFloat DEF Infinity, Floats
<1>2. /\ a # NaN => a.u \in Int /\ a.u \in Doubles
      /\ b # NaN => b.u \in Int /\ b.u \in Doubles
  BY FloatKind
<1>3. FloatNegated(a) \in Floats
  BY <1>1, <1>2, DoublesProperties, DoubleFloat DEF FloatNegated
<1>4. FloatSum(a, b) \in Floats
  <2>1. a # NaN /\ b # NaN => Rounded(a.u + b.u, 1) \in Floats
    BY <1>2, RoundedBetween
  <2>. QED  BY <1>1, <2>1 DEF FloatSum
<1>5. FloatProduct(a, b) \in Floats
  <2>1. a # NaN /\ b # NaN => a.u * b.u \in Int
    BY <1>2
  <2>2. a # NaN /\ b # NaN => Rounded(a.u * b.u, Unit) \in Floats
    BY <2>1, RoundedBetween, DoubleWidths
  <2>. QED  BY <1>1, <2>2 DEF FloatProduct
<1>6. FloatQuotient(a, b) \in Floats
  <2>1. a # NaN /\ b # NaN => Signum(b.u) * a.u * Unit \in Int /\ (b.u # 0 => Abs(b.u) \in Nat \ {0})
    <3>1. b # NaN => Signum(b.u) \in Int /\ (b.u # 0 => Abs(b.u) \in Nat \ {0})
      BY <1>2 DEF Signum, Abs
    <3>. QED  BY <1>2, <3>1, DoubleWidths
  <2>2. a # NaN /\ b # NaN /\ b.u # 0 => Rounded(Signum(b.u) * a.u * Unit, Abs(b.u)) \in Floats
    BY <2>1, RoundedBetween
  <2>. QED  BY <1>1, <2>2 DEF FloatQuotient
<1>7. fmod(a, b) \in Floats
  <2>1. a # NaN /\ b # NaN /\ b.u # 0 => TruncMod(a.u, b.u) \in Int
    BY <1>2, TruncDivProperties
  <2>2. a # NaN /\ b # NaN /\ b.u # 0 => Rounded(TruncMod(a.u, b.u), 1) \in Floats
    BY <2>1, RoundedBetween
  <2>. QED  BY <1>1, <2>2 DEF fmod
<1>8. floor(a) \in Floats
  <2>1. a # NaN => (a.u \div Unit) * Unit \in Int
    BY <1>2, DoubleWidths
  <2>2. a # NaN => Rounded((a.u \div Unit) * Unit, 1) \in Floats
    BY <2>1, RoundedBetween
  <2>. QED  BY <2>2 DEF floor
<1>. QED  BY <1>3, <1>4, <1>5, <1>6, <1>7, <1>8

(* A double that lies below t and is nearer to n / d than t: a mantissa of *)
(* one less, where t has as many bits as fit.                              *)
LEMMA MantissaBelow ==
  ASSUME NEW t \in Int, Abs(t) <= Power(2, Precision), t # -Power(2, Precision)
  PROVE  \E s \in 0 .. Precision :
           /\ (t * Power(2, s) - 1) * Power(2, Fraction - s) \in Doubles
           /\ t > 0 => Power(2, s + 1) * t >= Power(2, Precision) + 2
           /\ t < 0 => Power(2, s + 1) * (-t) >= Power(2, Precision)
<1>. DEFINE top == Power(2, Precision)
            P(k) == Power(2, k)
            fits(k) == Abs(t * P(k) - 1) <= top
            S == {k \in 0 .. Precision : fits(k)}
<1>1. top \in Nat /\ top >= 2 /\ Precision \in Nat \ {0}
  BY DoubleWidths
<1>2. P(0) = 1 /\ \A k \in Nat : P(k) \in Nat \ {0} /\ P(k + 1) = 2 * P(k)
  <2>1. P(0) = 1
    BY PowerProperties
  <2>2. ASSUME NEW k \in Nat
        PROVE  P(k) \in Nat \ {0} /\ P(k + 1) = 2 * P(k)
    <3>1. P(k) \in Nat \ {0}
      BY PowerPositive
    <3>2. P(k + 1) = 2 * P(k)
      BY PowerProperties
    <3>. QED  BY <3>1, <3>2
  <2>. QED  BY <2>1, <2>2
<1>. HIDE DEF top, P
<1>3. 0 \in S
  <2>1. t * P(0) - 1 = t - 1
    BY <1>2
  <2>2. Abs(t - 1) <= top
    BY <1>1 DEF Abs, top
  <2>. QED  BY <1>1, <2>1, <2>2
<1>4. PICK s \in S : \A k \in S : k <= s
  <2>1. S \subseteq Nat /\ \A k \in S : k <= Precision
    BY <1>1
  <2>. HIDE DEF S
  <2>. QED  BY <1>1, <1>3, <2>1, GreatestNatural
<1>5. s \in 0 .. Precision /\ s \in Nat /\ P(s) \in Nat \ {0} /\ P(s + 1) = 2 * P(s)
  BY <1>1, <1>2
<1>6. (t * P(s) - 1) * P(Fraction - s) \in Doubles
  <2>1. Fraction - s \in 0 .. Exponents
    BY <1>1, <1>5, DoubleWidths
  <2>2. t * P(s) - 1 \in Int
    BY <1>5
  <2>. QED  BY <2>1, <2>2, <1>4, DoubleMade DEF top, P
<1>7. CASE s = Precision
  <2>1. P(s + 1) = 2 * top
    BY <1>5, <1>7 DEF P, top
  <2>2. t > 0 => (2 * top) * t >= 2 * top
    BY <1>1
  <2>3. t < 0 => (2 * top) * (-t) >= 2 * top
    BY <1>1
  <2>. QED  BY <1>1, <1>5, <1>6, <2>1, <2>2, <2>3 DEF top, P
<1>8. CASE s # Precision
  <2>1. s + 1 \in 0 .. Precision /\ ~(s + 1 <= s)
    BY <1>1, <1>5, <1>8
  <2>2. ~fits(s + 1)
    <3>1. s + 1 \notin S
      BY <1>4, <2>1
    <3>. QED  BY <2>1, <3>1
  <2>. DEFINE x == t * P(s)
  <2>3. x \in Int /\ t * P(s + 1) = 2 * x /\ P(s + 1) * t = 2 * x /\ P(s + 1) * (-t) = -(2 * x)
    BY <1>5
  <2>4. (t > 0 => x > 0) /\ (t < 0 => x < 0)
    BY <1>5
  <2>. HIDE DEF x
  <2>5. Abs(2 * x - 1) > top
    BY <1>1, <2>2, <2>3 DEF Abs
  <2>6. \E h \in Int : top = 2 * h
    <3>1. Precision - 1 \in Nat /\ (Precision - 1) + 1 = Precision
      BY <1>1
    <3>2. top = 2 * P(Precision - 1) /\ P(Precision - 1) \in Int
      BY <1>2, <3>1 DEF top, P
    <3>. QED  BY <3>2
  <2>7. t > 0 => 2 * x >= top + 2
    BY <1>1, <2>3, <2>4, <2>5, <2>6 DEF Abs
  <2>8. t < 0 => -(2 * x) >= top
    BY <1>1, <2>3, <2>4, <2>5, <2>6 DEF Abs
  <2>. QED  BY <1>5, <1>6, <2>3, <2>7, <2>8 DEF top, P
<1>. QED  BY <1>7, <1>8

(* The quotient of two integers that are doubles, rounded to a double, is  *)
(* on no other side of an integer than the exact one.                      *)
LEMMA QuotientRoundsWithin ==
  ASSUME NEW n \in Int, NEW k \in Nat \ {0}, NEW t \in Int,
         Abs(n) <= Power(2, Precision), k <= Power(2, Precision),
         (t - 1) * k <= n, n < t * k,
         NEW u \in Nearest(n * Unit * Unit, k * Unit)
  PROVE  u \in Int /\ (t - 1) * Unit <= u /\ u < t * Unit
<1>. DEFINE top == Power(2, Precision)
            N == n * Unit * Unit
            D == k * Unit
            q == t - 1
            d == t * k - n
<1>1. /\ top \in Nat /\ top >= 2 /\ Unit \in Nat \ {0} /\ top <= Unit
      /\ n <= top /\ -top <= n /\ k <= top
  <2>1. Precision < Fraction => 2 * Power(2, Precision) <= Power(2, Fraction)
    BY DoubleWidths, PowerGrows
  <2>2. Precision = Fraction => top = Unit
    BY DEF Unit
  <2>. QED  BY <2>1, <2>2, DoubleWidths DEF Abs, Unit
<1>. DEFINE U == Unit
<1>2. N \in Int /\ D \in Nat \ {0} /\ N = n * (U * U) /\ q \in Int /\ d \in Nat \ {0} /\ t * k = n + d
  <2>1. N \in Int /\ D \in Nat \ {0} /\ N = n * (U * U)
    BY <1>1
  <2>. QED  BY <2>1
<1>3. q * k <= n /\ q * k = t * k - k
  OBVIOUS
<1>. HIDE DEF top
<1>4. -top <= q /\ q <= top /\ (q * k < n => t <= top) /\ t > -top
  <2>1. q > 0 => q * k >= q
    BY <1>2
  <2>2. t < 0 => t * k <= t
    OBVIOUS
  <2>3. q = top /\ q * k < n => FALSE
    BY <1>1, <1>2, <2>1
  <2>. QED  BY <1>1, <1>2, <1>3, <2>1, <2>2, <2>3
<1>5. q * U \in Doubles
  BY <1>1, <1>2, <1>4, DoublesProperties DEF Abs, top
<1>6. u \in Nearest(N, D)
  OBVIOUS
<1>. HIDE DEF N, D, q, U, d
<1>7. u \in Int
  BY <1>2, <1>5, <1>6, NearestBetween
<1>8. U \in Nat \ {0} /\ U * U \in Nat \ {0} /\ D = k * U
  <2>1. U \in Nat \ {0}
    BY <1>1 DEF U
  <2>. QED  BY <2>1 DEF D, U
<1>9. \A x \in Int : (x * U) * D = (x * k) * (U * U)
  BY <1>8
<1>10. q * U <= u
  <2>1. (q * k) * (U * U) <= n * (U * U)
    <3>1. (U * U) * (q * k) <= (U * U) * n /\ q * k \in Int
      <4>1. q * k \in Int
        BY <1>2
      <4>. QED  BY <1>3, <1>8, <4>1, Cancelled
    <3>. QED  BY <1>8, <3>1
  <2>2. (q * U) * D <= N
    BY <1>2, <1>9, <2>1
  <2>. QED  BY <1>2, <1>5, <1>6, <2>2, NearestBetween
<1>11. u < t * U
  <2>1. q * U < t * U
    <3>1. U * q < U * t
      BY <1>2, <1>8, Cancelled DEF q
    <3>. QED  BY <1>2, <1>8, <3>1
  <2>2. CASE q * k = n
    <3>1. N <= (q * U) * D
      BY <1>2, <1>9, <2>2
    <3>2. u <= q * U
      BY <1>2, <1>5, <1>6, <3>1, NearestBetween
    <3>. QED  BY <1>2, <1>7, <1>8, <2>1, <3>2
  <2>3. CASE q * k < n
    <3>1. Abs(t) <= top /\ t # -top
      BY <1>1, <1>4, <2>3 DEF Abs
    <3>2. t * U \in Doubles
      BY <3>1, DoublesProperties DEF top, U
    <3>3. (t * U) * D = N + d * (U * U)
      <4>1. (t * U) * D = (n + d) * (U * U)
        BY <1>2, <1>9
      <4>. QED  BY <1>2, <1>8, <4>1
    <3>4. u <= t * U
      <4>1. d * (U * U) >= 0
        BY <1>2, <1>8
      <4>2. N <= (t * U) * D
        BY <1>2, <1>8, <3>3, <4>1
      <4>. QED  BY <1>2, <1>6, <3>2, <4>2, NearestBetween
    <3>. SUFFICES ASSUME u = t * U PROVE FALSE
      BY <1>7, <1>8, <3>4
    (* No other double is nearer than t. *)
    <3>5. ASSUME NEW v \in Doubles
          PROVE  d * (U * U) <= Abs(N - v * D) /\ v \in Int
      <4>1. Abs(N - (t * U) * D) <= Abs(N - v * D) /\ v \in Int
        BY <1>6, DoublesProperties DEF Nearest
      <4>. DEFINE e == d * (U * U)
      <4>2. e \in Nat
        BY <1>2, <1>8
      <4>3. N - (t * U) * D = -e
        BY <1>2, <3>3, <4>2
      <4>. HIDE DEF e
      <4>4. Abs(N - (t * U) * D) = e
        BY <4>2, <4>3 DEF Abs
      <4>. QED  BY <4>1, <4>4 DEF e
    <3>6. CASE t = 0
      <4>1. d * (U * U) <= Abs(N + D)
        <5>1. d * (U * U) <= Abs(N - (-1) * D)
          BY <3>5, DoublesProperties
        <5>2. N - (-1) * D = N + D
          BY <1>2
        <5>. QED  BY <5>1, <5>2
      <4>. DEFINE e == d * U
      <4>2. e \in Nat /\ k <= e /\ d * (U * U) = U * e
        <5>1. d * U >= U /\ d * (U * U) = U * (d * U) /\ d * U \in Nat
          BY <1>2, <1>8
        <5>. QED  BY <1>1, <5>1 DEF U
      <4>3. N + D = U * (k - e)
        <5>1. N = -(U * e)
          BY <1>2, <1>8, <3>3, <3>6, <4>2
        <5>. HIDE DEF e
        <5>2. U * (k - e) = k * U - (U * e)
          BY <1>8, <4>2
        <5>3. U * e \in Int
          BY <1>8, <4>2
        <5>. QED  BY <1>2, <1>8, <5>1, <5>2, <5>3
      <4>. HIDE DEF e
      <4>4. Abs(N + D) = U * (e - k)
        <5>1. U * (e - k) \in Nat /\ U * (k - e) = -(U * (e - k))
          BY <1>8, <4>2
        <5>. QED  BY <4>3, <5>1 DEF Abs
      <4>5. U * e <= U * (e - k)
        BY <4>1, <4>2, <4>4
      <4>6. e <= e - k
        BY <1>8, <4>2, <4>5, Cancelled
      <4>. QED  BY <4>2, <4>6
    <3>7. CASE t # 0
      <4>1. PICK s \in 0 .. Precision :
              /\ (t * Power(2, s) - 1) * Power(2, Fraction - s) \in Doubles
              /\ t > 0 => Power(2, s + 1) * t >= Power(2, Precision) + 2
              /\ t < 0 => Power(2, s + 1) * (-t) >= Power(2, Precision)
        BY <3>1, MantissaBelow DEF top
      <4>. DEFINE p == Power(2, s)
                  G == Power(2, Fraction - s)
                  v == (t * p - 1) * G
      <4>2. p \in Nat \ {0} /\ G \in Nat \ {0} /\ U = p * G /\ Power(2, s + 1) = 2 * p
        <5>1. s \in Nat /\ Fraction - s \in Nat /\ s + (Fraction - s) = Fraction
          BY <4>1, DoubleWidths
        <5>2. p \in Nat \ {0}
          BY <5>1, PowerPositive
        <5>3. G \in Nat \ {0}
          BY <5>1, PowerPositive
        <5>4. U = p * G
          BY <5>1, PowerOfSum DEF U, Unit
        <5>5. Power(2, s + 1) = 2 * p
          BY <5>1, PowerProperties
        <5>. QED  BY <5>2, <5>3, <5>4, <5>5
      <4>3. v \in Doubles
        BY <4>1
      <4>4. (t > 0 => (2 * p) * t >= top + 2) /\ (t < 0 => (2 * p) * (-t) >= top)
        BY <4>1, <4>2 DEF top
      <4>. HIDE DEF p, G
      <4>5. v = t * U - G
        BY <4>2
      <4>6. d * (U * U) <= Abs(N - v * D)
        BY <3>5, <4>3
      <4>. HIDE DEF v
      <4>. DEFINE c == U * G
                  f == p * d
      <4>7. c \in Nat \ {0} /\ f \in Nat \ {0}
        BY <1>2, <1>8, <4>2
      <4>8. d * (U * U) = c * f
        BY <1>2, <1>8, <4>2
      <4>9. N - v * D = c * (k - f)
        <5>1. v * D = (t * U) * D - G * D
          BY <1>2, <1>8, <4>2, <4>5
        <5>2. G * D = c * k
          BY <1>8, <4>2
        <5>3. c * f \in Int /\ c * k \in Int /\ c * (k - f) = c * k - c * f
          BY <4>7
        <5>. HIDE DEF c, f
        <5>4. (t * U) * D = N + c * f
          BY <3>3, <4>8
        <5>5. v * D = N + c * f - c * k
          BY <1>2, <5>1, <5>2, <5>3, <5>4
        <5>. QED  BY <1>2, <5>3, <5>5
      <4>. HIDE DEF c
      <4>10. f <= Abs(k - f)
        <5>. DEFINE g == k - f
        <5>1. g \in Int /\ f \in Nat
          BY <4>7
        <5>2. Abs(c * g) = c * Abs(g)
          <6>. HIDE DEF g
          <6>1. (g >= 0 => c * g >= 0) /\ (g < 0 => c * g < 0) /\ c * (-g) = -(c * g)
            BY <4>7, <5>1
          <6>. QED  BY <4>7, <5>1, <6>1 DEF Abs
        <5>3. Abs(g) \in Int
          BY <5>1 DEF Abs
        <5>4. c * f <= c * Abs(g)
          BY <4>6, <4>8, <4>9, <5>2
        <5>. HIDE DEF f, g
        <5>5. f <= Abs(g)
          BY <4>7, <5>1, <5>3, <5>4, Cancelled
        <5>. QED  BY <5>5 DEF g
      <4>11. k >= 2 * f
        BY <4>7, <4>10 DEF Abs
      <4>12. CASE t > 0
        <5>1. t * k >= t * (2 * f)
          BY <4>7, <4>11, <4>12
        <5>2. t * (2 * f) = ((2 * p) * t) * d
          BY <1>2, <4>2
        <5>3. ((2 * p) * t) * d >= (top + 2) * d
          BY <1>1, <1>2, <4>2, <4>4, <4>12
        <5>4. (top + 2) * d >= top + 2 * d
          BY <1>1, <1>2
        <5>. HIDE DEF f
        <5>5. t * k \in Int /\ t * (2 * f) \in Int /\ ((2 * p) * t) * d \in Int /\ (top + 2) * d \in Int
          BY <1>1, <1>2, <4>2, <4>7
        <5>. QED  BY <1>1, <1>2, <5>1, <5>2, <5>3, <5>4, <5>5
      <4>13. CASE t < 0
        <5>. DEFINE w == -t
        <5>0. w \in Nat \ {0} /\ w * k = -(t * k) /\ (2 * p) * w >= top
          BY <4>4, <4>13
        <5>. HIDE DEF w
        <5>1. w * k >= w * (2 * f)
          BY <4>7, <4>11, <5>0
        <5>2. w * (2 * f) = ((2 * p) * w) * d
          BY <1>2, <4>2, <5>0
        <5>3. ((2 * p) * w) * d >= top * d
          BY <1>1, <1>2, <4>2, <5>0
        <5>4. top * d >= top
          BY <1>1, <1>2
        <5>. HIDE DEF f
        <5>5. w * k \in Int /\ w * (2 * f) \in Int /\ ((2 * p) * w) * d \in Int /\ top * d \in Int
          BY <1>1, <1>2, <4>2, <4>7, <5>0
        <5>. QED  BY <1>1, <1>2, <5>0, <5>1, <5>2, <5>3, <5>4, <5>5
      <4>. QED  BY <3>7, <4>12, <4>13
    <3>. QED  BY <3>6, <3>7
  <2>. QED  BY <1>2, <1>3, <2>2, <2>3
<1>. QED  BY <1>7, <1>10, <1>11 DEF q, U

-----------------------------------------------------------------------------
(* The operators on numbers                                                *)

LEMMA KindsOfNumbers ==
  /\ \A l : IsInt(l) => /\ ~IsFloat(l) /\ ds_is_boxed(l) /\ l # NULL
                        /\ unbox_float(l) = Converted[l.i] /\ unbox_i64(l) = {l.i}
  /\ \A f : IsFloat(f) => /\ ~IsInt(f) /\ ds_is_boxed(f) /\ f # NULL
                          /\ unbox_float(f) = f
BY DEF ds_is_boxed, IsInt, IsFloat, unbox_float, unbox_i64, NULL

LEMMA PairsOfNumbers ==
  ASSUME NEW l, NEW r
  PROVE  /\ IsInt(l) \/ IsFloat(l) => ~BothUnboxed(l, r) /\ ~BothUnboxed(r, l)
         /\ IsInt(l) /\ IsInt(r) => BothInts(l, r) /\ ~OneFloat(l, r)
         /\ IsInt(l) /\ IsFloat(r) => ~BothInts(l, r) /\ OneFloat(l, r)
         /\ IsFloat(l) /\ IsInt(r) => ~BothInts(l, r) /\ OneFloat(l, r)
         /\ IsFloat(l) /\ IsFloat(r) => ~BothInts(l, r) /\ OneFloat(l, r)
BY KindsOfNumbers DEF BothInts, OneFloat, BothBoxed, BothUnboxed

(* A boolean in a box is the boolean. *)
LEMMA TruthBoxed ==
  ASSUME NEW P \in BOOLEAN
  PROVE  (Holds(Bool(P)) <=> P) /\ (is_truthy(Bool(P)) <=> P)
BY DEF Holds, Bool, is_truthy

(* Division by a unit on both sides changes nothing but the rest. *)
LEMMA TruncModOfUnits ==
  ASSUME NEW a \in Int, NEW b \in Int, b # 0, NEW k \in Nat \ {0}
  PROVE  TruncMod(a * k, b * k) = TruncMod(a, b) * k
<1>. DEFINE x == Abs(a)
            y == Abs(b)
            q == x \div y
            m == x % y
<1>1. x \in Nat /\ y \in Nat \ {0}
  BY DEF Abs
<1>2. q \in Nat /\ m \in 0 .. y - 1 /\ x = y * q + m
  <2>. HIDE DEF x, y
  <2>. QED  BY <1>1
<1>3. /\ Signum(a * k) = Signum(a) /\ Signum(b * k) = Signum(b)
      /\ Abs(a * k) = x * k /\ Abs(b * k) = y * k
      /\ Signum(a) \in {-1, 0, 1} /\ Signum(b) \in {-1, 0, 1}
  <2>1. ASSUME NEW i \in Int
        PROVE  Signum(i * k) = Signum(i) /\ Abs(i * k) = Abs(i) * k /\ Signum(i) \in {-1, 0, 1}
    <3>1. (i < 0 => i * k < 0) /\ (i > 0 => i * k > 0) /\ (i = 0 => i * k = 0)
          /\ -(i * k) = (-i) * k /\ i * k \in Int
      OBVIOUS
    <3>. QED  BY <3>1 DEF Signum, Abs
  <2>. QED  BY <2>1
<1>. HIDE DEF x, y
<1>4. (x * k) \div (y * k) = q
  <2>. DEFINE X == x * k
              Y == y * k
              Q == X \div Y
  <2>1. X \in Nat /\ Y \in Nat \ {0}
    BY <1>1
  <2>2. Q \in Int /\ X % Y \in 0 .. Y - 1 /\ X = Y * Q + (X % Y)
    <3>. HIDE DEF X, Y
    <3>. QED  BY <2>1
  <2>3. Y * (Q + 1) = Y * Q + Y
    <3>. HIDE DEF X, Y, Q
    <3>. QED  BY <2>1, <2>2
  <2>4. Y * Q <= X /\ X < Y * (Q + 1)
    <3>. HIDE DEF X, Y, Q
    <3>. QED  BY <2>1, <2>2, <2>3
  <2>. HIDE DEF Q, q, m
  <2>5. k * (y * Q) <= k * x /\ k * x < k * (y * (Q + 1))
    <3>1. Y * Q = k * (y * Q) /\ X = k * x /\ Y * (Q + 1) = k * (y * (Q + 1))
      BY <1>1, <2>2
    <3>. QED  BY <2>4, <3>1
  <2>6. y * Q <= x /\ x < y * (Q + 1)
    <3>1. y * Q \in Int /\ y * (Q + 1) \in Int
      BY <1>1, <2>2
    <3>. QED  BY <1>1, <2>5, <3>1, Cancelled
  <2>7. y * q <= x /\ x < y * (q + 1)
    <3>1. y * (q + 1) = y * q + y
      BY <1>1, <1>2
    <3>. QED  BY <1>1, <1>2, <3>1
  <2>8. y * Q < y * (q + 1) /\ y * q < y * (Q + 1)
    <3>1. y * Q \in Int /\ y * (Q + 1) \in Int /\ y * q \in Int /\ y * (q + 1) \in Int
      BY <1>1, <1>2, <2>2
    <3>. QED  BY <1>1, <2>6, <2>7, <3>1
  <2>9. Q < q + 1 /\ q < Q + 1
    BY <1>1, <1>2, <2>2, <2>8, Cancelled
  <2>. QED  BY <1>2, <2>2, <2>9 DEF Q
<1>5. TruncDiv(a * k, b * k) = TruncDiv(a, b)
  BY <1>3, <1>4 DEF TruncDiv, x, y
<1>6. TruncDiv(a, b) \in Int
  BY TruncDivProperties
<1>7. TruncMod(a * k, b * k) = a * k - (b * k) * TruncDiv(a, b)
  BY <1>5 DEF TruncMod
<1>. DEFINE d == TruncDiv(a, b)
<1>8. a * k - (b * k) * d = (a - b * d) * k
  <2>1. d \in Int
    BY <1>6
  <2>. HIDE DEF d
  <2>. QED  BY <2>1
<1>. QED  BY <1>7, <1>8 DEF TruncMod

LEMMA FloorIsUnique ==
  ASSUME NEW a \in Int, NEW b \in Nat \ {0}
  PROVE  ds_int_floor_div(a, b) = a \div b
<1>. DEFINE f == ds_int_floor_div(a, b)
            q == a \div b
<1>1. f \in Int
  BY TruncDivProperties DEF ds_int_floor_div
<1>2. f * b <= a /\ a < (f + 1) * b
  BY FloorDivisionRoundsDown
<1>3. q \in Int /\ b * q <= a /\ a < b * (q + 1)
  <2>1. q \in Int /\ a % b \in 0 .. b - 1 /\ a = b * q + (a % b)
    OBVIOUS
  <2>2. b * (q + 1) = b * q + b
    BY <2>1
  <2>. HIDE DEF q
  <2>. QED  BY <2>1, <2>2
<1>. HIDE DEF f, q
<1>4. b * f < b * (q + 1) /\ b * q < b * (f + 1)
  <2>1. f * b = b * f /\ (f + 1) * b = b * (f + 1) /\ b * (f + 1) \in Int /\ b * (q + 1) \in Int
        /\ b * f \in Int /\ b * q \in Int
    BY <1>1, <1>3
  <2>. QED  BY <1>2, <1>3, <2>1
<1>5. f < q + 1 /\ q < f + 1
  BY <1>1, <1>3, <1>4, Cancelled
<1>. QED  BY <1>1, <1>3, <1>5 DEF f, q

(* The division that rounds down changes neither with the unit nor with    *)
(* the rounding of the quotient.                                           *)
LEMMA FloorOfUnits ==
  ASSUME NEW u \in Int, NEW q \in Int, NEW k \in Nat \ {0}, q * k <= u, u < (q + 1) * k
  PROVE  u \div k = q
<1>. DEFINE Q == u \div k
<1>1. Q \in Int /\ u % k \in 0 .. k - 1 /\ u = k * Q + (u % k)
  OBVIOUS
<1>2. k * Q <= u /\ u < k * (Q + 1)
  <2>1. k * (Q + 1) = k * Q + k
    BY <1>1
  <2>. HIDE DEF Q
  <2>. QED  BY <1>1, <2>1
<1>. HIDE DEF Q
<1>3. k * Q < k * (q + 1) /\ k * q < k * (Q + 1)
  <2>1. q * k = k * q /\ (q + 1) * k = k * (q + 1) /\ k * q \in Int /\ k * (q + 1) \in Int
        /\ k * Q \in Int /\ k * (Q + 1) \in Int
    BY <1>1
  <2>. QED  BY <1>2, <2>1
<1>4. Q < q + 1 /\ q < Q + 1
  BY <1>1, <1>3, Cancelled
<1>. QED  BY <1>1, <1>4 DEF Q

(* The quotient and the remainder of 64-bit integers have 64 bits, unless  *)
(* the least integer is divided by -1.                                     *)
LEMMA DivisionFits ==
  ASSUME NEW a \in Ints(W64), NEW b \in Ints(W64), b # 0, ~Overflows(a, b)
  PROVE  TruncMod(a, b) \in Ints(W64) /\ ds_int_floor_div(a, b) \in Ints(W64)
<1>. DEFINE f == ds_int_floor_div(a, b)
            m == TruncMod(a, b)
            top == Greatest(W64)
<1>0. /\ a \in Int /\ b \in Int /\ top \in Nat /\ INT64_MIN = -top - 1 /\ INT64_MIN \in Int
      /\ Ints(W64) = INT64_MIN .. top
  <2>1. INT64_MIN = -top - 1
    BY Widths
  <2>. QED  BY <2>1, WrapFits, Widths
<1>1. m \in Int /\ Abs(m) < Abs(b)
  BY <1>0, TruncDivProperties
<1>2. f \in Int
  <2>1. TruncDiv(a, b) \in Int
    BY <1>0, TruncDivProperties
  <2>. QED  BY <2>1 DEF ds_int_floor_div
<1>3. IF b > 0 THEN f * b <= a /\ a < (f + 1) * b ELSE f * b >= a /\ a > (f + 1) * b
  BY <1>0, FloorDivisionRoundsDown
<1>. HIDE DEF f, m, top
<1>4. m \in Ints(W64)
  BY <1>0, <1>1 DEF Abs
<1>5. CASE b > 0
  <2>1. f * b <= a /\ a < (f + 1) * b
    BY <1>3, <1>5
  <2>2. f <= top
    <3>. SUFFICES ASSUME f >= top + 1 PROVE FALSE
      BY <1>0, <1>2
    <3>1. f * b >= f
      BY <1>0, <1>2, <1>5
    <3>. QED  BY <1>0, <1>2, <2>1, <3>1
  <2>3. f >= -top - 1
    <3>. SUFFICES ASSUME f + 1 <= -top - 1 PROVE FALSE
      BY <1>0, <1>2
    <3>1. (f + 1) * b <= f + 1
      BY <1>0, <1>2, <1>5
    <3>. QED  BY <1>0, <1>2, <2>1, <3>1
  <2>. QED  BY <1>0, <1>2, <1>4, <2>2, <2>3 DEF f, m
<1>6. CASE b < 0
  <2>. DEFINE c == -b
              g == -f
  <2>0. c \in Nat \ {0} /\ g \in Int /\ b = -c /\ f = -g
    BY <1>0, <1>2, <1>6
  <2>1. g * c >= a /\ a > (g - 1) * c
    <3>1. f * b >= a /\ a > (f + 1) * b
      BY <1>0, <1>3, <1>6
    <3>2. f * b = g * c /\ (f + 1) * b = (g - 1) * c
      BY <1>0, <1>2
    <3>. QED  BY <3>1, <3>2
  <2>. HIDE DEF c, g
  <2>2. g <= top + 1
    <3>. SUFFICES ASSUME g - 1 >= top + 1 PROVE FALSE
      BY <1>0, <2>0
    <3>1. (g - 1) * c >= g - 1
      BY <1>0, <2>0
    <3>. QED  BY <1>0, <2>0, <2>1, <3>1
  <2>3. g >= -top
    <3>. SUFFICES ASSUME g <= -top - 1 PROVE FALSE
      BY <1>0, <2>0
    <3>1. CASE c = 1
      <4>1. a = -top - 1
        BY <1>0, <2>0, <2>1, <3>1
      <4>. QED  BY <1>0, <2>0, <3>1, <4>1 DEF Overflows
    <3>2. CASE c >= 2
      <4>1. g * c <= 2 * g
        BY <1>0, <2>0, <3>2
      <4>. QED  BY <1>0, <2>0, <2>1, <4>1
    <3>. QED  BY <2>0, <3>1, <3>2
  <2>. QED  BY <1>0, <1>2, <1>4, <2>0, <2>2, <2>3 DEF f, m
<1>. QED  BY <1>0, <1>5, <1>6

(* An integer is never converted to an infinity. *)
LEMMA IntegersAreFinite ==
  ASSUME NEW i \in Int, -Power(2, W64 - 1) <= i, i <= Power(2, W64 - 1)
  PROVE  i * Unit \in Int /\ i * Unit < Infinite /\ -Infinite < i * Unit
<1>. DEFINE h == Power(2, W64 - 1)
<1>1. h \in Nat /\ Unit \in Nat \ {0} /\ Infinite \in Nat /\ h * Unit < Infinite
  BY Widths, DoubleWidths
<1>. HIDE DEF h
<1>2. -h <= i /\ i <= h
  BY DEF h
<1>3. Unit * (-h) <= Unit * i /\ Unit * i <= Unit * h
  BY <1>1, <1>2, Cancelled
<1>. QED  BY <1>1, <1>3

(* Two integers that are doubles too, divided as integers and as doubles.  *)
LEMMA ExactDivision ==
  ASSUME NEW l, NEW r, IsInt(l), IsInt(r), l.i \in Ints(W64), r.i \in Ints(W64), r.i # 0,
         Exact(l), Exact(r), ~Overflows(l.i, r.i)
  PROVE  /\ floor_div(l, unbox_float(r)) = Converted[ds_int_floor_div(l.i, r.i)]
         /\ mod(unbox_float(l), r) = Converted[TruncMod(l.i, r.i)]
<1>. DEFINE a == l.i
            b == r.i
            q == ds_int_floor_div(a, b)
            m == TruncMod(a, b)
            fa == Float(a * Unit)
            fb == Float(b * Unit)
<1>1. /\ a \in Int /\ b \in Int /\ b # 0 /\ Unit \in Nat \ {0}
      /\ Abs(a) <= Power(2, Precision) /\ Abs(b) <= Power(2, Precision)
      /\ Power(2, Precision) \in Nat
  BY WrapFits, DoubleWidths DEF Exact, Abs
<1>2. unbox_float(l) = fa /\ unbox_float(r) = fb
  BY <1>1, KindsOfNumbers, Conversion
<1>3. m \in Ints(W64) /\ q \in Ints(W64) /\ m \in Int /\ q \in Int
  BY <1>1, DivisionFits, WrapFits
<1>4. /\ fa.u = a * Unit /\ fb.u = b * Unit /\ fa # NaN /\ fb # NaN
      /\ IsFloat(fa) /\ IsFloat(fb)
  BY DoubleFloat
<1>5. /\ a * Unit \in Int /\ b * Unit \in Int /\ b * Unit # 0
      /\ ~IsInfinite(fa) /\ ~IsInfinite(fb) /\ fb # Float(0)
  <2>1. /\ -Power(2, W64 - 1) <= a /\ a <= Power(2, W64 - 1)
        /\ -Power(2, W64 - 1) <= b /\ b <= Power(2, W64 - 1)
    BY <1>1, Widths
  <2>2. /\ a * Unit \in Int /\ a * Unit < Infinite /\ -Infinite < a * Unit
        /\ b * Unit \in Int /\ b * Unit < Infinite /\ -Infinite < b * Unit
    BY <1>1, <2>1, IntegersAreFinite
  <2>3. b * Unit # 0
    BY <1>1
  <2>4. Infinite \in Nat
    BY DoubleWidths
  <2>5. ~IsInfinite(fa) /\ ~IsInfinite(fb)
    BY <1>4, <2>2, <2>4 DEF IsInfinite, Abs
  <2>6. fb # Float(0)
    BY <1>4, <2>3, DoubleFloat
  <2>. QED  BY <2>2, <2>3, <2>5, <2>6
<1>6. /\ OneFloat(fa, r) /\ ~BothInts(fa, r) /\ unbox_float(fa) = fa
      /\ OneFloat(l, fb) /\ ~BothInts(l, fb) /\ unbox_float(fb) = fb
      /\ ~IsZero(r) /\ ~IsZero(fb)
  <2>1. ~IsZero(r) /\ ~IsZero(fb)
    BY <1>1, <1>4, <1>5, DoubleFloat, KindsOfNumbers DEF IsZero
  <2>. QED  BY <1>4, <2>1, KindsOfNumbers, PairsOfNumbers
<1>7. mod(fa, r) = Converted[m]
  <2>1. mod(fa, r) = fmod(fa, fb)
    BY <1>2, <1>6 DEF mod, Numeric
  <2>2. fmod(fa, fb) = Rounded(TruncMod(a * Unit, b * Unit), 1)
    BY <1>4, <1>5 DEF fmod
  <2>3. TruncMod(a * Unit, b * Unit) = m * Unit
    BY <1>1, TruncModOfUnits
  <2>. QED  BY <1>3, <2>1, <2>2, <2>3, Conversion
<1>8. floor_div(l, fb) = Converted[q]
  <2>. DEFINE x == FloatQuotient(fa, fb)
              n == Signum(b) * a
              k == Abs(b)
  <2>1. floor_div(l, fb) = floor(x)
    BY <1>2, <1>6 DEF floor_div, Numeric
  <2>2. x = Rounded(n * Unit * Unit, k * Unit)
    <3>1. x = Rounded(Signum(b * Unit) * (a * Unit) * Unit, Abs(b * Unit))
      <4>1. x = Rounded(Signum(fb.u) * fa.u * Unit, Abs(fb.u))
        BY <1>4, <1>5 DEF FloatQuotient
      <4>. QED  BY <1>4, <4>1
    <3>2. Signum(b * Unit) = Signum(b) /\ Abs(b * Unit) = k * Unit
      <4>1. (b > 0 => b * Unit > 0) /\ (b < 0 => b * Unit < 0) /\ -(b * Unit) = (-b) * Unit
        BY <1>1
      <4>. QED  BY <1>1, <1>5, <4>1 DEF Signum, Abs
    <3>3. Signum(b) * (a * Unit) = n * Unit
      <4>1. Signum(b) \in Int
        BY <1>1 DEF Signum
      <4>. QED  BY <1>1, <4>1
    <3>. QED  BY <3>1, <3>2, <3>3
  <2>3. n \in Int /\ k \in Nat \ {0} /\ Abs(n) <= Power(2, Precision) /\ k <= Power(2, Precision)
    BY <1>1 DEF Abs, Signum
  <2>4. q * k <= n /\ n < (q + 1) * k
    <3>1. IF b > 0 THEN q * b <= a /\ a < (q + 1) * b ELSE q * b >= a /\ a > (q + 1) * b
      BY <1>1, FloorDivisionRoundsDown
    <3>2. CASE b > 0
      <4>1. n = a /\ k = b
        BY <1>1, <3>2 DEF Signum, Abs
      <4>. QED  BY <3>1, <3>2, <4>1
    <3>3. CASE b < 0
      <4>1. n = -a /\ k = -b
        BY <1>1, <3>3 DEF Signum, Abs
      <4>. HIDE DEF q, n, k, a, b
      <4>2. q * k = -(q * b) /\ (q + 1) * k = -((q + 1) * b) /\ q * b \in Int /\ (q + 1) * b \in Int
        BY <1>1, <1>3, <4>1
      <4>. QED  BY <1>1, <3>1, <3>3, <4>1, <4>2
    <3>. QED  BY <1>1, <3>2, <3>3
  <2>. HIDE DEF x, n, k, q
  <2>. DEFINE t == q + 1
  <2>5. t \in Int /\ t - 1 = q
    BY <1>3
  <2>6. n * Unit * Unit \in Int /\ k * Unit \in Nat \ {0}
    BY <1>1, <2>3
  <2>7. x # NaN /\ x.u \in Nearest(n * Unit * Unit, k * Unit)
    BY <2>2, <2>6, RoundedBetween
  <2>8. x.u \in Int /\ (t - 1) * Unit <= x.u /\ x.u < t * Unit
    <3>1. (t - 1) * k <= n /\ n < t * k
      BY <2>4, <2>5
    <3>. HIDE DEF t
    <3>. QED  BY <2>3, <2>5, <2>7, <3>1, QuotientRoundsWithin
  <2>9. q * Unit <= x.u /\ x.u < (q + 1) * Unit
    BY <2>5, <2>8
  <2>10. x.u \div Unit = q
    BY <1>1, <1>3, <2>8, <2>9, FloorOfUnits
  <2>11. ~IsInfinite(x)
    <3>1. /\ -Power(2, W64 - 1) <= q /\ q <= Power(2, W64 - 1)
          /\ -Power(2, W64 - 1) <= q + 1 /\ q + 1 <= Power(2, W64 - 1)
      BY <1>3, Widths
    <3>2. /\ q * Unit \in Int /\ -Infinite < q * Unit
          /\ (q + 1) * Unit \in Int /\ (q + 1) * Unit < Infinite
      BY <1>3, <3>1, IntegersAreFinite
    <3>. QED  BY <2>8, <2>9, <3>2, DoubleWidths DEF IsInfinite, Abs
  <2>12. floor(x) = Rounded(q * Unit, 1)
    BY <2>7, <2>10, <2>11 DEF floor
  <2>. QED  BY <1>3, <2>1, <2>12, Conversion
<1>. QED  BY <1>2, <1>7, <1>8

(* "//" rounds down and "%" does not (llvm_runtime.c:2873, :2907), for any *)
(* two integers: which of the two have the sign of the divisor, when they  *)
(* belong together, that doubles of the same value give the same, and that *)
(* only the least integer by -1 ends the process.                          *)
LEMMA DivisionsOfIntegersAgree ==
  ASSUME \A n \in {1, 2} : IsInt(operands[n]) => operands[n].i \in Ints(W64)
  PROVE  DivisionsAgree
<1>. DEFINE l == operands[1]
            r == operands[2]
            quotient == floor_div(l, r)
            rest == mod(l, r)
<1>. SUFFICES ASSUME BothInts(l, r), r.i # 0
              PROVE  IF Overflows(l.i, r.i) THEN quotient = DEAD /\ rest = DEAD
                     ELSE /\ Abs(rest.i) < Abs(r.i) /\ Signum(rest.i) \in {0, Signum(l.i)}
                          /\ IF r.i > 0
                             THEN quotient.i * r.i <= l.i /\ l.i < (quotient.i + 1) * r.i
                             ELSE quotient.i * r.i >= l.i /\ l.i > (quotient.i + 1) * r.i
                          /\ quotient.i * r.i + rest.i = l.i
                               <=> rest.i = 0 \/ Signum(l.i) = Signum(r.i)
                          /\ Exact(l) /\ Exact(r) =>
                               /\ Holds(eq(rest, mod(unbox_float(l), r)))
                               /\ Holds(eq(quotient, floor_div(l, unbox_float(r))))
  BY DEF DivisionsAgree
<1>1. /\ IsInt(l) /\ IsInt(r) /\ l.i \in Ints(W64) /\ r.i \in Ints(W64)
      /\ l.i \in Int /\ r.i \in Int /\ r.i # 0
  BY WrapFits DEF BothInts
<1>. HIDE DEF l, r
<1>0. ~IsZero(r)
  BY <1>1 DEF IsZero, IsInt, Float
<1>2. CASE Overflows(l.i, r.i)
  <2>1. quotient = DEAD
    BY <1>0, <1>1, <1>2, KindsOfNumbers, PairsOfNumbers DEF floor_div, Numeric
  <2>2. rest = DEAD
    BY <1>0, <1>1, <1>2, KindsOfNumbers, PairsOfNumbers DEF mod, Numeric
  <2>. QED  BY <1>2, <2>1, <2>2
<1>3. CASE ~Overflows(l.i, r.i)
  <2>. DEFINE a == l.i
              b == r.i
              f == ds_int_floor_div(a, b)
              t == TruncDiv(a, b)
              m == TruncMod(a, b)
  <2>1. quotient = Int64(f) /\ rest = Int64(m)
    BY <1>0, <1>1, <1>3, KindsOfNumbers, PairsOfNumbers DEF floor_div, mod, Numeric
  <2>2. quotient.i = f /\ rest.i = m /\ IsInt(quotient) /\ IsInt(rest)
    BY <2>1, BoxesAlike
  <2>3. /\ t \in Int /\ m \in Int /\ a = b * t + m
        /\ Abs(m) < Abs(b) /\ Signum(m) \in {0, Signum(a)}
    BY <1>1, TruncDivProperties
  <2>4. IF b > 0 THEN f * b <= a /\ a < (f + 1) * b ELSE f * b >= a /\ a > (f + 1) * b
    BY <1>1, FloorDivisionRoundsDown
  <2>5. f = IF m # 0 /\ (m > 0) # (b > 0) THEN t - 1 ELSE t
    BY DEF ds_int_floor_div
  <2>6. f * b + m = a <=> m = 0 \/ Signum(a) = Signum(b)
    <3>. HIDE DEF a, b, f, t, m
    <3>1. a \in Int /\ b \in Int /\ b # 0
      BY <1>1 DEF a, b
    <3>2. f * b + m = a <=> f = t
      <4>1. (t - 1) * b = b * t - b /\ t * b = b * t
        BY <2>3, <3>1
      <4>. QED  BY <2>3, <2>5, <3>1, <4>1
    <3>3. m # 0 => ((m > 0) <=> (a > 0)) /\ a # 0
      BY <2>3, <3>1 DEF Signum
    <3>4. a # 0 => (Signum(a) = Signum(b) <=> ((a > 0) <=> (b > 0)))
      BY <3>1 DEF Signum
    <3>5. m # 0 => (f = t <=> ((m > 0) <=> (b > 0)))
      BY <2>3, <2>5
    <3>6. m = 0 => f = t
      BY <2>5
    <3>. QED  BY <3>2, <3>3, <3>4, <3>5, <3>6
  <2>7. ASSUME NEW v, IsInt(v), v.i \in Ints(W64)
        PROVE  Holds(eq(v, Converted[v.i]))
    <3>. DEFINE x == Converted[v.i]
    <3>1. x \in Floats /\ x # NaN /\ x.u \in Int
      BY <2>7, Conversion
    <3>. HIDE DEF x
    <3>2. IsFloat(x)
      BY <3>1, FloatKind
    <3>3. /\ OneFloat(v, x) /\ ~BothInts(v, x) /\ ~BothUnboxed(v, x)
          /\ unbox_float(v) = x /\ unbox_float(x) = x
      BY <2>7, <3>2, KindsOfNumbers, PairsOfNumbers DEF x
    <3>4. eq(v, x) = Bool(Differ(x, x, LAMBDA s : s = 0))
      BY <3>3 DEF eq
    <3>5. Differ(x, x, LAMBDA s : s = 0)
      BY <3>1 DEF Differ
    <3>6. Differ(x, x, LAMBDA s : s = 0) \in BOOLEAN
      BY DEF Differ
    <3>. QED  BY <3>4, <3>5, <3>6, TruthBoxed DEF x
  <2>8. f \in Ints(W64) /\ m \in Ints(W64)
    BY <1>1, <1>3, DivisionFits
  <2>9. ASSUME Exact(l), Exact(r)
        PROVE  /\ Holds(eq(rest, mod(unbox_float(l), r)))
               /\ Holds(eq(quotient, floor_div(l, unbox_float(r))))
    <3>1. /\ floor_div(l, unbox_float(r)) = Converted[f]
          /\ mod(unbox_float(l), r) = Converted[m]
      BY <1>1, <1>3, <2>9, ExactDivision
    <3>2. Holds(eq(rest, Converted[m])) /\ Holds(eq(quotient, Converted[f]))
      BY <2>2, <2>7, <2>8
    <3>. QED  BY <3>1, <3>2
  <2>. HIDE DEF quotient, rest, f, m, t
  <2>. QED  BY <1>3, <2>2, <2>3, <2>4, <2>6, <2>9
<1>. QED  BY <1>2, <1>3

LEMMA OneFits == 0 \in Ints(W64) /\ 1 \in Ints(W64) /\ -1 \in Ints(W64) /\ 2 * Greatest(W64) \in Nat
BY Widths


-----------------------------------------------------------------------------
(* The values of a computation and their order                             *)

Number(v) == IsInt(v) \/ IsFloat(v)

(* The values a computation has: none but those of the seven kinds,        *)
(* integers of 64 bits at most, doubles, and strings of bytes.             *)
Value(v) ==
  /\ v.kind \in {"NULL", "STRING", "INT32", "INT64", "BOOL", "FLOAT", "NAN"}
  /\ v.kind = "NULL" => v = NULL
  /\ v.kind = "BOOL" => v.b \in BOOLEAN
  /\ IsInt(v) => v \in [kind : {v.kind}, i : Ints(W64)]
  /\ IsFloat(v) => v \in Floats
  /\ v.kind = "STRING" => v \in [kind : {"STRING"}, s : Seq(Bytes)]

LEMMA ByteProperties ==
  /\ Bytes \subseteq Nat \ {0}
  /\ \A s \in Seq(Bytes) : s \in Seq(Int)
<1>1. Bytes \subseteq Nat \ {0}
  <2>1. W8 \in Nat /\ Power(2, W8) \in Int
    <3>1. W8 \in Nat
      BY WidthsAssumption
    <3>. QED  BY <3>1, PowerProperties
  <2>. QED  BY <2>1 DEF Bytes
<1>2. ASSUME NEW s \in Seq(Bytes)
      PROVE  s \in Seq(Int)
  <2>1. s \in [1 .. Len(s) -> Bytes]
    BY SeqDef, LenProperties
  <2>2. Bytes \subseteq Int
    BY <1>1
  <2>3. s \in [1 .. Len(s) -> Int]
    BY <2>1, <2>2
  <2>. QED  BY <2>3, LenProperties, SeqDef
<1>. QED  BY <1>1, <1>2

LEMMA ValuesUnboxed ==
  ASSUME NEW v, Value(v)
  PROVE  /\ unbox_float(v) \in Floats
         /\ unbox_i64(v) \subseteq Ints(W64)
         /\ IsInt(v) => v.i \in Ints(W64) /\ v.i \in Int /\ unbox_float(v) # NaN
         /\ IsFloat(v) => v \in Floats /\ unbox_float(v) = v
         /\ v.kind = "STRING" => v.s \in Seq(Bytes) /\ v.s \in Seq(Int)
<1>1. IsInt(v) => v.i \in Ints(W64) /\ v.i \in Int
  BY WrapFits DEF Value
<1>2. IsFloat(v) => v \in Floats /\ unbox_float(v) = v
  BY KindsOfNumbers DEF Value
<1>3. unbox_float(v) \in Floats /\ (IsInt(v) => unbox_float(v) # NaN)
  <2>1. CASE IsInt(v)
    BY <1>1, <2>1, KindsOfNumbers, Conversion
  <2>2. CASE IsFloat(v)
    BY <1>2, <2>2, KindsOfNumbers
  <2>3. CASE ~IsInt(v) /\ ~IsFloat(v)
    BY <2>3, DoublesProperties, DoubleFloat DEF unbox_float
  <2>. QED  BY <2>1, <2>2, <2>3
<1>4. unbox_i64(v) \subseteq Ints(W64)
  BY <1>1, OneFits DEF unbox_i64
<1>5. v.kind = "STRING" => v.s \in Seq(Bytes) /\ v.s \in Seq(Int)
  BY ByteProperties DEF Value
<1>. QED  BY <1>1, <1>2, <1>3, <1>4, <1>5

(* -1, 0 or 1: what the nine functions should agree on. *)
Order(l, r) ==
  IF BothInts(l, r) THEN Signum(l.i - r.i)
  ELSE IF Number(l) THEN Signum(unbox_float(l).u - unbox_float(r).u) ELSE strcmp(l.s, r.s)

InOrder(l, r, o) ==
  /\ o \in {-1, 0, 1}
  /\ lt(l, r) = Bool(o < 0) /\ lte(l, r) = Bool(o <= 0)
  /\ gt(l, r) = Bool(o > 0) /\ gte(l, r) = Bool(o >= 0)
  /\ cmp(l, r) = Int64(o)
  /\ eq(l, r) = Bool(o = 0)
  /\ case_compare(l, r) <=> o = 0 /\ l.kind = r.kind

LEMMA SignsOfDifferences ==
  ASSUME NEW a \in Int, NEW b \in Int
  PROVE  /\ Signum(a - b) \in {-1, 0, 1}
         /\ Signum(a - b) < 0 <=> a < b
         /\ Signum(a - b) = 0 <=> a = b
         /\ (a - b < 0) = (Signum(a - b) < 0) /\ (a - b <= 0) = (Signum(a - b) <= 0)
         /\ (a - b > 0) = (Signum(a - b) > 0) /\ (a - b >= 0) = (Signum(a - b) >= 0)
         /\ (a - b = 0) = (Signum(a - b) = 0) /\ (a = b) = (Signum(a - b) = 0)
BY DEF Signum

LEMMA IntegersInOrder ==
  ASSUME NEW l, NEW r, IsInt(l), IsInt(r), Value(l), Value(r)
  PROVE  InOrder(l, r, Order(l, r))
<1>. DEFINE o == Signum(l.i - r.i)
<1>1. l.i \in Int /\ r.i \in Int
  BY ValuesUnboxed
<1>2. BothInts(l, r) /\ ~OneFloat(l, r) /\ ~BothUnboxed(l, r)
  BY PairsOfNumbers
<1>3. Order(l, r) = o
  BY <1>2 DEF Order
<1>4. /\ lt(l, r) = Bool(l.i - r.i < 0) /\ lte(l, r) = Bool(l.i - r.i <= 0)
      /\ gt(l, r) = Bool(l.i - r.i > 0) /\ gte(l, r) = Bool(l.i - r.i >= 0)
  BY <1>2 DEF lt, lte, gt, gte, Compared
<1>5. cmp(l, r) = Int64(o) /\ eq(l, r) = Bool(l.i = r.i)
  BY <1>2 DEF cmp, eq
<1>6. case_compare(l, r) <=> o = 0 /\ l.kind = r.kind
  <2>1. l \in [kind : {l.kind}, i : Ints(W64)] /\ r \in [kind : {r.kind}, i : Ints(W64)]
    BY DEF Value
  <2>2. l = r <=> l.kind = r.kind /\ l.i = r.i
    BY <2>1
  <2>3. ~(l.kind = "RANGE")
    BY DEF IsInt
  <2>. QED  BY <1>1, <2>2, <2>3, SignsOfDifferences DEF case_compare
<1>. HIDE DEF o
<1>. QED  BY <1>1, <1>3, <1>4, <1>5, <1>6, SignsOfDifferences DEF InOrder, o

LEMMA FloatsInOrder ==
  ASSUME NEW l, NEW r, Number(l), Number(r), ~BothInts(l, r), Value(l), Value(r),
         NaN \notin {l, r}
  PROVE  InOrder(l, r, Order(l, r))
<1>. DEFINE a == unbox_float(l)
            b == unbox_float(r)
            o == Signum(a.u - b.u)
<1>1. a # NaN /\ b # NaN
  BY ValuesUnboxed DEF Number
<1>2. a.u \in Int /\ b.u \in Int /\ a = Float(a.u) /\ b = Float(b.u)
  BY <1>1, ValuesUnboxed, FloatKind
<1>3. OneFloat(l, r) /\ ~BothUnboxed(l, r)
  BY PairsOfNumbers DEF Number, BothInts
<1>4. Order(l, r) = o
  BY DEF Order
<1>. HIDE DEF a, b
<1>5. /\ lt(l, r) = Bool(a.u - b.u < 0) /\ lte(l, r) = Bool(a.u - b.u <= 0)
      /\ gt(l, r) = Bool(a.u - b.u > 0) /\ gte(l, r) = Bool(a.u - b.u >= 0)
      /\ eq(l, r) = Bool(a.u - b.u = 0)
  <2>1. /\ lt(l, r) = Bool(Differ(a, b, LAMBDA s : s < 0))
        /\ lte(l, r) = Bool(Differ(a, b, LAMBDA s : s <= 0))
        /\ gt(l, r) = Bool(Differ(a, b, LAMBDA s : s > 0))
        /\ gte(l, r) = Bool(Differ(a, b, LAMBDA s : s >= 0))
        /\ eq(l, r) = Bool(Differ(a, b, LAMBDA s : s = 0))
    BY <1>3 DEF lt, lte, gt, gte, eq, Compared, a, b
  <2>2. /\ Differ(a, b, LAMBDA s : s < 0) = (a.u - b.u < 0)
        /\ Differ(a, b, LAMBDA s : s <= 0) = (a.u - b.u <= 0)
        /\ Differ(a, b, LAMBDA s : s > 0) = (a.u - b.u > 0)
        /\ Differ(a, b, LAMBDA s : s >= 0) = (a.u - b.u >= 0)
        /\ Differ(a, b, LAMBDA s : s = 0) = (a.u - b.u = 0)
    BY <1>1, <1>2 DEF Differ
  <2>. QED  BY <2>1, <2>2
<1>6. cmp(l, r) = Int64(o)
  BY <1>1, <1>3 DEF cmp, a, b
<1>7. case_compare(l, r) <=> o = 0 /\ l.kind = r.kind
  <2>1. ~(l.kind = "RANGE" /\ r.kind = "RANGE")
    BY DEF Number, IsInt, IsFloat
  <2>2. CASE IsFloat(l) /\ IsFloat(r)
    <3>1. a = l /\ b = r
      BY <2>2, KindsOfNumbers DEF a, b
    <3>2. l.kind = "FLOAT" /\ r.kind = "FLOAT"
      BY <1>2, <3>1 DEF Float
    <3>3. l = r <=> a.u = b.u
      BY <1>2, <3>1
    <3>. QED  BY <1>2, <2>1, <3>2, <3>3, SignsOfDifferences DEF case_compare
  <2>3. CASE ~(IsFloat(l) /\ IsFloat(r))
    <3>1. l.kind # r.kind
      BY <2>3 DEF IsFloat, IsInt, BothInts, Number
    <3>. QED  BY <2>1, <3>1 DEF case_compare
  <2>. QED  BY <2>2, <2>3
<1>. HIDE DEF o
<1>. QED  BY <1>2, <1>4, <1>5, <1>6, <1>7, SignsOfDifferences DEF InOrder, o

LEMMA StringsInOrder ==
  ASSUME NEW l, NEW r, l.kind = "STRING", r.kind = "STRING", Value(l), Value(r)
  PROVE  InOrder(l, r, Order(l, r))
<1>. DEFINE o == strcmp(l.s, r.s)
<1>1. /\ l \in [kind : {"STRING"}, s : Seq(Bytes)] /\ r \in [kind : {"STRING"}, s : Seq(Bytes)]
      /\ l.s \in Seq(Int) /\ r.s \in Seq(Int)
  BY ValuesUnboxed DEF Value
<1>2. o \in {-1, 0, 1} /\ (o = 0 <=> l.s = r.s)
  BY <1>1, StrcmpProperties
<1>3. Order(l, r) = o
  BY DEF Order, Number, BothInts, IsInt, IsFloat
<1>4. /\ ~BothInts(l, r) /\ ~OneFloat(l, r) /\ BothUnboxed(l, r)
      /\ NULL \notin {l, r}
  BY DEF BothInts, OneFloat, BothBoxed, BothUnboxed, IsInt, ds_is_boxed, NULL
<1>. HIDE DEF o
<1>5. /\ lt(l, r) = Bool(o < 0) /\ lte(l, r) = Bool(o <= 0)
      /\ gt(l, r) = Bool(o > 0) /\ gte(l, r) = Bool(o >= 0)
  BY <1>4 DEF lt, lte, gt, gte, Compared, o
<1>6. cmp(l, r) = Int64(o)
  BY <1>4 DEF cmp, o
<1>7. eq(l, r) = Bool(o = 0)
  BY <1>4 DEF eq, o
<1>8. case_compare(l, r) <=> o = 0 /\ l.kind = r.kind
  <2>1. l = r <=> l.s = r.s
    BY <1>1
  <2>. QED  BY <1>2, <2>1 DEF case_compare
<1>. QED  BY <1>2, <1>3, <1>5, <1>6, <1>7, <1>8 DEF InOrder

LEMMA Kinds ==
  ASSUME NEW l, NEW r
  PROVE  Comparable(l, r) <=> \/ Number(l) /\ Number(r)
                              \/ l.kind = "STRING" /\ r.kind = "STRING"
BY DEF Comparable, Number, IsInt, IsFloat

LEMMA ComparedInOrder ==
  ASSUME NEW l, NEW r, Comparable(l, r), Value(l), Value(r), NaN \notin {l, r}
  PROVE  InOrder(l, r, Order(l, r))
BY Kinds, IntegersInOrder, FloatsInOrder, StringsInOrder DEF BothInts

(* With a NaN no comparison holds, and cmp says equal. *)
LEMMA ComparedWithNaN ==
  ASSUME NEW l, NEW r, Comparable(l, r), Value(l), Value(r), NaN \in {l, r}
  PROVE  /\ lt(l, r) = Bool(FALSE) /\ lte(l, r) = Bool(FALSE)
         /\ gt(l, r) = Bool(FALSE) /\ gte(l, r) = Bool(FALSE)
         /\ eq(l, r) = Bool(FALSE) /\ cmp(l, r) = Int64(0)
<1>1. IsFloat(NaN) /\ NaN.kind # "STRING"
  BY DEF NaN, IsFloat
<1>2. OneFloat(l, r) /\ ~BothInts(l, r) /\ ~BothUnboxed(l, r)
  BY <1>1, Kinds, PairsOfNumbers DEF Number
<1>3. NaN \in {unbox_float(l), unbox_float(r)}
  BY <1>1, KindsOfNumbers
<1>4. cmp(l, r) = Int64(0)
  BY <1>2, <1>3 DEF cmp
<1>. DEFINE a == unbox_float(l)
            b == unbox_float(r)
<1>5. /\ lt(l, r) = Bool(Differ(a, b, LAMBDA s : s < 0))
      /\ lte(l, r) = Bool(Differ(a, b, LAMBDA s : s <= 0))
      /\ gt(l, r) = Bool(Differ(a, b, LAMBDA s : s > 0))
      /\ gte(l, r) = Bool(Differ(a, b, LAMBDA s : s >= 0))
      /\ eq(l, r) = Bool(Differ(a, b, LAMBDA s : s = 0))
  BY <1>2 DEF lt, lte, gt, gte, eq, Compared
<1>6. /\ Differ(a, b, LAMBDA s : s < 0) = FALSE
      /\ Differ(a, b, LAMBDA s : s <= 0) = FALSE
      /\ Differ(a, b, LAMBDA s : s > 0) = FALSE
      /\ Differ(a, b, LAMBDA s : s >= 0) = FALSE
      /\ Differ(a, b, LAMBDA s : s = 0) = FALSE
  BY <1>3 DEF Differ
<1>. QED  BY <1>4, <1>5, <1>6

LEMMA InOrderHolds ==
  ASSUME NEW l, NEW r, NEW o, InOrder(l, r, o)
  PROVE  /\ Holds(lt(l, r)) <=> o < 0
         /\ Holds(eq(l, r)) <=> o = 0
         /\ Holds(gt(l, r)) <=> o > 0
         /\ Holds(lte(l, r)) <=> o <= 0
         /\ Holds(gte(l, r)) <=> o >= 0
         /\ Holds(ne(l, r)) <=> o # 0
<1>1. \A b \in BOOLEAN : (Holds(Bool(b)) <=> b) /\ (is_truthy(Bool(b)) <=> b)
  BY DEF Holds, Bool, is_truthy
<1>2. /\ Holds(Bool(o < 0)) <=> o < 0
      /\ Holds(Bool(o = 0)) <=> o = 0
      /\ Holds(Bool(o > 0)) <=> o > 0
      /\ Holds(Bool(o <= 0)) <=> o <= 0
      /\ Holds(Bool(o >= 0)) <=> o >= 0
      /\ is_truthy(Bool(o = 0)) <=> o = 0
  <2>1. CASE o = -1
    <3>1. /\ (o < 0) = TRUE /\ (o = 0) = FALSE /\ (o > 0) = FALSE
          /\ (o <= 0) = TRUE /\ (o >= 0) = FALSE
      BY <2>1
    <3>. QED  BY <1>1, <3>1
  <2>2. CASE o = 0
    <3>1. /\ (o < 0) = FALSE /\ (o = 0) = TRUE /\ (o > 0) = FALSE
          /\ (o <= 0) = TRUE /\ (o >= 0) = TRUE
      BY <2>2
    <3>. QED  BY <1>1, <3>1
  <2>3. CASE o = 1
    <3>1. /\ (o < 0) = FALSE /\ (o = 0) = FALSE /\ (o > 0) = TRUE
          /\ (o <= 0) = FALSE /\ (o >= 0) = TRUE
      BY <2>3
    <3>. QED  BY <1>1, <3>1
  <2>. QED  BY <2>1, <2>2, <2>3 DEF InOrder
<1>3. is_truthy(eq(l, r)) <=> o = 0
  BY <1>2 DEF InOrder
<1>4. Holds(ne(l, r)) <=> ~is_truthy(eq(l, r))
  <2>1. (~is_truthy(eq(l, r))) \in BOOLEAN
    OBVIOUS
  <2>. QED  BY <1>1, <2>1 DEF ne
<1>. QED  BY <1>2, <1>3, <1>4 DEF InOrder

(* Less, and less or equal: less, but where two integers meet a float that *)
(* is equal to both.                                                       *)
LEMMA OrderTransitive ==
  ASSUME NEW l, NEW r, NEW m, Value(l), Value(r), Value(m), NaN \notin {l, r, m},
         Comparable(l, r), Comparable(r, m), Order(l, r) < 0, Order(r, m) <= 0
  PROVE  /\ Comparable(l, m)
         /\ Order(l, m) <= 0
         /\ ~(BothInts(l, r) /\ IsFloat(m) /\ ~(Exact(l) /\ Exact(r))) => Order(l, m) < 0
<1>1. CASE Number(l)
  <2>1. Number(r) /\ Number(m) /\ Comparable(l, m)
    BY <1>1, Kinds DEF Number, IsInt, IsFloat
  <2>. DEFINE f == unbox_float(l).u
              h == unbox_float(r).u
              k == unbox_float(m).u
  <2>2. f \in Int /\ h \in Int /\ k \in Int
    <3>1. unbox_float(l) # NaN /\ unbox_float(r) # NaN /\ unbox_float(m) # NaN
      BY <1>1, <2>1, ValuesUnboxed DEF Number
    <3>. QED  BY <3>1, ValuesUnboxed, FloatKind
  <2>3. /\ IsInt(l) => l.i \in Int
        /\ IsInt(r) => r.i \in Int
        /\ IsInt(m) => m.i \in Int
    BY ValuesUnboxed
  (* What integers are converted to is in the order of the integers. *)
  <2>4. ASSUME NEW x, NEW y, IsInt(x), IsInt(y), Value(x), Value(y)
        PROVE  /\ x.i <= y.i => unbox_float(x).u <= unbox_float(y).u
               /\ unbox_float(x).u < unbox_float(y).u => x.i < y.i
               /\ Exact(x) /\ Exact(y) /\ x.i < y.i => unbox_float(x).u < unbox_float(y).u
    <3>1. /\ x.i \in Ints(W64) /\ y.i \in Ints(W64) /\ x.i \in Int /\ y.i \in Int
          /\ unbox_float(x) = Converted[x.i] /\ unbox_float(y) = Converted[y.i]
      BY <2>4, ValuesUnboxed, KindsOfNumbers
    <3>2. /\ unbox_float(x).u \in Int /\ unbox_float(y).u \in Int
          /\ x.i <= y.i => unbox_float(x).u <= unbox_float(y).u
          /\ y.i <= x.i => unbox_float(y).u <= unbox_float(x).u
      BY <3>1, Conversion
    <3>3. Exact(x) /\ Exact(y) /\ x.i < y.i => unbox_float(x).u < unbox_float(y).u
      <4>. SUFFICES ASSUME Exact(x), Exact(y), x.i < y.i
                    PROVE  unbox_float(x).u < unbox_float(y).u
        OBVIOUS
      <4>1. Abs(x.i) <= Power(2, Precision) /\ Abs(y.i) <= Power(2, Precision)
        BY <3>1, DoubleWidths DEF Exact, Abs
      <4>2. unbox_float(x).u = x.i * Unit /\ unbox_float(y).u = y.i * Unit
        BY <3>1, <4>1, Conversion, DoubleFloat
      <4>3. Unit * x.i < Unit * y.i
        BY <3>1, DoubleWidths, Cancelled
      <4>. QED  BY <3>1, <4>2, <4>3, DoubleWidths
    <3>. QED  BY <3>1, <3>2, <3>3
  (* The order of two numbers, by what they are compared as. *)
  <2>5. ASSUME NEW x, NEW y, Number(x), Number(y), Value(x), Value(y),
               unbox_float(x).u \in Int, unbox_float(y).u \in Int
        PROVE  /\ BothInts(x, y) => /\ Order(x, y) < 0 <=> x.i < y.i
                                    /\ Order(x, y) <= 0 <=> x.i <= y.i
               /\ ~BothInts(x, y) => /\ Order(x, y) < 0 <=> unbox_float(x).u < unbox_float(y).u
                                     /\ Order(x, y) <= 0 <=> unbox_float(x).u <= unbox_float(y).u
    <3>1. CASE BothInts(x, y)
      <4>1. x.i \in Int /\ y.i \in Int
        BY <2>5, <3>1, ValuesUnboxed DEF BothInts
      <4>2. Order(x, y) = Signum(x.i - y.i)
        BY <3>1 DEF Order
      <4>. QED  BY <3>1, <4>1, <4>2 DEF Signum
    <3>2. CASE ~BothInts(x, y)
      <4>1. Order(x, y) = Signum(unbox_float(x).u - unbox_float(y).u)
        BY <2>5, <3>2 DEF Order
      <4>. QED  BY <2>5, <3>2, <4>1 DEF Signum
    <3>. QED  BY <3>1, <3>2
  <2>6. CASE IsInt(l) /\ IsInt(r) /\ IsInt(m)
    <3>1. BothInts(l, r) /\ BothInts(r, m) /\ BothInts(l, m)
      BY <2>6 DEF BothInts
    <3>2. l.i < r.i /\ r.i <= m.i
      BY <1>1, <2>1, <2>2, <2>5, <3>1
    <3>3. l.i < m.i
      BY <2>3, <2>6, <3>2
    <3>. QED  BY <1>1, <2>1, <2>2, <2>3, <2>5, <2>6, <3>1, <3>3
  <2>7. CASE IsInt(l) /\ IsInt(r) /\ IsFloat(m)
    <3>1. BothInts(l, r) /\ ~BothInts(r, m) /\ ~BothInts(l, m)
      BY <2>7, PairsOfNumbers
    <3>2. l.i < r.i /\ h <= k
      BY <1>1, <2>1, <2>2, <2>5, <3>1
    <3>3. f <= h /\ (Exact(l) /\ Exact(r) => f < h)
      BY <2>3, <2>4, <2>7, <3>2
    <3>4. f <= k /\ (Exact(l) /\ Exact(r) => f < k)
      BY <2>2, <3>2, <3>3
    <3>. QED  BY <1>1, <2>1, <2>2, <2>5, <2>7, <3>1, <3>4
  <2>8. CASE IsInt(l) /\ IsFloat(r) /\ IsInt(m)
    <3>1. ~BothInts(l, r) /\ ~BothInts(r, m) /\ BothInts(l, m)
      BY <2>8, PairsOfNumbers
    <3>2. f < h /\ h <= k
      BY <1>1, <2>1, <2>2, <2>5, <3>1
    <3>3. l.i < m.i
      BY <2>2, <2>4, <2>8, <3>2
    <3>. QED  BY <1>1, <2>1, <2>2, <2>3, <2>5, <2>8, <3>1, <3>3
  <2>9. CASE ~BothInts(l, r) /\ ~BothInts(l, m)
    <3>1. f < h
      BY <1>1, <2>1, <2>2, <2>5, <2>9
    <3>2. h <= k
      <4>1. CASE BothInts(r, m)
        <5>1. r.i <= m.i
          BY <2>1, <2>2, <2>5, <4>1
        <5>. QED  BY <2>4, <4>1, <5>1 DEF BothInts
      <4>2. CASE ~BothInts(r, m)
        BY <2>1, <2>2, <2>5, <4>2
      <4>. QED  BY <4>1, <4>2
    <3>3. f < k
      BY <2>2, <3>1, <3>2
    <3>. QED  BY <1>1, <2>1, <2>2, <2>5, <2>9, <3>3
  <2>10. \/ IsInt(l) /\ IsInt(r) /\ IsInt(m)
         \/ IsInt(l) /\ IsInt(r) /\ IsFloat(m)
         \/ IsInt(l) /\ IsFloat(r) /\ IsInt(m)
         \/ ~BothInts(l, r) /\ ~BothInts(l, m)
    BY <1>1, <2>1, PairsOfNumbers DEF Number, BothInts
  <2>. HIDE DEF f, h, k
  <2>. QED  BY <2>1, <2>6, <2>7, <2>8, <2>9, <2>10
<1>2. CASE ~Number(l)
  <2>1. l.kind = "STRING" /\ r.kind = "STRING" /\ m.kind = "STRING" /\ ~Number(r)
        /\ ~BothInts(l, r) /\ ~BothInts(r, m) /\ ~BothInts(l, m) /\ Comparable(l, m)
    BY <1>2, Kinds DEF Number, BothInts, IsInt, IsFloat
  <2>2. /\ Order(l, r) = strcmp(l.s, r.s) /\ Order(r, m) = strcmp(r.s, m.s)
        /\ Order(l, m) = strcmp(l.s, m.s)
    BY <1>2, <2>1 DEF Order
  <2>3. l.s \in Seq(Int) /\ r.s \in Seq(Int) /\ m.s \in Seq(Int)
    BY <2>1, ValuesUnboxed
  <2>4. Below(l.s, r.s)
    BY <2>2, <2>3, StrcmpProperties
  <2>5. strcmp(r.s, m.s) \in {-1, 0, 1} /\ strcmp(l.s, m.s) \in {-1, 0, 1}
    BY <2>3, StrcmpProperties
  <2>6. strcmp(l.s, m.s) < 0
    <3>1. CASE strcmp(r.s, m.s) = 0
      <4>1. r.s = m.s
        BY <2>3, <3>1, StrcmpProperties
      <4>. QED  BY <2>2, <4>1
    <3>2. CASE strcmp(r.s, m.s) < 0
      <4>1. Below(r.s, m.s)
        BY <2>3, <3>2, StrcmpProperties
      <4>2. Below(l.s, m.s)
        BY <2>3, <2>4, <4>1, BelowTransitive
      <4>. QED  BY <2>3, <4>2, StrcmpProperties
    <3>. QED  BY <2>2, <2>5, <3>1, <3>2
  <2>. QED  BY <2>1, <2>2, <2>5, <2>6
<1>. QED  BY <1>1, <1>2

(* Nine functions decide the order of two values, each by itself           *)
(* (llvm_runtime.c:2327, :3018-3215): of any two numbers but NaN, or two   *)
(* strings, exactly one is less or they are equal, and all agree. For      *)
(* integers of any size, doubles of any number of bits and strings of any  *)
(* length; and so is what it says of a third value, for any set of them.   *)
LEMMA OrdersOfValuesAgree ==
  ASSUME Value(operands[1]), Value(operands[2]),
         \A m \in Literals \cup Results(operands[1], operands[2]) : Used(m) => Value(m)
  PROVE  OrdersAgree
<1>. DEFINE l == operands[1]
            r == operands[2]
            order == <<Holds(lt(l, r)), Holds(eq(l, r)), Holds(gt(l, r))>>
            others == {v \in Literals \cup Results(l, r) : Used(v)}
            further(m) == Comparable(r, m) /\ order[1] /\ Holds(lte(r, m)) =>
                            IF BothInts(l, r) /\ IsFloat(m) /\ ~(Exact(l) /\ Exact(r))
                            THEN Holds(lte(l, m)) ELSE Holds(lt(l, m))
<1>. SUFFICES ASSUME Comparable(l, r)
              PROVE  /\ IF NaN \in {l, r} THEN order = <<FALSE, FALSE, FALSE>>
                        ELSE /\ order \in {<<TRUE, FALSE, FALSE>>, <<FALSE, TRUE, FALSE>>,
                                           <<FALSE, FALSE, TRUE>>}
                             /\ case_compare(l, r) <=> order[2] /\ l.kind = r.kind
                     /\ Holds(lte(l, r)) <=> order[1] \/ order[2]
                     /\ Holds(gte(l, r)) <=> order[3] \/ order[2]
                     /\ Holds(ne(l, r)) <=> ~order[2]
                     /\ cmp(l, r) = Int64(CASE order[1] -> -1 [] order[3] -> 1 [] OTHER -> 0)
                     /\ \A m \in others : further(m)
  BY DEF OrdersAgree
<1>1. Value(l) /\ Value(r) /\ \A m \in others : Value(m)
  OBVIOUS
<1>. HIDE DEF l, r, others
<1>2. CASE NaN \in {l, r}
  <2>1. /\ lt(l, r) = Bool(FALSE) /\ lte(l, r) = Bool(FALSE)
        /\ gt(l, r) = Bool(FALSE) /\ gte(l, r) = Bool(FALSE)
        /\ eq(l, r) = Bool(FALSE) /\ cmp(l, r) = Int64(0)
    BY <1>1, <1>2, ComparedWithNaN
  <2>2. Holds(Bool(FALSE)) = FALSE /\ is_truthy(Bool(FALSE)) = FALSE
    BY DEF Holds, is_truthy, Bool
  <2>3. order = <<FALSE, FALSE, FALSE>>
    BY <2>1, <2>2
  <2>4. ne(l, r) = Bool(TRUE) /\ Holds(Bool(TRUE))
    BY <2>1, <2>2 DEF ne, Holds
  <2>5. Holds(lte(l, r)) = FALSE /\ Holds(gte(l, r)) = FALSE
    BY <2>1, <2>2
  <2>. HIDE DEF order
  <2>. QED  BY <1>2, <2>1, <2>3, <2>4, <2>5
<1>3. CASE NaN \notin {l, r}
  <2>. DEFINE o == Order(l, r)
  <2>1. InOrder(l, r, o)
    BY <1>1, <1>3, ComparedInOrder
  <2>. HIDE DEF o
  <2>2. /\ o \in {-1, 0, 1} /\ cmp(l, r) = Int64(o)
        /\ case_compare(l, r) <=> o = 0 /\ l.kind = r.kind
    BY <2>1 DEF InOrder
  <2>3. /\ Holds(lt(l, r)) <=> o < 0
        /\ Holds(eq(l, r)) <=> o = 0
        /\ Holds(gt(l, r)) <=> o > 0
        /\ Holds(lte(l, r)) <=> o <= 0
        /\ Holds(gte(l, r)) <=> o >= 0
        /\ Holds(ne(l, r)) <=> o # 0
    BY <2>1, InOrderHolds
  <2>4. /\ order[1] <=> o < 0
        /\ order[2] <=> o = 0
        /\ order[3] <=> o > 0
    BY <2>3
  <2>5. order \in {<<TRUE, FALSE, FALSE>>, <<FALSE, TRUE, FALSE>>, <<FALSE, FALSE, TRUE>>}
    <3>1. Holds(lt(l, r)) \in BOOLEAN /\ Holds(eq(l, r)) \in BOOLEAN /\ Holds(gt(l, r)) \in BOOLEAN
      BY DEF Holds
    <3>2. CASE o = -1
      <4>1. Holds(lt(l, r)) = TRUE /\ Holds(eq(l, r)) = FALSE /\ Holds(gt(l, r)) = FALSE
        BY <2>3, <3>1, <3>2
      <4>. QED  BY <4>1
    <3>3. CASE o = 0
      <4>1. Holds(lt(l, r)) = FALSE /\ Holds(eq(l, r)) = TRUE /\ Holds(gt(l, r)) = FALSE
        BY <2>3, <3>1, <3>3
      <4>. QED  BY <4>1
    <3>4. CASE o = 1
      <4>1. Holds(lt(l, r)) = FALSE /\ Holds(eq(l, r)) = FALSE /\ Holds(gt(l, r)) = TRUE
        BY <2>3, <3>1, <3>4
      <4>. QED  BY <4>1
    <3>. QED  BY <2>2, <3>2, <3>3, <3>4
  <2>6. ASSUME NEW m \in others, Comparable(r, m), o < 0, Holds(lte(r, m))
        PROVE  IF BothInts(l, r) /\ IsFloat(m) /\ ~(Exact(l) /\ Exact(r))
               THEN Holds(lte(l, m)) ELSE Holds(lt(l, m))
    <3>1. Value(m)
      BY <1>1
    <3>2. m # NaN
      <4>. SUFFICES ASSUME m = NaN PROVE FALSE
        OBVIOUS
      <4>1. lte(r, m) = Bool(FALSE)
        BY <1>1, <2>6, <3>1, ComparedWithNaN
      <4>. QED  BY <2>6, <4>1 DEF Holds, Bool
    <3>3. InOrder(r, m, Order(r, m))
      BY <1>1, <1>3, <2>6, <3>1, <3>2, ComparedInOrder
    <3>4. Order(r, m) <= 0
      BY <2>6, <3>3, InOrderHolds
    <3>5. /\ Comparable(l, m) /\ Order(l, m) <= 0
          /\ ~(BothInts(l, r) /\ IsFloat(m) /\ ~(Exact(l) /\ Exact(r))) => Order(l, m) < 0
      BY <1>1, <1>3, <2>6, <3>1, <3>2, <3>4, OrderTransitive DEF o
    <3>6. InOrder(l, m, Order(l, m))
      BY <1>1, <1>3, <3>1, <3>2, <3>5, ComparedInOrder
    <3>7. (Holds(lt(l, m)) <=> Order(l, m) < 0) /\ (Holds(lte(l, m)) <=> Order(l, m) <= 0)
      BY <3>6, InOrderHolds
    <3>. QED  BY <3>5, <3>7
  <2>7. \A m \in others : further(m)
    BY <2>4, <2>6
  <2>. HIDE DEF order, further
  <2>8. cmp(l, r) = Int64(CASE order[1] -> -1 [] order[3] -> 1 [] OTHER -> 0)
    <3>1. (CASE order[1] -> -1 [] order[3] -> 1 [] OTHER -> 0) = o
      BY <2>2, <2>4
    <3>. QED  BY <2>2, <3>1
  <2>9. /\ Holds(lte(l, r)) <=> order[1] \/ order[2]
        /\ Holds(gte(l, r)) <=> order[3] \/ order[2]
        /\ Holds(ne(l, r)) <=> ~order[2]
        /\ case_compare(l, r) <=> order[2] /\ l.kind = r.kind
    BY <2>2, <2>3, <2>4
  <2>. QED  BY <1>3, <2>5, <2>7, <2>8, <2>9
<1>. QED  BY <1>2, <1>3
-----------------------------------------------------------------------------
(* Squaring                                                                *)

States == [power : Nat, factor : Int, result : Int]

Multiplied(s) == IF s.power % 2 = 1 THEN Wrap(s.result * s.factor) ELSE s.result
Squared(s) ==
  [power |-> s.power \div 2, factor |-> Wrap(s.factor * s.factor), result |-> Multiplied(s)]
Loops(f) == [s \in States |-> IF s.power < 2 THEN Multiplied(s) ELSE f[Squared(s)]]

LEMMA SquaredProperties ==
  ASSUME NEW s \in States
  PROVE  /\ Multiplied(s) \in Int
         /\ Squared(s) \in States
         /\ s.power >= 2 => Squared(s).power < s.power /\ Squared(s).power \in Nat \ {0}
         /\ s.power \in Nat /\ s.factor \in Int /\ s.result \in Int
<1>1. s.power \in Nat /\ s.factor \in Int /\ s.result \in Int
  BY DEF States
<1>2. Wrap(s.result * s.factor) \in Int /\ Wrap(s.factor * s.factor) \in Int
  BY <1>1, WrapProperties
<1>3. Multiplied(s) \in Int
  BY <1>1, <1>2 DEF Multiplied
<1>4. s.power \div 2 \in Nat /\ (s.power >= 2 => s.power \div 2 < s.power /\ s.power \div 2 > 0)
  BY <1>1
<1>. QED  BY <1>1, <1>2, <1>3, <1>4 DEF States, Squared

LEMMA LoopsExist == \E f \in [States -> Int] : f = Loops(f)
<1>. DEFINE S == [States -> Int]
            start == [s \in States |-> 0]
            step == [h \in S |-> Loops(h)]
<1>1. ASSUME NEW h \in S
      PROVE  Loops(h) \in S
  <2>1. \A s \in States : (IF s.power < 2 THEN Multiplied(s) ELSE h[Squared(s)]) \in Int
    BY SquaredProperties
  <2>. QED  BY <2>1 DEF Loops
<1>2. start \in S /\ step \in [S -> S]
  <2>1. start \in S
    OBVIOUS
  <2>2. step \in [S -> S]
    <3>. HIDE DEF S
    <3>. QED  BY <1>1
  <2>. QED  BY <2>1, <2>2
<1>. HIDE DEF S, start, step
<1>3. PICK H : Iterated(S, start, step, H)
  BY <1>2, IterationExists
<1>4. /\ \A n \in Nat : H[n] \in S
      /\ \A n \in Nat : H[n + 1] = Loops(H[n])
  BY <1>3 DEF Iterated, step
(* Those that have gone far enough agree. *)
<1>. DEFINE U == {n \in Nat : \A s \in States, m \in Nat :
                                s.power < n /\ s.power < m => H[m][s] = H[s.power + 1][s]}
<1>5. ASSUME NEW n \in Nat, n \in U
      PROVE  n + 1 \in U
  <2>. SUFFICES ASSUME NEW s \in States, NEW m \in Nat, s.power < n + 1, s.power < m
                PROVE  H[m][s] = H[s.power + 1][s]
    OBVIOUS
  <2>0. s.power \in Nat
    BY SquaredProperties
  <2>1. m - 1 \in Nat /\ (m - 1) + 1 = m
    BY <2>0
  <2>2. H[m] = Loops(H[m - 1]) /\ H[s.power + 1] = Loops(H[s.power])
    BY <1>4, <2>0, <2>1
  <2>3. CASE s.power < 2
    BY <2>2, <2>3 DEF Loops
  <2>4. CASE ~(s.power < 2)
    <3>. DEFINE t == Squared(s)
    <3>1. t \in States /\ t.power < s.power /\ t.power \in Nat
      BY <2>0, <2>4, SquaredProperties
    <3>. HIDE DEF t
    <3>2. H[m - 1][t] = H[t.power + 1][t] /\ H[s.power][t] = H[t.power + 1][t]
      <4>1. t.power < n /\ t.power < m - 1 /\ t.power < s.power
        BY <2>0, <3>1
      <4>. QED  BY <1>5, <2>0, <2>1, <3>1, <4>1
    <3>3. H[m][s] = H[m - 1][t] /\ H[s.power + 1][s] = H[s.power][t]
      BY <2>2, <2>4 DEF Loops, t
    <3>. QED  BY <3>2, <3>3
  <2>. QED  BY <2>3, <2>4
<1>6. 0 \in U
  BY SquaredProperties
<1>7. Nat \subseteq U
  <2>. HIDE DEF U
  <2>. QED  BY <1>5, <1>6, Upwards
<1>8. ASSUME NEW s \in States, NEW m \in Nat, s.power < m
      PROVE  H[m][s] = H[s.power + 1][s]
  <2>1. s.power \in Nat
    BY SquaredProperties
  <2>2. s.power + 1 \in U
    BY <1>7, <2>1
  <2>. QED  BY <1>8, <2>1, <2>2
<1>. HIDE DEF U
<1>. DEFINE F == [s \in States |-> H[s.power + 1][s]]
<1>9. F \in [States -> Int]
  <2>1. \A s \in States : H[s.power + 1][s] \in Int
    BY <1>4, SquaredProperties DEF S
  <2>. QED  BY <2>1
<1>10. F = Loops(F)
  <2>1. ASSUME NEW s \in States
        PROVE  F[s] = Loops(F)[s]
    <3>0. s.power \in Nat
      BY SquaredProperties
    <3>1. F[s] = Loops(H[s.power])[s]
      BY <1>4, <3>0
    <3>2. CASE s.power < 2
      BY <3>1, <3>2 DEF Loops
    <3>3. CASE ~(s.power < 2)
      <4>. DEFINE t == Squared(s)
      <4>1. t \in States /\ t.power < s.power /\ t.power \in Nat
        BY <3>0, <3>3, SquaredProperties
      <4>2. F[s] = H[s.power][t]
        BY <3>1, <3>3 DEF Loops
      <4>3. Loops(F)[s] = F[t]
        BY <3>3 DEF Loops
      <4>. HIDE DEF t
      <4>4. F[t] = H[t.power + 1][t]
        BY <4>1
      <4>5. H[s.power][t] = H[t.power + 1][t]
        BY <1>8, <3>0, <4>1
      <4>. QED  BY <4>2, <4>3, <4>4, <4>5
    <3>. QED  BY <3>2, <3>3
  <2>. HIDE DEF F
  <2>2. DOMAIN F = States /\ DOMAIN Loops(F) = States
    BY <1>9 DEF Loops
  <2>3. F = [s \in States |-> F[s]] /\ Loops(F) = [s \in States |-> Loops(F)[s]]
    BY <1>9 DEF Loops
  <2>. QED  BY <2>1, <2>3
<1>. HIDE DEF F
<1>. QED  BY <1>9, <1>10

LEMMA LoopIsLoops ==
  ASSUME NEW base, NEW exponent
  PROVE  \E loop : /\ ds_int_pow_i64(base, exponent) =
                         loop[[power |-> exponent, factor |-> base, result |-> 1]]
                   /\ loop = Loops(loop)
<1>. DEFINE loop == CHOOSE f : f = Loops(f)
<1>1. ds_int_pow_i64(base, exponent) = loop[[power |-> exponent, factor |-> base, result |-> 1]]
  BY Zenon DEF ds_int_pow_i64, Loops, States, Multiplied, Squared
<1>2. loop = Loops(loop)
  BY LoopsExist, Zenon
<1>. QED  BY <1>1, <1>2

LEMMA PowerOfSquare ==
  ASSUME NEW i \in Int, NEW k \in Nat
  PROVE  Power(i * i, k) = Power(i, 2 * k)
<1>. DEFINE j == i * i
            T == {n \in Nat : Power(j, n) = Power(i, 2 * n)}
<1>0. j \in Int /\ \A x \in Int : i * (i * x) = j * x
  OBVIOUS
<1>. HIDE DEF j
<1>1. 0 \in T
  <2>1. Power(j, 0) = 1 /\ Power(i, 0) = 1
    BY <1>0, PowerProperties
  <2>. QED  BY <2>1
<1>2. ASSUME NEW n \in Nat, n \in T
      PROVE  n + 1 \in T
  <2>1. Power(j, n + 1) = j * Power(j, n)
    BY <1>0, PowerProperties
  <2>. DEFINE m == 2 * n
  <2>2. m \in Nat /\ 2 * (n + 1) = (m + 1) + 1 /\ m + 1 \in Nat /\ Power(j, n) = Power(i, m)
    BY <1>2
  <2>. HIDE DEF m
  <2>3. Power(i, m + 1) = i * Power(i, m) /\ Power(i, (m + 1) + 1) = i * Power(i, m + 1)
        /\ Power(i, m) \in Int
    BY <2>2, PowerProperties
  <2>4. Power(i, (m + 1) + 1) = j * Power(i, m)
    BY <1>0, <2>3
  <2>. QED  BY <2>1, <2>2, <2>4
<1>3. Nat \subseteq T
  <2>. HIDE DEF T
  <2>. QED  BY <1>1, <1>2, Upwards
<1>. QED  BY <1>3 DEF j

LEMMA PowersCongruent ==
  ASSUME NEW a \in Int, NEW b \in Int, Congruent(a, b), NEW k \in Nat
  PROVE  Congruent(Power(a, k), Power(b, k))
<1>. DEFINE T == {n \in Nat : Congruent(Power(a, n), Power(b, n))}
<1>1. 0 \in T
  <2>1. Power(a, 0) = 1 /\ Power(b, 0) = 1
    BY PowerProperties
  <2>2. Congruent(1, 1)
    BY CongruenceProperties
  <2>. QED  BY <2>1, <2>2
<1>2. ASSUME NEW n \in Nat, n \in T
      PROVE  n + 1 \in T
  <2>. DEFINE p == Power(a, n)
              q == Power(b, n)
  <2>1. p \in Int /\ q \in Int /\ Power(a, n + 1) = a * p /\ Power(b, n + 1) = b * q
    BY PowerProperties
  <2>2. Congruent(p, q)
    BY <1>2
  <2>. HIDE DEF p, q
  <2>3. Congruent(a * p, a * q)
    BY <2>1, <2>2, CongruenceProperties
  <2>4. Congruent(a * q, b * q)
    BY <2>1, CongruenceProperties
  <2>5. a * p \in Int /\ a * q \in Int /\ b * q \in Int
    BY <2>1
  <2>6. Congruent(a * p, b * q)
    BY <2>3, <2>4, <2>5, CongruenceProperties
  <2>. QED  BY <2>1, <2>6
<1>3. Nat \subseteq T
  <2>. HIDE DEF T
  <2>. QED  BY <1>1, <1>2, Upwards
<1>. QED  BY <1>3

(* What squaring comes to, but for a multiple of the modulus. *)
LEMMA LoopsCompute ==
  ASSUME NEW f, f = Loops(f), NEW s \in States
  PROVE  /\ f[s] \in Int
         /\ Congruent(f[s], s.result * Power(s.factor, s.power))
         /\ s.result \in Ints(W64) => f[s] \in Ints(W64)
<1>. DEFINE Good(u) == /\ f[u] \in Int
                       /\ Congruent(f[u], u.result * Power(u.factor, u.power))
                       /\ u.result \in Ints(W64) => f[u] \in Ints(W64)
            T == {n \in Nat : \A u \in States : u.power < n => Good(u)}
<1>1. 0 \in T
  BY SquaredProperties
<1>2. ASSUME NEW n \in Nat, n \in T
      PROVE  n + 1 \in T
  <2>. SUFFICES ASSUME NEW u \in States, u.power < n + 1 PROVE Good(u)
    OBVIOUS
  <2>. DEFINE p == u.power
              x == u.factor
              r == u.result
              m == Multiplied(u)
  <2>0. p \in Nat /\ x \in Int /\ r \in Int /\ m \in Int
    BY SquaredProperties
  <2>1. /\ f[u] = IF p < 2 THEN m ELSE f[Squared(u)]
        /\ m = IF p % 2 = 1 THEN Wrap(r * x) ELSE r
    BY Zenon DEF Loops, Multiplied
  <2>2. r * x \in Int /\ Wrap(r * x) \in Int /\ Wrap(r * x) \in Ints(W64)
        /\ Congruent(Wrap(r * x), r * x)
    BY <2>0, WrapProperties
  <2>3. Power(x, 0) = 1 /\ Power(x, 1) = x
    <3>1. Power(x, 0) = 1 /\ Power(x, 0 + 1) = x * Power(x, 0)
      BY <2>0, PowerProperties
    <3>. QED  BY <2>0, <3>1
  <2>4. CASE p = 0
    <3>1. f[u] = r /\ r * Power(x, p) = r
      BY <2>0, <2>1, <2>3, <2>4
    <3>2. Congruent(r, r)
      BY <2>0, CongruenceProperties
    <3>. HIDE DEF r, x, p
    <3>. QED  BY <2>0, <3>1, <3>2 DEF r, x, p
  <2>5. CASE p = 1
    <3>1. f[u] = Wrap(r * x) /\ r * Power(x, p) = r * x
      BY <2>0, <2>1, <2>3, <2>5
    <3>. QED  BY <2>2, <3>1
  <2>6. CASE p >= 2
    <3>. DEFINE t == Squared(u)
                q == p \div 2
                y == Wrap(x * x)
    <3>1. t \in States /\ t.power = q /\ t.factor = y /\ t.result = m /\ t.power < p /\ f[u] = f[t]
      <4>1. t \in States /\ t.power < p
        BY <2>6, SquaredProperties
      <4>2. t.power = q /\ t.factor = y /\ t.result = m
        BY DEF Squared
      <4>3. f[u] = f[t]
        BY <2>0, <2>1, <2>6
      <4>. QED  BY <4>1, <4>2, <4>3
    <3>2. q \in Nat /\ (p % 2 = 1 => p = 2 * q + 1) /\ (p % 2 # 1 => p = 2 * q)
      BY <2>0
    <3>3. y \in Int /\ Congruent(y, x * x) /\ x * x \in Int
      BY <2>0, WrapProperties
    <3>. HIDE DEF t, q, y
    <3>4. Good(t)
      <4>1. t.power \in Nat /\ t.power < n
        BY <2>0, <3>1, <3>2
      <4>. QED  BY <1>2, <3>1, <4>1
    <3>. DEFINE e == Power(x, 2 * q)
                d == Power(y, q)
    <3>5. e \in Int /\ d \in Int /\ Congruent(d, e)
      <4>1. Power(x * x, q) = e /\ 2 * q \in Nat
        BY <2>0, <3>2, PowerOfSquare
      <4>2. e \in Int /\ d \in Int
        BY <2>0, <3>2, <3>3, <4>1, PowerProperties
      <4>3. Congruent(d, Power(x * x, q))
        BY <3>2, <3>3, PowersCongruent
      <4>. QED  BY <4>1, <4>2, <4>3
    <3>6. f[t] \in Int /\ Congruent(f[t], m * d) /\ (m \in Ints(W64) => f[t] \in Ints(W64))
      BY <3>1, <3>4
    <3>7. CASE p % 2 = 1
      <4>1. m = Wrap(r * x) /\ Power(x, p) = x * e
        <5>1. 2 * q \in Nat
          BY <3>2
        <5>2. Power(x, 2 * q + 1) = x * e
          BY <2>0, <5>1, PowerProperties
        <5>. QED  BY <2>1, <3>2, <3>7, <5>2
      <4>. HIDE DEF e, d, m, x, r, p
      <4>2. r * (x * e) = (r * x) * e
        BY <2>0, <3>5
      <4>3. Congruent(m * d, m * e) /\ Congruent(m * e, (r * x) * e)
        <5>1. Congruent(m, r * x)
          BY <2>2, <4>1
        <5>. QED  BY <2>0, <2>2, <3>5, <5>1, CongruentProducts
      <4>4. m * d \in Int /\ m * e \in Int /\ (r * x) * e \in Int
        BY <2>0, <3>5
      <4>5. Congruent(m * d, (r * x) * e)
        BY <4>3, <4>4, CongruenceProperties
      <4>6. Congruent(f[t], (r * x) * e)
        BY <3>6, <4>4, <4>5, CongruenceProperties
      <4>. QED  BY <2>2, <3>1, <3>6, <4>1, <4>2, <4>6 DEF r, x, p
    <3>8. CASE p % 2 # 1
      <4>1. m = r /\ Power(x, p) = e
        BY <2>1, <3>2, <3>8
      <4>. HIDE DEF e, d, m, x, r, p
      <4>2. Congruent(r * d, r * e) /\ r * d \in Int /\ r * e \in Int
        <5>1. Congruent(r * d, r * e)
          BY <2>0, <3>5, CongruentProducts
        <5>. QED  BY <2>0, <3>5, <5>1
      <4>3. Congruent(f[t], r * e)
        BY <3>6, <4>1, <4>2, CongruenceProperties
      <4>. QED  BY <3>1, <3>6, <4>1, <4>3 DEF r, x, p
    <3>. QED  BY <3>7, <3>8
  <2>. QED  BY <2>0, <2>4, <2>5, <2>6
<1>3. Nat \subseteq T
  <2>. HIDE DEF T
  <2>. QED  BY <1>1, <1>2, Upwards
<1>4. s.power \in Nat /\ s.power + 1 \in Nat
  BY SquaredProperties
<1>5. s.power + 1 \in T
  <2>. HIDE DEF T
  <2>. QED  BY <1>3, <1>4
<1>. QED  BY <1>4, <1>5

(* Repeated squaring, where the factor and the result wrap at every step,  *)
(* ends for every exponent and gives the power of the integers, wrapped    *)
(* once (llvm_runtime.c:2916).                                             *)
THEOREM SquaringComputesThePower ==
  ASSUME NEW base \in Int, NEW exponent \in Nat
  PROVE  ds_int_pow_i64(base, exponent) = Wrap(Power(base, exponent))
<1>. DEFINE s == [power |-> exponent, factor |-> base, result |-> 1]
<1>1. PICK loop : ds_int_pow_i64(base, exponent) = loop[s] /\ loop = Loops(loop)
  BY LoopIsLoops
<1>2. s \in States /\ s.result = 1 /\ s.factor = base /\ s.power = exponent
  BY DEF States
<1>. DEFINE p == Power(base, exponent)
<1>3. p \in Int
  BY PowerProperties
<1>. HIDE DEF s, p
<1>4. loop[s] \in Int /\ Congruent(loop[s], 1 * p) /\ loop[s] \in Ints(W64)
  BY <1>1, <1>2, LoopsCompute, OneFits DEF p
<1>5. Wrap(loop[s]) = Wrap(p) /\ Wrap(loop[s]) = loop[s]
  <2>1. 1 * p = p
    BY <1>3
  <2>. QED  BY <1>3, <1>4, <2>1, WrapsAlike, WrapFits
<1>. QED  BY <1>1, <1>5 DEF p


LEMMA IntegerBoxes ==
  ASSUME NEW l, NEW r, IsInt(l), IsInt(r)
  PROVE  /\ BothInts(l, r) /\ ~OneFloat(l, r)
         /\ mul(l, r) = box_i64(l.i * r.i) /\ sub(l, r) = box_i64(l.i - r.i)
         /\ negate(l) = box_i64(-l.i)
         /\ shl(l, r) = {box_i64(l.i * Power(2, r.i % W64))}
         /\ shr(l, r) = {Int64(l.i \div Power(2, r.i % W64))}
         /\ r.i \in Nat => pow(l, r) = {Int64(ds_int_pow_i64(l.i, r.i))}
<1>1. BothInts(l, r) /\ ~OneFloat(l, r)
  BY PairsOfNumbers
<1>2. unbox_i64(l) = {l.i} /\ unbox_i64(r) = {r.i}
  BY KindsOfNumbers
<1>3. mul(l, r) = box_i64(l.i * r.i) /\ sub(l, r) = box_i64(l.i - r.i)
  BY <1>1 DEF mul, sub, Numeric
<1>4. negate(l) = box_i64(-l.i)
  BY DEF negate
<1>5. /\ shl(l, r) = {box_i64(l.i * Power(2, r.i % W64))}
      /\ shr(l, r) = {Int64(l.i \div Power(2, r.i % W64))}
  BY <1>2 DEF shl, shr
<1>6. r.i \in Nat => pow(l, r) = {Int64(ds_int_pow_i64(l.i, r.i))}
  BY <1>1 DEF pow
<1>. QED  BY <1>1, <1>3, <1>4, <1>5, <1>6

(* Multiplying again and again by an integer. *)
LEMMA ProductsCompute ==
  ASSUME NEW l, IsInt(l), l.i \in Int, NEW product,
         product = [i \in Nat |-> IF i = 0 THEN Int64(1) ELSE mul(product[i - 1], l)]
  PROVE  \A k \in Nat : product[k] = Int64(Wrap(Power(l.i, k)))
<1>. DEFINE T == {k \in Nat : product[k] = Int64(Wrap(Power(l.i, k)))}
            x == l.i
<1>1. 0 \in T
  <2>1. Power(x, 0) = 1
    BY PowerProperties
  <2>2. Wrap(1) = 1
    BY OneFits, WrapFits
  <2>. QED  BY <2>1, <2>2
<1>2. ASSUME NEW k \in Nat, k \in T
      PROVE  k + 1 \in T
  <2>. DEFINE p == Power(x, k)
              w == Wrap(p)
  <2>1. product[k + 1] = mul(product[k], l)
    <3>1. k + 1 \in Nat /\ k + 1 # 0 /\ (k + 1) - 1 = k
      OBVIOUS
    <3>. QED  BY <3>1, Zenon
  <2>2. product[k] = Int64(w) /\ IsInt(Int64(w)) /\ Int64(w).i = w
    BY <1>2, BoxesAlike
  <2>3. p \in Int /\ Power(x, k + 1) = x * p
    BY PowerProperties
  <2>4. w \in Int /\ Congruent(w, p)
    BY <2>3, WrapProperties
  <2>. HIDE DEF p, w, x
  <2>5. product[k + 1] = Int64(Wrap(w * x))
    <3>1. mul(Int64(w), l) = box_i64(w * x)
      BY <2>2, IntegerBoxes DEF x
    <3>. QED  BY <2>1, <2>2, <3>1 DEF box_i64
  <2>6. Wrap(w * x) = Wrap(p * x) /\ p * x = x * p
    <3>0. x \in Int
      BY DEF x
    <3>1. Congruent(w * x, p * x) /\ w * x \in Int /\ p * x \in Int
      BY <2>3, <2>4, <3>0, CongruentProducts
    <3>. QED  BY <2>3, <3>0, <3>1, WrapsAlike
  <2>. QED  BY <2>3, <2>5, <2>6 DEF x
<1>3. Nat \subseteq T
  <2>. HIDE DEF T
  <2>. QED  BY <1>1, <1>2, Upwards
<1>. QED  BY <1>3

LEMMA ProductExists ==
  ASSUME NEW l, IsInt(l), l.i \in Int
  PROVE  \E product : product = [i \in Nat |-> IF i = 0 THEN Int64(1) ELSE mul(product[i - 1], l)]
<1>. DEFINE S == {Int64(i) : i \in Int}
            step == [v \in S |-> mul(v, l)]
<1>1. step \in [S -> S] /\ Int64(1) \in S
  <2>1. ASSUME NEW v \in S
        PROVE  mul(v, l) \in S
    <3>1. PICK i \in Int : v = Int64(i)
      OBVIOUS
    <3>2. mul(v, l) = Int64(Wrap(i * l.i))
      BY <3>1, BoxesAlike, IntegerBoxes DEF box_i64
    <3>3. Wrap(i * l.i) \in Int
      BY WrapProperties
    <3>. QED  BY <3>2, <3>3
  <2>. QED  BY <2>1
<1>. HIDE DEF S
<1>2. PICK f : Iterated(S, Int64(1), step, f)
  <2>. HIDE DEF step
  <2>. QED  BY <1>1, IterationExists
<1>3. f \in [Nat -> S] /\ f[0] = Int64(1) /\ \A k \in Nat : f[k + 1] = mul(f[k], l)
  BY <1>2 DEF Iterated
<1>4. \A k \in Nat : f[k] = IF k = 0 THEN Int64(1) ELSE mul(f[k - 1], l)
  <2>. SUFFICES ASSUME NEW k \in Nat, k # 0 PROVE f[k] = mul(f[k - 1], l)
    BY <1>3
  <2>1. k - 1 \in Nat /\ (k - 1) + 1 = k
    OBVIOUS
  <2>. QED  BY <1>3, <2>1
<1>5. f = [i \in Nat |-> f[i]]
  BY <1>3
<1>. QED  BY <1>4, <1>5

(* A power is the repeated product, wrapped or not; a shift is a product,  *)
(* or a floor, by a power of two; and the minus sign is a difference       *)
(* (llvm_runtime.c:2724-3016).                                             *)
LEMMA PowersOfIntegersAgree ==
  ASSUME \A n \in {1, 2} : IsInt(operands[n]) => operands[n].i \in Int
  PROVE  PowersAgree
<1>. DEFINE l == operands[1]
            k == operands[2]
            Rec(f) == [i \in Nat |-> IF i = 0 THEN Int64(1) ELSE mul(f[i - 1], l)]
            product == CHOOSE f : f = Rec(f)
            two == Int64(ds_int_pow_i64(2, k.i))
<1>. SUFFICES ASSUME BothInts(l, k), k.i >= 0
              PROVE  /\ pow(l, k) = {product[k.i]}
                     /\ k.i < W64 => shl(l, k) = {mul(l, two)}
                     /\ k.i < W64 - 1 => shr(l, k) = {floor_div(l, two)}
                     /\ negate(l) = sub(Int32(0), l)
  BY Zenon DEF PowersAgree
<1>1. IsInt(l) /\ IsInt(k) /\ l.i \in Int /\ k.i \in Nat
  <2>1. IsInt(l) /\ IsInt(k)
    BY DEF BothInts
  <2>. QED  BY <2>1
<1>. DEFINE p == Power(2, k.i)
<1>2. p \in Nat \ {0}
  BY <1>1, PowerPositive
<1>3. pow(l, k) = {product[k.i]}
  <2>1. \E f : f = Rec(f)
    BY <1>1, ProductExists
  <2>2. product = Rec(product)
    BY <2>1, Zenon
  <2>3. pow(l, k) = {Int64(Wrap(Power(l.i, k.i)))}
    BY <1>1, IntegerBoxes, SquaringComputesThePower
  <2>. HIDE DEF product, l, k
  <2>. QED  BY <1>1, <2>2, <2>3, ProductsCompute
<1>. HIDE DEF l, k, product
<1>4. two = Int64(Wrap(p)) /\ IsInt(two) /\ two.i = Wrap(p)
  <2>1. ds_int_pow_i64(2, k.i) = Wrap(p)
    BY <1>1, SquaringComputesThePower
  <2>. QED  BY <2>1, BoxesAlike
<1>. HIDE DEF two, p
<1>5. ASSUME k.i < W64
      PROVE  shl(l, k) = {mul(l, two)}
  <2>1. k.i % W64 = k.i
    BY <1>1, <1>5, Widths
  <2>2. shl(l, k) = {Int64(Wrap(l.i * p))}
    BY <1>1, <2>1, IntegerBoxes DEF box_i64, p
  <2>3. mul(l, two) = Int64(Wrap(l.i * two.i))
    BY <1>1, <1>4, IntegerBoxes DEF box_i64
  <2>. DEFINE w == Wrap(p)
  <2>4. p \in Int /\ w \in Int /\ Congruent(w, p)
    BY <1>2, WrapProperties
  <2>. HIDE DEF w
  <2>5. Congruent(l.i * w, l.i * p) /\ l.i * w \in Int /\ l.i * p \in Int
    <3>1. Congruent(l.i * w, l.i * p)
      BY <1>1, <2>4, CongruentProducts
    <3>. QED  BY <1>1, <2>4, <3>1
  <2>6. Wrap(l.i * w) = Wrap(l.i * p)
    BY <2>5, WrapsAlike
  <2>. QED  BY <1>4, <2>2, <2>3, <2>6 DEF w
<1>6. ASSUME k.i < W64 - 1
      PROVE  shr(l, k) = {floor_div(l, two)}
  <2>1. k.i % W64 = k.i
    BY <1>1, <1>6, Widths
  <2>2. p \in Ints(W64)
    <3>1. W64 - 1 \in Nat
      BY Widths
    <3>2. 2 * p <= Power(2, W64 - 1)
      BY <1>1, <1>6, <3>1, PowerGrows DEF p
    <3>. QED  BY <1>2, <3>2, Widths
  <2>3. two.i = p /\ two.i # 0 /\ two.i # -1
    BY <1>2, <1>4, <2>2, WrapFits
  <2>4. ~IsZero(two) /\ ~Overflows(l.i, two.i)
    BY <1>4, <2>3, KindsOfNumbers DEF IsZero, Overflows, IsInt, Float
  <2>5. floor_div(l, two) = Int64(ds_int_floor_div(l.i, p))
    BY <1>1, <1>4, <2>3, <2>4, IntegerBoxes DEF floor_div, Numeric
  <2>6. shr(l, k) = {Int64(l.i \div p)}
    BY <1>1, <2>1, IntegerBoxes DEF p
  <2>7. ds_int_floor_div(l.i, p) = l.i \div p
    BY <1>1, <1>2, FloorIsUnique
  <2>. QED  BY <2>5, <2>6, <2>7
<1>7. negate(l) = sub(Int32(0), l)
  <2>1. IsInt(Int32(0)) /\ Int32(0).i = 0
    BY BoxesAlike
  <2>2. sub(Int32(0), l) = box_i64(0 - l.i)
    BY <1>1, <2>1, IntegerBoxes
  <2>3. negate(l) = box_i64(-l.i)
    BY <1>1, IntegerBoxes
  <2>4. 0 - l.i = -l.i
    BY <1>1
  <2>. QED  BY <2>2, <2>3, <2>4
<1>. QED  BY <1>3, <1>5, <1>6, <1>7

-----------------------------------------------------------------------------
(* What the operators make                                                 *)

LEMMA FailuresUnused == ~Used(RAISED) /\ ~Used(DEAD)
BY DEF Used, RAISED, DEAD

LEMMA IntegerMade ==
  ASSUME NEW i \in Ints(W64)
  PROVE  Value(Int32(i)) /\ Value(Int64(i))
BY WrapFits DEF Value, Int32, Int64, IsInt, IsFloat

LEMMA Boxed64Made ==
  ASSUME NEW i \in Int
  PROVE  Value(box_i64(i))
BY WrapProperties, IntegerMade DEF box_i64

LEMMA BoolMade ==
  ASSUME NEW b \in BOOLEAN
  PROVE  Value(Bool(b))
BY DEF Value, Bool, IsInt, IsFloat

LEMMA StringMade ==
  ASSUME NEW s \in Seq(Bytes)
  PROVE  Value(Str(s))
BY DEF Value, Str, IsInt, IsFloat

LEMMA FloatIsValue ==
  ASSUME NEW f \in Floats
  PROVE  Value(f)
<1>1. IsFloat(f) /\ ~IsInt(f)
  BY FloatKind
<1>. QED  BY <1>1 DEF Value, IsFloat

(* The three outcomes of sub, mul, div, mod and floor_div. *)
LEMMA NumericCases ==
  ASSUME NEW l, NEW r
  PROVE  \/ OneFloat(l, r) /\ ~BothInts(l, r)
         \/ BothInts(l, r) /\ ~OneFloat(l, r) /\ IsInt(l) /\ IsInt(r)
         \/ ~OneFloat(l, r) /\ ~BothInts(l, r)
BY DEF OneFloat, BothInts, BothBoxed, IsInt, IsFloat

LEMMA TextOfValue ==
  ASSUME NEW v, Value(v)
  PROVE  to_string(v) \in Seq(Bytes)
<1>1. Formatted \in Bytes
  <2>1. W8 \in Nat /\ W8 # 0
    BY WidthsAssumption
  <2>2. Power(2, 0) = 1
    BY PowerProperties
  <2>3. 2 * Power(2, 0) <= Power(2, W8)
    BY <2>1, PowerGrows
  <2>4. Power(2, W8) \in Int
    BY <2>1, PowerProperties
  <2>. QED  BY <2>2, <2>3, <2>4 DEF Formatted, Bytes
<1>2. <<>> \in Seq(Bytes) /\ <<Formatted>> \in Seq(Bytes)
  BY <1>1
<1>. QED  BY <1>2, ValuesUnboxed DEF to_string, ds_is_boxed, Value

LEMMA AddMakes ==
  ASSUME NEW l, NEW r, Value(l), Value(r), Used(add(l, r))
  PROVE  Value(add(l, r))
<1>1. CASE ~ds_is_boxed(l)
  <2>1. to_string(l) \o to_string(r) \in Seq(Bytes)
    BY TextOfValue, ConcatProperties
  <2>2. add(l, r) = Str(to_string(l) \o to_string(r))
    <3>1. ~BothInts(l, r) /\ ~IsFloat(l)
      BY <1>1 DEF BothInts, IsInt, IsFloat, ds_is_boxed
    <3>. QED  BY <1>1, <3>1, Zenon DEF add
  <2>. QED  BY <2>1, <2>2, StringMade
<1>2. CASE ds_is_boxed(l) /\ BothInts(l, r)
  <2>1. add(l, r) = box_i64(l.i + r.i)
    <3>1. ~(IsFloat(l) /\ IsFloat(r))
      BY <1>2 DEF BothInts, IsInt, IsFloat
    <3>. QED  BY <1>2, <3>1, Zenon DEF add
  <2>2. l.i \in Int /\ r.i \in Int
    BY <1>2, ValuesUnboxed DEF BothInts
  <2>3. l.i + r.i \in Int
    BY <2>2
  <2>. QED  BY <2>1, <2>3, Boxed64Made
<1>3. CASE ds_is_boxed(l) /\ ~BothInts(l, r) /\ IsFloat(l) /\ IsFloat(r)
  <2>1. add(l, r) = FloatSum(l, r)
    BY <1>3, Zenon DEF add
  <2>. QED  BY <1>3, <2>1, ValuesUnboxed, FloatOperations, FloatIsValue
<1>4. CASE ds_is_boxed(l) /\ ~BothInts(l, r) /\ ~(IsFloat(l) /\ IsFloat(r))
  <2>1. add(l, r) = RAISED
    BY <1>4 DEF add
  <2>. QED  BY <2>1, FailuresUnused
<1>. QED  BY <1>1, <1>2, <1>3, <1>4

LEMMA ProductsMake ==
  ASSUME NEW l, NEW r, Value(l), Value(r)
  PROVE  /\ Used(sub(l, r)) => Value(sub(l, r))
         /\ Used(mul(l, r)) => Value(mul(l, r))
<1>. DEFINE a == unbox_float(l)
            b == unbox_float(r)
<1>1. /\ a \in Floats /\ b \in Floats
      /\ IsInt(l) => l.i \in Int
      /\ IsInt(r) => r.i \in Int
  BY ValuesUnboxed
<1>2. CASE OneFloat(l, r) /\ ~BothInts(l, r)
  <2>1. sub(l, r) = FloatSum(a, FloatNegated(b)) /\ mul(l, r) = FloatProduct(a, b)
    BY <1>2 DEF sub, mul, Numeric
  <2>. HIDE DEF a, b
  <2>2. sub(l, r) \in Floats /\ mul(l, r) \in Floats
    BY <1>1, <2>1, FloatOperations
  <2>. QED  BY <2>2, FloatIsValue
<1>3. CASE BothInts(l, r) /\ ~OneFloat(l, r) /\ IsInt(l) /\ IsInt(r)
  <2>1. sub(l, r) = box_i64(l.i - r.i) /\ mul(l, r) = box_i64(l.i * r.i)
    BY <1>3 DEF sub, mul, Numeric
  <2>2. l.i - r.i \in Int /\ l.i * r.i \in Int
    BY <1>1, <1>3
  <2>. QED  BY <2>1, <2>2, Boxed64Made
<1>4. CASE ~OneFloat(l, r) /\ ~BothInts(l, r)
  <2>1. sub(l, r) = RAISED /\ mul(l, r) = RAISED
    BY <1>4 DEF sub, mul, Numeric
  <2>. QED  BY <2>1, FailuresUnused
<1>. QED  BY <1>2, <1>3, <1>4, NumericCases

LEMMA DivisionsMake ==
  ASSUME NEW l, NEW r, Value(l), Value(r)
  PROVE  /\ Used(div(l, r)) => Value(div(l, r))
         /\ Used(mod(l, r)) => Value(mod(l, r))
         /\ Used(floor_div(l, r)) => Value(floor_div(l, r))
<1>. DEFINE a == unbox_float(l)
            b == unbox_float(r)
<1>1. /\ a \in Floats /\ b \in Floats
      /\ IsInt(l) => l.i \in Ints(W64)
      /\ IsInt(r) => r.i \in Ints(W64)
  BY ValuesUnboxed
<1>2. CASE IsZero(r) \/ (~OneFloat(l, r) /\ ~BothInts(l, r))
  <2>1. div(l, r) = RAISED /\ mod(l, r) = RAISED /\ floor_div(l, r) = RAISED
    BY <1>2 DEF div, mod, floor_div, Numeric
  <2>. QED  BY <2>1, FailuresUnused
<1>3. CASE ~IsZero(r) /\ OneFloat(l, r) /\ ~BothInts(l, r)
  <2>1. /\ div(l, r) = FloatQuotient(a, b)
        /\ mod(l, r) = fmod(a, b)
        /\ floor_div(l, r) = floor(FloatQuotient(a, b))
    BY <1>3 DEF div, mod, floor_div, Numeric
  <2>. HIDE DEF a, b
  <2>2. div(l, r) \in Floats /\ mod(l, r) \in Floats /\ floor_div(l, r) \in Floats
    BY <1>1, <2>1, FloatOperations
  <2>. QED  BY <2>2, FloatIsValue
<1>4. CASE ~IsZero(r) /\ BothInts(l, r) /\ ~OneFloat(l, r) /\ IsInt(l) /\ IsInt(r)
  <2>1. r.i # 0
    BY <1>4 DEF IsZero
  <2>2. Used(div(l, r)) => Value(div(l, r))
    <3>1. div(l, r) = FloatQuotient(a, b)
      BY <1>4 DEF div, Numeric
    <3>. HIDE DEF a, b
    <3>. QED  BY <1>1, <3>1, FloatOperations, FloatIsValue
  <2>3. CASE Overflows(l.i, r.i)
    <3>1. mod(l, r) = DEAD /\ floor_div(l, r) = DEAD
      BY <1>4, <2>3 DEF mod, floor_div, Numeric
    <3>. QED  BY <2>2, <3>1, FailuresUnused
  <2>4. CASE ~Overflows(l.i, r.i)
    <3>1. mod(l, r) = Int64(TruncMod(l.i, r.i)) /\ floor_div(l, r) = Int64(ds_int_floor_div(l.i, r.i))
      BY <1>4, <2>4 DEF mod, floor_div, Numeric
    <3>2. TruncMod(l.i, r.i) \in Ints(W64) /\ ds_int_floor_div(l.i, r.i) \in Ints(W64)
      BY <1>1, <1>4, <2>1, <2>4, DivisionFits
    <3>. QED  BY <2>2, <3>1, <3>2, IntegerMade
  <2>. QED  BY <2>3, <2>4
<1>. QED  BY <1>2, <1>3, <1>4, NumericCases

LEMMA PowMakes ==
  ASSUME NEW l, NEW r, Value(l), Value(r), NEW v \in pow(l, r), Used(v)
  PROVE  Value(v)
<1>1. CASE BothInts(l, r) /\ r.i >= 0
  <2>1. l.i \in Int /\ r.i \in Nat
    BY <1>1, ValuesUnboxed DEF BothInts
  <2>2. v = Int64(Wrap(Power(l.i, r.i)))
    <3>1. ~OneFloat(l, r)
      BY <1>1, NumericCases
    <3>2. pow(l, r) = {Int64(ds_int_pow_i64(l.i, r.i))}
      BY <1>1, <2>1, <3>1 DEF pow
    <3>. QED  BY <2>1, <3>2, SquaringComputesThePower
  <2>3. Wrap(Power(l.i, r.i)) \in Ints(W64)
    BY <2>1, PowerProperties, WrapProperties
  <2>. QED  BY <2>2, <2>3, IntegerMade
<1>2. CASE ~(BothInts(l, r) /\ r.i >= 0)
  <2>1. v \in Floats \cup {RAISED}
    BY <1>2 DEF pow
  <2>. QED  BY <2>1, FailuresUnused, FloatIsValue
<1>. QED  BY <1>1, <1>2

(* Shifting to the right stays within 64 bits. *)
LEMMA QuotientFits ==
  ASSUME NEW i \in Ints(W64), NEW p \in Nat \ {0}
  PROVE  i \div p \in Ints(W64)
<1>. DEFINE q == i \div p
            m == i % p
<1>0. i \in Int
  BY WrapFits
<1>1. q \in Int /\ m \in 0 .. p - 1 /\ i = p * q + m
  BY <1>0
<1>. HIDE DEF q, m
<1>2. CASE q >= 0
  <2>1. p * q >= q
    BY <1>1, <1>2
  <2>2. 0 <= q /\ q <= i
    BY <1>0, <1>1, <1>2, <2>1
  <2>. QED  BY <1>0, <1>1, <2>2, OneFits, Widths DEF q
<1>3. CASE q < 0
  <2>. DEFINE h == -q - 1
  <2>1. h \in Nat /\ q = -h - 1
    BY <1>1, <1>3
  <2>. HIDE DEF h
  <2>2. p * q = -(p * h) - p /\ p * h \in Int
    BY <1>1, <2>1
  <2>3. p * h >= h
    BY <2>1
  <2>4. i <= q /\ q < 0
    BY <1>0, <1>1, <2>1, <2>2, <2>3
  <2>. QED  BY <1>0, <1>1, <2>4, OneFits, Widths DEF q
<1>. QED  BY <1>1, <1>2, <1>3

LEMMA ShiftsMake ==
  ASSUME NEW l, NEW r, Value(l), Value(r), NEW v \in shl(l, r) \cup shr(l, r)
  PROVE  Value(v)
<1>1. PICK i \in unbox_i64(l), b \in unbox_i64(r) :
        v = box_i64(i * Power(2, b % W64)) \/ v = Int64(i \div Power(2, b % W64))
  BY DEF shl, shr
<1>. DEFINE p == Power(2, b % W64)
<1>2. i \in Ints(W64) /\ i \in Int /\ b \in Int
  BY <1>1, ValuesUnboxed, WrapFits
<1>3. b % W64 \in Nat
  BY <1>2, Widths
<1>4. p \in Nat \ {0}
  BY <1>3, PowerPositive
<1>5. v = box_i64(i * p) \/ v = Int64(i \div p)
  BY <1>1
<1>. HIDE DEF p
<1>6. i * p \in Int
  BY <1>2, <1>4
<1>7. i \div p \in Ints(W64)
  BY <1>2, <1>4, QuotientFits
<1>. QED  BY <1>5, <1>6, <1>7, Boxed64Made, IntegerMade

LEMMA OrdersMake ==
  ASSUME NEW l, NEW r, Value(l), Value(r)
  PROVE  /\ Value(cmp(l, r))
         /\ Used(gt(l, r)) => Value(gt(l, r))
         /\ Value(eq(l, r))
<1>1. \A i \in {-1, 0, 1} : Value(Int64(i))
  BY OneFits, IntegerMade
<1>2. CASE Comparable(l, r) /\ NaN \notin {l, r}
  <2>1. InOrder(l, r, Order(l, r))
    BY <1>2, ComparedInOrder
  <2>. DEFINE o == Order(l, r)
  <2>2. /\ o \in {-1, 0, 1} /\ cmp(l, r) = Int64(o) /\ gt(l, r) = Bool(o > 0)
        /\ eq(l, r) = Bool(o = 0)
    BY <2>1 DEF InOrder
  <2>. HIDE DEF o
  <2>3. (o > 0) \in BOOLEAN /\ (o = 0) \in BOOLEAN
    OBVIOUS
  <2>. QED  BY <1>1, <2>2, <2>3, BoolMade
<1>3. CASE Comparable(l, r) /\ NaN \in {l, r}
  BY <1>1, <1>3, ComparedWithNaN, BoolMade
<1>4. CASE ~Comparable(l, r)
  <2>1. ~BothInts(l, r)
    BY <1>4, Kinds DEF Number, BothInts
  <2>2. CASE OneFloat(l, r)
    <3>. DEFINE a == unbox_float(l)
                b == unbox_float(r)
                s == IF NaN \in {a, b} THEN 0 ELSE Signum(a.u - b.u)
    <3>0. ~BothUnboxed(l, r)
      BY <2>2 DEF OneFloat, BothBoxed, BothUnboxed
    <3>1. cmp(l, r) = Int64(s)
      BY <2>1, <2>2, <3>0 DEF cmp
    <3>2. s \in {-1, 0, 1}
      <4>1. a \in Floats /\ b \in Floats
        BY ValuesUnboxed
      <4>2. NaN \notin {a, b} => a.u \in Int /\ b.u \in Int
        BY <4>1, FloatKind
      <4>. HIDE DEF a, b
      <4>. QED  BY <4>2, SignsOfDifferences
    <3>3. /\ gt(l, r) = Bool(Differ(a, b, LAMBDA t : t > 0))
          /\ eq(l, r) = Bool(Differ(a, b, LAMBDA t : t = 0))
      BY <2>1, <2>2, <3>0 DEF gt, Compared, eq
    <3>4. /\ Differ(a, b, LAMBDA t : t > 0) \in BOOLEAN
          /\ Differ(a, b, LAMBDA t : t = 0) \in BOOLEAN
      BY DEF Differ
    <3>. HIDE DEF a, b, s
    <3>. QED  BY <1>1, <3>1, <3>2, <3>3, <3>4, BoolMade
  <2>3. CASE ~OneFloat(l, r)
    <3>1. ~BothUnboxed(l, r) \/ NULL \in {l, r}
      BY <1>4 DEF Comparable, BothUnboxed, ds_is_boxed, Value
    <3>2. cmp(l, r) = Int64(0) /\ eq(l, r) = Bool(case_compare(l, r))
          /\ gt(l, r) \in {DEAD, Bool(FALSE)}
      BY <2>1, <2>3, <3>1 DEF cmp, gt, Compared, eq
    <3>3. case_compare(l, r) \in BOOLEAN
      BY DEF case_compare
    <3>. QED  BY <1>1, <3>2, <3>3, BoolMade, FailuresUnused
  <2>. QED  BY <2>2, <2>3
<1>. QED  BY <1>2, <1>3, <1>4

LEMMA NegateMakes ==
  ASSUME NEW v, Value(v), Used(negate(v))
  PROVE  Value(negate(v))
<1>1. CASE IsInt(v)
  <2>1. v.i \in Int
    BY <1>1, ValuesUnboxed
  <2>2. negate(v) = box_i64(-v.i) /\ -v.i \in Int
    BY <1>1, <2>1 DEF negate
  <2>. QED  BY <2>2, Boxed64Made
<1>2. CASE ~IsInt(v) /\ IsFloat(v)
  <2>1. negate(v) = FloatNegated(v)
    BY <1>2 DEF negate
  <2>. QED  BY <1>2, <2>1, ValuesUnboxed, FloatOperations, FloatIsValue
<1>3. CASE ~IsInt(v) /\ ~IsFloat(v)
  BY <1>3, FailuresUnused DEF negate
<1>. QED  BY <1>1, <1>2, <1>3

(* No operator makes anything but a value of those an operator takes.      *)
LEMMA ResultsAreValues ==
  ASSUME NEW l, NEW r, Value(l), Value(r), NEW result \in Results(l, r), Used(result)
  PROVE  Value(result)
<1>1. result \in {add(l, r), sub(l, r), mul(l, r)} => Value(result)
  BY AddMakes, ProductsMake
<1>2. result \in {div(l, r), mod(l, r), floor_div(l, r)} => Value(result)
  BY DivisionsMake
<1>3. result \in pow(l, r) \cup shl(l, r) \cup shr(l, r) => Value(result)
  BY PowMakes, ShiftsMake
<1>4. result \in {cmp(l, r), gt(l, r), eq(l, r), negate(l)} => Value(result)
  BY OrdersMake, NegateMakes
<1>. QED  BY <1>1, <1>2, <1>3, <1>4 DEF Results

LEMMA LiteralsAreValues ==
  ASSUME NEW m \in Literals
  PROVE  Value(m)
<1>1. ASSUME NEW i \in Ints(W32), m = Int32(i)
      PROVE  Value(m)
  <2>1. W32 \in Nat \ {0, 1} /\ W32 <= W64
    BY WidthsAssumption
  <2>2. Power(2, W32 - 1) \in Nat /\ Power(2, W32 - 1) <= Power(2, W64 - 1)
    <3>1. W32 - 1 \in Nat /\ W64 - 1 \in Nat
      BY <2>1, Widths
    <3>2. Power(2, W32 - 1) \in Nat
      BY <3>1, PowerPositive
    <3>3. W32 < W64 => 2 * Power(2, W32 - 1) <= Power(2, W64 - 1)
      <4>1. W32 < W64 => W64 - 1 > W32 - 1
        BY <2>1, Widths
      <4>. QED  BY <3>1, <4>1, PowerGrows
    <3>4. W32 = W64 \/ W32 < W64
      BY <2>1, Widths
    <3>. QED  BY <3>2, <3>3, <3>4, Widths
  <2>3. i \in Ints(W64)
    BY <1>1, <2>2, Widths DEF Ints, Least, Greatest
  <2>. QED  BY <1>1, <2>3, IntegerMade
<1>2. ASSUME NEW u \in Doubles, m = Float(u)
      PROVE  Value(m)
  BY <1>2, DoubleFloat, FloatIsValue
<1>3. CASE m \in {Bool(TRUE), NULL}
  <2>1. Value(NULL)
    BY DEF Value, NULL, IsInt, IsFloat
  <2>2. Value(Bool(TRUE))
    BY BoolMade
  <2>. QED  BY <1>3, <2>1, <2>2
<1>4. ASSUME NEW s \in Texts, m = Str(s)
      PROVE  Value(m)
  BY <1>4, TextsAssumption, StringMade
<1>. QED  BY <1>1, <1>2, <1>3, <1>4 DEF Literals

-----------------------------------------------------------------------------
(* Every state of a computation                                            *)

(* The inductive invariant: a pair of values. *)
OperandsAreValues ==
  /\ operands = <<operands[1], operands[2]>>
  /\ Value(operands[1])
  /\ Value(operands[2])

(* Whatever a program computes from its literals and goes on computing     *)
(* with, infinities and NaN among them, is an integer of 64 bits, a        *)
(* double or a string of bytes (llvm_runtime.c:2594-3215): what wraps is   *)
(* wrapped, and what is rounded is a double.                               *)
THEOREM OperandsStayValues == OperatorsSpec => []OperandsAreValues
<1>1. OperatorsInit => OperandsAreValues
  <2>. SUFFICES ASSUME OperatorsInit PROVE OperandsAreValues
    OBVIOUS
  <2>1. PICK l \in Literals, r \in Literals : operands = <<l, r>>
    BY DEF OperatorsInit
  <2>. QED  BY <2>1, LiteralsAreValues DEF OperandsAreValues
<1>2. OperandsAreValues /\ [Operate]_operands => OperandsAreValues'
  <2>. SUFFICES ASSUME OperandsAreValues, [Operate]_operands
                PROVE  OperandsAreValues'
    OBVIOUS
  <2>1. CASE Operate
    <3>1. PICK result \in Results(operands[1], operands[2]) :
            Used(result) /\ operands' \in {<<result, operands[2]>>, <<operands[2], result>>}
      BY <2>1 DEF Operate
    <3>2. Value(result) /\ Value(operands[2])
      BY <3>1, ResultsAreValues DEF OperandsAreValues
    <3>3. operands' = <<result, operands[2]>> \/ operands' = <<operands[2], result>>
      BY <3>1
    <3>. QED  BY <3>2, <3>3 DEF OperandsAreValues
  <2>2. CASE UNCHANGED operands
    BY <2>2 DEF OperandsAreValues
  <2>. QED  BY <2>1, <2>2
<1>. QED  BY <1>1, <1>2, PTL DEF OperatorsSpec

(* In every state of every computation the nine functions that compare     *)
(* (llvm_runtime.c:2327, :3018-3215) are one order on strings, and one on  *)
(* the numbers but NaN, strict where no integer of more bits than a double *)
(* meets one.                                                              *)
THEOREM OrdersAlwaysAgree == OperatorsSpec => []OrdersAgree
<1>1. OperandsAreValues => OrdersAgree
  BY LiteralsAreValues, ResultsAreValues, OrdersOfValuesAgree DEF OperandsAreValues
<1>. QED  BY <1>1, OperandsStayValues, PTL

(* In every state of every computation the quotient is the floor, the      *)
(* remainder has the sign of the dividend, and integers of no more bits    *)
(* than a double give the same as doubles, though that quotient is rounded *)
(* twice (llvm_runtime.c:2873, :2907).                                     *)
THEOREM DivisionsAlwaysAgree == OperatorsSpec => []DivisionsAgree
<1>1. OperandsAreValues => \A n \in {1, 2} : IsInt(operands[n]) => operands[n].i \in Ints(W64)
  BY ValuesUnboxed DEF OperandsAreValues
<1>2. OperandsAreValues => DivisionsAgree
  BY <1>1, DivisionsOfIntegersAgree
<1>. QED  BY <1>2, OperandsStayValues, PTL

(* In every state of every computation a power is the repeated product,    *)
(* wrapped or not, and the shifts and the minus sign are what they stand   *)
(* for (llvm_runtime.c:2724-3016).                                         *)
THEOREM PowersAlwaysAgree == OperatorsSpec => []PowersAgree
<1>1. OperandsAreValues => \A n \in {1, 2} : IsInt(operands[n]) => operands[n].i \in Int
  BY ValuesUnboxed DEF OperandsAreValues
<1>2. OperandsAreValues => PowersAgree
  BY <1>1, PowersOfIntegersAgree
<1>. QED  BY <1>2, OperandsStayValues, PTL
=============================================================================
