--------------------------- MODULE LlvmOperators ---------------------------
(***************************************************************************)
(* The values of compiled programs and the operators of llvm_runtime.c     *)
(* that look at nothing but their operands. Operators that classes         *)
(* override are in LlvmObjects.                                            *)
(*                                                                         *)
(* The runtime is compiled without optimisation (cli_build.cr:478): sums   *)
(* wrap, a shift counts modulo the width, and the quotient of the least    *)
(* integer by -1 is a trap of the processor. Floats round to doubles of a  *)
(* few bits, with infinities and NaN; the sign of a zero is left out.      *)
(***************************************************************************)
EXTENDS Integers, Sequences

CONSTANTS
  W8, W32, W64,  \* widths of char, int32_t and int64_t
  Precision,     \* the bits of a double's mantissa,
  Exponents,     \* its greatest exponent, counted from the least,
  Fraction,      \* and the bits below 1: the exponent of 1.0
  Texts,         \* the strings among a program's literals: sequences of bytes
  MaxLength      \* bound: length of the strings used again

ASSUME WidthsAssumption ==
  /\ {W8, W32, W64} \subseteq Nat \ {0, 1}
  /\ W8 <= W32 /\ W32 <= W64
  /\ MaxLength \in Nat

\* A 32-bit integer is a double, a 64-bit one is not beyond them, and so
\* is the inverse of an integer of no more bits than a double.
ASSUME DoublesAssumption ==
  /\ {Precision, Exponents, Fraction} \subseteq Nat \ {0}
  /\ Precision <= Fraction /\ Fraction <= Exponents
  /\ W32 - 1 <= Precision
  /\ W64 - 1 + Fraction < Precision + Exponents

VARIABLE operands   \* what a computation has in its hands: two values

(* What the library's i ^ k is, also where both are 0. *)
Power(i, k) ==
  LET power[j \in Nat] == IF j = 0 THEN 1 ELSE i * power[j - 1]
  IN  power[k]

Least(w)    == -Power(2, w - 1)
Greatest(w) == Power(2, w - 1) - 1
Ints(w)     == Least(w) .. Greatest(w)
INT64_MIN   == Least(W64)
Modulus     == Power(2, W64)
Wrap(i)     == ((i - INT64_MIN) % Modulus) + INT64_MIN

Abs(i)    == IF i < 0 THEN -i ELSE i
Signum(i) == IF i < 0 THEN -1 ELSE IF i > 0 THEN 1 ELSE 0

Bytes == 1 .. Power(2, W8) - 1
ASSUME TextsAssumption == Texts \subseteq Seq(Bytes)

(* A value is NULL, an unboxed string (a sequence of bytes), or a box.     *)
NULL      == [kind |-> "NULL"]
Str(s)    == [kind |-> "STRING", s |-> s]
Int32(i)  == [kind |-> "INT32", i |-> i]
Int64(i)  == [kind |-> "INT64", i |-> i]
Bool(b)   == [kind |-> "BOOL", b |-> b]

(* A double is counted in the least positive ones: a mantissa times a      *)
(* power of two. The even ones are those of one bit less; the greatest,    *)
(* to which what is too great is rounded, stands for infinity.             *)
Float(u) == [kind |-> "FLOAT", u |-> u]
NaN      == [kind |-> "NAN"]
Unit     == Power(2, Fraction)
Infinite == Power(2, Precision + Exponents)

Multiples(lost) ==
  {m * Power(2, e) : m \in -Power(2, Precision - lost) .. Power(2, Precision - lost),
                     e \in lost .. Exponents + lost}
Doubles     == Multiples(0)
EvenDoubles == Multiples(1)

(* The double nearest to n / d, and of two the even one. *)
Nearest(n, d) == {u \in Doubles : \A v \in Doubles : Abs(n - u * d) <= Abs(n - v * d)}
Rounded(n, d) ==
  LET nearest == Nearest(n, d)
  IN  Float(CHOOSE u \in nearest : u \in EvenDoubles \/ nearest \cap EvenDoubles = {})

RangeBox(from, to, exclusive, is_char) ==
  [kind |-> "RANGE", from |-> from, to |-> to, exclusive |-> exclusive, is_char |-> is_char]

(* The outcomes that are not values: an exception, and the death of the    *)
(* process (a trap, or strcmp of a NULL).                                  *)
RAISED == [kind |-> "RAISED"]
DEAD   == [kind |-> "DEAD"]

ds_is_boxed(v) == v.kind \notin {"NULL", "STRING"}
IsInt(v)   == v.kind \in {"INT32", "INT64"}
IsFloat(v) == v.kind \in {"FLOAT", "NAN"}
BothBoxed(l, r)   == ds_is_boxed(l) /\ ds_is_boxed(r)
BothUnboxed(l, r) == ~ds_is_boxed(l) /\ ~ds_is_boxed(r)
BothInts(l, r)    == IsInt(l) /\ IsInt(r)
OneFloat(l, r)    == BothBoxed(l, r) /\ (IsFloat(l) \/ IsFloat(r))

box_i64(i) == Int64(Wrap(i))

TruncDiv(a, b) == Signum(a) * Signum(b) * (Abs(a) \div Abs(b))
TruncMod(a, b) == a - b * TruncDiv(a, b)

(* What a float may be cast to: C leaves what does not fit undefined. *)
unbox_i64(v) ==
  IF IsInt(v) THEN {v.i} ELSE IF ~IsFloat(v) THEN {0}
  ELSE IF v # NaN /\ TruncDiv(v.u, Unit) \in Ints(W64) THEN {TruncDiv(v.u, Unit)}
  ELSE Ints(W64)

Converted == [i \in Ints(W64) |-> Rounded(i * Unit, 1)]

unbox_float(v) == IF IsFloat(v) THEN v ELSE IF IsInt(v) THEN Converted[v.i] ELSE Float(0)

(* The operations of the processor and of the C library on doubles. *)
IsInfinite(a) == Abs(a.u) = Infinite
Infinity(s)   == Float(IF s < 0 THEN -Infinite ELSE Infinite)

FloatNegated(a) == IF a = NaN THEN NaN ELSE Float(-a.u)

FloatSum(a, b) ==
  IF NaN \in {a, b} THEN NaN
  ELSE IF IsInfinite(a) THEN IF b.u = -a.u THEN NaN ELSE a
  ELSE IF IsInfinite(b) THEN b ELSE Rounded(a.u + b.u, 1)

FloatProduct(a, b) ==
  IF NaN \in {a, b} THEN NaN
  ELSE IF IsInfinite(a) \/ IsInfinite(b)
       THEN IF 0 \in {a.u, b.u} THEN NaN ELSE Infinity(Signum(a.u) * Signum(b.u))
  ELSE Rounded(a.u * b.u, Unit)

FloatQuotient(a, b) ==
  IF NaN \in {a, b} \/ (IsInfinite(a) /\ IsInfinite(b)) \/ (a.u = 0 /\ b.u = 0) THEN NaN
  ELSE IF IsInfinite(b) THEN Float(0)
  ELSE IF IsInfinite(a) \/ b.u = 0 THEN Infinity(IF b.u < 0 THEN -a.u ELSE a.u)
  ELSE Rounded(Signum(b.u) * a.u * Unit, Abs(b.u))

fmod(a, b) ==
  IF NaN \in {a, b} \/ IsInfinite(a) \/ b.u = 0 THEN NaN
  ELSE IF IsInfinite(b) THEN a ELSE Rounded(TruncMod(a.u, b.u), 1)

floor(a) == IF a = NaN \/ IsInfinite(a) THEN a ELSE Rounded((a.u \div Unit) * Unit, 1)

(* Every double: whatever pow returns. *)
Floats == {Float(u) : u \in Doubles} \cup {NaN}

-----------------------------------------------------------------------------
(* Arithmetic                                                              *)

(* The shape of sub, mul, div, mod, floor_div and pow: a float makes the   *)
(* other operand one, whatever it is, and two integers are computed as     *)
(* 64-bit ones.                                                            *)
Numeric(l, r, OnInts(_, _), OnFloats(_, _)) ==
  CASE OneFloat(l, r) -> OnFloats(unbox_float(l), unbox_float(r))
    [] BothInts(l, r) -> OnInts(l.i, r.i)
    [] OTHER          -> RAISED

IsZero(v) == (IsInt(v) /\ v.i = 0) \/ v = Float(0)

(* Formatting is left out: the text of a box is one character. *)
Formatted == 1
to_string(v) ==
  IF v.kind = "NULL" THEN <<>> ELSE IF ds_is_boxed(v) THEN <<Formatted>> ELSE v.s

add(l, r) ==
  CASE ~ds_is_boxed(l)            -> Str(to_string(l) \o to_string(r))
    [] BothInts(l, r)             -> box_i64(l.i + r.i)
    [] IsFloat(l) /\ IsFloat(r)   -> FloatSum(l, r)
    [] OTHER                      -> RAISED

negate(v) ==
  IF IsInt(v) THEN box_i64(-v.i) ELSE IF IsFloat(v) THEN FloatNegated(v) ELSE RAISED

sub(l, r) ==
  Numeric(l, r, LAMBDA a, b : box_i64(a - b),
                LAMBDA a, b : FloatSum(a, FloatNegated(b)))

mul(l, r) == Numeric(l, r, LAMBDA a, b : box_i64(a * b), FloatProduct)

div(l, r) ==
  IF IsZero(r) THEN RAISED
  ELSE Numeric(l, r, LAMBDA a, b : FloatQuotient(unbox_float(l), unbox_float(r)), FloatQuotient)

Overflows(a, b) == a = INT64_MIN /\ b = -1

mod(l, r) ==
  IF IsZero(r) THEN RAISED
  ELSE Numeric(l, r,
         LAMBDA a, b : IF Overflows(a, b) THEN DEAD ELSE Int64(TruncMod(a, b)),
         fmod)

FloorTowardsZero(a, b) == TruncDiv(a, b)

ds_int_floor_div(a, b) ==
  LET rest == TruncMod(a, b)
  IN  IF rest # 0 /\ (rest > 0) # (b > 0) THEN TruncDiv(a, b) - 1 ELSE TruncDiv(a, b)

floor_div(l, r) ==
  IF IsZero(r) THEN RAISED
  ELSE Numeric(l, r,
         LAMBDA a, b : IF Overflows(a, b) THEN DEAD ELSE Int64(ds_int_floor_div(a, b)),
         LAMBDA a, b : floor(FloatQuotient(a, b)))

PowWithoutSquaring(base, exponent) == Wrap(base * exponent)

(* Squaring; the accumulator and the factor wrap. *)
ds_int_pow_i64(base, exponent) ==
  LET next(s) == IF s.power % 2 = 1 THEN Wrap(s.result * s.factor) ELSE s.result
      loop[s \in [power : Nat, factor : Int, result : Int]] ==
        IF s.power < 2 THEN next(s)
        ELSE loop[[power |-> s.power \div 2, factor |-> Wrap(s.factor * s.factor), result |-> next(s)]]
  IN  loop[[power |-> exponent, factor |-> base, result |-> 1]]

(* The outcomes of pow and of the shifts. *)
pow(l, r) ==
  CASE BothInts(l, r) /\ r.i >= 0 -> {Int64(ds_int_pow_i64(l.i, r.i))}
    [] BothInts(l, r) /\ r.i < 0  -> Floats
    [] OneFloat(l, r)             -> Floats
    [] OTHER                      -> {RAISED}

(* What is not a number counts as 0 in a shift. *)
shl(l, r) ==
  {box_i64(a * Power(2, b % W64)) : a \in unbox_i64(l), b \in unbox_i64(r)}
shr(l, r) ==
  {Int64(a \div Power(2, b % W64)) : a \in unbox_i64(l), b \in unbox_i64(r)}

-----------------------------------------------------------------------------
(* Comparison                                                              *)

strcmp(s, t) ==
  LET differ == {i \in 1 .. Len(s) : i <= Len(t) /\ s[i] # t[i]}
      i == CHOOSE k \in differ : \A m \in differ : k <= m
  IN  IF differ = {} THEN Signum(Len(s) - Len(t)) ELSE Signum(s[i] - t[i])

(* No comparison holds of a NaN, and cmp finds it equal. *)
Differ(a, b, Holds(_)) == NaN \notin {a, b} /\ Holds(a.u - b.u)

cmp(l, r) ==
  CASE BothInts(l, r) -> Int64(Signum(l.i - r.i))
    [] OneFloat(l, r) ->
         LET a == unbox_float(l)
             b == unbox_float(r)
         IN  Int64(IF NaN \in {a, b} THEN 0 ELSE Signum(a.u - b.u))
    [] BothUnboxed(l, r) /\ NULL \notin {l, r} -> Int64(strcmp(l.s, r.s))
    [] OTHER          -> Int64(0)

(* The shape of gt, lt, gte and lte. *)
Compared(l, r, Holds(_)) ==
  CASE BothInts(l, r)    -> Bool(Holds(l.i - r.i))
    [] OneFloat(l, r)    -> Bool(Differ(unbox_float(l), unbox_float(r), Holds))
    [] BothUnboxed(l, r) -> IF NULL \in {l, r} THEN DEAD ELSE Bool(Holds(strcmp(l.s, r.s)))
    [] OTHER             -> Bool(FALSE)

gt(l, r)  == Compared(l, r, LAMBDA s : s > 0)
lt(l, r)  == Compared(l, r, LAMBDA s : s < 0)
gte(l, r) == Compared(l, r, LAMBDA s : s >= 0)
StrictLte(l, r) == lt(l, r)
lte(l, r) == Compared(l, r, LAMBDA s : s <= 0)

(* Boxes of different kinds are never the same, and ranges are compared by *)
(* their numbers. What lives in the heap is compared by its address, and   *)
(* so is a NaN, which is taken here to be in one box.                      *)
case_compare(l, r) ==
  \/ l = r
  \/ l.kind = "RANGE" /\ r.kind = "RANGE"
     /\ <<l.from, l.to, l.exclusive>> = <<r.from, r.to, r.exclusive>>

EqByKind(l, r) == Bool(case_compare(l, r))

eq(l, r) ==
  CASE BothInts(l, r) -> Bool(l.i = r.i)
    [] OneFloat(l, r) -> Bool(Differ(unbox_float(l), unbox_float(r), LAMBDA s : s = 0))
    [] BothUnboxed(l, r) /\ NULL \notin {l, r} -> Bool(strcmp(l.s, r.s) = 0)
    [] OTHER          -> Bool(case_compare(l, r))

is_truthy(v) == v.kind # "NULL" /\ (v.kind = "BOOL" => v.b)

ne(l, r) == Bool(~is_truthy(eq(l, r)))

-----------------------------------------------------------------------------
(* A computation: from literals, by any operators, the result of one being *)
(* the operand of the next.                                                *)
Literals == {Int32(i) : i \in Ints(W32)} \cup {Bool(TRUE), NULL} \cup {Str(s) : s \in Texts}
            \cup {Float(u) : u \in {d \in Doubles : 0 <= d /\ d < Infinite}}

Results(l, r) ==
  {add(l, r), sub(l, r), mul(l, r), div(l, r), mod(l, r), floor_div(l, r),
   cmp(l, r), gt(l, r), eq(l, r), negate(l)} \cup pow(l, r) \cup shl(l, r) \cup shr(l, r)

Used(v) == /\ v.kind \notin {"RAISED", "DEAD"}
           /\ v.kind = "STRING" => Len(v.s) <= MaxLength

OperatorsInit == operands \in Literals \X Literals

Operate ==
  \E result \in Results(operands[1], operands[2]) :
    Used(result) /\ operands' \in {<<result, operands[2]>>, <<operands[2], result>>}

OperatorsSpec == OperatorsInit /\ [][Operate]_operands

-----------------------------------------------------------------------------
Holds(v) == v = Bool(TRUE)

Comparable(l, r) ==
  \/ {l.kind, r.kind} \subseteq {"INT32", "INT64", "FLOAT", "NAN"}
  \/ l.kind = "STRING" /\ r.kind = "STRING"

(* An integer of no more bits than a double has. *)
Exact(v) == v.i \in -Power(2, Precision) .. Power(2, Precision)

(* Nine functions decide the order of two values, each by itself           *)
(* (llvm_runtime.c:2327, :3018-3215): of any two numbers but NaN, or two   *)
(* strings, exactly one is less or they are equal, and all agree; with a   *)
(* NaN none holds, and cmp says equal. The order is transitive, strictly   *)
(* but where integers meet a float: two of more bits than a double may be  *)
(* equal to the same one. case_compare, which finds keys, is eq between    *)
(* values of one kind only.                                                *)
OrdersAgree ==
  LET l == operands[1]
      r == operands[2]
      order == <<Holds(lt(l, r)), Holds(eq(l, r)), Holds(gt(l, r))>>
  IN  Comparable(l, r) =>
        /\ IF NaN \in {l, r} THEN order = <<FALSE, FALSE, FALSE>>
           ELSE /\ order \in {<<TRUE, FALSE, FALSE>>, <<FALSE, TRUE, FALSE>>, <<FALSE, FALSE, TRUE>>}
                /\ case_compare(l, r) <=> order[2] /\ l.kind = r.kind
        /\ Holds(lte(l, r)) <=> order[1] \/ order[2]
        /\ Holds(gte(l, r)) <=> order[3] \/ order[2]
        /\ Holds(ne(l, r)) <=> ~order[2]
        /\ cmp(l, r) = Int64(CASE order[1] -> -1 [] order[3] -> 1 [] OTHER -> 0)
        /\ \A m \in {v \in Literals \cup Results(l, r) : Used(v)} :
             Comparable(r, m) /\ order[1] /\ Holds(lte(r, m)) =>
               IF BothInts(l, r) /\ IsFloat(m) /\ ~(Exact(l) /\ Exact(r))
               THEN Holds(lte(l, m)) ELSE Holds(lt(l, m))

(* Literals are boxed as 32-bit integers and results as 64-bit ones        *)
(* (llvm_runtime.c:688): no operator tells them apart.                     *)
WidthIsInvisible ==
  LET l == operands[1]
      r == operands[2]
      Same(Op(_, _)) == /\ Op(Int32(l.i), r) = Op(Int64(l.i), r)
                        /\ Op(r, Int32(l.i)) = Op(r, Int64(l.i))
  IN  IsInt(l) /\ l.i \in Ints(W32) =>
        /\ Same(add) /\ Same(sub) /\ Same(mul) /\ Same(div) /\ Same(mod)
        /\ Same(floor_div) /\ Same(pow) /\ Same(shl) /\ Same(shr) /\ Same(cmp)
        /\ Same(gt) /\ Same(lt) /\ Same(gte) /\ Same(lte) /\ Same(eq) /\ Same(ne)

(* "//" rounds down and "%" does not (llvm_runtime.c:2873, :2907): the     *)
(* quotient is the floor for every sign and the remainder has the sign of  *)
(* the dividend, so the two belong together only when the signs are equal  *)
(* or nothing is left; only the least integer by -1 ends the process; and  *)
(* where both operands are doubles too, computing with one as a double     *)
(* gives the same, though the quotient is rounded before it is rounded     *)
(* down.                                                                   *)
DivisionsAgree ==
  LET l == operands[1]
      r == operands[2]
      quotient == floor_div(l, r)
      rest     == mod(l, r)
  IN  BothInts(l, r) /\ r.i # 0 =>
        IF Overflows(l.i, r.i) THEN quotient = DEAD /\ rest = DEAD
        ELSE /\ Abs(rest.i) < Abs(r.i) /\ Signum(rest.i) \in {0, Signum(l.i)}
             /\ IF r.i > 0 THEN quotient.i * r.i <= l.i /\ l.i < (quotient.i + 1) * r.i
                           ELSE quotient.i * r.i >= l.i /\ l.i > (quotient.i + 1) * r.i
             /\ quotient.i * r.i + rest.i = l.i <=> rest.i = 0 \/ Signum(l.i) = Signum(r.i)
             /\ Exact(l) /\ Exact(r) =>
                  /\ Holds(eq(rest, mod(unbox_float(l), r)))
                  /\ Holds(eq(quotient, floor_div(l, unbox_float(r))))

(* A power is the repeated product, wrapped or not; a shift is a product,  *)
(* or a floor, by a power of two; and the minus sign is a difference       *)
(* (llvm_runtime.c:2724-3016).  The runtime has one ** for the ** and the  *)
(* &** of the language: that it wraps is what &** promises, and not what   *)
(* the documentation says of ** (PowersAreFloats in MCLlvmValues).         *)
PowersAgree ==
  LET l == operands[1]
      k == operands[2]
      product[i \in Nat] == IF i = 0 THEN Int64(1) ELSE mul(product[i - 1], l)
      two == ds_int_pow_i64(2, k.i)
  IN  BothInts(l, k) /\ k.i >= 0 =>
        /\ pow(l, k) = {product[k.i]}
        /\ k.i < W64 => shl(l, k) = {mul(l, Int64(two))}
        /\ k.i < W64 - 1 => shr(l, k) = {floor_div(l, Int64(two))}
        /\ negate(l) = sub(Int32(0), l)
=============================================================================
