----------------------------- MODULE LlvmRanges -----------------------------
(***************************************************************************)
(* Ranges and the slices of strings in llvm_runtime.c: arithmetic on       *)
(* bounds that may be any 64-bit integers, or characters. A string is      *)
(* sliced by its bytes, and the bound of a range is the first character    *)
(* that utf8proc decodes from them.                                        *)
(***************************************************************************)
EXTENDS LlvmOperators, FiniteSets

CONSTANT Encoding   \* the bytes of each character

\* No character's bytes begin another's, and the first ones are one byte.
ASSUME EncodingAssumption ==
  /\ DOMAIN Encoding \subseteq 1 .. Greatest(W64)
  /\ \A c \in DOMAIN Encoding : Encoding[c] \in Seq(Bytes) /\ Encoding[c] # <<>>
  /\ \A c \in 1 .. Greatest(W8) : c \in DOMAIN Encoding /\ Encoding[c] = <<c>>

Begins(s, t) == Len(s) <= Len(t) /\ SubSeq(t, 1, Len(s)) = s

ASSUME PrefixAssumption ==
  \A c, d \in DOMAIN Encoding : Begins(Encoding[c], Encoding[d]) => c = d

\* A byte is an int64_t too.
ASSUME BytesAssumption == Bytes \subseteq Ints(W64)

SliceUnclipped(s, start, length) ==
  IF start < 0 \/ start >= Len(s) \/ length <= 0 \/ start + length > Len(s) THEN <<>>
  ELSE SubSeq(s, start + 1, start + length)

(* The sum is converted to size_t before it is compared. *)
ds_slice_string(s, start, length) ==
  IF start < 0 \/ start >= Len(s) \/ length <= 0 THEN <<>>
  ELSE SubSeq(s, start + 1,
         IF (start + length) % Modulus > Len(s) THEN Len(s) ELSE start + length)

(* The outcomes: a length may be a float. *)
slice(s, start, length) ==
  {Str(ds_slice_string(s, a, b)) : a \in unbox_i64(start), b \in unbox_i64(length)}

slice_range(s, range) ==
  Str(ds_slice_string(s, range.from,
        Wrap(range.to - range.from + IF range.exclusive THEN 0 ELSE 1)))

(* The first character, or the first byte if the bytes are none. *)
utf8proc_iterate(s) ==
  LET decoded == {c \in DOMAIN Encoding : Begins(Encoding[c], s)}
  IN  IF decoded = {} THEN s[1] ELSE CHOOSE c \in decoded : TRUE

(* The number of a bound, and whether it is a character's. *)
ds_get_ordinal(v) ==
  CASE IsInt(v)                            -> <<v.i, FALSE>>
    [] v.kind = "STRING" /\ v # Str(<<>>) -> <<utf8proc_iterate(v.s), TRUE>>
    [] v.kind # "STRING" /\ ~IsInt(v)     -> <<0, FALSE>>
    [] v = Str(<<>>)                       -> <<0, FALSE>>

range_literal(from, to, exclusive) ==
  LET f == ds_get_ordinal(from)
      t == ds_get_ordinal(to)
  IN  RangeBox(f[1], t[1], exclusive, f[2] /\ t[2])

(* A character is cut down to one byte, which may end the string. *)
Element(range, i) ==
  LET byte == i % Power(2, W8)
  IN  IF range.is_char THEN Str(IF byte = 0 THEN <<>> ELSE <<byte>>) ELSE box_i64(i)

range_first(range) == Element(range, range.from)
range_last(range)  == Element(range, range.to)

range_includes(range, v) ==
  LET o == ds_get_ordinal(v)
  IN  /\ range.is_char = o[2]
      /\ o[1] >= range.from
      /\ IF range.exclusive THEN o[1] < range.to ELSE o[1] <= range.to

(* What each gives its block: the values that current has, which wraps,    *)
(* until its test first fails; a loop of Modulus rounds never ends.        *)
range_each(range) ==
  LET current(n) == Wrap(range.from + n)
      Goes(n)  == current(n) < range.to \/ (~range.exclusive /\ current(n) = range.to)
      rounds   == CHOOSE n \in 0 .. Modulus : /\ n = Modulus \/ ~Goes(n)
                                              /\ \A m \in 0 .. n - 1 : Goes(m)
  IN  [i \in 1 .. rounds |-> Element(range, current(i - 1))]

Endless(elements) == Len(elements) = Modulus

ToArrayExclusive(range) ==
  [i \in 1 .. (IF range.to > range.from THEN range.to - range.from ELSE 0) |->
     Element(range, range.from + i - 1)]

range_to_a(range) ==
  LET count == Wrap(range.to - range.from + IF range.exclusive THEN 0 ELSE 1)
      some  == IF range.exclusive THEN range.to > range.from ELSE range.to >= range.from
  IN  [i \in 1 .. (IF some /\ count > 0 THEN count ELSE 0) |-> Element(range, range.from + i - 1)]

-----------------------------------------------------------------------------
(* A slice is the bytes at its positions, whatever the integers            *)
(* (llvm_runtime.c:320, :1284), and of a range, unless its length wraps:   *)
(* what is beyond the string is not read. It may cut a character apart,    *)
(* and nothing is raised; the language's own spec counts characters and    *)
(* expects OutOfBounds (SlicesAreCharacters in MCLlvmValues).              *)
SlicesAgree ==
  LET l == operands[1]
      r == operands[2]
      At(s, positions) ==
        [i \in 1 .. Cardinality(positions \cap 0 .. Len(s) - 1) |-> s[l.i + i]]
  IN  BothInts(l, r) =>
        \A s \in Texts :
          /\ slice(s, l, r) = {Str(IF l.i < 0 THEN <<>> ELSE At(s, l.i .. (l.i + r.i - 1)))}
          /\ \A exclusive \in BOOLEAN :
               LET last == IF exclusive THEN r.i - 1 ELSE r.i
               IN  last - l.i + 1 \in Ints(W64) =>
                     slice_range(s, range_literal(l, r, exclusive)) =
                       Str(IF l.i < 0 THEN <<>> ELSE At(s, l.i .. last))

(* What a range gives its block, what it turns into and what it includes   *)
(* are found by three loops and tests (llvm_runtime.c:1772-1827). They are *)
(* the same, in order, for integers and characters of one byte, while the  *)
(* count fits in 64 bits; an inclusive range up to the greatest integer    *)
(* never ends, and to_a of a range whose count does not fit is empty.      *)
RangesAgree ==
  \A exclusive \in BOOLEAN :
    LET range == range_literal(operands[1], operands[2], exclusive)
        upto  == IF exclusive THEN range.to - 1 ELSE range.to
        given == range_each(range)
        all   == range_to_a(range)
    IN  /\ Endless(given) <=> ~exclusive /\ range.to = Greatest(W64)
        /\ upto - range.from + 1 > Greatest(W64) => all = <<>>
        /\ ~Endless(given) /\ upto - range.from < Greatest(W64) => given = all
        /\ ~Endless(given) /\ (~range.is_char \/ {range.from, range.to} \subseteq 0 .. Greatest(W8)) =>
             \A v \in Literals \cup {operands[1], operands[2]} :
               LET number == ds_get_ordinal(v)[1]
               IN  Element(range, number) = v \/ (IsInt(v) /\ ~range.is_char) =>
                     (range_includes(range, v) <=>
                        \E i \in DOMAIN given : given[i] = Element(range, number))
        /\ all # <<>> => /\ range_first(range) = all[1]
                         /\ ~exclusive => range_last(range) = all[Len(all)]
=============================================================================
