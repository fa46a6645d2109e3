------------------------- MODULE LlvmObjectsProofs -------------------------
(***************************************************************************)
(* Proofs about the lists of classes, methods and constants: that names    *)
(* resolve, that the lists of methods implement the two tables of          *)
(* LlvmTables, and that a block arrives exactly where it is passed.        *)
(***************************************************************************)
EXTENDS LlvmObjects, SequenceTheorems, FiniteSetTheorems, WellFoundedInduction, TLAPS

-----------------------------------------------------------------------------
(* Numbers and sequences.                                                  *)

LEMMA LeastNatural ==
  ASSUME NEW T, T \subseteq Nat, T # {}
  PROVE  \E m \in T : \A n \in T : m <= n
<1>. DEFINE Less == {r \in Nat \X Nat : r[1] < r[2]}
<1>1. IsWellFoundedOn(Less, Nat)
  BY NatLessThanWellFounded DEF OpToRel
<1>2. PICK m \in T : \A n \in T : <<n, m>> \notin Less
  <2>. HIDE DEF Less
  <2>. QED  BY <1>1, WFMin, Zenon
<1>3. \A n \in T : ~(n < m)
  BY <1>2
<1>. QED  BY <1>3

LEMMA Upwards ==
  ASSUME NEW T, 0 \in T, \A k \in Nat : k \in T => k + 1 \in T
  PROVE  Nat \subseteq T
<1>. SUFFICES ASSUME ~(Nat \subseteq T) PROVE FALSE
  OBVIOUS
<1>. DEFINE missing == {k \in Nat : k \notin T}
<1>1. PICK m \in missing : \A k \in missing : m <= k
  <2>1. missing \subseteq Nat /\ missing # {}
    OBVIOUS
  <2>. HIDE DEF missing
  <2>. QED  BY <2>1, LeastNatural
<1>2. m # 0 /\ m - 1 \in Nat /\ m - 1 \notin missing
  BY <1>1
<1>. QED  BY <1>1, <1>2

LEMMA SegmentIsSeq ==
  ASSUME NEW S, NEW n \in Nat, NEW f \in [1 .. n -> S]
  PROVE  f \in Seq(S) /\ Len(f) = n
<1>1. f \in Seq(S)
  BY SeqDef
<1>2. DOMAIN f = 1 .. n /\ DOMAIN f = 1 .. Len(f) /\ Len(f) \in Nat
  BY <1>1, LenProperties
<1>. QED  BY <1>1, <1>2

(* The elements of a sequence. *)
LEMMA Elements ==
  ASSUME NEW S, NEW s \in Seq(S)
  PROVE  /\ Len(s) \in Nat
         /\ DOMAIN s = 1 .. Len(s)
         /\ \A i \in 1 .. Len(s) : s[i] \in S
         /\ ToSet(s) = {s[i] : i \in 1 .. Len(s)}
<1>1. Len(s) \in Nat /\ DOMAIN s = 1 .. Len(s) /\ s \in [1 .. Len(s) -> S]
  BY LenProperties
<1>. QED  BY <1>1 DEF ToSet

LEMMA ToSetOne ==
  ASSUME NEW S, NEW s \in Seq(S), NEW e \in S
  PROVE  ToSet(<<e>> \o s) = ToSet(s) \cup {e}
<1>. DEFINE t == <<e>> \o s
<1>1. <<e>> \in Seq(S) /\ Len(<<e>>) = 1 /\ <<e>>[1] = e
  OBVIOUS
<1>2. /\ t \in Seq(S) /\ Len(t) = 1 + Len(s)
      /\ \A i \in 1 .. 1 + Len(s) : t[i] = IF i <= 1 THEN <<e>>[i] ELSE s[i - 1]
  BY <1>1, ConcatProperties
<1>3. Len(s) \in Nat
  BY LenProperties
<1>. HIDE DEF t
<1>4. t[1] = e /\ 1 \in 1 .. Len(t)
  BY <1>1, <1>2, <1>3
<1>5. \A i \in 1 .. Len(s) : i + 1 \in 1 .. Len(t) /\ t[i + 1] = s[i]
  BY <1>2, <1>3
<1>6. \A i \in 1 .. Len(t) : i = 1 \/ (i - 1 \in 1 .. Len(s) /\ t[i] = s[i - 1])
  BY <1>2, <1>3
<1>7. ToSet(t) = {t[i] : i \in 1 .. Len(t)} /\ ToSet(s) = {s[i] : i \in 1 .. Len(s)}
  BY <1>2, Elements
<1>8. ToSet(t) \subseteq ToSet(s) \cup {e}
  BY <1>4, <1>6, <1>7
<1>9. ToSet(s) \cup {e} \subseteq ToSet(t)
  BY <1>4, <1>5, <1>7
<1>. QED  BY <1>8, <1>9 DEF t

(* A search stops at the first element there is of the kind it looks for. *)
First(I) == IF I = {} THEN 0 ELSE Min(I)

LEMMA FirstProperties ==
  ASSUME NEW n \in Nat, NEW I, I \subseteq 1 .. n
  PROVE  /\ First(I) \in 0 .. n
         /\ First(I) = 0 <=> I = {}
         /\ I # {} => First(I) \in I /\ \A i \in I : First(I) <= i
<1>1. CASE I = {}
  BY <1>1 DEF First
<1>2. CASE I # {}
  <2>1. I \subseteq Nat
    OBVIOUS
  <2>2. PICK l \in I : \A i \in I : l <= i
    BY <1>2, <2>1, LeastNatural
  <2>3. First(I) = CHOOSE x \in I : \A y \in I : x =< y
    BY <1>2, Zenon DEF First, Min
  <2>4. First(I) \in I /\ \A i \in I : First(I) <= i
    <3>. DEFINE P(x) == x \in I /\ \A y \in I : x =< y
    <3>1. P(l)
      BY <2>2
    <3>2. P(CHOOSE x : P(x))
      BY <3>1, Zenon
    <3>3. First(I) = CHOOSE x : P(x)
      BY <2>3, Zenon
    <3>. HIDE DEF P
    <3>4. P(First(I))
      BY <3>2, <3>3
    <3>. QED  BY <3>4 DEF P
  <2>. DEFINE m == First(I)
  <2>5. m \in 1 .. n
    BY <2>4
  <2>. HIDE DEF m
  <2>6. m \in 0 .. n /\ m # 0
    BY <2>5
  <2>. QED  BY <1>2, <2>4, <2>6 DEF m
<1>. QED  BY <1>1, <1>2

LEMMA FirstIs ==
  ASSUME NEW n \in Nat, NEW I, I \subseteq 1 .. n, NEW m \in I, \A i \in I : m <= i
  PROVE  First(I) = m
<1>. DEFINE f == First(I)
<1>1. f \in I /\ f <= m
  BY FirstProperties
<1>. HIDE DEF f
<1>2. m <= f /\ m \in 1 .. n /\ f \in 1 .. n
  BY <1>1
<1>3. f = m
  BY <1>1, <1>2
<1>. QED  BY <1>3 DEF f

LEMMA SearchesAreFirst ==
  /\ \A list, n : Named(list, n) = First({i \in 1 .. Len(list) : list[i].name = n})
  /\ \A box, n : Own(box, n) = First({i \in 1 .. Len(singleton_methods) :
                     singleton_methods[i].receiver = box /\ singleton_methods[i].name = n})
BY DEF Named, Own, SelectInSeq, First

LEMMA ToSetConcat ==
  ASSUME NEW S, NEW s \in Seq(S), NEW t \in Seq(S)
  PROVE  s \o t \in Seq(S) /\ ToSet(s \o t) = ToSet(s) \cup ToSet(t)
<1>1. s \o t \in Seq(S)
  BY ConcatProperties
<1>2. Range(s \o t) = Range(s) \cup Range(t)
  BY RangeConcatenation
<1>3. \A u : ToSet(u) = Range(u)
  BY Zenon DEF Range, ToSet
<1>. QED  BY <1>1, <1>2, <1>3

LEMMA ToSetSingle ==
  ASSUME NEW S, NEW e \in S
  PROVE  <<e>> \in Seq(S) /\ Len(<<e>>) = 1 /\ <<e>>[1] = e /\ ToSet(<<e>>) = {e}
<1>1. <<e>> \in Seq(S) /\ Len(<<e>>) = 1 /\ <<e>>[1] = e
  OBVIOUS
<1>2. ToSet(<<e>>) = {<<e>>[i] : i \in 1 .. 1}
  BY <1>1, Elements
<1>. QED  BY <1>1, <1>2

LEMMA ToSetEmpty == ToSet(<<>>) = {} /\ Len(<<>>) = 0 /\ \A S : <<>> \in Seq(S)
<1>1. Len(<<>>) = 0 /\ \A S : <<>> \in Seq(S)
  BY EmptySeq
<1>2. ToSet(<<>>) = {<<>>[i] : i \in 1 .. Len(<<>>)}
  BY <1>1, Elements
<1>. QED  BY <1>1, <1>2

-----------------------------------------------------------------------------
(* What a search of a list for an element of a set comes to: the first one *)
(* of them, as a set of one element, or nothing.                           *)

Hits(list, T) == {i \in 1 .. Len(list) : list[i] \in T}
Got(list, T)  == {list[i] : i \in {j \in Hits(list, T) : \A k \in Hits(list, T) : j <= k}}

LEMMA GotSearch ==
  ASSUME NEW S, NEW list \in Seq(S), NEW T
  PROVE  /\ First(Hits(list, T)) = 0 => Got(list, T) = {} /\ \A m \in ToSet(list) : m \notin T
         /\ First(Hits(list, T)) # 0 =>
              /\ First(Hits(list, T)) \in 1 .. Len(list)
              /\ Got(list, T) = {list[First(Hits(list, T))]}
              /\ list[First(Hits(list, T))] \in T \cap ToSet(list)
<1>. DEFINE H == Hits(list, T)
            f == First(H)
<1>1. H \subseteq 1 .. Len(list) /\ Len(list) \in Nat
  BY LenProperties DEF Hits
<1>2. /\ f = 0 <=> H = {}
      /\ H # {} => f \in H /\ \A i \in H : f <= i
  <2>. HIDE DEF H
  <2>. QED  BY <1>1, FirstProperties
<1>3. ToSet(list) = {list[i] : i \in 1 .. Len(list)}
  BY Elements
<1>4. ASSUME f = 0
      PROVE  Got(list, T) = {} /\ \A m \in ToSet(list) : m \notin T
  <2>1. H = {}
    BY <1>2, <1>4
  <2>2. \A i \in 1 .. Len(list) : list[i] \notin T
    BY <2>1 DEF Hits
  <2>. QED  BY <1>3, <2>1, <2>2 DEF Got
<1>5. ASSUME f # 0
      PROVE  f \in 1 .. Len(list) /\ Got(list, T) = {list[f]} /\ list[f] \in T \cap ToSet(list)
  <2>. HIDE DEF f
  <2>1. f \in H /\ \A i \in H : f <= i
    BY <1>2, <1>5
  <2>2. f \in 1 .. Len(list) /\ list[f] \in T
    BY <2>1 DEF Hits
  <2>3. {j \in H : \A k \in H : j <= k} = {f}
    <3>. HIDE DEF H
    <3>1. \A j \in H : (\A k \in H : j <= k) => j = f
      <4>1. \A j \in H : j \in Nat
        BY <1>1
      <4>. QED  BY <2>1, <4>1
    <3>. QED  BY <2>1, <3>1
  <2>4. Got(list, T) = {list[i] : i \in {f}}
    BY <2>3 DEF Got
  <2>. QED  BY <1>3, <2>2, <2>4
<1>. QED  BY <1>4, <1>5

LEMMA GotProperties ==
  ASSUME NEW S, NEW list \in Seq(S), NEW T
  PROVE  /\ Got(list, T) \subseteq T \cap ToSet(list) /\ ToSet(list) \subseteq S
         /\ Got(list, T) = {} <=> \A m \in ToSet(list) : m \notin T
         /\ \A m1, m2 \in Got(list, T) : m1 = m2
<1>1. ToSet(list) \subseteq S
  BY Elements
<1>2. \/ Got(list, T) = {} /\ \A m \in ToSet(list) : m \notin T
      \/ \E m \in T \cap ToSet(list) : Got(list, T) = {m}
  BY GotSearch
<1>. QED  BY <1>1, <1>2

LEMMA GotConcat ==
  ASSUME NEW S, NEW s \in Seq(S), NEW t \in Seq(S), NEW T
  PROVE  Got(s \o t, T) = IF Got(s, T) # {} THEN Got(s, T) ELSE Got(t, T)
<1>. DEFINE u == s \o t
            a == First(Hits(s, T))
            b == First(Hits(t, T))
            c == First(Hits(u, T))
<1>1. /\ u \in Seq(S) /\ Len(u) = Len(s) + Len(t)
      /\ \A i \in 1 .. Len(s) + Len(t) : u[i] = IF i <= Len(s) THEN s[i] ELSE t[i - Len(s)]
  BY ConcatProperties
<1>2. Len(s) \in Nat /\ Len(t) \in Nat
  BY LenProperties
<1>. HIDE DEF u
<1>3. Hits(u, T) \subseteq 1 .. Len(u) /\ Hits(s, T) \subseteq 1 .. Len(s) /\ Hits(t, T) \subseteq 1 .. Len(t)
  BY DEF Hits
<1>4. ASSUME a # 0
      PROVE  c = a /\ u[a] = s[a]
  <2>1. a \in Hits(s, T) /\ \A i \in Hits(s, T) : a <= i
    BY <1>2, <1>3, <1>4, FirstProperties
  <2>. HIDE DEF a
  <2>2. a \in 1 .. Len(s) /\ s[a] \in T
    BY <2>1 DEF Hits
  <2>3. u[a] = s[a] /\ a \in 1 .. Len(u)
    BY <1>1, <1>2, <2>2
  <2>4. a \in Hits(u, T)
    BY <2>2, <2>3 DEF Hits
  <2>5. ASSUME NEW i \in Hits(u, T)
        PROVE  a <= i
    <3>1. i \in 1 .. Len(u) /\ u[i] \in T
      BY DEF Hits
    <3>2. CASE i <= Len(s)
      <4>1. i \in 1 .. Len(s) /\ s[i] \in T
        BY <1>1, <1>2, <3>1, <3>2
      <4>. QED  BY <2>1, <4>1 DEF Hits
    <3>3. CASE ~(i <= Len(s))
      BY <1>1, <1>2, <2>2, <3>1, <3>3
    <3>. QED  BY <3>2, <3>3
  <2>6. Len(u) \in Nat
    BY <1>1, <1>2
  <2>7. c = a
    BY <1>3, <2>4, <2>5, <2>6, FirstIs
  <2>. QED  BY <2>3, <2>7
<1>5. ASSUME a = 0, b # 0
      PROVE  c = Len(s) + b /\ u[c] = t[b]
  <2>1. b \in Hits(t, T) /\ \A i \in Hits(t, T) : b <= i
    BY <1>2, <1>3, <1>5, FirstProperties
  <2>0. Hits(s, T) = {}
    BY <1>2, <1>3, <1>5, FirstProperties
  <2>. HIDE DEF a, b
  <2>2. b \in 1 .. Len(t) /\ t[b] \in T
    BY <2>1 DEF Hits
  <2>. DEFINE d == Len(s) + b
  <2>3. d \in 1 .. Len(u) /\ u[d] = t[b]
    <3>1. d \in 1 .. Len(s) + Len(t) /\ ~(d <= Len(s)) /\ d - Len(s) = b
      BY <1>2, <2>2
    <3>. QED  BY <1>1, <3>1
  <2>4. d \in Hits(u, T)
    BY <2>2, <2>3 DEF Hits
  <2>5. ASSUME NEW i \in Hits(u, T)
        PROVE  d <= i
    <3>1. i \in 1 .. Len(u) /\ u[i] \in T
      BY DEF Hits
    <3>2. ~(i <= Len(s))
      <4>1. ASSUME i <= Len(s) PROVE FALSE
        <5>1. i \in 1 .. Len(s) /\ s[i] \in T
          BY <1>1, <1>2, <3>1, <4>1
        <5>. QED  BY <2>0, <5>1 DEF Hits
      <4>. QED  BY <4>1
    <3>3. i - Len(s) \in 1 .. Len(t) /\ t[i - Len(s)] \in T
      BY <1>1, <1>2, <3>1, <3>2
    <3>4. b <= i - Len(s)
      BY <2>1, <3>3 DEF Hits
    <3>. QED  BY <1>1, <1>2, <2>2, <3>1, <3>4
  <2>6. Len(u) \in Nat
    BY <1>1, <1>2
  <2>. HIDE DEF d
  <2>7. c = d
    BY <1>3, <2>4, <2>5, <2>6, FirstIs
  <2>. QED  BY <2>3, <2>7 DEF d
<1>6. ASSUME a = 0, b = 0
      PROVE  Got(u, T) = {}
  <2>1. (\A m \in ToSet(s) : m \notin T) /\ \A m \in ToSet(t) : m \notin T
    BY <1>6, GotSearch
  <2>2. ToSet(u) = ToSet(s) \cup ToSet(t)
    BY ToSetConcat DEF u
  <2>. QED  BY <1>1, <2>1, <2>2, GotProperties
<1>7. a # 0 => Got(s, T) = {s[a]} /\ a \in 1 .. Len(s)
  BY GotSearch
<1>8. b # 0 => Got(t, T) = {t[b]} /\ b \in 1 .. Len(t)
  BY GotSearch
<1>9. a = 0 => Got(s, T) = {}
  BY GotSearch
<1>10. b = 0 => Got(t, T) = {}
  BY GotSearch
<1>11. c # 0 => Got(u, T) = {u[c]}
  BY <1>1, GotSearch
<1>12. CASE a # 0
  BY <1>4, <1>7, <1>11, <1>12 DEF u
<1>13. CASE a = 0 /\ b # 0
  <2>1. c # 0
    <3>. HIDE DEF b, c
    <3>. QED  BY <1>2, <1>5, <1>8, <1>13
  <2>. QED  BY <1>5, <1>8, <1>9, <1>11, <1>13, <2>1 DEF u
<1>14. CASE a = 0 /\ b = 0
  BY <1>6, <1>9, <1>10, <1>14 DEF u
<1>. QED  BY <1>12, <1>13, <1>14

LEMMA GotSingle ==
  ASSUME NEW S, NEW e \in S, NEW T
  PROVE  Got(<<e>>, T) = IF e \in T THEN {e} ELSE {}
<1>. DEFINE s == <<e>>
<1>1. s \in Seq(S) /\ ToSet(s) = {e}
  BY ToSetSingle
<1>. HIDE DEF s
<1>2. /\ Got(s, T) \subseteq T \cap {e}
      /\ Got(s, T) = {} <=> e \notin T
  BY <1>1, GotProperties
<1>. QED  BY <1>2 DEF s

LEMMA GotEmpty == \A T : Got(<<>>, T) = {}
  BY ToSetEmpty, GotProperties

-----------------------------------------------------------------------------
(* Lists that are made element by element.                                 *)

Folded(R, s, start, g, f) ==
  /\ f \in [0 .. Len(s) -> R]
  /\ f[0] = start
  /\ \A k \in 1 .. Len(s) : f[k] = g[<<f[k - 1], s[k]>>]

LEMMA FoldExists ==
  ASSUME NEW R, NEW S, NEW s \in Seq(S), NEW start \in R, NEW g \in [R \X S -> R]
  PROVE  \E f : Folded(R, s, start, g, f)
<1>. DEFINE Upto(m) == {f \in [0 .. m -> R] :
                          f[0] = start /\ \A k \in 1 .. m : f[k] = g[<<f[k - 1], s[k]>>]}
            T == {m \in Nat : m <= Len(s) => Upto(m) # {}}
<1>0. Len(s) \in Nat /\ \A k \in 1 .. Len(s) : s[k] \in S
  BY Elements
<1>1. 0 \in T
  <2>1. [k \in 0 .. 0 |-> start] \in Upto(0)
    OBVIOUS
  <2>. HIDE DEF Upto
  <2>. QED  BY <2>1
<1>2. ASSUME NEW m \in Nat, m \in T
      PROVE  m + 1 \in T
  <2>. SUFFICES ASSUME m + 1 <= Len(s) PROVE Upto(m + 1) # {}
    <3>. HIDE DEF Upto
    <3>. QED  OBVIOUS
  <2>1. PICK f : f \in Upto(m)
    <3>1. m <= Len(s)
      BY <1>0
    <3>. HIDE DEF Upto
    <3>. QED  BY <1>2, <3>1
  <2>2. f \in [0 .. m -> R] /\ f[0] = start /\ \A k \in 1 .. m : f[k] = g[<<f[k - 1], s[k]>>]
    BY <2>1
  <2>. DEFINE x == g[<<f[m], s[m + 1]>>]
              h == [k \in 0 .. m + 1 |-> IF k = m + 1 THEN x ELSE f[k]]
  <2>3. x \in R
    <3>1. f[m] \in R /\ s[m + 1] \in S
      BY <1>0, <2>2
    <3>. QED  BY <3>1
  <2>. HIDE DEF x
  <2>4. h \in [0 .. m + 1 -> R] /\ h[0] = start
    BY <2>2, <2>3
  <2>5. \A k \in 1 .. m + 1 : h[k] = g[<<h[k - 1], s[k]>>]
    <3>. SUFFICES ASSUME NEW k \in 1 .. m + 1 PROVE h[k] = g[<<h[k - 1], s[k]>>]
      OBVIOUS
    <3>1. h[k - 1] = f[k - 1]
      OBVIOUS
    <3>4. k # m + 1 => h[k] = f[k]
      OBVIOUS
    <3>5. h[m + 1] = x
      OBVIOUS
    <3>. HIDE DEF h
    <3>2. CASE k = m + 1
      BY <3>1, <3>2, <3>5 DEF x
    <3>3. CASE k \in 1 .. m
      <4>1. k # m + 1 /\ f[k] = g[<<f[k - 1], s[k]>>]
        BY <2>2, <3>3
      <4>. QED  BY <3>1, <3>4, <4>1
    <3>. QED  BY <3>2, <3>3
  <2>6. h \in Upto(m + 1)
    BY <2>4, <2>5
  <2>. HIDE DEF Upto
  <2>. QED  BY <2>6
<1>3. Nat \subseteq T
  <2>. HIDE DEF T
  <2>. QED  BY <1>1, <1>2, Upwards
<1>4. Upto(Len(s)) # {}
  <2>. HIDE DEF Upto
  <2>. QED  BY <1>0, <1>3
<1>5. PICK f : f \in Upto(Len(s))
  <2>. HIDE DEF Upto
  <2>. QED  BY <1>4
<1>6. Folded(R, s, start, g, f)
  BY <1>5 DEF Folded
<1>. QED  BY <1>6

LEMMA PrefixProperties ==
  ASSUME NEW S, NEW s \in Seq(S)
  PROVE  /\ SubSeq(s, 1, 0) = <<>> /\ SubSeq(s, 1, Len(s)) = s
         /\ \A k \in 0 .. Len(s) - 1 :
              /\ SubSeq(s, 1, k) \in Seq(S) /\ s[k + 1] \in S
              /\ SubSeq(s, 1, k + 1) = SubSeq(s, 1, k) \o <<s[k + 1]>>
<1>1. Len(s) \in Nat /\ \A k \in 1 .. Len(s) : s[k] \in S
  BY Elements
<1>2. SubSeq(s, 1, 0) = <<>> /\ SubSeq(s, 1, Len(s)) = s
  BY SubSeqEmpty, SubSeqFull
<1>3. ASSUME NEW k \in 0 .. Len(s) - 1
      PROVE  /\ SubSeq(s, 1, k) \in Seq(S) /\ s[k + 1] \in S
             /\ SubSeq(s, 1, k + 1) = SubSeq(s, 1, k) \o <<s[k + 1]>>
  <2>1. k \in Int /\ 1 \in Int /\ \A i \in 1 .. k : s[i] \in S
    BY <1>1
  <2>2. SubSeq(s, 1, k) \in Seq(S)
    BY <2>1, SubSeqProperties
  <2>3. k + 1 \in 1 .. Len(s) /\ 1 \in 1 .. Len(s) /\ (k + 1) - 1 = k
    BY <1>1
  <2>4. SubSeq(s, 1, k + 1) = SubSeq(s, 1, (k + 1) - 1) \o <<s[k + 1]>>
    BY <2>3, SubSeqRecursiveSecond
  <2>. QED  BY <1>1, <2>2, <2>3, <2>4
<1>. QED  BY <1>2, <1>3

(* The elements of S of a name. *)
Called(S, n) == {m \in S : m.name = n}

LEMMA NamedIsHits ==
  ASSUME NEW S, NEW list \in Seq(S), NEW n
  PROVE  Named(list, n) = First(Hits(list, Called(S, n)))
<1>1. {i \in 1 .. Len(list) : list[i].name = n} = Hits(list, Called(S, n))
  BY Elements DEF Hits, Called
<1>. QED  BY <1>1, SearchesAreFirst

LEMMA NamedIsGot ==
  ASSUME NEW S, NEW list \in Seq(S), NEW n
  PROVE  Named(list, n) = 0 <=> Got(list, Called(S, n)) = {}
<1>. DEFINE i == First(Hits(list, Called(S, n)))
<1>1. /\ i = 0 => Got(list, Called(S, n)) = {}
      /\ i # 0 => Got(list, Called(S, n)) = {list[i]}
  BY GotSearch
<1>. QED  BY <1>1, NamedIsHits

(* What a table has of a list. *)
LEMMA AtProperties ==
  ASSUME NEW S, NEW list \in Seq(S), NEW T
  PROVE  /\ Got(list, T) = {} => At(list, First(Hits(list, T))) = NULL
         /\ \A m \in Got(list, T) : At(list, First(Hits(list, T))) = m.func
<1>. DEFINE i == First(Hits(list, T))
<1>1. /\ i = 0 => Got(list, T) = {}
      /\ i # 0 => Got(list, T) = {list[i]}
  BY GotSearch
<1>. HIDE DEF i
<1>2. /\ Got(list, T) = {} => At(list, i) = NULL
      /\ \A m \in Got(list, T) : At(list, i) = m.func
  BY <1>1 DEF At
<1>. QED  BY <1>2 DEF i

LEMMA IfAbsentProperties ==
  ASSUME NEW S, NEW list \in Seq(S), NEW m \in S
  PROVE  /\ IfAbsent(list, m) \in Seq(S)
         /\ IfAbsent(list, m) = IF Got(list, Called(S, m.name)) = {} THEN <<m>> \o list ELSE list
<1>1. IfAbsent(list, m) = IF Got(list, Called(S, m.name)) = {} THEN <<m>> \o list ELSE list
  BY NamedIsGot DEF IfAbsent
<1>. QED  BY <1>1, ToSetConcat, ToSetSingle

LEMMA WithAbsentRuns ==
  ASSUME NEW S, NEW list \in Seq(S), NEW offers \in Seq(S)
  PROVE  \E f : /\ WithAbsent(list, offers) = f[Len(offers)]
                /\ f[0] = list
                /\ \A k \in 0 .. Len(offers) - 1 : f[k + 1] = IfAbsent(f[k], offers[k + 1])
<1>. DEFINE n == Len(offers)
            Step(h) == [k \in 0 .. n |-> IF k = 0 THEN list ELSE IfAbsent(h[k - 1], offers[k])]
            with == CHOOSE h : h = Step(h)
            g == [p \in Seq(S) \X S |-> IfAbsent(p[1], p[2])]
<1>0. n \in Nat /\ \A k \in 1 .. n : offers[k] \in S
  BY Elements
<1>1. g \in [Seq(S) \X S -> Seq(S)]
  BY IfAbsentProperties
<1>2. \A l \in Seq(S), m \in S : g[<<l, m>>] = IfAbsent(l, m)
  OBVIOUS
<1>. HIDE DEF g
<1>3. PICK f : Folded(Seq(S), offers, list, g, f)
  BY <1>1, FoldExists
<1>4. \A k \in 1 .. n : f[k - 1] \in Seq(S) /\ offers[k] \in S
  BY <1>0, <1>3 DEF Folded
<1>5. \A k \in 1 .. n : f[k] = IfAbsent(f[k - 1], offers[k])
  <2>. SUFFICES ASSUME NEW k \in 1 .. n PROVE f[k] = IfAbsent(f[k - 1], offers[k])
    OBVIOUS
  <2>1. f[k] = g[<<f[k - 1], offers[k]>>]
    BY <1>3 DEF Folded
  <2>. QED  BY <1>2, <1>4, <2>1
<1>6. f = Step(f)
  BY <1>0, <1>3, <1>5 DEF Folded
<1>7. with = Step(with)
  BY <1>6, Zenon
<1>8. WithAbsent(list, offers) = with[n]
  BY Zenon DEF WithAbsent
<1>. HIDE DEF with
<1>9. with[0] = list /\ \A k \in 0 .. n - 1 : with[k + 1] = IfAbsent(with[k], offers[k + 1])
  BY <1>0, <1>7
<1>. QED  BY <1>8, <1>9

(* The list after offers were taken: new elements before the old ones. *)
Completed(S, list, offers, k, l) ==
  /\ \E new \in Seq(S) :
       /\ l = new \o list
       /\ \A m \in ToSet(new) : m \in ToSet(offers) /\ Got(list, Called(S, m.name)) = {}
  /\ \A n : Got(l, Called(S, n)) = IF Got(list, Called(S, n)) # {} THEN Got(list, Called(S, n))
                                   ELSE Got(SubSeq(offers, 1, k), Called(S, n))

LEMMA CompletedMore ==
  ASSUME NEW S, NEW list \in Seq(S), NEW offers \in Seq(S), NEW k \in 0 .. Len(offers) - 1,
         NEW l, Completed(S, list, offers, k, l)
  PROVE  Completed(S, list, offers, k + 1, IfAbsent(l, offers[k + 1]))
<1>. DEFINE o == offers[k + 1]
            P == SubSeq(offers, 1, k)
            Q == SubSeq(offers, 1, k + 1)
            C(n) == Called(S, n)
            one == <<o>>
<1>1. P \in Seq(S) /\ o \in S /\ Q = P \o one
  BY PrefixProperties
<1>2. PICK new \in Seq(S) :
        /\ l = new \o list
        /\ \A m \in ToSet(new) : m \in ToSet(offers) /\ Got(list, C(m.name)) = {}
  BY DEF Completed
<1>3. \A n : Got(l, C(n)) = IF Got(list, C(n)) # {} THEN Got(list, C(n)) ELSE Got(P, C(n))
  BY DEF Completed
<1>4. l \in Seq(S)
  BY <1>2, ToSetConcat
<1>5. o \in ToSet(offers)
  <2>1. k + 1 \in 1 .. Len(offers)
    BY LenProperties
  <2>. QED  BY <2>1, Elements
<1>. HIDE DEF P, Q, o
<1>6. one \in Seq(S) /\ ToSet(one) = {o} /\ \A U : Got(one, U) = IF o \in U THEN {o} ELSE {}
  BY <1>1, ToSetSingle, GotSingle
<1>9. IfAbsent(l, o) = IF Got(l, C(o.name)) = {} THEN one \o l ELSE l
  BY <1>1, <1>4, IfAbsentProperties
<1>. HIDE DEF one
<1>7. \A n : Got(Q, C(n)) = IF Got(P, C(n)) # {} THEN Got(P, C(n)) ELSE IF o \in C(n) THEN {o} ELSE {}
  <2>1. \A n : Got(Q, C(n)) = IF Got(P, C(n)) # {} THEN Got(P, C(n)) ELSE Got(one, C(n))
    BY <1>1, <1>6, GotConcat
  <2>. QED  BY <1>6, <2>1
<1>8. \A n : o \in C(n) <=> n = o.name
  BY <1>1 DEF Called
<1>10. CASE Got(l, C(o.name)) = {}
  <2>. DEFINE more == one \o new
              r == one \o l
  <2>1. more \in Seq(S) /\ ToSet(more) = {o} \cup ToSet(new)
    BY <1>2, <1>6, ToSetConcat
  <2>2. r = more \o list
    <3>1. (one \o new) \o list = one \o (new \o list)
      <4>1. one \in Seq(S) /\ new \in Seq(S) /\ list \in Seq(S)
        BY <1>6
      <4>. QED  BY <4>1, ConcatAssociative
    <3>. QED  BY <1>2, <3>1
  <2>3. \A n : Got(r, C(n)) = IF o \in C(n) THEN {o} ELSE Got(l, C(n))
    <3>1. \A n : Got(r, C(n)) = IF Got(one, C(n)) # {} THEN Got(one, C(n)) ELSE Got(l, C(n))
      BY <1>4, <1>6, GotConcat
    <3>. QED  BY <1>6, <3>1
  <2>4. IfAbsent(l, o) = r
    BY <1>9, <1>10
  <2>. HIDE DEF more, r
  <2>5. Got(list, C(o.name)) = {} /\ Got(P, C(o.name)) = {}
    BY <1>3, <1>10
  <2>. HIDE DEF C
  <2>6. \A m \in ToSet(more) : m \in ToSet(offers) /\ Got(list, C(m.name)) = {}
    BY <1>2, <1>5, <2>1, <2>5
  <2>7. ASSUME NEW n
        PROVE  Got(r, C(n)) = IF Got(list, C(n)) # {} THEN Got(list, C(n)) ELSE Got(Q, C(n))
    <3>1. CASE n = o.name
      <4>1. Got(r, C(n)) = {o} /\ Got(Q, C(n)) = {o} /\ Got(list, C(n)) = {}
        BY <1>7, <1>8, <2>3, <2>5, <3>1
      <4>. QED  BY <4>1
    <3>2. CASE n # o.name
      <4>1. Got(r, C(n)) = Got(l, C(n)) /\ Got(Q, C(n)) = Got(P, C(n))
        BY <1>7, <1>8, <2>3, <3>2
      <4>. QED  BY <1>3, <4>1
    <3>. QED  BY <3>1, <3>2
  <2>8. Completed(S, list, offers, k + 1, r)
    BY <2>1, <2>2, <2>6, <2>7 DEF Completed, C, Q
  <2>. QED  BY <2>4, <2>8 DEF o
<1>11. CASE Got(l, C(o.name)) # {}
  <2>1. IfAbsent(l, o) = l
    BY <1>9, <1>11
  <2>. HIDE DEF C
  <2>2. ASSUME NEW n
        PROVE  Got(l, C(n)) = IF Got(list, C(n)) # {} THEN Got(list, C(n)) ELSE Got(Q, C(n))
    <3>1. CASE n = o.name
      BY <1>3, <1>7, <1>11, <3>1
    <3>2. CASE n # o.name
      <4>1. Got(Q, C(n)) = Got(P, C(n))
        BY <1>7, <1>8, <3>2
      <4>. QED  BY <1>3, <4>1
    <3>. QED  BY <3>1, <3>2
  <2>3. Completed(S, list, offers, k + 1, l)
    BY <1>2, <2>2 DEF Completed, C, Q
  <2>. QED  BY <2>1, <2>3 DEF o
<1>. QED  BY <1>10, <1>11

Added(S, list, offers, w) ==
  /\ w \in Seq(S)
  /\ \E new \in Seq(S) :
       /\ w = new \o list
       /\ \A m \in ToSet(new) : m \in ToSet(offers) /\ Got(list, Called(S, m.name)) = {}
  /\ \A n : Got(w, Called(S, n)) =
              IF Got(list, Called(S, n)) # {} THEN Got(list, Called(S, n)) ELSE Got(offers, Called(S, n))

LEMMA WithAbsentProperties ==
  ASSUME NEW S, NEW list \in Seq(S), NEW offers \in Seq(S)
  PROVE  Added(S, list, offers, WithAbsent(list, offers))
<1>. DEFINE N == Len(offers)
<1>1. PICK f : /\ WithAbsent(list, offers) = f[N]
               /\ f[0] = list
               /\ \A k \in 0 .. N - 1 : f[k + 1] = IfAbsent(f[k], offers[k + 1])
  BY WithAbsentRuns
<1>. DEFINE T == {k \in Nat : k <= N => Completed(S, list, offers, k, f[k])}
<1>2. 0 \in T
  <2>1. list = <<>> \o list /\ <<>> \in Seq(S) /\ ToSet(<<>>) = {}
    BY ConcatEmptySeq, ToSetEmpty
  <2>2. SubSeq(offers, 1, 0) = <<>>
    BY PrefixProperties
  <2>3. Completed(S, list, offers, 0, list)
    BY <2>1, <2>2, GotEmpty DEF Completed
  <2>. QED  BY <1>1, <2>3
<1>3. ASSUME NEW k \in Nat, k \in T
      PROVE  k + 1 \in T
  <2>. SUFFICES ASSUME k + 1 <= N PROVE Completed(S, list, offers, k + 1, f[k + 1])
    OBVIOUS
  <2>1. k \in 0 .. N - 1 /\ k <= N
    BY LenProperties
  <2>2. Completed(S, list, offers, k, f[k])
    BY <1>3, <2>1
  <2>3. Completed(S, list, offers, k + 1, IfAbsent(f[k], offers[k + 1]))
    BY <2>1, <2>2, CompletedMore
  <2>. QED  BY <1>1, <2>1, <2>3
<1>4. Nat \subseteq T
  <2>. HIDE DEF T
  <2>. QED  BY <1>2, <1>3, Upwards
<1>5. Completed(S, list, offers, N, WithAbsent(list, offers)) /\ SubSeq(offers, 1, N) = offers
  BY <1>1, <1>4, LenProperties, PrefixProperties
<1>. DEFINE W == WithAbsent(list, offers)
<1>6. PICK new \in Seq(S) :
        /\ W = new \o list
        /\ \A m \in ToSet(new) : m \in ToSet(offers) /\ Got(list, Called(S, m.name)) = {}
  BY <1>5 DEF Completed
<1>7. \A n : Got(W, Called(S, n)) =
               IF Got(list, Called(S, n)) # {} THEN Got(list, Called(S, n)) ELSE Got(offers, Called(S, n))
  BY <1>5 DEF Completed
<1>8. W \in Seq(S)
  BY <1>6, ToSetConcat
<1>. HIDE DEF W
<1>9. Added(S, list, offers, W)
  BY <1>6, <1>7, <1>8 DEF Added
<1>. QED  BY <1>9 DEF W

-----------------------------------------------------------------------------
(* The methods of one object, in the list of those of all.                 *)

OwnBy(S, box, n) == {m \in S : m.receiver = box /\ m.name = n}

LEMMA OwnIsHits ==
  ASSUME NEW S, singleton_methods \in Seq(S), NEW box, NEW n
  PROVE  Own(box, n) = First(Hits(singleton_methods, OwnBy(S, box, n)))
<1>1. {i \in 1 .. Len(singleton_methods) :
         singleton_methods[i].receiver = box /\ singleton_methods[i].name = n}
        = Hits(singleton_methods, OwnBy(S, box, n))
  BY Elements DEF Hits, OwnBy
<1>. QED  BY <1>1, SearchesAreFirst

Own1(box, list, m) == IF m.receiver = box THEN Append(list, m) ELSE list

LEMMA OfRuns ==
  ASSUME NEW S, singleton_methods \in Seq(S), NEW box
  PROVE  \E f : /\ Of(box) = f[Len(singleton_methods)]
                /\ f[0] = <<>>
                /\ \A k \in 0 .. Len(singleton_methods) - 1 :
                     f[k + 1] = Own1(box, f[k], singleton_methods[k + 1])
<1>. DEFINE s == singleton_methods
            n == Len(s)
            Step(h) == [k \in 0 .. n |-> IF k = 0 THEN <<>> ELSE Own1(box, h[k - 1], s[k])]
            of == CHOOSE h : h = Step(h)
            g == [p \in Seq(S) \X S |-> Own1(box, p[1], p[2])]
<1>0. n \in Nat /\ (\A k \in 1 .. n : s[k] \in S) /\ <<>> \in Seq(S)
  BY Elements
<1>1. g \in [Seq(S) \X S -> Seq(S)]
  <2>1. \A l \in Seq(S), m \in S : Own1(box, l, m) \in Seq(S)
    BY AppendProperties DEF Own1
  <2>. QED  BY <2>1
<1>2. \A l \in Seq(S), m \in S : g[<<l, m>>] = Own1(box, l, m)
  OBVIOUS
<1>. HIDE DEF g
<1>3. PICK f : Folded(Seq(S), s, <<>>, g, f)
  BY <1>0, <1>1, FoldExists
<1>4. \A k \in 1 .. n : f[k - 1] \in Seq(S) /\ s[k] \in S
  BY <1>0, <1>3 DEF Folded
<1>5. \A k \in 1 .. n : f[k] = Own1(box, f[k - 1], s[k])
  <2>. SUFFICES ASSUME NEW k \in 1 .. n PROVE f[k] = Own1(box, f[k - 1], s[k])
    OBVIOUS
  <2>1. f[k] = g[<<f[k - 1], s[k]>>]
    BY <1>3 DEF Folded
  <2>. QED  BY <1>2, <1>4, <2>1
<1>6. f = Step(f)
  BY <1>0, <1>3, <1>5 DEF Folded
<1>7. of = Step(of)
  BY <1>6, Zenon
<1>8. Of(box) = of[n]
  BY Zenon DEF Of, Own1
<1>. HIDE DEF of
<1>9. of[0] = <<>> /\ \A k \in 0 .. n - 1 : of[k + 1] = Own1(box, of[k], s[k + 1])
  BY <1>0, <1>7
<1>. QED  BY <1>8, <1>9

LEMMA OfProperties ==
  ASSUME NEW S, singleton_methods \in Seq(S), NEW box
  PROVE  /\ Of(box) \in Seq(S)
         /\ \A m \in ToSet(Of(box)) : m \in ToSet(singleton_methods) /\ m.receiver = box
         /\ \A n : Got(Of(box), Called(S, n)) = Got(singleton_methods, OwnBy(S, box, n))
<1>. DEFINE s == singleton_methods
            N == Len(s)
<1>1. PICK f : /\ Of(box) = f[N]
               /\ f[0] = <<>>
               /\ \A k \in 0 .. N - 1 : f[k + 1] = Own1(box, f[k], s[k + 1])
  BY OfRuns
<1>. DEFINE Good(k) == /\ f[k] \in Seq(S)
                       /\ \A m \in ToSet(f[k]) : m \in ToSet(s) /\ m.receiver = box
                       /\ \A n : Got(f[k], Called(S, n)) = Got(SubSeq(s, 1, k), OwnBy(S, box, n))
            T == {k \in Nat : k <= N => Good(k)}
<1>2. 0 \in T
  <2>. DEFINE none == <<>>
  <2>1. none \in Seq(S) /\ ToSet(none) = {} /\ \A U : Got(none, U) = {}
    BY ToSetEmpty, GotEmpty
  <2>2. f[0] = none /\ SubSeq(s, 1, 0) = none
    BY <1>1, PrefixProperties
  <2>. HIDE DEF none
  <2>. QED  BY <2>1, <2>2
<1>3. ASSUME NEW k \in Nat, k \in T
      PROVE  k + 1 \in T
  <2>. SUFFICES ASSUME k + 1 <= N PROVE Good(k + 1)
    OBVIOUS
  <2>1. k \in 0 .. N - 1 /\ k <= N /\ k + 1 \in 1 .. N
    BY LenProperties
  <2>2. Good(k)
    BY <1>3, <2>1
  <2>. DEFINE o == s[k + 1]
              P == SubSeq(s, 1, k)
              Q == SubSeq(s, 1, k + 1)
              one == <<o>>
  <2>3. P \in Seq(S) /\ o \in S /\ o \in ToSet(s) /\ Q = P \o one
    BY <2>1, PrefixProperties, Elements
  <2>4. f[k + 1] = Own1(box, f[k], o)
    BY <1>1, <2>1
  <2>. HIDE DEF o, P, Q
  <2>5. one \in Seq(S) /\ ToSet(one) = {o} /\ \A U : Got(one, U) = IF o \in U THEN {o} ELSE {}
    BY <2>3, ToSetSingle, GotSingle
  <2>9. o.receiver = box => f[k + 1] = f[k] \o one
    BY <2>2, <2>3, <2>4, AppendIsConcat DEF Own1
  <2>. HIDE DEF one
  <2>6. \A U : Got(Q, U) = IF Got(P, U) # {} THEN Got(P, U) ELSE IF o \in U THEN {o} ELSE {}
    <3>1. \A U : Got(Q, U) = IF Got(P, U) # {} THEN Got(P, U) ELSE Got(one, U)
      BY <2>3, <2>5, GotConcat
    <3>. QED  BY <2>5, <3>1
  <2>7. CASE o.receiver = box
    <3>1. f[k + 1] = f[k] \o one
      BY <2>7, <2>9
    <3>2. f[k + 1] \in Seq(S) /\ ToSet(f[k + 1]) = ToSet(f[k]) \cup {o}
      BY <2>2, <2>5, <3>1, ToSetConcat
    <3>3. \A U : Got(f[k + 1], U) = IF Got(f[k], U) # {} THEN Got(f[k], U) ELSE IF o \in U THEN {o} ELSE {}
      <4>1. \A U : Got(f[k + 1], U) = IF Got(f[k], U) # {} THEN Got(f[k], U) ELSE Got(one, U)
        BY <2>2, <2>5, <3>1, GotConcat
      <4>. QED  BY <2>5, <4>1
    <3>4. \A n : o \in Called(S, n) <=> o \in OwnBy(S, box, n)
      BY <2>7 DEF Called, OwnBy
    <3>5. ASSUME NEW n
          PROVE  Got(f[k + 1], Called(S, n)) = Got(Q, OwnBy(S, box, n))
      <4>1. Got(f[k], Called(S, n)) = Got(P, OwnBy(S, box, n))
        BY <2>2 DEF P
      <4>. QED  BY <2>6, <3>3, <3>4, <4>1
    <3>6. \A m \in ToSet(f[k + 1]) : m \in ToSet(s) /\ m.receiver = box
      BY <2>2, <2>3, <2>7, <3>2
    <3>. QED  BY <3>2, <3>5, <3>6 DEF Q
  <2>8. CASE o.receiver # box
    <3>1. f[k + 1] = f[k]
      BY <2>4, <2>8 DEF Own1
    <3>2. \A n : o \notin OwnBy(S, box, n)
      BY <2>8 DEF OwnBy
    <3>3. \A n : Got(Q, OwnBy(S, box, n)) = Got(P, OwnBy(S, box, n))
      BY <2>6, <3>2
    <3>. QED  BY <2>2, <3>1, <3>3 DEF P, Q
  <2>. QED  BY <2>7, <2>8
<1>4. Nat \subseteq T
  <2>. HIDE DEF T
  <2>. QED  BY <1>2, <1>3, Upwards
<1>5. Good(N) /\ SubSeq(s, 1, N) = s
  BY <1>4, LenProperties, PrefixProperties
<1>. QED  BY <1>1, <1>5

-----------------------------------------------------------------------------
(* The types of the lists, and what each operation makes of them.          *)

Boxes           == ClassBoxes \cup {InstanceBox(i) : i \in Nat}
SingletonRecord == [receiver : Boxes, name : Selectors, func : Functions]
EnumBoxes(c)    == {EnumBox(c, n, v) : n \in Members, v \in Values}
ClassRecord(c)  == [superclass : Classes \cup {NULL}, is_module : BOOLEAN,
                    methods : Seq(Methods), constants : Seq(EnumBoxes(c))]

TypeInv ==
  /\ Known \subseteq Classes
  /\ \A c \in Known : class[c] \in ClassRecord(c) /\ class[c].superclass \in Known \cup {NULL}
  /\ singleton_methods \in Seq(SingletonRecord)
  /\ instances \in Seq(Known)
  /\ made \in Nat /\ ds_io_builtins_initialized \in BOOLEAN
  /\ Len(instances) <= MaxInstances + (IF ds_io_builtins_initialized THEN 1 ELSE 0)

(* A class that is not there yet counts as an empty one. *)
Was(c) == IF c \in Known THEN class[c]
          ELSE [superclass |-> NULL, is_module |-> FALSE, methods |-> <<>>, constants |-> <<>>]

Becomes(c, r) == /\ Known' = Known \cup {c}
                 /\ class'[c] = r
                 /\ \A d \in Known \ {c} : class'[d] = class[d]

SameConstants(c, r) == r.constants = Was(c).constants
SameLine(c, r)      == r.superclass = Was(c).superclass

LEMMA WasType ==
  ASSUME TypeInv, NEW c \in Classes
  PROVE  Was(c) \in ClassRecord(c)
<1>1. CASE c \in Known
  BY <1>1 DEF TypeInv, Was
<1>2. CASE c \notin Known
  <2>1. <<>> \in Seq(Methods) /\ <<>> \in Seq(EnumBoxes(c))
    BY ToSetEmpty
  <2>. QED  BY <1>2, <2>1 DEF Was, ClassRecord
<1>. QED  BY <1>1, <1>2

LEMMA FlagUpdated ==
  ASSUME NEW c, NEW r \in ClassRecord(c), NEW b \in BOOLEAN
  PROVE  LET q == [r EXCEPT !.is_module = @ \/ b]
         IN  q \in ClassRecord(c) /\ q.superclass = r.superclass /\ q.methods = r.methods /\ q.constants = r.constants
BY DEF ClassRecord

LEMMA LineUpdated ==
  ASSUME NEW c, NEW r \in ClassRecord(c), NEW x \in Classes \cup {NULL}
  PROVE  LET q == [r EXCEPT !.superclass = x]
         IN  q \in ClassRecord(c) /\ q.superclass = x /\ q.methods = r.methods /\ q.constants = r.constants
BY DEF ClassRecord

LEMMA MethodsUpdated ==
  ASSUME NEW c, NEW r \in ClassRecord(c), NEW x \in Seq(Methods)
  PROVE  LET q == [r EXCEPT !.methods = x]
         IN  q \in ClassRecord(c) /\ q.superclass = r.superclass /\ q.methods = x /\ q.constants = r.constants
BY DEF ClassRecord

LEMMA ConstantsUpdated ==
  ASSUME NEW c, NEW r \in ClassRecord(c), NEW x \in Seq(EnumBoxes(c))
  PROVE  LET q == [r EXCEPT !.constants = x]
         IN  q \in ClassRecord(c) /\ q.superclass = r.superclass /\ q.methods = r.methods /\ q.constants = x
BY DEF ClassRecord

LEMMA OpenedBecomes ==
  ASSUME TypeInv, NEW c \in Classes, NEW b \in BOOLEAN
  PROVE  /\ DOMAIN Opened(c, b) = Known \cup {c}
         /\ \A d \in Known \ {c} : Opened(c, b)[d] = class[d]
         /\ Opened(c, b)[c] = [Was(c) EXCEPT !.is_module = @ \/ b]
<1>1. CASE c \in Known
  BY <1>1 DEF Opened, Was, Known
<1>2. CASE c \notin Known
  BY <1>2 DEF Opened, Was
<1>. QED  BY <1>1, <1>2

(* A class is opened: it has the methods and constants it had. *)
Opens(c) ==
  /\ \E r \in ClassRecord(c) :
       /\ Becomes(c, r) /\ SameConstants(c, r) /\ r.methods = Was(c).methods
       /\ SameLine(c, r) \/ (r.superclass \in Known /\ c \notin ToSet(Lineage(r.superclass)))
  /\ Naming(c)
  /\ UNCHANGED <<singleton_methods, objects>>

LEMMA DefineModuleOpens ==
  ASSUME TypeInv, NEW c \in Classes, DefineModule(c)
  PROVE  Opens(c)
<1>. DEFINE r == [Was(c) EXCEPT !.is_module = @ \/ TRUE]
<1>1. r \in ClassRecord(c) /\ r.superclass = Was(c).superclass /\ r.methods = Was(c).methods
      /\ r.constants = Was(c).constants
  <2>1. Was(c) \in ClassRecord(c)
    BY WasType
  <2>. QED  BY <2>1, FlagUpdated
<1>2. Becomes(c, r)
  BY OpenedBecomes DEF DefineModule, Becomes, Known
<1>. HIDE DEF r
<1>. QED  BY <1>1, <1>2 DEF Opens, DefineModule, SameConstants, SameLine

LEMMA DefineClassOpens ==
  ASSUME TypeInv, NEW c \in Classes, NEW superclass \in Classes \cup {NULL}, DefineClass(c, superclass)
  PROVE  Opens(c)
<1>. DEFINE q == [Was(c) EXCEPT !.is_module = @ \/ FALSE]
            r == IF superclass = NULL THEN q ELSE [q EXCEPT !.superclass = superclass]
<1>1. q \in ClassRecord(c) /\ q.superclass = Was(c).superclass /\ q.methods = Was(c).methods
      /\ q.constants = Was(c).constants
  <2>1. Was(c) \in ClassRecord(c)
    BY WasType
  <2>. QED  BY <2>1, FlagUpdated
<1>2. /\ DOMAIN Opened(c, FALSE) = Known \cup {c}
      /\ \A d \in Known \ {c} : Opened(c, FALSE)[d] = class[d]
      /\ Opened(c, FALSE)[c] = q
  BY OpenedBecomes
<1>. HIDE DEF q
<1>3. r \in ClassRecord(c) /\ r.methods = Was(c).methods /\ r.constants = Was(c).constants
      /\ r.superclass = IF superclass = NULL THEN Was(c).superclass ELSE superclass
  BY <1>1, LineUpdated
<1>4. Becomes(c, r)
  <2>1. CASE superclass = NULL
    BY <1>2, <2>1 DEF DefineClass, Becomes, Known
  <2>2. CASE superclass # NULL
    BY <1>2, <2>2 DEF DefineClass, Becomes, Known
  <2>. QED  BY <2>1, <2>2
<1>5. superclass # NULL => superclass \in Known /\ c \notin ToSet(Lineage(superclass))
  BY DEF DefineClass
<1>. HIDE DEF r
<1>6. SameLine(c, r) \/ (r.superclass \in Known /\ c \notin ToSet(Lineage(r.superclass)))
  BY <1>3, <1>5 DEF SameLine
<1>. QED  BY <1>3, <1>4, <1>6 DEF Opens, DefineClass, SameConstants

(* Functions become methods of a class. *)
Listed(fs)          == [i \in DOMAIN fs |-> Method(fs[i], fs[i].yields)]
ListedFor(box, fs)  == [i \in DOMAIN fs |-> Singleton(box, fs[i])]

Writes(c, fs) ==
  /\ \E r \in ClassRecord(c) :
       /\ Becomes(c, r) /\ SameConstants(c, r) /\ SameLine(c, r)
       /\ r.methods = Listed(fs) \o Was(c).methods
  /\ singleton_methods' = ListedFor(ClassBox(c), fs) \o singleton_methods
  /\ made' = made + 1

LEMMA ListedTypes ==
  ASSUME NEW fs \in Seq(Functions), NEW box \in Boxes
  PROVE  /\ Listed(fs) \in Seq(Methods)
         /\ ListedFor(box, fs) \in Seq(SingletonRecord)
         /\ ToSet(Listed(fs)) = {Method(f, f.yields) : f \in ToSet(fs)}
         /\ ToSet(ListedFor(box, fs)) = {Singleton(box, f) : f \in ToSet(fs)}
<1>1. Len(fs) \in Nat /\ DOMAIN fs = 1 .. Len(fs) /\ (\A i \in 1 .. Len(fs) : fs[i] \in Functions)
      /\ ToSet(fs) = {fs[i] : i \in 1 .. Len(fs)}
  BY Elements
<1>2. \A f \in Functions : Method(f, f.yields) \in Methods /\ Singleton(box, f) \in SingletonRecord
  BY DEF Functions, Methods, Method, Singleton, SingletonRecord
<1>3. Listed(fs) \in [1 .. Len(fs) -> Methods] /\ ListedFor(box, fs) \in [1 .. Len(fs) -> SingletonRecord]
  BY <1>1, <1>2 DEF Listed, ListedFor
<1>4. /\ Listed(fs) \in Seq(Methods) /\ Len(Listed(fs)) = Len(fs)
      /\ ListedFor(box, fs) \in Seq(SingletonRecord) /\ Len(ListedFor(box, fs)) = Len(fs)
  BY <1>1, <1>3, SegmentIsSeq
<1>5. /\ \A i \in 1 .. Len(fs) : Listed(fs)[i] = Method(fs[i], fs[i].yields)
      /\ \A i \in 1 .. Len(fs) : ListedFor(box, fs)[i] = Singleton(box, fs[i])
  BY <1>1 DEF Listed, ListedFor
<1>6. /\ ToSet(Listed(fs)) = {Listed(fs)[i] : i \in 1 .. Len(fs)}
      /\ ToSet(ListedFor(box, fs)) = {ListedFor(box, fs)[i] : i \in 1 .. Len(fs)}
  BY <1>4, Elements
<1>7. ToSet(Listed(fs)) = {Method(f, f.yields) : f \in ToSet(fs)}
  BY <1>1, <1>5, <1>6
<1>8. ToSet(ListedFor(box, fs)) = {Singleton(box, f) : f \in ToSet(fs)}
  BY <1>1, <1>5, <1>6
<1>. QED  BY <1>4, <1>7, <1>8

(* What a class and its singletons are made of: one function, or those of  *)
(* the builtins. Their names differ, and no function was made before.      *)
NewFunctions(c, fs) ==
  /\ fs \in Seq(Functions)
  /\ \A f \in ToSet(fs) : f.id = made /\ f.owner = c
  /\ \A f, g \in ToSet(fs) : f.name = g.name => f = g

LEMMA DefineMethodWrites ==
  ASSUME TypeInv, NEW c \in Known, NEW n \in Selectors, NEW yields \in BOOLEAN,
         DefineMethod(c, n, yields)
  PROVE  \E fs : /\ NewFunctions(c, fs) /\ Writes(c, fs)
                 /\ UNCHANGED <<names, instances, ds_io_builtins_initialized>>
<1>. DEFINE f == Function(made, c, n, yields)
            fs == <<f>>
<1>1. f \in Functions /\ f.id = made /\ f.owner = c
  BY DEF TypeInv, Functions, Function
<1>2. fs \in Seq(Functions) /\ ToSet(fs) = {f}
  BY <1>1, ToSetSingle
<1>3. NewFunctions(c, fs)
  <2>. HIDE DEF f, fs
  <2>. QED  BY <1>1, <1>2 DEF NewFunctions
<1>. DEFINE ms == Listed(fs) \o Was(c).methods
            r == [Was(c) EXCEPT !.methods = ms]
<1>4. class' = [class EXCEPT ![c].methods = Listed(fs) \o @]
  BY DEF DefineMethod, Prepended, Listed
<1>5. singleton_methods' = ListedFor(ClassBox(c), fs) \o singleton_methods /\ made' = made + 1
  BY DEF DefineMethod, PrependedFor, ListedFor
<1>6. UNCHANGED <<names, instances, ds_io_builtins_initialized>>
  BY DEF DefineMethod
<1>. HIDE DEF f, fs
<1>7. Was(c) = class[c] /\ c \in Classes /\ Was(c) \in ClassRecord(c)
  BY WasType DEF Was, TypeInv
<1>8. ms \in Seq(Methods)
  <2>1. ClassBox(c) \in Boxes
    BY <1>7 DEF Boxes, ClassBoxes
  <2>2. Listed(fs) \in Seq(Methods) /\ Was(c).methods \in Seq(Methods)
    BY <1>2, <1>7, <2>1, ListedTypes DEF ClassRecord
  <2>. QED  BY <2>2, ToSetConcat
<1>9. r \in ClassRecord(c) /\ r.superclass = Was(c).superclass /\ r.methods = ms
      /\ r.constants = Was(c).constants
  <2>1. Was(c) \in ClassRecord(c) /\ ms \in Seq(Methods)
    BY <1>7, <1>8
  <2>. HIDE DEF ms
  <2>. QED  BY <2>1, MethodsUpdated
<1>10. Becomes(c, r)
  BY <1>4, <1>7 DEF Becomes, Known
<1>11. Writes(c, fs)
  <2>. HIDE DEF r
  <2>. QED  BY <1>5, <1>9, <1>10 DEF Writes, SameConstants, SameLine
<1>. QED  BY <1>3, <1>6, <1>11

(* The functions of the builtins. *)
LEMMA BuiltinFunctions ==
  ASSUME TypeInv
  PROVE  LET S  == {Function(made, IOStream, n, FALSE) : n \in Builtins}
             fs == SetToSeq(S)
         IN  NewFunctions(IOStream, fs) /\ ToSet(fs) = S
<1>. DEFINE F(n) == Function(made, IOStream, n, FALSE)
            S == {F(n) : n \in Builtins}
            fs == SetToSeq(S)
<1>0. \A n \in Builtins : /\ F(n) \in Functions /\ F(n).id = made
                          /\ F(n).owner = IOStream /\ F(n).name = n
  BY ObjectsAssumption DEF TypeInv, Functions, Function
<1>. HIDE DEF F
<1>1. IsFiniteSet(S)
  <2>. DEFINE g == [n \in Builtins |-> F(n)]
  <2>1. g \in Surjection(Builtins, S)
    BY DEF Surjection
  <2>. HIDE DEF g, S
  <2>. QED  BY <2>1, ObjectsAssumption, FS_Surjection
<1>2. S \subseteq Functions /\ \A f \in S : f.id = made /\ f.owner = IOStream
  BY <1>0
<1>3. \A f, g \in S : f.name = g.name => f = g
  BY <1>0
<1>. HIDE DEF S
<1>. DEFINE N == Cardinality(S)
<1>4. N \in Nat /\ \E f \in [1 .. N -> S] : IsInjective(f)
  BY <1>1, FS_CardinalityType DEF ExistsBijection, Bijection, Injection
<1>5. fs \in [1 .. N -> S] /\ IsInjective(fs)
  BY <1>4, Zenon DEF SetToSeq
<1>6. fs \in Injection(1 .. N, S)
  BY <1>5 DEF Injection
<1>7. Cardinality(1 .. N) = N
  <2>1. 1 \in Int /\ N \in Int
    BY <1>4
  <2>2. Cardinality(1 .. N) = IF 1 > N THEN 0 ELSE N - 1 + 1
    BY <2>1, FS_Interval
  <2>. QED  BY <1>4, <2>2
<1>8. fs \in Surjection(1 .. N, S)
  <2>1. Cardinality(1 .. N) = Cardinality(S)
    BY <1>7
  <2>. HIDE DEF fs, N
  <2>. QED  BY <1>1, <1>6, <2>1, FS_Injection
<1>9. fs \in Seq(S) /\ Len(fs) = N
  <2>. HIDE DEF fs
  <2>. QED  BY <1>4, <1>5, SegmentIsSeq
<1>10. ToSet(fs) = S
  <2>1. \A f \in S : \E i \in 1 .. N : fs[i] = f
    BY <1>8 DEF Surjection
  <2>2. ToSet(fs) = {fs[i] : i \in 1 .. Len(fs)} /\ \A i \in 1 .. Len(fs) : fs[i] \in S
    BY <1>9, Elements
  <2>. HIDE DEF fs, N
  <2>. QED  BY <1>9, <2>1, <2>2
<1>11. fs \in Seq(Functions)
  <2>. HIDE DEF fs
  <2>. QED  BY <1>2, <1>9, SeqMonotonic
<1>. HIDE DEF fs
<1>12. NewFunctions(IOStream, fs)
  BY <1>2, <1>3, <1>10, <1>11 DEF NewFunctions
<1>. QED  BY <1>10, <1>12 DEF fs, S, F

LEMMA BuiltinsWrite ==
  ASSUME TypeInv, ds_init_io_builtins
  PROVE  \E fs : /\ NewFunctions(IOStream, fs) /\ Writes(IOStream, fs)
                 /\ ToSet(fs) = {Function(made, IOStream, n, FALSE) : n \in Builtins}
                 /\ Naming(IOStream)
                 /\ ~ds_io_builtins_initialized /\ ds_io_builtins_initialized' = TRUE
                 /\ instances' = Append(instances, IOStream)
<1>. DEFINE c == IOStream
            fs == SetToSeq({Function(made, IOStream, n, FALSE) : n \in Builtins})
            q == [Was(c) EXCEPT !.is_module = @ \/ FALSE]
            ms == Listed(fs) \o Was(c).methods
            r == [q EXCEPT !.methods = ms]
<1>1. NewFunctions(c, fs) /\ ToSet(fs) = {Function(made, IOStream, n, FALSE) : n \in Builtins}
  BY BuiltinFunctions
<1>2. class' = [Opened(c, FALSE) EXCEPT ![c].methods = Listed(fs) \o @]
  BY DEF ds_init_io_builtins, Prepended, Listed
<1>3. singleton_methods' = ListedFor(ClassBox(c), fs) \o singleton_methods /\ made' = made + 1
  BY DEF ds_init_io_builtins, PrependedFor, ListedFor
<1>4. /\ Naming(IOStream)
      /\ ~ds_io_builtins_initialized /\ ds_io_builtins_initialized' = TRUE
      /\ instances' = Append(instances, IOStream)
  BY DEF ds_init_io_builtins
<1>. HIDE DEF fs
<1>0. c \in Classes
  BY ObjectsAssumption
<1>5. q \in ClassRecord(c) /\ q.superclass = Was(c).superclass /\ q.methods = Was(c).methods
      /\ q.constants = Was(c).constants
  <2>1. Was(c) \in ClassRecord(c)
    BY <1>0, WasType
  <2>. QED  BY <2>1, FlagUpdated
<1>6. /\ DOMAIN Opened(c, FALSE) = Known \cup {c}
      /\ \A d \in Known \ {c} : Opened(c, FALSE)[d] = class[d]
      /\ Opened(c, FALSE)[c] = q
  BY <1>0, OpenedBecomes
<1>7. ms \in Seq(Methods)
  <2>1. ClassBox(c) \in Boxes
    BY <1>0 DEF Boxes, ClassBoxes
  <2>2. Listed(fs) \in Seq(Methods) /\ Was(c).methods \in Seq(Methods)
    BY <1>0, <1>1, <2>1, WasType, ListedTypes DEF ClassRecord, NewFunctions
  <2>. QED  BY <2>2, ToSetConcat
<1>. HIDE DEF q
<1>8. r \in ClassRecord(c) /\ r.superclass = Was(c).superclass /\ r.methods = ms
      /\ r.constants = Was(c).constants
  <2>. HIDE DEF ms
  <2>. QED  BY <1>5, <1>7, MethodsUpdated
<1>9. Becomes(c, r)
  BY <1>2, <1>5, <1>6 DEF Becomes, Known
<1>10. Writes(c, fs)
  <2>. HIDE DEF r
  <2>. QED  BY <1>3, <1>8, <1>9 DEF Writes, SameConstants, SameLine
<1>. QED  BY <1>1, <1>4, <1>10

(* One object gets a method of its own. *)
WritesFor(box, f) ==
  /\ f \in Functions /\ f.id = made /\ f.owner = NULL
  /\ singleton_methods' = <<Singleton(box, f)>> \o singleton_methods
  /\ made' = made + 1
  /\ UNCHANGED <<names, class, instances, ds_io_builtins_initialized>>

LEMMA DefineSingletonMethodWrites ==
  ASSUME TypeInv, NEW box, NEW n \in Selectors, NEW yields \in BOOLEAN,
         DefineSingletonMethod(box, n, yields)
  PROVE  \E f : WritesFor(box, f) /\ f.name = n
<1>. DEFINE f == Function(made, NULL, n, yields)
<1>1. f \in Functions /\ f.id = made /\ f.owner = NULL /\ f.name = n
  BY DEF TypeInv, Functions, Function
<1>2. singleton_methods' = [i \in DOMAIN <<f>> |-> Singleton(box, <<f>>[i])] \o singleton_methods
  BY DEF DefineSingletonMethod, PrependedFor
<1>3. [i \in DOMAIN <<f>> |-> Singleton(box, <<f>>[i])] = <<Singleton(box, f)>>
  OBVIOUS
<1>. HIDE DEF f
<1>. QED  BY <1>1, <1>2, <1>3 DEF WritesFor, DefineSingletonMethod

-----------------------------------------------------------------------------
(* What extend adds.                                                       *)

(* Two lists of the same functions, where one is of A when the other is of B. *)
Mirrors(s, A, t, B) ==
  Len(t) = Len(s) /\ \A i \in 1 .. Len(s) : (s[i] \in A <=> t[i] \in B) /\ s[i].func = t[i].func

SameFunctions(G, H) == (G = {} <=> H = {}) /\ \A l \in G, m \in H : l.func = m.func

LEMMA GotMirrored ==
  ASSUME NEW S, NEW s \in Seq(S), NEW A, NEW R, NEW t \in Seq(R), NEW B, Mirrors(s, A, t, B)
  PROVE  SameFunctions(Got(s, A), Got(t, B))
<1>. DEFINE i == First(Hits(s, A))
<1>0. Len(t) = Len(s) /\ \A j \in 1 .. Len(s) : (s[j] \in A <=> t[j] \in B) /\ s[j].func = t[j].func
  BY DEF Mirrors
<1>1. Hits(s, A) = Hits(t, B)
  BY <1>0 DEF Hits
<1>2. /\ i = 0 => Got(s, A) = {}
      /\ i # 0 => i \in 1 .. Len(s) /\ Got(s, A) = {s[i]}
  BY GotSearch
<1>3. /\ i = 0 => Got(t, B) = {}
      /\ i # 0 => Got(t, B) = {t[i]}
  <2>1. i = First(Hits(t, B))
    BY <1>1
  <2>. HIDE DEF i
  <2>2. /\ First(Hits(t, B)) = 0 => Got(t, B) = {}
        /\ First(Hits(t, B)) # 0 => Got(t, B) = {t[First(Hits(t, B))]}
    BY GotSearch
  <2>. QED  BY <2>1, <2>2
<1>. HIDE DEF i
<1>. QED  BY <1>0, <1>2, <1>3 DEF SameFunctions

LEMMA ConcatPrefix ==
  ASSUME NEW S, NEW s \in Seq(S), NEW t \in Seq(S)
  PROVE  SubSeq(s \o t, 1, Len(s \o t) - Len(t)) = s
<1>. DEFINE u == s \o t
<1>1. u \in Seq(S) /\ Len(u) = Len(s) + Len(t) /\ Len(s) \in Nat /\ Len(t) \in Nat
  BY ConcatProperties, LenProperties
<1>2. Len(u) - Len(t) = Len(s)
  BY <1>1
<1>3. CASE Len(s) = 0
  <2>1. s = <<>>
    BY <1>3, EmptySeq
  <2>2. SubSeq(u, 1, 0) = <<>>
    BY SubSeqEmpty
  <2>. QED  BY <1>2, <1>3, <2>1, <2>2
<1>4. CASE Len(s) # 0
  <2>1. 1 \in 1 .. Len(s) /\ Len(s) \in 1 .. Len(s)
    BY <1>1, <1>4
  <2>2. SubSeq(u, 1, Len(s)) = SubSeq(s, 1, Len(s))
    BY <2>1, SubSeqOfConcat1
  <2>3. SubSeq(s, 1, Len(s)) = s
    BY SubSeqFull
  <2>. QED  BY <1>2, <2>2, <2>3
<1>. QED  BY <1>3, <1>4

(* What a class has for itself and its instances, of what another has. *)
Offered(other) == class[other].methods \o Of(ClassBox(other))
Copy(f)        == Method(f, FALSE)
Offering       == Methods \cup SingletonRecord

LEMMA OfferedType ==
  ASSUME TypeInv, NEW other \in Known
  PROVE  /\ class[other].methods \in Seq(Offering) /\ Of(ClassBox(other)) \in Seq(Offering)
         /\ Offered(other) \in Seq(Offering)
         /\ ToSet(Offered(other)) = ToSet(class[other].methods) \cup ToSet(Of(ClassBox(other)))
<1>1. class[other].methods \in Seq(Methods)
  BY DEF TypeInv, ClassRecord
<1>2. Of(ClassBox(other)) \in Seq(SingletonRecord)
  BY OfProperties DEF TypeInv
<1>3. class[other].methods \in Seq(Offering) /\ Of(ClassBox(other)) \in Seq(Offering)
  <2>1. Methods \subseteq Offering /\ SingletonRecord \subseteq Offering
    BY DEF Offering
  <2>2. class[other].methods \in Seq(Offering)
    BY <1>1, <2>1, SeqMonotonic
  <2>3. Of(ClassBox(other)) \in Seq(Offering)
    BY <1>2, <2>1, SeqMonotonic
  <2>. QED  BY <2>2, <2>3
<1>. QED  BY <1>3, ToSetConcat DEF Offered

LEMMA OffersTypes ==
  ASSUME TypeInv, NEW c \in Known, NEW other \in Known
  PROVE  LET s   == Offered(other)
             ms  == [i \in DOMAIN s |-> Copy(s[i].func)]
             ss  == [i \in DOMAIN s |-> Singleton(ClassBox(c), s[i].func)]
         IN  /\ ms \in Seq(Methods) /\ Len(ms) = Len(s)
             /\ ss \in Seq(SingletonRecord) /\ Len(ss) = Len(s)
             /\ \A i \in 1 .. Len(s) : /\ ms[i] = Copy(s[i].func)
                                       /\ ss[i] = Singleton(ClassBox(c), s[i].func)
                                       /\ s[i].func \in Functions
             /\ ToSet(ms) = {Copy(m.func) : m \in ToSet(s)}
             /\ ToSet(ss) = {Singleton(ClassBox(c), m.func) : m \in ToSet(s)}
<1>. DEFINE s  == Offered(other)
            ms == [i \in DOMAIN s |-> Copy(s[i].func)]
            ss == [i \in DOMAIN s |-> Singleton(ClassBox(c), s[i].func)]
<1>1. s \in Seq(Offering)
  BY OfferedType
<1>2. Len(s) \in Nat /\ DOMAIN s = 1 .. Len(s) /\ (\A i \in 1 .. Len(s) : s[i] \in Offering)
      /\ ToSet(s) = {s[i] : i \in 1 .. Len(s)}
  <2>. HIDE DEF s
  <2>. QED  BY <1>1, Elements
<1>. HIDE DEF s
<1>3. \A m \in Offering : m.func \in Functions
  BY DEF Offering, Methods, SingletonRecord
<1>4. \A f \in Functions : Copy(f) \in Methods /\ Singleton(ClassBox(c), f) \in SingletonRecord
  <2>1. ClassBox(c) \in Boxes
    BY DEF TypeInv, Boxes, ClassBoxes
  <2>. QED  BY <2>1 DEF Functions, Methods, Method, Copy, Singleton, SingletonRecord
<1>5. /\ \A i \in 1 .. Len(s) : ms[i] = Copy(s[i].func) /\ s[i].func \in Functions
      /\ \A i \in 1 .. Len(s) : ss[i] = Singleton(ClassBox(c), s[i].func)
  BY <1>2, <1>3
<1>6. ms \in [1 .. Len(s) -> Methods] /\ ss \in [1 .. Len(s) -> SingletonRecord]
  BY <1>2, <1>3, <1>4
<1>. HIDE DEF ms, ss
<1>7. ms \in Seq(Methods) /\ Len(ms) = Len(s) /\ ss \in Seq(SingletonRecord) /\ Len(ss) = Len(s)
  BY <1>2, <1>6, SegmentIsSeq
<1>8. ToSet(ms) = {ms[i] : i \in 1 .. Len(s)} /\ ToSet(ss) = {ss[i] : i \in 1 .. Len(s)}
  BY <1>7, Elements
<1>9. ToSet(ms) = {Copy(m.func) : m \in ToSet(s)}
  BY <1>2, <1>5, <1>8
<1>10. ToSet(ss) = {Singleton(ClassBox(c), m.func) : m \in ToSet(s)}
  BY <1>2, <1>5, <1>8
<1>. QED  BY <1>5, <1>7, <1>9, <1>10 DEF s, ms, ss

(* Each of the two lists gets copies of what was offered, where it had     *)
(* nothing of the name, and keeps the rest.                                *)
CopiesMethods(c, other, r) ==
  \E offers \in Seq(Methods), new \in Seq(Methods) :
    /\ Len(offers) = Len(Offered(other))
    /\ \A i \in 1 .. Len(offers) : offers[i] = Copy(Offered(other)[i].func)
    /\ r.methods = new \o class[c].methods
    /\ \A m \in ToSet(new) : /\ Got(class[c].methods, Called(Methods, m.name)) = {}
                             /\ \E o \in ToSet(Offered(other)) : m = Copy(o.func)
    /\ \A n : Got(r.methods, Called(Methods, n)) =
                IF Got(class[c].methods, Called(Methods, n)) # {} THEN Got(class[c].methods, Called(Methods, n))
                ELSE Got(offers, Called(Methods, n))

CopiesSingletons(c, other) ==
  \E offers \in Seq(SingletonRecord), new \in Seq(SingletonRecord) :
    /\ Len(offers) = Len(Offered(other))
    /\ \A i \in 1 .. Len(offers) : offers[i] = Singleton(ClassBox(c), Offered(other)[i].func)
    /\ singleton_methods' = new \o singleton_methods
    /\ \A m \in ToSet(new) : \E o \in ToSet(Offered(other)) : m = Singleton(ClassBox(c), o.func)
    /\ \A n : Got(new \o Of(ClassBox(c)), Called(SingletonRecord, n)) =
                IF Got(Of(ClassBox(c)), Called(SingletonRecord, n)) # {}
                THEN Got(Of(ClassBox(c)), Called(SingletonRecord, n))
                ELSE Got(offers, Called(SingletonRecord, n))

Copies(c, other) ==
  /\ \E r \in ClassRecord(c) : /\ Becomes(c, r) /\ SameConstants(c, r) /\ SameLine(c, r)
                               /\ CopiesMethods(c, other, r)
  /\ CopiesSingletons(c, other)
  /\ UNCHANGED <<names, objects>>

LEMMA ExtendCopies ==
  ASSUME TypeInv, NEW c \in Known, NEW other \in Known, Extend(c, other)
  PROVE  Copies(c, other)
<1>. DEFINE s    == Offered(other)
            ms   == [i \in DOMAIN s |-> Copy(s[i].func)]
            ss   == [i \in DOMAIN s |-> Singleton(ClassBox(c), s[i].func)]
            own  == Of(ClassBox(c))
            list == class[c].methods
            wm   == WithAbsent(list, ms)
            ws   == WithAbsent(own, ss)
            r    == [Was(c) EXCEPT !.methods = wm]
<1>1. /\ ms \in Seq(Methods) /\ Len(ms) = Len(s)
      /\ ss \in Seq(SingletonRecord) /\ Len(ss) = Len(s)
      /\ \A i \in 1 .. Len(s) : /\ ms[i] = Copy(s[i].func)
                                /\ ss[i] = Singleton(ClassBox(c), s[i].func)
      /\ ToSet(ms) = {Copy(m.func) : m \in ToSet(s)}
      /\ ToSet(ss) = {Singleton(ClassBox(c), m.func) : m \in ToSet(s)}
  BY OffersTypes
<1>2. /\ class' = [class EXCEPT ![c].methods = WithAbsent(@, ms)]
      /\ singleton_methods' = SubSeq(ws, 1, Len(ws) - Len(own)) \o singleton_methods
      /\ UNCHANGED <<names, objects>>
  BY DEF Extend, Offered, Copy
<1>3. list \in Seq(Methods) /\ own \in Seq(SingletonRecord) /\ Was(c) = class[c]
      /\ c \in Classes /\ Was(c) \in ClassRecord(c)
  BY OfProperties, WasType DEF TypeInv, ClassRecord, Was
<1>. HIDE DEF s, ms, ss, own, list
<1>4. Added(Methods, list, ms, wm)
  BY <1>1, <1>3, WithAbsentProperties
<1>5. Added(SingletonRecord, own, ss, ws)
  BY <1>1, <1>3, WithAbsentProperties
<1>6. r \in ClassRecord(c) /\ r.superclass = Was(c).superclass /\ r.methods = wm
      /\ r.constants = Was(c).constants
  <2>1. Was(c) \in ClassRecord(c) /\ wm \in Seq(Methods)
    BY <1>3, <1>4 DEF Added
  <2>. HIDE DEF wm
  <2>. QED  BY <2>1, MethodsUpdated
<1>7. Becomes(c, r)
  BY <1>2, <1>3 DEF Becomes, Known, list
<1>. HIDE DEF wm, ws, r
<1>8. CopiesMethods(c, other, r)
  <2>1. PICK new \in Seq(Methods) :
          /\ wm = new \o list
          /\ \A m \in ToSet(new) : m \in ToSet(ms) /\ Got(list, Called(Methods, m.name)) = {}
    BY <1>4 DEF Added
  <2>2. \A m \in ToSet(new) : \E o \in ToSet(s) : m = Copy(o.func)
    BY <1>1, <2>1
  <2>3. r.methods = new \o list
    BY <1>6, <2>1
  <2>4. \A n : Got(r.methods, Called(Methods, n)) =
                  IF Got(list, Called(Methods, n)) # {} THEN Got(list, Called(Methods, n))
                  ELSE Got(ms, Called(Methods, n))
    BY <1>4, <1>6 DEF Added
  <2>5. \A i \in 1 .. Len(ms) : ms[i] = Copy(s[i].func)
    BY <1>1
  <2>. QED  BY <1>1, <2>1, <2>2, <2>3, <2>4, <2>5 DEF CopiesMethods, s, list
<1>9. CopiesSingletons(c, other)
  <2>1. PICK new \in Seq(SingletonRecord) :
          /\ ws = new \o own
          /\ \A m \in ToSet(new) : m \in ToSet(ss)
    BY <1>5 DEF Added
  <2>2. \A m \in ToSet(new) : \E o \in ToSet(s) : m = Singleton(ClassBox(c), o.func)
    BY <1>1, <2>1
  <2>3. singleton_methods' = new \o singleton_methods
    <3>1. SubSeq(ws, 1, Len(ws) - Len(own)) = new
      BY <1>3, <2>1, ConcatPrefix
    <3>. QED  BY <1>2, <3>1
  <2>4. \A n : Got(new \o own, Called(SingletonRecord, n)) =
                  IF Got(own, Called(SingletonRecord, n)) # {} THEN Got(own, Called(SingletonRecord, n))
                  ELSE Got(ss, Called(SingletonRecord, n))
    BY <1>5, <2>1 DEF Added
  <2>5. \A i \in 1 .. Len(ss) : ss[i] = Singleton(ClassBox(c), s[i].func)
    BY <1>1
  <2>. QED  BY <1>1, <2>1, <2>2, <2>3, <2>4, <2>5 DEF CopiesSingletons, s, own
<1>. QED  BY <1>2, <1>6, <1>7, <1>8, <1>9 DEF Copies, SameConstants, SameLine

-----------------------------------------------------------------------------
(* Every step is one of these.                                             *)

Numbers(c, n, v) ==
  /\ \E r \in ClassRecord(c) : /\ Becomes(c, r) /\ SameLine(c, r) /\ r.methods = Was(c).methods
                               /\ r.constants = Append(Was(c).constants, EnumBox(c, n, v))
  /\ global_constants' = ds_constant_set(Append(c, n), EnumBox(c, n, v))
  /\ rebound' = rebound \ {Append(c, n)}
  /\ UNCHANGED <<global_classes, singleton_methods, objects>>

LEMMA DefineEnumMemberNumbers ==
  ASSUME TypeInv, NEW c \in Known, NEW n \in Members, NEW v \in Values, DefineEnumMember(c, n, v)
  PROVE  Numbers(c, n, v)
<1>. DEFINE x == Append(Was(c).constants, EnumBox(c, n, v))
            r == [Was(c) EXCEPT !.constants = x]
<1>1. Was(c) = class[c] /\ c \in Classes /\ Was(c) \in ClassRecord(c)
  BY WasType DEF TypeInv, Was
<1>2. class' = [class EXCEPT ![c].constants = x]
  BY <1>1 DEF DefineEnumMember
<1>3. x \in Seq(EnumBoxes(c))
  <2>1. Was(c).constants \in Seq(EnumBoxes(c)) /\ EnumBox(c, n, v) \in EnumBoxes(c)
    BY <1>1 DEF ClassRecord, EnumBoxes
  <2>. QED  BY <2>1, AppendProperties
<1>4. r \in ClassRecord(c) /\ r.superclass = Was(c).superclass /\ r.methods = Was(c).methods
      /\ r.constants = x
  <2>. HIDE DEF x
  <2>. QED  BY <1>1, <1>3, ConstantsUpdated
<1>5. Becomes(c, r)
  BY <1>1, <1>2 DEF Becomes, Known
<1>. HIDE DEF r
<1>. QED  BY <1>4, <1>5 DEF Numbers, SameLine, DefineEnumMember

WritesAlone(c, fs) ==
  /\ NewFunctions(c, fs) /\ Writes(c, fs)
  /\ UNCHANGED <<names, instances, ds_io_builtins_initialized>>

WritesBuiltins(fs) ==
  /\ NewFunctions(IOStream, fs) /\ Writes(IOStream, fs)
  /\ ToSet(fs) = {Function(made, IOStream, n, FALSE) : n \in Builtins}
  /\ Naming(IOStream)
  /\ ~ds_io_builtins_initialized /\ ds_io_builtins_initialized' = TRUE
  /\ instances' = Append(instances, IOStream)

Instantiates(c) ==
  /\ Len(instances) < MaxInstances
  /\ instances' = Append(instances, c)
  /\ UNCHANGED <<names, class, singleton_methods, made, ds_io_builtins_initialized>>

Paths == {Append(c, n) : c \in Classes \cup {<<>>}, n \in Members} \cup Classes

LEMMA StepCases ==
  ASSUME TypeInv, Next
  PROVE  \/ \E c \in Classes : Opens(c)
         \/ \E c \in Known : \E fs : WritesAlone(c, fs)
         \/ \E fs : WritesBuiltins(fs)
         \/ \E box \in Receivers : \E f : WritesFor(box, f)
         \/ \E c, other \in Known : Copies(c, other)
         \/ \E c \in Known : Instantiates(c)
         \/ \E c \in Known, n \in Members, v \in Values : Numbers(c, n, v)
         \/ \E path \in Paths, value \in {NULL} \cup ClassBoxes : DefineConstant(path, value)
<1>1. ASSUME OpenClass PROVE \E c \in Classes : Opens(c)
  BY <1>1, DefineModuleOpens, DefineClassOpens DEF OpenClass
<1>2. ASSUME NEW c \in Known, NEW n \in Selectors, NEW yields \in BOOLEAN, DefineMethod(c, n, yields)
      PROVE  \E fs : WritesAlone(c, fs)
  BY <1>2, DefineMethodWrites DEF WritesAlone
<1>3. ASSUME NEW box, NEW n \in Selectors, NEW yields \in BOOLEAN, DefineSingletonMethod(box, n, yields)
      PROVE  \E f : WritesFor(box, f)
  BY <1>3, DefineSingletonMethodWrites
<1>4. ASSUME NEW c \in Known, New(c) PROVE Instantiates(c)
  BY <1>4 DEF New, Instantiates
<1>5. ASSUME NEW c \in Known, NEW other \in Known, Extend(c, other) PROVE Copies(c, other)
  BY <1>5, ExtendCopies
<1>6. ASSUME NEW c \in Known, NEW n \in Members, NEW v \in Values, DefineEnumMember(c, n, v)
      PROVE  Numbers(c, n, v)
  BY <1>6, DefineEnumMemberNumbers
<1>7. {NULL} \cup {ClassBox(c) : c \in Known} \subseteq {NULL} \cup ClassBoxes
  BY DEF TypeInv, ClassBoxes
<1>8. CASE OpenClass
  BY <1>1, <1>8
<1>9. CASE DefineMethods
  <2>1. CASE \E c \in Known, n \in Selectors, yields \in BOOLEAN : DefineMethod(c, n, yields)
    BY <1>2, <2>1
  <2>2. CASE \E box \in Receivers, n \in Selectors, yields \in BOOLEAN : DefineSingletonMethod(box, n, yields)
    BY <1>3, <2>2
  <2>3. CASE \E c, other \in Known : Extend(c, other)
    BY <1>5, <2>3
  <2>4. CASE ds_init_io_builtins
    BY <2>4, BuiltinsWrite DEF WritesBuiltins
  <2>5. CASE \E c \in Known : New(c)
    BY <1>4, <2>5
  <2>. QED  BY <1>9, <2>1, <2>2, <2>3, <2>4, <2>5 DEF DefineMethods
<1>10. CASE DefineNames
  <2>1. CASE \E c \in Known, n \in Members, v \in Values : DefineEnumMember(c, n, v)
    BY <1>6, <2>1
  <2>2. CASE \E path \in Paths : \E value \in {NULL} \cup {ClassBox(c) : c \in Known} :
               DefineConstant(path, value)
    BY <1>7, <2>2
  <2>. QED  BY <1>10, <2>1, <2>2 DEF DefineNames, Paths
<1>. QED  BY <1>8, <1>9, <1>10 DEF Next

LEMMA ClassTypesStep ==
  ASSUME TypeInv, NEW c \in Classes, NEW r \in ClassRecord(c), Becomes(c, r),
         r.superclass \in Known \cup {c, NULL}
  PROVE  /\ Known' \subseteq Classes /\ Known \subseteq Known'
         /\ (\A d \in Known : class[d] \in ClassRecord(d) /\ class[d].superclass \in Known \cup {NULL})'
BY DEF TypeInv, Becomes, ClassRecord

LEMMA InstancesStep ==
  ASSUME TypeInv, Known \subseteq Known'
  PROVE  /\ instances \in Seq(Known')
         /\ \A c \in Known' : Append(instances, c) \in Seq(Known') /\ Len(Append(instances, c)) = Len(instances) + 1
<1>1. instances \in Seq(Known')
  BY SeqMonotonic DEF TypeInv
<1>. QED  BY <1>1, AppendProperties

LEMMA SuperclassWas ==
  ASSUME TypeInv, NEW c \in Classes
  PROVE  Was(c).superclass \in Known \cup {NULL}
<1>1. CASE c \in Known
  BY <1>1 DEF Was, TypeInv
<1>2. CASE c \notin Known
  BY <1>2 DEF Was
<1>. QED  BY <1>1, <1>2

LEMMA WritesTypes ==
  ASSUME TypeInv, NEW c \in Classes, NEW fs, NewFunctions(c, fs), Writes(c, fs)
  PROVE  /\ Known' \subseteq Classes /\ Known \subseteq Known' /\ c \in Known'
         /\ (\A d \in Known : class[d] \in ClassRecord(d) /\ class[d].superclass \in Known \cup {NULL})'
         /\ singleton_methods' \in Seq(SingletonRecord)
         /\ made' \in Nat
<1>1. PICK r \in ClassRecord(c) : Becomes(c, r) /\ SameLine(c, r)
  BY DEF Writes
<1>2. r.superclass \in Known \cup {c, NULL}
  BY <1>1, SuperclassWas DEF SameLine
<1>3. ListedFor(ClassBox(c), fs) \in Seq(SingletonRecord)
  <2>1. ClassBox(c) \in Boxes
    BY DEF Boxes, ClassBoxes
  <2>. QED  BY <2>1, ListedTypes DEF NewFunctions
<1>4. singleton_methods' \in Seq(SingletonRecord)
  BY <1>3, ConcatProperties DEF Writes, TypeInv
<1>5. made' \in Nat
  BY DEF Writes, TypeInv
<1>6. c \in Known'
  BY <1>1 DEF Becomes
<1>. QED  BY <1>1, <1>2, <1>4, <1>5, <1>6, ClassTypesStep

LEMMA TypeInitially == Init => TypeInv
<1>. SUFFICES ASSUME Init PROVE TypeInv
  OBVIOUS
<1>1. Known = {}
  BY EmptySeq, LenProperties DEF Init, Known
<1>2. \A S : <<>> \in Seq(S) /\ Len(<<>>) = 0
  BY EmptySeq
<1>3. instances \in Seq(Known) /\ singleton_methods \in Seq(SingletonRecord) /\ Len(instances) = 0
  BY <1>2 DEF Init
<1>4. made \in Nat /\ ds_io_builtins_initialized = FALSE /\ MaxInstances \in Nat
  BY ObjectsAssumption DEF Init
<1>5. Len(instances) <= MaxInstances + (IF ds_io_builtins_initialized THEN 1 ELSE 0)
  BY <1>3, <1>4
<1>6. ds_io_builtins_initialized \in BOOLEAN
  BY <1>4
<1>7. Known \subseteq Classes /\ \A c \in Known : class[c] \in ClassRecord(c) /\ class[c].superclass \in Known \cup {NULL}
  BY <1>1
<1>. QED  BY <1>3, <1>4, <1>5, <1>6, <1>7 DEF TypeInv

LEMMA ReceiversAreBoxes == TypeInv => Receivers \subseteq Boxes
<1>. SUFFICES ASSUME TypeInv PROVE Receivers \subseteq Boxes
  OBVIOUS
<1>1. DOMAIN instances = 1 .. Len(instances) /\ Len(instances) \in Nat
  BY Elements DEF TypeInv
<1>. QED  BY <1>1 DEF Receivers, Boxes, ClassBoxes, TypeInv

LEMMA TypeStep == TypeInv /\ [Next]_vars => TypeInv'
<1>. SUFFICES ASSUME TypeInv, [Next]_vars PROVE TypeInv'
  OBVIOUS
<1>0. CASE UNCHANGED vars
  BY <1>0 DEF TypeInv, vars, names, objects, Known
<1>1. ASSUME NEW c \in Classes, Opens(c)
      PROVE  TypeInv'
  <2>1. PICK r \in ClassRecord(c) : /\ Becomes(c, r)
                                    /\ SameLine(c, r) \/ r.superclass \in Known
    BY <1>1 DEF Opens
  <2>2. r.superclass \in Known \cup {c, NULL}
    BY <2>1, SuperclassWas DEF SameLine
  <2>3. /\ Known' \subseteq Classes /\ Known \subseteq Known'
        /\ (\A d \in Known : class[d] \in ClassRecord(d) /\ class[d].superclass \in Known \cup {NULL})'
    BY <2>1, <2>2, ClassTypesStep
  <2>4. instances \in Seq(Known')
    BY <2>3, InstancesStep
  <2>. QED  BY <1>1, <2>3, <2>4 DEF Opens, TypeInv, objects
<1>2. ASSUME NEW c \in Known, NEW fs, WritesAlone(c, fs)
      PROVE  TypeInv'
  <2>1. c \in Classes
    BY DEF TypeInv
  <2>2. /\ Known' \subseteq Classes /\ Known \subseteq Known'
        /\ (\A d \in Known : class[d] \in ClassRecord(d) /\ class[d].superclass \in Known \cup {NULL})'
        /\ singleton_methods' \in Seq(SingletonRecord)
        /\ made' \in Nat
    BY <1>2, <2>1, WritesTypes DEF WritesAlone
  <2>3. instances \in Seq(Known')
    BY <2>2, InstancesStep
  <2>. QED  BY <1>2, <2>2, <2>3 DEF TypeInv, WritesAlone
<1>3. ASSUME NEW fs, WritesBuiltins(fs)
      PROVE  TypeInv'
  <2>1. IOStream \in Classes
    BY ObjectsAssumption
  <2>2. /\ Known' \subseteq Classes /\ Known \subseteq Known' /\ IOStream \in Known'
        /\ (\A d \in Known : class[d] \in ClassRecord(d) /\ class[d].superclass \in Known \cup {NULL})'
        /\ singleton_methods' \in Seq(SingletonRecord)
        /\ made' \in Nat
    BY <1>3, <2>1, WritesTypes DEF WritesBuiltins
  <2>3. instances' \in Seq(Known') /\ Len(instances') = Len(instances) + 1
    BY <1>3, <2>2, InstancesStep DEF WritesBuiltins
  <2>4. Len(instances') <= MaxInstances + 1
    <3>1. Len(instances) <= MaxInstances /\ Len(instances) \in Nat /\ MaxInstances \in Nat
      BY <1>3, ObjectsAssumption, LenProperties DEF TypeInv, WritesBuiltins
    <3>. QED  BY <2>3, <3>1
  <2>. QED  BY <1>3, <2>2, <2>3, <2>4 DEF TypeInv, WritesBuiltins
<1>4. ASSUME NEW box \in Receivers, NEW f, WritesFor(box, f)
      PROVE  TypeInv'
  <2>1. Singleton(box, f) \in SingletonRecord
    BY <1>4, ReceiversAreBoxes DEF Singleton, SingletonRecord, WritesFor, Functions
  <2>2. singleton_methods' \in Seq(SingletonRecord)
    BY <1>4, <2>1, ToSetSingle, ConcatProperties DEF WritesFor, TypeInv
  <2>. QED  BY <1>4, <2>2 DEF WritesFor, TypeInv, Known
<1>5. ASSUME NEW c \in Known, NEW other \in Known, Copies(c, other)
      PROVE  TypeInv'
  <2>0. c \in Classes
    BY DEF TypeInv
  <2>1. PICK r \in ClassRecord(c) : Becomes(c, r) /\ SameLine(c, r)
    BY <1>5 DEF Copies
  <2>2. r.superclass \in Known \cup {c, NULL}
    BY <2>0, <2>1, SuperclassWas DEF SameLine
  <2>3. /\ Known' \subseteq Classes /\ Known \subseteq Known'
        /\ (\A d \in Known : class[d] \in ClassRecord(d) /\ class[d].superclass \in Known \cup {NULL})'
    BY <2>0, <2>1, <2>2, ClassTypesStep
  <2>4. instances \in Seq(Known')
    BY <2>3, InstancesStep
  <2>5. singleton_methods' \in Seq(SingletonRecord)
    BY <1>5, ConcatProperties DEF Copies, CopiesSingletons, TypeInv
  <2>. QED  BY <1>5, <2>3, <2>4, <2>5 DEF Copies, TypeInv, objects
<1>6. ASSUME NEW c \in Known, Instantiates(c)
      PROVE  TypeInv'
  <2>1. Append(instances, c) \in Seq(Known) /\ Len(Append(instances, c)) = Len(instances) + 1
    BY AppendProperties DEF TypeInv
  <2>2. Len(instances') <= MaxInstances
    BY <1>6, <2>1, ObjectsAssumption, LenProperties DEF Instantiates, TypeInv
  <2>3. MaxInstances <= MaxInstances + (IF ds_io_builtins_initialized THEN 1 ELSE 0) /\ MaxInstances \in Nat
    BY ObjectsAssumption
  <2>4. Len(instances') \in Nat
    BY <1>6, <2>1, LenProperties DEF Instantiates
  <2>5. Len(instances') <= MaxInstances + (IF ds_io_builtins_initialized THEN 1 ELSE 0)
    BY <2>2, <2>3, <2>4
  <2>. QED  BY <1>6, <2>1, <2>5 DEF Instantiates, TypeInv, Known
<1>7. ASSUME NEW c \in Known, NEW n \in Members, NEW v \in Values, Numbers(c, n, v)
      PROVE  TypeInv'
  <2>0. c \in Classes
    BY DEF TypeInv
  <2>1. PICK r \in ClassRecord(c) : Becomes(c, r) /\ SameLine(c, r)
    BY <1>7 DEF Numbers
  <2>2. r.superclass \in Known \cup {c, NULL}
    BY <2>0, <2>1, SuperclassWas DEF SameLine
  <2>3. /\ Known' \subseteq Classes /\ Known \subseteq Known'
        /\ (\A d \in Known : class[d] \in ClassRecord(d) /\ class[d].superclass \in Known \cup {NULL})'
    BY <2>0, <2>1, <2>2, ClassTypesStep
  <2>4. instances \in Seq(Known')
    BY <2>3, InstancesStep
  <2>. QED  BY <1>7, <2>3, <2>4 DEF Numbers, TypeInv, objects
<1>8. ASSUME NEW path, NEW value, DefineConstant(path, value)
      PROVE  TypeInv'
  BY <1>8 DEF DefineConstant, TypeInv, objects, Known
<1>. QED  BY <1>0, <1>1, <1>2, <1>3, <1>4, <1>5, <1>6, <1>7, <1>8, StepCases

-----------------------------------------------------------------------------
(* Names. The path of a member is bound to the last of that name, unless a *)
(* class or a constant has taken it since.                                 *)

LastNamed(members, i) == \A k \in i + 1 .. Len(members) : members[k].name # members[i].name

(* The members of a class are bound, once it is c that has them.           *)
MembersBound(c, members) ==
  \A i \in 1 .. Len(members) :
    Append(c, members[i].name) \notin rebound /\ LastNamed(members, i) =>
      /\ Append(c, members[i].name) \in DOMAIN global_constants
      /\ global_constants[Append(c, members[i].name)] = members[i]

NamesInv ==
  /\ global_classes \in Seq(Classes) /\ ToSet(global_classes) = Known
  /\ Known \subseteq DOMAIN global_constants
  /\ \A c \in Known : MembersBound(c, class[c].constants)

LEMMA NamesInitially == Init => NamesInv
<1>. SUFFICES ASSUME Init PROVE NamesInv
  OBVIOUS
<1>1. ToSet(<<>>) = {} /\ <<>> \in Seq(Classes) /\ DOMAIN <<>> = {}
  BY ToSetEmpty, LenProperties
<1>. QED  BY <1>1 DEF Init, NamesInv, Known

(* A path is taken, or none: the bindings of the others stay.              *)
Taken(path) ==
  /\ DOMAIN global_constants \subseteq DOMAIN global_constants'
  /\ rebound' = rebound \cup {path}
  /\ \A p \in DOMAIN global_constants : p # path => global_constants'[p] = global_constants[p]

SameMembers == \A d \in Known' : class'[d].constants = Was(d).constants

LEMMA TakenBound ==
  ASSUME NamesInv, SameMembers, UNCHANGED names \/ \E path : Taken(path)
  PROVE  \A d \in Known' : MembersBound(d, class[d].constants)'
<1>. SUFFICES ASSUME NEW d \in Known' PROVE MembersBound(d, class[d].constants)'
  OBVIOUS
<1>. DEFINE members == class'[d].constants
<1>1. members = Was(d).constants
  BY DEF SameMembers
<1>2. CASE d \notin Known
  <2>1. members = <<>> /\ 1 .. Len(<<>>) = {}
    BY <1>1, <1>2, EmptySeq DEF Was
  <2>. QED  BY <2>1 DEF MembersBound
<1>3. CASE d \in Known
  <2>1. members = class[d].constants
    BY <1>1, <1>3 DEF Was
  <2>. HIDE DEF members
  <2>2. MembersBound(d, members)
    BY <1>3, <2>1 DEF NamesInv
  <2>3. \A p : p \notin rebound' =>
          /\ p \notin rebound
          /\ p \in DOMAIN global_constants =>
               p \in DOMAIN global_constants' /\ global_constants'[p] = global_constants[p]
    BY DEF Taken, names
  <2>. QED  BY <2>2, <2>3 DEF MembersBound, members
<1>. QED  BY <1>2, <1>3

LEMMA SameMembersBecome ==
  ASSUME NEW c, NEW r, Becomes(c, r), SameConstants(c, r)
  PROVE  SameMembers
BY DEF SameMembers, Becomes, SameConstants, Was

LEMMA SameMembersKept ==
  ASSUME UNCHANGED class
  PROVE  SameMembers
BY DEF SameMembers, Was, Known

LEMMA SetTakes ==
  ASSUME NEW path, NEW value, global_constants' = ds_constant_set(path, value),
         rebound' = rebound \cup {path}
  PROVE  Taken(path) /\ path \in DOMAIN global_constants'
BY DEF Taken, ds_constant_set

LEMMA NamingStep ==
  ASSUME NamesInv, SameMembers, NEW c \in Classes, Known' = Known \cup {c}, Naming(c)
  PROVE  NamesInv'
<1>1. CASE c \in Known
  <2>1. Known' = Known /\ UNCHANGED names
    BY <1>1 DEF Naming
  <2>2. \A d \in Known' : MembersBound(d, class[d].constants)'
    BY <2>1, TakenBound
  <2>. QED  BY <2>1, <2>2 DEF NamesInv, names
<1>2. CASE c \notin Known
  <2>1. /\ global_classes' = <<c>> \o global_classes
        /\ global_constants' = ds_constant_set(c, ClassBox(c))
        /\ rebound' = rebound \cup {c}
    BY <1>2 DEF Naming
  <2>2. global_classes' \in Seq(Classes) /\ ToSet(global_classes') = Known'
    BY <2>1, ToSetSingle, ToSetConcat, ToSetOne DEF NamesInv
  <2>3. Taken(c) /\ c \in DOMAIN global_constants'
    BY <2>1, SetTakes
  <2>4. \A d \in Known' : MembersBound(d, class[d].constants)'
    BY <2>3, TakenBound
  <2>5. Known' \subseteq DOMAIN global_constants'
    BY <2>3 DEF Taken, NamesInv
  <2>. QED  BY <2>2, <2>4, <2>5 DEF NamesInv
<1>. QED  BY <1>1, <1>2

LEMMA NothingNamed ==
  ASSUME NamesInv, SameMembers, Known' = Known, UNCHANGED names
  PROVE  NamesInv'
<1>1. \A d \in Known' : MembersBound(d, class[d].constants)'
  BY TakenBound
<1>. QED  BY <1>1 DEF NamesInv, names

LEMMA ConstantStep ==
  ASSUME NamesInv, NEW path, NEW value, DefineConstant(path, value)
  PROVE  NamesInv'
<1>1. Taken(path)
  BY SetTakes DEF DefineConstant
<1>2. \A d \in Known' : MembersBound(d, class[d].constants)'
  BY <1>1, TakenBound, SameMembersKept DEF DefineConstant
<1>. QED  BY <1>1, <1>2 DEF NamesInv, Taken, DefineConstant, Known

(* Segments of names: the paths of members are all different.              *)
ClassSegments == UNION {ToSet(c) : c \in Classes}
Segments      == ClassSegments \cup Members

LEMMA PathsDiffer ==
  ASSUME NEW c \in Classes, NEW d \in Classes, NEW n \in Members, NEW m \in Members,
         Append(c, n) = Append(d, m)
  PROVE  c = d /\ n = m
<1>1. \A b \in Classes : b \in Seq(Segments)
  <2>. SUFFICES ASSUME NEW b \in Classes PROVE b \in Seq(Segments)
    OBVIOUS
  <2>1. b \in Seq(ToSet(b)) /\ ToSet(b) \subseteq Segments
    BY ObjectsAssumption DEF Segments, ClassSegments
  <2>. QED  BY <2>1, SeqMonotonic
<1>2. n \in Segments /\ m \in Segments
  BY DEF Segments
<1>. QED  BY <1>1, <1>2, AppendInjective

LEMMA NumbersNames ==
  ASSUME TypeInv, NamesInv, NEW c \in Known, NEW n \in Members, NEW v \in Values, Numbers(c, n, v)
  PROVE  NamesInv'
<1>. DEFINE e    == EnumBox(c, n, v)
            path == Append(c, n)
            old  == class[c].constants
            new  == class'[c].constants
<1>1. /\ c \in Classes /\ Known' = Known /\ Known \subseteq Classes
      /\ new = Append(old, e)
      /\ \A d \in Known \ {c} : class'[d] = class[d]
  BY DEF TypeInv, Numbers, Becomes, Was
<1>2. /\ global_constants' = ds_constant_set(path, e)
      /\ rebound' = rebound \ {path} /\ global_classes' = global_classes
  BY DEF Numbers
<1>3. /\ DOMAIN global_constants' = DOMAIN global_constants \cup {path}
      /\ global_constants'[path] = e
      /\ \A p \in DOMAIN global_constants : p # path => global_constants'[p] = global_constants[p]
  BY <1>2 DEF ds_constant_set
<1>4. \A d \in Known : /\ class[d].constants \in Seq(EnumBoxes(d))
                       /\ Len(class[d].constants) \in Nat
                       /\ \A i \in 1 .. Len(class[d].constants) : class[d].constants[i].name \in Members
  <2>. SUFFICES ASSUME NEW d \in Known
                PROVE  /\ class[d].constants \in Seq(EnumBoxes(d))
                       /\ Len(class[d].constants) \in Nat
                       /\ \A i \in 1 .. Len(class[d].constants) : class[d].constants[i].name \in Members
    OBVIOUS
  <2>1. class[d].constants \in Seq(EnumBoxes(d))
    BY DEF TypeInv, ClassRecord
  <2>2. \A x \in EnumBoxes(d) : x.name \in Members
    BY DEF EnumBoxes, EnumBox
  <2>. QED  BY <2>1, <2>2, Elements
<1>5. e \in EnumBoxes(c) /\ e.name = n
  BY DEF EnumBoxes, EnumBox
<1>6. ASSUME NEW d \in Known, d # c
      PROVE  MembersBound(d, class[d].constants)'
  <2>. DEFINE members == class[d].constants
  <2>1. class'[d].constants = members /\ MembersBound(d, members) /\ d \in Classes
    BY <1>1, <1>6 DEF NamesInv
  <2>2. \A i \in 1 .. Len(members) : members[i].name \in Members
    BY <1>4
  <2>. HIDE DEF members
  <2>3. \A i \in 1 .. Len(members) : Append(d, members[i].name) # path
    BY <1>1, <1>6, <2>1, <2>2, PathsDiffer
  <2>. HIDE DEF path, e
  <2>. QED  BY <1>2, <1>3, <2>1, <2>3 DEF MembersBound
<1>7. MembersBound(c, class[c].constants)'
  <2>1. /\ Len(old) \in Nat /\ Len(new) = Len(old) + 1
        /\ \A i \in 1 .. Len(old) : new[i] = old[i]
        /\ new[Len(old) + 1] = e
    BY <1>1, <1>4, <1>5, AppendProperties
  <2>2. MembersBound(c, old) /\ \A i \in 1 .. Len(old) : old[i].name \in Members
    BY <1>4 DEF NamesInv
  <2>. HIDE DEF old, new, e
  <2>3. ASSUME NEW i \in 1 .. Len(new), LastNamed(new, i), Append(c, new[i].name) \notin rebound'
        PROVE  /\ Append(c, new[i].name) \in DOMAIN global_constants'
               /\ global_constants'[Append(c, new[i].name)] = new[i]
    <3>1. CASE i = Len(old) + 1
      BY <1>3, <1>5, <2>1, <3>1
    <3>2. CASE i \in 1 .. Len(old)
      <4>1. new[i] = old[i] /\ old[i].name \in Members
        BY <2>1, <2>2, <3>2
      <4>2. old[i].name # n
        <5>1. Len(old) + 1 \in i + 1 .. Len(new)
          BY <2>1, <3>2
        <5>. QED  BY <1>5, <2>1, <2>3, <4>1, <5>1 DEF LastNamed
      <4>3. Append(c, old[i].name) # path
        BY <1>1, <4>1, <4>2, PathsDiffer
      <4>4. LastNamed(old, i)
        <5>1. \A k \in i + 1 .. Len(old) : k \in i + 1 .. Len(new) /\ new[k] = old[k]
          BY <2>1, <3>2
        <5>. QED  BY <2>3, <4>1, <5>1 DEF LastNamed
      <4>5. Append(c, old[i].name) \notin rebound
        BY <1>2, <2>3, <4>1, <4>3
      <4>. QED  BY <1>3, <2>2, <3>2, <4>1, <4>3, <4>4, <4>5 DEF MembersBound
    <3>. QED  BY <2>1, <3>1, <3>2
  <2>. QED  BY <2>3 DEF MembersBound, new
<1>8. Known' \subseteq DOMAIN global_constants'
  BY <1>1, <1>3 DEF NamesInv
<1>. QED  BY <1>1, <1>2, <1>6, <1>7, <1>8 DEF NamesInv

LEMMA NamesStep == TypeInv /\ NamesInv /\ [Next]_vars => NamesInv'
<1>. SUFFICES ASSUME TypeInv, NamesInv, [Next]_vars PROVE NamesInv'
  OBVIOUS
<1>1. ASSUME UNCHANGED class, UNCHANGED names PROVE NamesInv'
  BY <1>1, NothingNamed, SameMembersKept DEF Known
<1>2. CASE UNCHANGED vars
  BY <1>1, <1>2 DEF vars
<1>3. ASSUME NEW c \in Classes, Opens(c)
      PROVE  NamesInv'
  BY <1>3, NamingStep, SameMembersBecome DEF Opens, Becomes
<1>4. ASSUME NEW c \in Known, NEW fs, WritesAlone(c, fs)
      PROVE  NamesInv'
  <2>1. SameMembers /\ Known' = Known
    BY <1>4, SameMembersBecome DEF WritesAlone, Writes, Becomes
  <2>. QED  BY <1>4, <2>1, NothingNamed DEF WritesAlone
<1>5. ASSUME NEW fs, WritesBuiltins(fs)
      PROVE  NamesInv'
  <2>1. SameMembers /\ Known' = Known \cup {IOStream}
    BY <1>5, SameMembersBecome DEF WritesBuiltins, Writes, Becomes
  <2>. QED  BY <1>5, <2>1, ObjectsAssumption, NamingStep DEF WritesBuiltins
<1>6. ASSUME NEW box, NEW f, WritesFor(box, f)
      PROVE  NamesInv'
  BY <1>1, <1>6 DEF WritesFor
<1>7. ASSUME NEW c \in Known, NEW other, Copies(c, other)
      PROVE  NamesInv'
  <2>1. SameMembers /\ Known' = Known
    BY <1>7, SameMembersBecome DEF Copies, Becomes
  <2>. QED  BY <1>7, <2>1, NothingNamed DEF Copies
<1>8. ASSUME NEW c \in Known, Instantiates(c)
      PROVE  NamesInv'
  BY <1>1, <1>8 DEF Instantiates
<1>9. ASSUME NEW c \in Known, NEW n \in Members, NEW v \in Values, Numbers(c, n, v)
      PROVE  NamesInv'
  BY <1>9, NumbersNames
<1>10. ASSUME NEW path, NEW value \in {NULL} \cup ClassBoxes, DefineConstant(path, value)
       PROVE  NamesInv'
  BY <1>10, ConstantStep
<1>. QED  BY <1>2, <1>3, <1>4, <1>5, <1>6, <1>7, <1>8, <1>9, <1>10, StepCases

LEMMA ClassIsBox ==
  ASSUME NEW c
  PROVE  ClassBox(c) # NULL \/ c \notin Classes
BY NullAssumption DEF ClassBox

LEMMA ClassIsNamed ==
  ASSUME NamesInv, NEW paths
  PROVE  /\ ClassNamed(paths) \in {NULL} \cup {ClassBox(d) : d \in paths \cap Known}
         /\ \A c \in Known \cap paths : ClassNamed(paths) # NULL
<1>. DEFINE I == {i \in 1 .. Len(global_classes) : global_classes[i] \in paths}
            i == First(I)
<1>1. ClassNamed(paths) = IF i = 0 THEN NULL ELSE ClassBox(global_classes[i])
  BY DEF ClassNamed, SelectInSeq, First
<1>2. I = Hits(global_classes, paths)
  BY DEF Hits
<1>3. /\ i = 0 => \A m \in ToSet(global_classes) : m \notin paths
      /\ i # 0 => global_classes[i] \in paths \cap ToSet(global_classes)
  BY <1>2, GotSearch DEF NamesInv
<1>4. ToSet(global_classes) = Known /\ Known \subseteq Classes
  BY Elements DEF NamesInv
<1>. HIDE DEF i
<1>. QED  BY <1>1, <1>3, <1>4, ClassIsBox

LEMMA NamesInvResolves == TypeInv /\ NamesInv => NamesResolve
<1>. SUFFICES ASSUME TypeInv, NamesInv, NEW c \in Known
              PROVE  LET members == class[c].constants
                     IN  /\ \A i \in DOMAIN members :
                              LET e    == members[i]
                                  path == Append(c, e.name)
                              IN  /\ (\A k \in 1 .. i - 1 : members[k].value # e.value) =>
                                       MemberOf(c, e.value) = e
                                  /\ path \notin rebound
                                     /\ (\A k \in i + 1 .. Len(members) : members[k].name # e.name) =>
                                       \A split \in BOOLEAN : constant_lookup(path, split) = e
                         /\ global_constants[c] \in {NULL, ClassBox(c)} =>
                              /\ constant_lookup(c, FALSE) = ClassBox(c)
                              /\ constant_lookup(c, TRUE) \in {ClassBox(c), ClassBox(<<Last(c)>>)}
  BY Zenon DEF NamesResolve
<1>. DEFINE members == class[c].constants
<1>0. c \in Classes /\ members \in Seq(EnumBoxes(c)) /\ MembersBound(c, members)
  BY DEF TypeInv, ClassRecord, NamesInv
<1>. HIDE DEF members
<1>1. Len(members) \in Nat /\ DOMAIN members = 1 .. Len(members)
      /\ (\A i \in 1 .. Len(members) : members[i] \in EnumBoxes(c))
  BY <1>0, Elements
<1>2. ASSUME NEW i \in 1 .. Len(members), \A k \in 1 .. i - 1 : members[k].value # members[i].value
      PROVE  MemberOf(c, members[i].value) = members[i]
  <2>. DEFINE I == {k \in 1 .. Len(members) : members[k].value = members[i].value}
  <2>1. MemberOf(c, members[i].value) = IF First(I) = 0 THEN NULL ELSE members[First(I)]
    BY DEF MemberOf, SelectInSeq, First, members
  <2>2. I \subseteq 1 .. Len(members) /\ I # {} /\ i \in I /\ \A k \in I : k >= i
    BY <1>1, <1>2
  <2>. HIDE DEF I
  <2>3. First(I) = i
    <3>1. First(I) \in I /\ First(I) <= i /\ First(I) \in 0 .. Len(members)
      BY <1>1, <2>2, FirstProperties
    <3>2. First(I) >= i
      BY <2>2, <3>1
    <3>. QED  BY <3>1, <3>2
  <2>. QED  BY <1>1, <2>1, <2>3
<1>3. ASSUME NEW i \in 1 .. Len(members), Append(c, members[i].name) \notin rebound,
             \A k \in i + 1 .. Len(members) : members[k].name # members[i].name,
             NEW split \in BOOLEAN
      PROVE  constant_lookup(Append(c, members[i].name), split) = members[i]
  <2>1. Bound(Append(c, members[i].name)) = members[i]
    BY <1>0, <1>3 DEF MembersBound, LastNamed, Bound
  <2>2. members[i] # NULL
    <3>1. PICK n \in Members, v \in Values : members[i] = EnumBox(c, n, v)
      BY <1>1 DEF EnumBoxes
    <3>. QED  BY <1>0, <3>1, NullAssumption DEF EnumBox
  <2>. QED  BY <2>1, <2>2 DEF constant_lookup, OrElse
<1>4. ASSUME global_constants[c] \in {NULL, ClassBox(c)}
      PROVE  /\ constant_lookup(c, FALSE) = ClassBox(c)
             /\ constant_lookup(c, TRUE) \in {ClassBox(c), ClassBox(<<Last(c)>>)}
  <2>1. Bound(c) \in {NULL, ClassBox(c)} /\ ClassBox(c) # NULL
    BY <1>0, <1>4, ClassIsBox DEF Bound, NamesInv
  <2>2. ClassNamed({c}) = ClassBox(c)
    BY ClassIsNamed
  <2>3. ClassNamed({c, <<Last(c)>>}) \in {ClassBox(c), ClassBox(<<Last(c)>>)} \ {NULL}
    BY ClassIsNamed
  <2>. QED  BY <2>1, <2>2, <2>3 DEF constant_lookup, OrElse
<1>. QED  BY <1>1, <1>2, <1>3, <1>4 DEF members

(* A path finds the last member it names unless a class or a constant has  *)
(* taken it since, a value the first member that has it, and a name its    *)
(* class unless that is taken: in every program, with any names, however   *)
(* its enumerations are reopened (llvm_runtime.c:1494-1507, :2073-2174).   *)
THEOREM NamesAlwaysResolve == Spec => []NamesResolve
<1>1. Init => TypeInv /\ NamesInv
  BY TypeInitially, NamesInitially
<1>2. TypeInv /\ NamesInv /\ [Next]_vars => TypeInv' /\ NamesInv'
  BY TypeStep, NamesStep
<1>3. TypeInv /\ NamesInv => NamesResolve
  BY NamesInvResolves
<1>. QED  BY <1>1, <1>2, <1>3, PTL DEF Spec

-----------------------------------------------------------------------------
(* Methods. Whatever is listed is the function of its name; the class that *)
(* wrote a function keeps a method of that name, so only there does one    *)
(* tell that it expects a block: no copy of it gets into that list.        *)

Kept(f) ==
  /\ f.id < made
  /\ f.owner # NULL => f.owner \in Known /\ \E k \in ToSet(class[f.owner].methods) : k.name = f.name

ListedIn(c, m) ==
  /\ m.name = m.func.name /\ m.func \in Defined
  /\ m.expects_block = (m.func.yields /\ m.func.owner = c)

ListedAlone(m) == m.name = m.func.name /\ m.receiver \in Receivers /\ Kept(m.func)

MethodsInv ==
  /\ \A c \in Known : \A m \in ToSet(class[c].methods) : ListedIn(c, m)
  /\ \A m \in ToSet(singleton_methods) : ListedAlone(m)

LEMMA FunctionsOf ==
  ASSUME NEW S, NEW s \in Seq(S)
  PROVE  {s[i].func : i \in DOMAIN s} = {m.func : m \in ToSet(s)}
<1>1. DOMAIN s = 1 .. Len(s) /\ ToSet(s) = {s[i] : i \in 1 .. Len(s)}
  BY Elements
<1>. QED  BY <1>1

LEMMA SingletonsType ==
  ASSUME TypeInv
  PROVE  ToSet(singleton_methods) \subseteq SingletonRecord
BY Elements DEF TypeInv

LEMMA DefinedIs ==
  ASSUME TypeInv, TypeInv'
  PROVE  /\ Defined = {m.func : m \in ToSet(singleton_methods)}
         /\ Defined' = {m.func : m \in ToSet(singleton_methods')}
BY FunctionsOf DEF TypeInv, Defined

LEMMA MethodsInitially == Init => MethodsInv
<1>. SUFFICES ASSUME Init PROVE MethodsInv
  OBVIOUS
<1>1. Known = {} /\ ToSet(singleton_methods) = {}
  BY ToSetEmpty, EmptySeq, LenProperties DEF Init, Known
<1>. QED  BY <1>1 DEF MethodsInv

(* What is known stays, and is of the same name. *)
Grows ==
  /\ Known \subseteq Known' /\ Receivers \subseteq Receivers' /\ made <= made'
  /\ Defined \subseteq Defined'
  /\ \A d \in Known : ToSet(class[d].methods) \subseteq ToSet(class'[d].methods)

LEMMA GrowsKeeps ==
  ASSUME TypeInv, Grows, made' \in Nat
  PROVE  /\ \A f \in Functions : Kept(f) => Kept(f)'
         /\ \A c, m : ListedIn(c, m) => ListedIn(c, m)'
         /\ \A m \in SingletonRecord : ListedAlone(m) => ListedAlone(m)'
<1>1. ASSUME NEW f \in Functions, Kept(f)
      PROVE  Kept(f)'
  <2>1. f.id \in Nat /\ made \in Nat
    BY DEF Functions, TypeInv
  <2>2. f.id < made'
    BY <1>1, <2>1 DEF Grows, Kept
  <2>3. ASSUME f.owner # NULL
        PROVE  f.owner \in Known' /\ \E k \in ToSet(class'[f.owner].methods) : k.name = f.name
    BY <1>1, <2>3 DEF Grows, Kept
  <2>. QED  BY <2>2, <2>3 DEF Kept
<1>2. \A c, m : ListedIn(c, m) => ListedIn(c, m)'
  BY DEF Grows, ListedIn
<1>3. \A m \in SingletonRecord : ListedAlone(m) => ListedAlone(m)'
  <2>1. \A m \in SingletonRecord : m.func \in Functions
    BY DEF SingletonRecord
  <2>. QED  BY <1>1, <2>1 DEF Grows, ListedAlone
<1>. QED  BY <1>1, <1>2, <1>3

(* A step that changes a class and adds to the lists. *)
LEMMA BecomesGrows ==
  ASSUME TypeInv, TypeInv', NEW c \in Classes, NEW r \in ClassRecord(c), Becomes(c, r),
         ToSet(Was(c).methods) \subseteq ToSet(r.methods),
         instances' = instances \/ \E d : instances' = Append(instances, d),
         made' = made \/ made' = made + 1,
         NEW new \in Seq(SingletonRecord), singleton_methods' = new \o singleton_methods
  PROVE  /\ Grows
         /\ ToSet(singleton_methods') = ToSet(new) \cup ToSet(singleton_methods)
<1>1. ToSet(singleton_methods') = ToSet(new) \cup ToSet(singleton_methods)
  BY ToSetConcat DEF TypeInv
<1>2. Defined \subseteq Defined'
  <2>. QED  BY <1>1, DefinedIs
<1>3. \A d \in Known : ToSet(class[d].methods) \subseteq ToSet(class'[d].methods)
  BY DEF Becomes, Was
<1>4. Known \subseteq Known'
  BY DEF Becomes
<1>5. DOMAIN instances \subseteq DOMAIN instances'
  <2>1. CASE instances' = instances
    BY <2>1
  <2>2. ASSUME NEW d, instances' = Append(instances, d)
        PROVE  DOMAIN instances \subseteq DOMAIN instances'
    <3>1. Len(instances) \in Nat /\ DOMAIN instances = 1 .. Len(instances)
          /\ DOMAIN instances' = 1 .. Len(instances')
      BY LenProperties DEF TypeInv
    <3>2. Len(instances') = Len(instances) + 1
      <4>1. instances \in Seq(Known \cup {d})
        BY SeqMonotonic DEF TypeInv
      <4>. QED  BY <2>2, <4>1, AppendProperties
    <3>. QED  BY <3>1, <3>2
  <2>. QED  BY <2>1, <2>2
<1>6. Receivers \subseteq Receivers'
  BY <1>4, <1>5 DEF Receivers
<1>7. made <= made'
  BY DEF TypeInv
<1>. QED  BY <1>1, <1>2, <1>3, <1>4, <1>6, <1>7 DEF Grows

(* Methods that are written. *)
LEMMA WritesMethods ==
  ASSUME TypeInv, TypeInv', MethodsInv, NEW c \in Classes, NEW fs, NewFunctions(c, fs), Writes(c, fs),
         instances' = instances \/ \E d : instances' = Append(instances, d)
  PROVE  MethodsInv'
<1>1. PICK r \in ClassRecord(c) : Becomes(c, r) /\ r.methods = Listed(fs) \o Was(c).methods
  BY DEF Writes
<1>2. ClassBox(c) \in Boxes /\ fs \in Seq(Functions) /\ Was(c).methods \in Seq(Methods)
  BY WasType DEF Boxes, ClassBoxes, NewFunctions, ClassRecord
<1>. DEFINE new == ListedFor(ClassBox(c), fs)
<1>3. /\ Listed(fs) \in Seq(Methods) /\ new \in Seq(SingletonRecord)
      /\ ToSet(Listed(fs)) = {Method(f, f.yields) : f \in ToSet(fs)}
      /\ ToSet(new) = {Singleton(ClassBox(c), f) : f \in ToSet(fs)}
  BY <1>2, ListedTypes
<1>4. ToSet(r.methods) = ToSet(Listed(fs)) \cup ToSet(Was(c).methods)
  BY <1>1, <1>2, <1>3, ToSetConcat
<1>5. singleton_methods' = new \o singleton_methods /\ made' = made + 1
  BY DEF Writes
<1>. HIDE DEF new
<1>6. Grows /\ ToSet(singleton_methods') = ToSet(new) \cup ToSet(singleton_methods)
  BY <1>1, <1>3, <1>4, <1>5, BecomesGrows
<1>7. c \in Known' /\ class'[c] = r /\ ClassBox(c) \in Receivers'
  BY <1>1 DEF Becomes, Receivers
<1>8. ToSet(fs) \subseteq Functions /\ \A f \in ToSet(fs) : f.id = made /\ f.owner = c
  BY Elements DEF NewFunctions
<1>9. ASSUME NEW f \in ToSet(fs)
      PROVE  /\ ListedAlone(Singleton(ClassBox(c), f))'
             /\ ListedIn(c, Method(f, f.yields))'
  <2>1. Method(f, f.yields) \in ToSet(r.methods) /\ Method(f, f.yields).name = f.name
    BY <1>3, <1>4 DEF Method
  <2>2. made \in Nat /\ f.id = made /\ f.owner = c
    BY <1>8 DEF TypeInv
  <2>3. Kept(f)'
    BY <1>5, <1>7, <2>1, <2>2 DEF Kept
  <2>4. f \in Defined'
    <3>1. Defined' = {m.func : m \in ToSet(singleton_methods')}
      BY DefinedIs
    <3>2. Singleton(ClassBox(c), f) \in ToSet(singleton_methods') /\ Singleton(ClassBox(c), f).func = f
      BY <1>3, <1>6 DEF Singleton
    <3>. QED  BY <3>1, <3>2
  <2>5. ListedAlone(Singleton(ClassBox(c), f))'
    BY <1>7, <2>3 DEF ListedAlone, Singleton
  <2>6. f.yields \in BOOLEAN
    BY <1>8 DEF Functions
  <2>7. ListedIn(c, Method(f, f.yields))'
    BY <2>2, <2>4, <2>6 DEF ListedIn, Method
  <2>. QED  BY <2>5, <2>7
<1>10. (\A d, m : ListedIn(d, m) => ListedIn(d, m)') /\ \A m \in SingletonRecord : ListedAlone(m) => ListedAlone(m)'
  BY <1>6, GrowsKeeps DEF TypeInv
<1>11. ASSUME NEW d \in Known', NEW m \in ToSet(class'[d].methods)
       PROVE  ListedIn(d, m)'
  <2>1. CASE d = c
    <3>1. CASE m \in ToSet(Listed(fs))
      BY <1>3, <1>9, <2>1, <3>1
    <3>2. CASE m \in ToSet(Was(c).methods)
      <4>1. c \in Known /\ m \in ToSet(class[c].methods)
        BY <3>2, ToSetEmpty DEF Was
      <4>. QED  BY <1>10, <2>1, <4>1 DEF MethodsInv
    <3>. QED  BY <1>4, <1>7, <2>1, <3>1, <3>2
  <2>2. CASE d # c
    <3>1. d \in Known /\ class'[d] = class[d]
      BY <1>1, <2>2 DEF Becomes
    <3>. QED  BY <1>10, <3>1 DEF MethodsInv
  <2>. QED  BY <2>1, <2>2
<1>12. ASSUME NEW m \in ToSet(singleton_methods')
       PROVE  ListedAlone(m)'
  <2>1. ToSet(singleton_methods) \subseteq SingletonRecord
    BY SingletonsType
  <2>2. CASE m \in ToSet(new)
    BY <1>3, <1>9, <2>2
  <2>3. CASE m \in ToSet(singleton_methods)
    BY <1>10, <2>1, <2>3 DEF MethodsInv
  <2>. QED  BY <1>6, <2>2, <2>3
<1>. QED  BY <1>11, <1>12 DEF MethodsInv

(* Methods that are copied. *)
LEMMA OfferedKept ==
  ASSUME TypeInv, TypeInv', MethodsInv, NEW other \in Known, NEW o \in ToSet(Offered(other))
  PROVE  o.func \in Functions /\ o.func \in Defined /\ Kept(o.func)
<1>1. o \in ToSet(class[other].methods) \cup ToSet(Of(ClassBox(other))) /\ o \in Offering
  <2>1. /\ Offered(other) \in Seq(Offering)
        /\ ToSet(Offered(other)) = ToSet(class[other].methods) \cup ToSet(Of(ClassBox(other)))
    BY OfferedType
  <2>2. \A i \in 1 .. Len(Offered(other)) : Offered(other)[i] \in Offering
    BY <2>1, Elements
  <2>3. ToSet(Offered(other)) = {Offered(other)[i] : i \in 1 .. Len(Offered(other))}
    BY <2>1, Elements
  <2>. QED  BY <2>1, <2>2, <2>3
<1>2. o.func \in Functions
  BY <1>1 DEF Offering, Methods, SingletonRecord
<1>3. o.func \in Defined
  <2>1. CASE o \in ToSet(class[other].methods)
    BY <2>1 DEF MethodsInv, ListedIn
  <2>2. CASE o \in ToSet(Of(ClassBox(other)))
    <3>1. o \in ToSet(singleton_methods)
      BY <2>2, OfProperties DEF TypeInv
    <3>. QED  BY <3>1, DefinedIs
  <2>. QED  BY <1>1, <2>1, <2>2
<1>4. Kept(o.func)
  BY <1>3, DefinedIs DEF MethodsInv, ListedAlone
<1>. QED  BY <1>2, <1>3, <1>4

LEMMA CopiesListMethods ==
  ASSUME TypeInv, TypeInv', MethodsInv, NEW c \in Known, NEW other \in Known, Copies(c, other)
  PROVE  MethodsInv'
<1>1. PICK r \in ClassRecord(c) : Becomes(c, r) /\ CopiesMethods(c, other, r)
  BY DEF Copies
<1>2. PICK added \in Seq(Methods) :
        /\ r.methods = added \o class[c].methods
        /\ \A m \in ToSet(added) : /\ Got(class[c].methods, Called(Methods, m.name)) = {}
                                   /\ \E o \in ToSet(Offered(other)) : m = Copy(o.func)
  BY <1>1 DEF CopiesMethods
<1>3. PICK new \in Seq(SingletonRecord) :
        /\ singleton_methods' = new \o singleton_methods
        /\ \A m \in ToSet(new) : \E o \in ToSet(Offered(other)) : m = Singleton(ClassBox(c), o.func)
  BY DEF Copies, CopiesSingletons
<1>4. c \in Classes /\ Was(c) = class[c] /\ class[c].methods \in Seq(Methods)
  BY DEF TypeInv, Was, ClassRecord
<1>5. ToSet(r.methods) = ToSet(added) \cup ToSet(class[c].methods)
  BY <1>2, <1>4, ToSetConcat
<1>6. Grows /\ ToSet(singleton_methods') = ToSet(new) \cup ToSet(singleton_methods)
  <2>1. instances' = instances /\ made' = made
    BY DEF Copies, objects
  <2>. QED  BY <1>1, <1>3, <1>4, <1>5, <2>1, BecomesGrows
<1>7. c \in Known' /\ class'[c] = r /\ ClassBox(c) \in Receivers'
  BY <1>1 DEF Becomes, Receivers
<1>8. /\ \A f \in Functions : Kept(f) => Kept(f)'
      /\ \A d, m : ListedIn(d, m) => ListedIn(d, m)'
      /\ \A m \in SingletonRecord : ListedAlone(m) => ListedAlone(m)'
  BY <1>6, GrowsKeeps DEF TypeInv
<1>9. ASSUME NEW m \in ToSet(added)
      PROVE  ListedIn(c, m)'
  <2>1. PICK o \in ToSet(Offered(other)) : m = Copy(o.func)
    BY <1>2
  <2>. DEFINE f == o.func
  <2>2. m.name = f.name /\ m.func = f /\ m.expects_block = FALSE
    BY <2>1 DEF Copy, Method
  <2>3. f \in Functions /\ f \in Defined /\ Kept(f)
    BY OfferedKept
  <2>. HIDE DEF f
  <2>4. f.owner # c
    <3>1. ASSUME f.owner = c PROVE FALSE
      <4>0. c # NULL
        BY <1>4, NullAssumption
      <4>1. PICK k \in ToSet(class[c].methods) : k.name = f.name
        BY <2>3, <3>1, <4>0 DEF Kept
      <4>2. Got(class[c].methods, Called(Methods, f.name)) = {}
        BY <1>2, <2>2
      <4>3. \A l \in ToSet(class[c].methods) : l \in Methods /\ l \notin Called(Methods, f.name)
        BY <1>4, <4>2, GotProperties
      <4>. QED  BY <4>1, <4>3 DEF Called
    <3>. QED  BY <3>1
  <2>. QED  BY <1>6, <2>2, <2>3, <2>4 DEF ListedIn, Grows
<1>10. ASSUME NEW m \in ToSet(new)
       PROVE  ListedAlone(m)'
  <2>1. PICK o \in ToSet(Offered(other)) : m = Singleton(ClassBox(c), o.func)
    BY <1>3
  <2>2. o.func \in Functions /\ Kept(o.func)
    BY OfferedKept
  <2>. QED  BY <1>7, <1>8, <2>1, <2>2 DEF ListedAlone, Singleton
<1>11. ASSUME NEW d \in Known', NEW m \in ToSet(class'[d].methods)
       PROVE  ListedIn(d, m)'
  <2>1. CASE d = c
    BY <1>5, <1>7, <1>8, <1>9, <2>1 DEF MethodsInv
  <2>2. CASE d # c
    <3>1. d \in Known /\ class'[d] = class[d]
      BY <1>1, <2>2 DEF Becomes
    <3>. QED  BY <1>8, <3>1 DEF MethodsInv
  <2>. QED  BY <2>1, <2>2
<1>12. ASSUME NEW m \in ToSet(singleton_methods')
       PROVE  ListedAlone(m)'
  <2>1. ToSet(singleton_methods) \subseteq SingletonRecord
    BY SingletonsType
  <2>2. CASE m \in ToSet(singleton_methods)
    BY <1>8, <2>1, <2>2 DEF MethodsInv
  <2>. QED  BY <1>6, <1>10, <2>2
<1>. QED  BY <1>11, <1>12 DEF MethodsInv

(* Steps that list nothing. *)
ListsNothing ==
  /\ Known \subseteq Known' /\ singleton_methods' = singleton_methods /\ made' = made
  /\ instances' = instances \/ \E d : instances' = Append(instances, d)
  /\ \A d \in Known' : class'[d].methods = Was(d).methods

LEMMA NothingListed ==
  ASSUME TypeInv, TypeInv', MethodsInv, ListsNothing
  PROVE  MethodsInv'
<1>1. Receivers \subseteq Receivers'
  <2>1. Len(instances) \in Nat /\ DOMAIN instances = 1 .. Len(instances)
        /\ DOMAIN instances' = 1 .. Len(instances') /\ Len(instances') \in Nat
    BY LenProperties DEF TypeInv
  <2>2. Len(instances) <= Len(instances')
    <3>1. ASSUME NEW d, instances' = Append(instances, d) PROVE Len(instances') = Len(instances) + 1
      <4>1. instances \in Seq(Known \cup {d})
        BY SeqMonotonic DEF TypeInv
      <4>. QED  BY <3>1, <4>1, AppendProperties
    <3>2. Len(instances) <= Len(instances) /\ Len(instances) <= Len(instances) + 1
      BY <2>1
    <3>. QED  BY <3>1, <3>2, Zenon DEF ListsNothing
  <2>3. DOMAIN instances \subseteq DOMAIN instances'
    BY <2>1, <2>2
  <2>. QED  BY <2>3 DEF Receivers, ListsNothing
<1>2. \A d \in Known : class'[d].methods = class[d].methods
  BY DEF ListsNothing, Was
<1>3. Defined' = Defined /\ made <= made' /\ made' \in Nat
  BY DEF Defined, ListsNothing, TypeInv
<1>4. Grows
  BY <1>1, <1>2, <1>3 DEF Grows, ListsNothing
<1>5. /\ \A d, m : ListedIn(d, m) => ListedIn(d, m)'
      /\ \A m \in SingletonRecord : ListedAlone(m) => ListedAlone(m)'
  BY <1>3, <1>4, GrowsKeeps
<1>6. ASSUME NEW d \in Known', NEW m \in ToSet(class'[d].methods)
      PROVE  ListedIn(d, m)'
  <2>1. d \in Known /\ m \in ToSet(class[d].methods)
    BY ToSetEmpty DEF ListsNothing, Was
  <2>. QED  BY <1>5, <2>1 DEF MethodsInv
<1>7. ToSet(singleton_methods) \subseteq SingletonRecord
  BY SingletonsType
<1>8. \A m \in ToSet(singleton_methods') : ListedAlone(m)'
  BY <1>5, <1>7 DEF MethodsInv, ListsNothing
<1>. QED  BY <1>6, <1>8 DEF MethodsInv

LEMMA WasKnown == \A c \in Known : Was(c) = class[c]
  BY DEF Was

(* Every step lists nothing, writes methods of a class, gives one to an    *)
(* object, or copies.                                                      *)
LEMMA ListingCases ==
  ASSUME TypeInv, [Next]_vars
  PROVE  \/ ListsNothing
         \/ \E c \in Classes : \E fs : /\ NewFunctions(c, fs) /\ Writes(c, fs)
                                       /\ instances' = instances \/ \E d : instances' = Append(instances, d)
         \/ \E box \in Receivers : \E f : WritesFor(box, f)
         \/ \E c, other \in Known : Copies(c, other)
<1>1. ASSUME class' = class, singleton_methods' = singleton_methods, made' = made,
             instances' = instances \/ \E d : instances' = Append(instances, d)
      PROVE  ListsNothing
  BY <1>1, WasKnown DEF ListsNothing, Known
<1>2. CASE UNCHANGED vars
  BY <1>1, <1>2 DEF vars, objects
<1>3. ASSUME NEW c \in Classes, Opens(c)
      PROVE  ListsNothing
  <2>1. PICK r \in ClassRecord(c) : Becomes(c, r) /\ r.methods = Was(c).methods
    BY <1>3 DEF Opens
  <2>2. \A d \in Known' : class'[d].methods = Was(d).methods
    BY <2>1, WasKnown DEF Becomes
  <2>3. singleton_methods' = singleton_methods /\ made' = made /\ instances' = instances
    BY <1>3 DEF Opens, objects
  <2>. QED  BY <2>1, <2>2, <2>3 DEF ListsNothing, Becomes
<1>4. ASSUME NEW c \in Known, NEW n \in Members, NEW v \in Values, Numbers(c, n, v)
      PROVE  ListsNothing
  <2>1. PICK r \in ClassRecord(c) : Becomes(c, r) /\ r.methods = Was(c).methods
    BY <1>4 DEF Numbers
  <2>2. \A d \in Known' : class'[d].methods = Was(d).methods
    BY <2>1, WasKnown DEF Becomes
  <2>3. singleton_methods' = singleton_methods /\ made' = made /\ instances' = instances
    BY <1>4 DEF Numbers, objects
  <2>. QED  BY <2>1, <2>2, <2>3 DEF ListsNothing, Becomes
<1>5. ASSUME NEW c, Instantiates(c) PROVE ListsNothing
  BY <1>1, <1>5 DEF Instantiates
<1>6. ASSUME NEW path, NEW value, DefineConstant(path, value) PROVE ListsNothing
  BY <1>1, <1>6 DEF DefineConstant, objects
<1>7. ASSUME NEW c \in Known, NEW fs, WritesAlone(c, fs)
      PROVE  c \in Classes /\ NewFunctions(c, fs) /\ Writes(c, fs) /\ instances' = instances
  BY <1>7 DEF WritesAlone, TypeInv
<1>8. ASSUME NEW fs, WritesBuiltins(fs)
      PROVE  /\ IOStream \in Classes /\ NewFunctions(IOStream, fs) /\ Writes(IOStream, fs)
             /\ instances' = Append(instances, IOStream)
  BY <1>8, ObjectsAssumption DEF WritesBuiltins
<1>9. CASE Next
  <2>1. CASE \E c \in Known : \E fs : WritesAlone(c, fs)
    BY <1>7, <2>1
  <2>2. CASE \E fs : WritesBuiltins(fs)
    BY <1>8, <2>2
  <2>3. CASE \/ \E c \in Classes : Opens(c)
             \/ \E c \in Known : Instantiates(c)
             \/ \E c \in Known, n \in Members, v \in Values : Numbers(c, n, v)
             \/ \E path \in Paths, value \in {NULL} \cup ClassBoxes : DefineConstant(path, value)
    BY <1>3, <1>4, <1>5, <1>6, <2>3
  <2>. QED  BY <1>9, <2>1, <2>2, <2>3, StepCases
<1>. QED  BY <1>2, <1>9

LEMMA WritesForMethods ==
  ASSUME TypeInv, TypeInv', MethodsInv, NEW box \in Receivers, NEW f, WritesFor(box, f)
  PROVE  MethodsInv'
<1>. DEFINE s == Singleton(box, f)
            new == <<s>>
<1>1. s \in SingletonRecord /\ s.func = f /\ s.name = f.name /\ s.receiver = box
  BY ReceiversAreBoxes DEF Singleton, SingletonRecord, WritesFor, Functions
<1>2. new \in Seq(SingletonRecord) /\ ToSet(new) = {s}
  BY <1>1, ToSetSingle
<1>3. singleton_methods' = new \o singleton_methods
  BY DEF WritesFor
<1>. HIDE DEF s, new
<1>4. ToSet(singleton_methods') = {s} \cup ToSet(singleton_methods)
  BY <1>2, <1>3, ToSetConcat DEF TypeInv
<1>5. Defined \subseteq Defined'
  BY <1>4, DefinedIs
<1>6. made \in Nat /\ made' = made + 1 /\ f.id = made /\ f.owner = NULL /\ class' = class /\ instances' = instances
  BY DEF WritesFor, TypeInv
<1>7. Grows
  BY <1>5, <1>6 DEF Grows, Known, Receivers
<1>8. /\ \A d, m : ListedIn(d, m) => ListedIn(d, m)'
      /\ \A m \in SingletonRecord : ListedAlone(m) => ListedAlone(m)'
  BY <1>6, <1>7, GrowsKeeps
<1>9. ListedAlone(s)'
  BY <1>1, <1>6, <1>7 DEF ListedAlone, Kept, Grows
<1>10. ToSet(singleton_methods) \subseteq SingletonRecord
  BY SingletonsType
<1>11. \A m \in ToSet(singleton_methods') : ListedAlone(m)'
  BY <1>4, <1>8, <1>9, <1>10 DEF MethodsInv
<1>12. \A d \in Known' : \A m \in ToSet(class'[d].methods) : ListedIn(d, m)'
  BY <1>6, <1>8 DEF MethodsInv, Known
<1>. QED  BY <1>11, <1>12 DEF MethodsInv

LEMMA MethodsStep == TypeInv /\ MethodsInv /\ [Next]_vars => MethodsInv'
<1>. SUFFICES ASSUME TypeInv, MethodsInv, [Next]_vars PROVE MethodsInv'
  OBVIOUS
<1>1. TypeInv'
  BY TypeStep
<1>. QED  BY <1>1, ListingCases, NothingListed, WritesMethods, WritesForMethods, CopiesListMethods

-----------------------------------------------------------------------------
(* The lists implement the tables: each table has the function of what a   *)
(* search of its list gets.                                                *)

LEMMA ToSetType == ASSUME NEW S, NEW s \in Seq(S) PROVE ToSet(s) \subseteq S
BY Elements

Fn(G) == IF G = {} THEN NULL ELSE (CHOOSE m \in G : TRUE).func

LEMMA FnOfGot ==
  ASSUME NEW S, NEW list \in Seq(S), NEW T
  PROVE  /\ At(list, First(Hits(list, T))) = Fn(Got(list, T))
         /\ \A m \in Got(list, T) : Fn(Got(list, T)) = m.func
<1>1. /\ Got(list, T) = {} => At(list, First(Hits(list, T))) = NULL
      /\ \A m \in Got(list, T) : At(list, First(Hits(list, T))) = m.func
  BY AtProperties
<1>2. CASE Got(list, T) = {}
  BY <1>1, <1>2 DEF Fn
<1>3. CASE Got(list, T) # {}
  <2>1. PICK m \in Got(list, T) : Got(list, T) = {m}
    BY <1>3, GotProperties
  <2>2. Fn(Got(list, T)) = m.func
    BY <2>1 DEF Fn
  <2>. QED  BY <1>1, <2>1, <2>2
<1>. QED  BY <1>2, <1>3

(* What the class c, and the object o for itself, have of the name n. *)
OfClass(c, n)  == Got(Was(c).methods, Called(Methods, n))
OfObject(o, n) == Got(singleton_methods, OwnBy(SingletonRecord, o, n))

TablesHave ==
  /\ ClassTables \in [ClassBoxes -> [Selectors -> Functions \cup {NULL}]]
  /\ SingletonTables \in [Objects -> [Selectors -> Functions \cup {NULL}]]
  /\ \A c \in Classes, n \in Selectors :
       /\ ClassTables[ClassBox(c)][n] = Fn(OfClass(c, n))
       /\ OfClass(c, n) \subseteq Methods
  /\ \A o \in Objects, n \in Selectors :
       /\ SingletonTables[o][n] = Fn(OfObject(o, n))
       /\ OfObject(o, n) \subseteq SingletonRecord

LEMMA TablesAre == TypeInv => TablesHave
<1>. SUFFICES ASSUME TypeInv PROVE TablesHave
  OBVIOUS
<1>1. ASSUME NEW c \in Classes
      PROVE  /\ ClassTables[ClassBox(c)] = InList(Was(c).methods)
             /\ Was(c).methods \in Seq(Methods)
  <2>1. ClassBox(c) \in ClassBoxes /\ ClassBox(c).class = c
    BY DEF ClassBoxes, ClassBox
  <2>2. Was(c).methods \in Seq(Methods)
    BY WasType DEF ClassRecord
  <2>3. Was(c).methods = IF c \in Known THEN class[c].methods ELSE <<>>
    BY DEF Was
  <2>. QED  BY <2>1, <2>2, <2>3 DEF ClassTables
<1>2. ASSUME NEW list \in Seq(Methods), NEW n \in Selectors
      PROVE  /\ InList(list)[n] = Fn(Got(list, Called(Methods, n)))
             /\ Got(list, Called(Methods, n)) \subseteq Methods
  <2>1. InList(list)[n] = At(list, Named(list, n))
    BY DEF InList
  <2>2. Named(list, n) = First(Hits(list, Called(Methods, n)))
    BY NamedIsHits
  <2>3. Got(list, Called(Methods, n)) \subseteq Methods
    BY GotProperties
  <2>. QED  BY <2>1, <2>2, <2>3, FnOfGot
<1>3. ASSUME NEW o \in Objects, NEW n \in Selectors
      PROVE  /\ SingletonTables[o][n] = Fn(OfObject(o, n))
             /\ OfObject(o, n) \subseteq SingletonRecord
  <2>0. singleton_methods \in Seq(SingletonRecord)
    BY DEF TypeInv
  <2>1. SingletonTables[o][n] = At(singleton_methods, Own(o, n))
    BY DEF SingletonTables, OwnOf
  <2>2. Own(o, n) = First(Hits(singleton_methods, OwnBy(SingletonRecord, o, n)))
    BY <2>0, OwnIsHits
  <2>3. OfObject(o, n) \subseteq SingletonRecord
    BY <2>0, GotProperties DEF OfObject
  <2>. QED  BY <2>0, <2>1, <2>2, <2>3, FnOfGot DEF OfObject
<1>4. \A c \in Classes, n \in Selectors :
        ClassTables[ClassBox(c)][n] = Fn(OfClass(c, n)) /\ OfClass(c, n) \subseteq Methods
  BY <1>1, <1>2 DEF OfClass
<1>5. ASSUME NEW G, G \subseteq Methods \cup SingletonRecord
      PROVE  Fn(G) \in Functions \cup {NULL}
  <2>1. \A m \in G : m.func \in Functions
    BY <1>5 DEF Methods, SingletonRecord
  <2>. QED  BY <2>1 DEF Fn
<1>6. ClassTables \in [ClassBoxes -> [Selectors -> Functions \cup {NULL}]]
  <2>1. ASSUME NEW o \in ClassBoxes
        PROVE  ClassTables[o] \in [Selectors -> Functions \cup {NULL}]
    <3>1. PICK c \in Classes : o = ClassBox(c)
      BY DEF ClassBoxes
    <3>2. ClassTables[o] = InList(Was(c).methods)
      BY <1>1, <3>1
    <3>3. \A n \in Selectors : ClassTables[o][n] \in Functions \cup {NULL}
      BY <1>4, <1>5, <3>1
    <3>. QED  BY <3>2, <3>3 DEF InList
  <2>. QED  BY <2>1 DEF ClassTables
<1>7. SingletonTables \in [Objects -> [Selectors -> Functions \cup {NULL}]]
  <2>1. ASSUME NEW o \in Objects
        PROVE  SingletonTables[o] \in [Selectors -> Functions \cup {NULL}]
    <3>1. \A n \in Selectors : SingletonTables[o][n] \in Functions \cup {NULL}
      BY <1>3, <1>5
    <3>2. SingletonTables[o] = OwnOf(o)
      BY DEF SingletonTables
    <3>. QED  BY <3>1, <3>2 DEF OwnOf
  <2>. QED  BY <2>1 DEF SingletonTables
<1>. QED  BY <1>3, <1>4, <1>6, <1>7 DEF TablesHave

(* Tables are equal when they have the same of each name. *)
LEMMA SameTables ==
  ASSUME NEW O, NEW V, NEW s \in [O -> [Selectors -> V]], NEW t \in [O -> [Selectors -> V]],
         \A o \in O, n \in Selectors : s[o][n] = t[o][n]
  PROVE  s = t
<1>1. \A o \in O : s[o] = t[o]
  <2>. SUFFICES ASSUME NEW o \in O PROVE s[o] = t[o]
    OBVIOUS
  <2>1. s[o] \in [Selectors -> V] /\ t[o] \in [Selectors -> V]
    OBVIOUS
  <2>. QED  BY <2>1
<1>. QED  BY <1>1

LEMMA TablesAreNext == TypeInv' => TablesHave'
BY TablesAre, PTL

LEMMA RowReplaced ==
  ASSUME NEW O, NEW V, NEW s \in [O -> [Selectors -> V]], NEW t \in [O -> [Selectors -> V]],
         NEW o \in O, NEW row \in [Selectors -> V],
         \A n \in Selectors : t[o][n] = row[n],
         \A p \in O \ {o}, n \in Selectors : t[p][n] = s[p][n]
  PROVE  t = [s EXCEPT ![o] = row]
<1>. DEFINE u == [s EXCEPT ![o] = row]
<1>1. u \in [O -> [Selectors -> V]] /\ u[o] = row /\ \A p \in O \ {o} : u[p] = s[p]
  OBVIOUS
<1>. HIDE DEF u
<1>2. \A p \in O, n \in Selectors : t[p][n] = u[p][n]
  BY <1>1
<1>3. t = u
  BY <1>1, <1>2, SameTables
<1>. QED  BY <1>3 DEF u

LEMMA BoxesDiffer == \A c, d : ClassBox(c) = ClassBox(d) => c = d
<1>1. \A c : ClassBox(c).class = c
  BY DEF ClassBox
<1>. QED  BY <1>1

LEMMA ClassBoxesAreObjects == \A c \in Classes : ClassBox(c) \in ClassBoxes /\ ClassBox(c) \in Objects
BY DEF ClassBoxes, Objects

(* What a change of one class, and more methods of objects, make of what   *)
(* is got.                                                                 *)
LEMMA ClassGets ==
  ASSUME NEW c \in Classes, NEW r, Becomes(c, r)
  PROVE  \A n : /\ OfClass(c, n)' = Got(r.methods, Called(Methods, n))
                /\ \A d \in Classes \ {c} : OfClass(d, n)' = OfClass(d, n)
<1>1. Was(c)' = r
  BY DEF Becomes, Was
<1>2. \A d \in Classes \ {c} : Was(d)' = Was(d)
  BY DEF Becomes, Was
<1>. QED  BY <1>1, <1>2 DEF OfClass

LEMMA ObjectGets ==
  ASSUME TypeInv, NEW new \in Seq(SingletonRecord), singleton_methods' = new \o singleton_methods
  PROVE  \A o, n : OfObject(o, n)' = IF Got(new, OwnBy(SingletonRecord, o, n)) # {}
                                     THEN Got(new, OwnBy(SingletonRecord, o, n)) ELSE OfObject(o, n)
BY GotConcat DEF TypeInv, OfObject

(* What is got of the functions that are written. *)
LEMMA GotWritten ==
  ASSUME NEW c \in Classes, NEW fs, NewFunctions(c, fs)
  PROVE  /\ \A f \in ToSet(fs) :
              /\ Got(Listed(fs), Called(Methods, f.name)) = {Method(f, f.yields)}
              /\ Got(ListedFor(ClassBox(c), fs), OwnBy(SingletonRecord, ClassBox(c), f.name))
                   = {Singleton(ClassBox(c), f)}
         /\ \A n : n \notin {f.name : f \in ToSet(fs)} =>
              /\ Got(Listed(fs), Called(Methods, n)) = {}
              /\ Got(ListedFor(ClassBox(c), fs), OwnBy(SingletonRecord, ClassBox(c), n)) = {}
         /\ \A o, n : o # ClassBox(c) => Got(ListedFor(ClassBox(c), fs), OwnBy(SingletonRecord, o, n)) = {}
<1>. DEFINE box == ClassBox(c)
            ms == Listed(fs)
            ss == ListedFor(box, fs)
<1>1. box \in Boxes /\ fs \in Seq(Functions) /\ ToSet(fs) \subseteq Functions
      /\ \A f, g \in ToSet(fs) : f.name = g.name => f = g
  BY Elements DEF Boxes, ClassBoxes, NewFunctions
<1>2. /\ ms \in Seq(Methods) /\ ss \in Seq(SingletonRecord)
      /\ ToSet(ms) = {Method(f, f.yields) : f \in ToSet(fs)}
      /\ ToSet(ss) = {Singleton(box, f) : f \in ToSet(fs)}
  BY <1>1, ListedTypes
<1>3. \A f : /\ Method(f, f.yields).name = f.name
             /\ Singleton(box, f).name = f.name /\ Singleton(box, f).receiver = box
  BY DEF Method, Singleton
<1>4. ToSet(ms) \subseteq Methods
  BY <1>2, ToSetType
<1>5. ToSet(ss) \subseteq SingletonRecord
  BY <1>2, ToSetType
<1>. HIDE DEF box, ms, ss
<1>6. ASSUME NEW T
      PROVE  /\ Got(ms, T) \subseteq T \cap ToSet(ms)
             /\ Got(ms, T) = {} <=> \A m \in ToSet(ms) : m \notin T
             /\ Got(ss, T) \subseteq T \cap ToSet(ss)
             /\ Got(ss, T) = {} <=> \A m \in ToSet(ss) : m \notin T
  BY <1>2, GotProperties
<1>7. ASSUME NEW f \in ToSet(fs)
      PROVE  Got(ms, Called(Methods, f.name)) = {Method(f, f.yields)}
  <2>1. Method(f, f.yields) \in ToSet(ms) \cap Called(Methods, f.name)
    BY <1>2, <1>3, <1>4 DEF Called
  <2>2. \A m \in ToSet(ms) \cap Called(Methods, f.name) : m = Method(f, f.yields)
    BY <1>1, <1>2, <1>3 DEF Called
  <2>3. Got(ms, Called(Methods, f.name)) # {}
    BY <1>6, <2>1
  <2>4. Got(ms, Called(Methods, f.name)) \subseteq ToSet(ms) \cap Called(Methods, f.name)
    BY <1>6
  <2>. QED  BY <2>2, <2>3, <2>4
<1>8. ASSUME NEW f \in ToSet(fs)
      PROVE  Got(ss, OwnBy(SingletonRecord, box, f.name)) = {Singleton(box, f)}
  <2>. DEFINE T == OwnBy(SingletonRecord, box, f.name)
  <2>1. Singleton(box, f) \in ToSet(ss) \cap T
    BY <1>2, <1>3, <1>5 DEF OwnBy
  <2>2. \A m \in ToSet(ss) \cap T : m = Singleton(box, f)
    BY <1>1, <1>2, <1>3 DEF OwnBy
  <2>3. Got(ss, T) # {}
    BY <1>6, <2>1
  <2>4. Got(ss, T) \subseteq ToSet(ss) \cap T
    BY <1>6
  <2>. QED  BY <2>2, <2>3, <2>4
<1>9. ASSUME NEW n, n \notin {f.name : f \in ToSet(fs)}
      PROVE  Got(ms, Called(Methods, n)) = {} /\ Got(ss, OwnBy(SingletonRecord, box, n)) = {}
  <2>1. \A m \in ToSet(ms) : m \notin Called(Methods, n)
    BY <1>2, <1>3, <1>9 DEF Called
  <2>2. \A m \in ToSet(ss) : m \notin OwnBy(SingletonRecord, box, n)
    BY <1>2, <1>3, <1>9 DEF OwnBy
  <2>. QED  BY <1>6, <2>1, <2>2
<1>10. ASSUME NEW o, NEW n, o # box
       PROVE  Got(ss, OwnBy(SingletonRecord, o, n)) = {}
  <2>1. \A m \in ToSet(ss) : m \notin OwnBy(SingletonRecord, o, n)
    BY <1>2, <1>3, <1>10 DEF OwnBy
  <2>. QED  BY <1>6, <2>1
<1>. QED  BY <1>7, <1>8, <1>9, <1>10 DEF box, ms, ss

LEMMA FnOfOne == \A m : Fn({m}) = m.func
BY DEF Fn

LEMMA WritesDefine ==
  ASSUME TypeInv, TypeInv', MethodsInv, NEW c \in Classes, NEW fs, NewFunctions(c, fs), Writes(c, fs)
  PROVE  Tables!Next
<1>. DEFINE o  == ClassBox(c)
            ns == {f.name : f \in ToSet(fs)}
            new == ListedFor(o, fs)
<1>1. PICK r \in ClassRecord(c) : Becomes(c, r) /\ r.methods = Listed(fs) \o Was(c).methods
  BY DEF Writes
<1>2. /\ Listed(fs) \in Seq(Methods) /\ new \in Seq(SingletonRecord)
      /\ ToSet(new) = {Singleton(o, f) : f \in ToSet(fs)}
      /\ fs \in Seq(Functions) /\ ToSet(fs) \subseteq Functions /\ \A f \in ToSet(fs) : f.id = made
      /\ Was(c).methods \in Seq(Methods)
  <2>1. o \in Boxes /\ fs \in Seq(Functions) /\ \A f \in ToSet(fs) : f.id = made
    BY DEF Boxes, ClassBoxes, NewFunctions
  <2>2. ToSet(fs) \subseteq Functions
    BY <2>1, Elements
  <2>3. Was(c).methods \in Seq(Methods)
    BY WasType DEF ClassRecord
  <2>4. /\ Listed(fs) \in Seq(Methods) /\ new \in Seq(SingletonRecord)
        /\ ToSet(new) = {Singleton(o, f) : f \in ToSet(fs)}
    BY <2>1, ListedTypes
  <2>. QED  BY <2>1, <2>2, <2>3, <2>4
<1>3. singleton_methods' = new \o singleton_methods
  BY DEF Writes
<1>. HIDE DEF new
<1>4. \A n : /\ OfClass(c, n)' = IF Got(Listed(fs), Called(Methods, n)) # {}
                                 THEN Got(Listed(fs), Called(Methods, n)) ELSE OfClass(c, n)
             /\ \A d \in Classes \ {c} : OfClass(d, n)' = OfClass(d, n)
  <2>1. \A n : Got(r.methods, Called(Methods, n)) =
                 IF Got(Listed(fs), Called(Methods, n)) # {}
                 THEN Got(Listed(fs), Called(Methods, n)) ELSE OfClass(c, n)
    BY <1>1, <1>2, GotConcat DEF OfClass
  <2>. QED  BY <1>1, <2>1, ClassGets
<1>5. \A p, n : OfObject(p, n)' = IF Got(new, OwnBy(SingletonRecord, p, n)) # {}
                                  THEN Got(new, OwnBy(SingletonRecord, p, n)) ELSE OfObject(p, n)
  BY <1>2, <1>3, ObjectGets
<1>6. /\ \A f \in ToSet(fs) : OfClass(c, f.name)' = {Method(f, f.yields)} /\ OfObject(o, f.name)' = {Singleton(o, f)}
      /\ \A n : n \notin ns => OfClass(c, n)' = OfClass(c, n) /\ OfObject(o, n)' = OfObject(o, n)
      /\ \A p, n : p # o => OfObject(p, n)' = OfObject(p, n)
  BY <1>4, <1>5, GotWritten DEF new
<1>7. TablesHave /\ TablesHave'
  BY TablesAre, TablesAreNext
<1>8. o \in ClassBoxes /\ o \in Objects
  BY ClassBoxesAreObjects
<1>9. ns \in SUBSET Selectors
  BY <1>2 DEF Functions
<1>10. \A f \in ToSet(fs) : Method(f, f.yields).func = f /\ Singleton(o, f).func = f
  BY DEF Method, Singleton
<1>11. \A f \in ToSet(fs) : ClassTables'[o][f.name] = f /\ SingletonTables'[o][f.name] = f
  <2>. SUFFICES ASSUME NEW f \in ToSet(fs) PROVE ClassTables'[o][f.name] = f /\ SingletonTables'[o][f.name] = f
    OBVIOUS
  <2>1. f.name \in Selectors
    BY <1>9
  <2>2. ClassTables'[o][f.name] = Fn(OfClass(c, f.name)') /\ SingletonTables'[o][f.name] = Fn(OfObject(o, f.name)')
    BY <1>7, <1>8, <2>1 DEF TablesHave
  <2>. QED  BY <1>6, <1>10, <2>2, FnOfOne
<1>12. \A f \in ToSet(fs) : f \in Functions \ Defined /\ f \in Defined'
  <2>. SUFFICES ASSUME NEW f \in ToSet(fs) PROVE f \in Functions \ Defined /\ f \in Defined'
    OBVIOUS
  <2>1. \A m \in ToSet(singleton_methods) : m.func.id < made
    BY DEF MethodsInv, ListedAlone, Kept
  <2>2. f \notin Defined
    <3>1. f.id = made /\ made \in Nat
      BY <1>2 DEF TypeInv
    <3>2. Defined = {m.func : m \in ToSet(singleton_methods)}
      BY DefinedIs
    <3>. QED  BY <2>1, <3>1, <3>2
  <2>3. Singleton(o, f) \in ToSet(singleton_methods')
    BY <1>2, <1>3, ToSetConcat DEF TypeInv
  <2>. QED  BY <1>2, <1>10, <2>2, <2>3, DefinedIs
<1>. DEFINE V == Functions \cup {NULL}
            row(table) == [n \in Selectors |-> IF n \in ns THEN ClassTables'[o][n] ELSE table[n]]
<1>13. /\ ClassTables \in [ClassBoxes -> [Selectors -> V]] /\ ClassTables' \in [ClassBoxes -> [Selectors -> V]]
       /\ SingletonTables \in [Objects -> [Selectors -> V]] /\ SingletonTables' \in [Objects -> [Selectors -> V]]
  BY <1>7 DEF TablesHave
<1>14. /\ row(ClassTables[o]) \in [Selectors -> V] /\ row(SingletonTables[o]) \in [Selectors -> V]
  BY <1>8, <1>13
<1>15. /\ \A n \in Selectors : ClassTables'[o][n] = row(ClassTables[o])[n]
       /\ \A p \in ClassBoxes \ {o}, n \in Selectors : ClassTables'[p][n] = ClassTables[p][n]
  <2>1. ASSUME NEW n \in Selectors, n \notin ns
        PROVE  ClassTables'[o][n] = ClassTables[o][n]
    <3>1. ClassTables'[o][n] = Fn(OfClass(c, n)') /\ ClassTables[o][n] = Fn(OfClass(c, n))
      BY <1>7 DEF TablesHave
    <3>. QED  BY <1>6, <2>1, <3>1
  <2>2. ASSUME NEW p \in ClassBoxes \ {o}, NEW n \in Selectors
        PROVE  ClassTables'[p][n] = ClassTables[p][n]
    <3>1. PICK d \in Classes \ {c} : p = ClassBox(d)
      BY DEF ClassBoxes
    <3>2. ClassTables'[p][n] = Fn(OfClass(d, n)') /\ ClassTables[p][n] = Fn(OfClass(d, n))
      BY <1>7, <3>1 DEF TablesHave
    <3>. QED  BY <1>4, <3>1, <3>2
  <2>. QED  BY <2>1, <2>2
<1>16. /\ \A n \in Selectors : SingletonTables'[o][n] = row(SingletonTables[o])[n]
       /\ \A p \in Objects \ {o}, n \in Selectors : SingletonTables'[p][n] = SingletonTables[p][n]
  <2>1. ASSUME NEW n \in Selectors, n \notin ns
        PROVE  SingletonTables'[o][n] = SingletonTables[o][n]
    <3>1. SingletonTables'[o][n] = Fn(OfObject(o, n)') /\ SingletonTables[o][n] = Fn(OfObject(o, n))
      BY <1>7, <1>8 DEF TablesHave
    <3>. QED  BY <1>6, <2>1, <3>1
  <2>2. ASSUME NEW n \in ns
        PROVE  SingletonTables'[o][n] = ClassTables'[o][n]
    BY <1>11
  <2>3. ASSUME NEW p \in Objects \ {o}, NEW n \in Selectors
        PROVE  SingletonTables'[p][n] = SingletonTables[p][n]
    <3>1. SingletonTables'[p][n] = Fn(OfObject(p, n)') /\ SingletonTables[p][n] = Fn(OfObject(p, n))
      BY <1>7 DEF TablesHave
    <3>. QED  BY <1>6, <3>1
  <2>. QED  BY <2>1, <2>2, <2>3
<1>17. /\ ClassTables' = [ClassTables EXCEPT ![o] = row(@)]
       /\ SingletonTables' = [SingletonTables EXCEPT ![o] = row(@)]
  <2>. DEFINE x == row(ClassTables[o])
              y == row(SingletonTables[o])
  <2>0. /\ \A n \in Selectors : ClassTables'[o][n] = x[n]
        /\ \A n \in Selectors : SingletonTables'[o][n] = y[n]
        /\ x \in [Selectors -> V] /\ y \in [Selectors -> V]
    BY <1>14, <1>15, <1>16
  <2>. HIDE DEF x, y, V, o
  <2>1. ClassTables' = [ClassTables EXCEPT ![o] = x]
    BY <1>8, <1>13, <1>15, <2>0, RowReplaced
  <2>2. SingletonTables' = [SingletonTables EXCEPT ![o] = y]
    BY <1>8, <1>13, <1>16, <2>0, RowReplaced
  <2>. QED  BY <2>1, <2>2 DEF x, y
<1>18. \A n \in ns : Tables!New(ClassTables'[o][n])
  BY <1>11, <1>12 DEF Tables!New
<1>. HIDE DEF o, ns
<1>19. Tables!Define(o, ns)
  BY <1>17, <1>18 DEF Tables!Define
<1>. QED  BY <1>8, <1>9, <1>19 DEF Tables!Next

LEMMA WritesDefineFor ==
  ASSUME TypeInv, TypeInv', MethodsInv, NEW box \in Receivers, NEW f, WritesFor(box, f)
  PROVE  Tables!Next
<1>. DEFINE s == Singleton(box, f)
            new == <<s>>
            V == Functions \cup {NULL}
<1>0. box \in Objects /\ f \in Functions /\ f.name \in Selectors
  <2>1. Len(instances) <= MaxInstances + 1 /\ Len(instances) \in Nat /\ DOMAIN instances = 1 .. Len(instances)
        /\ MaxInstances \in Nat
    BY ObjectsAssumption, LenProperties DEF TypeInv
  <2>2. DOMAIN instances \subseteq 1 .. MaxInstances + 1
    BY <2>1
  <2>3. box \in Objects
    BY <2>2 DEF Receivers, Objects, ClassBoxes, TypeInv
  <2>. QED  BY <2>3 DEF WritesFor, Functions
<1>1. s \in SingletonRecord /\ s.func = f /\ s.name = f.name /\ s.receiver = box
  BY <1>0, ReceiversAreBoxes DEF Singleton, SingletonRecord
<1>2. /\ new \in Seq(SingletonRecord) /\ ToSet(new) = {s}
      /\ \A T : Got(new, T) = IF s \in T THEN {s} ELSE {}
  BY <1>1, ToSetSingle, GotSingle
<1>3. singleton_methods' = new \o singleton_methods /\ class' = class
  BY DEF WritesFor
<1>. HIDE DEF s, new
<1>4. \A o, n : OfObject(o, n)' = IF o = box /\ n = f.name THEN {s} ELSE OfObject(o, n)
  <2>1. \A o, n : OfObject(o, n)' = IF Got(new, OwnBy(SingletonRecord, o, n)) # {}
                                    THEN Got(new, OwnBy(SingletonRecord, o, n)) ELSE OfObject(o, n)
    BY <1>2, <1>3, ObjectGets
  <2>2. \A o, n : s \in OwnBy(SingletonRecord, o, n) <=> o = box /\ n = f.name
    BY <1>1 DEF OwnBy
  <2>. QED  BY <1>2, <2>1, <2>2
<1>5. TablesHave /\ TablesHave'
  BY TablesAre, TablesAreNext
<1>6. \A o \in Objects, n \in Selectors :
        SingletonTables'[o][n] = IF o = box /\ n = f.name THEN f ELSE SingletonTables[o][n]
  <2>1. \A o \in Objects, n \in Selectors :
          SingletonTables'[o][n] = Fn(OfObject(o, n)') /\ SingletonTables[o][n] = Fn(OfObject(o, n))
    BY <1>5 DEF TablesHave
  <2>. QED  BY <1>1, <1>4, <2>1, FnOfOne
<1>7. SingletonTables \in [Objects -> [Selectors -> V]] /\ SingletonTables' \in [Objects -> [Selectors -> V]]
  BY <1>5 DEF TablesHave
<1>8. SingletonTables' = [SingletonTables EXCEPT ![box][f.name] = SingletonTables'[box][f.name]]
  <2>. DEFINE row == [SingletonTables[box] EXCEPT ![f.name] = SingletonTables'[box][f.name]]
  <2>1. row \in [Selectors -> V] /\ \A n \in Selectors : SingletonTables'[box][n] = row[n]
    BY <1>0, <1>6, <1>7
  <2>. HIDE DEF row, V
  <2>2. SingletonTables' = [SingletonTables EXCEPT ![box] = row]
    <3>1. \A p \in Objects \ {box}, n \in Selectors : SingletonTables'[p][n] = SingletonTables[p][n]
      BY <1>6
    <3>. QED  BY <1>0, <1>7, <2>1, <3>1, RowReplaced
  <2>. QED  BY <2>2 DEF row
<1>9. f \notin Defined /\ f \in Defined'
  <2>1. \A m \in ToSet(singleton_methods) : m.func.id < made
    BY DEF MethodsInv, ListedAlone, Kept
  <2>2. f.id = made /\ made \in Nat
    BY DEF WritesFor, TypeInv
  <2>3. f \notin Defined
    BY <2>1, <2>2, DefinedIs
  <2>4. s \in ToSet(singleton_methods')
    BY <1>2, <1>3, ToSetConcat DEF TypeInv
  <2>. QED  BY <1>1, <2>3, <2>4, DefinedIs
<1>10. ClassTables' = ClassTables
  BY <1>3 DEF ClassTables, Known
<1>11. SingletonTables'[box][f.name] = f
  BY <1>0, <1>6
<1>12. Tables!DefineFor(box, f.name)
  BY <1>0, <1>8, <1>9, <1>10, <1>11 DEF Tables!DefineFor, Tables!New
<1>. QED  BY <1>0, <1>12 DEF Tables!Next

LEMMA NothingDefined ==
  ASSUME ListsNothing
  PROVE  ClassTables' = ClassTables /\ SingletonTables' = SingletonTables /\ Defined' = Defined
<1>1. singleton_methods' = singleton_methods
  BY DEF ListsNothing
<1>2. SingletonTables' = SingletonTables
  <2>1. \A o, n : Own(o, n)' = Own(o, n)
    BY <1>1, Zenon DEF Own, SelectInSeq
  <2>2. \A o : OwnOf(o)' = OwnOf(o)
    BY <1>1, <2>1 DEF OwnOf
  <2>. QED  BY <2>2 DEF SingletonTables
<1>3. Defined' = Defined
  BY <1>1 DEF Defined
<1>4. \A c : (IF c \in Known' THEN class'[c].methods ELSE <<>>) = (IF c \in Known THEN class[c].methods ELSE <<>>)
  BY DEF ListsNothing, Was
<1>5. ClassTables' = ClassTables
  <2>. DEFINE list(c) == IF c \in Known THEN class[c].methods ELSE <<>>
  <2>1. ClassTables = [o \in ClassBoxes |-> InList(list(o.class))]
    BY DEF ClassTables
  <2>2. ClassTables' = [o \in ClassBoxes |-> InList(list(o.class)')]
    BY DEF ClassTables
  <2>3. \A c : list(c)' = list(c)
    BY <1>4
  <2>. HIDE DEF list
  <2>. QED  BY <2>1, <2>2, <2>3
<1>. QED  BY <1>2, <1>3, <1>5

LEMMA GotSame ==
  ASSUME NEW S, NEW s \in Seq(S), NEW T, NEW U, \A m \in S : m \in T <=> m \in U
  PROVE  Got(s, T) = Got(s, U)
<1>1. \A i \in 1 .. Len(s) : s[i] \in T <=> s[i] \in U
  BY Elements
<1>2. Hits(s, T) = Hits(s, U)
  BY <1>1 DEF Hits
<1>. QED  BY <1>2 DEF Got

LEMMA FnIsNull ==
  ASSUME NEW G, G \subseteq Offering
  PROVE  Fn(G) = NULL <=> G = {}
<1>1. \A m \in G : m.func \in Functions
  BY DEF Offering, Methods, SingletonRecord
<1>. QED  BY <1>1, NullAssumption DEF Fn

(* What the other class lends: of its methods, then of what it has for     *)
(* itself.                                                                 *)
LEMMA Lending ==
  ASSUME TypeInv, TypeInv', MethodsInv, NEW other \in Known, NEW n,
         NEW R, NEW offers \in Seq(R), Len(offers) = Len(Offered(other)),
         \A i \in 1 .. Len(offers) :
           offers[i].func = Offered(other)[i].func /\ offers[i].name = Offered(other)[i].func.name
  PROVE  Fn(Got(offers, Called(R, n))) =
           IF OfClass(other, n) # {} THEN Fn(OfClass(other, n)) ELSE Fn(OfObject(ClassBox(other), n))
<1>. DEFINE s  == Offered(other)
            ms == class[other].methods
            os == Of(ClassBox(other))
            T  == Called(Offering, n)
<1>1. /\ ms \in Seq(Offering) /\ os \in Seq(Offering) /\ s \in Seq(Offering)
      /\ ToSet(s) = ToSet(ms) \cup ToSet(os)
  BY OfferedType
<1>2. s = ms \o os
  BY DEF Offered
<1>3. ms \in Seq(Methods) /\ os \in Seq(SingletonRecord) /\ other \in Classes /\ Was(other) = class[other]
  BY OfProperties, WasKnown DEF TypeInv, ClassRecord
<1>4. Got(os, Called(SingletonRecord, n)) = OfObject(ClassBox(other), n)
  BY OfProperties DEF OfObject, TypeInv
<1>5. Got(ms, Called(Methods, n)) = OfClass(other, n)
  BY <1>3 DEF OfClass
<1>6. \A m \in ToSet(s) : m.name = m.func.name
  <2>1. \A m \in ToSet(ms) : m.name = m.func.name
    BY DEF MethodsInv, ListedIn
  <2>2. \A m \in ToSet(os) : m \in ToSet(singleton_methods)
    BY OfProperties DEF TypeInv
  <2>3. \A m \in ToSet(os) : m.name = m.func.name
    BY <2>2 DEF MethodsInv, ListedAlone
  <2>. QED  BY <1>1, <2>1, <2>3
<1>. HIDE DEF s, ms, os
<1>7. \A i \in 1 .. Len(s) : s[i] \in ToSet(s) /\ s[i] \in Offering
  BY <1>1, Elements
<1>8. \A i \in 1 .. Len(s) : (s[i] \in T <=> offers[i] \in Called(R, n)) /\ s[i].func = offers[i].func
  <2>. SUFFICES ASSUME NEW i \in 1 .. Len(s)
                PROVE  (s[i] \in T <=> offers[i] \in Called(R, n)) /\ s[i].func = offers[i].func
    OBVIOUS
  <2>1. offers[i].func = s[i].func /\ offers[i].name = s[i].name
    BY <1>6, <1>7 DEF s
  <2>2. offers[i] \in R
    BY Elements DEF s
  <2>. QED  BY <1>7, <2>1, <2>2 DEF Called
<1>9. SameFunctions(Got(s, T), Got(offers, Called(R, n)))
  <2>1. Len(offers) = Len(s)
    BY DEF s
  <2>2. Mirrors(s, T, offers, Called(R, n))
    BY <1>8, <2>1 DEF Mirrors
  <2>. HIDE DEF T
  <2>. QED  BY <1>1, <2>2, GotMirrored
<1>10. Fn(Got(offers, Called(R, n))) = Fn(Got(s, T))
  <2>1. /\ \A l \in Got(s, T) : Fn(Got(s, T)) = l.func
        /\ \A m \in Got(offers, Called(R, n)) : Fn(Got(offers, Called(R, n))) = m.func
    BY <1>1, FnOfGot
  <2>. QED  BY <1>9, <2>1 DEF Fn, SameFunctions
<1>11. Got(ms, T) = Got(ms, Called(Methods, n)) /\ Got(os, T) = Got(os, Called(SingletonRecord, n))
  <2>1. \A m \in Methods : m \in T <=> m \in Called(Methods, n)
    BY DEF Called, Offering
  <2>2. \A m \in SingletonRecord : m \in T <=> m \in Called(SingletonRecord, n)
    BY DEF Called, Offering
  <2>. HIDE DEF T
  <2>. QED  BY <1>3, <2>1, <2>2, GotSame
<1>12. Got(s, T) = IF Got(ms, T) # {} THEN Got(ms, T) ELSE Got(os, T)
  BY <1>1, <1>2, GotConcat
<1>13. Got(s, T) = IF OfClass(other, n) # {} THEN OfClass(other, n) ELSE OfObject(ClassBox(other), n)
  BY <1>4, <1>5, <1>11, <1>12
<1>. QED  BY <1>10, <1>13

LEMMA CopiesExtend ==
  ASSUME TypeInv, TypeInv', MethodsInv, NEW c \in Known, NEW other \in Known, Copies(c, other)
  PROVE  Tables!Next
<1>. DEFINE o == ClassBox(c)
            p == ClassBox(other)
            V == Functions \cup {NULL}
            Lent(n) == IF ClassTables[p][n] # NULL THEN ClassTables[p][n] ELSE SingletonTables[p][n]
            row(table) == [n \in Selectors |-> IF table[n] # NULL THEN table[n] ELSE Lent(n)]
<1>0. c \in Classes /\ other \in Classes /\ o \in ClassBoxes /\ o \in Objects /\ p \in ClassBoxes /\ p \in Objects
      /\ Was(c) = class[c]
  BY ClassBoxesAreObjects, WasKnown DEF TypeInv
<1>1. TablesHave /\ TablesHave'
  BY TablesAre, TablesAreNext
<1>2. \A n \in Selectors : /\ ClassTables[p][n] = Fn(OfClass(other, n)) /\ SingletonTables[p][n] = Fn(OfObject(p, n))
                           /\ Fn(OfClass(other, n)) = NULL <=> OfClass(other, n) = {}
                           /\ ClassTables[o][n] = Fn(OfClass(c, n)) /\ SingletonTables[o][n] = Fn(OfObject(o, n))
                           /\ Fn(OfClass(c, n)) = NULL <=> OfClass(c, n) = {}
                           /\ Fn(OfObject(o, n)) = NULL <=> OfObject(o, n) = {}
                           /\ ClassTables'[o][n] = Fn(OfClass(c, n)') /\ SingletonTables'[o][n] = Fn(OfObject(o, n)')
  <2>. SUFFICES ASSUME NEW n \in Selectors
                PROVE  /\ ClassTables[p][n] = Fn(OfClass(other, n)) /\ SingletonTables[p][n] = Fn(OfObject(p, n))
                       /\ Fn(OfClass(other, n)) = NULL <=> OfClass(other, n) = {}
                       /\ ClassTables[o][n] = Fn(OfClass(c, n)) /\ SingletonTables[o][n] = Fn(OfObject(o, n))
                       /\ Fn(OfClass(c, n)) = NULL <=> OfClass(c, n) = {}
                       /\ Fn(OfObject(o, n)) = NULL <=> OfObject(o, n) = {}
                       /\ ClassTables'[o][n] = Fn(OfClass(c, n)') /\ SingletonTables'[o][n] = Fn(OfObject(o, n)')
    OBVIOUS
  <2>1. /\ ClassTables[p][n] = Fn(OfClass(other, n)) /\ SingletonTables[p][n] = Fn(OfObject(p, n))
        /\ ClassTables[o][n] = Fn(OfClass(c, n)) /\ SingletonTables[o][n] = Fn(OfObject(o, n))
        /\ ClassTables'[o][n] = Fn(OfClass(c, n)') /\ SingletonTables'[o][n] = Fn(OfObject(o, n)')
    BY <1>0, <1>1 DEF TablesHave
  <2>2. OfClass(other, n) \subseteq Offering /\ OfClass(c, n) \subseteq Offering /\ OfObject(o, n) \subseteq Offering
    BY <1>0, <1>1 DEF TablesHave, Offering
  <2>. QED  BY <2>1, <2>2, FnIsNull
<1>3. PICK r \in ClassRecord(c) : Becomes(c, r) /\ CopiesMethods(c, other, r)
  BY DEF Copies
<1>4. \A n : OfClass(c, n)' = Got(r.methods, Called(Methods, n))
             /\ \A d \in Classes \ {c} : OfClass(d, n)' = OfClass(d, n)
  BY <1>0, <1>3, ClassGets
<1>5. PICK offers \in Seq(Methods) :
        /\ Len(offers) = Len(Offered(other))
        /\ \A i \in 1 .. Len(offers) : offers[i] = Copy(Offered(other)[i].func)
        /\ \A n : Got(r.methods, Called(Methods, n)) =
                    IF OfClass(c, n) # {} THEN OfClass(c, n) ELSE Got(offers, Called(Methods, n))
  BY <1>0, <1>3 DEF CopiesMethods, OfClass
<1>6. \A i \in 1 .. Len(offers) :
        offers[i].func = Offered(other)[i].func /\ offers[i].name = Offered(other)[i].func.name
  <2>1. \A f : Copy(f).func = f /\ Copy(f).name = f.name
    BY DEF Copy, Method
  <2>. QED  BY <1>5, <2>1
<1>7. \A n \in Selectors : Fn(Got(offers, Called(Methods, n))) = Lent(n)
  <2>1. \A n : Fn(Got(offers, Called(Methods, n))) =
                 IF OfClass(other, n) # {} THEN Fn(OfClass(other, n)) ELSE Fn(OfObject(p, n))
    BY <1>5, <1>6, Lending
  <2>. QED  BY <1>2, <2>1
<1>8. PICK singles \in Seq(SingletonRecord), new \in Seq(SingletonRecord) :
        /\ Len(singles) = Len(Offered(other))
        /\ \A i \in 1 .. Len(singles) : singles[i] = Singleton(o, Offered(other)[i].func)
        /\ singleton_methods' = new \o singleton_methods
        /\ \A m \in ToSet(new) : \E l \in ToSet(Offered(other)) : m = Singleton(o, l.func)
        /\ \A n : Got(new \o Of(o), Called(SingletonRecord, n)) =
                    IF Got(Of(o), Called(SingletonRecord, n)) # {} THEN Got(Of(o), Called(SingletonRecord, n))
                    ELSE Got(singles, Called(SingletonRecord, n))
  BY DEF Copies, CopiesSingletons
<1>9. \A i \in 1 .. Len(singles) :
        singles[i].func = Offered(other)[i].func /\ singles[i].name = Offered(other)[i].func.name
  <2>1. \A f : Singleton(o, f).func = f /\ Singleton(o, f).name = f.name
    BY DEF Singleton
  <2>. QED  BY <1>8, <2>1
<1>10. \A n \in Selectors : Fn(Got(singles, Called(SingletonRecord, n))) = Lent(n)
  <2>1. \A n : Fn(Got(singles, Called(SingletonRecord, n))) =
                 IF OfClass(other, n) # {} THEN Fn(OfClass(other, n)) ELSE Fn(OfObject(p, n))
    BY <1>8, <1>9, Lending
  <2>. QED  BY <1>2, <2>1
<1>11. \A n : OfObject(o, n) = Got(Of(o), Called(SingletonRecord, n))
  BY OfProperties DEF OfObject, TypeInv
<1>12. ToSet(new) \subseteq SingletonRecord /\ \A m \in ToSet(new) : m.receiver = o
  BY <1>8, ToSetType DEF Singleton
<1>13. \A q, n : OfObject(q, n)' = IF Got(new, OwnBy(SingletonRecord, q, n)) # {}
                                   THEN Got(new, OwnBy(SingletonRecord, q, n)) ELSE OfObject(q, n)
  BY <1>8, ObjectGets
<1>14. \A q, n : q # o => OfObject(q, n)' = OfObject(q, n)
  <2>1. ASSUME NEW q, NEW n, q # o
        PROVE  Got(new, OwnBy(SingletonRecord, q, n)) = {}
    <3>1. \A m \in ToSet(new) : m \notin OwnBy(SingletonRecord, q, n)
      BY <1>12, <2>1 DEF OwnBy
    <3>. QED  BY <3>1, GotProperties
  <2>. QED  BY <1>13, <2>1
<1>15. \A n : OfObject(o, n)' = IF OfObject(o, n) # {} THEN OfObject(o, n)
                                ELSE Got(singles, Called(SingletonRecord, n))
  <2>. SUFFICES ASSUME NEW n
                PROVE  OfObject(o, n)' = IF OfObject(o, n) # {} THEN OfObject(o, n)
                                         ELSE Got(singles, Called(SingletonRecord, n))
    OBVIOUS
  <2>1. Got(new, OwnBy(SingletonRecord, o, n)) = Got(new, Called(SingletonRecord, n))
    <3>. DEFINE S == {m \in SingletonRecord : m.receiver = o}
    <3>1. new \in Seq(S)
      <4>1. \A i \in 1 .. Len(new) : new[i] \in ToSet(new) /\ DOMAIN new = 1 .. Len(new)
        BY Elements
      <4>2. \A i \in 1 .. Len(new) : new[i] \in S
        BY <1>12, <4>1
      <4>3. new \in [1 .. Len(new) -> S] /\ Len(new) \in Nat
        BY <4>2, LenProperties
      <4>. HIDE DEF S
      <4>. QED  BY <4>3, SegmentIsSeq
    <3>2. \A m \in S : m \in OwnBy(SingletonRecord, o, n) <=> m \in Called(SingletonRecord, n)
      BY DEF OwnBy, Called
    <3>. HIDE DEF S
    <3>. QED  BY <3>1, <3>2, GotSame
  <2>2. Got(new \o Of(o), Called(SingletonRecord, n)) =
          IF Got(new, Called(SingletonRecord, n)) # {} THEN Got(new, Called(SingletonRecord, n))
          ELSE Got(Of(o), Called(SingletonRecord, n))
    <3>1. Of(o) \in Seq(SingletonRecord)
      BY OfProperties DEF TypeInv
    <3>. QED  BY <3>1, GotConcat
  <2>. QED  BY <1>8, <1>11, <1>13, <2>1, <2>2
<1>16. /\ ClassTables \in [ClassBoxes -> [Selectors -> V]] /\ ClassTables' \in [ClassBoxes -> [Selectors -> V]]
       /\ SingletonTables \in [Objects -> [Selectors -> V]] /\ SingletonTables' \in [Objects -> [Selectors -> V]]
  BY <1>1 DEF TablesHave
<1>17. \A n \in Selectors : Lent(n) \in V
  BY <1>0, <1>16
<1>18. row(ClassTables[o]) \in [Selectors -> V] /\ row(SingletonTables[o]) \in [Selectors -> V]
  BY <1>0, <1>16, <1>17
<1>19. /\ \A n \in Selectors : ClassTables'[o][n] = row(ClassTables[o])[n]
       /\ \A n \in Selectors : SingletonTables'[o][n] = row(SingletonTables[o])[n]
  <2>. HIDE DEF Lent
  <2>1. ASSUME NEW n \in Selectors
        PROVE  ClassTables'[o][n] = IF ClassTables[o][n] # NULL THEN ClassTables[o][n] ELSE Lent(n)
    BY <1>2, <1>4, <1>5, <1>7
  <2>2. ASSUME NEW n \in Selectors
        PROVE  SingletonTables'[o][n] = IF SingletonTables[o][n] # NULL THEN SingletonTables[o][n] ELSE Lent(n)
    BY <1>2, <1>10, <1>15
  <2>. QED  BY <2>1, <2>2
<1>20. \A q \in ClassBoxes \ {o}, n \in Selectors : ClassTables'[q][n] = ClassTables[q][n]
  <2>. SUFFICES ASSUME NEW q \in ClassBoxes \ {o}, NEW n \in Selectors PROVE ClassTables'[q][n] = ClassTables[q][n]
    OBVIOUS
  <2>1. PICK d \in Classes \ {c} : q = ClassBox(d)
    BY DEF ClassBoxes
  <2>2. ClassTables'[q][n] = Fn(OfClass(d, n)') /\ ClassTables[q][n] = Fn(OfClass(d, n))
    BY <1>1, <2>1 DEF TablesHave
  <2>. QED  BY <1>4, <2>1, <2>2
<1>21. \A q \in Objects \ {o}, n \in Selectors : SingletonTables'[q][n] = SingletonTables[q][n]
  <2>. SUFFICES ASSUME NEW q \in Objects \ {o}, NEW n \in Selectors
                PROVE  SingletonTables'[q][n] = SingletonTables[q][n]
    OBVIOUS
  <2>1. SingletonTables'[q][n] = Fn(OfObject(q, n)') /\ SingletonTables[q][n] = Fn(OfObject(q, n))
    BY <1>1 DEF TablesHave
  <2>. QED  BY <1>14, <2>1
<1>22. /\ ClassTables' = [ClassTables EXCEPT ![o] = row(@)]
       /\ SingletonTables' = [SingletonTables EXCEPT ![o] = row(@)]
  <2>. DEFINE x == row(ClassTables[o])
              y == row(SingletonTables[o])
  <2>0. /\ \A n \in Selectors : ClassTables'[o][n] = x[n]
        /\ \A n \in Selectors : SingletonTables'[o][n] = y[n]
        /\ x \in [Selectors -> V] /\ y \in [Selectors -> V]
    BY <1>18, <1>19
  <2>. HIDE DEF x, y, V, o
  <2>1. ClassTables' = [ClassTables EXCEPT ![o] = x]
    BY <1>0, <1>16, <1>20, <2>0, RowReplaced
  <2>2. SingletonTables' = [SingletonTables EXCEPT ![o] = y]
    BY <1>0, <1>16, <1>21, <2>0, RowReplaced
  <2>. QED  BY <2>1, <2>2 DEF x, y
<1>23. Defined' = Defined
  <2>1. ToSet(singleton_methods') = ToSet(new) \cup ToSet(singleton_methods)
    BY <1>8, ToSetConcat DEF TypeInv
  <2>2. ASSUME NEW m \in ToSet(new)
        PROVE  m.func \in Defined
    <3>1. PICK l \in ToSet(Offered(other)) : m = Singleton(o, l.func)
      BY <1>8
    <3>. QED  BY <3>1, OfferedKept DEF Singleton
  <2>. QED  BY <2>1, <2>2, DefinedIs
<1>. HIDE DEF o, p
<1>24. Tables!Extend(o, p)
  BY <1>22, <1>23 DEF Tables!Extend
<1>. QED  BY <1>0, <1>24 DEF Tables!Next

LEMMA TablesInitially == Init => Tables!Init
<1>. SUFFICES ASSUME Init PROVE Tables!Init
  OBVIOUS
<1>1. Known = {} /\ singleton_methods = <<>>
  BY EmptySeq, LenProperties DEF Init, Known
<1>2. TypeInv
  BY TypeInitially
<1>3. TablesHave
  BY <1>2, TablesAre
<1>4. \A c \in Classes : \A n : OfClass(c, n) = {}
  BY <1>1, GotEmpty DEF OfClass, Was
<1>5. \A o, n : OfObject(o, n) = {}
  BY <1>1, GotEmpty DEF OfObject
<1>6. Fn({}) = NULL
  BY DEF Fn
<1>7. ClassTables = [o \in ClassBoxes |-> [n \in Selectors |-> NULL]]
  <2>. DEFINE none == [o \in ClassBoxes |-> [n \in Selectors |-> NULL]]
              V == Functions \cup {NULL}
  <2>1. none \in [ClassBoxes -> [Selectors -> V]] /\ \A o \in ClassBoxes, n \in Selectors : none[o][n] = NULL
    OBVIOUS
  <2>2. \A o \in ClassBoxes, n \in Selectors : ClassTables[o][n] = NULL
    BY <1>3, <1>4, <1>6 DEF TablesHave, ClassBoxes
  <2>3. ClassTables \in [ClassBoxes -> [Selectors -> V]]
    BY <1>3 DEF TablesHave
  <2>. HIDE DEF none, V
  <2>4. ClassTables = none
    BY <2>1, <2>2, <2>3, SameTables
  <2>. QED  BY <2>4 DEF none
<1>8. SingletonTables = [o \in Objects |-> [n \in Selectors |-> NULL]]
  <2>. DEFINE none == [o \in Objects |-> [n \in Selectors |-> NULL]]
              V == Functions \cup {NULL}
  <2>1. none \in [Objects -> [Selectors -> V]] /\ \A o \in Objects, n \in Selectors : none[o][n] = NULL
    OBVIOUS
  <2>2. \A o \in Objects, n \in Selectors : SingletonTables[o][n] = NULL
    BY <1>3, <1>5, <1>6 DEF TablesHave
  <2>3. SingletonTables \in [Objects -> [Selectors -> V]]
    BY <1>3 DEF TablesHave
  <2>. HIDE DEF none, V
  <2>4. SingletonTables = none
    BY <2>1, <2>2, <2>3, SameTables
  <2>. QED  BY <2>4 DEF none
<1>9. Defined = {}
  <2>1. DOMAIN singleton_methods = {}
    BY <1>1
  <2>. QED  BY <2>1 DEF Defined
<1>. QED  BY <1>7, <1>8, <1>9 DEF Tables!Init

LEMMA TablesStep == TypeInv /\ MethodsInv /\ [Next]_vars => [Tables!Next]_(Tables!tables)
<1>. SUFFICES ASSUME TypeInv, MethodsInv, [Next]_vars PROVE [Tables!Next]_(Tables!tables)
  OBVIOUS
<1>1. TypeInv'
  BY TypeStep
<1>2. CASE ListsNothing
  BY <1>2, NothingDefined DEF Tables!tables
<1>. QED  BY <1>1, <1>2, ListingCases, WritesDefine, WritesDefineFor, CopiesExtend

(* The lists of methods implement the two tables, whatever the names,      *)
(* however classes are reopened and extended, and for any number of        *)
(* functions and objects (llvm_runtime.c:1962-2071).                       *)
THEOREM ListsAlwaysAreTables == Spec => ListsAreTables
<1>1. Init => TypeInv /\ MethodsInv /\ Tables!Init
  BY TypeInitially, MethodsInitially, TablesInitially
<1>2. TypeInv /\ MethodsInv /\ [Next]_vars => TypeInv' /\ MethodsInv'
  BY TypeStep, MethodsStep
<1>3. TypeInv /\ MethodsInv /\ [Next]_vars => [Tables!Next]_(Tables!tables)
  BY TablesStep
<1>. QED  BY <1>1, <1>2, <1>3, PTL DEF Spec, ListsAreTables, Tables!Spec

-----------------------------------------------------------------------------
(* Superclasses. A class never becomes its own ancestor: there are ranks   *)
(* that are lower for a superclass, so every line of superclasses ends.    *)

Super(d) == class[d].superclass

Ranked(N, rank) ==
  /\ N \in Nat /\ rank \in [Known -> 0 .. N]
  /\ \A d \in Known : Super(d) # NULL => rank[Super(d)] < rank[d]

LinesEnd == \E N, rank : Ranked(N, rank)

Line(h) == [d \in Known \cup {NULL} |-> IF d = NULL THEN <<>> ELSE <<d>> \o h[Super(d)]]

LEMMA PrependedType ==
  ASSUME NEW S, NEW e \in S, NEW s \in Seq(S)
  PROVE  <<e>> \o s \in Seq(S) /\ ToSet(<<e>> \o s) = {e} \cup ToSet(s)
BY ToSetOne, ToSetSingle, ConcatProperties

LEMMA NullUnknown == TypeInv => NULL \notin Known
BY NullAssumption DEF TypeInv

LEMMA LineExists ==
  ASSUME TypeInv, LinesEnd
  PROVE  \E f : f = Line(f)
<1>0. PICK N, rank : Ranked(N, rank)
  BY DEF LinesEnd
<1>1. /\ N \in Nat /\ rank \in [Known -> 0 .. N] /\ NULL \notin Known
      /\ \A d \in Known : Super(d) # NULL => Super(d) \in Known /\ rank[Super(d)] < rank[d]
  BY <1>0, NullUnknown DEF Ranked, TypeInv, Super
<1>. DEFINE K == Known \cup {NULL}
            Upto(k) == {f \in [K -> Seq(Known)] :
                          /\ f[NULL] = <<>>
                          /\ \A d \in Known : rank[d] < k => f[d] = <<d>> \o f[Super(d)]}
            T == {k \in Nat : Upto(k) # {}}
<1>2. 0 \in T
  <2>1. <<>> \in Seq(Known)
    BY EmptySeq
  <2>. DEFINE none == <<>>
              f == [d \in K |-> none]
  <2>2. f \in [K -> Seq(Known)] /\ f[NULL] = none
    BY <2>1
  <2>3. \A d \in Known : ~(rank[d] < 0)
    BY <1>1
  <2>4. f \in Upto(0)
    BY <2>2, <2>3
  <2>. QED  BY <2>4
<1>3. ASSUME NEW k \in Nat, k \in T
      PROVE  k + 1 \in T
  <2>1. PICK f : f \in Upto(k)
    BY <1>3
  <2>2. /\ f \in [K -> Seq(Known)] /\ f[NULL] = <<>>
        /\ \A d \in Known : rank[d] < k => f[d] = <<d>> \o f[Super(d)]
    BY <2>1
  <2>. DEFINE g == [d \in K |-> IF d = NULL THEN <<>> ELSE <<d>> \o f[Super(d)]]
  <2>3. \A d \in Known : <<d>> \o f[Super(d)] \in Seq(Known)
    <3>. SUFFICES ASSUME NEW d \in Known PROVE <<d>> \o f[Super(d)] \in Seq(Known)
      OBVIOUS
    <3>1. f[Super(d)] \in Seq(Known)
      BY <1>1, <2>2
    <3>. QED  BY <3>1, PrependedType
  <2>4. g \in [K -> Seq(Known)] /\ g[NULL] = <<>> /\ \A d \in Known : g[d] = <<d>> \o f[Super(d)]
    BY <1>1, <2>2, <2>3
  <2>. HIDE DEF g
  <2>5. ASSUME NEW d \in Known, rank[d] < k + 1
        PROVE  g[Super(d)] = f[Super(d)]
    <3>1. CASE Super(d) = NULL
      BY <2>2, <2>4, <3>1
    <3>2. CASE Super(d) # NULL
      <4>1. Super(d) \in Known /\ rank[Super(d)] < k
        BY <1>1, <2>5, <3>2
      <4>. QED  BY <2>2, <2>4, <4>1
    <3>. QED  BY <3>1, <3>2
  <2>6. g \in Upto(k + 1)
    BY <2>4, <2>5
  <2>. HIDE DEF Upto
  <2>. QED  BY <2>6
<1>4. N + 1 \in T
  <2>. HIDE DEF T
  <2>1. Nat \subseteq T
    BY <1>2, <1>3, Upwards
  <2>. QED  BY <1>1, <2>1
<1>5. PICK f : f \in Upto(N + 1)
  BY <1>4
<1>6. f = Line(f)
  <2>1. \A d \in Known : rank[d] < N + 1
    BY <1>1
  <2>2. f \in [K -> Seq(Known)] /\ f[NULL] = <<>> /\ \A d \in Known : f[d] = <<d>> \o f[Super(d)]
    BY <1>5, <2>1
  <2>. QED  BY <2>2 DEF Line
<1>. QED  BY <1>6

LEMMA Lineages ==
  ASSUME TypeInv, LinesEnd
  PROVE  \A c \in Known :
           /\ Lineage(c) \in Seq(Known)
           /\ c \in ToSet(Lineage(c))
           /\ Super(c) # NULL => ToSet(Lineage(c)) = {c} \cup ToSet(Lineage(Super(c)))
           /\ Super(c) = NULL => ToSet(Lineage(c)) = {c}
<1>. DEFINE line == CHOOSE h : h = Line(h)
<1>1. line = Line(line)
  BY LineExists, Zenon
<1>2. \A c : Lineage(c) = line[c]
  BY Zenon DEF Lineage, Line, Super
<1>. HIDE DEF line
<1>0. PICK N, rank : Ranked(N, rank)
  BY DEF LinesEnd
<1>3. /\ N \in Nat /\ rank \in [Known -> 0 .. N] /\ NULL \notin Known
      /\ \A d \in Known : Super(d) # NULL => Super(d) \in Known /\ rank[Super(d)] < rank[d]
  BY <1>0, NullUnknown DEF Ranked, TypeInv, Super
<1>4. line[NULL] = <<>> /\ \A d \in Known : line[d] = <<d>> \o line[Super(d)]
  BY <1>1, <1>3 DEF Line
<1>5. <<>> \in Seq(Known) /\ ToSet(<<>>) = {}
  BY ToSetEmpty
<1>. DEFINE T == {k \in Nat : \A d \in Known : rank[d] < k => line[d] \in Seq(Known)}
<1>6. 0 \in T
  BY <1>3
<1>7. ASSUME NEW k \in Nat, k \in T
      PROVE  k + 1 \in T
  <2>. SUFFICES ASSUME NEW d \in Known, rank[d] < k + 1 PROVE line[d] \in Seq(Known)
    OBVIOUS
  <2>1. line[Super(d)] \in Seq(Known)
    <3>1. CASE Super(d) = NULL
      BY <1>4, <1>5, <3>1
    <3>2. CASE Super(d) # NULL
      <4>1. Super(d) \in Known /\ rank[Super(d)] < k
        BY <1>3, <3>2
      <4>. QED  BY <1>7, <4>1
    <3>. QED  BY <3>1, <3>2
  <2>2. <<d>> \o line[Super(d)] \in Seq(Known)
    BY <2>1, PrependedType
  <2>. QED  BY <1>4, <2>2
<1>8. Nat \subseteq T
  <2>. HIDE DEF T
  <2>. QED  BY <1>6, <1>7, Upwards
<1>9. ASSUME NEW d \in Known
      PROVE  line[d] \in Seq(Known)
  <2>1. N + 1 \in T /\ rank[d] < N + 1
    BY <1>3, <1>8
  <2>. QED  BY <2>1
<1>10. ASSUME NEW c \in Known
       PROVE  /\ ToSet(line[c]) = {c} \cup ToSet(line[Super(c)])
              /\ Super(c) = NULL => ToSet(line[Super(c)]) = {}
  <2>1. line[Super(c)] \in Seq(Known)
    BY <1>3, <1>4, <1>5, <1>9
  <2>2. ToSet(<<c>> \o line[Super(c)]) = {c} \cup ToSet(line[Super(c)])
    BY <2>1, PrependedType
  <2>. QED  BY <1>4, <1>5, <2>2
<1>. QED  BY <1>2, <1>9, <1>10

LEMMA LinesInitially == Init => LinesEnd
<1>. SUFFICES ASSUME Init PROVE LinesEnd
  OBVIOUS
<1>1. Known = {}
  BY EmptySeq, LenProperties DEF Init, Known
<1>2. Ranked(0, [d \in Known |-> 0])
  BY <1>1 DEF Ranked
<1>. QED  BY <1>2 DEF LinesEnd

LEMMA LineCases ==
  ASSUME TypeInv, [Next]_vars
  PROVE  \/ class' = class
         \/ \E c \in Classes : \E r \in ClassRecord(c) :
              /\ Becomes(c, r)
              /\ SameLine(c, r) \/ (r.superclass \in Known /\ c \notin ToSet(Lineage(r.superclass)))
<1>1. CASE UNCHANGED vars
  BY <1>1 DEF vars
<1>2. CASE Next
  <2>1. CASE \E c \in Classes : Opens(c)
    BY <2>1 DEF Opens
  <2>2. CASE \E c \in Known : \E fs : WritesAlone(c, fs)
    BY <2>2 DEF WritesAlone, Writes, TypeInv
  <2>3. CASE \E fs : WritesBuiltins(fs)
    BY <2>3, ObjectsAssumption DEF WritesBuiltins, Writes
  <2>4. CASE \E box \in Receivers : \E f : WritesFor(box, f)
    BY <2>4 DEF WritesFor
  <2>5. CASE \E c, other \in Known : Copies(c, other)
    BY <2>5 DEF Copies, TypeInv
  <2>6. CASE \E c \in Known : Instantiates(c)
    BY <2>6 DEF Instantiates
  <2>7. CASE \E c \in Known, n \in Members, v \in Values : Numbers(c, n, v)
    BY <2>7 DEF Numbers, TypeInv
  <2>8. CASE \E path \in Paths, value \in {NULL} \cup ClassBoxes : DefineConstant(path, value)
    BY <2>8 DEF DefineConstant
  <2>. QED  BY <1>2, <2>1, <2>2, <2>3, <2>4, <2>5, <2>6, <2>7, <2>8, StepCases
<1>. QED  BY <1>1, <1>2

(* The descendants of a class that gets a superclass rise above it.        *)
LEMMA LinesStep == TypeInv /\ LinesEnd /\ [Next]_vars => LinesEnd'
<1>. SUFFICES ASSUME TypeInv, LinesEnd, [Next]_vars PROVE LinesEnd'
  OBVIOUS
<1>0. PICK N, rank : Ranked(N, rank)
  BY DEF LinesEnd
<1>1. /\ N \in Nat /\ rank \in [Known -> 0 .. N] /\ NULL \notin Known
      /\ \A d \in Known : Super(d) # NULL => Super(d) \in Known /\ rank[Super(d)] < rank[d]
  BY <1>0, NullUnknown DEF Ranked, TypeInv, Super
<1>2. CASE class' = class
  <2>1. Ranked(N, rank)'
    BY <1>0, <1>2 DEF Ranked, Known, Super
  <2>. QED  BY <2>1 DEF LinesEnd
<1>3. ASSUME NEW c \in Classes, NEW r \in ClassRecord(c), Becomes(c, r),
             SameLine(c, r) \/ (r.superclass \in Known /\ c \notin ToSet(Lineage(r.superclass)))
      PROVE  LinesEnd'
  <2>. DEFINE base == [d \in Known \cup {c} |-> IF d \in Known THEN rank[d] ELSE 0]
  <2>1. base \in [Known \cup {c} -> 0 .. N] /\ \A d \in Known : base[d] = rank[d]
    BY <1>1
  <2>2. /\ Known' = Known \cup {c} /\ Super(c)' = r.superclass
        /\ \A d \in Known \ {c} : Super(d)' = Super(d)
    BY <1>3 DEF Becomes, Super
  <2>. HIDE DEF base
  <2>3. CASE SameLine(c, r)
    <3>1. c \in Known => Super(c)' = Super(c)
      BY <2>2, <2>3 DEF SameLine, Was, Super
    <3>2. c \notin Known => Super(c)' = NULL
      BY <2>2, <2>3 DEF SameLine, Was
    <3>3. \A d \in Known' : Super(d)' # NULL => base[Super(d)'] < base[d]
      BY <1>1, <2>1, <2>2, <3>1, <3>2
    <3>4. PICK b : b = base
      OBVIOUS
    <3>5. Ranked(N, b)'
      BY <1>1, <2>1, <2>2, <3>3, <3>4 DEF Ranked
    <3>. QED  BY <3>5 DEF LinesEnd
  <2>4. CASE r.superclass \in Known /\ c \notin ToSet(Lineage(r.superclass))
    <3>. DEFINE s == r.superclass
                below == {d \in Known \cup {c} : d = c \/ c \in ToSet(Lineage(d))}
                high == [d \in Known \cup {c} |-> IF d \in below THEN base[d] + base[s] + 1 ELSE base[d]]
    <3>1. s \in Known /\ s \notin below /\ c \in below
      <4>1. s # c
        BY <2>4, Lineages
      <4>. QED  BY <2>4, <4>1
    <3>2. \A d \in Known \ {c} : Super(d) # NULL => (d \in below <=> Super(d) \in below)
      <4>1. ASSUME NEW d \in Known \ {c}, Super(d) # NULL
            PROVE  d \in below <=> Super(d) \in below
        <5>1. Super(d) \in Known /\ ToSet(Lineage(d)) = {d} \cup ToSet(Lineage(Super(d)))
          BY <1>1, <4>1, Lineages
        <5>2. Super(d) = c => c \in ToSet(Lineage(Super(d)))
          BY <5>1, Lineages
        <5>. QED  BY <5>1, <5>2
      <4>. QED  BY <4>1
    <3>. HIDE DEF s, below
    <3>3. high \in [Known \cup {c} -> 0 .. N + N + 1]
      <4>1. base[s] \in 0 .. N /\ \A d \in Known \cup {c} : base[d] \in 0 .. N
        BY <2>1, <3>1
      <4>2. \A d \in Known \cup {c} : base[d] + base[s] + 1 \in 0 .. N + N + 1 /\ base[d] \in 0 .. N + N + 1
        BY <1>1, <4>1
      <4>. QED  BY <4>2
    <3>4. \A d \in Known \cup {c} : high[d] = IF d \in below THEN base[d] + base[s] + 1 ELSE base[d]
      OBVIOUS
    <3>. HIDE DEF high
    <3>5. high[s] < high[c]
      <4>1. base[s] \in Nat /\ base[c] \in Nat
        BY <2>1, <3>1
      <4>. QED  BY <3>1, <3>4, <4>1
    <3>6. ASSUME NEW d \in Known \ {c}, Super(d) # NULL
          PROVE  high[Super(d)] < high[d]
      <4>1. Super(d) \in Known /\ base[Super(d)] < base[d] /\ base[d] \in Nat /\ base[Super(d)] \in Nat
            /\ base[s] \in Nat
        BY <1>1, <2>1, <3>1, <3>6
      <4>2. d \in below <=> Super(d) \in below
        BY <3>2, <3>6
      <4>. QED  BY <3>4, <4>1, <4>2
    <3>7. \A d \in Known' : Super(d)' # NULL => high[Super(d)'] < high[d]
      BY <2>2, <3>5, <3>6 DEF s
    <3>8. PICK h : h = high
      OBVIOUS
    <3>9. Ranked(N + N + 1, h)'
      BY <1>1, <2>2, <3>3, <3>7, <3>8 DEF Ranked
    <3>. QED  BY <3>9 DEF LinesEnd
  <2>. QED  BY <1>3, <2>3, <2>4
<1>. QED  BY <1>2, <1>3, LineCases

-----------------------------------------------------------------------------
(* Calls. The method that a lookup finds expects a block exactly when it   *)
(* yields and the class it is found in wrote it.                           *)

Args         == Nat \cup {NULL, BLOCK}
Arguments(n) == [i \in 1 .. Arity[n] |-> i]
Parameter(n, call) == IF Len(call.argv) > Arity[n] THEN call.argv[Arity[n] + 1] ELSE GARBAGE

NearestTo(c, n) == SelectInSeq(Lineage(c), LAMBDA d : InList(class[d].methods)[n] # NULL)
WroteFor(c, n)  == LET d == Lineage(c)[NearestTo(c, n)]
                   IN  NearestTo(c, n) > 0 /\ InList(class[d].methods)[n].owner = d

Expects(c, n) ==
  LET m == ds_lookup_method_from(c, n)
  IN  \/ m = NULL /\ NearestTo(c, n) = 0
      \/ /\ m \in Methods /\ m # NULL /\ NearestTo(c, n) > 0
         /\ m.expects_block => WroteFor(c, n)
         /\ m.func.yields => (m.expects_block <=> WroteFor(c, n))

LEMMA LookupExpects ==
  ASSUME TypeInv, LinesEnd, MethodsInv, NEW c \in Known, NEW n \in Selectors
  PROVE  Expects(c, n)
<1>. DEFINE line == Lineage(c)
            P(d) == InList(class[d].methods)[n] # NULL
            Q(d) == Named(class[d].methods, n) > 0
            I == {i \in 1 .. Len(line) : P(line[i])}
            J == {i \in 1 .. Len(line) : Q(line[i])}
            i == First(I)
            d == line[i]
            k == Named(class[d].methods, n)
            m == class[d].methods[k]
<1>1. line \in Seq(Known) /\ Len(line) \in Nat /\ \A e \in 1 .. Len(line) : line[e] \in Known
  BY Lineages, Elements
<1>2. ASSUME NEW e \in Known
      PROVE  LET l == class[e].methods
             IN  \/ Named(l, n) = 0 /\ InList(l)[n] = NULL
                 \/ /\ Named(l, n) \in 1 .. Len(l) /\ Named(l, n) > 0
                    /\ l[Named(l, n)] \in Methods /\ l[Named(l, n)] \in ToSet(l)
                    /\ InList(l)[n] = l[Named(l, n)].func /\ InList(l)[n] # NULL
  <2>. DEFINE l == class[e].methods
              f == First(Hits(l, Called(Methods, n)))
  <2>1. l \in Seq(Methods)
    BY DEF TypeInv, ClassRecord
  <2>2. Named(l, n) = f
    BY <2>1, NamedIsHits
  <2>3. InList(l)[n] = At(l, Named(l, n))
    BY DEF InList
  <2>. HIDE DEF l
  <2>4. f # 0 => f \in 1 .. Len(l) /\ l[f] \in ToSet(l)
    BY <2>1, GotSearch
  <2>5. \A x \in 1 .. Len(l) : x > 0 /\ l[x] \in Methods
    BY <2>1, Elements
  <2>6. \A x \in Methods : x.func # NULL
    BY NullAssumption DEF Methods
  <2>. HIDE DEF f
  <2>. QED  BY <2>2, <2>3, <2>4, <2>5, <2>6 DEF At, l
<1>3. \A e \in Known : P(e) <=> Q(e)
  BY <1>2
<1>. HIDE DEF line
<1>4. I = J
  BY <1>1, <1>3
<1>5. NearestTo(c, n) = i
  BY DEF NearestTo, SelectInSeq, First, line
<1>6. ds_lookup_method_from(c, n) = IF First(J) = 0 THEN NULL
                                    ELSE class[line[First(J)]].methods[Named(class[line[First(J)]].methods, n)]
  BY DEF ds_lookup_method_from, SelectInSeq, First, line
<1>7. ds_lookup_method_from(c, n) = IF i = 0 THEN NULL ELSE m
  BY <1>4, <1>6
<1>8. i = 0 \/ (i \in 1 .. Len(line) /\ P(line[i]) /\ i > 0)
  <2>1. I \subseteq 1 .. Len(line)
    OBVIOUS
  <2>2. i = 0 \/ i \in I
    <3>. HIDE DEF I
    <3>. QED  BY <1>1, <2>1, FirstProperties
  <2>3. \A j \in I : j \in 1 .. Len(line) /\ P(line[j]) /\ j > 0
    OBVIOUS
  <2>. HIDE DEF I, P
  <2>. QED  BY <2>2, <2>3
<1>. HIDE DEF i
<1>9. CASE i = 0
  BY <1>5, <1>7, <1>9 DEF Expects
<1>10. CASE i # 0
  <2>1. d \in Known /\ P(d)
    BY <1>1, <1>8, <1>10
  <2>. HIDE DEF d
  <2>2. m \in Methods /\ m \in ToSet(class[d].methods) /\ InList(class[d].methods)[n] = m.func
    BY <1>2, <2>1
  <2>3. m.expects_block = (m.func.yields /\ m.func.owner = d)
    BY <2>1, <2>2 DEF MethodsInv, ListedIn
  <2>4. m # NULL /\ m.expects_block \in BOOLEAN /\ m.func.yields \in BOOLEAN
    BY <2>2, NullAssumption DEF Methods, Functions
  <2>5. WroteFor(c, n) <=> m.func.owner = d
    <3>. HIDE DEF m
    <3>. QED  BY <1>5, <1>8, <1>10, <2>2 DEF WroteFor, d, line
  <2>. HIDE DEF m
  <2>6. ds_lookup_method_from(c, n) = m
    BY <1>7, <1>10 DEF d, m
  <2>. QED  BY <1>5, <1>8, <1>10, <2>2, <2>3, <2>4, <2>5, <2>6 DEF Expects
<1>. QED  BY <1>9, <1>10

LEMMA ArgumentsProperties ==
  ASSUME NEW n \in Selectors
  PROVE  Arguments(n) \in Seq(Args) /\ Len(Arguments(n)) = Arity[n] /\ Arity[n] \in Nat
<1>1. Arity[n] \in Nat /\ Arguments(n) \in [1 .. Arity[n] -> Args]
  BY ObjectsAssumption DEF Arguments, Args
<1>. QED  BY <1>1, SegmentIsSeq

LEMMA CallProperties ==
  ASSUME NEW f \in Functions, NEW argv \in Seq(Args)
  PROVE  \/ ds_call_method(f, argv) = NULL /\ Len(argv) > 7
         \/ /\ ds_call_method(f, argv) # NULL
            /\ ds_call_method(f, argv).func = f /\ ds_call_method(f, argv).argv = argv
<1>1. [func |-> f, argv |-> argv] # NULL
  BY NullAssumption DEF Args
<1>. QED  BY <1>1 DEF ds_call_method

(* What a call of a function that yields passes: what comes after the      *)
(* arguments of the name, if anything does.                                *)
LEMMA Parameters ==
  ASSUME NEW n \in Selectors
  PROVE  /\ \A call : call.argv = Arguments(n) => Parameter(n, call) = GARBAGE
         /\ \A x \in {NULL, BLOCK} :
              /\ Append(Arguments(n), x) \in Seq(Args) /\ Len(Append(Arguments(n), x)) = Arity[n] + 1
              /\ \A call : call.argv = Append(Arguments(n), x) => Parameter(n, call) = x
              /\ \A y \in {NULL, BLOCK} :
                   LET argv == Append(Append(Arguments(n), x), y)
                   IN  /\ argv \in Seq(Args) /\ Len(argv) = Arity[n] + 2
                       /\ \A call : call.argv = argv => Parameter(n, call) = x
<1>. DEFINE a == Arguments(n)
            k == Arity[n]
<1>1. a \in Seq(Args) /\ Len(a) = k /\ k \in Nat /\ {NULL, BLOCK} \subseteq Args
  BY ArgumentsProperties DEF Args
<1>. HIDE DEF a, k
<1>2. \A call : call.argv = a => Parameter(n, call) = GARBAGE
  BY <1>1 DEF Parameter, k
<1>3. ASSUME NEW x \in {NULL, BLOCK}
      PROVE  /\ Append(a, x) \in Seq(Args) /\ Len(Append(a, x)) = k + 1 /\ Append(a, x)[k + 1] = x
             /\ \A y \in {NULL, BLOCK} :
                  /\ Append(Append(a, x), y) \in Seq(Args) /\ Len(Append(Append(a, x), y)) = k + 2
                  /\ Append(Append(a, x), y)[k + 1] = x
  <2>. DEFINE b == Append(a, x)
  <2>1. b \in Seq(Args) /\ Len(b) = k + 1 /\ b[k + 1] = x
    BY <1>1, AppendProperties
  <2>. HIDE DEF b
  <2>2. ASSUME NEW y \in {NULL, BLOCK}
        PROVE  Append(b, y) \in Seq(Args) /\ Len(Append(b, y)) = k + 2 /\ Append(b, y)[k + 1] = x
    <3>1. k + 1 \in 1 .. Len(b)
      BY <1>1, <2>1
    <3>. QED  BY <1>1, <2>1, <3>1, AppendProperties
  <2>. QED  BY <2>1, <2>2 DEF b
<1>4. ASSUME NEW x, NEW argv, Len(argv) > k, argv[k + 1] = x, NEW call, call.argv = argv
      PROVE  Parameter(n, call) = x
  BY <1>4 DEF Parameter, k
<1>5. k + 1 > k /\ k + 2 > k
  BY <1>1
<1>. QED  BY <1>2, <1>3, <1>4, <1>5 DEF a, k

One(p) == IF p THEN 1 ELSE 0

(* A call reached a function with those arguments if that yields, or none  *)
(* and there was none or there were too many.                              *)
Reaches(call, argv)  == call # NULL /\ (call.func.yields => call.argv = argv)
Misses(call, there, length) == call = NULL /\ (there => length > 7)

LEMMA ExpectingCalls ==
  ASSUME TypeInv, LinesEnd, MethodsInv, NEW c \in Known, NEW n \in Selectors,
         NEW argv \in Seq(Args), NEW block \in {NULL, BLOCK}
  PROVE  LET call == CallExpecting(ds_lookup_method_from(c, n), argv, block)
         IN  \/ Misses(call, NearestTo(c, n) > 0, Len(argv) + One(WroteFor(c, n)))
             \/ Reaches(call, IF WroteFor(c, n) THEN Append(argv, block) ELSE argv)
<1>. DEFINE m    == ds_lookup_method_from(c, n)
            call == CallExpecting(m, argv, block)
            av   == IF m.expects_block THEN Append(argv, block) ELSE argv
<1>1. Expects(c, n)
  BY LookupExpects
<1>2. CASE m = NULL /\ NearestTo(c, n) = 0
  BY <1>2 DEF CallExpecting, Misses
<1>3. CASE ~(m = NULL /\ NearestTo(c, n) = 0)
  <2>1. /\ m \in Methods /\ m # NULL
        /\ m.expects_block => WroteFor(c, n)
        /\ m.func.yields => (m.expects_block <=> WroteFor(c, n))
    BY <1>1, <1>3 DEF Expects
  <2>2. call = ds_call_method(m.func, av)
    BY <2>1 DEF CallExpecting
  <2>. HIDE DEF m
  <2>3. m.func \in Functions /\ m.expects_block \in BOOLEAN
    BY <2>1 DEF Methods
  <2>4. Append(argv, block) \in Seq(Args) /\ Len(Append(argv, block)) = Len(argv) + 1 /\ Len(argv) \in Nat
    <3>1. block \in Args
      BY DEF Args
    <3>. QED  BY <3>1, AppendProperties, LenProperties
  <2>5. av \in Seq(Args) /\ Len(av) <= Len(argv) + One(WroteFor(c, n)) /\ Len(av) \in Nat
    BY <2>1, <2>3, <2>4 DEF One
  <2>6. m.func.yields => av = IF WroteFor(c, n) THEN Append(argv, block) ELSE argv
    BY <2>1
  <2>. HIDE DEF av
  <2>7. \/ call = NULL /\ Len(av) > 7
        \/ call # NULL /\ call.func = m.func /\ call.argv = av
    BY <2>2, <2>3, <2>5, CallProperties
  <2>. HIDE DEF call
  <2>8. CASE call = NULL /\ Len(av) > 7
    <3>1. Len(argv) + One(WroteFor(c, n)) > 7
      BY <2>4, <2>5, <2>8 DEF One
    <3>. QED  BY <2>8, <3>1 DEF Misses, call, m
  <2>9. CASE call # NULL /\ call.func = m.func /\ call.argv = av
    BY <2>6, <2>9 DEF Reaches, call, m
  <2>. QED  BY <2>7, <2>8, <2>9
<1>. QED  BY <1>2, <1>3

LEMMA OwnCalls ==
  ASSUME TypeInv, NEW box, NEW n, Own(box, n) > 0, NEW argv \in Seq(Args)
  PROVE  LET call == ds_call_method(singleton_methods[Own(box, n)].func, argv)
         IN  Misses(call, TRUE, Len(argv)) \/ Reaches(call, argv)
<1>. DEFINE i == Own(box, n)
            f == singleton_methods[i].func
<1>1. singleton_methods \in Seq(SingletonRecord)
  BY DEF TypeInv
<1>2. i \in 1 .. Len(singleton_methods)
  <2>1. i = First(Hits(singleton_methods, OwnBy(SingletonRecord, box, n)))
    BY <1>1, OwnIsHits
  <2>2. First(Hits(singleton_methods, OwnBy(SingletonRecord, box, n))) # 0 =>
          First(Hits(singleton_methods, OwnBy(SingletonRecord, box, n))) \in 1 .. Len(singleton_methods)
    BY <1>1, GotSearch
  <2>3. i # 0
    <3>. HIDE DEF i
    <3>. QED  BY DEF i
  <2>. HIDE DEF i
  <2>. QED  BY <2>1, <2>2, <2>3
<1>3. f \in Functions
  <2>1. singleton_methods[i] \in SingletonRecord
    <3>. HIDE DEF i
    <3>. QED  BY <1>1, <1>2, Elements
  <2>. QED  BY <2>1 DEF SingletonRecord
<1>. HIDE DEF f
<1>4. \/ ds_call_method(f, argv) = NULL /\ Len(argv) > 7
      \/ /\ ds_call_method(f, argv) # NULL
         /\ ds_call_method(f, argv).func = f /\ ds_call_method(f, argv).argv = argv
  BY <1>3, CallProperties
<1>. QED  BY <1>4 DEF Misses, Reaches, f

LEMMA ReceiversHaveClasses == TypeInv => \A box \in Receivers : ClassOf(box) \in Known
<1>. SUFFICES ASSUME TypeInv, NEW box \in Receivers PROVE ClassOf(box) \in Known
  OBVIOUS
<1>1. ASSUME NEW c \in Known, box = ClassBox(c) PROVE ClassOf(box) \in Known
  BY <1>1 DEF ClassBox, ClassOf
<1>2. ASSUME NEW i \in DOMAIN instances, box = InstanceBox(i) PROVE ClassOf(box) \in Known
  <2>1. instances[i] \in Known
    BY Elements DEF TypeInv
  <2>. QED  BY <1>2, <2>1 DEF InstanceBox, ClassOf
<1>. QED  BY <1>1, <1>2 DEF Receivers

(* What is passed in a call of a method of the name n. *)
Passes(n, call, x) == call # NULL /\ call.func.yields => Parameter(n, call) = x

LEMMA ReachesPasses ==
  ASSUME NEW n \in Selectors, NEW call
  PROVE  /\ call = NULL => \A x : Passes(n, call, x)
         /\ Reaches(call, Arguments(n)) => Passes(n, call, GARBAGE)
         /\ \A x \in {NULL, BLOCK} : Reaches(call, Append(Arguments(n), x)) => Passes(n, call, x)
         /\ \A x, y \in {NULL, BLOCK} : Reaches(call, Append(Append(Arguments(n), x), y)) => Passes(n, call, x)
BY Parameters DEF Reaches, Passes

(* With the block passed last or aside, as the compiler does. *)
LEMMA ReceiverCalls ==
  ASSUME TypeInv, LinesEnd, MethodsInv, NEW box \in Receivers, NEW n \in Selectors, NEW block \in {NULL, BLOCK}
  PROVE  LET call   == emit_receiver_call(box, n, Arguments(n), block)
             own    == Own(box, n) > 0
             packed == block # NULL /\ n \notin Loops
             told   == ~own /\ WroteFor(ClassOf(box), n)
         IN  /\ Passes(n, call, IF packed \/ told THEN block ELSE GARBAGE)
             /\ call = NULL /\ (own \/ NearestTo(ClassOf(box), n) > 0) => Arity[n] + One(packed) + One(told) > 7
<1>. DEFINE a      == Arguments(n)
            c      == ClassOf(box)
            packed == block # NULL /\ n \notin Loops
            av     == IF packed THEN Append(a, block) ELSE a
            aside  == IF n \in Loops THEN block ELSE NULL
            call   == emit_receiver_call(box, n, a, block)
            wrote  == WroteFor(c, n)
            near   == NearestTo(c, n) > 0
<1>1. c \in Known
  BY ReceiversHaveClasses
<1>2. call = dragonstone_runtime_method_invoke(box, n, av, aside)
  BY DEF emit_receiver_call
<1>3. a \in Seq(Args) /\ Len(a) = Arity[n] /\ Arity[n] \in Nat
      /\ Append(a, block) \in Seq(Args) /\ Len(Append(a, block)) = Arity[n] + 1
  BY ArgumentsProperties, Parameters
<1>4. av \in Seq(Args) /\ Len(av) = Arity[n] + One(packed) /\ aside \in {NULL, BLOCK}
      /\ (~packed => aside = block)
  BY <1>3 DEF One
<1>5. CASE Own(box, n) > 0
  <2>1. call = ds_call_method(singleton_methods[Own(box, n)].func, av)
    BY <1>2, <1>5 DEF dragonstone_runtime_method_invoke
  <2>. HIDE DEF av, call
  <2>2. Misses(call, TRUE, Len(av)) \/ Reaches(call, av)
    BY <1>4, <1>5, <2>1, OwnCalls
  <2>3. CASE Misses(call, TRUE, Len(av))
    <3>1. call = NULL /\ Arity[n] + One(packed) + 0 > 7
      BY <1>3, <1>4, <2>3 DEF Misses, One
    <3>. QED  BY <1>5, <3>1, ReachesPasses DEF call, One
  <2>4. CASE Reaches(call, av)
    <3>1. Passes(n, call, IF packed THEN block ELSE GARBAGE) /\ call # NULL
      BY <2>4, ReachesPasses DEF av, Reaches
    <3>. QED  BY <1>5, <3>1 DEF call
  <2>. QED  BY <2>2, <2>3, <2>4
<1>6. CASE ~(Own(box, n) > 0)
  <2>1. call = CallExpecting(ds_lookup_method_from(c, n), av, aside)
    BY <1>2, <1>6 DEF dragonstone_runtime_method_invoke
  <2>. HIDE DEF av, aside, call
  <2>2. \/ Misses(call, near, Len(av) + One(wrote))
        \/ Reaches(call, IF wrote THEN Append(av, aside) ELSE av)
    <3>. HIDE DEF c
    <3>. QED  BY <1>1, <1>4, <2>1, ExpectingCalls
  <2>3. CASE Misses(call, near, Len(av) + One(wrote))
    <3>1. call = NULL /\ (near => Arity[n] + One(packed) + One(wrote) > 7)
      BY <1>4, <2>3 DEF Misses
    <3>. QED  BY <1>6, <3>1, ReachesPasses DEF call, One
  <2>4. CASE Reaches(call, IF wrote THEN Append(av, aside) ELSE av)
    <3>1. CASE packed /\ wrote
      <4>1. Reaches(call, Append(Append(a, block), aside))
        BY <2>4, <3>1 DEF av
      <4>2. Passes(n, call, block) /\ call # NULL
        BY <1>4, <4>1, ReachesPasses DEF Reaches
      <4>. QED  BY <1>6, <3>1, <4>2 DEF call
    <3>2. CASE packed /\ ~wrote
      <4>1. Passes(n, call, block) /\ call # NULL
        BY <2>4, <3>2, ReachesPasses DEF av, Reaches
      <4>. QED  BY <1>6, <3>2, <4>1 DEF call
    <3>3. CASE ~packed /\ wrote
      <4>1. Reaches(call, Append(a, block))
        BY <1>4, <2>4, <3>3 DEF av
      <4>2. Passes(n, call, block) /\ call # NULL
        BY <4>1, ReachesPasses DEF Reaches
      <4>. QED  BY <1>6, <3>3, <4>2 DEF call
    <3>4. CASE ~packed /\ ~wrote
      <4>1. Passes(n, call, GARBAGE) /\ call # NULL
        BY <2>4, <3>4, ReachesPasses DEF av, Reaches
      <4>. QED  BY <1>6, <3>4, <4>1 DEF call
    <3>. QED  BY <3>1, <3>2, <3>3, <3>4
  <2>. QED  BY <2>2, <2>3, <2>4
<1>. QED  BY <1>5, <1>6

(* To super, to an operator, and to initialize. *)
LEMMA ClassCalls ==
  ASSUME TypeInv, LinesEnd, MethodsInv, NEW c \in Known, NEW n \in Selectors, NEW block \in {NULL, BLOCK}
  PROVE  Passes(n, CallExpecting(ds_lookup_method_from(c, n), Arguments(n), block),
                IF WroteFor(c, n) THEN block ELSE GARBAGE)
<1>. DEFINE a    == Arguments(n)
            call == CallExpecting(ds_lookup_method_from(c, n), a, block)
<1>1. a \in Seq(Args)
  BY ArgumentsProperties
<1>2. \/ Misses(call, NearestTo(c, n) > 0, Len(a) + One(WroteFor(c, n)))
      \/ Reaches(call, IF WroteFor(c, n) THEN Append(a, block) ELSE a)
  BY <1>1, ExpectingCalls
<1>. HIDE DEF call
<1>3. Passes(n, call, IF WroteFor(c, n) THEN block ELSE GARBAGE)
  BY <1>2, ReachesPasses DEF Misses
<1>. QED  BY <1>3 DEF call

LEMMA InitializeCalls ==
  ASSUME TypeInv, LinesEnd, MethodsInv, NEW c \in Known, "initialize" \in Selectors
  PROVE  Passes("initialize", Initialize(c, Arguments("initialize")), GARBAGE)
<1>. DEFINE n    == "initialize"
            m    == ds_lookup_method_from(c, n)
            call == Initialize(c, Arguments(n))
<1>1. Expects(c, n)
  BY LookupExpects
<1>2. m = NULL \/ (m # NULL /\ m.func \in Functions)
  BY <1>1 DEF Expects, Methods
<1>3. call = IF m = NULL THEN NULL ELSE ds_call_method(m.func, Arguments(n))
  BY DEF Initialize
<1>4. Arguments(n) \in Seq(Args)
  BY ArgumentsProperties
<1>. HIDE DEF m, call
<1>5. call = NULL \/ Reaches(call, Arguments(n))
  BY <1>2, <1>3, <1>4, CallProperties DEF Reaches
<1>. HIDE DEF n
<1>6. Passes(n, call, GARBAGE)
  BY <1>5, ReachesPasses DEF n
<1>. QED  BY <1>6 DEF call, n

LEMMA CallsPass ==
  ASSUME TypeInv, LinesEnd, MethodsInv
  PROVE  BlocksArrive
<1>. SUFFICES ASSUME NEW n \in Selectors, NEW block \in {NULL, BLOCK}
              PROVE
    LET argv == [i \in 1 .. Arity[n] |-> i]
        Nearest(c) == SelectInSeq(Lineage(c), LAMBDA d : InList(class[d].methods)[n] # NULL)
        Wrote(c)   == LET d == Lineage(c)[Nearest(c)]
                      IN  Nearest(c) > 0 /\ InList(class[d].methods)[n].owner = d
        Passed(call, passes) ==
          call # NULL /\ call.func.yields => Parameter(n, call) = IF passes THEN block ELSE GARBAGE
    IN  /\ \A box \in Receivers :
             LET call == emit_receiver_call(box, n, argv, block)
                 own    == Own(box, n) > 0
                 packed == block # NULL /\ n \notin Loops
                 told   == ~own /\ Wrote(ClassOf(box))
             IN  /\ Passed(call, packed \/ told)
                 /\ call = NULL /\ (own \/ Nearest(ClassOf(box)) > 0) =>
                      Arity[n] + (IF packed THEN 1 ELSE 0) + (IF told THEN 1 ELSE 0) > 7
                 /\ block = NULL => Passed(ds_try_invoke_operator(box, n, argv), Wrote(ClassOf(box)))
        /\ \A c \in Known :
             /\ Passed(dragonstone_runtime_super_invoke(c, n, argv, block), Wrote(class[c].superclass))
             /\ n = "initialize" => Passed(Initialize(c, argv), FALSE)
  BY Zenon DEF BlocksArrive, Parameter
<1>. DEFINE a == Arguments(n)
<1>1. ASSUME NEW box \in Receivers
      PROVE  LET call   == emit_receiver_call(box, n, a, block)
                 own    == Own(box, n) > 0
                 packed == block # NULL /\ n \notin Loops
                 told   == ~own /\ WroteFor(ClassOf(box), n)
             IN  /\ Passes(n, call, IF packed \/ told THEN block ELSE GARBAGE)
                 /\ call = NULL /\ (own \/ NearestTo(ClassOf(box), n) > 0) =>
                      Arity[n] + (IF packed THEN 1 ELSE 0) + (IF told THEN 1 ELSE 0) > 7
                 /\ block = NULL => Passes(n, ds_try_invoke_operator(box, n, a),
                                           IF WroteFor(ClassOf(box), n) THEN block ELSE GARBAGE)
  <2>1. ASSUME block = NULL
        PROVE  Passes(n, ds_try_invoke_operator(box, n, a), IF WroteFor(ClassOf(box), n) THEN block ELSE GARBAGE)
    <3>1. ClassOf(box) \in Known
      BY ReceiversHaveClasses
    <3>2. Passes(n, CallExpecting(ds_lookup_method_from(ClassOf(box), n), a, block),
                 IF WroteFor(ClassOf(box), n) THEN block ELSE GARBAGE)
      BY <3>1, ClassCalls
    <3>. QED  BY <2>1, <3>2 DEF ds_try_invoke_operator
  <2>. QED  BY <2>1, ReceiverCalls, Zenon DEF One
<1>2. ASSUME NEW c \in Known
      PROVE  /\ Passes(n, dragonstone_runtime_super_invoke(c, n, a, block),
                       IF WroteFor(class[c].superclass, n) THEN block ELSE GARBAGE)
             /\ n = "initialize" => Passes(n, Initialize(c, a), GARBAGE)
  <2>. DEFINE call == dragonstone_runtime_super_invoke(c, n, a, block)
              x    == IF WroteFor(class[c].superclass, n) THEN block ELSE GARBAGE
  <2>1. ASSUME class[c].superclass = NULL
        PROVE  Passes(n, call, x)
    BY <2>1 DEF dragonstone_runtime_super_invoke, Passes
  <2>2. ASSUME class[c].superclass # NULL
        PROVE  Passes(n, call, x)
    <3>1. class[c].superclass \in Known
      BY <2>2 DEF TypeInv
    <3>2. Passes(n, CallExpecting(ds_lookup_method_from(class[c].superclass, n), a, block), x)
      BY <3>1, ClassCalls
    <3>. QED  BY <2>2, <3>2 DEF dragonstone_runtime_super_invoke
  <2>3. n = "initialize" => Passes(n, Initialize(c, a), GARBAGE)
    BY InitializeCalls
  <2>. QED  BY <2>1, <2>2, <2>3
<1>. QED  BY <1>1, <1>2, Zenon DEF Arguments, Passes, WroteFor, NearestTo

(* A function that yields gets the block of its call where the block is    *)
(* passed last, or where the nearest class with the method wrote it, and   *)
(* otherwise what nobody passed (llvm_runtime.c:1247, :1512, :1521, :1923, *)
(* :2027, :2775).                                                          *)
THEOREM BlocksAlwaysArrive == Spec => []BlocksArrive
<1>1. Init => TypeInv /\ LinesEnd /\ MethodsInv
  BY TypeInitially, LinesInitially, MethodsInitially
<1>2. TypeInv /\ LinesEnd /\ MethodsInv /\ [Next]_vars => TypeInv' /\ LinesEnd' /\ MethodsInv'
  BY TypeStep, LinesStep, MethodsStep
<1>3. TypeInv /\ LinesEnd /\ MethodsInv => BlocksArrive
  BY CallsPass
<1>. QED  BY <1>1, <1>2, <1>3, PTL DEF Spec
=============================================================================
