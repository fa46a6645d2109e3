------------------------ MODULE LlvmCollectionsProofs ------------------------
(***************************************************************************)
(* Proofs about the collections of compiled programs and the loops over    *)
(* them (LlvmCollections), for collections of every size, any values and   *)
(* loops at any depth: which items a loop gives its block when the block   *)
(* changes the collection, that no key is stored twice, and that a store   *)
(* changes what it names and nothing else.                                 *)
(***************************************************************************)
EXTENDS LlvmCollections, LlvmOperatorsProofs

-----------------------------------------------------------------------------
(* Lemmas about numbers and sequences. *)

LEMMA FirstProperties ==
  ASSUME NEW T, T \subseteq Nat, T # {}
  PROVE  First(T) \in T /\ \A n \in T : First(T) <= n
<1>1. PICK m \in T : \A n \in T : m <= n
  BY LeastNatural
<1>. QED  BY <1>1 DEF First

LEMMA SegmentIsSeq ==
  ASSUME NEW S, NEW n \in Nat, NEW f \in [1 .. n -> S]
  PROVE  f \in Seq(S) /\ Len(f) = n
<1>1. f \in Seq(S)
  BY SeqDef
<1>. QED  BY <1>1, LenProperties

LEMMA Pushed ==
  ASSUME NEW S, NEW s \in Seq(S), NEW e \in S
  PROVE  /\ Append(s, e) \in Seq(S)
         /\ Len(s) \in Nat
         /\ Len(Append(s, e)) = Len(s) + 1
         /\ \A i \in 1 .. Len(s) : Append(s, e)[i] = s[i]
         /\ Append(s, e)[Len(s) + 1] = e
BY AppendProperties, LenProperties

LEMMA Shortened ==
  ASSUME NEW S, NEW s \in Seq(S), NEW n \in 0 .. Len(s)
  PROVE  /\ SubSeq(s, 1, n) \in Seq(S)
         /\ Len(s) \in Nat
         /\ Len(SubSeq(s, 1, n)) = n
         /\ \A i \in 1 .. n : SubSeq(s, 1, n)[i] = s[i]
<1>1. Len(s) \in Nat /\ n \in Nat
  BY LenProperties
<1>2. /\ SubSeq(s, 1, n) \in Seq(S)
      /\ Len(SubSeq(s, 1, n)) = IF 1 <= n THEN n - 1 + 1 ELSE 0
      /\ \A i \in 1 .. n - 1 + 1 : SubSeq(s, 1, n)[i] = s[1 + i - 1]
  <2>1. \A i \in 1 .. n : s[i] \in S
    BY <1>1, ElementOfSeq
  <2>. QED  BY <1>1, <2>1, SubSeqProperties
<1>3. (IF 1 <= n THEN n - 1 + 1 ELSE 0) = n
  BY <1>1
<1>4. \A i \in 1 .. n : i \in 1 .. n - 1 + 1 /\ 1 + i - 1 = i
  BY <1>1
<1>. QED  BY <1>1, <1>2, <1>3, <1>4

LEMMA Popped ==
  ASSUME NEW S, NEW s \in Seq(S), s # <<>>
  PROVE  /\ Front(s) \in Seq(S)
         /\ Len(s) \in Nat \ {0}
         /\ Len(Front(s)) = Len(s) - 1
         /\ \A i \in 1 .. Len(s) - 1 : Front(s)[i] = s[i]
         /\ s[Len(s)] \in S
<1>1. Len(s) \in Nat \ {0}
  BY LenProperties, EmptySeq
<1>2. Len(s) - 1 \in 0 .. Len(s) /\ Len(s) \in 1 .. Len(s)
  BY <1>1
<1>3. s[Len(s)] \in S
  BY <1>2, ElementOfSeq
<1>. QED  BY <1>1, <1>2, <1>3, Shortened DEF Front

(* The last element is replaced. *)
LEMMA LastReplaced ==
  ASSUME NEW S, NEW s \in Seq(S), s # <<>>, NEW e \in S
  PROVE  /\ Append(Front(s), e) \in Seq(S)
         /\ Len(Append(Front(s), e)) = Len(s)
         /\ \A i \in 1 .. Len(s) - 1 : Append(Front(s), e)[i] = s[i]
         /\ Append(Front(s), e)[Len(s)] = e
<1>. DEFINE f == Front(s)
            n == Len(s)
<1>1. f \in Seq(S) /\ Len(f) = n - 1 /\ n \in Nat \ {0} /\ \A i \in 1 .. n - 1 : f[i] = s[i]
  BY Popped
<1>. HIDE DEF f, n
<1>2. /\ Append(f, e) \in Seq(S)
      /\ Len(Append(f, e)) = Len(f) + 1
      /\ \A i \in 1 .. Len(f) : Append(f, e)[i] = f[i]
      /\ Append(f, e)[Len(f) + 1] = e
  BY <1>1, Pushed
<1>3. Len(f) + 1 = n
  BY <1>1
<1>. QED  BY <1>1, <1>2, <1>3 DEF f, n

-----------------------------------------------------------------------------
(* What is stored in a map, and in an array or a bag. *)
Entries == [key : Keys, value : Items]
Plain   == Items \cup Keys \cup {NULL}

(* What a loop may read. *)
Seen == Plain \cup Entries \cup {GARBAGE}

Stored(kind) == IF kind = "MAP" THEN Entries ELSE Plain

Objects(kind) == [kind : {kind}, slots : Seq(Stored(kind)), length : Nat]

(* A bag and a map have no slots to spare: only pop leaves any. *)
Sound(o) ==
  /\ o.kind \in {"ARRAY", "BAG", "MAP"}
  /\ o \in Objects(o.kind)
  /\ o.length <= Len(o.slots)
  /\ o.kind # "ARRAY" => o.length = Len(o.slots)

LoopRecord ==
  [op : {"each", "select", "inject", "until", "map"}, argc : {0, 1}, memo : Answers \cup Seen,
   i : Nat \ {0}, at : {"loop", "block"}, buffer : Nat, out : Seq(Seen \cup Answers),
   asked : Seq(Seen), answers : Seq(Answers), start : Seq(Seen), changed : BOOLEAN,
   grown : Nat, popped : BOOLEAN]

CollectionsTypeOK ==
  /\ Sound(object)
  /\ loops \in Seq(LoopRecord)

-----------------------------------------------------------------------------
(* How far a loop over o has come: what its block was given are the items  *)
(* up to it, and what it has selected are some of them.                    *)

Room(o, loop) == IF loop.at = "block" THEN o.length ELSE o.length + 1

Given(loop) == IF loop.at = "block" THEN loop.i ELSE loop.i - 1

GivesAll(o, loop) ==
  loop.op \in {"each", "select", "map"} =>
    /\ Len(loop.asked) = Given(loop)
    /\ \A j \in 1 .. Given(loop) : KeyOf(o, loop.asked[j]) = KeyOf(o, o.slots[j])

SelectsSome(o, loop) ==
  loop.op = "select" =>
    /\ \A j \in 1 .. Len(loop.out) :
         \E k \in 1 .. loop.i - 1 : KeyOf(o, loop.out[j]) = KeyOf(o, o.slots[k])
    /\ DistinctKeys(o, loop.out)

Follows(o, loop) == loop.i <= Room(o, loop) /\ GivesAll(o, loop) /\ SelectsSome(o, loop)

(* Over what only grows, a loop comes by every item. *)
GrowingOK ==
  object.kind # "ARRAY" =>
    /\ DistinctKeys(object, object.slots)
    /\ \A n \in 1 .. Len(loops) : Follows(object, loops[n])

(* A loop comes no further than the collection has been long, and where    *)
(* nothing was popped, no further than it is now.                          *)
Reached(loop, length) == loop.i <= length + IF loop.at = "block" THEN 0 ELSE 1

Fits(o, loop) ==
  /\ Len(loop.out) < loop.i
  /\ o.length <= loop.buffer + loop.grown
  /\ Reached(loop, loop.buffer + loop.grown)
  /\ ~loop.popped => Reached(loop, o.length)
  /\ loop.op = "select" /\ ~loop.popped =>
       \A j \in 1 .. Len(loop.out) : loop.out[j] \in Stored(o.kind)

BoundsOK == \A n \in 1 .. Len(loops) : Fits(object, loops[n])

CollectionsInv == CollectionsTypeOK /\ GrowingOK /\ BoundsOK /\ AdditionsAreVisited

-----------------------------------------------------------------------------
(* The collection. *)

LEMMA SoundFacts ==
  ASSUME NEW o, Sound(o)
  PROVE  /\ o.slots \in Seq(Stored(o.kind))
         /\ Len(o.slots) \in Nat /\ o.length \in 0 .. Len(o.slots)
         /\ \A i \in 1 .. Len(o.slots) : o.slots[i] \in Stored(o.kind)
<1>1. o.slots \in Seq(Stored(o.kind)) /\ o.length \in Nat
  BY DEF Sound, Objects
<1>2. Len(o.slots) \in Nat /\ \A i \in 1 .. Len(o.slots) : o.slots[i] \in Stored(o.kind)
  BY <1>1, LenProperties, ElementOfSeq
<1>. QED  BY <1>1, <1>2 DEF Sound

LEMMA CollectionSound ==
  ASSUME NEW kind \in {"ARRAY", "BAG", "MAP"}, NEW s \in Seq(Stored(kind))
  PROVE  /\ Sound(Collection(kind, s))
         /\ Collection(kind, s).kind = kind
         /\ Collection(kind, s).slots = s
         /\ Collection(kind, s).length = Len(s)
BY LenProperties DEF Collection, Sound, Objects

LEMMA AppendedProperties ==
  ASSUME NEW o, Sound(o), NEW x \in Stored(o.kind)
  PROVE  /\ Sound(Appended(o, x))
         /\ Appended(o, x).kind = o.kind
         /\ Appended(o, x).length = o.length + 1
         /\ Appended(o, x).length = Len(Appended(o, x).slots)
         /\ \A i \in 1 .. o.length : Appended(o, x).slots[i] = o.slots[i]
         /\ Appended(o, x).slots[o.length + 1] = x
<1>. DEFINE S == Stored(o.kind)
            c == Contents(o)
<1>1. o.slots \in Seq(S) /\ o.length \in 0 .. Len(o.slots) /\ o.kind \in {"ARRAY", "BAG", "MAP"}
  BY SoundFacts DEF Sound
<1>. HIDE DEF S
<1>2. c \in Seq(S) /\ Len(c) = o.length /\ \A i \in 1 .. o.length : c[i] = o.slots[i]
  BY <1>1, Shortened DEF Contents
<1>. HIDE DEF c
<1>3. /\ Append(c, x) \in Seq(S)
      /\ Len(Append(c, x)) = Len(c) + 1
      /\ \A i \in 1 .. Len(c) : Append(c, x)[i] = c[i]
      /\ Append(c, x)[Len(c) + 1] = x
  BY <1>2, Pushed DEF S
<1>. DEFINE a == Append(c, x)
<1>4. Appended(o, x) = Collection(o.kind, a)
  BY DEF Appended, c
<1>5. a \in Seq(Stored(o.kind))
  BY <1>3 DEF S
<1>6. /\ Len(a) = o.length + 1
      /\ \A i \in 1 .. o.length : a[i] = o.slots[i]
      /\ a[o.length + 1] = x
  BY <1>2, <1>3
<1>. HIDE DEF a
<1>7. /\ Sound(Collection(o.kind, a))
      /\ Collection(o.kind, a).kind = o.kind
      /\ Collection(o.kind, a).slots = a
      /\ Collection(o.kind, a).length = Len(a)
  BY <1>1, <1>5, CollectionSound
<1>. QED  BY <1>4, <1>6, <1>7

(* A collection that only grows, whose keys stay where they are. *)
KeysStay(o, new) ==
  /\ new.kind = o.kind
  /\ o.length <= new.length
  /\ \A i \in 1 .. o.length : KeyOf(new, new.slots[i]) = KeyOf(o, o.slots[i])
  /\ DistinctKeys(new, new.slots)

LEMMA SameIsSymmetric ==
  ASSUME NEW l, NEW r, case_compare(l, r)
  PROVE  case_compare(r, l)
BY DEF case_compare

LEMMA DistinctByIndex ==
  ASSUME NEW o, NEW S, NEW s \in Seq(S)
  PROVE  DistinctKeys(o, s) <=>
           \A i, k \in 1 .. Len(s) : i # k => ~case_compare(KeyOf(o, s[i]), KeyOf(o, s[k]))
BY LenProperties DEF DistinctKeys

(* An item is added whose key is that of no other. *)
LEMMA AppendedDistinct ==
  ASSUME NEW o, Sound(o), NEW x \in Stored(o.kind), o.kind # "ARRAY",
         DistinctKeys(o, o.slots),
         \A i \in 1 .. o.length : ~case_compare(KeyOf(o, o.slots[i]), KeyOf(o, x))
  PROVE  KeysStay(o, Appended(o, x))
<1>. DEFINE new == Appended(o, x)
            n == o.length
<1>1. /\ new.kind = o.kind /\ new.length = n + 1 /\ new.length = Len(new.slots)
      /\ \A i \in 1 .. n : new.slots[i] = o.slots[i]
      /\ new.slots[n + 1] = x
      /\ Sound(new)
  BY AppendedProperties
<1>2. n \in Nat /\ n = Len(o.slots) /\ o.slots \in Seq(Stored(o.kind))
  BY SoundFacts DEF Sound
<1>. HIDE DEF new, n
<1>3. new.slots \in Seq(Stored(new.kind))
  BY <1>1, SoundFacts
<1>4. \A y : KeyOf(new, y) = KeyOf(o, y)
  BY <1>1 DEF KeyOf, IsMap
<1>5. \A i, k \in 1 .. n : i # k => ~case_compare(KeyOf(o, o.slots[i]), KeyOf(o, o.slots[k]))
  BY <1>2, DistinctByIndex
<1>6. \A i \in 1 .. n : ~case_compare(KeyOf(o, o.slots[i]), KeyOf(o, x))
                        /\ ~case_compare(KeyOf(o, x), KeyOf(o, o.slots[i]))
  BY SameIsSymmetric DEF n
<1>7. ASSUME NEW i \in 1 .. n + 1, NEW k \in 1 .. n + 1, i # k
      PROVE  ~case_compare(KeyOf(new, new.slots[i]), KeyOf(new, new.slots[k]))
  <2>1. CASE i \in 1 .. n /\ k \in 1 .. n
    BY <1>1, <1>4, <1>5, <1>7, <2>1
  <2>2. CASE i \in 1 .. n /\ k = n + 1
    BY <1>1, <1>4, <1>6, <2>2
  <2>3. CASE i = n + 1 /\ k \in 1 .. n
    BY <1>1, <1>4, <1>6, <2>3
  <2>. QED  BY <1>2, <1>7, <2>1, <2>2, <2>3
<1>8. DistinctKeys(new, new.slots)
  <2>1. Len(new.slots) = n + 1
    BY <1>1
  <2>. QED  BY <1>3, <1>7, <2>1, DistinctByIndex
<1>9. \A i \in 1 .. n : KeyOf(new, new.slots[i]) = KeyOf(o, o.slots[i])
  BY <1>1, <1>4
<1>. QED  BY <1>1, <1>2, <1>8, <1>9 DEF KeysStay, new, n

LEMMA UnchangedStay ==
  ASSUME NEW o, Sound(o), DistinctKeys(o, o.slots)
  PROVE  KeysStay(o, o)
BY SoundFacts DEF KeysStay

LEMMA PushProperties ==
  ASSUME NEW o, Sound(o), o.kind = "ARRAY", NEW v \in Items
  PROVE  /\ Sound(dragonstone_runtime_array_push(o, v))
         /\ dragonstone_runtime_array_push(o, v).kind = o.kind
<1>1. v \in Stored(o.kind)
  BY DEF Stored, Plain
<1>. QED  BY <1>1, AppendedProperties DEF dragonstone_runtime_array_push

LEMMA PopProperties ==
  ASSUME NEW o, Sound(o), o.kind = "ARRAY"
  PROVE  Sound(array_pop(o)) /\ array_pop(o).kind = o.kind
<1>1. CASE o.length = 0
  BY <1>1 DEF array_pop
<1>2. CASE o.length # 0
  <2>1. /\ o \in [kind : {o.kind}, slots : Seq(Stored(o.kind)), length : Nat]
        /\ o.length \in 1 .. Len(o.slots) /\ Len(o.slots) \in Nat
    BY <1>2, SoundFacts DEF Sound, Objects
  <2>. DEFINE new == [o EXCEPT !.length = o.length - 1]
  <2>2. new.kind = o.kind /\ new.slots = o.slots /\ new.length = o.length - 1
    BY <2>1
  <2>3. new \in [kind : {o.kind}, slots : Seq(Stored(o.kind)), length : Nat]
    BY <2>1
  <2>4. array_pop(o) = new
    BY <1>2 DEF array_pop
  <2>. HIDE DEF new
  <2>. QED  BY <2>1, <2>2, <2>3, <2>4 DEF Sound, Objects
<1>. QED  BY <1>1, <1>2

LEMMA AddProperties ==
  ASSUME NEW o, Sound(o), o.kind = "BAG", NEW v \in Keys
  PROVE  /\ Sound(bag_add(o, v)) /\ bag_add(o, v).kind = o.kind
         /\ DistinctKeys(o, o.slots) => KeysStay(o, bag_add(o, v))
<1>1. v \in Stored(o.kind) /\ \A y : KeyOf(o, y) = y
  BY DEF Stored, Plain, KeyOf, IsMap
<1>2. CASE \E i \in 1 .. o.length : case_compare(o.slots[i], v)
  BY <1>2, UnchangedStay DEF bag_add
<1>3. CASE ~\E i \in 1 .. o.length : case_compare(o.slots[i], v)
  <2>1. bag_add(o, v) = Appended(o, v)
    BY <1>3 DEF bag_add
  <2>2. \A i \in 1 .. o.length : ~case_compare(KeyOf(o, o.slots[i]), KeyOf(o, v))
    BY <1>1, <1>3
  <2>. QED  BY <1>1, <2>1, <2>2, AppendedProperties, AppendedDistinct
<1>. QED  BY <1>2, <1>3

(* An assignment to a map: the entry is added, or its value is replaced. *)
LEMMA MapStored ==
  ASSUME NEW o, Sound(o), o.kind = "MAP", NEW index \in Keys, NEW v \in Items
  PROVE  LET new == dragonstone_runtime_index_set(o, index, v)
             found == EntriesOf(o, index)
         IN  \/ found = {} /\ new = Appended(o, Entry(index, v)) /\ Entry(index, v) \in Stored(o.kind)
             \/ /\ found # {} /\ First(found) \in found /\ \A i \in found : First(found) <= i
                /\ Sound(new) /\ new.kind = o.kind /\ new.length = o.length
                /\ Len(new.slots) = Len(o.slots)
                /\ \A i \in 1 .. o.length : new.slots[i].key = o.slots[i].key
                /\ \A i \in 1 .. o.length \ {First(found)} : new.slots[i] = o.slots[i]
                /\ new.slots[First(found)].value = v
<1>. DEFINE new == dragonstone_runtime_index_set(o, index, v)
            found == EntriesOf(o, index)
            f == First(found)
<1>1. CASE found = {}
  <2>1. new = Appended(o, Entry(index, v))
    BY <1>1 DEF dragonstone_runtime_index_set, IsMap
  <2>2. Entry(index, v) \in Stored(o.kind)
    BY DEF Entry, Stored, Entries
  <2>. QED  BY <1>1, <2>1, <2>2
<1>2. CASE found # {}
  <2>1. /\ o \in [kind : {"MAP"}, slots : Seq(Entries), length : Nat]
        /\ o.length = Len(o.slots)
        /\ \A i \in 1 .. o.length : o.slots[i] \in Entries
    BY SoundFacts DEF Sound, Objects, Stored
  <2>2. found \in SUBSET (1 .. o.length) /\ found \subseteq Nat
    BY <2>1 DEF EntriesOf
  <2>3. f \in found /\ \A i \in found : f <= i
    BY <1>2, <2>2, FirstProperties
  <2>4. f \in 1 .. Len(o.slots)
    BY <2>1, <2>2, <2>3
  <2>5. new = [o EXCEPT !.slots[f].value = v]
    BY <1>2 DEF dragonstone_runtime_index_set, IsMap
  <2>. HIDE DEF found, f, new
  <2>. DEFINE e == [o.slots[f] EXCEPT !.value = v]
              s == [o.slots EXCEPT ![f] = e]
  <2>6. e \in Entries /\ e.key = o.slots[f].key /\ e.value = v
    BY <2>1, <2>4 DEF Entries
  <2>7. new = [o EXCEPT !.slots = s]
    BY <2>1, <2>5
  <2>. HIDE DEF e
  <2>8. s \in Seq(Entries) /\ Len(s) = Len(o.slots) /\ s[f] = e
        /\ \A i \in 1 .. Len(o.slots) : i # f => s[i] = o.slots[i]
    BY <2>1, <2>4, <2>6, ExceptSeq
  <2>. HIDE DEF s
  <2>9. /\ new.kind = o.kind /\ new.slots = s /\ new.length = o.length
        /\ new \in [kind : {"MAP"}, slots : Seq(Entries), length : Nat]
    BY <2>1, <2>7, <2>8
  <2>10. Sound(new)
    BY <2>1, <2>8, <2>9 DEF Sound, Objects, Stored
  <2>. QED  BY <1>2, <2>1, <2>3, <2>4, <2>6, <2>8, <2>9, <2>10 DEF new, found, f
<1>. QED  BY <1>1, <1>2

LEMMA MapStoredKeys ==
  ASSUME NEW o, Sound(o), o.kind = "MAP", NEW index \in Keys, NEW v \in Items
  PROVE  LET new == dragonstone_runtime_index_set(o, index, v)
         IN  /\ Sound(new) /\ new.kind = o.kind
             /\ DistinctKeys(o, o.slots) => KeysStay(o, new)
<1>. DEFINE new == dragonstone_runtime_index_set(o, index, v)
            found == EntriesOf(o, index)
            f == First(found)
<1>1. CASE found = {} /\ new = Appended(o, Entry(index, v)) /\ Entry(index, v) \in Stored(o.kind)
  <2>1. Sound(new) /\ new.kind = o.kind
    BY <1>1, AppendedProperties
  <2>2. \A i \in 1 .. o.length : ~case_compare(KeyOf(o, o.slots[i]), KeyOf(o, Entry(index, v)))
    BY <1>1 DEF EntriesOf, KeyOf, IsMap, Entry
  <2>. QED  BY <1>1, <2>1, <2>2, AppendedDistinct
<1>2. CASE /\ Sound(new) /\ new.kind = o.kind /\ new.length = o.length
           /\ Len(new.slots) = Len(o.slots)
           /\ \A i \in 1 .. o.length : new.slots[i].key = o.slots[i].key
  <2>. HIDE DEF new
  <2>1. o.slots \in Seq(Entries) /\ new.slots \in Seq(Entries) /\ o.length = Len(o.slots)
    BY <1>2, SoundFacts DEF Sound, Stored
  <2>2. o.length \in Nat
    BY SoundFacts
  <2>3. \A i \in 1 .. o.length : KeyOf(new, new.slots[i]) = KeyOf(o, o.slots[i])
    BY <1>2 DEF KeyOf, IsMap
  <2>4. ASSUME DistinctKeys(o, o.slots)
        PROVE  DistinctKeys(new, new.slots)
    <3>1. \A i, k \in 1 .. Len(o.slots) :
            i # k => ~case_compare(KeyOf(o, o.slots[i]), KeyOf(o, o.slots[k]))
      BY <2>1, <2>4, DistinctByIndex
    <3>2. \A i, k \in 1 .. Len(new.slots) :
            i # k => ~case_compare(KeyOf(new, new.slots[i]), KeyOf(new, new.slots[k]))
      BY <1>2, <2>1, <2>3, <3>1
    <3>. QED  BY <2>1, <3>2, DistinctByIndex
  <2>. QED  BY <1>2, <2>2, <2>3, <2>4 DEF KeysStay, new
<1>. QED  BY <1>1, <1>2, MapStored

(* An assignment to an array. *)
LEMMA ArrayStored ==
  ASSUME NEW o, Sound(o), o.kind = "ARRAY", NEW index \in Keys, IsInt(index), NEW v \in Items
  PROVE  LET new == dragonstone_runtime_index_set(o, index, v)
             p == Position(o, index.i)
         IN  /\ p \in Int
             /\ p <= 0 => new = o
             /\ p > 0 =>
                  /\ Sound(new) /\ new.kind = o.kind
                  /\ new.length = IF p > o.length THEN p ELSE o.length
                  /\ new.slots[p] = v
                  /\ \A i \in 1 .. new.length :
                       i # p => new.slots[i] = IF i <= o.length THEN o.slots[i] ELSE NULL
<1>. DEFINE new == dragonstone_runtime_index_set(o, index, v)
            p == Position(o, index.i)
            big == IF p > o.length THEN GrownTo(o, p) ELSE o
            n == o.length
<1>1. /\ o \in [kind : {"ARRAY"}, slots : Seq(Plain), length : Nat]
      /\ n \in 0 .. Len(o.slots) /\ Len(o.slots) \in Nat
      /\ \A i \in 1 .. Len(o.slots) : o.slots[i] \in Plain
  BY SoundFacts DEF Sound, Objects, Stored
<1>2. p \in Int
  <2>1. index.i \in Int
    BY KeysAssumption DEF Ints
  <2>. QED  BY <1>1, <2>1 DEF Position
<1>3. new = IF p > 0 THEN [big EXCEPT !.slots[p] = v] ELSE big
  BY DEF dragonstone_runtime_index_set, IsMap
<1>4. p <= 0 => new = o
  BY <1>1, <1>2, <1>3
<1>5. ASSUME p > 0
      PROVE  /\ big \in [kind : {"ARRAY"}, slots : Seq(Plain), length : Nat]
             /\ big.length = IF p > n THEN p ELSE n
             /\ big.length <= Len(big.slots) /\ p \in 1 .. big.length
             /\ \A i \in 1 .. big.length :
                  big.slots[i] = IF i <= n THEN o.slots[i] ELSE NULL
  <2>1. CASE p > n
    <3>. DEFINE s == [i \in 1 .. p |-> IF i <= n THEN o.slots[i] ELSE NULL]
    <3>1. p \in Nat
      BY <1>2, <1>5
    <3>2. \A i \in 1 .. p : (IF i <= n THEN o.slots[i] ELSE NULL) \in Plain
      BY <1>1 DEF Plain
    <3>3. s \in [1 .. p -> Plain] /\ \A i \in 1 .. p : s[i] = IF i <= n THEN o.slots[i] ELSE NULL
      BY <3>2
    <3>4. big = Collection("ARRAY", s)
      BY <2>1 DEF GrownTo
    <3>. HIDE DEF s, big, p
    <3>5. s \in Seq(Plain) /\ Len(s) = p
      BY <3>1, <3>3, SegmentIsSeq
    <3>. QED  BY <1>1, <1>2, <1>5, <2>1, <3>1, <3>3, <3>4, <3>5 DEF Collection
  <2>2. CASE ~(p > n)
    BY <1>1, <1>2, <1>5, <2>2
  <2>. QED  BY <2>1, <2>2
<1>6. ASSUME p > 0
      PROVE  /\ Sound(new) /\ new.kind = o.kind
             /\ new.length = IF p > n THEN p ELSE n
             /\ new.slots[p] = v
             /\ \A i \in 1 .. new.length :
                  i # p => new.slots[i] = IF i <= n THEN o.slots[i] ELSE NULL
  <2>1. new = [big EXCEPT !.slots[p] = v]
    BY <1>3, <1>6
  <2>2. /\ big \in [kind : {"ARRAY"}, slots : Seq(Plain), length : Nat]
        /\ big.length = IF p > n THEN p ELSE n
        /\ big.length <= Len(big.slots) /\ p \in 1 .. big.length
        /\ \A i \in 1 .. big.length :
             big.slots[i] = IF i <= n THEN o.slots[i] ELSE NULL
    BY <1>5, <1>6
  <2>. HIDE DEF new, p, big, n
  <2>. DEFINE s == [big.slots EXCEPT ![p] = v]
  <2>3. v \in Plain /\ p \in 1 .. Len(big.slots) /\ Len(big.slots) \in Nat
    BY <2>2, LenProperties DEF Plain
  <2>4. s \in Seq(Plain) /\ Len(s) = Len(big.slots) /\ s[p] = v
        /\ \A i \in 1 .. Len(big.slots) : i # p => s[i] = big.slots[i]
    BY <2>2, <2>3, ExceptSeq
  <2>5. new = [big EXCEPT !.slots = s]
    BY <2>1, <2>2
  <2>. HIDE DEF s
  <2>6. /\ new.kind = "ARRAY" /\ new.slots = s /\ new.length = big.length
        /\ new \in [kind : {"ARRAY"}, slots : Seq(Plain), length : Nat]
    BY <2>2, <2>4, <2>5
  <2>7. Sound(new)
    BY <2>2, <2>4, <2>6 DEF Sound, Objects, Stored
  <2>. QED  BY <2>2, <2>3, <2>4, <2>6, <2>7
<1>. QED  BY <1>2, <1>4, <1>6

-----------------------------------------------------------------------------
(* What blocks, and the program between loops, do to the collection. *)

Stores(new) ==
  \/ \E v \in Items : object.kind = "ARRAY" /\ new = dragonstone_runtime_array_push(object, v)
  \/ object.kind = "ARRAY" /\ new = array_pop(object)
  \/ \E v \in Keys : object.kind = "BAG" /\ new = bag_add(object, v)
  \/ \E index \in Keys, v \in Items :
       object.kind # "BAG" /\ new = dragonstone_runtime_index_set(object, index, v)

LEMMA StoresProperties ==
  ASSUME Sound(object), NEW new, Stores(new)
  PROVE  /\ Sound(new) /\ new.kind = object.kind
         /\ object.kind # "ARRAY" /\ DistinctKeys(object, object.slots) => KeysStay(object, new)
<1>1. ASSUME NEW v \in Items, object.kind = "ARRAY", new = dragonstone_runtime_array_push(object, v)
      PROVE  Sound(new) /\ new.kind = object.kind
  BY <1>1, PushProperties
<1>2. CASE object.kind = "ARRAY" /\ new = array_pop(object)
  BY <1>2, PopProperties
<1>3. ASSUME NEW v \in Keys, object.kind = "BAG", new = bag_add(object, v)
      PROVE  /\ Sound(new) /\ new.kind = object.kind
             /\ DistinctKeys(object, object.slots) => KeysStay(object, new)
  BY <1>3, AddProperties
<1>4. ASSUME NEW index \in Keys, NEW v \in Items, object.kind # "BAG",
             new = dragonstone_runtime_index_set(object, index, v)
      PROVE  /\ Sound(new) /\ new.kind = object.kind
             /\ object.kind # "ARRAY" /\ DistinctKeys(object, object.slots)
                  => KeysStay(object, new)
  <2>1. CASE object.kind = "MAP"
    BY <1>4, <2>1, MapStoredKeys
  <2>2. CASE object.kind = "ARRAY" /\ IsInt(index)
    <3>1. Position(object, index.i) \in Int
      BY <2>2, ArrayStored
    <3>. QED  BY <1>4, <2>2, <3>1, ArrayStored
  <2>3. CASE object.kind = "ARRAY" /\ ~IsInt(index)
    BY <1>4, <2>3 DEF dragonstone_runtime_index_set, IsMap
  <2>. QED  BY <1>4, <2>1, <2>2, <2>3 DEF Sound
<1>. QED  BY <1>1, <1>2, <1>3, <1>4 DEF Stores

LEMMA NextCases ==
  ASSUME CollectionsNext
  PROVE  (\E new : Stores(new) /\ Changing(new)) \/ Begin \/ Iterate \/ BlockReturns
BY DEF CollectionsNext, Push, Pop, Add, IndexSet, Stores

-----------------------------------------------------------------------------
(* What happens to a loop. *)

LEMMA LoopTypes ==
  ASSUME NEW loop \in LoopRecord
  PROVE  /\ loop.i \in Nat \ {0} /\ loop.at \in {"loop", "block"} /\ loop.buffer \in Nat
         /\ loop.out \in Seq(Seen \cup Answers) /\ Len(loop.out) \in Nat
         /\ loop.asked \in Seq(Seen) /\ Len(loop.asked) \in Nat
         /\ loop.answers \in Seq(Answers) /\ loop.changed \in BOOLEAN
         /\ loop.grown \in Nat /\ loop.popped \in BOOLEAN
BY LenProperties DEF LoopRecord

LEMMA DisturbedProperties ==
  ASSUME NEW loop \in LoopRecord, NEW o, o.length \in Nat, object.length \in Nat
  PROVE  LET new == Disturbed(loop, o)
         IN  /\ new \in LoopRecord
             /\ new.op = loop.op /\ new.i = loop.i /\ new.at = loop.at
             /\ new.out = loop.out /\ new.asked = loop.asked /\ new.changed
             /\ new.buffer = loop.buffer /\ loop.grown <= new.grown
             /\ o.length <= new.buffer + new.grown
             /\ ~new.popped => ~loop.popped /\ object.length <= o.length
<1>. DEFINE grown  == IF o.length > loop.grown + loop.buffer THEN o.length - loop.buffer ELSE loop.grown
            popped == loop.popped \/ o.length < object.length
            new    == Disturbed(loop, o)
<1>1. <<>> \in Seq(Seen) /\ <<>> \in Seq(Answers)
  BY EmptySeq
<1>2. loop.grown \in Nat /\ loop.buffer \in Nat /\ loop.popped \in BOOLEAN
  BY LoopTypes
<1>3. grown \in Nat /\ loop.grown <= grown /\ o.length <= loop.buffer + grown
  BY <1>2
<1>4. popped \in BOOLEAN /\ (~popped => ~loop.popped /\ object.length <= o.length)
  <2>1. ~(o.length < object.length) => object.length <= o.length
    OBVIOUS
  <2>. QED  BY <1>2, <2>1
<1>5. new = [loop EXCEPT !.changed = TRUE, !.start = <<>>, !.answers = <<>>,
                         !.grown = grown, !.popped = popped]
  BY DEF Disturbed
<1>. HIDE DEF grown, popped, new
<1>6. /\ new \in LoopRecord
      /\ new.op = loop.op /\ new.i = loop.i /\ new.at = loop.at
      /\ new.out = loop.out /\ new.asked = loop.asked /\ new.changed
      /\ new.buffer = loop.buffer /\ new.grown = grown /\ new.popped = popped
  BY <1>1, <1>3, <1>4, <1>5 DEF LoopRecord
<1>. QED  BY <1>3, <1>4, <1>6 DEF new

LEMMA FollowsKept ==
  ASSUME NEW o, NEW new, Sound(o), Sound(new), KeysStay(o, new),
         NEW loop \in LoopRecord, NEW later,
         later.op = loop.op, later.i = loop.i, later.at = loop.at,
         later.out = loop.out, later.asked = loop.asked,
         Follows(o, loop)
  PROVE  Follows(new, later)
<1>1. \A y : KeyOf(new, y) = KeyOf(o, y)
  BY DEF KeysStay, KeyOf, IsMap
<1>2. o.length \in Nat /\ new.length \in Nat /\ o.length <= new.length
  BY SoundFacts DEF KeysStay
<1>3. loop.i \in Nat \ {0} /\ loop.i <= Room(o, loop)
  BY LoopTypes DEF Follows
<1>4. later.i <= Room(new, later)
  BY <1>2, <1>3 DEF Room
<1>5. \A k \in 1 .. o.length : KeyOf(new, new.slots[k]) = KeyOf(o, o.slots[k])
  BY DEF KeysStay
<1>6. \A k \in 1 .. Given(loop) : k \in 1 .. o.length
  BY <1>2, <1>3 DEF Given, Room
<1>7. GivesAll(new, later)
  BY <1>1, <1>5, <1>6 DEF Follows, GivesAll, Given
<1>8. \A k \in 1 .. loop.i - 1 : k \in 1 .. o.length
  BY <1>2, <1>3 DEF Room
<1>9. SelectsSome(new, later)
  BY <1>1, <1>5, <1>8 DEF Follows, SelectsSome, DistinctKeys
<1>. QED  BY <1>4, <1>7, <1>9 DEF Follows

LEMMA ChangingKeeps ==
  ASSUME CollectionsInv, NEW new, Stores(new), Changing(new)
  PROVE  CollectionsInv'
<1>1. Sound(object) /\ loops \in Seq(LoopRecord)
  BY DEF CollectionsInv, CollectionsTypeOK
<1>2. /\ Sound(new) /\ new.kind = object.kind
      /\ object.kind # "ARRAY" /\ DistinctKeys(object, object.slots) => KeysStay(object, new)
  BY <1>1, StoresProperties
<1>3. object' = new /\ finished' = <<>>
  BY DEF Changing
<1>4. AdditionsAreVisited'
  BY <1>3 DEF AdditionsAreVisited
<1>5. CASE new = object
  <2>1. UNCHANGED <<object, loops>>
    BY <1>3, <1>5 DEF Changing
  <2>. QED  BY <1>4, <2>1 DEF CollectionsInv, CollectionsTypeOK, GrowingOK, BoundsOK
<1>6. CASE new # object
  <2>0. object.length \in Nat /\ new.length \in Nat
    BY <1>1, <1>2, SoundFacts
  <2>1. loops' = [n \in 1 .. Len(loops) |-> Disturbed(loops[n], new)]
    BY <1>1, <1>6, LenProperties DEF Changing
  <2>2. Len(loops) \in Nat /\ \A n \in 1 .. Len(loops) : loops[n] \in LoopRecord
    BY <1>1, LenProperties, ElementOfSeq
  <2>3. \A n \in 1 .. Len(loops) : loops'[n] = Disturbed(loops[n], new) /\ loops'[n] \in LoopRecord
    BY <2>0, <2>1, <2>2, DisturbedProperties
  <2>4. loops' \in [1 .. Len(loops) -> LoopRecord]
    BY <2>1, <2>3
  <2>5. loops' \in Seq(LoopRecord) /\ Len(loops') = Len(loops)
    BY <2>2, <2>4, SegmentIsSeq
  <2>6. ASSUME NEW n \in 1 .. Len(loops)
        PROVE  Fits(object', loops'[n])
    <3>. DEFINE loop == loops[n]
                later == loops'[n]
    <3>1. Fits(object, loop) /\ loop \in LoopRecord
      BY <2>2 DEF CollectionsInv, BoundsOK
    <3>2. /\ later.op = loop.op /\ later.i = loop.i /\ later.at = loop.at /\ later.out = loop.out
          /\ later.buffer = loop.buffer /\ loop.grown <= later.grown /\ later.grown \in Nat
          /\ new.length <= later.buffer + later.grown
          /\ ~later.popped => ~loop.popped /\ object.length <= new.length
      BY <2>0, <2>2, <2>3, DisturbedProperties, LoopTypes
    <3>. HIDE DEF loop, later
    <3>3. loop.i \in Nat /\ loop.buffer \in Nat /\ loop.grown \in Nat
      BY <3>1, LoopTypes
    <3>4. Reached(later, later.buffer + later.grown) /\ (~later.popped => Reached(later, new.length))
      BY <2>0, <3>1, <3>2, <3>3 DEF Fits, Reached
    <3>5. Fits(object', later)
      BY <1>2, <1>3, <3>1, <3>2, <3>4 DEF Fits
    <3>. QED  BY <3>5 DEF later
  <2>7. ASSUME object.kind # "ARRAY", NEW n \in 1 .. Len(loops)
        PROVE  Follows(object', loops'[n])
    <3>1. Follows(object, loops[n]) /\ KeysStay(object, object')
      BY <1>2, <1>3, <2>7 DEF CollectionsInv, GrowingOK
    <3>2. Sound(object')
      BY <1>2, <1>3
    <3>. DEFINE loop == loops[n]
                later == loops'[n]
    <3>3. /\ loop \in LoopRecord
          /\ later.op = loop.op /\ later.i = loop.i /\ later.at = loop.at
          /\ later.out = loop.out /\ later.asked = loop.asked
      BY <2>0, <2>2, <2>3, DisturbedProperties
    <3>. HIDE DEF loop, later
    <3>4. Follows(object, loop)
      BY <3>1 DEF loop
    <3>5. Follows(object', later)
      BY <1>1, <3>1, <3>2, <3>3, <3>4, FollowsKept
    <3>. QED  BY <3>5 DEF later
  <2>8. object.kind # "ARRAY" => DistinctKeys(object', object'.slots)
    BY <1>2, <1>3 DEF KeysStay, CollectionsInv, GrowingOK
  <2>9. GrowingOK'
    BY <1>2, <1>3, <2>5, <2>7, <2>8 DEF GrowingOK
  <2>10. CollectionsTypeOK' /\ BoundsOK'
    BY <1>2, <1>3, <2>5, <2>6 DEF CollectionsTypeOK, BoundsOK
  <2>. QED  BY <1>4, <2>9, <2>10 DEF CollectionsInv
<1>. QED  BY <1>5, <1>6

LEMMA SlotSeen ==
  ASSUME NEW o, Sound(o), NEW i \in Nat \ {0}
  PROVE  /\ Slot(o, i) \in Seen
         /\ i <= o.length => Slot(o, i) = o.slots[i] /\ o.slots[i] \in Stored(o.kind)
<1>1. /\ Len(o.slots) \in Nat /\ o.length \in 0 .. Len(o.slots)
      /\ \A k \in 1 .. Len(o.slots) : o.slots[k] \in Stored(o.kind)
  BY SoundFacts
<1>. QED  BY <1>1 DEF Slot, Seen, Stored

(* A loop that has just begun. *)
LEMMA BeginKeeps ==
  ASSUME CollectionsInv, Begin
  PROVE  CollectionsInv'
<1>1. Sound(object) /\ loops \in Seq(LoopRecord)
  BY DEF CollectionsInv, CollectionsTypeOK
<1>2. PICK op \in Ops(object), argc \in {0, 1}, memo \in Answers :
        loops' = Append(loops, Loop(op, argc, IF argc = 1 THEN memo ELSE NULL))
  BY DEF Begin
<1>. DEFINE loop == Loop(op, argc, IF argc = 1 THEN memo ELSE NULL)
<1>3. Contents(object) \in Seq(Seen)
  <2>1. object.slots \in Seq(Stored(object.kind)) /\ object.length \in 0 .. Len(object.slots)
    BY <1>1, SoundFacts
  <2>2. /\ Contents(object) \in Seq(Stored(object.kind))
        /\ Len(Contents(object)) \in Nat
        /\ \A i \in 1 .. Len(Contents(object)) : Contents(object)[i] \in Stored(object.kind)
    BY <2>1, Shortened, LenProperties, ElementOfSeq DEF Contents
  <2>3. Stored(object.kind) \subseteq Seen
    BY DEF Stored, Seen
  <2>4. Contents(object) \in [1 .. Len(Contents(object)) -> Seen]
    BY <2>2, <2>3, LenProperties
  <2>. QED  BY <2>2, <2>4, SegmentIsSeq
<1>4. /\ loop \in LoopRecord
      /\ loop.i = 1 /\ loop.at = "loop" /\ loop.out = <<>> /\ loop.asked = <<>>
      /\ loop.buffer = object.length /\ loop.grown = 0
  <2>1. /\ <<>> \in Seq(Seen) /\ <<>> \in Seq(Answers) /\ <<>> \in Seq(Seen \cup Answers)
        /\ object.length \in Nat
    BY <1>1, EmptySeq, SoundFacts
  <2>2. op \in {"each", "select", "inject", "until", "map"}
    BY DEF Ops
  <2>3. (IF argc = 1 THEN memo ELSE NULL) \in Answers \cup Seen
    BY DEF Seen, Plain
  <2>. QED  BY <1>3, <2>1, <2>2, <2>3 DEF Loop, LoopRecord
<1>5. loops' = Append(loops, loop)
  BY <1>2
<1>. HIDE DEF loop
<1>6. /\ loops' \in Seq(LoopRecord)
      /\ Len(loops) \in Nat /\ Len(loops') = Len(loops) + 1
      /\ \A n \in 1 .. Len(loops) : loops'[n] = loops[n]
      /\ loops'[Len(loops) + 1] = loop
  BY <1>1, <1>4, <1>5, Pushed
<1>7. Follows(object, loop) /\ Fits(object, loop)
  <2>1. object.length \in Nat /\ Len(loop.out) = 0 /\ Len(loop.asked) = 0 /\ 1 - 1 = 0
    BY <1>1, <1>4, SoundFacts, EmptySeq
  <2>2. DistinctKeys(object, loop.out)
    BY <1>4, EmptySeq DEF DistinctKeys
  <2>. QED  BY <1>4, <2>1, <2>2 DEF Follows, Fits, Reached, Room, Given, GivesAll, SelectsSome
<1>8. object' = object /\ finished' = <<>>
  BY DEF Begin
<1>9. \A n \in 1 .. Len(loops') : n \in 1 .. Len(loops) \/ n = Len(loops) + 1
  BY <1>6
<1>10. GrowingOK'
  BY <1>6, <1>7, <1>8, <1>9 DEF CollectionsInv, GrowingOK
<1>11. BoundsOK'
  BY <1>6, <1>7, <1>8, <1>9 DEF CollectionsInv, BoundsOK
<1>12. CollectionsTypeOK' /\ AdditionsAreVisited'
  BY <1>1, <1>6, <1>8 DEF CollectionsTypeOK, AdditionsAreVisited
<1>. QED  BY <1>10, <1>11, <1>12 DEF CollectionsInv

(* The innermost loop goes on. *)
LEMMA TopKeeps ==
  ASSUME CollectionsInv, loops # <<>>, NEW later \in LoopRecord,
         loops' = Append(Front(loops), later), UNCHANGED object, finished' = <<>>,
         object.kind # "ARRAY" /\ Follows(object, Top) => Follows(object, later),
         Fits(object, Top) => Fits(object, later)
  PROVE  CollectionsInv'
<1>1. Sound(object) /\ loops \in Seq(LoopRecord)
  BY DEF CollectionsInv, CollectionsTypeOK
<1>2. /\ loops' \in Seq(LoopRecord)
      /\ Len(loops) \in Nat \ {0} /\ Len(loops') = Len(loops)
      /\ \A n \in 1 .. Len(loops) - 1 : loops'[n] = loops[n]
      /\ loops'[Len(loops)] = later
  BY <1>1, Popped, LastReplaced
<1>3. \A n \in 1 .. Len(loops) : n \in 1 .. Len(loops) - 1 \/ n = Len(loops)
  BY <1>2
<1>4. Top = loops[Len(loops)] /\ Len(loops) \in 1 .. Len(loops)
  BY <1>2 DEF Top
<1>5. GrowingOK'
  BY <1>2, <1>3, <1>4 DEF CollectionsInv, GrowingOK
<1>6. BoundsOK'
  BY <1>2, <1>3, <1>4 DEF CollectionsInv, BoundsOK
<1>7. CollectionsTypeOK' /\ AdditionsAreVisited'
  BY <1>1, <1>2 DEF CollectionsTypeOK, AdditionsAreVisited
<1>. QED  BY <1>5, <1>6, <1>7 DEF CollectionsInv

(* The innermost loop is over. *)
LEMMA EndKeeps ==
  ASSUME CollectionsInv, loops # <<>>, loops' = Front(loops), UNCHANGED object,
         AdditionsAreVisited'
  PROVE  CollectionsInv'
<1>1. Sound(object) /\ loops \in Seq(LoopRecord)
  BY DEF CollectionsInv, CollectionsTypeOK
<1>2. /\ loops' \in Seq(LoopRecord)
      /\ Len(loops) \in Nat \ {0} /\ Len(loops') = Len(loops) - 1
      /\ \A n \in 1 .. Len(loops) - 1 : loops'[n] = loops[n]
  BY <1>1, Popped
<1>3. \A n \in 1 .. Len(loops') : n \in 1 .. Len(loops) - 1 /\ n \in 1 .. Len(loops)
  BY <1>2
<1>4. GrowingOK'
  BY <1>2, <1>3 DEF CollectionsInv, GrowingOK
<1>5. BoundsOK'
  BY <1>2, <1>3 DEF CollectionsInv, BoundsOK
<1>6. CollectionsTypeOK'
  BY <1>1, <1>2 DEF CollectionsTypeOK
<1>. QED  BY <1>4, <1>5, <1>6 DEF CollectionsInv

LEMMA TopFacts ==
  ASSUME CollectionsInv, loops # <<>>
  PROVE  /\ Sound(object) /\ Top \in LoopRecord
         /\ Fits(object, Top)
         /\ object.kind # "ARRAY" => Follows(object, Top) /\ DistinctKeys(object, object.slots)
<1>1. Sound(object) /\ loops \in Seq(LoopRecord)
  BY DEF CollectionsInv, CollectionsTypeOK
<1>2. Len(loops) \in 1 .. Len(loops) /\ loops[Len(loops)] \in LoopRecord
  BY <1>1, Popped
<1>. QED  BY <1>1, <1>2 DEF CollectionsInv, GrowingOK, BoundsOK, Top

(* A loop that calls its block with the next item. *)
LEMMA AskedFollows ==
  ASSUME NEW o, Sound(o), NEW loop \in LoopRecord, loop.at = "loop", loop.i <= o.length
  PROVE  LET x == Slot(o, loop.i)
             later == [loop EXCEPT !.at = "block", !.asked = Append(@, x)]
         IN  /\ later \in LoopRecord
             /\ Follows(o, loop) => Follows(o, later)
             /\ Fits(o, loop) => Fits(o, later)
<1>. DEFINE x == Slot(o, loop.i)
            asked == Append(loop.asked, x)
            later == [loop EXCEPT !.at = "block", !.asked = Append(@, x)]
<1>1. /\ loop.i \in Nat \ {0} /\ loop.asked \in Seq(Seen) /\ o.length \in Nat
  BY LoopTypes, SoundFacts
<1>2. x \in Seen /\ x = o.slots[loop.i]
  BY <1>1, SlotSeen
<1>. HIDE DEF x
<1>3. /\ asked \in Seq(Seen)
      /\ Len(loop.asked) \in Nat
      /\ Len(asked) = Len(loop.asked) + 1
      /\ \A j \in 1 .. Len(loop.asked) : asked[j] = loop.asked[j]
      /\ asked[Len(loop.asked) + 1] = x
  BY <1>1, <1>2, Pushed
<1>. HIDE DEF asked
<1>4. later = [loop EXCEPT !.at = "block", !.asked = asked]
  BY DEF asked
<1>5. /\ later \in LoopRecord
      /\ later.op = loop.op /\ later.i = loop.i /\ later.at = "block"
      /\ later.out = loop.out /\ later.asked = asked
      /\ later.buffer = loop.buffer /\ later.grown = loop.grown /\ later.popped = loop.popped
  BY <1>3, <1>4 DEF LoopRecord
<1>. HIDE DEF later
<1>6. ASSUME Follows(o, loop) PROVE Follows(o, later)
  <2>1. GivesAll(o, later)
    <3>. SUFFICES ASSUME loop.op \in {"each", "select", "map"}
                  PROVE  /\ Len(asked) = loop.i
                         /\ \A j \in 1 .. loop.i : KeyOf(o, asked[j]) = KeyOf(o, o.slots[j])
      BY <1>5 DEF GivesAll, Given
    <3>1. /\ Len(loop.asked) = loop.i - 1
          /\ \A j \in 1 .. loop.i - 1 : KeyOf(o, loop.asked[j]) = KeyOf(o, o.slots[j])
      BY <1>6 DEF Follows, GivesAll, Given
    <3>2. Len(asked) = loop.i /\ asked[loop.i] = o.slots[loop.i]
      BY <1>1, <1>2, <1>3, <3>1
    <3>3. \A j \in 1 .. loop.i : j \in 1 .. loop.i - 1 \/ j = loop.i
      BY <1>1
    <3>. QED  BY <1>3, <3>1, <3>2, <3>3
  <2>2. SelectsSome(o, later)
    BY <1>5, <1>6 DEF Follows, SelectsSome
  <2>3. later.i <= Room(o, later)
    BY <1>5 DEF Room
  <2>. QED  BY <2>1, <2>2, <2>3 DEF Follows
<1>7. ASSUME Fits(o, loop) PROVE Fits(o, later)
  <2>1. loop.buffer \in Nat /\ loop.grown \in Nat
    BY LoopTypes
  <2>2. Reached(later, later.buffer + later.grown) /\ Reached(later, o.length)
    BY <1>1, <1>5, <1>7, <2>1 DEF Fits, Reached
  <2>. QED  BY <1>5, <1>7, <2>2 DEF Fits
<1>. QED  BY <1>5, <1>6, <1>7 DEF later, x

(* An inject that takes its first item for the memo. *)
LEMMA MemoFollows ==
  ASSUME NEW o, Sound(o), NEW loop \in LoopRecord, loop.at = "loop", loop.i <= o.length,
         loop.op = "inject", NEW memo \in Seen
  PROVE  LET later == [loop EXCEPT !.i = @ + 1, !.memo = memo]
         IN  /\ later \in LoopRecord
             /\ Follows(o, later)
             /\ Fits(o, loop) => Fits(o, later)
<1>. DEFINE later == [loop EXCEPT !.i = @ + 1, !.memo = memo]
<1>1. loop.i \in Nat \ {0} /\ o.length \in Nat /\ Len(loop.out) \in Nat
  BY LoopTypes, SoundFacts
<1>2. /\ later \in LoopRecord
      /\ later.op = "inject" /\ later.i = loop.i + 1 /\ later.at = "loop"
      /\ later.out = loop.out /\ later.buffer = loop.buffer /\ later.grown = loop.grown /\ later.popped = loop.popped
  <2>. DEFINE next == loop.i + 1
  <2>1. next \in Nat \ {0} /\ memo \in Answers \cup Seen
    BY <1>1
  <2>2. later = [loop EXCEPT !.i = next, !.memo = memo]
    OBVIOUS
  <2>. HIDE DEF next, later
  <2>3. /\ later \in LoopRecord
        /\ later.op = "inject" /\ later.i = next /\ later.at = "loop"
        /\ later.out = loop.out /\ later.buffer = loop.buffer /\ later.grown = loop.grown /\ later.popped = loop.popped
    BY <2>1, <2>2 DEF LoopRecord
  <2>. QED  BY <2>3 DEF next
<1>. HIDE DEF later
<1>3. later.i <= Room(o, later)
  BY <1>1, <1>2 DEF Room
<1>4. Follows(o, later)
  BY <1>2, <1>3 DEF Follows, GivesAll, SelectsSome
<1>5. ASSUME Fits(o, loop) PROVE Fits(o, later)
  <2>1. loop.buffer \in Nat /\ loop.grown \in Nat
    BY LoopTypes
  <2>2. Reached(later, later.buffer + later.grown) /\ Reached(later, o.length)
    BY <1>1, <1>2, <1>5, <2>1 DEF Fits, Reached
  <2>. QED  BY <1>1, <1>2, <1>5, <2>2 DEF Fits
<1>. QED  BY <1>2, <1>4, <1>5 DEF later

(* The last item that was given is that of the last slot. *)
LEMMA EndVisits ==
  ASSUME CollectionsInv, loops # <<>>, Top.at = "loop", ~More(Top), UNCHANGED object,
         NEW result, finished' = <<[loop |-> Top, result |-> result]>>
  PROVE  AdditionsAreVisited'
<1>. DEFINE loop == Top
<1>1. /\ Sound(object) /\ loop \in LoopRecord
      /\ object.kind # "ARRAY" => Follows(object, loop)
  BY TopFacts
<1>2. loop.at = "loop" /\ ~(loop.i <= object.length)
  BY DEF More
<1>3. finished'[1].loop = loop
  OBVIOUS
<1>. HIDE DEF loop
<1>4. loop.i \in Nat \ {0} /\ object.length \in Nat /\ loop.asked \in Seq(Seen)
  BY <1>1, LoopTypes, SoundFacts
<1>5. ASSUME object.kind # "ARRAY", loop.op \in {"each", "select", "map"}
      PROVE  [i \in DOMAIN loop.asked |-> KeyOf(object, loop.asked[i])]
               = [i \in 1 .. object.length |-> KeyOf(object, object.slots[i])]
  <2>1. loop.i = object.length + 1
    BY <1>1, <1>2, <1>4, <1>5 DEF Follows, Room
  <2>2. /\ Len(loop.asked) = object.length
        /\ \A j \in 1 .. object.length :
             KeyOf(object, loop.asked[j]) = KeyOf(object, object.slots[j])
    BY <1>1, <1>2, <1>4, <1>5, <2>1 DEF Follows, GivesAll, Given
  <2>3. DOMAIN loop.asked = 1 .. object.length
    BY <1>4, <2>2, LenProperties
  <2>. QED  BY <2>2, <2>3
<1>. QED  BY <1>3, <1>5 DEF AdditionsAreVisited

LEMMA IterateKeeps ==
  ASSUME CollectionsInv, Iterate
  PROVE  CollectionsInv'
<1>. DEFINE x == Slot(object, Top.i)
<1>1. /\ Sound(object) /\ Top \in LoopRecord
      /\ loops # <<>> /\ Top.at = "loop" /\ UNCHANGED object
  BY TopFacts DEF Iterate
<1>2. CASE More(Top) /\ ~TakesMemo(Top)
  <2>. DEFINE later == [Top EXCEPT !.at = "block", !.asked = Append(@, x)]
  <2>1. loops' = Append(Front(loops), later) /\ finished' = <<>>
    BY <1>2 DEF Iterate
  <2>2. Top.i <= object.length
    BY <1>2 DEF More
  <2>. DEFINE loop == Top
  <2>3. later = [loop EXCEPT !.at = "block", !.asked = Append(@, Slot(object, loop.i))]
    OBVIOUS
  <2>4. loop \in LoopRecord /\ loop.at = "loop" /\ loop.i <= object.length
    BY <1>1, <2>2
  <2>. HIDE DEF loop, later
  <2>5. /\ later \in LoopRecord
        /\ Follows(object, loop) => Follows(object, later)
        /\ Fits(object, loop) => Fits(object, later)
    BY <1>1, <2>3, <2>4, AskedFollows
  <2>6. /\ Follows(object, Top) => Follows(object, later)
        /\ Fits(object, Top) => Fits(object, later)
    BY <2>5 DEF loop
  <2>. QED  BY <1>1, <2>1, <2>5, <2>6, TopKeeps
<1>3. CASE More(Top) /\ TakesMemo(Top)
  <2>. DEFINE memo == ValueOf(x)
              later == [Top EXCEPT !.i = @ + 1, !.memo = memo]
              loop == Top
  <2>1. loops' = Append(Front(loops), later) /\ finished' = <<>>
    BY <1>3 DEF Iterate
  <2>2. /\ loop \in LoopRecord /\ loop.at = "loop" /\ loop.i <= object.length
        /\ loop.op = "inject"
    BY <1>1, <1>3 DEF More, TakesMemo
  <2>3. memo \in Seen
    <3>1. x \in Seen /\ x \in Stored(object.kind)
      BY <1>1, <2>2, SlotSeen, LoopTypes
    <3>. QED  BY <3>1 DEF ValueOf, IsMap, Stored, Entries, Seen, Plain
  <2>. HIDE DEF memo
  <2>4. later = [loop EXCEPT !.i = @ + 1, !.memo = memo]
    OBVIOUS
  <2>. HIDE DEF loop, later
  <2>5. /\ later \in LoopRecord
        /\ Follows(object, later)
        /\ Fits(object, loop) => Fits(object, later)
    BY <1>1, <2>2, <2>3, <2>4, MemoFollows
  <2>6. Fits(object, Top) => Fits(object, later)
    BY <2>5 DEF loop
  <2>. QED  BY <1>1, <2>1, <2>5, <2>6, TopKeeps
<1>4. CASE ~More(Top)
  <2>1. Ends(Top, Result(Top))
    BY <1>4 DEF Iterate
  <2>2. loops' = Front(loops) /\ finished' = <<[loop |-> Top, result |-> Result(Top)]>>
    BY <2>1 DEF Ends
  <2>3. AdditionsAreVisited'
    BY <1>1, <1>4, <2>2, EndVisits
  <2>. QED  BY <1>1, <2>2, <2>3, EndKeeps
<1>. QED  BY <1>2, <1>3, <1>4

(* A block returns to its loop. *)
LEMMA AnsweredProperties ==
  ASSUME Sound(object), NEW loop \in LoopRecord, NEW v \in Answers
  PROVE  LET later == Answered(loop, v)
             x == Slot(object, loop.i)
         IN  /\ later \in LoopRecord
             /\ later.op = loop.op /\ later.i = loop.i + 1 /\ later.at = "loop"
             /\ later.asked = loop.asked /\ later.buffer = loop.buffer
             /\ later.grown = loop.grown /\ later.popped = loop.popped
             /\ later.out = IF loop.op = "select" /\ Chooses(v) THEN Append(loop.out, x)
                            ELSE IF loop.op = "map" THEN Append(loop.out, v) ELSE loop.out
<1>. DEFINE later == Answered(loop, v)
            x == Slot(object, loop.i)
            answers == IF loop.changed THEN loop.answers ELSE Append(loop.answers, v)
            next == [loop EXCEPT !.at = "loop", !.i = @ + 1,
                                 !.answers = IF loop.changed THEN @ ELSE Append(@, v)]
            i == loop.i + 1
<1>1. x \in Seen /\ i \in Nat \ {0} /\ loop.out \in Seq(Seen \cup Answers)
  BY LoopTypes, SlotSeen
<1>2. answers \in Seq(Answers)
  BY LoopTypes, Pushed
<1>3. Append(loop.out, x) \in Seq(Seen \cup Answers) /\ Append(loop.out, v) \in Seq(Seen \cup Answers)
  <2>1. x \in Seen \cup Answers /\ v \in Seen \cup Answers
    BY <1>1
  <2>. HIDE DEF x
  <2>. QED  BY <1>1, <2>1, Pushed
<1>4. next = [loop EXCEPT !.at = "loop", !.i = i, !.answers = answers]
  OBVIOUS
<1>5. later = CASE loop.op = "select" /\ Chooses(v) -> [next EXCEPT !.out = Append(@, x)]
                [] loop.op = "map"    -> [next EXCEPT !.out = Append(@, v)]
                [] loop.op = "inject" -> [next EXCEPT !.memo = v]
                [] OTHER              -> next
  BY DEF Answered
<1>. HIDE DEF later, x, answers, i, next
<1>6. /\ next \in LoopRecord
      /\ next.op = loop.op /\ next.i = i /\ next.at = "loop"
      /\ next.asked = loop.asked /\ next.buffer = loop.buffer
      /\ next.grown = loop.grown /\ next.popped = loop.popped /\ next.out = loop.out
  BY <1>1, <1>2, <1>4 DEF LoopRecord
<1>7. CASE loop.op = "select" /\ Chooses(v)
  <2>. DEFINE out == Append(loop.out, x)
  <2>1. later = [next EXCEPT !.out = out]
    BY <1>5, <1>6, <1>7
  <2>2. out \in Seq(Seen \cup Answers)
    BY <1>3
  <2>. HIDE DEF out
  <2>3. /\ later \in LoopRecord
        /\ later.op = next.op /\ later.i = next.i /\ later.at = next.at
        /\ later.asked = next.asked /\ later.buffer = next.buffer
        /\ later.grown = next.grown /\ later.popped = next.popped /\ later.out = out
    BY <1>6, <2>1, <2>2 DEF LoopRecord
  <2>. QED  BY <1>6, <1>7, <2>3 DEF later, x, i, out
<1>8. CASE loop.op = "map"
  <2>. DEFINE out == Append(loop.out, v)
  <2>1. later = [next EXCEPT !.out = out]
    BY <1>5, <1>6, <1>8
  <2>2. out \in Seq(Seen \cup Answers)
    BY <1>3
  <2>. HIDE DEF out
  <2>3. /\ later \in LoopRecord
        /\ later.op = next.op /\ later.i = next.i /\ later.at = next.at
        /\ later.asked = next.asked /\ later.buffer = next.buffer
        /\ later.grown = next.grown /\ later.popped = next.popped /\ later.out = out
    BY <1>6, <2>1, <2>2 DEF LoopRecord
  <2>. QED  BY <1>6, <1>8, <2>3 DEF later, x, i, out
<1>9. CASE loop.op = "inject"
  <2>1. later = [next EXCEPT !.memo = v]
    BY <1>5, <1>9
  <2>2. v \in Answers \cup Seen
    OBVIOUS
  <2>3. /\ later \in LoopRecord
        /\ later.op = next.op /\ later.i = next.i /\ later.at = next.at
        /\ later.asked = next.asked /\ later.buffer = next.buffer
        /\ later.grown = next.grown /\ later.popped = next.popped /\ later.out = next.out
    BY <1>6, <2>1, <2>2 DEF LoopRecord
  <2>. QED  BY <1>6, <1>9, <2>3 DEF later, x, i
<1>10. CASE ~(loop.op = "select" /\ Chooses(v)) /\ loop.op # "map" /\ loop.op # "inject"
  <2>1. later = next
    BY <1>5, <1>10
  <2>. QED  BY <1>6, <1>10, <2>1 DEF later, x, i
<1>. QED  BY <1>7, <1>8, <1>9, <1>10

LEMMA AnsweredFits ==
  ASSUME Sound(object), NEW loop \in LoopRecord, loop.at = "block", NEW v \in Answers,
         Fits(object, loop)
  PROVE  Fits(object, Answered(loop, v))
<1>. DEFINE later == Answered(loop, v)
            x == Slot(object, loop.i)
<1>1. /\ later.i = loop.i + 1 /\ later.at = "loop"
      /\ later.buffer = loop.buffer /\ later.grown = loop.grown /\ later.popped = loop.popped
      /\ later.out = IF loop.op = "select" /\ Chooses(v) THEN Append(loop.out, x)
                     ELSE IF loop.op = "map" THEN Append(loop.out, v) ELSE loop.out
  BY AnsweredProperties
<1>. HIDE DEF later
<1>2. /\ loop.i \in Nat \ {0} /\ Len(loop.out) \in Nat /\ object.length \in Nat
      /\ loop.out \in Seq(Seen \cup Answers) /\ x \in Seen
  BY LoopTypes, SoundFacts, SlotSeen
<1>. HIDE DEF x
<1>3. Len(Append(loop.out, x)) = Len(loop.out) + 1 /\ Len(Append(loop.out, v)) = Len(loop.out) + 1
  <2>1. x \in Seen \cup Answers /\ v \in Seen \cup Answers
    BY <1>2
  <2>. QED  BY <1>2, <2>1, Pushed
<1>4. Len(later.out) \in {Len(loop.out), Len(loop.out) + 1}
  BY <1>1, <1>3
<1>5. loop.buffer \in Nat /\ loop.grown \in Nat
  BY LoopTypes
<1>6. /\ Reached(later, later.buffer + later.grown)
      /\ ~later.popped => Reached(later, object.length) /\ loop.i <= object.length
  BY <1>1, <1>2, <1>5 DEF Fits, Reached
<1>7. ASSUME loop.op = "select", ~loop.popped
      PROVE  \A j \in 1 .. Len(later.out) : later.out[j] \in Stored(object.kind)
  <2>1. \A j \in 1 .. Len(loop.out) : loop.out[j] \in Stored(object.kind)
    BY <1>7 DEF Fits
  <2>2. CASE Chooses(v)
    <3>1. x \in Stored(object.kind)
      BY <1>1, <1>2, <1>6, <1>7, SlotSeen DEF x
    <3>2. later.out = Append(loop.out, x) /\ x \in Seen \cup Answers
      BY <1>1, <1>2, <1>7, <2>2
    <3>3. /\ Len(later.out) = Len(loop.out) + 1
          /\ \A j \in 1 .. Len(loop.out) : later.out[j] = loop.out[j]
          /\ later.out[Len(loop.out) + 1] = x
      BY <1>2, <3>2, Pushed
    <3>4. \A j \in 1 .. Len(later.out) : j \in 1 .. Len(loop.out) \/ j = Len(loop.out) + 1
      BY <1>2, <3>3
    <3>. QED  BY <2>1, <3>1, <3>3, <3>4
  <2>3. CASE ~Chooses(v)
    BY <1>1, <1>7, <2>1, <2>3
  <2>. QED  BY <2>2, <2>3
<1>8. Fits(object, later)
  <2>1. Len(later.out) < later.i /\ object.length <= later.buffer + later.grown
    BY <1>1, <1>2, <1>4 DEF Fits
  <2>2. later.op = loop.op
    BY AnsweredProperties DEF later
  <2>. QED  BY <1>1, <1>6, <1>7, <2>1, <2>2 DEF Fits
<1>. QED  BY <1>8 DEF later

LEMMA AnsweredFollows ==
  ASSUME Sound(object), object.kind # "ARRAY", DistinctKeys(object, object.slots),
         NEW loop \in LoopRecord, loop.at = "block", NEW v \in Answers, Follows(object, loop)
  PROVE  Follows(object, Answered(loop, v))
<1>. DEFINE later == Answered(loop, v)
            x == Slot(object, loop.i)
            Key(y) == KeyOf(object, y)
<1>1. /\ later.op = loop.op /\ later.i = loop.i + 1 /\ later.at = "loop"
      /\ later.asked = loop.asked
      /\ later.out = IF loop.op = "select" /\ Chooses(v) THEN Append(loop.out, x)
                     ELSE IF loop.op = "map" THEN Append(loop.out, v) ELSE loop.out
  BY AnsweredProperties
<1>. HIDE DEF later
<1>2. /\ loop.i \in Nat \ {0} /\ Len(loop.out) \in Nat
      /\ object.length \in Nat /\ object.length = Len(object.slots)
      /\ object.slots \in Seq(Stored(object.kind))
      /\ loop.out \in Seq(Seen \cup Answers)
  BY LoopTypes, SoundFacts DEF Sound
<1>3. loop.i <= object.length
  BY DEF Follows, Room
<1>4. later.i <= Room(object, later)
  BY <1>1, <1>2, <1>3 DEF Room
<1>5. GivesAll(object, later)
  <2>1. Given(later) = Given(loop)
    BY <1>1, <1>2 DEF Given
  <2>. QED  BY <1>1, <2>1 DEF Follows, GivesAll
<1>6. SelectsSome(object, later)
  <2>. SUFFICES ASSUME loop.op = "select"
                PROVE  SelectsSome(object, later)
    BY <1>1 DEF SelectsSome
  <2>. DEFINE out == loop.out
              n == Len(loop.out)
  <2>1. /\ \A j \in 1 .. n : \E k \in 1 .. loop.i - 1 : Key(out[j]) = Key(object.slots[k])
        /\ \A j, k \in 1 .. n : j # k => ~case_compare(Key(out[j]), Key(out[k]))
    BY <1>2, DistinctByIndex DEF Follows, SelectsSome
  <2>2. CASE ~Chooses(v)
    <3>1. later.out = out
      BY <1>1, <2>2
    <3>2. \A k \in 1 .. loop.i - 1 : k \in 1 .. later.i - 1
      BY <1>1, <1>2
    <3>. QED  BY <2>1, <3>1, <3>2 DEF Follows, SelectsSome
  <2>3. CASE Chooses(v)
    <3>1. x \in Seen \cup Answers /\ x = object.slots[loop.i]
      BY <1>2, <1>3, SlotSeen
    <3>. HIDE DEF x
    <3>2. later.out = Append(out, x)
      BY <1>1, <2>3
    <3>3. /\ later.out \in Seq(Seen \cup Answers)
          /\ Len(later.out) = n + 1
          /\ \A j \in 1 .. n : later.out[j] = out[j]
          /\ later.out[n + 1] = x
      BY <1>2, <3>1, <3>2, Pushed
    <3>4. \A j, k \in 1 .. object.length :
            j # k => ~case_compare(Key(object.slots[j]), Key(object.slots[k]))
      BY <1>2, DistinctByIndex
    <3>5. \A k \in 1 .. loop.i - 1 : /\ k \in 1 .. object.length /\ k # loop.i
                                     /\ k \in 1 .. loop.i
      BY <1>2, <1>3
    <3>6. loop.i \in 1 .. object.length /\ loop.i \in 1 .. loop.i /\ later.i - 1 = loop.i
      BY <1>1, <1>2, <1>3
    <3>. HIDE DEF n, out, Key
    <3>7. \A j \in 1 .. n : /\ ~case_compare(Key(out[j]), Key(x))
                            /\ ~case_compare(Key(x), Key(out[j]))
      BY <2>1, <3>1, <3>4, <3>5, <3>6
    <3>8. \A j \in 1 .. n + 1 : j \in 1 .. n \/ j = n + 1
      BY <1>2 DEF n
    <3>9. \A j \in 1 .. n + 1 : \E k \in 1 .. loop.i : Key(later.out[j]) = Key(object.slots[k])
      BY <2>1, <3>1, <3>3, <3>5, <3>6, <3>8
    <3>10. \A j, k \in 1 .. n + 1 : j # k => ~case_compare(Key(later.out[j]), Key(later.out[k]))
      BY <2>1, <3>3, <3>7, <3>8
    <3>11. DistinctKeys(object, later.out)
      BY <3>3, <3>10, DistinctByIndex DEF Key
    <3>12. \A j \in 1 .. Len(later.out) :
             \E k \in 1 .. later.i - 1 : Key(later.out[j]) = Key(object.slots[k])
      BY <3>3, <3>6, <3>9
    <3>. QED  BY <3>11, <3>12 DEF SelectsSome, Key
  <2>. QED  BY <2>2, <2>3
<1>7. Follows(object, later)
  BY <1>4, <1>5, <1>6 DEF Follows
<1>. QED  BY <1>7 DEF later

LEMMA ReturnKeeps ==
  ASSUME CollectionsInv, BlockReturns
  PROVE  CollectionsInv'
<1>. DEFINE loop == Top
<1>1. /\ Sound(object) /\ loop \in LoopRecord
      /\ object.kind # "ARRAY" => DistinctKeys(object, object.slots)
      /\ loops # <<>> /\ loop.at = "block" /\ UNCHANGED object
  BY TopFacts DEF BlockReturns
<1>2. PICK v \in Answers :
        IF loop.op = "until" /\ Chooses(v)
        THEN Ends(Answered(loop, v), Slot(object, loop.i))
        ELSE loops' = Append(Front(loops), Answered(loop, v)) /\ finished' = <<>>
  BY DEF BlockReturns
<1>. HIDE DEF loop
<1>3. /\ Answered(loop, v) \in LoopRecord /\ Answered(loop, v).op = loop.op
      /\ object.kind # "ARRAY" /\ Follows(object, loop) => Follows(object, Answered(loop, v))
      /\ Fits(object, loop) => Fits(object, Answered(loop, v))
  BY <1>1, AnsweredProperties, AnsweredFollows, AnsweredFits
<1>4. CASE loop.op = "until" /\ Chooses(v)
  <2>1. /\ loops' = Front(loops)
        /\ finished' = <<[loop |-> Answered(loop, v), result |-> Slot(object, loop.i)]>>
    BY <1>2, <1>4 DEF Ends
  <2>2. finished'[1].loop.op = "until"
    BY <1>3, <1>4, <2>1
  <2>3. AdditionsAreVisited'
    BY <2>2 DEF AdditionsAreVisited
  <2>. QED  BY <1>1, <2>1, <2>3, EndKeeps
<1>5. CASE ~(loop.op = "until" /\ Chooses(v))
  <2>1. loops' = Append(Front(loops), Answered(loop, v)) /\ finished' = <<>>
    BY <1>2, <1>5
  <2>. DEFINE later == Answered(loop, v)
  <2>2. /\ later \in LoopRecord
        /\ object.kind # "ARRAY" /\ Follows(object, Top) => Follows(object, later)
        /\ Fits(object, Top) => Fits(object, later)
    BY <1>3 DEF loop
  <2>3. loops' = Append(Front(loops), later)
    BY <2>1
  <2>. HIDE DEF later
  <2>. QED  BY <1>1, <2>1, <2>2, <2>3, TopKeeps
<1>. QED  BY <1>4, <1>5

-----------------------------------------------------------------------------
LEMMA CollectionsStart == CollectionsInit => CollectionsInv
<1>. SUFFICES ASSUME CollectionsInit PROVE CollectionsInv
  OBVIOUS
<1>1. loops = <<>> /\ finished = <<>> /\ loops \in Seq(LoopRecord) /\ Len(loops) = 0
  BY EmptySeq DEF CollectionsInit
<1>2. Sound(object) /\ (object.kind # "ARRAY" => object.slots = <<>>)
  <2>1. PICK kind \in {"ARRAY", "MAP", "BAG"}, s \in {<<>>} \cup [{1, 2} -> Items] :
          object = Collection(kind, s) /\ (kind # "ARRAY" => s = <<>>)
    BY DEF CollectionsInit
  <2>2. s \in Seq(Stored(kind))
    <3>1. CASE s = <<>>
      BY <3>1, EmptySeq
    <3>2. CASE s # <<>>
      <4>1. kind = "ARRAY" /\ s \in [1 .. 2 -> Stored(kind)]
        BY <2>1, <3>2 DEF Stored, Plain
      <4>. QED  BY <4>1, SegmentIsSeq
    <3>. QED  BY <3>1, <3>2
  <2>3. Sound(Collection(kind, s)) /\ Collection(kind, s).kind = kind /\ Collection(kind, s).slots = s
    BY <2>2, CollectionSound
  <2>. QED  BY <2>1, <2>3
<1>3. object.kind # "ARRAY" => DistinctKeys(object, object.slots)
  BY <1>2, EmptySeq DEF DistinctKeys
<1>. QED  BY <1>1, <1>2, <1>3
          DEF CollectionsInv, CollectionsTypeOK, GrowingOK, BoundsOK, AdditionsAreVisited

LEMMA CollectionsStep ==
  CollectionsInv /\ [CollectionsNext]_cvars => CollectionsInv'
<1>. SUFFICES ASSUME CollectionsInv, [CollectionsNext]_cvars
              PROVE  CollectionsInv'
  OBVIOUS
<1>1. CASE CollectionsNext
  BY <1>1, NextCases, ChangingKeeps, BeginKeeps, IterateKeeps, ReturnKeeps
<1>2. CASE UNCHANGED cvars
  BY <1>2 DEF cvars, CollectionsInv, CollectionsTypeOK, GrowingOK, BoundsOK, AdditionsAreVisited
<1>. QED  BY <1>1, <1>2

LEMMA CollectionsInductive == CollectionsSpec => []CollectionsInv
BY CollectionsStart, CollectionsStep, PTL DEF CollectionsSpec

(* No two items of a bag and no two keys of a map are the same to          *)
(* case_compare, however many loops are adding at once; nor are those that *)
(* a select takes without looking (llvm_runtime.c:1428, :1690).            *)
THEOREM KeysStayDistinct == CollectionsSpec => []KeysAreDistinct
<1>1. CollectionsInv => KeysAreDistinct
  <2>. SUFFICES ASSUME CollectionsInv, object.kind # "ARRAY"
                PROVE  /\ DistinctKeys(object, Contents(object))
                       /\ \A n \in DOMAIN loops :
                            loops[n].op = "select" => DistinctKeys(object, loops[n].out)
    BY DEF KeysAreDistinct
  <2>1. Sound(object) /\ loops \in Seq(LoopRecord) /\ DOMAIN loops = 1 .. Len(loops)
    BY LenProperties DEF CollectionsInv, CollectionsTypeOK
  <2>. DEFINE S == Stored(object.kind)
              n == object.length
  <2>2. object.slots \in Seq(S) /\ n = Len(object.slots) /\ n \in 0 .. Len(object.slots)
    BY <2>1, SoundFacts DEF Sound
  <2>. HIDE DEF S
  <2>3. /\ Contents(object) \in Seq(S) /\ Len(Contents(object)) = n
        /\ \A i \in 1 .. n : Contents(object)[i] = object.slots[i]
    BY <2>2, Shortened DEF Contents
  <2>4. \A i, k \in 1 .. n :
          i # k => ~case_compare(KeyOf(object, object.slots[i]), KeyOf(object, object.slots[k]))
    BY <2>2, DistinctByIndex DEF CollectionsInv, GrowingOK
  <2>5. DistinctKeys(object, Contents(object))
    BY <2>3, <2>4, DistinctByIndex
  <2>. QED  BY <2>1, <2>5 DEF CollectionsInv, GrowingOK, Follows, SelectsSome
<1>. QED  BY <1>1, CollectionsInductive, PTL

(* A loop over a bag or a map gives its block every item of the final      *)
(* collection exactly once, those included that the block, or a loop       *)
(* inside it, has added meanwhile (llvm_runtime.c:1405, :1598, :1678).     *)
THEOREM EveryAdditionIsVisited == CollectionsSpec => []AdditionsAreVisited
BY CollectionsInductive, PTL DEF CollectionsInv

(* However its blocks, and the loops inside them, change the collection, a *)
(* loop writes past the buffer it sized at its start only as far as the    *)
(* collection has grown, and selects what is no item only after a pop      *)
(* (llvm_runtime.c:1418, :1609).                                           *)
THEOREM LoopsKeepToTheirBuffers ==
  ASSUME GARBAGE \notin Items \cup Keys
  PROVE  CollectionsSpec => []LoopsStayInBounds
<1>1. CollectionsInv => LoopsStayInBounds
  <2>. SUFFICES ASSUME CollectionsInv PROVE LoopsStayInBounds
    OBVIOUS
  <2>1. Sound(object) /\ loops \in Seq(LoopRecord) /\ DOMAIN loops = 1 .. Len(loops)
    BY LenProperties DEF CollectionsInv, CollectionsTypeOK
  <2>2. GARBAGE \notin Stored(object.kind)
    <3>1. GARBAGE \notin Entries
      BY DEF GARBAGE, Entries
    <3>2. GARBAGE # NULL
      BY DEF GARBAGE, NULL
    <3>. QED  BY <3>1, <3>2 DEF Stored, Plain
  <2>3. ASSUME NEW n \in 1 .. Len(loops)
        PROVE  /\ Len(loops[n].out) <= loops[n].buffer + loops[n].grown
               /\ loops[n].op = "select" /\ ~loops[n].popped => GARBAGE \notin ToSet(loops[n].out)
    <3>. DEFINE loop == loops[n]
    <3>1. loop \in LoopRecord /\ Fits(object, loop)
      BY <2>1, ElementOfSeq DEF CollectionsInv, BoundsOK
    <3>. HIDE DEF loop
    <3>2. /\ loop.i \in Nat /\ Len(loop.out) \in Nat /\ loop.buffer \in Nat /\ loop.grown \in Nat
          /\ loop.out \in Seq(Seen \cup Answers)
      BY <3>1, LoopTypes
    <3>3. Len(loop.out) <= loop.buffer + loop.grown
      BY <3>1, <3>2 DEF Fits, Reached
    <3>4. ASSUME loop.op = "select", ~loop.popped
          PROVE  GARBAGE \notin ToSet(loop.out)
      <4>1. \A j \in 1 .. Len(loop.out) : loop.out[j] # GARBAGE
        BY <2>2, <3>1, <3>4 DEF Fits
      <4>. QED  BY <3>2, <4>1, LenProperties DEF ToSet
    <3>. QED  BY <3>3, <3>4 DEF loop
  <2>4. ASSUME NEW i \in 1 .. object.length
        PROVE  object.slots[i] # GARBAGE
    BY <2>1, <2>2, SoundFacts
  <2>. QED  BY <2>1, <2>3, <2>4 DEF LoopsStayInBounds
<1>. QED  BY <1>1, CollectionsInductive, PTL

-----------------------------------------------------------------------------
(* What a store changes. *)

LEMMA SameIsTransitive ==
  ASSUME NEW a, NEW b, NEW c, case_compare(a, b), case_compare(b, c)
  PROVE  case_compare(a, c)
BY DEF case_compare

(* What a map gives for a key are the first of the entries that have it. *)
LEMMA FoundInMap ==
  ASSUME NEW o, o.kind = "MAP", NEW key
  PROVE  dragonstone_runtime_index_get(o, key) =
           IF EntriesOf(o, key) = {} THEN NULL ELSE o.slots[First(EntriesOf(o, key))].value
BY DEF dragonstone_runtime_index_get, IsMap

LEMMA MapStoresExactly ==
  ASSUME NEW o, Sound(o), o.kind = "MAP", NEW index \in Keys, NEW v \in Items
  PROVE  LET new == dragonstone_runtime_index_set(o, index, v)
         IN  /\ dragonstone_runtime_index_get(new, index) = v
             /\ \A k \in Keys : ~case_compare(index, k) =>
                  dragonstone_runtime_index_get(new, k) = dragonstone_runtime_index_get(o, k)
<1>. DEFINE new == dragonstone_runtime_index_set(o, index, v)
            found == EntriesOf(o, index)
            n == o.length
<1>1. n \in Nat /\ case_compare(index, index)
  BY SoundFacts DEF case_compare
<1>2. CASE found = {} /\ new = Appended(o, Entry(index, v)) /\ Entry(index, v) \in Stored(o.kind)
  <2>1. /\ new.kind = "MAP" /\ new.length = n + 1
        /\ \A i \in 1 .. n : new.slots[i] = o.slots[i]
        /\ new.slots[n + 1] = Entry(index, v)
    BY <1>2, AppendedProperties
  <2>2. Entry(index, v).key = index /\ Entry(index, v).value = v
    BY DEF Entry
  <2>3. \A i \in 1 .. n : ~case_compare(o.slots[i].key, index)
    BY <1>2 DEF EntriesOf
  <2>. HIDE DEF new, n
  <2>4. EntriesOf(new, index) = {n + 1}
    <3>1. \A i \in 1 .. n + 1 : case_compare(new.slots[i].key, index) <=> i = n + 1
      BY <1>1, <2>1, <2>2, <2>3
    <3>. QED  BY <1>1, <2>1, <3>1 DEF EntriesOf
  <2>5. First({n + 1}) = n + 1
    BY <1>1, FirstProperties
  <2>6. dragonstone_runtime_index_get(new, index) = v
    <3>1. dragonstone_runtime_index_get(new, index) = new.slots[n + 1].value
      <4>1. {n + 1} # {}
        OBVIOUS
      <4>2. dragonstone_runtime_index_get(new, index) =
              IF EntriesOf(new, index) = {} THEN NULL
              ELSE new.slots[First(EntriesOf(new, index))].value
        BY <2>1, FoundInMap
      <4>. QED  BY <2>4, <2>5, <4>1, <4>2
    <3>. QED  BY <2>1, <2>2, <3>1
  <2>7. ASSUME NEW k \in Keys, ~case_compare(index, k)
        PROVE  dragonstone_runtime_index_get(new, k) = dragonstone_runtime_index_get(o, k)
    <3>1. EntriesOf(new, k) = {i \in 1 .. n + 1 : case_compare(new.slots[i].key, k)}
      BY <2>1 DEF EntriesOf
    <3>2. EntriesOf(o, k) = {i \in 1 .. n : case_compare(o.slots[i].key, k)}
      BY DEF EntriesOf, n
    <3>3. EntriesOf(new, k) = EntriesOf(o, k) /\ EntriesOf(o, k) \subseteq 1 .. n
      BY <1>1, <2>1, <2>2, <2>7, <3>1, <3>2
    <3>4. EntriesOf(o, k) # {} => First(EntriesOf(o, k)) \in 1 .. n
      BY <3>3, FirstProperties
    <3>. QED  BY <2>1, <3>3, <3>4, FoundInMap
  <2>. QED  BY <2>6, <2>7 DEF new
<1>3. CASE /\ found # {} /\ First(found) \in found
           /\ new.kind = o.kind /\ new.length = o.length
           /\ \A i \in 1 .. n : new.slots[i].key = o.slots[i].key
           /\ \A i \in 1 .. n \ {First(found)} : new.slots[i] = o.slots[i]
           /\ new.slots[First(found)].value = v
  <2>. HIDE DEF new
  <2>1. \A k : EntriesOf(new, k) = EntriesOf(o, k) /\ EntriesOf(o, k) \subseteq 1 .. n
    BY <1>3 DEF EntriesOf
  <2>2. dragonstone_runtime_index_get(new, index) = v
    BY <1>3, <2>1, FoundInMap
  <2>3. ASSUME NEW k \in Keys, ~case_compare(index, k)
        PROVE  dragonstone_runtime_index_get(new, k) = dragonstone_runtime_index_get(o, k)
    <3>1. First(found) \notin EntriesOf(o, k)
      BY <1>3, <2>3, SameIsSymmetric, SameIsTransitive DEF EntriesOf
    <3>2. EntriesOf(o, k) # {} => First(EntriesOf(o, k)) \in EntriesOf(o, k)
      BY <1>1, <2>1, FirstProperties
    <3>3. EntriesOf(o, k) # {} => First(EntriesOf(o, k)) \in 1 .. n \ {First(found)}
      BY <2>1, <3>1, <3>2
    <3>. HIDE DEF found
    <3>. QED  BY <1>3, <2>1, <3>3, FoundInMap
  <2>. QED  BY <2>2, <2>3 DEF new
<1>. QED  BY <1>2, <1>3, MapStored

LEMMA ArrayStoresExactly ==
  ASSUME NEW o, Sound(o), o.kind = "ARRAY", NEW index \in Keys, NEW v \in Items,
         IsInt(index), Position(o, index.i) > 0,
         dragonstone_runtime_index_set(o, index, v).length <= MaxItems,
         \A i \in 0 .. MaxItems : Wrap(i) = i
  PROVE  LET new == dragonstone_runtime_index_set(o, index, v)
             p == box_i64(Position(o, index.i) - 1)
         IN  /\ dragonstone_runtime_index_get(new, p) = v
             /\ \A i \in 1 .. new.length : Int64(i - 1) # p =>
                  new.slots[i] = IF i <= o.length THEN o.slots[i] ELSE NULL
<1>. DEFINE new == dragonstone_runtime_index_set(o, index, v)
            position == Position(o, index.i)
            p == box_i64(position - 1)
<1>1. /\ position \in Int /\ position > 0
      /\ new.kind = "ARRAY"
      /\ new.length = IF position > o.length THEN position ELSE o.length
      /\ new.slots[position] = v
      /\ \A i \in 1 .. new.length :
           i # position => new.slots[i] = IF i <= o.length THEN o.slots[i] ELSE NULL
  BY ArrayStored
<1>2. o.length \in Nat /\ new.length <= MaxItems /\ MaxItems \in Nat
  BY SoundFacts, CollectionsAssumption
<1>. HIDE DEF new, position
<1>3. position - 1 \in 0 .. MaxItems /\ position \in 1 .. new.length
  BY <1>1, <1>2
<1>4. p = Int64(position - 1)
  BY <1>3 DEF box_i64
<1>. HIDE DEF p
<1>5. IsInt(p) /\ p.i = position - 1
  BY <1>4 DEF Int64, IsInt
<1>6. Position(new, p.i) = position
  BY <1>3, <1>5 DEF Position
<1>7. dragonstone_runtime_index_get(new, p) = v
  BY <1>1, <1>3, <1>5, <1>6 DEF dragonstone_runtime_index_get, IsMap
<1>8. \A i \in 1 .. new.length : Int64(i - 1) # p => i # position
  BY <1>4
<1>. QED  BY <1>1, <1>7, <1>8 DEF new, position, p

(* An assignment is found again and changes nothing else: no other entry   *)
(* of a map, no other element of an array, which is filled with NULL where *)
(* it must reach further and never with what was popped from it            *)
(* (llvm_runtime.c:2577-2619), provided that a length is a 64-bit integer. *)
THEOREM AssignmentsAreExact ==
  ASSUME \A i \in 0 .. MaxItems : Wrap(i) = i
  PROVE  CollectionsSpec => StoresAreExact
<1>1. CollectionsTypeOK => StoredIsFound
  <2>. SUFFICES ASSUME Sound(object), NEW index \in Keys, NEW v \in Items, IndexSet(index, v)
                PROVE  LET stored == IsMap(object)
                                     \/ (IsInt(index) /\ Position(object, index.i) > 0)
                           p == IF IsMap(object) \/ ~IsInt(index) THEN index
                                ELSE box_i64(Position(object, index.i) - 1)
                       IN  /\ stored => dragonstone_runtime_index_get(object', p) = v
                           /\ ~stored => Contents(object') = Contents(object)
                           /\ IsMap(object) =>
                                \A k \in Keys : ~case_compare(index, k) =>
                                  dragonstone_runtime_index_get(object', k)
                                    = dragonstone_runtime_index_get(object, k)
                           /\ ~IsMap(object) =>
                                \A i \in 1 .. object'.length : Int64(i - 1) # p \/ ~stored =>
                                  object'.slots[i] = IF i <= object.length THEN object.slots[i]
                                                     ELSE NULL
    BY DEF StoredIsFound, CollectionsTypeOK
  <2>. DEFINE new == dragonstone_runtime_index_set(object, index, v)
  <2>1. object' = new /\ new.length <= MaxItems /\ object.kind \in {"ARRAY", "MAP"}
    BY DEF IndexSet, Changing, Sound
  <2>2. CASE object.kind = "MAP"
    <3>1. IsMap(object)
      BY <2>2 DEF IsMap
    <3>. HIDE DEF new
    <3>2. /\ dragonstone_runtime_index_get(new, index) = v
          /\ \A k \in Keys : ~case_compare(index, k) =>
               dragonstone_runtime_index_get(new, k) = dragonstone_runtime_index_get(object, k)
      BY <2>2, MapStoresExactly DEF new
    <3>. QED  BY <2>1, <3>1, <3>2
  <2>3. CASE object.kind = "ARRAY" /\ IsInt(index) /\ Position(object, index.i) > 0
    <3>. DEFINE p == box_i64(Position(object, index.i) - 1)
    <3>1. ~IsMap(object)
      BY <2>3 DEF IsMap
    <3>2. /\ dragonstone_runtime_index_get(new, p) = v
          /\ \A i \in 1 .. new.length : Int64(i - 1) # p =>
               new.slots[i] = IF i <= object.length THEN object.slots[i] ELSE NULL
      BY <2>1, <2>3, ArrayStoresExactly
    <3>. HIDE DEF new, p
    <3>. QED  BY <2>1, <2>3, <3>1, <3>2 DEF p
  <2>4. CASE object.kind = "ARRAY" /\ ~(IsInt(index) /\ Position(object, index.i) > 0)
    <3>1. ~IsMap(object) /\ new = object
      <4>1. CASE ~IsInt(index)
        BY <2>4, <4>1 DEF dragonstone_runtime_index_set, IsMap
      <4>2. CASE IsInt(index)
        <5>1. Position(object, index.i) \in Int
          BY <2>4, <4>2, ArrayStored
        <5>. QED  BY <2>4, <4>2, <5>1, ArrayStored DEF IsMap
      <4>. QED  BY <4>1, <4>2
    <3>2. object.length \in Nat
      BY SoundFacts
    <3>. HIDE DEF new
    <3>. QED  BY <2>1, <2>4, <3>1, <3>2
  <2>. QED  BY <2>1, <2>2, <2>3, <2>4
<1>2. CollectionsInv => CollectionsTypeOK
  BY DEF CollectionsInv
<1>. QED  BY <1>1, <1>2, CollectionsInductive, PTL DEF StoresAreExact
=============================================================================
