-------------------------- MODULE LlvmCollections --------------------------
(***************************************************************************)
(* An array, a bag or a map of a compiled program, and the loops of        *)
(* llvm_runtime.c that call a block for each of its items. The block may   *)
(* change the collection or start another loop over it: a loop reads the   *)
(* length and the items again after every call, but sizes its buffer once. *)
(***************************************************************************)
EXTENDS LlvmRanges, SequencesExt

CONSTANTS
  Items,        \* values that are stored
  Keys,         \* values that are used as keys and indices
  Answers,      \* values a block returns
  MaxItems,     \* bound: length past which nothing is added
  MaxLoops      \* bound: loops within one another

ASSUME CollectionsAssumption == {MaxItems, MaxLoops} \subseteq Nat
ASSUME KeysAssumption ==
  /\ \A key \in Keys : IsInt(key) => key.i \in Ints(W64)
  /\ NaN \notin Keys   \* found or not by the box it is in: left out

VARIABLES
  object,       \* the collection: slots in memory, of which the first length are its own
  loops,        \* the loops over it, the innermost last
  finished      \* history: the loop that has just ended, <<>> if none

cvars == <<object, loops, finished>>

(* Memory that was never written, or is not the array's any more. *)
GARBAGE == [kind |-> "GARBAGE"]
Entry(key, value) == [key |-> key, value |-> value]

Collection(kind, slots) == [kind |-> kind, slots |-> slots, length |-> Len(slots)]
IsMap(o)    == o.kind = "MAP"
Contents(o) == SubSeq(o.slots, 1, o.length)
Slot(o, i)  == IF i <= Len(o.slots) THEN o.slots[i] ELSE GARBAGE
KeyOf(o, x) == IF IsMap(o) THEN x.key ELSE x

-----------------------------------------------------------------------------
(* Storing                                                                 *)

(* realloc to one more than the length, which gives up what was popped.    *)
Appended(o, x) == Collection(o.kind, Append(Contents(o), x))

dragonstone_runtime_array_push(o, v) == Appended(o, v)

(* pop only counts down. *)
array_pop(o) == IF o.length = 0 THEN o ELSE [o EXCEPT !.length = @ - 1]

AddWithoutLooking(o, v) == Appended(o, v)

bag_add(o, v) ==
  IF \E i \in 1 .. o.length : case_compare(o.slots[i], v) THEN o ELSE Appended(o, v)

(* The position an index means, 1 for the first; negative ones count back. *)
Position(o, i) == 1 + IF i < 0 THEN o.length + i ELSE i

GrownUnfilled(o, position) == Collection("ARRAY", [i \in 1 .. position |-> Slot(o, i)])

(* The array reaches up to the position, with NULL in between. *)
GrownTo(o, position) ==
  Collection("ARRAY", [i \in 1 .. position |-> IF i <= o.length THEN o.slots[i] ELSE NULL])

EntriesOf(o, key) == {i \in 1 .. o.length : case_compare(o.slots[i].key, key)}
First(indices)    == CHOOSE i \in indices : \A k \in indices : i <= k

dragonstone_runtime_index_set(o, index, v) ==
  IF IsMap(o)
  THEN LET found == EntriesOf(o, index)
       IN  IF found = {} THEN Appended(o, Entry(index, v))
           ELSE [o EXCEPT !.slots[First(found)].value = v]
  ELSE LET p == Position(o, index.i)
       IN  IF o.kind # "ARRAY" \/ ~IsInt(index) THEN o
           ELSE LET big == IF p > o.length THEN GrownTo(o, p) ELSE o
                IN  IF p > 0 THEN [big EXCEPT !.slots[p] = v] ELSE big

dragonstone_runtime_index_get(o, index) ==
  IF IsMap(o)
  THEN LET found == EntriesOf(o, index)
       IN  IF found = {} THEN NULL ELSE o.slots[First(found)].value
  ELSE IF o.kind = "ARRAY" /\ IsInt(index) /\ Position(o, index.i) \in 1 .. o.length
       THEN o.slots[Position(o, index.i)] ELSE NULL

-----------------------------------------------------------------------------
(* Loops                                                                   *)

(* argc is the number of arguments of inject; buffer the slots allocated   *)
(* for the results. The rest is history: the items given to the block, its *)
(* answers, the collection at the start while nothing has changed it, how  *)
(* much longer than then it has been, and whether anything was popped.     *)
Loop(op, argc, memo) ==
  [op |-> op, argc |-> argc, memo |-> memo, i |-> 1, at |-> "loop", buffer |-> object.length,
   out |-> <<>>, asked |-> <<>>, answers |-> <<>>, start |-> Contents(object), changed |-> FALSE,
   grown |-> 0, popped |-> FALSE]

Disturbed(loop, new) ==
  [loop EXCEPT !.changed = TRUE, !.start = <<>>, !.answers = <<>>,
               !.grown = IF new.length > @ + loop.buffer THEN new.length - loop.buffer ELSE @,
               !.popped = @ \/ new.length < object.length]

Ops(o) == {"each", "select", "inject", "until"} \cup IF o.kind = "BAG" THEN {"map"} ELSE {}

Top       == loops[Len(loops)]
InProgram == loops # <<>> => Top.at = "block"

(* inject without an argument starts from the first item. Over a map it    *)
(* does so whenever there is no memo.                                      *)
TakesMemo(loop) ==
  loop.op = "inject" /\ loop.argc = 0 /\ loop.memo = NULL /\ (IsMap(object) \/ loop.i = 1)

ValueOf(x) == IF IsMap(object) THEN x.value ELSE x

Result(loop) ==
  CASE loop.op = "each"   -> object
    [] loop.op = "inject" -> loop.memo
    [] loop.op = "until"  -> NULL
    [] OTHER              -> loop.out

(* Only true chooses; not whatever is truthy. *)
ChoosesTruthy(v) == is_truthy(v)
Chooses(v) == case_compare(v, Bool(TRUE))

(* The length is read again before each call. *)
MoreThanAtStart(loop) == loop.i <= loop.buffer
OneMore(loop) == loop.i <= object.length + IF IsMap(object) THEN 0 ELSE 1
More(loop) == loop.i <= object.length

(* What an answer does to the loop; the item is read again. *)
Answered(loop, v) ==
  LET next == [loop EXCEPT !.at = "loop", !.i = @ + 1,
                            !.answers = IF loop.changed THEN @ ELSE Append(@, v)]
  IN  CASE loop.op = "select" /\ Chooses(v) -> [next EXCEPT !.out = Append(@, Slot(object, loop.i))]
        [] loop.op = "map"              -> [next EXCEPT !.out = Append(@, v)]
        [] loop.op = "inject"           -> [next EXCEPT !.memo = v]
        [] OTHER                        -> next

Ends(loop, result) ==
  /\ finished' = <<[loop |-> loop, result |-> result]>>
  /\ loops' = Front(loops)

Changing(new) ==
  /\ InProgram
  /\ object' = new
  /\ loops' = IF new = object THEN loops ELSE [n \in DOMAIN loops |-> Disturbed(loops[n], new)]
  /\ finished' = <<>>

Push == \E v \in Items : object.kind = "ARRAY" /\ object.length < MaxItems
                         /\ Changing(dragonstone_runtime_array_push(object, v))

Pop == object.kind = "ARRAY" /\ Changing(array_pop(object))

Add == \E v \in Keys : object.kind = "BAG" /\ object.length < MaxItems /\ Changing(bag_add(object, v))

IndexSet(index, v) ==
  LET new == dragonstone_runtime_index_set(object, index, v)
  IN  object.kind # "BAG" /\ new.length <= MaxItems /\ Changing(new)

Begin ==
  /\ InProgram /\ Len(loops) < MaxLoops
  /\ \E op \in Ops(object), argc \in {0, 1}, memo \in Answers :
       /\ op # "inject" => argc = 0
       /\ loops' = Append(loops, Loop(op, argc, IF argc = 1 THEN memo ELSE NULL))
  /\ finished' = <<>>
  /\ UNCHANGED object

Iterate ==
  /\ loops # <<>> /\ Top.at = "loop"
  /\ IF More(Top)
     THEN LET x == Slot(object, Top.i)
          IN  /\ loops' = Append(Front(loops),
                   IF TakesMemo(Top) THEN [Top EXCEPT !.i = @ + 1, !.memo = ValueOf(x)]
                   ELSE [Top EXCEPT !.at = "block", !.asked = Append(@, x)])
              /\ finished' = <<>>
     ELSE Ends(Top, Result(Top))
  /\ UNCHANGED object

BlockReturns ==
  /\ loops # <<>> /\ Top.at = "block"
  /\ \E v \in Answers :
       IF Top.op = "until" /\ Chooses(v)
       THEN Ends(Answered(Top, v), Slot(object, Top.i))
       ELSE loops' = Append(Front(loops), Answered(Top, v)) /\ finished' = <<>>
  /\ UNCHANGED object

(* Array and map literals, and a new bag. *)
CollectionsInit ==
  /\ object \in {Collection("ARRAY", s) : s \in {<<>>} \cup [{1, 2} -> Items]}
                \cup {Collection("MAP", <<>>), Collection("BAG", <<>>)}
  /\ loops = <<>>
  /\ finished = <<>>

CollectionsNext ==
  \/ Push
  \/ Pop
  \/ Add
  \/ \E index \in Keys, v \in Items : IndexSet(index, v)
  \/ Begin
  \/ Iterate
  \/ BlockReturns

CollectionsSpec == CollectionsInit /\ [][CollectionsNext]_cvars
-----------------------------------------------------------------------------
(* What is stored is found again, and only that has changed: an array that *)
(* must reach further is filled with NULL and never with what was popped,  *)
(* a map gets no second entry for a key it has (llvm_runtime.c:2577-2619). *)
StoredIsFound ==
  \A index \in Keys, v \in Items : IndexSet(index, v) =>
    LET stored == IsMap(object) \/ (IsInt(index) /\ Position(object, index.i) > 0)
        p == IF IsMap(object) \/ ~IsInt(index) THEN index ELSE box_i64(Position(object, index.i) - 1)
    IN  /\ stored => dragonstone_runtime_index_get(object', p) = v
        /\ ~stored => Contents(object') = Contents(object)
        /\ IsMap(object) =>
             \A k \in Keys : ~case_compare(index, k) =>
               dragonstone_runtime_index_get(object', k) = dragonstone_runtime_index_get(object, k)
        /\ ~IsMap(object) =>
             \A i \in 1 .. object'.length : Int64(i - 1) # p \/ ~stored =>
               object'.slots[i] = IF i <= object.length THEN object.slots[i] ELSE NULL

StoresAreExact == [][StoredIsFound]_cvars

(* No two items of a bag, and no two keys of a map built by assignments,   *)
(* are the same to case_compare, not even when they are added by a block   *)
(* that a loop over them calls; nor are those that such a loop selects     *)
(* without looking (llvm_runtime.c:1388, :1428, :1690).                    *)
DistinctKeys(o, s) ==
  \A i, k \in DOMAIN s : i # k => ~case_compare(KeyOf(o, s[i]), KeyOf(o, s[k]))

KeysAreDistinct ==
  object.kind # "ARRAY" =>
    /\ DistinctKeys(object, Contents(object))
    /\ \A n \in DOMAIN loops : loops[n].op = "select" => DistinctKeys(object, loops[n].out)

(* A loop whose block leaves the collection alone gives it every item once *)
(* and in order, up to the one that ends an "until", and comes to what the *)
(* answers say (llvm_runtime.c:1405-1480, :1598-1650, :1678-1747). Only    *)
(* true chooses an item, not what else is truthy. An inject without an     *)
(* argument skips the first item; over a map, every item for as long as    *)
(* the memo is NULL.                                                       *)
LoopsAgree ==
  finished # <<>> /\ ~finished[1].loop.changed =>
    LET loop    == finished[1].loop
        result  == finished[1].result
        n       == Len(loop.answers)
        chosen  == {i \in 1 .. n : loop.answers[i] = Bool(TRUE)}
        picked  == SelectSeq([i \in 1 .. n |-> <<i, loop.asked[i]>>], LAMBDA x : x[1] \in chosen)
        skipped == Len(loop.start) - n
    IN  CASE loop.op = "until" ->
               /\ loop.asked = SubSeq(loop.start, 1, n)
               /\ IF chosen = {} THEN result = NULL /\ n = Len(loop.start)
                  ELSE chosen = {n} /\ result = loop.start[n]
          [] loop.op = "inject" /\ IsMap(object) /\ loop.argc = 0 ->
               /\ \A i \in 1 .. n : i > 1 /\ loop.answers[i - 1] # NULL =>
                    \E k \in 2 .. Len(loop.start) : loop.start[k] = loop.asked[i]
                                                   /\ loop.start[k - 1] = loop.asked[i - 1]
               /\ NULL \notin (ToSet(loop.answers) \cup {e.value : e \in ToSet(loop.start)}) =>
                    skipped = IF loop.start = <<>> THEN 0 ELSE 1
          [] loop.op = "inject" /\ ~(IsMap(object) /\ loop.argc = 0) ->
               /\ skipped = IF loop.argc = 0 /\ loop.start # <<>> THEN 1 ELSE 0
               /\ loop.asked = SubSeq(loop.start, 1 + skipped, Len(loop.start))
               /\ n > 0 => result = loop.answers[n]
               /\ n = 0 /\ skipped = 1 => result = loop.start[1]
          [] OTHER ->
               /\ loop.asked = loop.start
               /\ loop.op = "select" => result = [i \in DOMAIN picked |-> picked[i][2]]
               /\ loop.op = "map" => result = loop.answers
               /\ loop.op = "each" => Contents(result) = loop.start

(* Bags and maps only grow, at the end, so a loop gives its block what the *)
(* block itself adds, and every item of the final collection exactly once. *)
AdditionsAreVisited ==
  finished # <<>> /\ object.kind # "ARRAY" /\ finished[1].loop.op \in {"each", "select", "map"} =>
    [i \in DOMAIN finished[1].loop.asked |-> KeyOf(object, finished[1].loop.asked[i])]
      = [i \in 1 .. object.length |-> KeyOf(object, object.slots[i])]

(* A loop writes past the end of the buffer it sized at its start only as  *)
(* far as the collection has grown since, however it was changed and       *)
(* changed back in between (llvm_runtime.c:1418, :1609). What it selects   *)
(* is read again after the block, and is an item unless the block, or one  *)
(* of a loop inside it, has popped.                                        *)
LoopsStayInBounds ==
  /\ \A n \in DOMAIN loops :
       /\ Len(loops[n].out) <= loops[n].buffer + loops[n].grown
       /\ loops[n].op = "select" /\ ~loops[n].popped => GARBAGE \notin ToSet(loops[n].out)
  /\ \A i \in 1 .. object.length : object.slots[i] # GARBAGE
=============================================================================
