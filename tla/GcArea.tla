------------------------------- MODULE GcArea -------------------------------
(***************************************************************************)
(* The memory manager of the Dragonstone runtime ABI                       *)
(* (shared/runtime/abi/std/gc/gc.c): allocation areas over malloc, nested  *)
(* through parent pointers, with everything outside an area delegated to   *)
(* the Boehm collector.                                                    *)
(*                                                                         *)
(* A block stands for one result of malloc or GC_MALLOC, so addresses are  *)
(* never reused; blocks and areas are numbered in the order in which they  *)
(* are obtained.  What the collector does (GC_MALLOC, GC_gcollect,         *)
(* finalizers) is external and modelled by its interface.                  *)
(***************************************************************************)
EXTENDS Integers, Sequences, FiniteSets, SequencesExt

CONSTANTS
  MaxBlocks,        \* bound: blocks ever obtained from malloc or GC_MALLOC
  MaxAreas,         \* bound: areas ever begun
  MaxDisable,       \* bound: nesting of dragonstone_gc_disable, and GC_disable calls in force
  MaxBytes,         \* bound: total_allocated past which realloc grows no block
  MaxTrusted,       \* bound: references followed by the history variable trusted
  Sizes,            \* the sizes clients ask for
  InitialCapacity,  \* first capacity of an area's tracking array (64 in gc.c)
  Failing           \* which allocators may fail

Allocators == {"malloc", "boehm", "tracking"}

ASSUME BoundsAssumption ==
  /\ MaxBlocks \in Nat
  /\ MaxAreas \in Nat
  /\ MaxDisable \in Nat
  /\ MaxBytes \in Nat
  /\ MaxTrusted \in Nat
ASSUME SizesAssumption == Sizes \subseteq Nat
ASSUME CapacityAssumption == InitialCapacity \in Nat \ {0}
ASSUME FailingAssumption == Failing \subseteq Allocators

VARIABLES
  gc,         \* dragonstone_gc_global, without its byte counters
  stats,      \* its counters total_allocated and total_freed
  areas,      \* the DragonstoneGcArea structures begun so far, oldest first
  heap,       \* the blocks obtained so far, oldest first
  boehm_off,  \* external: Boehm's count of GC_disable calls in force
  finalized,  \* history: what became of the finalizer registered with a block
  trusted     \* history: references stored past a silent write barrier

vars == <<gc, stats, areas, heap, boehm_off, finalized, trusted>>

(* Areas and blocks are numbered from 1. *)
NULL == 0

Blocks == 1 .. Len(heap)
AreaIds == 1 .. Len(areas)

-----------------------------------------------------------------------------
(* Areas: the parent chain and the tracking array. *)

(* An area, its parent, and so on up to the root: fixed when it begins. *)
Lineage(a) == IF a = NULL THEN <<>> ELSE areas[a].lineage

(* Mutant: ending an area leaves no area current. *)
NoParent(a) == NULL

Parent(a) == IF Len(areas[a].lineage) > 1 THEN areas[a].lineage[2] ELSE NULL

(* Mutant: the relation the other way round. *)
IsDescendant(a, b) == \E i \in 2 .. Len(Lineage(a)) : Lineage(a)[i] = b

(* Is area a a proper ancestor of area b? *)
IsAncestor(a, b) == \E i \in 2 .. Len(Lineage(b)) : Lineage(b)[i] = a

Tracks(a, p) ==
  \E i \in 1 .. Len(areas[a].allocations) : areas[a].allocations[i].ptr = p

(* Mutant: only the current area is searched. *)
FindInCurrent(p) ==
  IF gc.current_area # NULL /\ Tracks(gc.current_area, p) THEN gc.current_area ELSE NULL

(* The innermost area on the current chain that tracks a block. *)
FindArea(p) ==
  LET chain == Lineage(gc.current_area)
      Holds(i) == Tracks(chain[i], p)
  IN  IF \E i \in 1 .. Len(chain) : Holds(i)
      THEN chain[CHOOSE i \in 1 .. Len(chain) :
                   Holds(i) /\ \A j \in 1 .. i - 1 : ~Holds(j)]
      ELSE NULL

SlotOf(a, p) ==
  CHOOSE i \in 1 .. Len(areas[a].allocations) : areas[a].allocations[i].ptr = p

Grown(capacity) == IF capacity = 0 THEN InitialCapacity ELSE 2 * capacity

(* What a call that follows the chain does once an area on it has ended is *)
(* undefined and not modelled.                                             *)
ChainOpen == \A i \in 1 .. Len(Lineage(gc.current_area)) :
               areas[Lineage(gc.current_area)[i]].state = "open"

(* Mutant: the entry is written before the array is checked for room. *)
TrackUnchecked(area, entry, grows) ==
  [area EXCEPT !.allocations = Append(@, entry), !.total_bytes = @ + entry.size]

(* Mutant: only an empty array ever grows. *)
TrackWithoutDoubling(area, entry, grows) ==
  LET capacity == IF area.capacity = 0 THEN InitialCapacity ELSE area.capacity
  IN  IF Len(area.allocations) < capacity
      THEN [area EXCEPT !.capacity    = capacity,
                        !.allocations = Append(@, entry),
                        !.total_bytes = @ + entry.size]
      ELSE area

(* A full array grows before the entry is appended; when it cannot grow,  *)
(* the entry is silently dropped.                                         *)
Track(area, entry, grows) ==
  LET capacity == IF Len(area.allocations) >= area.capacity /\ grows
                  THEN Grown(area.capacity) ELSE area.capacity
  IN  IF Len(area.allocations) < capacity
      THEN [area EXCEPT !.capacity    = capacity,
                        !.allocations = Append(@, entry),
                        !.total_bytes = @ + entry.size]
      ELSE area

(* The last entry takes the place of the removed one. *)
SwapRemove(s, i) ==
  [k \in 1 .. Len(s) - 1 |-> IF k = i THEN s[Len(s)] ELSE s[k]]

(* Mutant: the entry stays in the array it escaped from. *)
UntrackNothing(area, i) == area

(* Mutant: the area's byte count is not reduced. *)
UntrackKeepingBytes(area, i) == [area EXCEPT !.allocations = SwapRemove(@, i)]

Untrack(area, i) ==
  [area EXCEPT !.total_bytes = @ - area.allocations[i].size,
               !.allocations = SwapRemove(@, i)]

(* All these numbers added up, from the first. *)
Total(numbers) ==
  LET sum[k \in 0 .. Len(numbers)] == IF k = 0 THEN 0 ELSE sum[k - 1] + numbers[k]
  IN  sum[Len(numbers)]

SumSizes(allocations) == Total([i \in 1 .. Len(allocations) |-> allocations[i].size])

(* What the areas on the current chain track together. *)
ChainBytes ==
  LET chain == Lineage(gc.current_area)
  IN  Total([i \in 1 .. Len(chain) |-> SumSizes(areas[chain[i]].allocations)])

-----------------------------------------------------------------------------
(* Memory obtained from malloc and from the collector. *)

Live(p) == heap[p].state \in {"malloc", "boehm"}

(* Which outcomes a call of an allocator can have. *)
Outcomes(allocator) == IF allocator \in Failing THEN BOOLEAN ELSE {TRUE}

(* External: a collection reclaims Boehm blocks the program may have       *)
(* dropped, running the finalizers registered for them, and none while     *)
(* GC_disable holds.  What is stored in a Boehm block that stays is not    *)
(* reclaimed; memory from malloc the collector does not scan.              *)
Reclaimable ==
  IF boehm_off > 0 THEN {{}}
  ELSE {S \in SUBSET {p \in Blocks : heap[p].state = "boehm"} :
          \A r \in trusted : r[2] \in S /\ heap[r[1]].state = "boehm" => r[1] \in S}

Reclaimed(S) ==
  [p \in Blocks |-> IF p \in S THEN [heap[p] EXCEPT !.state = "collected"]
                    ELSE heap[p]]

(* A finalizer is registered with a block at most once and then follows   *)
(* the object from block to block.                                        *)
Finalizing(runs) ==
  [p \in 1 .. MaxBlocks |->
     IF runs[p] THEN IF finalized[p] = "pending" THEN "done" ELSE "again"
     ELSE finalized[p]]

FinalizedBy(S) ==
  Finalizing([p \in 1 .. MaxBlocks |-> \E q \in S : heap[q].finalizer = p])

-----------------------------------------------------------------------------
(* Initialisation and allocation. *)

Startup == [current_area |-> NULL, disable_depth |-> 0,
            initialized |-> TRUE, area_count |-> 0]

(* Allocation and begin_area initialise the manager on first use. *)
Ready == IF gc.initialized THEN gc ELSE Startup

Counters ==
  IF gc.initialized THEN stats ELSE [total_allocated |-> 0, total_freed |-> 0]

dragonstone_gc_init ==
  /\ gc' = Ready
  /\ stats' = Counters
  /\ UNCHANGED <<areas, heap, boehm_off, finalized, trusted>>

Backing == IF Ready.current_area = NULL THEN "boehm" ELSE "malloc"

(* A block of this size, after a collection that reclaimed S. *)
Obtain(size, finalizable, S) ==
  LET a == Ready.current_area
      p == Len(heap) + 1
      finalizer == IF finalizable THEN p ELSE NULL
  IN
  /\ ChainOpen
  /\ Len(heap) < MaxBlocks
  /\ gc' = Ready
  /\ stats' = [Counters EXCEPT !.total_allocated = @ + size]
  /\ finalized' = IF finalizable THEN [FinalizedBy(S) EXCEPT ![p] = "pending"]
                  ELSE FinalizedBy(S)
  /\ UNCHANGED <<boehm_off, trusted>>
  /\ \/ /\ a # NULL
        /\ heap' = Append(Reclaimed(S), [state |-> "malloc", finalizer |-> NULL])
        /\ \E grows \in Outcomes("tracking") :
             areas' = [areas EXCEPT ![a] =
               Track(@, [ptr |-> p, size |-> size, finalizer |-> finalizer], grows)]
     \/ /\ a = NULL
        /\ heap' = Append(Reclaimed(S), [state |-> "boehm", finalizer |-> finalizer])
        /\ UNCHANGED areas

(* NULL is returned, after a collection that reclaimed S. *)
ObtainNothing(S) ==
  /\ Backing \in Failing
  /\ gc' = Ready
  /\ stats' = Counters
  /\ heap' = Reclaimed(S)
  /\ finalized' = FinalizedBy(S)
  /\ UNCHANGED <<areas, boehm_off, trusted>>

(* What dragonstone_gc_collect may reclaim at this point. *)
Collectable == IF Ready.disable_depth = 0 THEN Reclaimable ELSE {{}}

(* A failed first attempt collects and tries once more. *)
dragonstone_gc_alloc(size) ==
  \/ Obtain(size, FALSE, {})
  \/ /\ Backing \in Failing
     /\ \E S \in Collectable : Obtain(size, FALSE, S) \/ ObtainNothing(S)

dragonstone_gc_alloc_with_finalizer(size) ==
  Obtain(size, TRUE, {}) \/ ObtainNothing({})

(* Mutant: a block that grows is not counted. *)
GrowthUncounted(old, size) == 0

(* What a realloc adds to total_allocated. *)
Growth(old, size) == IF size > old THEN size - old ELSE 0

(* The entry of a resized block keeps its slot, whether the block moved or not. *)
Resized(area, i, p, size) ==
  [area EXCEPT !.allocations[i] = [@ EXCEPT !.ptr = p, !.size = size],
               !.total_bytes = @ - area.allocations[i].size + size]

(* GC_REALLOC of a Boehm block keeps the block and changes nothing here.   *)
(* realloc of an area block may move it.                                   *)
dragonstone_gc_realloc(p, size) ==
  LET a == FindArea(p)
      i == SlotOf(a, p)
      old == areas[a].allocations[i].size
      growth == Growth(old, size)
  IN
  /\ ChainOpen
  /\ Live(p)
  /\ size # 0
  /\ a # NULL
  /\ stats.total_allocated + growth <= MaxBytes
  /\ stats' = [stats EXCEPT !.total_allocated = @ + growth]
  /\ \/ /\ areas' = [areas EXCEPT ![a] = Resized(@, i, p, size)]
        /\ UNCHANGED <<heap, trusted>>
     \/ /\ Len(heap) < MaxBlocks
        /\ areas' = [areas EXCEPT ![a] = Resized(@, i, Len(heap) + 1, size)]
        /\ heap' = Append([heap EXCEPT ![p].state = "freed"],
                          [state |-> "malloc", finalizer |-> NULL])
        /\ trusted' = {r \in trusted : p \notin {r[1], r[2]}}
  /\ UNCHANGED <<gc, boehm_off, finalized>>

-----------------------------------------------------------------------------
(* Areas. *)

dragonstone_gc_begin_area ==
  LET a == Len(areas) + 1
  IN
  /\ ChainOpen
  /\ Len(areas) < MaxAreas
  /\ stats' = Counters
  /\ \/ /\ gc' = [Ready EXCEPT !.current_area = a, !.area_count = @ + 1]
        /\ areas' = Append(areas,
             [state |-> "open", lineage |-> <<a>> \o Lineage(Ready.current_area),
              allocations |-> <<>>, capacity |-> 0, total_bytes |-> 0])
     \/ /\ "boehm" \in Failing
        /\ gc' = Ready
        /\ UNCHANGED areas
  /\ UNCHANGED <<heap, boehm_off, finalized, trusted>>

(* Mutant: the blocks of the parent area go as well. *)
FreedWithParents(A) ==
  [p \in Blocks |->
     IF \E a \in A : Tracks(a, p) \/ (Parent(a) # NULL /\ Tracks(Parent(a), p))
     THEN [heap[p] EXCEPT !.state = "freed"] ELSE heap[p]]

(* The heap once the blocks tracked by the areas A have been freed, and the *)
(* finalizers run by then.                                                  *)
FreedWith(A) ==
  [p \in Blocks |-> IF \E a \in A : Tracks(a, p) THEN [heap[p] EXCEPT !.state = "freed"]
                    ELSE heap[p]]

Finalizes(a, p) ==
  \E i \in 1 .. Len(areas[a].allocations) : areas[a].allocations[i].finalizer = p

FinalizedWith(A) ==
  Finalizing([p \in 1 .. MaxBlocks |-> \E a \in A : Finalizes(a, p)])

(* Its tracking array and name are freed; what is left in the structure is *)
(* of no use to anyone.                                                    *)
Ended(area) ==
  [area EXCEPT !.state = "ended", !.allocations = <<>>, !.capacity = 0, !.total_bytes = 0]

(* Ending any area other than the current one only warns: the current area *)
(* becomes the parent of the ended one all the same.                       *)
dragonstone_gc_end_area(a) ==
  /\ areas[a].state = "open"
  /\ heap' = FreedWith({a})
  /\ finalized' = FinalizedWith({a})
  /\ stats' = [stats EXCEPT !.total_freed = @ + SumSizes(areas[a].allocations)]
  /\ gc' = [gc EXCEPT !.current_area = Parent(a), !.area_count = @ - 1]
  /\ areas' = [areas EXCEPT ![a] = Ended(@)]
  /\ UNCHANGED <<boehm_off, trusted>>

(* Every area from the current one to the root is ended, then the collector *)
(* runs a last time, whatever disable_depth is.                             *)
dragonstone_gc_shutdown ==
  LET chain == ToSet(Lineage(gc.current_area))
  IN
  /\ gc.initialized
  /\ ChainOpen
  /\ gc' = [gc EXCEPT !.current_area = NULL, !.initialized = FALSE,
                      !.area_count = @ - Len(Lineage(gc.current_area))]
  /\ areas' = [a \in AreaIds |-> IF a \in chain THEN Ended(areas[a]) ELSE areas[a]]
  /\ stats' = [stats EXCEPT !.total_freed = @ + ChainBytes]
  /\ \E S \in Reclaimable :
       /\ heap' = [p \in Blocks |-> IF p \in S THEN Reclaimed(S)[p] ELSE FreedWith(chain)[p]]
       /\ finalized' = Finalizing([p \in 1 .. MaxBlocks |->
            (\E a \in chain : Finalizes(a, p)) \/ (\E q \in S : heap[q].finalizer = p)])
  /\ UNCHANGED <<boehm_off, trusted>>

-----------------------------------------------------------------------------
(* Escape. *)

Forget(p) == trusted' = {r \in trusted : p \notin {r[1], r[2]}}

(* A zero-sized block leaves its area and reaches no other: its size is    *)
(* taken for "not found".                                                  *)
EscapeLost(p, s) ==
  /\ areas' = [areas EXCEPT ![s] = Untrack(@, SlotOf(s, p))]
  /\ UNCHANGED heap

EscapeToArea(p, s, target) ==
  LET i == SlotOf(s, p)
      entry == areas[s].allocations[i]
  IN
  /\ \E grows \in Outcomes("tracking") :
       areas' = [areas EXCEPT ![s] = Untrack(@, i), ![target] = Track(@, entry, grows)]
  /\ UNCHANGED heap

(* Mutant: the copy's finalizer is not registered with the collector. *)
EscapeWithoutFinalizer(p, s) ==
  /\ Len(heap) < MaxBlocks
  /\ areas' = [areas EXCEPT ![s] = Untrack(@, SlotOf(s, p))]
  /\ heap' = Append([heap EXCEPT ![p].state = "freed"],
                    [state |-> "boehm", finalizer |-> NULL])

(* The block is copied to the collector's heap and freed; if that fails it *)
(* is tracked again where it was.                                          *)
EscapeToBoehm(p, s) ==
  LET i == SlotOf(s, p)
      entry == areas[s].allocations[i]
  IN
  \/ /\ Len(heap) < MaxBlocks
     /\ areas' = [areas EXCEPT ![s] = Untrack(@, i)]
     /\ heap' = Append([heap EXCEPT ![p].state = "freed"],
                       [state |-> "boehm", finalizer |-> entry.finalizer])
  \/ /\ "boehm" \in Failing
     /\ areas' = [areas EXCEPT ![s] = Track(Untrack(@, i), entry, TRUE)]
     /\ UNCHANGED heap

dragonstone_gc_escape_to(p, target) ==
  LET s == FindArea(p)
      size == areas[s].allocations[SlotOf(s, p)].size
  IN
  /\ ChainOpen
  /\ Live(p)
  /\ s # NULL
  /\ s # target
  /\ \/ size = 0 /\ EscapeLost(p, s)
     \/ size # 0 /\ target # NULL /\ EscapeToArea(p, s, target)
     \/ size # 0 /\ target = NULL /\ EscapeToBoehm(p, s)
  /\ Forget(p)
  /\ UNCHANGED <<gc, stats, boehm_off, finalized>>

dragonstone_gc_escape(p) ==
  /\ gc.current_area # NULL
  /\ dragonstone_gc_escape_to(p, Parent(gc.current_area))

-----------------------------------------------------------------------------
(* Collection and the write barrier. *)

dragonstone_gc_disable ==
  /\ gc.disable_depth < MaxDisable
  /\ boehm_off < MaxDisable
  /\ boehm_off' = IF gc.disable_depth = 0 THEN boehm_off + 1 ELSE boehm_off
  /\ gc' = [gc EXCEPT !.disable_depth = @ + 1]
  /\ UNCHANGED <<stats, areas, heap, finalized, trusted>>

(* Mutant: every enable turns the collector on, the nesting ignored. *)
EnableAtOnce ==
  /\ gc.disable_depth > 0
  /\ boehm_off' = 0
  /\ gc' = [gc EXCEPT !.disable_depth = @ - 1]
  /\ UNCHANGED <<stats, areas, heap, finalized, trusted>>

dragonstone_gc_enable ==
  /\ gc.disable_depth > 0
  /\ boehm_off' = IF gc.disable_depth = 1 THEN boehm_off - 1 ELSE boehm_off
  /\ gc' = [gc EXCEPT !.disable_depth = @ - 1]
  /\ UNCHANGED <<stats, areas, heap, finalized, trusted>>

dragonstone_gc_collect ==
  /\ gc.disable_depth = 0
  /\ \E S \in Reclaimable :
       /\ heap' = Reclaimed(S)
       /\ finalized' = FinalizedBy(S)
  /\ UNCHANGED <<gc, stats, areas, boehm_off, trusted>>

(* External: any GC_MALLOC, of this runtime or of the program, may collect. *)
BoehmCollect ==
  /\ \E S \in Reclaimable :
       /\ heap' = Reclaimed(S)
       /\ finalized' = FinalizedBy(S)
  /\ UNCHANGED <<gc, stats, areas, boehm_off, trusted>>

Warned(container, value) ==
  LET container_area == FindArea(container)
      value_area == FindArea(value)
  IN  /\ value_area # NULL
      /\ container_area # value_area
      /\ container_area = NULL \/ IsAncestor(container_area, value_area)

(* The barrier changes nothing; the model remembers what it let through,  *)
(* the collector's values among them, wherever they are stored.           *)
dragonstone_gc_write_barrier(container, value) ==
  /\ ChainOpen
  /\ Live(container) /\ Live(value)
  /\ ~Warned(container, value)
  /\ Cardinality(trusted) < MaxTrusted
  /\ trusted' = trusted \cup {<<container, value>>}
  /\ UNCHANGED <<gc, stats, areas, heap, boehm_off, finalized>>

-----------------------------------------------------------------------------
Init ==
  /\ gc = [Startup EXCEPT !.initialized = FALSE]
  /\ stats = [total_allocated |-> 0, total_freed |-> 0]
  /\ areas = <<>>
  /\ heap = <<>>
  /\ boehm_off = 0
  /\ finalized = [p \in 1 .. MaxBlocks |-> "none"]
  /\ trusted = {}

(* Clients that end the innermost area first: GC.with_area, annotated      *)
(* functions, gc.end without an argument.                                  *)
EndCurrent ==
  /\ gc.current_area # NULL
  /\ dragonstone_gc_end_area(gc.current_area)

Next ==
  \/ dragonstone_gc_init
  \/ dragonstone_gc_shutdown
  \/ \E size \in Sizes :
       \/ dragonstone_gc_alloc(size)
       \/ dragonstone_gc_alloc_with_finalizer(size)
       \/ \E p \in Blocks : dragonstone_gc_realloc(p, size)
  \/ dragonstone_gc_begin_area
  \/ EndCurrent
  \/ \E p \in Blocks :
       \/ dragonstone_gc_escape(p)
       \/ \E target \in {NULL} \cup ToSet(Lineage(gc.current_area)) :
            dragonstone_gc_escape_to(p, target)
       \/ \E value \in Blocks : dragonstone_gc_write_barrier(p, value)
  \/ dragonstone_gc_disable
  \/ dragonstone_gc_enable
  \/ dragonstone_gc_collect
  \/ BoehmCollect

Spec == Init /\ [][Next]_vars

(* Clients that end areas in any order, each once: gc.end(area).           *)
AnyOrderNext ==
  \/ Next
  \/ \E a \in AreaIds : ChainOpen /\ dragonstone_gc_end_area(a)

AnyOrderSpec == Init /\ [][AnyOrderNext]_vars
-----------------------------------------------------------------------------
(* Invariants. *)

Entry == [ptr : 1 .. MaxBlocks, size : Nat, finalizer : 0 .. MaxBlocks]

AreaRecord == [state : {"open", "ended"}, lineage : Seq(1 .. MaxAreas),
               allocations : Seq(Entry), capacity : Nat, total_bytes : Int]

BlockRecord == [state : {"malloc", "boehm", "freed", "collected"},
                finalizer : 0 .. MaxBlocks]

ManagerOK ==
  /\ gc \in [current_area : 0 .. Len(areas), disable_depth : Nat,
             initialized : BOOLEAN, area_count : Int]
  /\ boehm_off \in Int

(* A chain starts at its area and leads to areas begun ever earlier; a     *)
(* tracking array holds no more entries than it has room for.              *)
AreaOK(a) ==
  /\ areas[a].lineage # <<>>
  /\ areas[a].lineage[1] = a
  /\ \A i, j \in 1 .. Len(areas[a].lineage) :
       i < j => areas[a].lineage[j] < areas[a].lineage[i]
  /\ Len(areas[a].allocations) <= areas[a].capacity

AreasOK ==
  /\ areas \in Seq(AreaRecord)
  /\ Len(areas) <= MaxAreas
  /\ \A a \in AreaIds : AreaOK(a)

HeapOK ==
  /\ heap \in Seq(BlockRecord)
  /\ Len(heap) <= MaxBlocks

HistoryOK ==
  /\ finalized \in [1 .. MaxBlocks -> {"none", "pending", "done", "again"}]
  /\ trusted \subseteq Blocks \X Blocks

(* Every variable has its type, and the areas are well formed. *)
TypeOK == ManagerOK /\ AreasOK /\ HeapOK /\ HistoryOK

OpenAreas == {a \in AreaIds : areas[a].state = "open"}

Slots(a) == 1 .. Len(areas[a].allocations)

Ptr(a, i) == areas[a].allocations[i].ptr

(* No block is in two slots of the open areas' tracking arrays: end_area   *)
(* frees every slot, so a block in two of them is freed twice.  Broken by  *)
(* an escape that leaves the source slot behind.                           *)
UniqueOwner ==
  \A a, b \in OpenAreas : \A i \in Slots(a), j \in Slots(b) :
    Ptr(a, i) = Ptr(b, j) => a = b /\ i = j

(* What an open area tracks is malloc memory not yet freed, so end_area    *)
(* never frees a collector's block or one that escape or realloc freed.    *)
TrackedIsMalloc ==
  \A a \in OpenAreas : \A i \in Slots(a) :
    Ptr(a, i) \in Blocks /\ heap[Ptr(a, i)].state = "malloc"

(* The chain from the current area is exactly the open areas: the manager  *)
(* never runs on an ended area and never loses sight of an open one.       *)
ChainIsOpenAreas == ToSet(Lineage(gc.current_area)) = OpenAreas

(* get_stats reports area_count both as the number of active areas and as  *)
(* their nesting depth (gc.c:792, 795).                                    *)
CountIsDepth == gc.initialized => gc.area_count = Len(Lineage(gc.current_area))

(* "Not in any area, must be boehm-managed" (gc.c:777), on which realloc   *)
(* relies when it hands the block to GC_REALLOC and escape when it returns *)
(* it as it is.                                                            *)
NotFoundIsBoehm ==
  \A p \in Blocks : Live(p) /\ FindArea(p) = NULL => heap[p].state = "boehm"

(* Every malloc block is tracked by an open area, which will free it.      *)
NothingLeaks ==
  \A p \in Blocks : heap[p].state = "malloc" => \E a \in OpenAreas : Tracks(a, p)

(* The per-area byte count, kept by track, untrack, realloc and escape     *)
(* separately, is the sum of the sizes in the tracking array.              *)
BytesAreSummed ==
  \A a \in AreaIds : areas[a].total_bytes = SumSizes(areas[a].allocations)

(* Bytes still tracked and bytes freed never exceed the bytes allocated.   *)
FreedWithinAllocated == stats.total_freed + ChainBytes <= stats.total_allocated

(* No finalizer runs twice, through escapes between areas and into Boehm,  *)
(* area ends, collections and shutdown.                                    *)
FinalizedOnce == \A p \in 1 .. MaxBlocks : finalized[p] # "again"

(* A finalizer that has not run still has exactly one place that will run  *)
(* it: a slot of an open area or a registration of a live Boehm block.     *)
Carriers(p) ==
  {c \in OpenAreas \X (1 .. MaxBlocks) :
     /\ c[2] \in Slots(c[1])
     /\ areas[c[1]].allocations[c[2]].finalizer = p}
  \cup {<<NULL, q>> : q \in {r \in Blocks : heap[r].state = "boehm" /\ heap[r].finalizer = p}}

FinalizerKept ==
  \A p \in 1 .. MaxBlocks :
    Cardinality(Carriers(p)) = IF finalized[p] = "pending" THEN 1 ELSE 0

(* A reference the write barrier let through without a warning dangles in  *)
(* one way only: a collector's value in a container that the collector     *)
(* does not scan (gc.c:724).  As long as neither block escapes or moves,   *)
(* no area ends before what is stored from it into another.                *)
TrustedReferencesHold ==
  \A r \in trusted : Live(r[1]) =>
    Live(r[2]) \/ (heap[r[1]].state = "malloc" /\ heap[r[2]].state = "collected")

(* Action properties. *)

(* No block is collected while a dragonstone_gc_disable is in force, not   *)
(* even by the collections GC_MALLOC starts by itself.                     *)
NoCollectionWhileDisabled ==
  [][gc.disable_depth > 0 =>
       \A p \in Blocks : heap'[p].state = "collected" => heap[p].state = "collected"]_vars

(* Every live block has one owner, from allocation until its owner ends,   *)
(* through escapes, moves and collections: ending an area disposes of what *)
(* it owns at that moment and of nothing that has left it.  An entry left  *)
(* behind by an escape is a second owner.                                  *)
Owners(p) ==
  {a \in OpenAreas : Tracks(a, p)} \cup (IF heap[p].state = "boehm" THEN {NULL} ELSE {})

LiveBlocks == {p \in Blocks : Live(p)}

Ownership == INSTANCE GcOwners WITH
  open  <- Lineage(gc.current_area),
  owner <- [p \in LiveBlocks |-> Owners(p)]

BlocksHaveOneOwner == Ownership!OwnersSpec
=============================================================================
