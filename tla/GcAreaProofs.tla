---------------------------- MODULE GcAreaProofs ----------------------------
(***************************************************************************)
(* Proofs about the area manager of GcArea, for every number of blocks and *)
(* areas, every set of sizes and every combination of failing allocators.  *)
(***************************************************************************)
EXTENDS GcArea, SequenceTheorems, WellFoundedInduction, TLAPS

-----------------------------------------------------------------------------
(* Lemmas about numbers and sequences. *)

(* A non-empty set of natural numbers has a least element. *)
LEMMA LeastNatural ==
  ASSUME NEW T, T \subseteq Nat, T # {}
  PROVE  \E m \in T : \A n \in T : m <= n
<1>. DEFINE Less == {r \in Nat \X Nat : r[1] < r[2]}
<1>1. IsWellFoundedOn(Less, Nat)
  BY NatLessThanWellFounded DEF OpToRel
<1>2. PICK m \in T : \A n \in T : <<n, m>> \notin Less
  <2>. HIDE DEF Less
  <2>. QED  BY <1>1, WFMin, Zenon
<1>3. \A n \in T : ~(n < m)
  BY <1>2
<1>. QED  BY <1>3

(* A function on an initial segment of the numbers is a sequence. *)
LEMMA SegmentIsSeq ==
  ASSUME NEW S, NEW n \in Nat, NEW f \in [1 .. n -> S]
  PROVE  f \in Seq(S) /\ Len(f) = n
<1>1. f \in Seq(S)
  BY SeqDef
<1>. QED  BY <1>1, LenProperties

(* Removing a slot by swapping in the last entry leaves the entries of the *)
(* other slots, each once.                                                 *)
LEMMA SwapRemoveProperties ==
  ASSUME NEW S, NEW s \in Seq(S), NEW i \in 1 .. Len(s)
  PROVE  /\ SwapRemove(s, i) \in Seq(S)
         /\ Len(SwapRemove(s, i)) = Len(s) - 1
         /\ \A k \in 1 .. Len(s) - 1 :
              SwapRemove(s, i)[k] = IF k = i THEN s[Len(s)] ELSE s[k]
<1>1. Len(s) \in Nat /\ Len(s) - 1 \in Nat
  BY LenProperties
<1>2. \A k \in 1 .. Len(s) : s[k] \in S
  BY ElementOfSeq
<1>3. SwapRemove(s, i) \in [1 .. Len(s) - 1 -> S]
  BY <1>1, <1>2 DEF SwapRemove
<1>4. \A k \in 1 .. Len(s) - 1 :
        SwapRemove(s, i)[k] = IF k = i THEN s[Len(s)] ELSE s[k]
  BY <1>1 DEF SwapRemove
<1>. QED  BY <1>1, <1>3, <1>4, SegmentIsSeq

-----------------------------------------------------------------------------
(* Lemmas about tracking arrays. *)

RoomOK(area) == Len(area.allocations) <= area.capacity

(* Tracking appends the entry or changes nothing. *)
LEMMA TrackProperties ==
  ASSUME NEW area \in AreaRecord, RoomOK(area),
         NEW entry \in Entry, NEW grows \in BOOLEAN
  PROVE  /\ Track(area, entry, grows) \in AreaRecord
         /\ RoomOK(Track(area, entry, grows))
         /\ Track(area, entry, grows).state = area.state
         /\ Track(area, entry, grows).lineage = area.lineage
         /\ Track(area, entry, grows).allocations
              \in {area.allocations, Append(area.allocations, entry)}
<1>. DEFINE capacity == IF Len(area.allocations) >= area.capacity /\ grows
                        THEN Grown(area.capacity) ELSE area.capacity
<1>1. area.allocations \in Seq(Entry) /\ area.capacity \in Nat
      /\ area.total_bytes \in Int /\ entry.size \in Nat
  BY DEF AreaRecord, Entry
<1>2. capacity \in Nat
  BY <1>1, CapacityAssumption DEF Grown
<1>3. Len(area.allocations) \in Nat
  BY <1>1, LenProperties
<1>4. Append(area.allocations, entry) \in Seq(Entry)
      /\ Len(Append(area.allocations, entry)) = Len(area.allocations) + 1
  BY <1>1, AppendProperties
<1>5. CASE Len(area.allocations) < capacity
  <2>. DEFINE bytes == area.total_bytes + entry.size
  <2>1. Track(area, entry, grows) =
          [area EXCEPT !.capacity    = capacity,
                       !.allocations = Append(area.allocations, entry),
                       !.total_bytes = bytes]
    BY <1>5 DEF Track
  <2>2. bytes \in Int
    BY <1>1
  <2>3. Track(area, entry, grows) \in AreaRecord
    <3>. HIDE DEF bytes, capacity
    <3>. QED  BY <1>1, <1>2, <1>4, <2>1, <2>2 DEF AreaRecord
  <2>4. /\ Track(area, entry, grows).state = area.state
        /\ Track(area, entry, grows).lineage = area.lineage
        /\ Track(area, entry, grows).allocations = Append(area.allocations, entry)
        /\ Track(area, entry, grows).capacity = capacity
    <3>. HIDE DEF bytes, capacity
    <3>. QED  BY <2>1 DEF AreaRecord
  <2>5. RoomOK(Track(area, entry, grows))
    <3>. HIDE DEF capacity
    <3>. QED  BY <1>2, <1>3, <1>4, <1>5, <2>4 DEF RoomOK
  <2>. QED  BY <2>3, <2>4, <2>5
<1>6. CASE ~(Len(area.allocations) < capacity)
  <2>1. Track(area, entry, grows) = area
    BY <1>6 DEF Track
  <2>. QED  BY <2>1
<1>. QED  BY <1>5, <1>6

(* Untracking removes one slot. *)
LEMMA UntrackProperties ==
  ASSUME NEW area \in AreaRecord, RoomOK(area), NEW i \in 1 .. Len(area.allocations)
  PROVE  /\ Untrack(area, i) \in AreaRecord
         /\ RoomOK(Untrack(area, i))
         /\ Untrack(area, i).state = area.state
         /\ Untrack(area, i).lineage = area.lineage
         /\ Untrack(area, i).allocations = SwapRemove(area.allocations, i)
<1>1. area.allocations \in Seq(Entry) /\ area.total_bytes \in Int /\ area.capacity \in Nat
  BY DEF AreaRecord
<1>2. area.allocations[i].size \in Nat
  <2>1. area.allocations[i] \in Entry
    BY <1>1, ElementOfSeq
  <2>. QED  BY <2>1 DEF Entry
<1>3. Len(area.allocations) \in Nat
  BY <1>1, LenProperties
<1>4. SwapRemove(area.allocations, i) \in Seq(Entry)
      /\ Len(SwapRemove(area.allocations, i)) = Len(area.allocations) - 1
  BY <1>1, SwapRemoveProperties
<1>. DEFINE bytes == area.total_bytes - area.allocations[i].size
<1>5. Untrack(area, i) = [area EXCEPT !.total_bytes = bytes,
                                      !.allocations = SwapRemove(area.allocations, i)]
  BY DEF Untrack
<1>6. bytes \in Int
  BY <1>1, <1>2
<1>7. Untrack(area, i) \in AreaRecord
  <2>. HIDE DEF bytes
  <2>. QED  BY <1>1, <1>4, <1>5, <1>6 DEF AreaRecord
<1>8. /\ Untrack(area, i).state = area.state
      /\ Untrack(area, i).lineage = area.lineage
      /\ Untrack(area, i).allocations = SwapRemove(area.allocations, i)
      /\ Untrack(area, i).capacity = area.capacity
  <2>. HIDE DEF bytes
  <2>. QED  BY <1>5 DEF AreaRecord
<1>9. RoomOK(Untrack(area, i))
  BY <1>1, <1>3, <1>4, <1>8 DEF RoomOK
<1>. QED  BY <1>7, <1>8, <1>9

(* Resizing changes the block and the size of one slot. *)
LEMMA ResizedProperties ==
  ASSUME NEW area \in AreaRecord, RoomOK(area), NEW i \in 1 .. Len(area.allocations),
         NEW p \in 1 .. MaxBlocks, NEW size \in Nat
  PROVE  /\ Resized(area, i, p, size) \in AreaRecord
         /\ RoomOK(Resized(area, i, p, size))
         /\ Resized(area, i, p, size).state = area.state
         /\ Resized(area, i, p, size).lineage = area.lineage
         /\ Len(Resized(area, i, p, size).allocations) = Len(area.allocations)
         /\ \A k \in 1 .. Len(area.allocations) :
              Resized(area, i, p, size).allocations[k].ptr =
                IF k = i THEN p ELSE area.allocations[k].ptr
<1>1. area.allocations \in Seq(Entry) /\ area.total_bytes \in Int /\ area.capacity \in Nat
  BY DEF AreaRecord
<1>2. area.allocations[i] \in Entry
  BY <1>1, ElementOfSeq
<1>. DEFINE entry == [area.allocations[i] EXCEPT !.ptr = p, !.size = size]
            allocations == [area.allocations EXCEPT ![i] = entry]
            bytes == area.total_bytes - area.allocations[i].size + size
<1>3. entry \in Entry /\ entry.ptr = p
  BY <1>2 DEF Entry
<1>4. bytes \in Int
  <2>1. area.allocations[i].size \in Int
    BY <1>2 DEF Entry
  <2>. QED  BY <1>1, <2>1
<1>5. allocations \in Seq(Entry) /\ Len(allocations) = Len(area.allocations)
  <2>. HIDE DEF entry
  <2>. QED  BY <1>1, <1>3, ExceptSeq
<1>6. \A k \in 1 .. Len(area.allocations) :
        allocations[k].ptr = IF k = i THEN p ELSE area.allocations[k].ptr
  <2>1. area.allocations \in [1 .. Len(area.allocations) -> Entry]
    BY <1>1, LenProperties
  <2>. HIDE DEF entry
  <2>. QED  BY <1>3, <2>1
<1>7. Resized(area, i, p, size) =
        [area EXCEPT !.allocations = allocations, !.total_bytes = bytes]
  BY DEF Resized
<1>. HIDE DEF allocations, bytes
<1>8. Resized(area, i, p, size) \in AreaRecord
  BY <1>1, <1>4, <1>5, <1>7 DEF AreaRecord
<1>9. /\ Resized(area, i, p, size).state = area.state
      /\ Resized(area, i, p, size).lineage = area.lineage
      /\ Resized(area, i, p, size).allocations = allocations
      /\ Resized(area, i, p, size).capacity = area.capacity
  BY <1>7 DEF AreaRecord
<1>. QED  BY <1>5, <1>6, <1>8, <1>9 DEF RoomOK
-----------------------------------------------------------------------------
(* Lemmas about the chain of areas and the search for a block. *)

(* Every area on the chain of an area was begun no later than it. *)
LEMMA LineageProperties ==
  ASSUME AreasOK, NEW a \in AreaIds
  PROVE  /\ areas[a] \in AreaRecord
         /\ Lineage(a) = areas[a].lineage
         /\ Lineage(a) \in Seq(AreaIds)
         /\ Len(Lineage(a)) \in Nat \ {0}
         /\ Lineage(a)[1] = a
         /\ \A i \in 2 .. Len(Lineage(a)) : Lineage(a)[i] < a
<1>1. areas[a] \in AreaRecord
  BY ElementOfSeq DEF AreasOK, AreaIds
<1>2. Len(areas) \in Nat /\ a \in Nat \ {0}
  BY LenProperties DEF AreasOK, AreaIds
<1>3. Lineage(a) = areas[a].lineage
  BY <1>2 DEF Lineage, NULL
<1>4. areas[a].lineage \in Seq(1 .. MaxAreas) /\ areas[a].lineage # <<>>
  BY <1>1 DEF AreaRecord, AreasOK, AreaOK
<1>5. Len(areas[a].lineage) \in Nat \ {0}
  BY <1>4, EmptySeq
<1>6. \A i \in 1 .. Len(areas[a].lineage) : areas[a].lineage[i] \in 1 .. MaxAreas
  BY <1>4, ElementOfSeq
<1>7. areas[a].lineage[1] = a
  BY DEF AreasOK, AreaOK
<1>8. \A i \in 2 .. Len(areas[a].lineage) : areas[a].lineage[i] < a
  BY <1>5, <1>7 DEF AreasOK, AreaOK
<1>9. \A i \in 1 .. Len(areas[a].lineage) : areas[a].lineage[i] \in AreaIds
  BY <1>2, <1>5, <1>6, <1>7, <1>8, BoundsAssumption DEF AreaIds
<1>10. areas[a].lineage \in [1 .. Len(areas[a].lineage) -> AreaIds]
  BY <1>4, <1>9, LenProperties
<1>. QED  BY <1>1, <1>3, <1>5, <1>7, <1>8, <1>10, SegmentIsSeq

LEMMA ParentProperties ==
  ASSUME AreasOK, NEW a \in AreaIds
  PROVE  Parent(a) \in 0 .. Len(areas)
<1>1. Len(areas) \in Nat
  BY LenProperties DEF AreasOK
<1>2. Lineage(a) = areas[a].lineage /\ Lineage(a) \in Seq(AreaIds)
  BY LineageProperties
<1>3. CASE Len(areas[a].lineage) > 1
  <2>1. areas[a].lineage[2] \in AreaIds
    BY <1>2, <1>3, ElementOfSeq, LenProperties
  <2>. QED  BY <1>3, <2>1 DEF Parent, AreaIds
<1>4. CASE ~(Len(areas[a].lineage) > 1)
  BY <1>1, <1>4 DEF Parent, NULL
<1>. QED  BY <1>3, <1>4

(* The chain the manager searches is a sequence of areas. *)
LEMMA ChainProperties ==
  ASSUME ManagerOK, AreasOK
  PROVE  Lineage(gc.current_area) \in Seq(AreaIds)
<1>1. Len(areas) \in Nat /\ gc.current_area \in 0 .. Len(areas)
  BY LenProperties DEF AreasOK, ManagerOK
<1>2. CASE gc.current_area = NULL
  BY <1>2, EmptySeq DEF Lineage
<1>3. CASE gc.current_area # NULL
  <2>1. gc.current_area \in AreaIds
    BY <1>1, <1>3 DEF NULL, AreaIds
  <2>. QED  BY <2>1, LineageProperties
<1>. QED  BY <1>2, <1>3

(* An area found for a block is on the chain and tracks the block. *)
LEMMA FindAreaProperties ==
  ASSUME ManagerOK, AreasOK, NEW p, FindArea(p) # NULL
  PROVE  /\ FindArea(p) \in AreaIds
         /\ Tracks(FindArea(p), p)
         /\ \E i \in 1 .. Len(Lineage(gc.current_area)) :
              FindArea(p) = Lineage(gc.current_area)[i]
<1>. DEFINE chain == Lineage(gc.current_area)
            Holds(i) == Tracks(chain[i], p)
            First(i) == Holds(i) /\ \A j \in 1 .. i - 1 : ~Holds(j)
            found == {i \in 1 .. Len(chain) : Holds(i)}
<1>1. chain \in Seq(AreaIds) /\ Len(chain) \in Nat
  BY ChainProperties, LenProperties
<1>2. found # {}
  BY DEF FindArea
<1>3. PICK m \in found : \A n \in found : m <= n
  <2>1. found \subseteq Nat
    BY <1>1
  <2>. HIDE DEF found
  <2>. QED  BY <1>2, <2>1, LeastNatural
<1>4. m \in 1 .. Len(chain) /\ First(m)
  <2>1. m \in 1 .. Len(chain) /\ Holds(m)
    OBVIOUS
  <2>2. ASSUME NEW j \in 1 .. m - 1, Holds(j)
        PROVE  FALSE
    <3>1. j \in found /\ j < m
      BY <1>1, <2>1, <2>2
    <3>. QED  BY <1>1, <1>3, <2>1, <3>1
  <2>. QED  BY <2>1, <2>2
<1>5. FindArea(p) = chain[CHOOSE i \in 1 .. Len(chain) : First(i)]
  BY <1>4 DEF FindArea
<1>6. PICK i \in 1 .. Len(chain) : First(i) /\ FindArea(p) = chain[i]
  <2>. HIDE DEF First
  <2>. QED  BY <1>4, <1>5
<1>7. chain[i] \in AreaIds
  BY <1>1, ElementOfSeq
<1>. QED  BY <1>6, <1>7

LEMMA SlotProperties ==
  ASSUME NEW a, NEW p, Tracks(a, p)
  PROVE  SlotOf(a, p) \in Slots(a) /\ Ptr(a, SlotOf(a, p)) = p
BY DEF Tracks, SlotOf, Slots, Ptr

-----------------------------------------------------------------------------
(* Lemmas about the updates the actions make. *)

(* An update that leaves every area its chain keeps the areas well formed. *)
LEMMA SameChains ==
  ASSUME AreasOK, areas' \in [AreaIds -> AreaRecord],
         \A a \in AreaIds : RoomOK(areas'[a]) /\ areas'[a].lineage = areas[a].lineage
  PROVE  AreasOK' /\ Len(areas') = Len(areas) /\ AreaIds' = AreaIds
<1>1. Len(areas) \in Nat
  BY LenProperties DEF AreasOK
<1>2. areas' \in Seq(AreaRecord) /\ Len(areas') = Len(areas)
  BY <1>1, SegmentIsSeq DEF AreaIds
<1>3. AreaIds' = AreaIds
  BY <1>2 DEF AreaIds
<1>. QED  BY <1>2, <1>3 DEF AreasOK, AreaOK, RoomOK

(* The shape of the areas, as functions. *)
LEMMA AreasFunction ==
  ASSUME AreasOK
  PROVE  /\ Len(areas) \in Nat
         /\ areas \in [AreaIds -> AreaRecord]
         /\ \A a \in AreaIds : RoomOK(areas[a])
BY LenProperties DEF AreasOK, AreaOK, RoomOK, AreaIds

LEMMA HeapFunction ==
  ASSUME HeapOK
  PROVE  /\ Len(heap) \in Nat
         /\ heap \in [Blocks -> BlockRecord]
BY LenProperties DEF HeapOK, Blocks

(* A collection leaves the malloc blocks alone. *)
LEMMA ReclaimedProperties ==
  ASSUME HeapOK, NEW S \in {{}} \cup Reclaimable
  PROVE  /\ Reclaimed(S) \in Seq(BlockRecord)
         /\ Len(Reclaimed(S)) = Len(heap)
         /\ \A p \in Blocks : heap[p].state = "malloc" => Reclaimed(S)[p].state = "malloc"
<1>1. Len(heap) \in Nat /\ heap \in [Blocks -> BlockRecord]
  BY HeapFunction
<1>2. Reclaimed(S) \in [Blocks -> BlockRecord]
  BY <1>1 DEF Reclaimed, BlockRecord
<1>3. \A p \in S : heap[p].state = "boehm"
  BY DEF Reclaimable
<1>4. \A p \in Blocks : heap[p].state = "malloc" => Reclaimed(S)[p].state = "malloc"
  BY <1>3 DEF Reclaimed
<1>. QED  BY <1>1, <1>2, <1>4, SegmentIsSeq DEF Blocks

(* Ending areas frees what they track and nothing else. *)
LEMMA FreedWithProperties ==
  ASSUME HeapOK, NEW A
  PROVE  /\ FreedWith(A) \in Seq(BlockRecord)
         /\ Len(FreedWith(A)) = Len(heap)
         /\ \A p \in Blocks : (\A a \in A : ~Tracks(a, p)) => FreedWith(A)[p] = heap[p]
<1>1. Len(heap) \in Nat /\ heap \in [Blocks -> BlockRecord]
  BY HeapFunction
<1>2. FreedWith(A) \in [Blocks -> BlockRecord]
  BY <1>1 DEF FreedWith, BlockRecord
<1>3. \A p \in Blocks : (\A a \in A : ~Tracks(a, p)) => FreedWith(A)[p] = heap[p]
  BY DEF FreedWith
<1>. QED  BY <1>1, <1>2, <1>3, SegmentIsSeq DEF Blocks

(* Freeing one block. *)
LEMMA FreedBlock ==
  ASSUME HeapOK, NEW p \in Blocks
  PROVE  /\ [heap EXCEPT ![p].state = "freed"] \in Seq(BlockRecord)
         /\ Len([heap EXCEPT ![p].state = "freed"]) = Len(heap)
         /\ \A q \in Blocks \ {p} : [heap EXCEPT ![p].state = "freed"][q] = heap[q]
<1>. DEFINE h == [heap EXCEPT ![p].state = "freed"]
<1>1. Len(heap) \in Nat /\ heap \in [Blocks -> BlockRecord]
  BY HeapFunction
<1>2. h \in [Blocks -> BlockRecord] /\ \A q \in Blocks \ {p} : h[q] = heap[q]
  BY <1>1 DEF BlockRecord
<1>3. h \in Seq(BlockRecord) /\ Len(h) = Len(heap)
  <2>. HIDE DEF h
  <2>. QED  BY <1>1, <1>2, SegmentIsSeq DEF Blocks
<1>. QED  BY <1>2, <1>3

(* An ended area tracks nothing. *)
LEMMA EndedProperties ==
  ASSUME NEW area \in AreaRecord
  PROVE  /\ Ended(area) \in AreaRecord
         /\ RoomOK(Ended(area))
         /\ Ended(area).state = "ended"
         /\ Ended(area).lineage = area.lineage
         /\ Ended(area).allocations = <<>>
<1>. DEFINE none == <<>>
<1>1. none \in Seq(Entry) /\ Len(none) = 0
  BY EmptySeq
<1>2. Ended(area) = [area EXCEPT !.state = "ended", !.allocations = none,
                                 !.capacity = 0, !.total_bytes = 0]
  BY DEF Ended
<1>. HIDE DEF none
<1>3. Ended(area) \in AreaRecord
  <2>1. area = [state |-> area.state, lineage |-> area.lineage,
                allocations |-> area.allocations, capacity |-> area.capacity,
                total_bytes |-> area.total_bytes]
        /\ area.lineage \in Seq(1 .. MaxAreas)
    BY DEF AreaRecord
  <2>2. Ended(area) = [state |-> "ended", lineage |-> area.lineage,
                       allocations |-> none, capacity |-> 0, total_bytes |-> 0]
    BY <1>2, <2>1
  <2>. QED  BY <1>1, <2>1, <2>2 DEF AreaRecord
<1>4. /\ Ended(area).state = "ended"
      /\ Ended(area).lineage = area.lineage
      /\ Ended(area).allocations = none
      /\ Ended(area).capacity = 0
  BY <1>2 DEF AreaRecord
<1>5. RoomOK(Ended(area))
  BY <1>1, <1>4 DEF RoomOK
<1>. QED  BY <1>3, <1>4, <1>5 DEF none

FinalizerState == {"none", "pending", "done", "again"}

LEMMA FinalizingType ==
  ASSUME HistoryOK, NEW runs
  PROVE  Finalizing(runs) \in [1 .. MaxBlocks -> FinalizerState]
BY DEF HistoryOK, Finalizing, FinalizerState

LEMMA ReadyType ==
  ASSUME ManagerOK, AreasOK
  PROVE  /\ Ready \in [current_area : 0 .. Len(areas), disable_depth : Nat,
                       initialized : BOOLEAN, area_count : Int]
         /\ Ready.current_area \in {NULL, gc.current_area}
<1>1. Len(areas) \in Nat
  BY LenProperties DEF AreasOK
<1>. QED  BY <1>1 DEF ManagerOK, Ready, Startup, NULL

(* A heap that only grows keeps the history well typed. *)
LEMMA HistoryStep ==
  ASSUME HeapOK, HistoryOK, HeapOK', Len(heap') >= Len(heap),
         finalized' \in [1 .. MaxBlocks -> FinalizerState], trusted' \subseteq trusted
  PROVE  HistoryOK'
<1>1. Len(heap) \in Nat /\ Len(heap') \in Nat
  BY LenProperties DEF HeapOK
<1>2. Blocks \subseteq Blocks'
  BY <1>1 DEF Blocks
<1>. QED  BY <1>2 DEF HistoryOK, FinalizerState

-----------------------------------------------------------------------------
(* Type correctness, one lemma per action. *)

LEMMA InitType == Init => TypeOK
<1>. SUFFICES ASSUME Init PROVE TypeOK
  OBVIOUS
<1>1. ManagerOK
  <2>1. Len(areas) = 0
    BY EmptySeq DEF Init
  <2>2. gc = [current_area |-> 0, disable_depth |-> 0, initialized |-> FALSE, area_count |-> 0]
    BY DEF Init, Startup, NULL
  <2>3. boehm_off = 0
    BY DEF Init
  <2>. QED  BY <2>1, <2>2, <2>3 DEF ManagerOK
<1>2. AreasOK
  BY EmptySeq, BoundsAssumption DEF Init, AreasOK, AreaIds
<1>3. HeapOK
  BY EmptySeq, BoundsAssumption DEF Init, HeapOK
<1>4. HistoryOK
  BY DEF Init, HistoryOK
<1>. QED  BY <1>1, <1>2, <1>3, <1>4 DEF TypeOK

(* The entry and the heap block made for a new block are well typed. *)
LEMMA NewBlock ==
  ASSUME HeapOK, Len(heap) < MaxBlocks, NEW h \in Seq(BlockRecord), Len(h) = Len(heap),
         NEW b \in BlockRecord, heap' = Append(h, b)
  PROVE  /\ HeapOK'
         /\ Len(heap') = Len(heap) + 1
         /\ Len(heap) + 1 \in 1 .. MaxBlocks
         /\ \A p \in Blocks : heap'[p] = h[p]
         /\ heap'[Len(heap) + 1] = b
<1>1. Len(heap) \in Nat /\ MaxBlocks \in Nat
  BY LenProperties, BoundsAssumption DEF HeapOK
<1>2. /\ Append(h, b) \in Seq(BlockRecord)
      /\ Len(Append(h, b)) = Len(h) + 1
      /\ \A i \in 1 .. Len(h) : Append(h, b)[i] = h[i]
      /\ Append(h, b)[Len(h) + 1] = b
  BY AppendProperties
<1>3. HeapOK' /\ Len(heap') = Len(heap) + 1
  BY <1>1, <1>2 DEF HeapOK
<1>. QED  BY <1>1, <1>2, <1>3 DEF Blocks

LEMMA ObtainType ==
  ASSUME TypeOK, NEW size \in Nat, NEW fin \in BOOLEAN, NEW S \in {{}} \cup Reclaimable,
         Obtain(size, fin, S)
  PROVE  TypeOK'
<1>. DEFINE a == Ready.current_area
            p == Len(heap) + 1
            finalizer == IF fin THEN p ELSE NULL
            entry == [ptr |-> p, size |-> size, finalizer |-> finalizer]
<1>. USE DEF TypeOK
<1>1. a \in 0 .. Len(areas) /\ Len(areas) \in Nat
  BY ReadyType, AreasFunction
<1>2. p \in 1 .. MaxBlocks /\ finalizer \in 0 .. MaxBlocks
  <2>1. Len(heap) \in Nat /\ Len(heap) < MaxBlocks
    BY HeapFunction DEF Obtain
  <2>. QED  BY <2>1, BoundsAssumption DEF NULL
<1>3. entry \in Entry
  BY <1>2 DEF Entry
<1>4. HeapOK' /\ Len(heap') = Len(heap) + 1
  <2>1. PICK b \in BlockRecord : heap' = Append(Reclaimed(S), b)
    <3>1. [state |-> "malloc", finalizer |-> NULL] \in BlockRecord
      BY BoundsAssumption DEF BlockRecord, NULL
    <3>2. [state |-> "boehm", finalizer |-> finalizer] \in BlockRecord
      BY <1>2 DEF BlockRecord
    <3>. QED  BY <3>1, <3>2 DEF Obtain
  <2>. QED  BY <2>1, NewBlock, ReclaimedProperties DEF Obtain
<1>5. AreasOK' /\ Len(areas') = Len(areas)
  <2>1. CASE a = NULL
    BY <2>1 DEF Obtain, AreasOK, AreaOK, AreaIds
  <2>2. CASE a # NULL
    <3>1. a \in AreaIds
      BY <1>1, <2>2 DEF AreaIds, NULL
    <3>2. PICK grows \in BOOLEAN : areas' = [areas EXCEPT ![a] = Track(areas[a], entry, grows)]
      BY <2>2 DEF Obtain, Outcomes
    <3>3. /\ Track(areas[a], entry, grows) \in AreaRecord
          /\ RoomOK(Track(areas[a], entry, grows))
          /\ Track(areas[a], entry, grows).lineage = areas[a].lineage
      BY <1>3, <3>1, AreasFunction, TrackProperties
    <3>. HIDE DEF a, entry
    <3>. QED  BY <3>1, <3>2, <3>3, AreasFunction, SameChains
  <2>. QED  BY <2>1, <2>2
<1>6. ManagerOK'
  BY <1>5, ReadyType DEF Obtain, ManagerOK
<1>7. HistoryOK'
  <2>1. FinalizedBy(S) \in [1 .. MaxBlocks -> FinalizerState]
    BY FinalizingType DEF FinalizedBy
  <2>2. finalized' \in [1 .. MaxBlocks -> FinalizerState]
    BY <1>2, <2>1 DEF Obtain, FinalizerState
  <2>3. trusted' = trusted
    BY DEF Obtain
  <2>. QED  BY <1>4, <2>2, <2>3, HeapFunction, HistoryStep
<1>. QED  BY <1>4, <1>5, <1>6, <1>7

LEMMA ObtainNothingType ==
  ASSUME TypeOK, NEW S \in {{}} \cup Reclaimable, ObtainNothing(S)
  PROVE  TypeOK'
<1>. USE DEF TypeOK
<1>1. AreasOK' /\ areas' = areas
  BY DEF ObtainNothing, AreasOK, AreaOK, AreaIds
<1>2. HeapOK' /\ Len(heap') = Len(heap)
  BY ReclaimedProperties DEF ObtainNothing, HeapOK
<1>3. ManagerOK'
  BY <1>1, ReadyType DEF ObtainNothing, ManagerOK
<1>4. HistoryOK'
  <2>1. finalized' \in [1 .. MaxBlocks -> FinalizerState] /\ trusted' = trusted
    BY FinalizingType DEF FinalizedBy, ObtainNothing
  <2>. QED  BY <1>2, <2>1, HeapFunction, HistoryStep
<1>. QED  BY <1>1, <1>2, <1>3, <1>4

(* Changes to the tracking arrays alone keep the type. *)
LEMMA TrackingStep ==
  ASSUME TypeOK, areas' \in [AreaIds -> AreaRecord],
         \A a \in AreaIds : RoomOK(areas'[a]) /\ areas'[a].lineage = areas[a].lineage,
         UNCHANGED <<gc, boehm_off>>, HeapOK', Len(heap') >= Len(heap),
         UNCHANGED finalized, trusted' \subseteq trusted
  PROVE  TypeOK'
<1>. USE DEF TypeOK
<1>1. AreasOK' /\ Len(areas') = Len(areas)
  BY SameChains
<1>2. ManagerOK'
  BY <1>1 DEF ManagerOK
<1>3. HistoryOK'
  BY HistoryStep DEF HistoryOK, FinalizerState
<1>. QED  BY <1>1, <1>2, <1>3

LEMMA ReallocType ==
  ASSUME TypeOK, NEW p \in Blocks, NEW size \in Nat, dragonstone_gc_realloc(p, size)
  PROVE  TypeOK'
<1>. DEFINE a == FindArea(p)
            i == SlotOf(a, p)
<1>1. a \in AreaIds /\ i \in 1 .. Len(areas[a].allocations)
  BY FindAreaProperties, SlotProperties DEF dragonstone_gc_realloc, TypeOK, Slots
<1>2. areas[a] \in AreaRecord /\ RoomOK(areas[a])
  BY <1>1, AreasFunction DEF TypeOK
<1>3. ASSUME NEW q \in 1 .. MaxBlocks, areas' = [areas EXCEPT ![a] = Resized(areas[a], i, q, size)]
      PROVE  /\ areas' \in [AreaIds -> AreaRecord]
             /\ \A b \in AreaIds : RoomOK(areas'[b]) /\ areas'[b].lineage = areas[b].lineage
  <2>1. /\ Resized(areas[a], i, q, size) \in AreaRecord
        /\ RoomOK(Resized(areas[a], i, q, size))
        /\ Resized(areas[a], i, q, size).lineage = areas[a].lineage
    BY <1>1, <1>2, ResizedProperties
  <2>. HIDE DEF a, i
  <2>. QED  BY <1>1, <1>3, <2>1, AreasFunction DEF TypeOK
<1>4. UNCHANGED <<gc, boehm_off, finalized>>
  BY DEF dragonstone_gc_realloc
<1>5. CASE areas' = [areas EXCEPT ![a] = Resized(areas[a], i, p, size)] /\ UNCHANGED <<heap, trusted>>
  <2>1. p \in 1 .. MaxBlocks /\ Len(heap) \in Nat
    BY HeapFunction, BoundsAssumption DEF TypeOK, HeapOK, Blocks
  <2>2. HeapOK' /\ Len(heap') >= Len(heap)
    BY <1>5, <2>1 DEF TypeOK, HeapOK
  <2>. HIDE DEF a, i
  <2>. QED  BY <1>3, <1>4, <1>5, <2>1, <2>2, TrackingStep
<1>6. CASE /\ Len(heap) < MaxBlocks
           /\ areas' = [areas EXCEPT ![a] = Resized(areas[a], i, Len(heap) + 1, size)]
           /\ heap' = Append([heap EXCEPT ![p].state = "freed"],
                             [state |-> "malloc", finalizer |-> NULL])
           /\ trusted' = {r \in trusted : p \notin {r[1], r[2]}}
  <2>1. [state |-> "malloc", finalizer |-> NULL] \in BlockRecord
    BY BoundsAssumption DEF BlockRecord, NULL
  <2>2. HeapOK' /\ Len(heap') = Len(heap) + 1 /\ Len(heap) + 1 \in 1 .. MaxBlocks
    BY <1>6, <2>1, FreedBlock, NewBlock DEF TypeOK
  <2>3. Len(heap') >= Len(heap) /\ trusted' \subseteq trusted
    BY <1>6, <2>2, HeapFunction DEF TypeOK
  <2>. HIDE DEF a, i
  <2>. QED  BY <1>3, <1>4, <1>6, <2>2, <2>3, TrackingStep
<1>. QED  BY <1>5, <1>6 DEF dragonstone_gc_realloc

LEMMA EndAreaType ==
  ASSUME TypeOK, NEW a \in AreaIds, dragonstone_gc_end_area(a)
  PROVE  TypeOK'
<1>. USE DEF TypeOK
<1>1. AreasOK' /\ Len(areas') = Len(areas)
  <2>1. /\ Ended(areas[a]) \in AreaRecord
        /\ RoomOK(Ended(areas[a]))
        /\ Ended(areas[a]).lineage = areas[a].lineage
    BY AreasFunction, EndedProperties
  <2>2. areas' = [areas EXCEPT ![a] = Ended(areas[a])]
    BY DEF dragonstone_gc_end_area
  <2>. QED  BY <2>1, <2>2, AreasFunction, SameChains
<1>2. ManagerOK'
  <2>1. Parent(a) \in 0 .. Len(areas')
    BY <1>1, ParentProperties
  <2>. DEFINE count == gc.area_count - 1
  <2>2. count \in Int /\ gc' = [gc EXCEPT !.current_area = Parent(a), !.area_count = count]
    BY DEF dragonstone_gc_end_area, ManagerOK
  <2>3. boehm_off' \in Int
    BY DEF dragonstone_gc_end_area, ManagerOK
  <2>. HIDE DEF count
  <2>. QED  BY <2>1, <2>2, <2>3 DEF ManagerOK
<1>3. HeapOK' /\ Len(heap') >= Len(heap)
  BY FreedWithProperties, HeapFunction DEF dragonstone_gc_end_area, HeapOK
<1>4. HistoryOK'
  <2>1. finalized' \in [1 .. MaxBlocks -> FinalizerState] /\ trusted' = trusted
    BY FinalizingType DEF dragonstone_gc_end_area, FinalizedWith
  <2>. QED  BY <1>3, <2>1, HistoryStep
<1>. QED  BY <1>1, <1>2, <1>3, <1>4

LEMMA BeginAreaType ==
  ASSUME TypeOK, dragonstone_gc_begin_area
  PROVE  TypeOK'
<1>. USE DEF TypeOK
<1>. DEFINE a == Len(areas) + 1
            chain == Lineage(Ready.current_area)
            area == [state |-> "open", lineage |-> <<a>> \o chain,
                     allocations |-> <<>>, capacity |-> 0, total_bytes |-> 0]
<1>1. Len(areas) \in Nat /\ Ready.current_area \in 0 .. Len(areas)
  BY AreasFunction, ReadyType
<1>2. HeapOK' /\ HistoryOK' /\ boehm_off' \in Int
  BY DEF dragonstone_gc_begin_area, HeapOK, HistoryOK, Blocks, ManagerOK
<1>3. CASE gc' = Ready /\ UNCHANGED areas
  BY <1>2, <1>3, ReadyType DEF ManagerOK, AreasOK, AreaOK, AreaIds
<1>4. CASE /\ Len(areas) < MaxAreas
           /\ gc' = [Ready EXCEPT !.current_area = a, !.area_count = @ + 1]
           /\ areas' = Append(areas, area)
  <2>1. a \in 1 .. MaxAreas
    BY <1>1, <1>4, BoundsAssumption
  <2>2. /\ chain \in Seq(1 .. MaxAreas)
        /\ \A i \in 1 .. Len(chain) : chain[i] \in 1 .. Len(areas)
        /\ \A i, j \in 1 .. Len(chain) : i < j => chain[j] < chain[i]
    <3>1. CASE Ready.current_area = NULL
      BY <3>1, EmptySeq DEF Lineage
    <3>2. CASE Ready.current_area # NULL
      <4>1. Ready.current_area \in AreaIds
        BY <1>1, <3>2 DEF AreaIds, NULL
      <4>2. /\ chain \in Seq(AreaIds)
            /\ chain = areas[Ready.current_area].lineage
            /\ areas[Ready.current_area] \in AreaRecord
        BY <4>1, LineageProperties
      <4>3. \A i \in 1 .. Len(chain) : chain[i] \in 1 .. Len(areas)
        BY <4>2, ElementOfSeq DEF AreaIds
      <4>. QED  BY <4>1, <4>2, <4>3 DEF AreaRecord, AreasOK, AreaOK
    <3>. QED  BY <3>1, <3>2
  <2>. DEFINE lineage == <<a>> \o chain
  <2>3. /\ lineage \in Seq(1 .. MaxAreas)
        /\ Len(chain) \in Nat
        /\ Len(lineage) = Len(chain) + 1
        /\ lineage[1] = a
        /\ \A i \in 2 .. Len(lineage) : lineage[i] = chain[i - 1]
    <3>1. <<a>> \in Seq(1 .. MaxAreas) /\ Len(<<a>>) = 1 /\ <<a>>[1] = a
      BY <2>1
    <3>2. Len(chain) \in Nat
      BY <2>2, LenProperties
    <3>. HIDE DEF a, chain
    <3>. QED  BY <2>2, <3>1, <3>2, ConcatProperties
  <2>4. \A i, j \in 1 .. Len(lineage) : i < j => lineage[j] < lineage[i]
    <3>. SUFFICES ASSUME NEW i \in 1 .. Len(lineage), NEW j \in 1 .. Len(lineage), i < j
                  PROVE  lineage[j] < lineage[i]
      OBVIOUS
    <3>1. j \in 2 .. Len(lineage) /\ j - 1 \in 1 .. Len(chain) /\ lineage[j] = chain[j - 1]
      BY <2>3
    <3>2. CASE i = 1
      <4>1. chain[j - 1] \in 1 .. Len(areas)
        BY <2>2, <3>1
      <4>. QED  BY <1>1, <2>3, <3>1, <3>2, <4>1
    <3>3. CASE i # 1
      <4>1. i \in 2 .. Len(lineage) /\ i - 1 \in 1 .. Len(chain) /\ i - 1 < j - 1
        BY <2>3, <3>3
      <4>. QED  BY <2>2, <2>3, <3>1, <4>1
    <3>. QED  BY <3>2, <3>3
  <2>5. area \in AreaRecord /\ area.lineage = lineage /\ Len(area.allocations) <= area.capacity
    <3>. HIDE DEF lineage
    <3>1. <<>> \in Seq(Entry) /\ Len(<<>>) = 0
      BY EmptySeq
    <3>. QED  BY <2>3, <3>1 DEF AreaRecord, lineage
  <2>6. /\ areas' \in Seq(AreaRecord)
        /\ Len(areas') = Len(areas) + 1
        /\ \A b \in AreaIds : areas'[b] = areas[b]
        /\ areas'[a] = area
    <3>. HIDE DEF area
    <3>. QED  BY <1>4, <2>5, AppendProperties DEF AreasOK, AreaIds
  <2>7. \A b \in AreaIds' : AreaOK(b)'
    <3>. HIDE DEF area
    <3>1. \A b \in AreaIds : AreaOK(b)'
      BY <2>6 DEF AreasOK, AreaOK
    <3>2. ASSUME NEW b \in AreaIds', b = a
          PROVE  AreaOK(b)'
      <4>1. lineage # <<>>
        BY <2>3, EmptySeq
      <4>2. areas'[b].lineage = lineage /\ areas'[b] = area
        BY <2>5, <2>6, <3>2
      <4>. HIDE DEF lineage, a
      <4>. QED  BY <2>3, <2>4, <2>5, <3>2, <4>1, <4>2 DEF AreaOK
    <3>. QED  BY <1>1, <2>6, <3>1, <3>2 DEF AreaIds
  <2>8. AreasOK'
    BY <1>1, <1>4, <2>6, <2>7, BoundsAssumption DEF AreasOK
  <2>9. ManagerOK'
    <3>. DEFINE count == Ready.area_count + 1
    <3>1. a \in 0 .. Len(areas')
      BY <1>1, <2>6
    <3>2. count \in Int /\ gc' = [Ready EXCEPT !.current_area = a, !.area_count = count]
      BY <1>4, ReadyType
    <3>. HIDE DEF a, count
    <3>. QED  BY <1>2, <3>1, <3>2, ReadyType DEF ManagerOK
  <2>. QED  BY <1>2, <2>8, <2>9
<1>. QED  BY <1>3, <1>4 DEF dragonstone_gc_begin_area

LEMMA ShutdownType ==
  ASSUME TypeOK, dragonstone_gc_shutdown
  PROVE  TypeOK'
<1>. USE DEF TypeOK
<1>. DEFINE chain == ToSet(Lineage(gc.current_area))
<1>1. AreasOK' /\ Len(areas') = Len(areas)
  <2>1. \A a \in AreaIds : /\ Ended(areas[a]) \in AreaRecord
                          /\ RoomOK(Ended(areas[a]))
                          /\ Ended(areas[a]).lineage = areas[a].lineage
    BY AreasFunction, EndedProperties
  <2>2. areas' = [a \in AreaIds |-> IF a \in chain THEN Ended(areas[a]) ELSE areas[a]]
    BY DEF dragonstone_gc_shutdown
  <2>. HIDE DEF chain
  <2>. QED  BY <2>1, <2>2, AreasFunction, SameChains
<1>2. ManagerOK'
  <2>. DEFINE count == gc.area_count - Len(Lineage(gc.current_area))
  <2>1. count \in Int
    BY ChainProperties, LenProperties DEF ManagerOK
  <2>2. gc' = [gc EXCEPT !.current_area = 0, !.initialized = FALSE, !.area_count = count]
        /\ boehm_off' = boehm_off
    BY DEF dragonstone_gc_shutdown, NULL
  <2>3. Len(areas') \in Nat /\ 0 \in 0 .. Len(areas')
    BY <1>1, AreasFunction
  <2>4. gc \in [current_area : 0 .. Len(areas), disable_depth : Nat,
                initialized : BOOLEAN, area_count : Int] /\ boehm_off \in Int
    BY DEF ManagerOK
  <2>. HIDE DEF count
  <2>5. gc' \in [current_area : 0 .. Len(areas'), disable_depth : Nat,
                 initialized : BOOLEAN, area_count : Int]
    BY <2>1, <2>2, <2>3, <2>4
  <2>. QED  BY <2>2, <2>4, <2>5 DEF ManagerOK
<1>3. PICK S \in Reclaimable :
        heap' = [p \in Blocks |-> IF p \in S THEN Reclaimed(S)[p] ELSE FreedWith(chain)[p]]
  BY DEF dragonstone_gc_shutdown
<1>4. HeapOK' /\ Len(heap') >= Len(heap)
  <2>1. \A p \in Blocks : Reclaimed(S)[p] \in BlockRecord /\ FreedWith(chain)[p] \in BlockRecord
    BY ReclaimedProperties, FreedWithProperties, ElementOfSeq DEF Blocks
  <2>2. heap' \in [Blocks -> BlockRecord]
    BY <1>3, <2>1
  <2>3. Len(heap) \in Nat
    BY HeapFunction
  <2>4. heap' \in Seq(BlockRecord) /\ Len(heap') = Len(heap)
    BY <2>2, <2>3, SegmentIsSeq DEF Blocks
  <2>. QED  BY <2>3, <2>4 DEF HeapOK
<1>5. HistoryOK'
  <2>1. finalized' \in [1 .. MaxBlocks -> FinalizerState] /\ trusted' = trusted
    BY FinalizingType DEF dragonstone_gc_shutdown
  <2>. QED  BY <1>4, <2>1, HistoryStep
<1>. QED  BY <1>1, <1>2, <1>4, <1>5

(* What an escape does to the tracking arrays: the block leaves its slot,  *)
(* and its entry may be appended to another array or to the same one.      *)
LEMMA EscapeAreas ==
  ASSUME TypeOK, NEW s \in AreaIds, NEW i \in Slots(s), NEW t \in AreaIds,
         NEW grows \in BOOLEAN
  PROVE  /\ areas[s].allocations[i] \in Entry
         /\ Untrack(areas[s], i) \in AreaRecord
         /\ RoomOK(Untrack(areas[s], i))
         /\ Untrack(areas[s], i).lineage = areas[s].lineage
         /\ Track(areas[t], areas[s].allocations[i], grows) \in AreaRecord
         /\ RoomOK(Track(areas[t], areas[s].allocations[i], grows))
         /\ Track(areas[t], areas[s].allocations[i], grows).lineage = areas[t].lineage
         /\ Track(Untrack(areas[s], i), areas[s].allocations[i], grows) \in AreaRecord
         /\ RoomOK(Track(Untrack(areas[s], i), areas[s].allocations[i], grows))
         /\ Track(Untrack(areas[s], i), areas[s].allocations[i], grows).lineage = areas[s].lineage
<1>1. /\ areas[s] \in AreaRecord /\ RoomOK(areas[s])
      /\ areas[t] \in AreaRecord /\ RoomOK(areas[t])
  BY AreasFunction DEF TypeOK
<1>2. areas[s].allocations[i] \in Entry
  BY <1>1, ElementOfSeq DEF AreaRecord, Slots
<1>3. /\ Untrack(areas[s], i) \in AreaRecord
      /\ RoomOK(Untrack(areas[s], i))
      /\ Untrack(areas[s], i).lineage = areas[s].lineage
  BY <1>1, UntrackProperties DEF Slots
<1>. QED  BY <1>1, <1>2, <1>3, TrackProperties

LEMMA EscapeType ==
  ASSUME TypeOK, NEW p \in Blocks, NEW target \in 0 .. Len(areas),
         dragonstone_gc_escape_to(p, target)
  PROVE  TypeOK'
<1>. DEFINE s == FindArea(p)
            i == SlotOf(s, p)
            entry == areas[s].allocations[i]
<1>1. s \in AreaIds /\ i \in Slots(s) /\ s # target
  BY FindAreaProperties, SlotProperties DEF dragonstone_gc_escape_to, TypeOK
<1>2. /\ UNCHANGED <<gc, boehm_off>>
      /\ UNCHANGED finalized
      /\ trusted' \subseteq trusted
  BY DEF dragonstone_gc_escape_to, Forget
<1>3. areas \in [AreaIds -> AreaRecord] /\ (\A a \in AreaIds : RoomOK(areas[a]))
      /\ Len(heap) \in Nat /\ HeapOK
  BY AreasFunction, HeapFunction DEF TypeOK
<1>4. CASE EscapeLost(p, s)
  <2>1. areas' = [areas EXCEPT ![s] = Untrack(areas[s], i)] /\ heap' = heap
    BY <1>4 DEF EscapeLost
  <2>2. HeapOK' /\ Len(heap') >= Len(heap)
    BY <1>3, <2>1 DEF HeapOK
  <2>. HIDE DEF s, i
  <2>. QED  BY <1>1, <1>2, <1>3, <2>1, <2>2, EscapeAreas, TrackingStep
<1>5. CASE target # NULL /\ EscapeToArea(p, s, target)
  <2>1. target \in AreaIds
    BY <1>5 DEF AreaIds, NULL
  <2>2. PICK grows \in BOOLEAN :
          areas' = [areas EXCEPT ![s] = Untrack(areas[s], i),
                                 ![target] = Track(areas[target], entry, grows)]
    BY <1>1, <1>5 DEF EscapeToArea, Outcomes
  <2>3. heap' = heap
    BY <1>5 DEF EscapeToArea
  <2>4. HeapOK' /\ Len(heap') >= Len(heap)
    BY <1>3, <2>3 DEF HeapOK
  <2>5. /\ Track(areas[target], entry, grows) \in AreaRecord
        /\ RoomOK(Track(areas[target], entry, grows))
        /\ Track(areas[target], entry, grows).lineage = areas[target].lineage
    BY <1>1, <2>1, EscapeAreas
  <2>. HIDE DEF s, i, entry
  <2>. QED  BY <1>1, <1>2, <1>3, <2>1, <2>2, <2>4, <2>5, EscapeAreas, TrackingStep
<1>6. CASE EscapeToBoehm(p, s)
  <2>1. CASE /\ Len(heap) < MaxBlocks
             /\ areas' = [areas EXCEPT ![s] = Untrack(areas[s], i)]
             /\ heap' = Append([heap EXCEPT ![p].state = "freed"],
                               [state |-> "boehm", finalizer |-> entry.finalizer])
    <3>1. [state |-> "boehm", finalizer |-> entry.finalizer] \in BlockRecord
      <4>1. entry \in Entry
        BY <1>1, EscapeAreas
      <4>. QED  BY <4>1 DEF Entry, BlockRecord
    <3>. DEFINE h == [heap EXCEPT ![p].state = "freed"]
    <3>2. HeapOK' /\ Len(heap') >= Len(heap)
      <4>1. h \in Seq(BlockRecord) /\ Len(h) = Len(heap)
        BY <1>3, FreedBlock
      <4>. HIDE DEF s, i, entry
      <4>2. HeapOK' /\ Len(heap') = Len(heap) + 1
        BY <1>3, <2>1, <3>1, <4>1, NewBlock DEF h
      <4>. QED  BY <1>3, <4>2
    <3>. HIDE DEF s, i, entry
    <3>. QED  BY <1>1, <1>2, <1>3, <2>1, <3>2, EscapeAreas, TrackingStep
  <2>2. CASE /\ areas' = [areas EXCEPT ![s] = Track(Untrack(areas[s], i), entry, TRUE)]
             /\ heap' = heap
    <3>1. HeapOK' /\ Len(heap') >= Len(heap)
      BY <1>3, <2>2 DEF HeapOK
    <3>2. /\ Track(Untrack(areas[s], i), entry, TRUE) \in AreaRecord
          /\ RoomOK(Track(Untrack(areas[s], i), entry, TRUE))
          /\ Track(Untrack(areas[s], i), entry, TRUE).lineage = areas[s].lineage
      BY <1>1, EscapeAreas
    <3>. HIDE DEF s, i, entry
    <3>. QED  BY <1>1, <1>2, <1>3, <2>2, <3>1, <3>2, TrackingStep
  <2>. QED  BY <1>6, <2>1, <2>2 DEF EscapeToBoehm
<1>. QED  BY <1>4, <1>5, <1>6 DEF dragonstone_gc_escape_to

(* The actions that touch neither the areas nor the size of the heap.      *)
LEMMA ManagerStep ==
  ASSUME TypeOK, UNCHANGED areas, HeapOK', Len(heap') = Len(heap),
         gc'.current_area \in 0 .. Len(areas), boehm_off' \in Int,
         gc' \in [current_area : 0 .. Len(areas), disable_depth : Nat,
                  initialized : BOOLEAN, area_count : Int],
         finalized' \in [1 .. MaxBlocks -> FinalizerState],
         trusted' \subseteq Blocks \X Blocks
  PROVE  TypeOK'
<1>1. AreasOK'
  BY DEF TypeOK, AreasOK, AreaOK, AreaIds
<1>2. ManagerOK'
  BY DEF ManagerOK
<1>3. HistoryOK'
  <2>1. Blocks' = Blocks
    BY DEF Blocks
  <2>. QED  BY <2>1 DEF HistoryOK, FinalizerState
<1>. QED  BY <1>1, <1>2, <1>3 DEF TypeOK

LEMMA UnchangedTypes ==
  ASSUME TypeOK
  PROVE  /\ gc \in [current_area : 0 .. Len(areas), disable_depth : Nat,
                    initialized : BOOLEAN, area_count : Int]
         /\ boehm_off \in Int
         /\ finalized \in [1 .. MaxBlocks -> FinalizerState]
         /\ trusted \subseteq Blocks \X Blocks
         /\ HeapOK
BY DEF TypeOK, ManagerOK, HistoryOK, FinalizerState

LEMMA CollectionType ==
  ASSUME TypeOK, NEW S \in Reclaimable, heap' = Reclaimed(S), finalized' = FinalizedBy(S),
         UNCHANGED <<gc, areas, boehm_off, trusted>>
  PROVE  TypeOK'
<1>1. HeapOK' /\ Len(heap') = Len(heap)
  BY ReclaimedProperties DEF TypeOK, HeapOK
<1>2. finalized' \in [1 .. MaxBlocks -> FinalizerState]
  BY FinalizingType DEF FinalizedBy, TypeOK
<1>. QED  BY <1>1, <1>2, UnchangedTypes, ManagerStep

LEMMA ControlType ==
  ASSUME TypeOK,
         dragonstone_gc_init \/ dragonstone_gc_disable \/ dragonstone_gc_enable
  PROVE  TypeOK'
<1>1. UNCHANGED <<areas, heap, finalized, trusted>> /\ HeapOK' /\ HeapOK
  BY DEF dragonstone_gc_init, dragonstone_gc_disable, dragonstone_gc_enable, HeapOK, TypeOK
<1>2. /\ gc' \in [current_area : 0 .. Len(areas), disable_depth : Nat,
                   initialized : BOOLEAN, area_count : Int]
      /\ boehm_off' \in Int
  <2>1. CASE dragonstone_gc_init
    BY <2>1, ReadyType, UnchangedTypes DEF dragonstone_gc_init, TypeOK
  <2>2. CASE dragonstone_gc_disable
    <3>. DEFINE depth == gc.disable_depth + 1
    <3>1. depth \in Nat /\ boehm_off' \in Int /\ gc' = [gc EXCEPT !.disable_depth = depth]
      BY <2>2, UnchangedTypes DEF dragonstone_gc_disable
    <3>. HIDE DEF depth
    <3>. QED  BY <3>1, UnchangedTypes
  <2>3. CASE dragonstone_gc_enable
    <3>. DEFINE depth == gc.disable_depth - 1
    <3>1. depth \in Nat /\ boehm_off' \in Int /\ gc' = [gc EXCEPT !.disable_depth = depth]
      BY <2>3, UnchangedTypes DEF dragonstone_gc_enable
    <3>. HIDE DEF depth
    <3>. QED  BY <3>1, UnchangedTypes
  <2>. QED  BY <2>1, <2>2, <2>3
<1>. QED  BY <1>1, <1>2, UnchangedTypes, ManagerStep

LEMMA BarrierType ==
  ASSUME TypeOK, NEW p \in Blocks, NEW q \in Blocks, dragonstone_gc_write_barrier(p, q)
  PROVE  TypeOK'
<1>1. /\ UNCHANGED <<gc, areas, heap, boehm_off, finalized>>
      /\ trusted' = trusted \cup {<<p, q>>}
  BY DEF dragonstone_gc_write_barrier
<1>2. HeapOK'
  BY <1>1 DEF TypeOK, HeapOK
<1>. QED  BY <1>1, <1>2, UnchangedTypes, ManagerStep

LEMMA AllocType ==
  ASSUME TypeOK, NEW size \in Nat,
         dragonstone_gc_alloc(size) \/ dragonstone_gc_alloc_with_finalizer(size)
  PROVE  TypeOK'
<1>1. Collectable \subseteq {{}} \cup Reclaimable
  BY DEF Collectable
<1>2. CASE dragonstone_gc_alloc(size)
  BY <1>1, <1>2, ObtainType, ObtainNothingType DEF dragonstone_gc_alloc
<1>3. CASE dragonstone_gc_alloc_with_finalizer(size)
  BY <1>3, ObtainType, ObtainNothingType DEF dragonstone_gc_alloc_with_finalizer
<1>. QED  BY <1>2, <1>3

LEMMA StutterType == TypeOK /\ UNCHANGED vars => TypeOK'
BY DEF TypeOK, ManagerOK, AreasOK, AreaOK, AreaIds, HeapOK, HistoryOK, Blocks, vars

LEMMA NextType ==
  ASSUME TypeOK, Next \/ \E a \in AreaIds : dragonstone_gc_end_area(a)
  PROVE  TypeOK'
<1>1. gc.current_area \in 0 .. Len(areas) /\ Len(areas) \in Nat
  BY AreasFunction DEF TypeOK, ManagerOK
<1>2. CASE dragonstone_gc_init \/ dragonstone_gc_disable \/ dragonstone_gc_enable
  BY <1>2, ControlType
<1>3. CASE dragonstone_gc_shutdown
  BY <1>3, ShutdownType
<1>4. ASSUME NEW size \in Sizes,
             \/ dragonstone_gc_alloc(size)
             \/ dragonstone_gc_alloc_with_finalizer(size)
             \/ \E p \in Blocks : dragonstone_gc_realloc(p, size)
      PROVE  TypeOK'
  BY <1>4, SizesAssumption, AllocType, ReallocType
<1>5. CASE dragonstone_gc_begin_area
  BY <1>5, BeginAreaType
<1>6. CASE EndCurrent \/ \E a \in AreaIds : dragonstone_gc_end_area(a)
  <2>1. gc.current_area # NULL => gc.current_area \in AreaIds
    BY <1>1 DEF NULL, AreaIds
  <2>. QED  BY <1>6, <2>1, EndAreaType DEF EndCurrent
<1>7. ASSUME NEW p \in Blocks, dragonstone_gc_escape(p)
      PROVE  TypeOK'
  <2>1. gc.current_area \in AreaIds
    BY <1>1, <1>7 DEF dragonstone_gc_escape, NULL, AreaIds
  <2>. QED  BY <1>7, <2>1, ParentProperties, EscapeType DEF dragonstone_gc_escape, TypeOK
<1>8. ASSUME NEW p \in Blocks, NEW target \in {NULL} \cup ToSet(Lineage(gc.current_area)),
             dragonstone_gc_escape_to(p, target)
      PROVE  TypeOK'
  <2>1. target \in 0 .. Len(areas)
    <3>1. ToSet(Lineage(gc.current_area)) \subseteq AreaIds
      BY ChainProperties, ElementOfSeq DEF ToSet, TypeOK
    <3>. QED  BY <1>1, <3>1 DEF NULL, AreaIds
  <2>. QED  BY <1>8, <2>1, EscapeType
<1>9. ASSUME NEW p \in Blocks, NEW value \in Blocks, dragonstone_gc_write_barrier(p, value)
      PROVE  TypeOK'
  BY <1>9, BarrierType
<1>10. CASE dragonstone_gc_collect \/ BoehmCollect
  BY <1>10, CollectionType DEF dragonstone_gc_collect, BoehmCollect
<1>. QED  BY <1>2, <1>3, <1>4, <1>5, <1>6, <1>7, <1>8, <1>9, <1>10 DEF Next

(* Every variable keeps its type, and every area its well-formed chain and *)
(* room for what it tracks (gc.c:120), in whatever order areas end.        *)
THEOREM TypeCorrect == AnyOrderSpec => []TypeOK
<1>1. Init => TypeOK
  BY InitType
<1>2. TypeOK /\ [AnyOrderNext]_vars => TypeOK'
  BY NextType, StutterType DEF AnyOrderNext
<1>. QED  BY <1>1, <1>2, PTL DEF AnyOrderSpec

(* The same for clients that end areas innermost first.                    *)
THEOREM TypeCorrectLifo == Spec => []TypeOK
<1>1. Init => TypeOK
  BY InitType
<1>2. TypeOK /\ [Next]_vars => TypeOK'
  BY NextType, StutterType
<1>. QED  BY <1>1, <1>2, PTL DEF Spec
-----------------------------------------------------------------------------
(* Ownership: no block in two slots, and every tracked block malloc memory. *)
(* A tracking array is seen as the set of its pointers, each in one slot.   *)

Owned == UniqueOwner /\ TrackedIsMalloc

Pointers(allocations) == {allocations[i].ptr : i \in 1 .. Len(allocations)}

Distinct(allocations) ==
  \A i, j \in 1 .. Len(allocations) : allocations[i].ptr = allocations[j].ptr => i = j

LEMMA OwnedFacts ==
  ASSUME Owned
  PROVE  \A a \in OpenAreas :
           /\ Distinct(areas[a].allocations)
           /\ \A b \in OpenAreas \ {a} :
                Pointers(areas[a].allocations) \cap Pointers(areas[b].allocations) = {}
           /\ \A q \in Pointers(areas[a].allocations) : q \in Blocks /\ heap[q].state = "malloc"
BY DEF Owned, UniqueOwner, TrackedIsMalloc, Distinct, Pointers, Slots, Ptr

LEMMA OwnedStep ==
  ASSUME \A a \in OpenAreas' :
           /\ Distinct(areas'[a].allocations)
           /\ \A b \in OpenAreas' \ {a} :
                Pointers(areas'[a].allocations) \cap Pointers(areas'[b].allocations) = {}
           /\ \A q \in Pointers(areas'[a].allocations) : q \in Blocks' /\ heap'[q].state = "malloc"
  PROVE  Owned'
<1>1. UniqueOwner'
  <2>. SUFFICES ASSUME NEW a \in OpenAreas', NEW b \in OpenAreas',
                       NEW i \in 1 .. Len(areas'[a].allocations),
                       NEW j \in 1 .. Len(areas'[b].allocations),
                       areas'[a].allocations[i].ptr = areas'[b].allocations[j].ptr
                PROVE  a = b /\ i = j
    BY DEF UniqueOwner, Slots, Ptr
  <2>1. /\ areas'[a].allocations[i].ptr \in Pointers(areas'[a].allocations)
        /\ areas'[b].allocations[j].ptr \in Pointers(areas'[b].allocations)
    BY DEF Pointers
  <2>2. a = b
    BY <2>1
  <2>. QED  BY <2>2 DEF Distinct
<1>2. TrackedIsMalloc'
  BY DEF TrackedIsMalloc, Pointers, Slots, Ptr
<1>. QED  BY <1>1, <1>2 DEF Owned

(* Tracking a block the array does not hold. *)
LEMMA TrackPointers ==
  ASSUME NEW area \in AreaRecord, RoomOK(area), NEW entry \in Entry, NEW grows \in BOOLEAN,
         Distinct(area.allocations), entry.ptr \notin Pointers(area.allocations)
  PROVE  /\ Distinct(Track(area, entry, grows).allocations)
         /\ Pointers(Track(area, entry, grows).allocations)
              \subseteq Pointers(area.allocations) \cup {entry.ptr}
<1>. DEFINE A == area.allocations
            B == Append(A, entry)
<1>1. A \in Seq(Entry) /\ Len(A) \in Nat
  BY LenProperties DEF AreaRecord
<1>2. /\ Len(B) = Len(A) + 1
      /\ \A i \in 1 .. Len(A) : B[i] = A[i]
      /\ B[Len(A) + 1] = entry
  BY <1>1, AppendProperties
<1>3. \A i \in 1 .. Len(B) : i \in 1 .. Len(A) \/ i = Len(A) + 1
  BY <1>1, <1>2
<1>. HIDE DEF A, B
<1>4. Distinct(B)
  BY <1>1, <1>2, <1>3 DEF Distinct, Pointers, A
<1>5. Pointers(B) \subseteq Pointers(A) \cup {entry.ptr}
  BY <1>1, <1>2, <1>3 DEF Pointers
<1>. QED  BY <1>4, <1>5, TrackProperties DEF A, B

(* Untracking a slot removes its pointer and no other. *)
LEMMA UntrackPointers ==
  ASSUME NEW area \in AreaRecord, RoomOK(area), NEW i \in 1 .. Len(area.allocations),
         Distinct(area.allocations)
  PROVE  /\ Distinct(Untrack(area, i).allocations)
         /\ Pointers(Untrack(area, i).allocations)
              = Pointers(area.allocations) \ {area.allocations[i].ptr}
<1>. DEFINE A == area.allocations
            B == SwapRemove(A, i)
<1>1. A \in Seq(Entry) /\ Len(A) \in Nat
  BY LenProperties DEF AreaRecord
<1>2. /\ Len(B) = Len(A) - 1
      /\ \A k \in 1 .. Len(A) - 1 : B[k] = IF k = i THEN A[Len(A)] ELSE A[k]
  BY <1>1, SwapRemoveProperties
<1>. HIDE DEF A, B
<1>3. Distinct(B)
  BY <1>1, <1>2 DEF Distinct, A
<1>4. Pointers(B) \subseteq Pointers(A) \ {A[i].ptr}
  BY <1>1, <1>2 DEF Distinct, Pointers, A
<1>5. Pointers(A) \ {A[i].ptr} \subseteq Pointers(B)
  <2>. SUFFICES ASSUME NEW k \in 1 .. Len(A), A[k].ptr # A[i].ptr
                PROVE  \E l \in 1 .. Len(B) : B[l].ptr = A[k].ptr
    BY DEF Pointers
  <2>1. CASE k = Len(A)
    <3>1. i \in 1 .. Len(B) /\ B[i] = A[k]
      BY <1>1, <1>2, <2>1 DEF A
    <3>. QED  BY <3>1
  <2>2. CASE k # Len(A)
    <3>1. k \in 1 .. Len(B) /\ B[k] = A[k]
      BY <1>1, <1>2, <2>2
    <3>. QED  BY <3>1
  <2>. QED  BY <2>1, <2>2
<1>. QED  BY <1>3, <1>4, <1>5, UntrackProperties DEF A, B

(* Resizing puts a block in the place of another, or of itself. *)
LEMMA ResizedPointers ==
  ASSUME NEW area \in AreaRecord, RoomOK(area), NEW i \in 1 .. Len(area.allocations),
         NEW p \in 1 .. MaxBlocks, NEW size \in Nat, Distinct(area.allocations),
         p = area.allocations[i].ptr \/ p \notin Pointers(area.allocations)
  PROVE  /\ Distinct(Resized(area, i, p, size).allocations)
         /\ Pointers(Resized(area, i, p, size).allocations)
              \subseteq (Pointers(area.allocations) \ {area.allocations[i].ptr}) \cup {p}
<1>. DEFINE A == area.allocations
            B == Resized(area, i, p, size).allocations
<1>1. /\ Len(B) = Len(A)
      /\ \A k \in 1 .. Len(A) : B[k].ptr = IF k = i THEN p ELSE A[k].ptr
  BY ResizedProperties
<1>. HIDE DEF A, B
<1>2. Distinct(B)
  BY <1>1 DEF Distinct, Pointers, A
<1>3. Pointers(B) \subseteq (Pointers(A) \ {A[i].ptr}) \cup {p}
  BY <1>1 DEF Distinct, Pointers, A
<1>. QED  BY <1>2, <1>3 DEF A, B

(* Steps that only open empty areas or close areas. *)
LEMMA SameSlots ==
  ASSUME Owned,
         \A a \in OpenAreas' :
           \/ areas'[a].allocations = <<>>
           \/ a \in OpenAreas /\ areas'[a].allocations = areas[a].allocations,
         \A a \in OpenAreas \cap OpenAreas' : \A q \in Pointers(areas[a].allocations) :
           q \in Blocks' /\ heap'[q].state = "malloc"
  PROVE  Owned'
<1>1. Pointers(<<>>) = {} /\ Distinct(<<>>)
  <2>1. Len(<<>>) = 0
    BY EmptySeq
  <2>. QED  BY <2>1 DEF Pointers, Distinct
<1>. QED  BY <1>1, OwnedFacts, OwnedStep

(* Steps that change one open area. *)
LEMMA OneAreaChanges ==
  ASSUME Owned, AreasOK, NEW s \in OpenAreas, NEW area \in AreaRecord,
         areas' = [areas EXCEPT ![s] = area],
         Distinct(area.allocations),
         \A q \in Pointers(area.allocations) :
           /\ q \in Blocks' /\ heap'[q].state = "malloc"
           /\ \A b \in OpenAreas \ {s} : q \notin Pointers(areas[b].allocations),
         \A b \in OpenAreas \ {s} : \A q \in Pointers(areas[b].allocations) :
           q \in Blocks' /\ heap'[q].state = "malloc"
  PROVE  Owned'
<1>1. /\ areas \in [AreaIds -> AreaRecord]
      /\ Len(areas) \in Nat
  BY AreasFunction
<1>2. /\ areas' \in [AreaIds -> AreaRecord]
      /\ areas'[s] = area
      /\ \A b \in AreaIds \ {s} : areas'[b] = areas[b]
  BY <1>1 DEF OpenAreas
<1>3. AreaIds' = AreaIds
  <2>1. Len(areas') = Len(areas)
    BY <1>1, <1>2, SegmentIsSeq DEF AreaIds
  <2>. QED  BY <2>1 DEF AreaIds
<1>4. \A b \in OpenAreas' : b = s \/ (b \in OpenAreas \ {s} /\ areas'[b] = areas[b])
  BY <1>2, <1>3 DEF OpenAreas
<1>5. \A b \in OpenAreas \ {s} : Pointers(areas[b].allocations) \cap Pointers(area.allocations) = {}
  OBVIOUS
<1>. QED  BY <1>2, <1>4, <1>5, OwnedFacts, OwnedStep

(* A block found on an open chain is in a slot of an open area. *)
LEMMA FoundProperties ==
  ASSUME TypeOK, ChainOpen, NEW p, FindArea(p) # NULL
  PROVE  /\ FindArea(p) \in OpenAreas
         /\ SlotOf(FindArea(p), p) \in Slots(FindArea(p))
         /\ areas[FindArea(p)].allocations[SlotOf(FindArea(p), p)].ptr = p
         /\ p \in Pointers(areas[FindArea(p)].allocations)
<1>1. FindArea(p) \in AreaIds /\ Tracks(FindArea(p), p) /\ areas[FindArea(p)].state = "open"
  BY FindAreaProperties DEF TypeOK, ChainOpen
<1>. QED  BY <1>1, SlotProperties DEF OpenAreas, Slots, Ptr, Pointers

LEMMA CurrentIsOpen ==
  ASSUME TypeOK, ChainOpen, gc.current_area # NULL
  PROVE  gc.current_area \in OpenAreas
<1>1. gc.current_area \in AreaIds
  BY DEF TypeOK, ManagerOK, NULL, AreaIds
<1>2. 1 \in 1 .. Len(Lineage(gc.current_area)) /\ Lineage(gc.current_area)[1] = gc.current_area
  BY <1>1, LineageProperties DEF TypeOK
<1>. QED  BY <1>1, <1>2 DEF ChainOpen, OpenAreas

LEMMA OpenChain ==
  ASSUME TypeOK, ChainOpen
  PROVE  ToSet(Lineage(gc.current_area)) \subseteq OpenAreas
BY ChainProperties, ElementOfSeq DEF ToSet, TypeOK, ChainOpen, OpenAreas

LEMMA OpenParent ==
  ASSUME TypeOK, ChainOpen, gc.current_area \in AreaIds
  PROVE  Parent(gc.current_area) \in {NULL} \cup OpenAreas
<1>1. /\ Lineage(gc.current_area) = areas[gc.current_area].lineage
      /\ Len(Lineage(gc.current_area)) \in Nat
  BY LineageProperties DEF TypeOK
<1>2. CASE Len(Lineage(gc.current_area)) > 1
  <2>1. 2 \in 1 .. Len(Lineage(gc.current_area))
    BY <1>1, <1>2
  <2>2. Parent(gc.current_area) = Lineage(gc.current_area)[2]
    BY <1>1, <1>2 DEF Parent
  <2>3. Lineage(gc.current_area)[2] \in AreaIds
    BY <2>1, ChainProperties, ElementOfSeq DEF TypeOK
  <2>. QED  BY <2>1, <2>2, <2>3 DEF ChainOpen, OpenAreas
<1>3. CASE ~(Len(Lineage(gc.current_area)) > 1)
  BY <1>1, <1>3 DEF Parent
<1>. QED  BY <1>2, <1>3

LEMMA ObtainOwned ==
  ASSUME TypeOK, ChainOpen, Owned, NEW size \in Nat, NEW fin \in BOOLEAN,
         NEW S \in {{}} \cup Reclaimable, Obtain(size, fin, S)
  PROVE  Owned'
<1>. DEFINE a == Ready.current_area
            p == Len(heap) + 1
            entry == [ptr |-> p, size |-> size, finalizer |-> IF fin THEN p ELSE NULL]
<1>1. PICK b \in BlockRecord : heap' = Append(Reclaimed(S), b) /\ (a # NULL => b.state = "malloc")
  <2>1. [state |-> "malloc", finalizer |-> NULL] \in BlockRecord
    BY BoundsAssumption DEF BlockRecord, NULL
  <2>2. p \in 1 .. MaxBlocks
    BY HeapFunction, BoundsAssumption DEF Obtain, TypeOK
  <2>3. [state |-> "boehm", finalizer |-> IF fin THEN p ELSE NULL] \in BlockRecord
    BY <2>2, BoundsAssumption DEF BlockRecord, NULL
  <2>. QED  BY <2>1, <2>3 DEF Obtain
<1>2. /\ Len(heap') = Len(heap) + 1
      /\ p \in 1 .. MaxBlocks
      /\ \A q \in Blocks : heap'[q] = Reclaimed(S)[q]
      /\ heap'[p] = b
      /\ Len(heap) \in Nat
  BY <1>1, NewBlock, ReclaimedProperties, HeapFunction DEF Obtain, TypeOK
<1>3. p \in Blocks' /\ p \notin Blocks /\ Blocks \subseteq Blocks'
  BY <1>2 DEF Blocks
<1>4. \A q \in Blocks : heap[q].state = "malloc" => q \in Blocks' /\ heap'[q].state = "malloc"
  BY <1>2, <1>3, ReclaimedProperties DEF TypeOK
<1>5. CASE a = NULL
  <2>1. areas' = areas
    BY <1>5 DEF Obtain
  <2>2. OpenAreas' = OpenAreas
    BY <2>1 DEF OpenAreas, AreaIds
  <2>. QED  BY <1>4, <2>1, <2>2, OwnedFacts, SameSlots
<1>6. CASE a # NULL
  <2>1. a \in OpenAreas
    BY <1>6, ReadyType, CurrentIsOpen DEF TypeOK
  <2>2. PICK grows \in BOOLEAN : areas' = [areas EXCEPT ![a] = Track(areas[a], entry, grows)]
    BY <1>6 DEF Obtain, Outcomes
  <2>3. entry \in Entry /\ entry.ptr = p
    BY <1>2, BoundsAssumption DEF Entry, NULL
  <2>4. areas[a] \in AreaRecord /\ RoomOK(areas[a])
    BY <2>1, AreasFunction DEF TypeOK, OpenAreas
  <2>5. /\ Distinct(areas[a].allocations)
        /\ \A c \in OpenAreas : p \notin Pointers(areas[c].allocations)
    BY <1>3, <2>1, OwnedFacts
  <2>. DEFINE area == Track(areas[a], entry, grows)
  <2>6. /\ area \in AreaRecord
        /\ Distinct(area.allocations)
        /\ Pointers(area.allocations) \subseteq Pointers(areas[a].allocations) \cup {p}
    <3>. HIDE DEF entry, a, p
    <3>. QED  BY <2>3, <2>4, <2>1, <2>5, TrackProperties, TrackPointers
  <2>7. areas' = [areas EXCEPT ![a] = area]
    BY <2>2
  <2>8. heap'[p].state = "malloc"
    BY <1>1, <1>2, <1>6
  <2>. HIDE DEF a, p, area
  <2>. QED  BY <1>3, <1>4, <2>1, <2>5, <2>6, <2>7, <2>8, OwnedFacts, OneAreaChanges DEF TypeOK
<1>. QED  BY <1>5, <1>6

(* Steps that leave the areas alone and free no malloc block. *)
LEMMA SameAreas ==
  ASSUME Owned, UNCHANGED areas,
         \A q \in Blocks : heap[q].state = "malloc" => q \in Blocks' /\ heap'[q].state = "malloc"
  PROVE  Owned'
<1>1. OpenAreas' = OpenAreas
  BY DEF OpenAreas, AreaIds
<1>. QED  BY <1>1, OwnedFacts, SameSlots

LEMMA CollectionOwned ==
  ASSUME TypeOK, Owned, NEW S \in {{}} \cup Reclaimable, heap' = Reclaimed(S), UNCHANGED areas
  PROVE  Owned'
<1>1. Blocks' = Blocks
  BY ReclaimedProperties DEF TypeOK, Blocks
<1>. QED  BY <1>1, ReclaimedProperties, SameAreas DEF TypeOK

LEMMA ReallocOwned ==
  ASSUME TypeOK, ChainOpen, Owned, NEW p \in Blocks, NEW size \in Nat,
         dragonstone_gc_realloc(p, size)
  PROVE  Owned'
<1>. DEFINE a == FindArea(p)
            i == SlotOf(a, p)
<1>1. /\ a \in OpenAreas /\ a \in AreaIds
      /\ i \in 1 .. Len(areas[a].allocations)
      /\ areas[a].allocations[i].ptr = p
      /\ p \in Pointers(areas[a].allocations)
  BY FoundProperties DEF dragonstone_gc_realloc, Slots, OpenAreas
<1>2. areas[a] \in AreaRecord /\ RoomOK(areas[a])
  BY <1>1, AreasFunction DEF TypeOK
<1>3. Len(heap) \in Nat /\ p \in 1 .. MaxBlocks /\ Blocks = 1 .. Len(heap)
  BY HeapFunction, BoundsAssumption DEF TypeOK, HeapOK, Blocks
<1>4. Distinct(areas[a].allocations)
  BY <1>1, OwnedFacts
<1>5. CASE areas' = [areas EXCEPT ![a] = Resized(areas[a], i, p, size)] /\ UNCHANGED heap
  <2>. DEFINE area == Resized(areas[a], i, p, size)
  <2>1. /\ area \in AreaRecord
        /\ Distinct(area.allocations)
        /\ Pointers(area.allocations) \subseteq Pointers(areas[a].allocations)
    <3>1. area \in AreaRecord
      BY <1>1, <1>2, <1>3, ResizedProperties
    <3>2. /\ Distinct(area.allocations)
          /\ Pointers(area.allocations)
               \subseteq (Pointers(areas[a].allocations) \ {areas[a].allocations[i].ptr}) \cup {p}
      BY <1>1, <1>2, <1>3, <1>4, ResizedPointers
    <3>. HIDE DEF a, i, area
    <3>. QED  BY <1>1, <3>1, <3>2
  <2>2. Blocks' = Blocks
    BY <1>5 DEF Blocks
  <2>3. areas' = [areas EXCEPT ![a] = area]
    BY <1>5
  <2>. HIDE DEF a, i, area
  <2>. QED  BY <1>1, <1>5, <2>1, <2>2, <2>3, OwnedFacts, OneAreaChanges DEF TypeOK
<1>6. CASE /\ Len(heap) < MaxBlocks
           /\ areas' = [areas EXCEPT ![a] = Resized(areas[a], i, Len(heap) + 1, size)]
           /\ heap' = Append([heap EXCEPT ![p].state = "freed"],
                             [state |-> "malloc", finalizer |-> NULL])
  <2>. DEFINE n == Len(heap) + 1
              h == [heap EXCEPT ![p].state = "freed"]
              b == [state |-> "malloc", finalizer |-> NULL]
              area == Resized(areas[a], i, n, size)
  <2>1. b \in BlockRecord /\ b.state = "malloc"
    BY BoundsAssumption DEF BlockRecord, NULL
  <2>2. h \in Seq(BlockRecord) /\ Len(h) = Len(heap) /\ \A q \in Blocks \ {p} : h[q] = heap[q]
    BY FreedBlock DEF TypeOK
  <2>3. /\ n \in 1 .. MaxBlocks
        /\ Blocks' = Blocks \cup {n}
        /\ n \notin Blocks
        /\ \A q \in Blocks \ {p} : heap'[q] = heap[q]
        /\ heap'[n].state = "malloc"
    <3>. HIDE DEF h, b
    <3>1. /\ Len(heap') = n
          /\ n \in 1 .. MaxBlocks
          /\ \A q \in Blocks : heap'[q] = h[q]
          /\ heap'[n] = b
      BY <1>6, <2>1, <2>2, NewBlock DEF TypeOK, h, b
    <3>. QED  BY <1>3, <2>1, <2>2, <3>1 DEF Blocks
  <2>4. n \notin Pointers(areas[a].allocations)
    BY <1>1, <2>3, OwnedFacts
  <2>. HIDE DEF n
  <2>5. /\ area \in AreaRecord
        /\ Distinct(area.allocations)
        /\ \A q \in Pointers(area.allocations) :
             q = n \/ q \in Pointers(areas[a].allocations) \ {p}
    <3>1. area \in AreaRecord
      BY <1>1, <1>2, <2>3, ResizedProperties
    <3>2. /\ Distinct(area.allocations)
          /\ Pointers(area.allocations)
               \subseteq (Pointers(areas[a].allocations) \ {areas[a].allocations[i].ptr}) \cup {n}
      BY <1>1, <1>2, <1>4, <2>3, <2>4, ResizedPointers
    <3>. HIDE DEF a, i, area
    <3>. QED  BY <1>1, <3>1, <3>2
  <2>6. areas' = [areas EXCEPT ![a] = area]
    BY <1>6 DEF n
  <2>. HIDE DEF a, i, area
  <2>7. \A c \in OpenAreas \ {a} :
          p \notin Pointers(areas[c].allocations) /\ n \notin Pointers(areas[c].allocations)
    BY <1>1, <2>3, OwnedFacts
  <2>8. \A c \in OpenAreas \ {a} : \A q \in Pointers(areas[c].allocations) :
          q \in Blocks' /\ heap'[q].state = "malloc"
    BY <2>3, <2>7, OwnedFacts
  <2>9. \A q \in Pointers(area.allocations) :
          /\ q \in Blocks' /\ heap'[q].state = "malloc"
          /\ \A c \in OpenAreas \ {a} : q \notin Pointers(areas[c].allocations)
    BY <1>1, <2>3, <2>5, <2>7, OwnedFacts
  <2>. QED  BY <1>1, <2>5, <2>6, <2>8, <2>9, OneAreaChanges DEF TypeOK
<1>. QED  BY <1>5, <1>6 DEF dragonstone_gc_realloc

LEMMA EndAreaOwned ==
  ASSUME TypeOK, Owned, NEW a \in AreaIds, dragonstone_gc_end_area(a)
  PROVE  Owned'
<1>1. a \in OpenAreas
  BY DEF dragonstone_gc_end_area, OpenAreas
<1>2. /\ Ended(areas[a]).state = "ended"
      /\ areas' = [areas EXCEPT ![a] = Ended(areas[a])]
      /\ areas \in [AreaIds -> AreaRecord]
      /\ Len(areas) \in Nat
  BY AreasFunction, EndedProperties DEF dragonstone_gc_end_area, TypeOK
<1>3. AreaIds' = AreaIds
  BY <1>2 DEF AreaIds
<1>4. \A b \in OpenAreas' : b # a /\ b \in OpenAreas /\ areas'[b] = areas[b]
  BY <1>2, <1>3 DEF OpenAreas
<1>5. Blocks' = Blocks /\ heap' = FreedWith({a})
  BY FreedWithProperties DEF dragonstone_gc_end_area, TypeOK, Blocks
<1>6. \A b \in OpenAreas \ {a} : \A q \in Pointers(areas[b].allocations) :
        q \in Blocks /\ ~Tracks(a, q) /\ heap[q].state = "malloc"
  BY <1>1, OwnedFacts DEF Tracks, Pointers
<1>7. \A b \in OpenAreas \ {a} : \A q \in Pointers(areas[b].allocations) :
        q \in Blocks' /\ heap'[q].state = "malloc"
  BY <1>5, <1>6, FreedWithProperties DEF TypeOK
<1>. QED  BY <1>4, <1>7, SameSlots

LEMMA BeginAreaOwned ==
  ASSUME TypeOK, Owned, dragonstone_gc_begin_area
  PROVE  Owned'
<1>1. heap' = heap /\ Blocks' = Blocks
  BY DEF dragonstone_gc_begin_area, Blocks
<1>2. CASE UNCHANGED areas
  BY <1>1, <1>2, SameAreas
<1>. DEFINE a == Len(areas) + 1
            area == [state |-> "open", lineage |-> <<a>> \o Lineage(Ready.current_area),
                     allocations |-> <<>>, capacity |-> 0, total_bytes |-> 0]
<1>3. CASE areas' = Append(areas, area)
  <2>1. areas \in Seq(AreaRecord) /\ Len(areas) \in Nat
    BY AreasFunction DEF TypeOK, AreasOK
  <2>2. area.allocations = <<>>
    OBVIOUS
  <2>. HIDE DEF area
  <2>3. /\ Len(areas') = Len(areas) + 1
        /\ \A b \in AreaIds : areas'[b] = areas[b]
        /\ areas'[Len(areas) + 1] = area
    <3>1. \A e : Len(Append(areas, e)) = Len(areas) + 1
      BY <2>1
    <3>2. \A e : Append(areas, e)[Len(areas) + 1] = e
      BY <2>1
    <3>3. \A e : \A b \in 1 .. Len(areas) : Append(areas, e)[b] = areas[b]
      BY <2>1
    <3>. QED  BY <1>3, <3>1, <3>2, <3>3 DEF AreaIds
  <2>4. \A b \in AreaIds' : b \in AreaIds \/ b = Len(areas) + 1
    BY <2>1, <2>3 DEF AreaIds
  <2>5. \A b \in OpenAreas' : \/ areas'[b].allocations = <<>>
                              \/ b \in OpenAreas /\ areas'[b].allocations = areas[b].allocations
    BY <2>2, <2>3, <2>4 DEF OpenAreas
  <2>. QED  BY <1>1, <2>5, OwnedFacts, SameSlots
<1>. QED  BY <1>2, <1>3 DEF dragonstone_gc_begin_area

LEMMA ShutdownOwned ==
  ASSUME TypeOK, ChainOpen, Owned, dragonstone_gc_shutdown
  PROVE  Owned'
<1>. DEFINE chain == ToSet(Lineage(gc.current_area))
<1>1. PICK S \in Reclaimable :
        heap' = [p \in Blocks |-> IF p \in S THEN Reclaimed(S)[p] ELSE FreedWith(chain)[p]]
  BY DEF dragonstone_gc_shutdown
<1>2. areas' = [a \in AreaIds |-> IF a \in chain THEN Ended(areas[a]) ELSE areas[a]]
  BY DEF dragonstone_gc_shutdown
<1>. HIDE DEF chain
<1>3. AreaIds' = AreaIds /\ Blocks' = Blocks
  <2>1. Len(areas) \in Nat /\ Len(heap) \in Nat
    BY AreasFunction, HeapFunction DEF TypeOK
  <2>2. Len(areas') = Len(areas) /\ Len(heap') = Len(heap)
    BY <1>1, <1>2, <2>1 DEF AreaIds, Blocks
  <2>. QED  BY <2>2 DEF AreaIds, Blocks
<1>4. \A b \in OpenAreas' : b \notin chain /\ b \in OpenAreas /\ areas'[b] = areas[b]
  <2>1. \A b \in AreaIds : Ended(areas[b]).state = "ended"
    BY AreasFunction, EndedProperties DEF TypeOK
  <2>. QED  BY <1>2, <1>3, <2>1 DEF OpenAreas
<1>5. \A b \in OpenAreas \ chain : \A q \in Pointers(areas[b].allocations) :
        q \in Blocks' /\ heap'[q].state = "malloc"
  <2>. SUFFICES ASSUME NEW b \in OpenAreas \ chain, NEW q \in Pointers(areas[b].allocations)
                PROVE  q \in Blocks' /\ heap'[q].state = "malloc"
    OBVIOUS
  <2>1. q \in Blocks /\ heap[q].state = "malloc"
    BY OwnedFacts
  <2>2. q \notin S
    BY <2>1 DEF Reclaimable
  <2>3. \A a \in chain : ~Tracks(a, q)
    <3>. SUFFICES ASSUME NEW a \in chain, Tracks(a, q)
                  PROVE  FALSE
      OBVIOUS
    <3>1. a \in OpenAreas
      BY OpenChain DEF chain
    <3>. QED  BY <3>1, OwnedFacts DEF Tracks, Pointers
  <2>. QED  BY <1>1, <1>3, <2>1, <2>2, <2>3, FreedWithProperties DEF TypeOK
<1>. QED  BY <1>4, <1>5, SameSlots

(* Escapes to an open area or to the collector. *)
LEMMA EscapeOwned ==
  ASSUME TypeOK, ChainOpen, Owned, NEW p \in Blocks, NEW target \in {NULL} \cup OpenAreas,
         dragonstone_gc_escape_to(p, target)
  PROVE  Owned'
<1>. DEFINE s == FindArea(p)
            i == SlotOf(s, p)
            entry == areas[s].allocations[i]
            left == Untrack(areas[s], i)
<1>1. /\ s \in OpenAreas /\ s \in AreaIds /\ s # target
      /\ i \in Slots(s) /\ i \in 1 .. Len(areas[s].allocations)
      /\ entry.ptr = p
      /\ p \in Pointers(areas[s].allocations)
  BY FoundProperties DEF dragonstone_gc_escape_to, Slots, OpenAreas
<1>2. areas[s] \in AreaRecord /\ RoomOK(areas[s]) /\ Distinct(areas[s].allocations)
  BY <1>1, AreasFunction, OwnedFacts DEF TypeOK
<1>3. entry \in Entry
  BY <1>1, EscapeAreas
<1>4. /\ left \in AreaRecord
      /\ RoomOK(left)
      /\ Distinct(left.allocations)
  BY <1>1, <1>2, UntrackProperties, UntrackPointers
<1>5. Pointers(left.allocations) = Pointers(areas[s].allocations) \ {p}
  <2>1. Pointers(left.allocations) = Pointers(areas[s].allocations) \ {entry.ptr}
    BY <1>1, <1>2, UntrackPointers
  <2>. HIDE DEF s, i, entry, left
  <2>. QED  BY <1>1, <2>1
<1>6. \A b \in OpenAreas \ {s} : p \notin Pointers(areas[b].allocations)
  BY <1>1, OwnedFacts
<1>7. CASE areas' = [areas EXCEPT ![s] = left] /\ heap' = heap
  <2>1. Blocks' = Blocks
    BY <1>7 DEF Blocks
  <2>. HIDE DEF s, i, entry, left
  <2>. QED  BY <1>1, <1>4, <1>5, <1>7, <2>1, OwnedFacts, OneAreaChanges DEF TypeOK
<1>8. ASSUME NEW grows \in BOOLEAN, target # NULL, heap' = heap,
             areas' = [areas EXCEPT ![s] = left, ![target] = Track(areas[target], entry, grows)]
      PROVE  Owned'
  <2>. DEFINE grown == Track(areas[target], entry, grows)
  <2>1. target \in OpenAreas /\ target \in AreaIds
    BY <1>8 DEF OpenAreas
  <2>2. /\ grown.state = areas[target].state
        /\ Distinct(grown.allocations)
        /\ Pointers(grown.allocations) \subseteq Pointers(areas[target].allocations) \cup {p}
    <3>1. areas[target] \in AreaRecord /\ RoomOK(areas[target])
      BY <2>1, AreasFunction DEF TypeOK
    <3>2. Distinct(areas[target].allocations) /\ p \notin Pointers(areas[target].allocations)
      BY <1>1, <1>6, <2>1, OwnedFacts
    <3>. HIDE DEF s, i, entry
    <3>3. grown.state = areas[target].state
      BY <1>3, <3>1, TrackProperties
    <3>4. /\ Distinct(grown.allocations)
          /\ Pointers(grown.allocations) \subseteq Pointers(areas[target].allocations) \cup {entry.ptr}
      BY <1>1, <1>3, <3>1, <3>2, TrackPointers
    <3>. HIDE DEF grown
    <3>. QED  BY <1>1, <3>3, <3>4
  <2>3. /\ areas \in [AreaIds -> AreaRecord]
        /\ Len(areas) \in Nat
    BY AreasFunction DEF TypeOK
  <2>. HIDE DEF s, i, entry, left, grown
  <2>4. /\ AreaIds' = AreaIds
        /\ areas'[s] = left
        /\ areas'[target] = grown
        /\ \A b \in AreaIds \ {s, target} : areas'[b] = areas[b]
    <3>1. areas' = [areas EXCEPT ![s] = left, ![target] = grown]
      BY <1>8 DEF grown
    <3>2. Len(areas') = Len(areas)
      BY <2>3, <3>1 DEF AreaIds
    <3>. QED  BY <1>1, <2>1, <2>3, <3>1, <3>2 DEF AreaIds
  <2>5. \A b \in OpenAreas' : b \in OpenAreas
    BY <1>1, <2>1, <2>4 DEF OpenAreas
  <2>6. Blocks' = Blocks
    BY <1>8 DEF Blocks
  <2>7. \A b \in OpenAreas' : Distinct(areas'[b].allocations)
    BY <1>4, <2>2, <2>4, <2>5, OwnedFacts DEF OpenAreas
  <2>8. \A b \in OpenAreas' :
          /\ b = s => Pointers(areas'[b].allocations) = Pointers(areas[s].allocations) \ {p}
          /\ b = target =>
               Pointers(areas'[b].allocations) \subseteq Pointers(areas[target].allocations) \cup {p}
          /\ b \notin {s, target} =>
               Pointers(areas'[b].allocations) = Pointers(areas[b].allocations)
    BY <1>5, <2>2, <2>4 DEF OpenAreas
  <2>9. \A b \in OpenAreas' : \A q \in Pointers(areas'[b].allocations) :
          \/ q \in Pointers(areas[b].allocations) /\ (q = p => b = target)
          \/ q = p /\ b = target
    BY <1>6, <2>5, <2>8
  <2>10. \A b \in OpenAreas' : \A q \in Pointers(areas'[b].allocations) :
          q \in Blocks' /\ heap'[q].state = "malloc"
    BY <1>1, <1>8, <2>5, <2>6, <2>9, OwnedFacts
  <2>11. \A b \in OpenAreas' : \A c \in OpenAreas' \ {b} :
          Pointers(areas'[b].allocations) \cap Pointers(areas'[c].allocations) = {}
    BY <2>5, <2>9, OwnedFacts
  <2>. QED  BY <2>7, <2>10, <2>11, OwnedStep
<1>9. CASE /\ Len(heap) < MaxBlocks
           /\ areas' = [areas EXCEPT ![s] = left]
           /\ heap' = Append([heap EXCEPT ![p].state = "freed"],
                             [state |-> "boehm", finalizer |-> entry.finalizer])
  <2>. DEFINE h == [heap EXCEPT ![p].state = "freed"]
              b == [state |-> "boehm", finalizer |-> entry.finalizer]
  <2>1. b \in BlockRecord
    BY <1>3 DEF Entry, BlockRecord
  <2>2. h \in Seq(BlockRecord) /\ Len(h) = Len(heap) /\ \A q \in Blocks \ {p} : h[q] = heap[q]
    BY FreedBlock DEF TypeOK
  <2>. HIDE DEF h, b
  <2>3. /\ Len(heap') = Len(heap) + 1
        /\ \A q \in Blocks : heap'[q] = h[q]
    BY <1>9, <2>1, <2>2, NewBlock DEF TypeOK, h, b
  <2>4. \A q \in Blocks \ {p} : q \in Blocks' /\ heap'[q] = heap[q]
    <3>1. Len(heap) \in Nat
      BY HeapFunction DEF TypeOK
    <3>. QED  BY <2>2, <2>3, <3>1 DEF Blocks
  <2>. HIDE DEF s, i, entry, left
  <2>5. \A q \in Pointers(left.allocations) :
          /\ q \in Blocks' /\ heap'[q].state = "malloc"
          /\ \A c \in OpenAreas \ {s} : q \notin Pointers(areas[c].allocations)
    BY <1>1, <1>5, <2>4, OwnedFacts
  <2>6. \A c \in OpenAreas \ {s} : \A q \in Pointers(areas[c].allocations) :
          q \in Blocks' /\ heap'[q].state = "malloc"
    BY <1>6, <2>4, OwnedFacts
  <2>. QED  BY <1>1, <1>4, <1>9, <2>5, <2>6, OneAreaChanges DEF TypeOK
<1>10. CASE areas' = [areas EXCEPT ![s] = Track(left, entry, TRUE)] /\ heap' = heap
  <2>. DEFINE area == Track(left, entry, TRUE)
  <2>1. /\ area \in AreaRecord
        /\ Distinct(area.allocations)
        /\ Pointers(area.allocations) \subseteq Pointers(left.allocations) \cup {entry.ptr}
    <3>. HIDE DEF s, i, entry, left
    <3>. QED  BY <1>1, <1>3, <1>4, <1>5, TrackProperties, TrackPointers
  <2>2. Blocks' = Blocks
    BY <1>10 DEF Blocks
  <2>3. areas' = [areas EXCEPT ![s] = area]
    BY <1>10
  <2>. HIDE DEF s, i, entry, left, area
  <2>4. \A q \in Pointers(area.allocations) : q \in Pointers(areas[s].allocations)
    BY <1>1, <1>5, <2>1
  <2>5. \A q \in Pointers(area.allocations) :
          /\ q \in Blocks' /\ heap'[q].state = "malloc"
          /\ \A c \in OpenAreas \ {s} : q \notin Pointers(areas[c].allocations)
    BY <1>1, <1>10, <2>2, <2>4, OwnedFacts
  <2>6. \A c \in OpenAreas \ {s} : \A q \in Pointers(areas[c].allocations) :
          q \in Blocks' /\ heap'[q].state = "malloc"
    BY <1>10, <2>2, OwnedFacts
  <2>. QED  BY <1>1, <2>1, <2>3, <2>5, <2>6, OneAreaChanges DEF TypeOK
<1>11. CASE EscapeLost(p, s)
  BY <1>7, <1>11 DEF EscapeLost
<1>12. CASE target # NULL /\ EscapeToArea(p, s, target)
  BY <1>1, <1>8, <1>12 DEF EscapeToArea, Outcomes
<1>13. CASE EscapeToBoehm(p, s)
  BY <1>9, <1>10, <1>13 DEF EscapeToBoehm
<1>. QED  BY <1>11, <1>12, <1>13 DEF dragonstone_gc_escape_to

LEMMA NextOwned ==
  ASSUME TypeOK, Owned, Next \/ \E a \in AreaIds : dragonstone_gc_end_area(a)
  PROVE  Owned'
<1>1. gc.current_area \in 0 .. Len(areas) /\ Len(areas) \in Nat
  BY AreasFunction DEF TypeOK, ManagerOK
<1>2. CASE dragonstone_gc_init \/ dragonstone_gc_disable \/ dragonstone_gc_enable
  <2>1. areas' = areas /\ heap' = heap
    BY <1>2 DEF dragonstone_gc_init, dragonstone_gc_disable, dragonstone_gc_enable
  <2>. QED  BY <2>1, SameAreas DEF Blocks
<1>3. CASE dragonstone_gc_shutdown
  BY <1>3, ShutdownOwned DEF dragonstone_gc_shutdown
<1>4. ASSUME NEW size \in Sizes,
             dragonstone_gc_alloc(size) \/ dragonstone_gc_alloc_with_finalizer(size)
      PROVE  Owned'
  <2>1. PICK S \in {{}} \cup Reclaimable, fin \in BOOLEAN : Obtain(size, fin, S) \/ ObtainNothing(S)
    BY <1>4 DEF dragonstone_gc_alloc, dragonstone_gc_alloc_with_finalizer, Collectable
  <2>2. CASE Obtain(size, fin, S)
    BY <2>2, SizesAssumption, ObtainOwned DEF Obtain
  <2>3. CASE ObtainNothing(S)
    BY <2>3, CollectionOwned DEF ObtainNothing
  <2>. QED  BY <2>1, <2>2, <2>3
<1>5. ASSUME NEW size \in Sizes, NEW p \in Blocks, dragonstone_gc_realloc(p, size)
      PROVE  Owned'
  BY <1>5, SizesAssumption, ReallocOwned DEF dragonstone_gc_realloc
<1>6. CASE dragonstone_gc_begin_area
  BY <1>6, BeginAreaOwned
<1>7. CASE EndCurrent \/ \E a \in AreaIds : dragonstone_gc_end_area(a)
  <2>1. gc.current_area # NULL => gc.current_area \in AreaIds
    BY <1>1 DEF NULL, AreaIds
  <2>. QED  BY <1>7, <2>1, EndAreaOwned DEF EndCurrent
<1>8. ASSUME NEW p \in Blocks, dragonstone_gc_escape(p)
      PROVE  Owned'
  <2>1. gc.current_area \in AreaIds
    BY <1>1, <1>8 DEF dragonstone_gc_escape, NULL, AreaIds
  <2>2. ChainOpen
    BY <1>8 DEF dragonstone_gc_escape, dragonstone_gc_escape_to
  <2>3. Parent(gc.current_area) \in {NULL} \cup OpenAreas
    BY <2>1, <2>2, OpenParent
  <2>. QED  BY <1>8, <2>2, <2>3, EscapeOwned DEF dragonstone_gc_escape
<1>9. ASSUME NEW p \in Blocks, NEW target \in {NULL} \cup ToSet(Lineage(gc.current_area)),
             dragonstone_gc_escape_to(p, target)
      PROVE  Owned'
  <2>1. ChainOpen
    BY <1>9 DEF dragonstone_gc_escape_to
  <2>. QED  BY <1>9, <2>1, OpenChain, EscapeOwned
<1>10. ASSUME NEW p \in Blocks, NEW value \in Blocks, dragonstone_gc_write_barrier(p, value)
      PROVE  Owned'
  <2>1. areas' = areas /\ heap' = heap
    BY <1>10 DEF dragonstone_gc_write_barrier
  <2>. QED  BY <2>1, SameAreas DEF Blocks
<1>11. CASE dragonstone_gc_collect \/ BoehmCollect
  BY <1>11, CollectionOwned DEF dragonstone_gc_collect, BoehmCollect
<1>. QED  BY <1>2, <1>3, <1>4, <1>5, <1>6, <1>7, <1>8, <1>9, <1>10, <1>11 DEF Next

LEMMA InitOwned == Init => Owned
<1>. SUFFICES ASSUME Init PROVE Owned
  OBVIOUS
<1>1. Len(areas) = 0
  BY EmptySeq DEF Init
<1>2. OpenAreas = {}
  BY <1>1 DEF OpenAreas, AreaIds
<1>. QED  BY <1>2 DEF Owned, UniqueOwner, TrackedIsMalloc

LEMMA StutterOwned == Owned /\ UNCHANGED vars => Owned'
BY DEF Owned, UniqueOwner, TrackedIsMalloc, OpenAreas, AreaIds, Slots, Ptr, Blocks, vars

(* In whatever order areas end, no block is ever in two slots of the       *)
(* tracking arrays end_area frees (gc.c:492), so none is freed twice.      *)
THEOREM UniqueOwnerAnyOrder == AnyOrderSpec => []UniqueOwner
<1>1. Init => TypeOK /\ Owned
  BY InitType, InitOwned
<1>2. TypeOK /\ Owned /\ [AnyOrderNext]_vars => (TypeOK /\ Owned)'
  BY NextType, StutterType, NextOwned, StutterOwned DEF AnyOrderNext
<1>3. Owned => UniqueOwner
  BY DEF Owned
<1>. QED  BY <1>1, <1>2, <1>3, PTL DEF AnyOrderSpec

(* ... and what end_area frees is malloc memory that nothing freed before. *)
THEOREM TrackedIsMallocAnyOrder == AnyOrderSpec => []TrackedIsMalloc
<1>1. Init => TypeOK /\ Owned
  BY InitType, InitOwned
<1>2. TypeOK /\ Owned /\ [AnyOrderNext]_vars => (TypeOK /\ Owned)'
  BY NextType, StutterType, NextOwned, StutterOwned DEF AnyOrderNext
<1>3. Owned => TrackedIsMalloc
  BY DEF Owned
<1>. QED  BY <1>1, <1>2, <1>3, PTL DEF AnyOrderSpec
-----------------------------------------------------------------------------
(* Clients that end areas innermost first: the chain from the current area *)
(* is always exactly the areas that are open, so the condition under which *)
(* every block has one owner never has to be assumed of them. Then, about  *)
(* what steps may do to blocks: none is collected while a disable is in    *)
(* force.                                                                  *)

(* What ChainIsOpenAreas needs to be inductive: popping an area leaves the *)
(* chain of its parent, and a manager shut down has no current area.       *)
ParentsOK ==
  \A a \in AreaIds : areas[a].lineage = <<a>> \o Lineage(Parent(a))

ChainInv ==
  /\ ParentsOK
  /\ ChainIsOpenAreas
  /\ CountIsDepth
  /\ ~gc.initialized => gc.current_area = NULL

(* An area is followed on its chain by its parent's chain, on which it is  *)
(* not.                                                                    *)
LEMMA PoppedChain ==
  ASSUME TypeOK, ParentsOK, NEW a \in AreaIds
  PROVE  /\ Lineage(Parent(a)) \in Seq(AreaIds)
         /\ Len(Lineage(Parent(a))) = Len(Lineage(a)) - 1
         /\ ToSet(Lineage(Parent(a))) = ToSet(Lineage(a)) \ {a}
<1>. DEFINE tail == Lineage(Parent(a))
            chain == Lineage(a)
<1>0. /\ chain \in Seq(AreaIds)
      /\ Len(chain) \in Nat \ {0}
      /\ chain[1] = a
      /\ \A i \in 2 .. Len(chain) : chain[i] < a
      /\ chain = areas[a].lineage
  BY LineageProperties DEF TypeOK
<1>1. chain = <<a>> \o tail /\ a \in Nat
  BY <1>0 DEF ParentsOK, AreaIds
<1>2. tail \in Seq(AreaIds)
  <2>1. Len(areas) \in Nat /\ Parent(a) \in 0 .. Len(areas)
    BY AreasFunction, ParentProperties DEF TypeOK
  <2>2. CASE Parent(a) = NULL
    BY <2>2, EmptySeq DEF Lineage
  <2>3. CASE Parent(a) # NULL
    <3>1. Parent(a) \in AreaIds
      BY <2>1, <2>3 DEF NULL, AreaIds
    <3>. QED  BY <3>1, LineageProperties DEF TypeOK
  <2>. QED  BY <2>2, <2>3
<1>. HIDE DEF tail, chain
<1>3. /\ Len(tail) \in Nat
      /\ Len(chain) = Len(tail) + 1
      /\ \A i \in 1 .. Len(tail) : tail[i] = chain[i + 1]
  <2>1. <<a>> \in Seq(AreaIds) /\ Len(<<a>>) = 1 /\ <<a>>[1] = a
    OBVIOUS
  <2>2. Len(tail) \in Nat
    BY <1>2, LenProperties
  <2>. QED  BY <1>1, <1>2, <2>1, <2>2, ConcatProperties
<1>4. ToSet(tail) = {tail[i] : i \in 1 .. Len(tail)}
  BY <1>2 DEF ToSet
<1>5. ToSet(chain) = {chain[i] : i \in 1 .. Len(chain)}
  BY <1>0 DEF ToSet
<1>6. ASSUME NEW b \in ToSet(tail)
      PROVE  b \in ToSet(chain) \ {a}
  <2>1. PICK i \in 1 .. Len(tail) : b = chain[i + 1]
    BY <1>3, <1>4
  <2>2. i + 1 \in 2 .. Len(chain) /\ i + 1 \in 1 .. Len(chain)
    BY <1>3
  <2>3. b < a /\ b # a
    BY <1>0, <1>1, <2>1, <2>2
  <2>. QED  BY <1>5, <2>1, <2>2, <2>3
<1>7. ASSUME NEW b \in ToSet(chain) \ {a}
      PROVE  b \in ToSet(tail)
  <2>1. PICK i \in 1 .. Len(chain) : b = chain[i]
    BY <1>5
  <2>2. i # 1
    BY <1>0, <2>1
  <2>3. i - 1 \in 1 .. Len(tail) /\ tail[i - 1] = b
    BY <1>3, <2>1, <2>2
  <2>. QED  BY <1>4, <2>3
<1>8. Len(chain) - 1 = Len(tail)
  BY <1>3
<1>. QED  BY <1>2, <1>6, <1>7, <1>8 DEF tail, chain

LEMMA ChainInvOpen ==
  ASSUME TypeOK, ChainInv
  PROVE  ChainOpen
<1>1. \A i \in 1 .. Len(Lineage(gc.current_area)) :
        Lineage(gc.current_area)[i] \in ToSet(Lineage(gc.current_area))
  <2>1. Lineage(gc.current_area) \in Seq(AreaIds)
    BY ChainProperties DEF TypeOK
  <2>. QED  BY <2>1 DEF ToSet
<1>. QED  BY <1>1 DEF ChainInv, ChainIsOpenAreas, OpenAreas, ChainOpen

(* A manager that is initialised on first use has no current area and no   *)
(* areas counted.                                                          *)
LEMMA ReadyChain ==
  ASSUME TypeOK, ChainInv
  PROVE  /\ Ready.current_area = gc.current_area
         /\ Ready.area_count = Len(Lineage(gc.current_area))
         /\ Ready.initialized
<1>1. CASE gc.initialized
  BY <1>1 DEF Ready, ChainInv, CountIsDepth
<1>2. CASE ~gc.initialized
  <2>1. gc.current_area = NULL /\ Lineage(gc.current_area) = <<>>
    BY <1>2 DEF ChainInv, Lineage
  <2>2. Len(<<>>) = 0
    BY EmptySeq
  <2>. QED  BY <1>2, <2>1, <2>2 DEF Ready, Startup
<1>. QED  BY <1>1, <1>2

(* Steps that open and close no area. *)
LEMMA SameShape ==
  ASSUME TypeOK, ChainInv, Len(areas') = Len(areas),
         \A a \in AreaIds : areas'[a].state = areas[a].state /\ areas'[a].lineage = areas[a].lineage,
         gc'.current_area = gc.current_area,
         (gc'.initialized = gc.initialized /\ gc'.area_count = gc.area_count) \/ gc' = Ready
  PROVE  ChainInv'
<1>1. AreaIds' = AreaIds
  BY DEF AreaIds
<1>2. OpenAreas' = OpenAreas
  BY <1>1 DEF OpenAreas
<1>3. \A a \in {NULL} \cup AreaIds : Lineage(a)' = Lineage(a)
  BY DEF Lineage
<1>4. gc.current_area \in {NULL} \cup AreaIds
  <2>1. Len(areas) \in Nat
    BY AreasFunction DEF TypeOK
  <2>. QED  BY <2>1 DEF TypeOK, ManagerOK, NULL, AreaIds
<1>5. Lineage(gc.current_area)' = Lineage(gc.current_area)
  BY <1>3, <1>4
<1>6. ParentsOK'
  <2>. SUFFICES ASSUME NEW a \in AreaIds
                PROVE  areas'[a].lineage = <<a>> \o Lineage(Parent(a))'
    BY <1>1 DEF ParentsOK
  <2>1. Parent(a)' = Parent(a)
    BY DEF Parent
  <2>2. Parent(a) \in {NULL} \cup AreaIds
    <3>1. Len(areas) \in Nat
      BY AreasFunction DEF TypeOK
    <3>. QED  BY <3>1, ParentProperties DEF TypeOK, NULL, AreaIds
  <2>3. Lineage(Parent(a))' = Lineage(Parent(a))
    BY <1>3, <2>1, <2>2
  <2>. QED  BY <2>3 DEF ChainInv, ParentsOK
<1>7. ChainIsOpenAreas'
  BY <1>2, <1>5 DEF ChainInv, ChainIsOpenAreas
<1>8. CountIsDepth' /\ (~gc'.initialized => gc'.current_area = NULL)
  BY <1>5, ReadyChain DEF ChainInv, CountIsDepth
<1>. QED  BY <1>6, <1>7, <1>8 DEF ChainInv

-----------------------------------------------------------------------------
(* Which steps open and close no area. *)

SameStates ==
  /\ Len(areas') = Len(areas)
  /\ \A a \in AreaIds : areas'[a].state = areas[a].state /\ areas'[a].lineage = areas[a].lineage

LEMMA UnchangedStates == UNCHANGED areas => SameStates
BY DEF SameStates

(* A step that replaces one area by another with its state and its chain. *)
LEMMA OneStateKept ==
  ASSUME TypeOK, NEW s \in AreaIds, NEW area,
         areas' = [areas EXCEPT ![s] = area],
         area.state = areas[s].state, area.lineage = areas[s].lineage
  PROVE  SameStates
<1>1. areas \in [AreaIds -> AreaRecord] /\ Len(areas) \in Nat
  BY AreasFunction DEF TypeOK
<1>2. Len(areas') = Len(areas)
  BY <1>1 DEF AreaIds
<1>. QED  BY <1>1, <1>2 DEF SameStates

LEMMA ObtainStates ==
  ASSUME TypeOK, NEW size \in Nat, NEW fin \in BOOLEAN, NEW S, Obtain(size, fin, S)
  PROVE  SameStates
<1>. DEFINE a == Ready.current_area
            p == Len(heap) + 1
            entry == [ptr |-> p, size |-> size, finalizer |-> IF fin THEN p ELSE NULL]
<1>1. CASE a = NULL
  BY <1>1, UnchangedStates DEF Obtain
<1>2. CASE a # NULL
  <2>1. a \in AreaIds
    BY <1>2, ReadyType, AreasFunction DEF TypeOK, AreaIds, NULL
  <2>2. PICK grows \in BOOLEAN : areas' = [areas EXCEPT ![a] = Track(areas[a], entry, grows)]
    BY <1>2 DEF Obtain, Outcomes
  <2>3. entry \in Entry
    <3>1. p \in 1 .. MaxBlocks
      BY HeapFunction, BoundsAssumption DEF Obtain, TypeOK
    <3>. QED  BY <3>1, BoundsAssumption DEF Entry, NULL
  <2>4. areas[a] \in AreaRecord /\ RoomOK(areas[a])
    BY <2>1, AreasFunction DEF TypeOK
  <2>. HIDE DEF entry, a
  <2>5. /\ Track(areas[a], entry, grows).state = areas[a].state
        /\ Track(areas[a], entry, grows).lineage = areas[a].lineage
    BY <2>3, <2>4, TrackProperties
  <2>. QED  BY <2>1, <2>2, <2>5, OneStateKept
<1>. QED  BY <1>1, <1>2

LEMMA ReallocStates ==
  ASSUME TypeOK, NEW p \in Blocks, NEW size \in Nat, dragonstone_gc_realloc(p, size)
  PROVE  SameStates
<1>. DEFINE a == FindArea(p)
            i == SlotOf(a, p)
<1>1. a \in AreaIds /\ i \in 1 .. Len(areas[a].allocations)
  BY FindAreaProperties, SlotProperties DEF dragonstone_gc_realloc, TypeOK, Slots
<1>2. areas[a] \in AreaRecord /\ RoomOK(areas[a])
  BY <1>1, AreasFunction DEF TypeOK
<1>3. PICK q \in 1 .. MaxBlocks : areas' = [areas EXCEPT ![a] = Resized(areas[a], i, q, size)]
  <2>1. Len(heap) \in Nat /\ Len(heap) <= MaxBlocks /\ p \in 1 .. MaxBlocks
    BY HeapFunction, BoundsAssumption DEF TypeOK, HeapOK, Blocks
  <2>2. Len(heap) < MaxBlocks => Len(heap) + 1 \in 1 .. MaxBlocks
    BY <2>1, BoundsAssumption
  <2>. QED  BY <2>1, <2>2 DEF dragonstone_gc_realloc
<1>. HIDE DEF a, i
<1>4. /\ Resized(areas[a], i, q, size).state = areas[a].state
      /\ Resized(areas[a], i, q, size).lineage = areas[a].lineage
  BY <1>1, <1>2, ResizedProperties
<1>. QED  BY <1>1, <1>3, <1>4, OneStateKept

LEMMA EscapeStates ==
  ASSUME TypeOK, NEW p \in Blocks, NEW target \in 0 .. Len(areas),
         dragonstone_gc_escape_to(p, target)
  PROVE  SameStates
<1>. DEFINE s == FindArea(p)
            i == SlotOf(s, p)
            entry == areas[s].allocations[i]
            left == Untrack(areas[s], i)
<1>1. s \in AreaIds /\ i \in Slots(s) /\ s # target
  BY FindAreaProperties, SlotProperties DEF dragonstone_gc_escape_to, TypeOK
<1>2. entry \in Entry
  BY <1>1, EscapeAreas
<1>3. areas[s] \in AreaRecord /\ RoomOK(areas[s])
  BY <1>1, AreasFunction DEF TypeOK
<1>4. /\ left \in AreaRecord
      /\ RoomOK(left)
      /\ left.state = areas[s].state
      /\ left.lineage = areas[s].lineage
  BY <1>1, <1>3, UntrackProperties DEF Slots
<1>5. CASE areas' = [areas EXCEPT ![s] = left]
  <2>. HIDE DEF s, left
  <2>. QED  BY <1>1, <1>4, <1>5, OneStateKept
<1>6. CASE areas' = [areas EXCEPT ![s] = Track(left, entry, TRUE)]
  <2>. HIDE DEF s, left, entry
  <2>1. /\ Track(left, entry, TRUE).state = areas[s].state
        /\ Track(left, entry, TRUE).lineage = areas[s].lineage
    BY <1>2, <1>4, TrackProperties
  <2>. QED  BY <1>1, <1>6, <2>1, OneStateKept
<1>7. ASSUME NEW grows \in BOOLEAN, target # NULL,
             areas' = [areas EXCEPT ![s] = left, ![target] = Track(areas[target], entry, grows)]
      PROVE  SameStates
  <2>1. target \in AreaIds
    BY <1>7 DEF AreaIds, NULL
  <2>2. areas[target] \in AreaRecord /\ RoomOK(areas[target])
    BY <2>1, AreasFunction DEF TypeOK
  <2>. DEFINE grown == Track(areas[target], entry, grows)
  <2>. HIDE DEF s, left, entry
  <2>3. grown.state = areas[target].state /\ grown.lineage = areas[target].lineage
    BY <1>2, <2>2, TrackProperties
  <2>4. areas' = [areas EXCEPT ![s] = left, ![target] = grown]
    BY <1>7
  <2>5. areas \in [AreaIds -> AreaRecord] /\ Len(areas) \in Nat
    BY AreasFunction DEF TypeOK
  <2>. HIDE DEF grown
  <2>6. Len(areas') = Len(areas)
    BY <2>4, <2>5 DEF AreaIds
  <2>. QED  BY <1>1, <1>4, <2>1, <2>3, <2>4, <2>5, <2>6 DEF SameStates
<1>8. CASE EscapeLost(p, s)
  BY <1>5, <1>8 DEF EscapeLost
<1>9. CASE target # NULL /\ EscapeToArea(p, s, target)
  BY <1>7, <1>9, <1>1 DEF EscapeToArea, Outcomes
<1>10. CASE EscapeToBoehm(p, s)
  BY <1>5, <1>6, <1>10 DEF EscapeToBoehm
<1>. QED  BY <1>8, <1>9, <1>10 DEF dragonstone_gc_escape_to

-----------------------------------------------------------------------------
(* The chain through the steps that open and close areas. *)

LEMMA BeginChain ==
  ASSUME TypeOK, ChainInv, dragonstone_gc_begin_area
  PROVE  ChainInv'
<1>. DEFINE a == Len(areas) + 1
            top == gc.current_area
            area == [state |-> "open", lineage |-> <<a>> \o Lineage(top),
                     allocations |-> <<>>, capacity |-> 0, total_bytes |-> 0]
<1>1. Ready.current_area = top /\ Ready.area_count = Len(Lineage(top)) /\ Ready.initialized
  BY ReadyChain
<1>2. CASE gc' = Ready /\ UNCHANGED areas
  BY <1>1, <1>2, SameShape
<1>3. CASE /\ gc' = [Ready EXCEPT !.current_area = a, !.area_count = @ + 1]
           /\ areas' = Append(areas, area)
  <2>1. areas \in Seq(AreaRecord) /\ Len(areas) \in Nat /\ top \in {NULL} \cup AreaIds
    BY AreasFunction DEF TypeOK, AreasOK, ManagerOK, NULL, AreaIds
  <2>2. area.state = "open" /\ area.lineage = <<a>> \o Lineage(top)
    OBVIOUS
  <2>. HIDE DEF area
  <2>3. /\ Len(areas') = Len(areas) + 1
        /\ \A b \in AreaIds : areas'[b] = areas[b]
        /\ areas'[Len(areas) + 1] = area
    <3>1. \A e : Len(Append(areas, e)) = Len(areas) + 1
      BY <2>1
    <3>2. \A e : Append(areas, e)[Len(areas) + 1] = e
      BY <2>1
    <3>3. \A e : \A b \in 1 .. Len(areas) : Append(areas, e)[b] = areas[b]
      BY <2>1
    <3>. QED  BY <1>3, <3>1, <3>2, <3>3 DEF AreaIds
  <2>4. AreaIds' = AreaIds \cup {Len(areas) + 1} /\ Len(areas) + 1 \notin AreaIds
    BY <2>1, <2>3 DEF AreaIds
  <2>5. gc'.current_area = a /\ gc'.area_count = Len(Lineage(top)) + 1 /\ gc'.initialized
    <3>1. Ready \in [current_area : 0 .. Len(areas), disable_depth : Nat,
                     initialized : BOOLEAN, area_count : Int]
      BY ReadyType DEF TypeOK
    <3>. QED  BY <1>1, <1>3, <3>1
  <2>6. Lineage(top) \in Seq(AreaIds) /\ Len(Lineage(top)) \in Nat
    BY ChainProperties, LenProperties DEF TypeOK
  <2>7. /\ area.lineage \in Seq(AreaIds')
        /\ Len(area.lineage) = Len(Lineage(top)) + 1
        /\ area.lineage[1] = Len(areas) + 1
        /\ \A i \in 2 .. Len(area.lineage) : area.lineage[i] = Lineage(top)[i - 1]
    <3>. DEFINE n == Len(areas) + 1
                chain == Lineage(top)
    <3>1. n \in AreaIds'
      BY <2>4
    <3>2. chain \in Seq(AreaIds')
      <4>1. \A i \in 1 .. Len(chain) : chain[i] \in AreaIds'
        BY <2>4, <2>6, ElementOfSeq
      <4>2. chain \in [1 .. Len(chain) -> AreaIds']
        BY <2>6, <4>1, LenProperties
      <4>. QED  BY <2>6, <4>2, SegmentIsSeq
    <3>3. area.lineage = <<n>> \o chain
      BY <2>2
    <3>. HIDE DEF n, chain
    <3>4. <<n>> \in Seq(AreaIds') /\ Len(<<n>>) = 1 /\ <<n>>[1] = n
      BY <3>1
    <3>5. Len(chain) \in Nat
      BY <3>2, LenProperties
    <3>6. /\ <<n>> \o chain \in Seq(AreaIds')
          /\ Len(<<n>> \o chain) = Len(chain) + 1
          /\ (<<n>> \o chain)[1] = n
          /\ \A i \in 2 .. Len(<<n>> \o chain) : (<<n>> \o chain)[i] = chain[i - 1]
      BY <3>2, <3>4, <3>5, ConcatProperties
    <3>. QED  BY <3>3, <3>6 DEF n, chain
  <2>8. \A b \in {NULL} \cup AreaIds : Lineage(b)' = Lineage(b)
    BY <2>3 DEF Lineage
  <2>9. ASSUME NEW b \in {Len(areas) + 1}
        PROVE  Lineage(b)' = area.lineage /\ Parent(b)' = top
    <3>1. b # NULL /\ areas'[b] = area
      BY <2>1, <2>3 DEF NULL
    <3>2. Lineage(b)' = area.lineage
      BY <3>1 DEF Lineage
    <3>3. CASE top = NULL
      <4>1. Len(Lineage(top)) = 0
        BY <3>3, EmptySeq DEF Lineage
      <4>. QED  BY <2>7, <3>1, <3>2, <3>3, <4>1 DEF Parent
    <3>4. CASE top # NULL
      <4>1. top \in AreaIds /\ Len(Lineage(top)) \in Nat \ {0} /\ Lineage(top)[1] = top
        BY <2>1, <3>4, LineageProperties DEF TypeOK
      <4>2. Len(area.lineage) > 1 /\ area.lineage[2] = top
        BY <2>7, <4>1
      <4>. QED  BY <3>1, <3>2, <4>2 DEF Parent
    <3>. QED  BY <3>3, <3>4
  <2>10. ParentsOK'
    <3>. SUFFICES ASSUME NEW b \in AreaIds'
                  PROVE  areas'[b].lineage = <<b>> \o Lineage(Parent(b))'
      BY DEF ParentsOK
    <3>1. CASE b \in AreaIds
      <4>1. Parent(b)' = Parent(b)
        BY <2>3, <3>1 DEF Parent
      <4>2. Parent(b) \in {NULL} \cup AreaIds
        BY <2>1, <3>1, ParentProperties DEF TypeOK, NULL, AreaIds
      <4>3. Lineage(Parent(b))' = Lineage(Parent(b))
        BY <2>8, <4>1, <4>2
      <4>. QED  BY <2>3, <3>1, <4>3 DEF ChainInv, ParentsOK
    <3>2. CASE b = Len(areas) + 1
      <4>1. Parent(b)' = top
        BY <2>9, <3>2
      <4>2. Lineage(Parent(b))' = Lineage(top)
        BY <2>1, <2>8, <4>1
      <4>. QED  BY <2>2, <2>3, <3>2, <4>2
    <3>. QED  BY <2>4, <3>1, <3>2
  <2>11. Lineage(gc.current_area)' = area.lineage
    BY <2>5, <2>9
  <2>12. ChainIsOpenAreas'
    <3>1. OpenAreas' = OpenAreas \cup {Len(areas) + 1}
      BY <2>2, <2>3, <2>4 DEF OpenAreas
    <3>2. ToSet(Lineage(top)) = OpenAreas
      BY DEF ChainInv, ChainIsOpenAreas
    <3>3. ToSet(Lineage(top)) = {Lineage(top)[i] : i \in 1 .. Len(Lineage(top))}
      BY <2>6 DEF ToSet
    <3>4. ToSet(area.lineage) = {area.lineage[i] : i \in 1 .. Len(area.lineage)}
      BY <2>7 DEF ToSet
    <3>5. ASSUME NEW b \in ToSet(area.lineage)
          PROVE  b \in OpenAreas'
      <4>1. PICK i \in 1 .. Len(area.lineage) : b = area.lineage[i]
        BY <3>4
      <4>2. CASE i = 1
        BY <2>7, <3>1, <4>1, <4>2
      <4>3. CASE i # 1
        <5>1. i - 1 \in 1 .. Len(Lineage(top)) /\ b = Lineage(top)[i - 1]
          BY <2>6, <2>7, <4>1, <4>3
        <5>. QED  BY <3>1, <3>2, <3>3, <5>1
      <4>. QED  BY <4>2, <4>3
    <3>6. ASSUME NEW b \in OpenAreas'
          PROVE  b \in ToSet(area.lineage)
      <4>1. CASE b = Len(areas) + 1
        <5>1. 1 \in 1 .. Len(area.lineage)
          BY <2>6, <2>7
        <5>. QED  BY <2>7, <3>4, <4>1, <5>1
      <4>2. CASE b \in OpenAreas
        <5>1. PICK i \in 1 .. Len(Lineage(top)) : b = Lineage(top)[i]
          BY <3>2, <3>3, <4>2
        <5>2. i + 1 \in 2 .. Len(area.lineage) /\ i + 1 \in 1 .. Len(area.lineage)
              /\ (i + 1) - 1 = i
          BY <2>6, <2>7
        <5>3. area.lineage[i + 1] = b
          BY <2>7, <5>1, <5>2
        <5>. QED  BY <3>4, <5>2, <5>3
      <4>. QED  BY <3>1, <4>1, <4>2
    <3>. QED  BY <2>11, <3>5, <3>6 DEF ChainIsOpenAreas
  <2>13. CountIsDepth' /\ (~gc'.initialized => gc'.current_area = NULL)
    BY <2>5, <2>7, <2>11 DEF CountIsDepth
  <2>. QED  BY <2>10, <2>12, <2>13 DEF ChainInv
<1>. QED  BY <1>1, <1>2, <1>3 DEF dragonstone_gc_begin_area

LEMMA EndChain ==
  ASSUME TypeOK, ChainInv, EndCurrent
  PROVE  ChainInv'
<1>. DEFINE a == gc.current_area
<1>1. /\ a \in AreaIds /\ gc.initialized
      /\ areas \in [AreaIds -> AreaRecord]
      /\ Len(areas) \in Nat
  BY AreasFunction DEF EndCurrent, ChainInv, TypeOK, ManagerOK, NULL, AreaIds
<1>2. areas' = [areas EXCEPT ![a] = Ended(areas[a])]
  BY DEF EndCurrent, dragonstone_gc_end_area
<1>3. Ended(areas[a]).state = "ended" /\ Ended(areas[a]).lineage = areas[a].lineage
  BY <1>1, EndedProperties
<1>4. /\ gc'.current_area = Parent(a)
      /\ gc'.area_count = gc.area_count - 1
      /\ gc'.initialized
  BY <1>1 DEF EndCurrent, dragonstone_gc_end_area, TypeOK, ManagerOK
<1>. HIDE DEF a
<1>5. /\ AreaIds' = AreaIds
      /\ \A b \in AreaIds : areas'[b].lineage = areas[b].lineage
      /\ areas'[a].state = "ended"
      /\ \A b \in AreaIds \ {a} : areas'[b] = areas[b]
  <2>1. Len(areas') = Len(areas)
    BY <1>1, <1>2 DEF AreaIds
  <2>. QED  BY <1>1, <1>2, <1>3, <2>1 DEF AreaIds
<1>6. \A b \in {NULL} \cup AreaIds : Lineage(b)' = Lineage(b)
  BY <1>5 DEF Lineage
<1>7. \A b \in AreaIds : Parent(b)' = Parent(b) /\ Parent(b) \in {NULL} \cup AreaIds
  BY <1>1, <1>5, ParentProperties DEF Parent, TypeOK, NULL, AreaIds
<1>8. ParentsOK'
  <2>. SUFFICES ASSUME NEW b \in AreaIds
                PROVE  areas'[b].lineage = <<b>> \o Lineage(Parent(b))'
    BY <1>5 DEF ParentsOK
  <2>1. Lineage(Parent(b))' = Lineage(Parent(b))
    BY <1>6, <1>7
  <2>. QED  BY <1>5, <2>1 DEF ChainInv, ParentsOK
<1>9. Lineage(gc.current_area)' = Lineage(Parent(a))
  BY <1>1, <1>4, <1>6, <1>7
<1>10. ChainIsOpenAreas'
  <2>1. OpenAreas' = OpenAreas \ {a}
    BY <1>1, <1>5 DEF OpenAreas
  <2>2. ToSet(Lineage(a)) = OpenAreas
    BY DEF ChainInv, ChainIsOpenAreas, a
  <2>3. ToSet(Lineage(Parent(a))) = ToSet(Lineage(a)) \ {a}
    BY <1>1, PoppedChain DEF ChainInv
  <2>. QED  BY <1>9, <2>1, <2>2, <2>3 DEF ChainIsOpenAreas
<1>11. CountIsDepth' /\ (~gc'.initialized => gc'.current_area = NULL)
  <2>1. gc.area_count = Len(Lineage(a))
    BY <1>1 DEF ChainInv, CountIsDepth, a
  <2>2. Len(Lineage(Parent(a))) = Len(Lineage(a)) - 1
    BY <1>1, PoppedChain DEF ChainInv
  <2>. QED  BY <1>4, <1>9, <2>1, <2>2 DEF CountIsDepth
<1>. QED  BY <1>8, <1>10, <1>11 DEF ChainInv

LEMMA ShutdownChain ==
  ASSUME TypeOK, ChainInv, dragonstone_gc_shutdown
  PROVE  ChainInv'
<1>. DEFINE chain == ToSet(Lineage(gc.current_area))
<1>1. areas' = [a \in AreaIds |-> IF a \in chain THEN Ended(areas[a]) ELSE areas[a]]
  BY DEF dragonstone_gc_shutdown
<1>2. chain = OpenAreas
  BY DEF ChainInv, ChainIsOpenAreas
<1>. HIDE DEF chain
<1>3. /\ areas \in [AreaIds -> AreaRecord]
      /\ Len(areas) \in Nat
      /\ \A a \in AreaIds : Ended(areas[a]).state = "ended" /\ Ended(areas[a]).lineage = areas[a].lineage
  BY AreasFunction, EndedProperties DEF TypeOK
<1>4. /\ AreaIds' = AreaIds
      /\ \A a \in AreaIds : areas'[a].lineage = areas[a].lineage
      /\ \A a \in AreaIds : areas'[a].state # "open"
  <2>1. Len(areas') = Len(areas)
    BY <1>1, <1>3 DEF AreaIds
  <2>. QED  BY <1>1, <1>2, <1>3, <2>1 DEF AreaIds, OpenAreas
<1>5. gc'.current_area = NULL /\ ~gc'.initialized
  BY DEF dragonstone_gc_shutdown, TypeOK, ManagerOK
<1>6. ParentsOK'
  <2>. SUFFICES ASSUME NEW b \in AreaIds
                PROVE  areas'[b].lineage = <<b>> \o Lineage(Parent(b))'
    BY <1>4 DEF ParentsOK
  <2>1. Parent(b)' = Parent(b) /\ Parent(b) \in {NULL} \cup AreaIds
    BY <1>3, <1>4, ParentProperties DEF Parent, TypeOK, NULL, AreaIds
  <2>2. Lineage(Parent(b))' = Lineage(Parent(b))
    BY <1>4, <2>1 DEF Lineage
  <2>. QED  BY <1>4, <2>2 DEF ChainInv, ParentsOK
<1>7. ChainIsOpenAreas'
  <2>1. OpenAreas' = {}
    BY <1>4 DEF OpenAreas
  <2>2. Lineage(gc.current_area)' = <<>>
    BY <1>5 DEF Lineage
  <2>3. ToSet(<<>>) = {}
    <3>1. <<>> \in Seq(AreaIds) /\ Len(<<>>) = 0
      BY EmptySeq
    <3>. QED  BY <3>1 DEF ToSet
  <2>. QED  BY <2>1, <2>2, <2>3 DEF ChainIsOpenAreas
<1>8. CountIsDepth' /\ (~gc'.initialized => gc'.current_area = NULL)
  BY <1>5 DEF CountIsDepth
<1>. QED  BY <1>6, <1>7, <1>8 DEF ChainInv

(* The other operations move no area on or off the chain. *)
LEMMA QuietStep ==
  ASSUME TypeOK, Next, ~EndCurrent, ~dragonstone_gc_begin_area, ~dragonstone_gc_shutdown
  PROVE  /\ SameStates
         /\ \/ /\ gc'.current_area = gc.current_area
               /\ gc'.initialized = gc.initialized
               /\ gc'.area_count = gc.area_count
            \/ gc' = Ready
<1>1. gc.current_area \in 0 .. Len(areas) /\ Len(areas) \in Nat
  BY AreasFunction DEF TypeOK, ManagerOK
<1>2. CASE dragonstone_gc_init
  BY <1>2, UnchangedStates DEF dragonstone_gc_init
<1>3. CASE dragonstone_gc_disable \/ dragonstone_gc_enable
  BY <1>3, UnchangedStates
     DEF dragonstone_gc_disable, dragonstone_gc_enable, TypeOK, ManagerOK
<1>4. ASSUME NEW size \in Sizes,
             dragonstone_gc_alloc(size) \/ dragonstone_gc_alloc_with_finalizer(size)
      PROVE  SameStates /\ gc' = Ready
  <2>1. PICK S \in {{}} \cup Reclaimable, fin \in BOOLEAN : Obtain(size, fin, S) \/ ObtainNothing(S)
    BY <1>4 DEF dragonstone_gc_alloc, dragonstone_gc_alloc_with_finalizer, Collectable
  <2>2. CASE Obtain(size, fin, S)
    BY <2>2, SizesAssumption, ObtainStates DEF Obtain
  <2>3. CASE ObtainNothing(S)
    BY <2>3, UnchangedStates DEF ObtainNothing
  <2>. QED  BY <2>1, <2>2, <2>3
<1>5. ASSUME NEW size \in Sizes, NEW p \in Blocks, dragonstone_gc_realloc(p, size)
      PROVE  SameStates /\ gc' = gc
  BY <1>5, SizesAssumption, ReallocStates DEF dragonstone_gc_realloc
<1>6. ASSUME NEW p \in Blocks, NEW target \in 0 .. Len(areas), dragonstone_gc_escape_to(p, target)
      PROVE  SameStates /\ gc' = gc
  BY <1>6, EscapeStates DEF dragonstone_gc_escape_to
<1>7. ASSUME NEW p \in Blocks, dragonstone_gc_escape(p)
      PROVE  SameStates /\ gc' = gc
  <2>1. gc.current_area \in AreaIds
    BY <1>1, <1>7 DEF dragonstone_gc_escape, NULL, AreaIds
  <2>. QED  BY <1>6, <1>7, <2>1, ParentProperties DEF dragonstone_gc_escape, TypeOK
<1>8. ASSUME NEW p \in Blocks, NEW target \in {NULL} \cup ToSet(Lineage(gc.current_area)),
             dragonstone_gc_escape_to(p, target)
      PROVE  SameStates /\ gc' = gc
  <2>1. ToSet(Lineage(gc.current_area)) \subseteq AreaIds
    BY ChainProperties, ElementOfSeq DEF ToSet, TypeOK
  <2>2. target \in 0 .. Len(areas)
    BY <1>1, <2>1 DEF NULL, AreaIds
  <2>. QED  BY <1>6, <1>8, <2>2
<1>9. ASSUME NEW p \in Blocks, NEW value \in Blocks, dragonstone_gc_write_barrier(p, value)
      PROVE  SameStates /\ gc' = gc
  BY <1>9, UnchangedStates DEF dragonstone_gc_write_barrier
<1>10. CASE dragonstone_gc_collect \/ BoehmCollect
  BY <1>10, UnchangedStates DEF dragonstone_gc_collect, BoehmCollect
<1>. QED  BY <1>2, <1>3, <1>4, <1>5, <1>7, <1>8, <1>9, <1>10 DEF Next

LEMMA NextChain ==
  ASSUME TypeOK, ChainInv, Next
  PROVE  ChainInv'
<1>1. CASE EndCurrent
  BY <1>1, EndChain
<1>2. CASE dragonstone_gc_begin_area
  BY <1>2, BeginChain
<1>3. CASE dragonstone_gc_shutdown
  BY <1>3, ShutdownChain
<1>4. CASE ~EndCurrent /\ ~dragonstone_gc_begin_area /\ ~dragonstone_gc_shutdown
  BY <1>4, QuietStep, ReadyChain, SameShape DEF SameStates
<1>. QED  BY <1>1, <1>2, <1>3, <1>4

LEMMA InitChain == Init => ChainInv
<1>. SUFFICES ASSUME Init PROVE ChainInv
  OBVIOUS
<1>1. Len(areas) = 0 /\ gc.current_area = NULL /\ ~gc.initialized
  BY EmptySeq DEF Init, Startup
<1>2. AreaIds = {} /\ OpenAreas = {}
  BY <1>1 DEF OpenAreas, AreaIds
<1>3. ToSet(Lineage(gc.current_area)) = {}
  <2>1. <<>> \in Seq(AreaIds) /\ Len(<<>>) = 0
    BY EmptySeq
  <2>. QED  BY <1>1, <2>1 DEF Lineage, ToSet
<1>. QED  BY <1>1, <1>2, <1>3 DEF ChainInv, ParentsOK, ChainIsOpenAreas, CountIsDepth

LEMMA StutterChain == ChainInv /\ UNCHANGED vars => ChainInv'
BY DEF ChainInv, ParentsOK, ChainIsOpenAreas, CountIsDepth, Lineage, Parent,
       OpenAreas, AreaIds, vars

(* What the specification of innermost-first clients preserves. *)
IInv == TypeOK /\ ChainInv /\ Owned

LEMMA Inductive == Spec => []IInv
<1>1. Init => IInv
  BY InitType, InitChain, InitOwned DEF IInv
<1>2. IInv /\ [Next]_vars => IInv'
  BY NextType, StutterType, NextChain, StutterChain, ChainInvOpen, NextOwned, StutterOwned DEF IInv
<1>. QED  BY <1>1, <1>2, PTL DEF Spec

(* When areas end innermost first, the chain that find_area, escape and    *)
(* shutdown walk (gc.c:32, 764, 201) is always exactly the open areas.     *)
THEOREM ChainComplete == Spec => []ChainIsOpenAreas
<1>1. IInv => ChainIsOpenAreas
  BY DEF IInv, ChainInv
<1>. QED  BY <1>1, Inductive, PTL

(* ... and area_count, which get_stats reports as the nesting depth        *)
(* (gc.c:792), is its length.                                              *)
THEOREM DepthCorrect == Spec => []CountIsDepth
<1>1. IInv => CountIsDepth
  BY DEF IInv, ChainInv
<1>. QED  BY <1>1, Inductive, PTL

(* A block has one owner, without assuming anything of the chain.          *)
THEOREM UniqueOwnerLifo == Spec => []UniqueOwner
<1>1. IInv => UniqueOwner
  BY DEF IInv, Owned
<1>. QED  BY <1>1, Inductive, PTL

(* Every tracked block is malloc memory that nothing has freed.            *)
THEOREM TrackedIsMallocLifo == Spec => []TrackedIsMalloc
<1>1. IInv => TrackedIsMalloc
  BY DEF IInv, Owned
<1>. QED  BY <1>1, Inductive, PTL

-----------------------------------------------------------------------------
(* The manager turns Boehm off when its own depth leaves zero and on when  *)
(* it is zero again; a restart forgets the depth but leaves Boehm off.     *)
DisabledInv ==
  /\ boehm_off >= 0
  /\ gc.disable_depth > 0 => boehm_off > 0

LEMMA InitDisabled == Init => DisabledInv
BY DEF Init, DisabledInv, Startup

LEMMA NextDisabled ==
  ASSUME TypeOK, DisabledInv, Next \/ \E a \in AreaIds : dragonstone_gc_end_area(a)
  PROVE  DisabledInv'
<1>1. /\ gc \in [current_area : 0 .. Len(areas), disable_depth : Nat,
                 initialized : BOOLEAN, area_count : Int]
      /\ boehm_off \in Int
      /\ Ready \in [current_area : 0 .. Len(areas), disable_depth : Nat,
                    initialized : BOOLEAN, area_count : Int]
  BY ReadyType DEF TypeOK, ManagerOK
<1>2. Ready.disable_depth \in {0, gc.disable_depth}
  BY DEF Ready, Startup
<1>3. CASE dragonstone_gc_disable
  BY <1>1, <1>3 DEF dragonstone_gc_disable, DisabledInv
<1>4. CASE dragonstone_gc_enable
  BY <1>1, <1>4 DEF dragonstone_gc_enable, DisabledInv
<1>5. CASE boehm_off' = boehm_off /\ gc'.disable_depth \in {0, gc.disable_depth}
  BY <1>1, <1>5 DEF DisabledInv
<1>6. CASE dragonstone_gc_init
  BY <1>2, <1>5, <1>6 DEF dragonstone_gc_init
<1>7. CASE dragonstone_gc_shutdown
  BY <1>1, <1>5, <1>7 DEF dragonstone_gc_shutdown
<1>8. ASSUME NEW size \in Sizes,
             dragonstone_gc_alloc(size) \/ dragonstone_gc_alloc_with_finalizer(size)
      PROVE  DisabledInv'
  <2>1. boehm_off' = boehm_off /\ gc' = Ready
    BY <1>8 DEF dragonstone_gc_alloc, dragonstone_gc_alloc_with_finalizer, Obtain, ObtainNothing
  <2>. QED  BY <1>2, <1>5, <2>1
<1>9. ASSUME NEW size \in Sizes, NEW p \in Blocks, dragonstone_gc_realloc(p, size)
      PROVE  DisabledInv'
  BY <1>5, <1>9 DEF dragonstone_gc_realloc
<1>10. CASE dragonstone_gc_begin_area
  <2>1. boehm_off' = boehm_off /\ gc'.disable_depth = Ready.disable_depth
    BY <1>1, <1>10 DEF dragonstone_gc_begin_area
  <2>. QED  BY <1>2, <1>5, <2>1
<1>11. CASE EndCurrent \/ \E a \in AreaIds : dragonstone_gc_end_area(a)
  BY <1>1, <1>5, <1>11 DEF EndCurrent, dragonstone_gc_end_area
<1>12. ASSUME NEW p \in Blocks, NEW target, dragonstone_gc_escape_to(p, target)
       PROVE  DisabledInv'
  BY <1>5, <1>12 DEF dragonstone_gc_escape_to
<1>13. ASSUME NEW p \in Blocks, NEW value \in Blocks, dragonstone_gc_write_barrier(p, value)
       PROVE  DisabledInv'
  BY <1>5, <1>13 DEF dragonstone_gc_write_barrier
<1>14. CASE dragonstone_gc_collect \/ BoehmCollect
  BY <1>5, <1>14 DEF dragonstone_gc_collect, BoehmCollect
<1>. QED  BY <1>3, <1>4, <1>6, <1>7, <1>8, <1>9, <1>10, <1>11, <1>12, <1>13, <1>14
          DEF Next, dragonstone_gc_escape

LEMMA StutterDisabled == DisabledInv /\ UNCHANGED vars => DisabledInv'
BY DEF DisabledInv, vars

-----------------------------------------------------------------------------
(* A step that collects no block. *)
KeepsCollected ==
  \A p \in Blocks : heap'[p].state = "collected" => heap[p].state = "collected"

(* While Boehm is off, a collection reclaims nothing. *)
LEMMA NothingReclaimed ==
  ASSUME HeapOK, boehm_off > 0, NEW S \in {{}} \cup Reclaimable
  PROVE  /\ S = {}
         /\ Reclaimed(S) = heap
<1>1. S = {}
  BY DEF Reclaimable
<1>2. heap \in [Blocks -> BlockRecord]
  BY HeapFunction
<1>. QED  BY <1>1, <1>2 DEF Reclaimed

LEMMA FreeingKeepsCollected ==
  ASSUME HeapOK, NEW p \in Blocks, NEW block,
         heap' = Append([heap EXCEPT ![p].state = "freed"], block)
  PROVE  KeepsCollected
<1>. DEFINE h == [heap EXCEPT ![p].state = "freed"]
<1>1. h \in Seq(BlockRecord) /\ Len(h) = Len(heap) /\ Len(heap) \in Nat
  BY FreedBlock, HeapFunction
<1>2. h[p].state = "freed" /\ \A q \in Blocks \ {p} : h[q] = heap[q]
  BY HeapFunction DEF BlockRecord
<1>. HIDE DEF h
<1>3. \A q \in Blocks : Append(h, block)[q] = h[q]
  BY <1>1 DEF Blocks
<1>4. heap' = Append(h, block)
  BY DEF h
<1>. QED  BY <1>2, <1>3, <1>4 DEF KeepsCollected

LEMMA NextKeepsCollected ==
  ASSUME TypeOK, boehm_off > 0, Next \/ \E a \in AreaIds : dragonstone_gc_end_area(a)
  PROVE  KeepsCollected
<1>1. HeapOK /\ heap \in [Blocks -> BlockRecord] /\ Len(heap) \in Nat /\ heap \in Seq(BlockRecord)
  BY HeapFunction DEF TypeOK, HeapOK
<1>2. CASE UNCHANGED heap
  BY <1>2 DEF KeepsCollected
<1>3. ASSUME NEW A, heap' = FreedWith(A)
      PROVE  KeepsCollected
  BY <1>1, <1>3 DEF FreedWith, KeepsCollected, BlockRecord
<1>4. CASE dragonstone_gc_shutdown
  <2>. DEFINE chain == ToSet(Lineage(gc.current_area))
  <2>1. PICK S \in Reclaimable :
          heap' = [p \in Blocks |-> IF p \in S THEN Reclaimed(S)[p] ELSE FreedWith(chain)[p]]
    BY <1>4 DEF dragonstone_gc_shutdown
  <2>2. S = {}
    BY <1>1, NothingReclaimed
  <2>3. FreedWith(chain) = [p \in Blocks |-> FreedWith(chain)[p]]
    BY DEF FreedWith
  <2>. QED  BY <1>3, <2>1, <2>2, <2>3
<1>5. ASSUME NEW size \in Sizes,
             dragonstone_gc_alloc(size) \/ dragonstone_gc_alloc_with_finalizer(size)
      PROVE  KeepsCollected
  <2>1. PICK S \in {{}} \cup Reclaimable, fin \in BOOLEAN : Obtain(size, fin, S) \/ ObtainNothing(S)
    BY <1>5 DEF dragonstone_gc_alloc, dragonstone_gc_alloc_with_finalizer, Collectable
  <2>2. Reclaimed(S) = heap
    BY <1>1, NothingReclaimed
  <2>3. CASE ObtainNothing(S)
    BY <1>2, <2>2, <2>3 DEF ObtainNothing
  <2>4. CASE \E block : heap' = Append(heap, block)
    <3>1. PICK block : heap' = Append(heap, block)
      BY <2>4
    <3>2. \A q \in Blocks : Append(heap, block)[q] = heap[q]
      BY <1>1 DEF Blocks
    <3>. QED  BY <3>1, <3>2 DEF KeepsCollected
  <2>. QED  BY <2>1, <2>2, <2>3, <2>4 DEF Obtain
<1>6. ASSUME NEW size \in Sizes, NEW p \in Blocks, dragonstone_gc_realloc(p, size)
      PROVE  KeepsCollected
  BY <1>1, <1>2, <1>6, FreeingKeepsCollected DEF dragonstone_gc_realloc
<1>7. CASE EndCurrent \/ \E a \in AreaIds : dragonstone_gc_end_area(a)
  BY <1>3, <1>7 DEF EndCurrent, dragonstone_gc_end_area
<1>8. ASSUME NEW p \in Blocks, NEW target, dragonstone_gc_escape_to(p, target)
      PROVE  KeepsCollected
  BY <1>1, <1>2, <1>8, FreeingKeepsCollected
     DEF dragonstone_gc_escape_to, EscapeLost, EscapeToArea, EscapeToBoehm
<1>9. CASE dragonstone_gc_collect \/ BoehmCollect
  BY <1>1, <1>2, <1>9, NothingReclaimed DEF dragonstone_gc_collect, BoehmCollect
<1>10. ASSUME NEW p \in Blocks, NEW value \in Blocks, dragonstone_gc_write_barrier(p, value)
       PROVE  KeepsCollected
  BY <1>2, <1>10 DEF dragonstone_gc_write_barrier
<1>11. CASE dragonstone_gc_init \/ dragonstone_gc_begin_area
             \/ dragonstone_gc_disable \/ dragonstone_gc_enable
  BY <1>2, <1>11
     DEF dragonstone_gc_init, dragonstone_gc_begin_area, dragonstone_gc_disable, dragonstone_gc_enable
<1>. QED  BY <1>4, <1>5, <1>6, <1>7, <1>8, <1>9, <1>10, <1>11 DEF Next, dragonstone_gc_escape

(* While a dragonstone_gc_disable is in force (gc.c:648) no block is       *)
(* collected: not by GC_MALLOC, not by a failed allocation that collects   *)
(* and tries again, and not at shutdown. In whatever order areas end, and  *)
(* over any number of shutdowns and restarts.                              *)
THEOREM NoCollectionAnyOrder == AnyOrderSpec => NoCollectionWhileDisabled
<1>1. Init => TypeOK /\ DisabledInv
  BY InitType, InitDisabled
<1>2. TypeOK /\ DisabledInv /\ [AnyOrderNext]_vars => (TypeOK /\ DisabledInv)'
  BY NextType, StutterType, NextDisabled, StutterDisabled DEF AnyOrderNext
<1>3. TypeOK /\ DisabledInv /\ [AnyOrderNext]_vars =>
        [gc.disable_depth > 0 =>
           \A p \in Blocks : heap'[p].state = "collected" => heap[p].state = "collected"]_vars
  BY NextKeepsCollected DEF AnyOrderNext, DisabledInv, KeepsCollected
<1>. QED  BY <1>1, <1>2, <1>3, PTL DEF AnyOrderSpec, NoCollectionWhileDisabled

=============================================================================
