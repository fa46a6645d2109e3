--------------------------- MODULE GcAreaBlockProofs ---------------------------
(***************************************************************************)
(* Proofs about the blocks of the area manager: that none leaks, that each *)
(* finalizer keeps exactly one place that will run it and runs at most     *)
(* once, and that what the write barrier lets through does not dangle.     *)
(*                                                                         *)
(* They see the tracking arrays of the open areas as one set of entries,   *)
(* and every operation as one of a few changes of that set, the heap and   *)
(* the history (BlockStep): each invariant is then preserved by set        *)
(* reasoning alone.                                                        *)
(***************************************************************************)
EXTENDS GcAreaProofs, FiniteSetTheorems

Entries(allocations) == {allocations[i] : i \in 1 .. Len(allocations)}

(* The entries of the open areas, each with its area. *)
Tracked == {t \in OpenAreas \X Entry : t[2] \in Entries(areas[t[1]].allocations)}

-----------------------------------------------------------------------------
(* The entries of a tracking array through its updates. *)

LEMMA AppendEntries ==
  ASSUME NEW A \in Seq(Entry), NEW e \in Entry
  PROVE  Entries(Append(A, e)) = Entries(A) \cup {e}
<1>. DEFINE B == Append(A, e)
<1>1. /\ Len(A) \in Nat
      /\ Len(B) = Len(A) + 1
      /\ \A i \in 1 .. Len(A) : B[i] = A[i]
      /\ B[Len(A) + 1] = e
  BY AppendProperties, LenProperties
<1>2. \A i \in 1 .. Len(B) : i \in 1 .. Len(A) \/ i = Len(A) + 1
  BY <1>1
<1>3. 1 .. Len(A) \subseteq 1 .. Len(B) /\ Len(A) + 1 \in 1 .. Len(B)
  BY <1>1
<1>. HIDE DEF B
<1>. QED  BY <1>1, <1>2, <1>3 DEF Entries, B

LEMMA SwapRemoveEntries ==
  ASSUME NEW A \in Seq(Entry), NEW i \in 1 .. Len(A), Distinct(A)
  PROVE  Entries(SwapRemove(A, i)) = Entries(A) \ {A[i]}
<1>. DEFINE B == SwapRemove(A, i)
<1>1. /\ Len(A) \in Nat
      /\ Len(B) = Len(A) - 1
      /\ \A k \in 1 .. Len(A) - 1 : B[k] = IF k = i THEN A[Len(A)] ELSE A[k]
  BY SwapRemoveProperties, LenProperties
<1>. HIDE DEF B
<1>2. Entries(B) \subseteq Entries(A) \ {A[i]}
  BY <1>1 DEF Distinct, Entries
<1>3. Entries(A) \ {A[i]} \subseteq Entries(B)
  <2>. SUFFICES ASSUME NEW k \in 1 .. Len(A), A[k] # A[i]
                PROVE  \E l \in 1 .. Len(B) : B[l] = A[k]
    BY DEF Entries
  <2>1. CASE k = Len(A)
    <3>1. i \in 1 .. Len(B) /\ B[i] = A[k]
      BY <1>1, <2>1
    <3>. QED  BY <3>1
  <2>2. CASE k # Len(A)
    <3>1. k \in 1 .. Len(B) /\ B[k] = A[k]
      BY <1>1, <2>2
    <3>. QED  BY <3>1
  <2>. QED  BY <2>1, <2>2
<1>. QED  BY <1>2, <1>3 DEF B

LEMMA ReplaceEntries ==
  ASSUME NEW A \in Seq(Entry), NEW i \in 1 .. Len(A), NEW e \in Entry, Distinct(A)
  PROVE  Entries([A EXCEPT ![i] = e]) = (Entries(A) \ {A[i]}) \cup {e}
<1>. DEFINE B == [A EXCEPT ![i] = e]
<1>1. A \in [1 .. Len(A) -> Entry]
  BY LenProperties
<1>2. /\ Len(B) = Len(A)
      /\ \A k \in 1 .. Len(A) : B[k] = IF k = i THEN e ELSE A[k]
  BY <1>1, ExceptSeq
<1>. HIDE DEF B
<1>. QED  BY <1>2 DEF Entries, Distinct, B

(* An entry is dropped only when its array is full and cannot grow. *)
LEMMA TrackOrDrop ==
  ASSUME NEW area \in AreaRecord, RoomOK(area), NEW entry \in Entry, NEW grows \in BOOLEAN
  PROVE  \/ Track(area, entry, grows).allocations = Append(area.allocations, entry)
         \/ Track(area, entry, grows) = area /\ grows = FALSE
<1>1. CASE grows = FALSE \/ Len(area.allocations) < area.capacity
  <2>. DEFINE capacity == IF Len(area.allocations) >= area.capacity /\ grows
                          THEN Grown(area.capacity) ELSE area.capacity
  <2>1. CASE Len(area.allocations) < capacity
    BY <2>1 DEF Track, AreaRecord
  <2>2. CASE ~(Len(area.allocations) < capacity)
    <3>1. Track(area, entry, grows) = area
      BY <2>2 DEF Track
    <3>2. Len(area.allocations) \in Nat /\ area.capacity \in Nat
      BY LenProperties DEF AreaRecord
    <3>. QED  BY <1>1, <2>2, <3>1, <3>2
  <2>. QED  BY <2>1, <2>2
<1>2. CASE grows = TRUE /\ ~(Len(area.allocations) < area.capacity)
  <2>1. Len(area.allocations) \in Nat /\ area.capacity \in Nat
    BY LenProperties DEF AreaRecord
  <2>2. Len(area.allocations) < Grown(area.capacity) /\ Len(area.allocations) >= area.capacity
    BY <1>2, <2>1, CapacityAssumption DEF Grown, RoomOK
  <2>. QED  BY <1>2, <2>2 DEF Track, AreaRecord
<1>. QED  BY <1>1, <1>2

(* Every tracked entry is in one slot, and each block in one entry. *)
LEMMA TrackedFacts ==
  ASSUME TypeOK, Owned
  PROVE  /\ \A t \in Tracked : /\ t[1] \in OpenAreas /\ t[2] \in Entry
                               /\ t = <<t[1], t[2]>>
                               /\ t[2].ptr \in Blocks
                               /\ heap[t[2].ptr].state = "malloc"
         /\ \A t, u \in Tracked : t[2].ptr = u[2].ptr => t = u
<1>1. \A t \in Tracked : /\ t[1] \in OpenAreas /\ t[2] \in Entry /\ t = <<t[1], t[2]>>
                         /\ t[2] \in Entries(areas[t[1]].allocations)
  BY DEF Tracked
<1>2. \A t \in Tracked : t[2].ptr \in Blocks /\ heap[t[2].ptr].state = "malloc"
  BY <1>1 DEF Entries, Owned, TrackedIsMalloc, Slots, Ptr
<1>3. ASSUME NEW t \in Tracked, NEW u \in Tracked, t[2].ptr = u[2].ptr
      PROVE  t = u
  <2>1. PICK i \in Slots(t[1]) : t[2] = areas[t[1]].allocations[i]
    BY <1>1 DEF Entries, Slots
  <2>2. PICK j \in Slots(u[1]) : u[2] = areas[u[1]].allocations[j]
    BY <1>1 DEF Entries, Slots
  <2>3. t[1] = u[1] /\ i = j
    BY <1>1, <1>3, <2>1, <2>2 DEF Owned, UniqueOwner, Ptr
  <2>4. t[2] = u[2]
    BY <2>1, <2>2, <2>3
  <2>. QED  BY <1>1, <2>3, <2>4
<1>. QED  BY <1>1, <1>2, <1>3

(* What a slot of an open area holds is tracked, and nothing else is. *)
LEMMA SlotTracked ==
  ASSUME TypeOK, NEW a \in OpenAreas
  PROVE  /\ Entries(areas[a].allocations) \subseteq Entry
         /\ \A i \in Slots(a) : <<a, areas[a].allocations[i]>> \in Tracked
         /\ \A e : <<a, e>> \in Tracked <=> e \in Entries(areas[a].allocations)
<1>1. areas[a].allocations \in Seq(Entry)
  BY AreasFunction DEF TypeOK, OpenAreas, AreaRecord
<1>2. \A i \in Slots(a) : areas[a].allocations[i] \in Entry
  BY <1>1, ElementOfSeq DEF Slots
<1>3. Entries(areas[a].allocations) \subseteq Entry
  BY <1>2 DEF Entries, Slots
<1>. QED  BY <1>3 DEF Tracked, Entries, Slots

LEMMA TracksTracked ==
  ASSUME TypeOK, NEW a \in OpenAreas, NEW p
  PROVE  /\ Tracks(a, p) <=> \E t \in Tracked : t[1] = a /\ t[2].ptr = p
         /\ Finalizes(a, p) <=> \E t \in Tracked : t[1] = a /\ t[2].finalizer = p
<1>1. \A t \in Tracked : t[1] = a => t[2] \in Entries(areas[a].allocations)
  BY DEF Tracked
<1>. QED  BY <1>1, SlotTracked DEF Tracks, Finalizes, Entries, Slots

(* A step that changes one open area. *)
LEMMA OneAreaTracked ==
  ASSUME TypeOK, NEW s \in OpenAreas, NEW area \in AreaRecord,
         areas' = [areas EXCEPT ![s] = area], area.state = "open"
  PROVE  Tracked' = {t \in Tracked : t[1] # s}
                      \cup {<<s, e>> : e \in Entries(area.allocations)}
<1>1. areas \in [AreaIds -> AreaRecord] /\ Len(areas) \in Nat /\ s \in AreaIds
  BY AreasFunction DEF TypeOK, OpenAreas
<1>2. /\ areas' \in [AreaIds -> AreaRecord]
      /\ areas'[s] = area
      /\ \A b \in AreaIds \ {s} : areas'[b] = areas[b]
  BY <1>1
<1>3. AreaIds' = AreaIds
  <2>1. Len(areas') = Len(areas)
    BY <1>1, <1>2, SegmentIsSeq DEF AreaIds
  <2>. QED  BY <2>1 DEF AreaIds
<1>4. OpenAreas' = OpenAreas
  BY <1>1, <1>2, <1>3 DEF OpenAreas
<1>5. Entries(area.allocations) \subseteq Entry
  BY ElementOfSeq DEF AreaRecord, Entries
<1>6. \A t \in OpenAreas \X Entry :
        t \in Tracked' <=> t[2] \in Entries(areas'[t[1]].allocations)
  BY <1>4 DEF Tracked
<1>7. ASSUME NEW t \in Tracked'
      PROVE  t \in {u \in Tracked : u[1] # s} \cup {<<s, e>> : e \in Entries(area.allocations)}
  <2>1. t \in OpenAreas \X Entry /\ t[2] \in Entries(areas'[t[1]].allocations)
    BY <1>4 DEF Tracked
  <2>2. CASE t[1] = s
    BY <1>2, <2>1, <2>2
  <2>3. CASE t[1] # s
    BY <1>2, <2>1, <2>3 DEF Tracked, OpenAreas
  <2>. QED  BY <2>2, <2>3
<1>8. ASSUME NEW t \in Tracked, t[1] # s
      PROVE  t \in Tracked'
  <2>1. t \in OpenAreas \X Entry /\ t[2] \in Entries(areas[t[1]].allocations)
    BY DEF Tracked
  <2>. QED  BY <1>2, <1>6, <1>8, <2>1 DEF OpenAreas
<1>9. ASSUME NEW e \in Entries(area.allocations)
      PROVE  <<s, e>> \in Tracked'
  BY <1>2, <1>5, <1>6
<1>. QED  BY <1>7, <1>8, <1>9

(* ... with one entry added, removed or replaced. *)
LEMMA EntryAdded ==
  ASSUME TypeOK, NEW s \in OpenAreas, NEW area \in AreaRecord, NEW e \in Entry,
         areas' = [areas EXCEPT ![s] = area], area.state = "open",
         area.allocations = Append(areas[s].allocations, e)
  PROVE  Tracked' = Tracked \cup {<<s, e>>}
<1>1. areas[s].allocations \in Seq(Entry)
  BY AreasFunction DEF TypeOK, OpenAreas, AreaRecord
<1>2. Entries(area.allocations) = Entries(areas[s].allocations) \cup {e}
  BY <1>1, AppendEntries
<1>3. Tracked' = {t \in Tracked : t[1] # s} \cup {<<s, f>> : f \in Entries(area.allocations)}
  BY OneAreaTracked
<1>4. \A f : <<s, f>> \in Tracked <=> f \in Entries(areas[s].allocations)
  BY SlotTracked
<1>5. \A t \in Tracked : t = <<t[1], t[2]>>
  BY DEF Tracked
<1>. QED  BY <1>2, <1>3, <1>4, <1>5

LEMMA EntryRemoved ==
  ASSUME TypeOK, Owned, NEW s \in OpenAreas, NEW area \in AreaRecord, NEW i \in Slots(s),
         areas' = [areas EXCEPT ![s] = area], area.state = "open",
         area.allocations = SwapRemove(areas[s].allocations, i)
  PROVE  Tracked' = Tracked \ {<<s, areas[s].allocations[i]>>}
<1>1. areas[s].allocations \in Seq(Entry) /\ Distinct(areas[s].allocations)
  BY AreasFunction, OwnedFacts DEF TypeOK, OpenAreas, AreaRecord
<1>2. Entries(area.allocations) = Entries(areas[s].allocations) \ {areas[s].allocations[i]}
  BY <1>1, SwapRemoveEntries DEF Slots
<1>3. Tracked' = {t \in Tracked : t[1] # s} \cup {<<s, f>> : f \in Entries(area.allocations)}
  BY OneAreaTracked
<1>4. \A f : <<s, f>> \in Tracked <=> f \in Entries(areas[s].allocations)
  BY SlotTracked
<1>5. \A t \in Tracked : t = <<t[1], t[2]>>
  BY DEF Tracked
<1>. QED  BY <1>2, <1>3, <1>4, <1>5

LEMMA EntryReplaced ==
  ASSUME TypeOK, Owned, NEW s \in OpenAreas, NEW area \in AreaRecord, NEW i \in Slots(s),
         NEW e \in Entry,
         areas' = [areas EXCEPT ![s] = area], area.state = "open",
         Entries(area.allocations)
           = (Entries(areas[s].allocations) \ {areas[s].allocations[i]}) \cup {e}
  PROVE  Tracked' = (Tracked \ {<<s, areas[s].allocations[i]>>}) \cup {<<s, e>>}
<1>3. Tracked' = {t \in Tracked : t[1] # s} \cup {<<s, f>> : f \in Entries(area.allocations)}
  BY OneAreaTracked
<1>4. \A f : <<s, f>> \in Tracked <=> f \in Entries(areas[s].allocations)
  BY SlotTracked
<1>5. \A t \in Tracked : t = <<t[1], t[2]>>
  BY DEF Tracked
<1>. QED  BY <1>3, <1>4, <1>5

LEMMA EntriesKept ==
  ASSUME TypeOK, NEW s \in OpenAreas, NEW area \in AreaRecord,
         areas' = [areas EXCEPT ![s] = area], area.state = "open",
         Entries(area.allocations) = Entries(areas[s].allocations)
  PROVE  Tracked' = Tracked
<1>1. Tracked' = {t \in Tracked : t[1] # s} \cup {<<s, f>> : f \in Entries(area.allocations)}
  BY OneAreaTracked
<1>2. \A f : <<s, f>> \in Tracked <=> f \in Entries(areas[s].allocations)
  BY SlotTracked
<1>3. \A t \in Tracked : t = <<t[1], t[2]>>
  BY DEF Tracked
<1>. QED  BY <1>1, <1>2, <1>3

(* An entry moves from one open area to another. *)
LEMMA EntryMoved ==
  ASSUME TypeOK, Owned, NEW s \in OpenAreas, NEW target \in OpenAreas, target # s,
         NEW i \in Slots(s),
         NEW left \in AreaRecord, left.state = "open",
         left.allocations = SwapRemove(areas[s].allocations, i),
         NEW grown \in AreaRecord, grown.state = "open",
         grown.allocations = Append(areas[target].allocations, areas[s].allocations[i]),
         areas' = [areas EXCEPT ![s] = left, ![target] = grown]
  PROVE  Tracked' = (Tracked \ {<<s, areas[s].allocations[i]>>})
                      \cup {<<target, areas[s].allocations[i]>>}
<1>. DEFINE entry == areas[s].allocations[i]
<1>1. /\ areas \in [AreaIds -> AreaRecord] /\ Len(areas) \in Nat
      /\ s \in AreaIds /\ target \in AreaIds
  BY AreasFunction DEF TypeOK, OpenAreas
<1>2. /\ Len(areas') = Len(areas)
      /\ areas'[s] = left /\ areas'[target] = grown
      /\ \A b \in AreaIds \ {s, target} : areas'[b] = areas[b]
  BY <1>1 DEF AreaIds
<1>3. AreaIds' = AreaIds
  BY <1>2 DEF AreaIds
<1>4. OpenAreas' = OpenAreas
  BY <1>1, <1>2, <1>3 DEF OpenAreas
<1>5. /\ areas[s].allocations \in Seq(Entry) /\ Distinct(areas[s].allocations)
      /\ areas[target].allocations \in Seq(Entry) /\ entry \in Entry
  BY <1>1, OwnedFacts, ElementOfSeq DEF AreaRecord, Slots
<1>6. Entries(left.allocations) = Entries(areas[s].allocations) \ {entry}
  BY <1>5, SwapRemoveEntries DEF Slots
<1>7. Entries(grown.allocations) = Entries(areas[target].allocations) \cup {entry}
  BY <1>5, AppendEntries
<1>. HIDE DEF entry
<1>8. \A b \in OpenAreas, e \in Entry :
        <<b, e>> \in Tracked <=> e \in Entries(areas[b].allocations)
  BY SlotTracked
<1>9. \A b \in OpenAreas, e \in Entry :
        <<b, e>> \in Tracked' <=> e \in Entries(areas'[b].allocations)
  BY <1>4 DEF Tracked
<1>10. Tracked \subseteq OpenAreas \X Entry /\ Tracked' \subseteq OpenAreas \X Entry
  BY <1>4 DEF Tracked
<1>11. \A b \in OpenAreas, e \in Entry : <<b, e>> \in Tracked' <=>
         \/ <<b, e>> \in Tracked /\ <<b, e>> # <<s, entry>>
         \/ <<b, e>> = <<target, entry>>
  BY <1>2, <1>6, <1>7, <1>8, <1>9 DEF OpenAreas
<1>12. \A u \in OpenAreas \X Entry : u \in Tracked' <=>
         u \in (Tracked \ {<<s, entry>>}) \cup {<<target, entry>>}
  BY <1>11
<1>13. Tracked' = (Tracked \ {<<s, entry>>}) \cup {<<target, entry>>}
  BY <1>5, <1>10, <1>12
<1>. QED  BY <1>13 DEF entry

-----------------------------------------------------------------------------
(* The changes the operations make of the tracked entries and the blocks.  *)

(* The areas A end and a collection reclaims S; both may be empty.         *)
Disposed(A, S) ==
  /\ A \subseteq OpenAreas /\ A \cap OpenAreas' = {}
  /\ S \in {{}} \cup Reclaimable
  /\ Tracked' = {t \in Tracked : t[1] \notin A}
  /\ Len(heap') = Len(heap)
  /\ \A p \in Blocks :
       heap'[p] = IF p \in S THEN [heap[p] EXCEPT !.state = "collected"]
                  ELSE IF \E t \in Tracked : t[1] \in A /\ t[2].ptr = p
                  THEN [heap[p] EXCEPT !.state = "freed"] ELSE heap[p]
  /\ finalized' = Finalizing([p \in 1 .. MaxBlocks |->
                    \/ \E t \in Tracked : t[1] \in A /\ t[2].finalizer = p
                    \/ \E q \in S : heap[q].finalizer = p])

(* A block is obtained, with a finalizer or none, after a collection of S. *)
Obtained(S, finalizer) ==
  LET p == Len(heap) + 1 IN
  /\ S \in {{}} \cup Reclaimable
  /\ p \in 1 .. MaxBlocks
  /\ finalizer \in {NULL, p}
  /\ Len(heap') = p
  /\ \A q \in Blocks :
       heap'[q] = IF q \in S THEN [heap[q] EXCEPT !.state = "collected"] ELSE heap[q]
  /\ \/ /\ heap'[p] = [state |-> "malloc", finalizer |-> NULL]
        /\ \/ \E a \in OpenAreas, e \in Entry :
                /\ e.ptr = p /\ e.finalizer = finalizer /\ e.size \in Sizes
                /\ Tracked' = Tracked \cup {<<a, e>>}
                /\ a = Ready.current_area
           \/ "tracking" \in Failing /\ Tracked' = Tracked
     \/ /\ heap'[p] = [state |-> "boehm", finalizer |-> finalizer]
        /\ Tracked' = Tracked
        /\ Ready.current_area = NULL
  /\ finalized' = IF finalizer = p THEN [FinalizedBy(S) EXCEPT ![p] = "pending"]
                  ELSE FinalizedBy(S)
  /\ trusted' = trusted

ForgetBlock(p) == trusted' = {r \in trusted : p \notin {r[1], r[2]}}

(* An entry is resized, moved to another area, or dropped from all.        *)
Retracked(t) ==
  /\ heap' = heap
  /\ finalized' = finalized
  /\ \/ \E a \in OpenAreas, e \in Entry :
          /\ e.ptr = t[2].ptr /\ e.finalizer = t[2].finalizer /\ e.size \in Sizes
          /\ Tracked' = (Tracked \ {t}) \cup {<<a, e>>}
          /\ (a = t[1] /\ trusted' = trusted) \/ ForgetBlock(t[2].ptr)
     \/ /\ "tracking" \in Failing \/ 0 \in Sizes
        /\ Tracked' = Tracked \ {t}
        /\ ForgetBlock(t[2].ptr)

(* A tracked block is freed and its contents live on in a new block, which *)
(* is tracked in its place or belongs to the collector.                    *)
Replaced(t) ==
  LET p == t[2].ptr
      q == Len(heap) + 1
  IN
  /\ q \in 1 .. MaxBlocks
  /\ Len(heap') = q
  /\ heap'[p] = [heap[p] EXCEPT !.state = "freed"]
  /\ \A r \in Blocks \ {p} : heap'[r] = heap[r]
  /\ \/ /\ heap'[q] = [state |-> "malloc", finalizer |-> NULL]
        /\ \E e \in Entry :
             /\ e.ptr = q /\ e.finalizer = t[2].finalizer /\ e.size \in Sizes
             /\ Tracked' = (Tracked \ {t}) \cup {<<t[1], e>>}
     \/ /\ heap'[q] = [state |-> "boehm", finalizer |-> t[2].finalizer]
        /\ Tracked' = Tracked \ {t}
  /\ finalized' = finalized
  /\ ForgetBlock(p)

BlockStep ==
  \/ \E A \in SUBSET OpenAreas, S \in {{}} \cup Reclaimable :
       Disposed(A, S) /\ trusted' = trusted
  \/ \E S \in {{}} \cup Reclaimable, finalizer \in 0 .. MaxBlocks : Obtained(S, finalizer)
  \/ \E t \in Tracked : Retracked(t) \/ Replaced(t)
  \/ \E p, q \in Blocks :
       dragonstone_gc_write_barrier(p, q) /\ Disposed({}, {})

(* The sizes of entries are sizes a client asked for. *)
SizesKnown == \A t \in Tracked : t[2].size \in Sizes

LEMMA BlockStepSizes ==
  ASSUME SizesKnown, BlockStep
  PROVE  SizesKnown'
<1>1. ASSUME NEW a, NEW e, e.size \in Sizes, Tracked' \subseteq Tracked \cup {<<a, e>>}
      PROVE  SizesKnown'
  BY <1>1 DEF SizesKnown
<1>2. ASSUME Tracked' \subseteq Tracked
      PROVE  SizesKnown'
  BY <1>2 DEF SizesKnown
<1>3. ASSUME NEW A, NEW S, Disposed(A, S)
      PROVE  SizesKnown'
  BY <1>2, <1>3 DEF Disposed
<1>4. ASSUME NEW S, NEW finalizer, Obtained(S, finalizer)
      PROVE  SizesKnown'
  BY <1>1, <1>2, <1>4 DEF Obtained
<1>5. ASSUME NEW t \in Tracked, Retracked(t)
      PROVE  SizesKnown'
  BY <1>1, <1>2, <1>5 DEF Retracked
<1>6. ASSUME NEW t \in Tracked, Replaced(t)
      PROVE  SizesKnown'
  BY <1>1, <1>2, <1>6 DEF Replaced
<1>. QED  BY <1>3, <1>4, <1>5, <1>6 DEF BlockStep

LEMMA SameTracked ==
  ASSUME UNCHANGED areas
  PROVE  Tracked' = Tracked
BY DEF Tracked, OpenAreas, AreaIds

LEMMA ReclaimedBlocks ==
  ASSUME HeapOK, NEW S
  PROVE  /\ Len(Reclaimed(S)) = Len(heap)
         /\ \A p \in Blocks : Reclaimed(S)[p] = IF p \in S
              THEN [heap[p] EXCEPT !.state = "collected"] ELSE heap[p]
<1>1. Len(heap) \in Nat
  BY HeapFunction
<1>. QED  BY <1>1 DEF Reclaimed, Blocks

(* A collection, or nothing at all. *)
LEMMA CollectedStep ==
  ASSUME TypeOK, NEW S \in {{}} \cup Reclaimable, Tracked' = Tracked,
         heap' = Reclaimed(S), finalized' = FinalizedBy(S)
  PROVE  Disposed({}, S)
<1>1. Tracked' = {t \in Tracked : t[1] \notin {}}
  OBVIOUS
<1>2. /\ Len(heap') = Len(heap)
      /\ \A p \in Blocks : heap'[p] = IF p \in S
           THEN [heap[p] EXCEPT !.state = "collected"] ELSE heap[p]
  BY ReclaimedBlocks DEF TypeOK
<1>3. finalized' = Finalizing([p \in 1 .. MaxBlocks |->
                     \/ \E t \in Tracked : t[1] \in {} /\ t[2].finalizer = p
                     \/ \E q \in S : heap[q].finalizer = p])
  BY DEF FinalizedBy
<1>. QED  BY <1>1, <1>2, <1>3 DEF Disposed

(* A block is freed and another obtained. *)
LEMMA FreedAndNew ==
  ASSUME HeapOK, Len(heap) < MaxBlocks, NEW p \in Blocks, NEW b \in BlockRecord,
         heap' = Append([heap EXCEPT ![p].state = "freed"], b)
  PROVE  /\ Len(heap') = Len(heap) + 1
         /\ heap'[Len(heap) + 1] = b
         /\ heap'[p] = [heap[p] EXCEPT !.state = "freed"]
         /\ \A r \in Blocks \ {p} : heap'[r] = heap[r]
<1>. DEFINE h == [heap EXCEPT ![p].state = "freed"]
<1>1. /\ h \in Seq(BlockRecord) /\ Len(h) = Len(heap)
      /\ \A r \in Blocks \ {p} : h[r] = heap[r]
  BY FreedBlock
<1>2. h[p] = [heap[p] EXCEPT !.state = "freed"]
  BY HeapFunction
<1>3. heap' = Append(h, b)
  OBVIOUS
<1>. HIDE DEF h
<1>. QED  BY <1>1, <1>2, <1>3, NewBlock

LEMMA QuietBlocks ==
  ASSUME TypeOK, Tracked' = Tracked, UNCHANGED <<heap, finalized>>
  PROVE  Disposed({}, {})
<1>1. heap = Reclaimed({})
  BY HeapFunction DEF TypeOK, Reclaimed
<1>2. finalized = FinalizedBy({})
  BY DEF TypeOK, HistoryOK, FinalizedBy, Finalizing
<1>. QED  BY <1>1, <1>2, CollectedStep

LEMMA ObtainBlocks ==
  ASSUME TypeOK, Owned, NEW size \in Sizes, NEW fin \in BOOLEAN,
         NEW S \in {{}} \cup Reclaimable, Obtain(size, fin, S)
  PROVE  BlockStep
<1>. DEFINE a == Ready.current_area
            p == Len(heap) + 1
            f == IF fin THEN p ELSE NULL
            entry == [ptr |-> p, size |-> size, finalizer |-> f]
            malloc == [state |-> "malloc", finalizer |-> NULL]
            boehm == [state |-> "boehm", finalizer |-> f]
<1>1. /\ Len(heap) \in Nat /\ p \in 1 .. MaxBlocks /\ f \in 0 .. MaxBlocks /\ f \in {NULL, p}
      /\ f = p <=> fin
  <2>1. Len(heap) \in Nat /\ Len(heap) < MaxBlocks /\ MaxBlocks \in Nat
    BY HeapFunction, BoundsAssumption DEF TypeOK, Obtain
  <2>. QED  BY <2>1 DEF NULL
<1>2. entry \in Entry /\ size \in Sizes
  BY <1>1, SizesAssumption DEF Entry
<1>3. malloc \in BlockRecord /\ boehm \in BlockRecord
  BY <1>1, BoundsAssumption DEF BlockRecord, NULL
<1>4. ASSUME NEW b \in BlockRecord, heap' = Append(Reclaimed(S), b)
      PROVE  /\ Len(heap') = p
             /\ heap'[p] = b
             /\ \A q \in Blocks :
                  heap'[q] = IF q \in S THEN [heap[q] EXCEPT !.state = "collected"] ELSE heap[q]
  <2>1. /\ Reclaimed(S) \in Seq(BlockRecord)
        /\ Len(Reclaimed(S)) = Len(heap)
        /\ \A q \in Blocks :
             Reclaimed(S)[q] = IF q \in S THEN [heap[q] EXCEPT !.state = "collected"] ELSE heap[q]
    BY ReclaimedProperties, ReclaimedBlocks DEF TypeOK
  <2>2. Len(heap) < MaxBlocks
    BY DEF Obtain
  <2>. QED  BY <1>4, <2>1, <2>2, NewBlock DEF TypeOK
<1>5. /\ finalized' = IF f = p THEN [FinalizedBy(S) EXCEPT ![p] = "pending"] ELSE FinalizedBy(S)
      /\ trusted' = trusted
  BY <1>1 DEF Obtain
<1>6. CASE a = NULL
  <2>1. heap' = Append(Reclaimed(S), boehm) /\ Tracked' = Tracked
    BY <1>6, SameTracked DEF Obtain
  <2>2. Obtained(S, f)
    <3>. HIDE DEF f, malloc, boehm
    <3>1. /\ Len(heap') = p /\ heap'[p] = boehm
          /\ \A q \in Blocks :
               heap'[q] = IF q \in S THEN [heap[q] EXCEPT !.state = "collected"] ELSE heap[q]
      BY <1>3, <1>4, <2>1
    <3>2. heap'[p] = [state |-> "boehm", finalizer |-> f]
      BY <3>1 DEF boehm
    <3>. QED  BY <1>1, <1>5, <1>6, <2>1, <3>1, <3>2 DEF Obtained
  <2>. HIDE DEF f
  <2>. QED  BY <1>1, <2>2 DEF BlockStep
<1>7. CASE a # NULL
  <2>1. heap' = Append(Reclaimed(S), malloc)
    BY <1>7 DEF Obtain
  <2>2. PICK grows \in Outcomes("tracking") :
          areas' = [areas EXCEPT ![a] = Track(areas[a], entry, grows)]
    BY <1>7 DEF Obtain
  <2>3. a \in OpenAreas /\ areas[a] \in AreaRecord /\ RoomOK(areas[a]) /\ areas[a].state = "open"
    <3>1. a = gc.current_area /\ ChainOpen
      BY <1>7, ReadyType DEF Obtain, TypeOK
    <3>2. a \in OpenAreas
      BY <1>7, <3>1, CurrentIsOpen
    <3>. QED  BY <3>2, AreasFunction DEF TypeOK, OpenAreas
  <2>4. grows \in BOOLEAN /\ (grows = FALSE => "tracking" \in Failing)
    BY DEF Outcomes
  <2>. HIDE DEF a, f, entry, malloc, boehm
  <2>5. Track(areas[a], entry, grows) \in AreaRecord /\ Track(areas[a], entry, grows).state = "open"
    BY <1>2, <2>3, <2>4, TrackProperties
  <2>6. CASE Track(areas[a], entry, grows).allocations = Append(areas[a].allocations, entry)
    <3>1. Tracked' = Tracked \cup {<<a, entry>>}
      BY <1>2, <2>2, <2>3, <2>5, <2>6, EntryAdded
    <3>2. entry.ptr = p /\ entry.finalizer = f /\ entry.size = size
      BY DEF entry
    <3>3. Obtained(S, f)
      <4>1. /\ Len(heap') = p /\ heap'[p] = malloc
            /\ \A q \in Blocks :
                 heap'[q] = IF q \in S THEN [heap[q] EXCEPT !.state = "collected"] ELSE heap[q]
        BY <1>3, <1>4, <2>1
      <4>2. heap'[p] = [state |-> "malloc", finalizer |-> NULL]
        BY <4>1 DEF malloc
      <4>3. \E b \in OpenAreas, e \in Entry :
              /\ e.ptr = p /\ e.finalizer = f /\ e.size \in Sizes
              /\ Tracked' = Tracked \cup {<<b, e>>}
              /\ b = Ready.current_area
        BY <1>2, <2>3, <3>1, <3>2 DEF a
      <4>. QED  BY <1>1, <1>5, <4>1, <4>2, <4>3 DEF Obtained
    <3>. QED  BY <1>1, <3>3 DEF BlockStep
  <2>7. CASE Track(areas[a], entry, grows).allocations # Append(areas[a].allocations, entry)
    <3>1. Track(areas[a], entry, grows) = areas[a] /\ grows = FALSE
      BY <1>2, <2>3, <2>4, <2>7, TrackOrDrop
    <3>2. Tracked' = Tracked
      <4>1. areas' = areas
        BY <2>2, <2>3, <3>1, AreasFunction DEF TypeOK, OpenAreas
      <4>. QED  BY <4>1, SameTracked
    <3>3. Obtained(S, f)
      <4>1. /\ Len(heap') = p /\ heap'[p] = malloc
            /\ \A q \in Blocks :
                 heap'[q] = IF q \in S THEN [heap[q] EXCEPT !.state = "collected"] ELSE heap[q]
        BY <1>3, <1>4, <2>1
      <4>2. heap'[p] = [state |-> "malloc", finalizer |-> NULL]
        BY <4>1 DEF malloc
      <4>. QED  BY <1>1, <1>5, <2>4, <3>1, <3>2, <4>1, <4>2 DEF Obtained
    <3>. QED  BY <1>1, <3>3 DEF BlockStep
  <2>. QED  BY <2>6, <2>7
<1>. QED  BY <1>6, <1>7

LEMMA ReallocBlocks ==
  ASSUME TypeOK, Owned, NEW p \in Blocks, NEW size \in Sizes, dragonstone_gc_realloc(p, size)
  PROVE  BlockStep
<1>. DEFINE a == FindArea(p)
            i == SlotOf(a, p)
            entry == areas[a].allocations[i]
            t == <<a, entry>>
            malloc == [state |-> "malloc", finalizer |-> NULL]
<1>1. /\ a \in OpenAreas /\ i \in Slots(a) /\ entry.ptr = p
      /\ areas[a] \in AreaRecord /\ areas[a].state = "open" /\ RoomOK(areas[a])
      /\ Distinct(areas[a].allocations) /\ areas[a].allocations \in Seq(Entry)
  BY FoundProperties, AreasFunction, OwnedFacts
     DEF dragonstone_gc_realloc, TypeOK, OpenAreas, AreaRecord
<1>2. t \in Tracked /\ entry \in Entry /\ t[1] = a /\ t[2] = entry
  BY <1>1, SlotTracked DEF Entries, Slots
<1>3. /\ Len(heap) \in Nat /\ Len(heap) <= MaxBlocks /\ p \in 1 .. MaxBlocks
      /\ Len(heap) < MaxBlocks => Len(heap) + 1 \in 1 .. MaxBlocks
      /\ size \in Nat /\ finalized' = finalized
  BY HeapFunction, BoundsAssumption, SizesAssumption
     DEF TypeOK, HeapOK, Blocks, dragonstone_gc_realloc
<1>4. ASSUME NEW q \in 1 .. MaxBlocks, areas' = [areas EXCEPT ![a] = Resized(areas[a], i, q, size)]
      PROVE  \E e \in Entry : /\ e.ptr = q /\ e.finalizer = entry.finalizer /\ e.size \in Sizes
                              /\ Tracked' = (Tracked \ {t}) \cup {<<a, e>>}
  <2>. DEFINE e == [entry EXCEPT !.ptr = q, !.size = size]
              area == Resized(areas[a], i, q, size)
  <2>1. e \in Entry /\ e.ptr = q /\ e.finalizer = entry.finalizer /\ e.size = size
    <3>. HIDE DEF entry
    <3>. QED  BY <1>2, <1>3 DEF Entry
  <2>2. area.allocations = [areas[a].allocations EXCEPT ![i] = e]
    <3>1. area = [areas[a] EXCEPT !.allocations[i] = e,
                                  !.total_bytes = @ - areas[a].allocations[i].size + size]
      BY DEF Resized
    <3>. HIDE DEF e, area
    <3>. QED  BY <1>1, <3>1 DEF AreaRecord
  <2>. HIDE DEF a, i, e
  <2>3. area \in AreaRecord /\ area.state = "open"
    BY <1>1, <1>3, ResizedProperties DEF Slots
  <2>4. Entries(area.allocations) = (Entries(areas[a].allocations) \ {entry}) \cup {e}
    BY <1>1, <2>1, <2>2, ReplaceEntries DEF Slots
  <2>. HIDE DEF area
  <2>5. Tracked' = (Tracked \ {t}) \cup {<<a, e>>}
    BY <1>1, <1>4, <2>1, <2>3, <2>4, EntryReplaced DEF area
  <2>. QED  BY <2>1, <2>5
<1>5. CASE areas' = [areas EXCEPT ![a] = Resized(areas[a], i, p, size)] /\ UNCHANGED <<heap, trusted>>
  <2>. HIDE DEF a, i, entry, t
  <2>1. Retracked(t)
    BY <1>1, <1>2, <1>3, <1>4, <1>5 DEF Retracked
  <2>. QED  BY <1>2, <2>1 DEF BlockStep
<1>6. CASE /\ Len(heap) < MaxBlocks
           /\ areas' = [areas EXCEPT ![a] = Resized(areas[a], i, Len(heap) + 1, size)]
           /\ heap' = Append([heap EXCEPT ![p].state = "freed"], malloc)
           /\ trusted' = {r \in trusted : p \notin {r[1], r[2]}}
  <2>. HIDE DEF a, i, entry, t
  <2>1. malloc \in BlockRecord
    BY BoundsAssumption DEF BlockRecord, NULL
  <2>. HIDE DEF malloc
  <2>2. /\ Len(heap') = Len(heap) + 1
        /\ heap'[Len(heap) + 1] = malloc
        /\ heap'[p] = [heap[p] EXCEPT !.state = "freed"]
        /\ \A r \in Blocks \ {p} : heap'[r] = heap[r]
    BY <1>6, <2>1, FreedAndNew DEF TypeOK
  <2>3. Replaced(t)
    BY <1>1, <1>2, <1>3, <1>4, <1>6, <2>2 DEF Replaced, ForgetBlock, malloc
  <2>. QED  BY <1>2, <2>3 DEF BlockStep
<1>. QED  BY <1>5, <1>6 DEF dragonstone_gc_realloc

LEMMA EndAreaBlocks ==
  ASSUME TypeOK, Owned, NEW a \in AreaIds, dragonstone_gc_end_area(a)
  PROVE  a \in OpenAreas /\ Disposed({a}, {}) /\ trusted' = trusted
<1>1. /\ a \in OpenAreas /\ areas[a] \in AreaRecord
      /\ areas \in [AreaIds -> AreaRecord] /\ Len(areas) \in Nat
  BY AreasFunction DEF dragonstone_gc_end_area, OpenAreas, TypeOK
<1>2. /\ areas' = [areas EXCEPT ![a] = Ended(areas[a])]
      /\ heap' = FreedWith({a})
      /\ finalized' = FinalizedWith({a})
      /\ trusted' = trusted
  BY DEF dragonstone_gc_end_area
<1>3. Tracked' = {t \in Tracked : t[1] \notin {a}} /\ {a} \cap OpenAreas' = {}
  <2>1. Ended(areas[a]).state # "open"
    BY <1>1, EndedProperties
  <2>2. AreaIds' = AreaIds /\ areas'[a].state # "open" /\ \A b \in AreaIds \ {a} : areas'[b] = areas[b]
    <3>1. Len(areas') = Len(areas)
      BY <1>1, <1>2 DEF AreaIds
    <3>. QED  BY <1>1, <1>2, <2>1, <3>1 DEF AreaIds
  <2>3. OpenAreas' = OpenAreas \ {a}
    BY <2>2 DEF OpenAreas
  <2>. QED  BY <2>2, <2>3 DEF Tracked, OpenAreas
<1>4. Len(heap') = Len(heap)
  BY <1>2, FreedWithProperties DEF TypeOK
<1>5. \A p \in Blocks :
        heap'[p] = IF \E t \in Tracked : t[1] \in {a} /\ t[2].ptr = p
                   THEN [heap[p] EXCEPT !.state = "freed"] ELSE heap[p]
  BY <1>1, <1>2, TracksTracked DEF FreedWith
<1>6. finalized' = Finalizing([p \in 1 .. MaxBlocks |->
                     \/ \E t \in Tracked : t[1] \in {a} /\ t[2].finalizer = p
                     \/ \E q \in {} : heap[q].finalizer = p])
  <2>1. \A p : (\E b \in {a} : Finalizes(b, p)) <=>
                 \/ \E t \in Tracked : t[1] \in {a} /\ t[2].finalizer = p
                 \/ \E q \in {} : heap[q].finalizer = p
    BY <1>1, TracksTracked
  <2>2. finalized' = Finalizing([p \in 1 .. MaxBlocks |-> \E b \in {a} : Finalizes(b, p)])
    BY <1>2 DEF FinalizedWith
  <2>. QED  BY <2>1, <2>2
<1>7. Disposed({a}, {})
  BY <1>1, <1>3, <1>4, <1>5, <1>6 DEF Disposed
<1>. QED  BY <1>1, <1>2, <1>7

LEMMA ShutdownBlocks ==
  ASSUME TypeOK, Owned, dragonstone_gc_shutdown
  PROVE  /\ ToSet(Lineage(gc.current_area)) \subseteq OpenAreas
         /\ \E S \in Reclaimable : Disposed(ToSet(Lineage(gc.current_area)), S)
         /\ trusted' = trusted
<1>. DEFINE chain == ToSet(Lineage(gc.current_area))
<1>1. chain \subseteq OpenAreas
  BY OpenChain DEF dragonstone_gc_shutdown
<1>2. PICK S \in Reclaimable :
        /\ heap' = [p \in Blocks |-> IF p \in S THEN Reclaimed(S)[p] ELSE FreedWith(chain)[p]]
        /\ finalized' = Finalizing([p \in 1 .. MaxBlocks |->
             (\E a \in chain : Finalizes(a, p)) \/ (\E q \in S : heap[q].finalizer = p)])
  BY DEF dragonstone_gc_shutdown
<1>3. areas' = [a \in AreaIds |-> IF a \in chain THEN Ended(areas[a]) ELSE areas[a]]
      /\ trusted' = trusted
  BY DEF dragonstone_gc_shutdown
<1>. HIDE DEF chain
<1>4. Tracked' = {t \in Tracked : t[1] \notin chain} /\ chain \cap OpenAreas' = {}
  <2>1. \A a \in AreaIds : Ended(areas[a]).state # "open"
    BY AreasFunction, EndedProperties DEF TypeOK
  <2>2. AreaIds' = AreaIds
    <3>1. Len(areas) \in Nat
      BY AreasFunction DEF TypeOK
    <3>2. Len(areas') = Len(areas)
      BY <1>3, <3>1 DEF AreaIds
    <3>. QED  BY <3>2 DEF AreaIds
  <2>3. OpenAreas' = OpenAreas \ chain /\ \A a \in AreaIds \ chain : areas'[a] = areas[a]
    BY <1>3, <2>1, <2>2 DEF OpenAreas
  <2>. QED  BY <2>3 DEF Tracked, OpenAreas
<1>5. Len(heap') = Len(heap)
  <2>1. Len(heap) \in Nat
    BY HeapFunction DEF TypeOK
  <2>. QED  BY <1>2, <2>1 DEF Blocks
<1>6. \A p : /\ (\E a \in chain : Tracks(a, p)) <=> \E t \in Tracked : t[1] \in chain /\ t[2].ptr = p
             /\ (\E a \in chain : Finalizes(a, p))
                  <=> \E t \in Tracked : t[1] \in chain /\ t[2].finalizer = p
  BY <1>1, TracksTracked
<1>7. \A p \in Blocks :
        heap'[p] = IF p \in S THEN [heap[p] EXCEPT !.state = "collected"]
                   ELSE IF \E t \in Tracked : t[1] \in chain /\ t[2].ptr = p
                   THEN [heap[p] EXCEPT !.state = "freed"] ELSE heap[p]
  BY <1>2, <1>6, ReclaimedBlocks DEF FreedWith, TypeOK
<1>8. finalized' = Finalizing([p \in 1 .. MaxBlocks |->
                     \/ \E t \in Tracked : t[1] \in chain /\ t[2].finalizer = p
                     \/ \E q \in S : heap[q].finalizer = p])
  BY <1>2, <1>6
<1>9. Disposed(chain, S)
  BY <1>1, <1>4, <1>5, <1>7, <1>8 DEF Disposed
<1>. QED  BY <1>1, <1>3, <1>9 DEF chain

LEMMA BeginAreaBlocks ==
  ASSUME TypeOK, Owned, dragonstone_gc_begin_area
  PROVE  Disposed({}, {}) /\ trusted' = trusted
<1>1. UNCHANGED <<heap, finalized, trusted>>
  BY DEF dragonstone_gc_begin_area
<1>2. CASE UNCHANGED areas
  BY <1>1, <1>2, SameTracked, QuietBlocks
<1>. DEFINE a == Len(areas) + 1
            area == [state |-> "open", lineage |-> <<a>> \o Lineage(Ready.current_area),
                     allocations |-> <<>>, capacity |-> 0, total_bytes |-> 0]
<1>3. CASE areas' = Append(areas, area)
  <2>1. areas \in Seq(AreaRecord) /\ Len(areas) \in Nat
    BY AreasFunction DEF TypeOK, AreasOK
  <2>2. Entries(area.allocations) = {} /\ area.state = "open"
    BY EmptySeq DEF Entries
  <2>. HIDE DEF area
  <2>3. /\ Len(areas') = Len(areas) + 1
        /\ \A b \in AreaIds : areas'[b] = areas[b]
        /\ areas'[Len(areas) + 1] = area
    <3>1. \A e : Len(Append(areas, e)) = Len(areas) + 1
      BY <2>1
    <3>2. \A e : Append(areas, e)[Len(areas) + 1] = e
      BY <2>1
    <3>3. \A e : \A b \in 1 .. Len(areas) : Append(areas, e)[b] = areas[b]
      BY <2>1
    <3>. QED  BY <1>3, <3>1, <3>2, <3>3 DEF AreaIds
  <2>4. AreaIds' = AreaIds \cup {Len(areas) + 1} /\ Len(areas) + 1 \notin AreaIds
    BY <2>1, <2>3 DEF AreaIds
  <2>5. OpenAreas' = OpenAreas \cup {Len(areas) + 1}
    BY <2>2, <2>3, <2>4 DEF OpenAreas
  <2>6. Tracked' = Tracked
    <3>1. ASSUME NEW t \in Tracked'
          PROVE  t \in Tracked
      <4>1. /\ t \in OpenAreas' \X Entry /\ t[2] \in Entries(areas'[t[1]].allocations)
        BY DEF Tracked
      <4>. QED  BY <2>2, <2>3, <2>4, <2>5, <4>1 DEF Tracked, OpenAreas
    <3>2. ASSUME NEW t \in Tracked
          PROVE  t \in Tracked'
      <4>1. t \in OpenAreas \X Entry /\ t[2] \in Entries(areas[t[1]].allocations)
        BY DEF Tracked
      <4>. QED  BY <2>3, <2>5, <4>1 DEF Tracked, OpenAreas
    <3>. QED  BY <3>1, <3>2
  <2>. QED  BY <1>1, <2>6, QuietBlocks
<1>. QED  BY <1>2, <1>3 DEF dragonstone_gc_begin_area

(* Escapes to an open area or to the collector. *)
LEMMA EscapeBlocks ==
  ASSUME TypeOK, Owned, SizesKnown, NEW p \in Blocks, NEW target \in {NULL} \cup OpenAreas,
         dragonstone_gc_escape_to(p, target)
  PROVE  BlockStep
<1>. DEFINE s == FindArea(p)
            i == SlotOf(s, p)
            entry == areas[s].allocations[i]
            t == <<s, entry>>
            left == Untrack(areas[s], i)
<1>1. /\ s \in OpenAreas /\ s \in AreaIds /\ s # target /\ i \in Slots(s) /\ entry.ptr = p
      /\ areas[s] \in AreaRecord /\ areas[s].state = "open" /\ RoomOK(areas[s])
      /\ areas[s].allocations \in Seq(Entry)
  BY FoundProperties, AreasFunction DEF dragonstone_gc_escape_to, TypeOK, OpenAreas, AreaRecord
<1>2. /\ t \in Tracked /\ entry \in Entry /\ t[1] = s /\ t[2] = entry
      /\ entry.size \in Sizes
  <2>1. t \in Tracked /\ entry \in Entry
    BY <1>1, SlotTracked DEF Entries, Slots
  <2>. QED  BY <2>1 DEF SizesKnown
<1>3. /\ left \in AreaRecord /\ RoomOK(left) /\ left.state = "open"
      /\ left.allocations = SwapRemove(areas[s].allocations, i)
  BY <1>1, UntrackProperties DEF Slots
<1>4. ForgetBlock(p) /\ finalized' = finalized
  BY DEF dragonstone_gc_escape_to, Forget, ForgetBlock
<1>. DEFINE slot == areas[s].allocations[i]
<1>0. entry = slot /\ t = <<s, slot>>
  OBVIOUS
<1>. HIDE DEF s, i, entry, left, t
<1>5. ASSUME areas' = [areas EXCEPT ![s] = left]
      PROVE  Tracked' = Tracked \ {t}
  BY <1>1, <1>3, <1>5, EntryRemoved DEF t, entry
<1>6. CASE entry.size = 0 /\ areas' = [areas EXCEPT ![s] = left] /\ heap' = heap
  <2>1. Retracked(t)
    BY <1>1, <1>2, <1>4, <1>5, <1>6 DEF Retracked
  <2>. QED  BY <1>2, <2>1 DEF BlockStep
<1>7. ASSUME NEW grows \in Outcomes("tracking"), target # NULL, heap' = heap,
             areas' = [areas EXCEPT ![s] = left, ![target] = Track(areas[target], entry, grows)]
      PROVE  BlockStep
  <2>1. target \in OpenAreas /\ target \in AreaIds
    BY <1>7 DEF OpenAreas
  <2>2. /\ areas[target] \in AreaRecord /\ RoomOK(areas[target]) /\ areas[target].state = "open"
        /\ grows \in BOOLEAN /\ (grows = FALSE => "tracking" \in Failing)
    BY <2>1, AreasFunction DEF TypeOK, OpenAreas, Outcomes
  <2>. DEFINE grown == Track(areas[target], entry, grows)
  <2>3. /\ grown \in AreaRecord /\ grown.state = "open"
        /\ \/ grown.allocations = Append(areas[target].allocations, entry)
           \/ grown = areas[target] /\ "tracking" \in Failing
    BY <1>2, <2>2, TrackProperties, TrackOrDrop
  <2>4. areas' = [areas EXCEPT ![s] = left, ![target] = grown]
    BY <1>7
  <2>. HIDE DEF grown
  <2>5. CASE grown = areas[target] /\ "tracking" \in Failing
    <3>1. areas' = [areas EXCEPT ![s] = left]
      <4>1. areas \in [AreaIds -> AreaRecord]
        BY AreasFunction DEF TypeOK
      <4>. QED  BY <1>1, <2>1, <2>4, <2>5, <4>1
    <3>2. Retracked(t)
      BY <1>1, <1>2, <1>4, <1>5, <1>7, <2>5, <3>1 DEF Retracked
    <3>. QED  BY <1>2, <3>2 DEF BlockStep
  <2>6. CASE grown.allocations = Append(areas[target].allocations, entry)
    <3>1. Tracked' = (Tracked \ {t}) \cup {<<target, entry>>}
      <4>1. grown.allocations = Append(areas[target].allocations, slot)
        BY <1>0, <2>6
      <4>2. target # s
        BY <1>1
      <4>3. Tracked' = (Tracked \ {<<s, slot>>}) \cup {<<target, slot>>}
        BY <1>1, <1>3, <2>1, <2>3, <2>4, <4>1, <4>2, EntryMoved
      <4>. QED  BY <1>0, <4>3
    <3>2. Retracked(t)
      BY <1>1, <1>2, <1>4, <1>7, <2>1, <3>1 DEF Retracked
    <3>. QED  BY <1>2, <3>2 DEF BlockStep
  <2>. QED  BY <2>3, <2>5, <2>6
<1>8. CASE /\ Len(heap) < MaxBlocks
           /\ areas' = [areas EXCEPT ![s] = left]
           /\ heap' = Append([heap EXCEPT ![p].state = "freed"],
                             [state |-> "boehm", finalizer |-> entry.finalizer])
  <2>. DEFINE boehm == [state |-> "boehm", finalizer |-> entry.finalizer]
  <2>1. boehm \in BlockRecord /\ Len(heap) + 1 \in 1 .. MaxBlocks
    BY <1>2, <1>8, HeapFunction, BoundsAssumption DEF BlockRecord, Entry, TypeOK
  <2>. HIDE DEF boehm
  <2>2. /\ Len(heap') = Len(heap) + 1
        /\ heap'[Len(heap) + 1] = boehm
        /\ heap'[p] = [heap[p] EXCEPT !.state = "freed"]
        /\ \A r \in Blocks \ {p} : heap'[r] = heap[r]
    BY <1>8, <2>1, FreedAndNew DEF TypeOK, boehm
  <2>3. Replaced(t)
    BY <1>1, <1>2, <1>4, <1>5, <1>8, <2>1, <2>2 DEF Replaced, boehm
  <2>. QED  BY <1>2, <2>3 DEF BlockStep
<1>9. CASE areas' = [areas EXCEPT ![s] = Track(left, entry, TRUE)] /\ heap' = heap
  <2>. DEFINE area == Track(left, entry, TRUE)
  <2>1. /\ area \in AreaRecord /\ area.state = "open"
        /\ area.allocations = Append(left.allocations, entry)
    BY <1>2, <1>3, TrackProperties, TrackOrDrop
  <2>2. areas' = [areas EXCEPT ![s] = area]
    BY <1>9
  <2>. HIDE DEF area
  <2>3. Entries(area.allocations) = Entries(areas[s].allocations)
    <3>1. Entries(left.allocations) = Entries(areas[s].allocations) \ {entry}
      BY <1>1, <1>3, OwnedFacts, SwapRemoveEntries DEF Slots, entry
    <3>2. left.allocations \in Seq(Entry)
      BY <1>3 DEF AreaRecord
    <3>3. entry \in Entries(areas[s].allocations)
      BY <1>0, <1>1 DEF Entries, Slots
    <3>4. Entries(area.allocations) = Entries(left.allocations) \cup {entry}
      BY <1>2, <2>1, <3>2, AppendEntries
    <3>. QED  BY <3>1, <3>3, <3>4
  <2>4. Tracked' = (Tracked \ {t}) \cup {<<s, entry>>}
    <3>1. Tracked' = Tracked
      BY <1>1, <2>1, <2>2, <2>3, EntriesKept
    <3>. QED  BY <1>0, <1>2, <3>1
  <2>5. Retracked(t)
    BY <1>1, <1>2, <1>4, <1>9, <2>4 DEF Retracked
  <2>. QED  BY <1>2, <2>5 DEF BlockStep
<1>10. CASE entry.size = 0 /\ EscapeLost(p, s)
  BY <1>6, <1>10 DEF EscapeLost, left, i
<1>11. CASE target # NULL /\ EscapeToArea(p, s, target)
  BY <1>7, <1>11 DEF EscapeToArea, left, i, entry
<1>12. CASE EscapeToBoehm(p, s)
  BY <1>8, <1>9, <1>12 DEF EscapeToBoehm, left, i, entry
<1>. QED  BY <1>10, <1>11, <1>12 DEF dragonstone_gc_escape_to, s, i, entry

LEMMA NextBlockStep ==
  ASSUME TypeOK, Owned, SizesKnown, Next \/ \E a \in AreaIds : dragonstone_gc_end_area(a)
  PROVE  BlockStep
<1>1. gc.current_area \in 0 .. Len(areas) /\ Len(areas) \in Nat
  BY AreasFunction DEF TypeOK, ManagerOK
<1>2. CASE dragonstone_gc_init \/ dragonstone_gc_disable \/ dragonstone_gc_enable
  <2>1. UNCHANGED <<areas, heap, finalized, trusted>>
    BY <1>2 DEF dragonstone_gc_init, dragonstone_gc_disable, dragonstone_gc_enable
  <2>. QED  BY <2>1, SameTracked, QuietBlocks DEF BlockStep
<1>3. CASE dragonstone_gc_shutdown
  BY <1>3, ShutdownBlocks DEF BlockStep
<1>4. ASSUME NEW size \in Sizes,
             dragonstone_gc_alloc(size) \/ dragonstone_gc_alloc_with_finalizer(size)
      PROVE  BlockStep
  <2>1. PICK S \in {{}} \cup Reclaimable, fin \in BOOLEAN : Obtain(size, fin, S) \/ ObtainNothing(S)
    BY <1>4 DEF dragonstone_gc_alloc, dragonstone_gc_alloc_with_finalizer, Collectable
  <2>2. CASE Obtain(size, fin, S)
    BY <2>2, ObtainBlocks
  <2>3. CASE ObtainNothing(S)
    BY <2>3, SameTracked, CollectedStep DEF ObtainNothing, BlockStep
  <2>. QED  BY <2>1, <2>2, <2>3
<1>5. ASSUME NEW size \in Sizes, NEW p \in Blocks, dragonstone_gc_realloc(p, size)
      PROVE  BlockStep
  BY <1>5, ReallocBlocks
<1>6. CASE dragonstone_gc_begin_area
  BY <1>6, BeginAreaBlocks DEF BlockStep
<1>7. CASE EndCurrent \/ \E a \in AreaIds : dragonstone_gc_end_area(a)
  <2>1. PICK a \in AreaIds : dragonstone_gc_end_area(a)
    BY <1>1, <1>7 DEF EndCurrent, NULL, AreaIds
  <2>2. {a} \subseteq OpenAreas /\ Disposed({a}, {}) /\ trusted' = trusted
    BY <2>1, EndAreaBlocks
  <2>. QED  BY <2>2 DEF BlockStep
<1>8. ASSUME NEW p \in Blocks, dragonstone_gc_escape(p)
      PROVE  BlockStep
  <2>1. ChainOpen /\ gc.current_area \in AreaIds
    BY <1>1, <1>8 DEF dragonstone_gc_escape, dragonstone_gc_escape_to, NULL, AreaIds
  <2>2. Parent(gc.current_area) \in {NULL} \cup OpenAreas
    BY <2>1, OpenParent
  <2>. QED  BY <1>8, <2>2, EscapeBlocks DEF dragonstone_gc_escape
<1>9. ASSUME NEW p \in Blocks, NEW target \in {NULL} \cup ToSet(Lineage(gc.current_area)),
             dragonstone_gc_escape_to(p, target)
      PROVE  BlockStep
  <2>1. ChainOpen
    BY <1>9 DEF dragonstone_gc_escape_to
  <2>. QED  BY <1>9, <2>1, OpenChain, EscapeBlocks
<1>10. ASSUME NEW p \in Blocks, NEW q \in Blocks, dragonstone_gc_write_barrier(p, q)
       PROVE  BlockStep
  <2>1. UNCHANGED <<areas, heap, finalized>>
    BY <1>10 DEF dragonstone_gc_write_barrier
  <2>. QED  BY <1>10, <2>1, SameTracked, QuietBlocks DEF BlockStep
<1>11. CASE dragonstone_gc_collect \/ BoehmCollect
  <2>1. PICK S \in Reclaimable : heap' = Reclaimed(S) /\ finalized' = FinalizedBy(S)
    BY <1>11 DEF dragonstone_gc_collect, BoehmCollect
  <2>2. areas' = areas /\ trusted' = trusted
    BY <1>11 DEF dragonstone_gc_collect, BoehmCollect
  <2>. QED  BY <2>1, <2>2, SameTracked, CollectedStep DEF BlockStep
<1>. QED  BY <1>2, <1>3, <1>4, <1>5, <1>6, <1>7, <1>8, <1>9, <1>10, <1>11 DEF Next

LEMMA InitTracked == Init => Tracked = {} /\ SizesKnown
<1>. SUFFICES ASSUME Init PROVE Tracked = {} /\ SizesKnown
  OBVIOUS
<1>1. Len(areas) = 0
  BY EmptySeq DEF Init
<1>2. Tracked = {}
  BY <1>1 DEF Tracked, OpenAreas, AreaIds
<1>. QED  BY <1>2 DEF SizesKnown

LEMMA StutterTracked == UNCHANGED vars => Tracked' = Tracked /\ (SizesKnown => SizesKnown')
BY SameTracked DEF vars, SizesKnown

(* What every specification of clients preserves. *)
BlockInv == TypeOK /\ Owned /\ SizesKnown

LEMMA InitBlock == Init => BlockInv
BY InitType, InitOwned, InitTracked DEF BlockInv

LEMMA NextBlock ==
  ASSUME BlockInv, AnyOrderNext
  PROVE  BlockStep /\ BlockInv'
BY NextType, NextOwned, NextBlockStep, BlockStepSizes DEF BlockInv, AnyOrderNext

LEMMA StutterBlock == BlockInv /\ UNCHANGED vars => BlockInv'
BY StutterType, StutterOwned, StutterTracked DEF BlockInv

-----------------------------------------------------------------------------
(* Leaks. *)

Untracked(p) == \A t \in Tracked : t[2].ptr # p

LeakFree == \A p \in Blocks : heap[p].state = "malloc" => ~Untracked(p)

LEMMA BlockStepLeaks ==
  ASSUME BlockInv, LeakFree, BlockStep, "tracking" \notin Failing, 0 \notin Sizes
  PROVE  LeakFree'
<1>1. /\ Len(heap) \in Nat
      /\ heap \in [Blocks -> BlockRecord]
      /\ \A t \in Tracked : t[2].ptr \in Blocks
  BY HeapFunction, TrackedFacts DEF BlockInv, TypeOK
<1>2. ASSUME NEW A, NEW S, Disposed(A, S)
      PROVE  LeakFree'
  <2>1. Blocks' = Blocks
    BY <1>2 DEF Disposed, Blocks
  <2>2. ASSUME NEW p \in Blocks, heap'[p].state = "malloc"
        PROVE  heap[p].state = "malloc" /\ \A t \in Tracked : t[1] \in A => t[2].ptr # p
    BY <1>1, <1>2, <2>2 DEF Disposed, BlockRecord
  <2>3. Tracked' = {t \in Tracked : t[1] \notin A}
    BY <1>2 DEF Disposed
  <2>. QED  BY <2>1, <2>2, <2>3 DEF LeakFree, Untracked
<1>3. ASSUME NEW S, NEW finalizer, Obtained(S, finalizer)
      PROVE  LeakFree'
  <2>. DEFINE p == Len(heap) + 1
  <2>1. Blocks' = Blocks \cup {p} /\ p \notin Blocks
    BY <1>1, <1>3 DEF Obtained, Blocks
  <2>2. Tracked \subseteq Tracked'
    BY <1>3 DEF Obtained
  <2>3. \A q \in Blocks : heap'[q].state = "malloc" => heap[q].state = "malloc"
    BY <1>1, <1>3 DEF Obtained, BlockRecord
  <2>4. ASSUME heap'[p].state = "malloc"
        PROVE  \E t \in Tracked' : t[2].ptr = p
    <3>1. PICK a \in OpenAreas, e \in Entry : e.ptr = p /\ Tracked' = Tracked \cup {<<a, e>>}
      BY <1>3, <2>4 DEF Obtained
    <3>2. <<a, e>>[2] = e /\ <<a, e>> \in Tracked'
      BY <3>1
    <3>. QED  BY <3>1, <3>2
  <2>. QED  BY <2>1, <2>2, <2>3, <2>4 DEF LeakFree, Untracked
<1>4. ASSUME NEW t \in Tracked, Retracked(t)
      PROVE  LeakFree'
  <2>1. Blocks' = Blocks /\ heap' = heap
    BY <1>4 DEF Retracked, Blocks
  <2>2. PICK a, e : e.ptr = t[2].ptr /\ Tracked' = (Tracked \ {t}) \cup {<<a, e>>}
    BY <1>4 DEF Retracked
  <2>3. ASSUME NEW u \in Tracked
        PROVE  \E v \in Tracked' : v[2].ptr = u[2].ptr
    <3>1. CASE u # t
      BY <2>2, <3>1
    <3>2. CASE u = t
      <4>1. <<a, e>>[2] = e /\ <<a, e>> \in Tracked'
        BY <2>2
      <4>. QED  BY <2>2, <3>2, <4>1
    <3>. QED  BY <3>1, <3>2
  <2>. QED  BY <2>1, <2>3 DEF LeakFree, Untracked
<1>5. ASSUME NEW t \in Tracked, Replaced(t)
      PROVE  LeakFree'
  <2>. DEFINE p == t[2].ptr
              q == Len(heap) + 1
  <2>1. Blocks' = Blocks \cup {q} /\ q \notin Blocks /\ p \in Blocks
    BY <1>1, <1>5 DEF Replaced, Blocks
  <2>2. /\ heap'[p].state = "freed"
        /\ \A r \in Blocks \ {p} : heap'[r] = heap[r]
    BY <1>1, <1>5, <2>1 DEF Replaced, BlockRecord
  <2>3. ASSUME heap'[q].state = "malloc"
        PROVE  \E u \in Tracked' : u[2].ptr = q
    <3>1. PICK e \in Entry : e.ptr = q /\ Tracked' = (Tracked \ {t}) \cup {<<t[1], e>>}
      BY <1>5, <2>3 DEF Replaced
    <3>2. <<t[1], e>>[2] = e /\ <<t[1], e>> \in Tracked'
      BY <3>1
    <3>. QED  BY <3>1, <3>2
  <2>4. Tracked \ {t} \subseteq Tracked'
    BY <1>5 DEF Replaced
  <2>. QED  BY <2>1, <2>2, <2>3, <2>4 DEF LeakFree, Untracked
<1>. QED  BY <1>2, <1>3, <1>4, <1>5 DEF BlockStep

LEMMA InitLeaks == Init => LeakFree
<1>. SUFFICES ASSUME Init PROVE LeakFree
  OBVIOUS
<1>1. Len(heap) = 0
  BY EmptySeq DEF Init
<1>. QED  BY <1>1 DEF LeakFree, Blocks

LEMMA StutterLeaks == LeakFree /\ UNCHANGED vars => LeakFree'
BY StutterTracked DEF LeakFree, Untracked, Blocks, vars

LEMMA LeakFreeMeans ==
  ASSUME TypeOK, LeakFree
  PROVE  NothingLeaks
<1>1. ASSUME NEW p \in Blocks, heap[p].state = "malloc"
      PROVE  \E a \in OpenAreas : Tracks(a, p)
  <2>1. PICK t \in Tracked : t[2].ptr = p
    BY <1>1 DEF LeakFree, Untracked
  <2>2. t[1] \in OpenAreas
    BY DEF Tracked
  <2>. QED  BY <2>1, <2>2, TracksTracked
<1>. QED  BY <1>1 DEF NothingLeaks

(* In whatever order areas end, every malloc block is tracked by an open   *)
(* area, which will free it (gc.c:492): no escape, realloc or shutdown     *)
(* loses one. The assumptions are the two ways the code does lose blocks:  *)
(* a tracking array that cannot grow (gc.c:122) and an escape of a block   *)
(* of size zero, which is taken for one that is not found (gc.c:596).      *)
THEOREM NothingLeaksAnyOrder ==
  ASSUME "tracking" \notin Failing, 0 \notin Sizes
  PROVE  AnyOrderSpec => []NothingLeaks
<1>1. Init => BlockInv /\ LeakFree
  BY InitBlock, InitLeaks
<1>2. BlockInv /\ LeakFree /\ [AnyOrderNext]_vars => (BlockInv /\ LeakFree)'
  BY NextBlock, StutterBlock, BlockStepLeaks, StutterLeaks
<1>3. BlockInv /\ LeakFree => NothingLeaks
  BY LeakFreeMeans DEF BlockInv
<1>. QED  BY <1>1, <1>2, <1>3, PTL DEF AnyOrderSpec

(* The search finds every block of an open area when the chain is exactly  *)
(* the open areas.                                                         *)
LEMMA FoundOnChain ==
  ASSUME TypeOK, ChainIsOpenAreas, NEW p, NEW a \in OpenAreas, Tracks(a, p)
  PROVE  FindArea(p) # NULL
<1>. DEFINE chain == Lineage(gc.current_area)
            Holds(i) == Tracks(chain[i], p)
            First(i) == Holds(i) /\ \A j \in 1 .. i - 1 : ~Holds(j)
            found == {i \in 1 .. Len(chain) : Holds(i)}
<1>1. chain \in Seq(AreaIds) /\ Len(chain) \in Nat
  BY ChainProperties, LenProperties DEF TypeOK
<1>2. PICK i \in 1 .. Len(chain) : chain[i] = a
  BY <1>1 DEF ChainIsOpenAreas, ToSet
<1>3. i \in found
  BY <1>2
<1>4. PICK m \in found : \A n \in found : m <= n
  <2>1. found \subseteq Nat
    BY <1>1
  <2>. HIDE DEF found
  <2>. QED  BY <1>3, <2>1, LeastNatural
<1>5. m \in 1 .. Len(chain) /\ First(m)
  <2>1. m \in 1 .. Len(chain) /\ Holds(m)
    OBVIOUS
  <2>2. ASSUME NEW j \in 1 .. m - 1, Holds(j)
        PROVE  FALSE
    <3>1. j \in found /\ j < m
      BY <1>1, <2>1, <2>2
    <3>. QED  BY <1>1, <1>4, <2>1, <3>1
  <2>. QED  BY <2>1, <2>2
<1>6. FindArea(p) = chain[CHOOSE k \in 1 .. Len(chain) : First(k)]
  BY <1>5 DEF FindArea
<1>7. PICK k \in 1 .. Len(chain) : FindArea(p) = chain[k]
  <2>. HIDE DEF First
  <2>. QED  BY <1>5, <1>6
<1>8. chain[k] \in AreaIds
  BY <1>1, ElementOfSeq
<1>. QED  BY <1>7, <1>8 DEF NULL, AreaIds

(* "Not in any area, must be boehm-managed" (gc.c:777) is right for        *)
(* clients that end areas innermost first, as long as no block is lost.    *)
THEOREM NotFoundIsBoehmLifo ==
  ASSUME "tracking" \notin Failing, 0 \notin Sizes
  PROVE  Spec => []NotFoundIsBoehm
<1>1. Init => BlockInv /\ LeakFree
  BY InitBlock, InitLeaks
<1>2. BlockInv /\ LeakFree /\ [Next]_vars => (BlockInv /\ LeakFree)'
  BY NextBlock, StutterBlock, BlockStepLeaks, StutterLeaks DEF AnyOrderNext
<1>3. BlockInv /\ LeakFree /\ ChainIsOpenAreas => NotFoundIsBoehm
  BY LeakFreeMeans, FoundOnChain DEF BlockInv, NothingLeaks, NotFoundIsBoehm, Live
<1>. QED  BY <1>1, <1>2, <1>3, ChainComplete, PTL DEF Spec

-----------------------------------------------------------------------------
(* Finalizers. *)

(* A block holds a finalizer when its entry, or its registration with the  *)
(* collector, will run it.                                                 *)
Holding ==
  {h \in Blocks \X (1 .. MaxBlocks) :
     \/ \E t \in Tracked : t[2].ptr = h[1] /\ t[2].finalizer = h[2]
     \/ heap[h[1]].state = "boehm" /\ heap[h[1]].finalizer = h[2]}

(* What FinalizedOnce needs to be inductive: a finalizer is held by at     *)
(* most one block, and only while it has not run.                          *)
FinalizerInv ==
  /\ \A g, h \in Holding : g[2] = h[2] => g[1] = h[1]
  /\ \A h \in Holding : finalized[h[2]] = "pending"
  /\ \A p \in 1 .. MaxBlocks : p > Len(heap) => finalized[p] = "none"
  /\ FinalizedOnce

(* The finalizers that run when the areas A end and S is reclaimed are     *)
(* held by blocks that are gone afterwards.                                *)
LEMMA RunHeld ==
  ASSUME BlockInv, NEW A, NEW S \in {{}} \cup Reclaimable, NEW p \in 1 .. MaxBlocks,
         \/ \E t \in Tracked : t[1] \in A /\ t[2].finalizer = p
         \/ \E q \in S : heap[q].finalizer = p
  PROVE  \E q \in Blocks :
           /\ <<q, p>> \in Holding
           /\ q \in S \/ \E t \in Tracked : t[1] \in A /\ t[2].ptr = q
<1>1. ASSUME NEW t \in Tracked, t[1] \in A, t[2].finalizer = p
      PROVE  t[2].ptr \in Blocks /\ <<t[2].ptr, p>> \in Holding
  BY <1>1, TrackedFacts DEF BlockInv, Holding
<1>2. ASSUME NEW q \in S, heap[q].finalizer = p
      PROVE  q \in Blocks /\ <<q, p>> \in Holding
  BY <1>2 DEF Reclaimable, Holding
<1>. QED  BY <1>1, <1>2

(* A history in which finalizers of blocks that are gone have run. *)
LEMMA FinalizerStep ==
  ASSUME TypeOK, FinalizerInv, NEW runs, Len(heap') \in Nat, Len(heap') >= Len(heap),
         finalized' = Finalizing(runs),
         \A p \in 1 .. MaxBlocks : runs[p] => \E h \in Holding : h[2] = p,
         \A h \in Holding' : h \in Holding /\ ~runs[h[2]]
  PROVE  FinalizerInv'
<1>1. /\ Holding \subseteq Blocks \X (1 .. MaxBlocks) /\ Len(heap) \in Nat
      /\ Holding' \subseteq Holding
  BY HeapFunction DEF Holding, TypeOK
<1>2. \A p \in 1 .. MaxBlocks :
        finalized'[p] = IF runs[p] THEN IF finalized[p] = "pending" THEN "done" ELSE "again"
                        ELSE finalized[p]
  BY DEF Finalizing
<1>3. \A p \in 1 .. MaxBlocks : runs[p] => finalized[p] = "pending"
  BY DEF FinalizerInv
<1>4. \A h \in Holding' : finalized'[h[2]] = "pending"
  BY <1>1, <1>2 DEF FinalizerInv
<1>5. \A p \in 1 .. MaxBlocks : p > Len(heap') => finalized'[p] = "none"
  BY <1>1, <1>2, <1>3 DEF FinalizerInv
<1>6. FinalizedOnce'
  BY <1>2, <1>3 DEF FinalizerInv, FinalizedOnce
<1>. QED  BY <1>1, <1>4, <1>5, <1>6 DEF FinalizerInv

LEMMA DisposedFinalizers ==
  ASSUME BlockInv, FinalizerInv, NEW A, NEW S, Disposed(A, S)
  PROVE  FinalizerInv'
<1>. DEFINE Runs(p) == \/ \E t \in Tracked : t[1] \in A /\ t[2].finalizer = p
                       \/ \E q \in S : heap[q].finalizer = p
            runs == [p \in 1 .. MaxBlocks |-> Runs(p)]
<1>1. finalized' = Finalizing(runs) /\ Len(heap') = Len(heap) /\ Len(heap) \in Nat
  BY HeapFunction DEF Disposed, BlockInv, TypeOK
<1>2. \A p \in 1 .. MaxBlocks : Runs(p) => \E q \in Blocks :
        /\ <<q, p>> \in Holding
        /\ q \in S \/ \E t \in Tracked : t[1] \in A /\ t[2].ptr = q
  BY RunHeld DEF Disposed
<1>3. ASSUME NEW h \in Holding'
      PROVE  /\ h \in Holding /\ h[1] \in Blocks /\ h[2] \in 1 .. MaxBlocks
             /\ h[1] \notin S /\ \A t \in Tracked : t[1] \in A => t[2].ptr # h[1]
  <2>1. Blocks' = Blocks
    BY <1>1 DEF Blocks
  <2>2. h \in Blocks \X (1 .. MaxBlocks) /\ h[1] \in Blocks
    BY <2>1 DEF Holding
  <2>3. CASE \E t \in Tracked' : t[2].ptr = h[1] /\ t[2].finalizer = h[2]
    <3>1. PICK t \in Tracked : t[1] \notin A /\ t[2].ptr = h[1] /\ t[2].finalizer = h[2]
      BY <2>3 DEF Disposed
    <3>2. h \in Holding
      BY <2>2, <3>1 DEF Holding
    <3>3. \A u \in Tracked : u[1] \in A => u[2].ptr # h[1]
      BY <3>1, TrackedFacts DEF BlockInv
    <3>4. h[1] \notin S
      <4>1. heap[h[1]].state = "malloc"
        BY <3>1, TrackedFacts DEF BlockInv
      <4>. QED  BY <4>1 DEF Disposed, Reclaimable
    <3>. QED  BY <2>2, <3>2, <3>3, <3>4
  <2>4. CASE heap'[h[1]].state = "boehm" /\ heap'[h[1]].finalizer = h[2]
    <3>1. /\ h[1] \notin S /\ (\A t \in Tracked : t[1] \in A => t[2].ptr # h[1])
          /\ heap'[h[1]] = heap[h[1]]
      <4>1. heap \in [Blocks -> BlockRecord]
        BY HeapFunction DEF BlockInv, TypeOK
      <4>2. \A p \in Blocks : /\ [heap[p] EXCEPT !.state = "collected"].state = "collected"
                              /\ [heap[p] EXCEPT !.state = "freed"].state = "freed"
        BY <4>1 DEF BlockRecord
      <4>3. h[1] \notin S
        BY <2>2, <2>4, <4>2 DEF Disposed
      <4>4. \A t \in Tracked : t[1] \in A => t[2].ptr # h[1]
        BY <2>2, <2>4, <4>2, <4>3 DEF Disposed
      <4>. QED  BY <2>2, <4>3, <4>4 DEF Disposed
    <3>2. h \in Holding
      BY <2>2, <2>4, <3>1 DEF Holding
    <3>. QED  BY <2>2, <3>1, <3>2
  <2>. QED  BY <2>3, <2>4 DEF Holding
<1>4. ASSUME NEW h \in Holding'
      PROVE  h \in Holding /\ ~runs[h[2]]
  <2>1. ASSUME Runs(h[2])
        PROVE  FALSE
    <3>1. PICK q \in Blocks : /\ <<q, h[2]>> \in Holding
                              /\ q \in S \/ \E t \in Tracked : t[1] \in A /\ t[2].ptr = q
      BY <1>2, <1>3, <2>1
    <3>2. q = h[1]
      BY <1>3, <3>1 DEF FinalizerInv
    <3>. QED  BY <1>3, <3>1, <3>2
  <2>. QED  BY <1>3, <2>1
<1>5. \A p \in 1 .. MaxBlocks : runs[p] => \E h \in Holding : h[2] = p
  <2>1. \A p \in 1 .. MaxBlocks : \A q : <<q, p>>[2] = p
    OBVIOUS
  <2>. QED  BY <1>2, <2>1
<1>. HIDE DEF runs
<1>. QED  BY <1>1, <1>4, <1>5, FinalizerStep DEF BlockInv

LEMMA ObtainedFinalizers ==
  ASSUME BlockInv, FinalizerInv, NEW S, NEW finalizer, Obtained(S, finalizer)
  PROVE  FinalizerInv'
<1>. DEFINE p == Len(heap) + 1
            Runs(q) == \E r \in S : heap[r].finalizer = q
<1>1. /\ Len(heap) \in Nat /\ p \in 1 .. MaxBlocks /\ Len(heap') = p
      /\ heap \in [Blocks -> BlockRecord]
      /\ Blocks' = Blocks \cup {p} /\ p \notin Blocks
  BY HeapFunction DEF Obtained, BlockInv, TypeOK, Blocks
<1>2. \A q \in 1 .. MaxBlocks : Runs(q) => \E r \in S : r \in Blocks /\ <<r, q>> \in Holding
  BY DEF Obtained, Reclaimable, Holding
<1>3. \A q \in 1 .. MaxBlocks :
        FinalizedBy(S)[q] = IF Runs(q) THEN IF finalized[q] = "pending" THEN "done" ELSE "again"
                            ELSE finalized[q]
  BY DEF FinalizedBy, Finalizing
<1>4. \A q \in 1 .. MaxBlocks : Runs(q) => finalized[q] = "pending"
  <2>1. \A r, q : <<r, q>>[2] = q
    OBVIOUS
  <2>. QED  BY <1>2, <2>1 DEF FinalizerInv
<1>5. finalized[p] = "none" /\ ~Runs(p)
  BY <1>1, <1>4 DEF FinalizerInv
<1>6. \A q \in 1 .. MaxBlocks :
        finalized'[q] = IF q = p /\ finalizer = p THEN "pending" ELSE FinalizedBy(S)[q]
  <2>1. FinalizedBy(S) = [q \in 1 .. MaxBlocks |-> FinalizedBy(S)[q]]
    BY DEF FinalizedBy, Finalizing
  <2>. QED  BY <2>1 DEF Obtained
<1>7. ASSUME NEW h \in Holding'
      PROVE  \/ h[1] = p /\ h[2] = p /\ finalizer = p
             \/ h \in Holding /\ h[1] \in Blocks /\ h[2] \in 1 .. MaxBlocks /\ ~Runs(h[2])
  <2>1. h = <<h[1], h[2]>> /\ h[1] \in Blocks \cup {p} /\ h[2] \in 1 .. MaxBlocks
    BY <1>1 DEF Holding
  <2>2. ASSUME h \in Holding, h[1] \in Blocks, h[1] \notin S
        PROVE  ~Runs(h[2])
    <3>1. \A r \in S : <<r, h[2]>> \in Holding => r = h[1]
      BY <2>2 DEF FinalizerInv
    <3>. QED  BY <1>2, <2>1, <2>2, <3>1
  <2>3. ASSUME NEW t \in Tracked', t[2].ptr = h[1], t[2].finalizer = h[2]
        PROVE  \/ h[1] = p /\ h[2] = p /\ finalizer = p
               \/ h \in Holding /\ h[1] \in Blocks /\ h[1] \notin S
    <3>1. CASE t \in Tracked
      <4>1. h[1] \in Blocks /\ heap[h[1]].state = "malloc"
        BY <2>3, <3>1, TrackedFacts DEF BlockInv
      <4>2. h \in Holding
        BY <2>1, <2>3, <3>1, <4>1 DEF Holding
      <4>. QED  BY <4>1, <4>2 DEF Obtained, Reclaimable
    <3>2. CASE t \notin Tracked
      <4>1. PICK a \in OpenAreas, e \in Entry :
              e.ptr = p /\ e.finalizer = finalizer /\ Tracked' = Tracked \cup {<<a, e>>}
        BY <2>3, <3>2 DEF Obtained
      <4>2. t[2] = e
        BY <3>2, <4>1
      <4>3. h[1] = p /\ h[2] = finalizer
        BY <2>3, <4>1, <4>2
      <4>4. finalizer \in {NULL, p}
        BY DEF Obtained
      <4>. QED  BY <2>1, <4>3, <4>4 DEF NULL
    <3>. QED  BY <3>1, <3>2
  <2>4. CASE heap'[h[1]].state = "boehm" /\ heap'[h[1]].finalizer = h[2] /\ h[1] = p
    <3>1. h[2] = finalizer /\ finalizer \in {NULL, p}
      <4>1. heap'[p] \in {[state |-> "malloc", finalizer |-> NULL],
                          [state |-> "boehm", finalizer |-> finalizer]}
        BY DEF Obtained
      <4>2. heap'[p] = [state |-> "boehm", finalizer |-> finalizer]
        BY <2>4, <4>1
      <4>3. finalizer \in {NULL, p}
        BY DEF Obtained
      <4>. QED  BY <2>4, <4>2, <4>3
    <3>. QED  BY <2>1, <2>4, <3>1 DEF NULL
  <2>5. CASE heap'[h[1]].state = "boehm" /\ heap'[h[1]].finalizer = h[2] /\ h[1] \in Blocks
    <3>1. [heap[h[1]] EXCEPT !.state = "collected"].state = "collected"
      BY <1>1, <2>5 DEF BlockRecord
    <3>2. h[1] \notin S
      BY <2>5, <3>1 DEF Obtained
    <3>3. heap'[h[1]] = heap[h[1]]
      BY <2>5, <3>2 DEF Obtained
    <3>4. h \in Holding
      BY <2>1, <2>5, <3>3 DEF Holding
    <3>. QED  BY <2>1, <2>2, <2>5, <3>2, <3>4
  <2>6. \/ \E t \in Tracked' : t[2].ptr = h[1] /\ t[2].finalizer = h[2]
        \/ heap'[h[1]].state = "boehm" /\ heap'[h[1]].finalizer = h[2]
    BY DEF Holding
  <2>. QED  BY <2>1, <2>2, <2>3, <2>4, <2>5, <2>6
<1>8. \A h \in Holding : finalized[h[2]] = "pending"
  BY DEF FinalizerInv
<1>9. ASSUME NEW g \in Holding', NEW h \in Holding', g[2] = h[2]
      PROVE  g[1] = h[1]
  <2>1. \A k \in Holding : k[2] # p
    BY <1>5, <1>8
  <2>. QED  BY <1>7, <1>9, <2>1 DEF FinalizerInv
<1>10. \A h \in Holding' : finalized'[h[2]] = "pending"
  <2>. SUFFICES ASSUME NEW h \in Holding' PROVE finalized'[h[2]] = "pending"
    OBVIOUS
  <2>1. CASE h[1] = p /\ h[2] = p /\ finalizer = p
    BY <1>1, <1>6, <2>1
  <2>2. CASE h \in Holding /\ h[1] \in Blocks /\ h[2] \in 1 .. MaxBlocks /\ ~Runs(h[2])
    BY <1>3, <1>6, <1>8, <2>2
  <2>. QED  BY <1>7, <2>1, <2>2
<1>11. \A q \in 1 .. MaxBlocks : q > Len(heap') => finalized'[q] = "none"
  <2>. SUFFICES ASSUME NEW q \in 1 .. MaxBlocks, q > Len(heap') PROVE finalized'[q] = "none"
    OBVIOUS
  <2>1. q # p /\ finalized[q] = "none"
    BY <1>1 DEF FinalizerInv
  <2>. QED  BY <1>3, <1>4, <1>6, <2>1
<1>12. FinalizedOnce'
  BY <1>3, <1>4, <1>6 DEF FinalizerInv, FinalizedOnce
<1>. QED  BY <1>9, <1>10, <1>11, <1>12 DEF FinalizerInv

(* A step that runs no finalizer and hands each to no more than one block. *)
LEMMA HandedOver ==
  ASSUME FinalizerInv, UNCHANGED finalized, Len(heap) \in Nat, Len(heap') \in Nat,
         Len(heap') >= Len(heap),
         \A h \in Holding' : \E g \in Holding : g[2] = h[2],
         \A g \in Holding', h \in Holding' : g[2] = h[2] => g[1] = h[1]
  PROVE  FinalizerInv'
<1>1. \A h \in Holding' : finalized'[h[2]] = "pending"
  BY DEF FinalizerInv
<1>2. \A p \in 1 .. MaxBlocks : p > Len(heap') => finalized'[p] = "none"
  BY DEF FinalizerInv
<1>. QED  BY <1>1, <1>2 DEF FinalizerInv, FinalizedOnce

LEMMA RetrackedFinalizers ==
  ASSUME BlockInv, FinalizerInv, NEW t \in Tracked, Retracked(t)
  PROVE  FinalizerInv'
<1>1. heap' = heap /\ finalized' = finalized /\ Blocks' = Blocks /\ Len(heap) \in Nat
  BY HeapFunction DEF Retracked, Blocks, BlockInv, TypeOK
<1>2. ASSUME NEW u \in Tracked'
      PROVE  \E v \in Tracked : v[2].ptr = u[2].ptr /\ v[2].finalizer = u[2].finalizer
  <2>1. CASE u \in Tracked
    BY <2>1
  <2>2. CASE u \notin Tracked
    <3>1. PICK a \in OpenAreas, e \in Entry :
            /\ e.ptr = t[2].ptr /\ e.finalizer = t[2].finalizer
            /\ Tracked' = (Tracked \ {t}) \cup {<<a, e>>}
      BY <1>2, <2>2 DEF Retracked
    <3>2. u[2] = e
      BY <2>2, <3>1
    <3>. QED  BY <3>1, <3>2
  <2>. QED  BY <2>1, <2>2
<1>3. Holding' \subseteq Holding
  <2>. SUFFICES ASSUME NEW h \in Holding' PROVE h \in Holding
    OBVIOUS
  <2>1. h \in Blocks \X (1 .. MaxBlocks)
    BY <1>1 DEF Holding
  <2>2. \/ \E u \in Tracked' : u[2].ptr = h[1] /\ u[2].finalizer = h[2]
        \/ heap[h[1]].state = "boehm" /\ heap[h[1]].finalizer = h[2]
    BY <1>1 DEF Holding
  <2>. QED  BY <1>2, <2>1, <2>2 DEF Holding
<1>. QED  BY <1>1, <1>3, HandedOver DEF FinalizerInv

LEMMA ReplacedFinalizers ==
  ASSUME BlockInv, FinalizerInv, NEW t \in Tracked, Replaced(t)
  PROVE  FinalizerInv'
<1>. DEFINE p == t[2].ptr
            q == Len(heap) + 1
            f == t[2].finalizer
<1>1. /\ Len(heap) \in Nat /\ Len(heap') = q /\ p \in Blocks /\ heap[p].state = "malloc"
      /\ heap \in [Blocks -> BlockRecord]
      /\ Blocks' = Blocks \cup {q} /\ q \notin Blocks
      /\ finalized' = finalized
  BY HeapFunction, TrackedFacts DEF Replaced, BlockInv, TypeOK, Blocks
<1>2. f \in 1 .. MaxBlocks => <<p, f>> \in Holding
  BY <1>1 DEF Holding
<1>3. ASSUME NEW h \in Holding'
      PROVE  \/ h[1] = q /\ h[2] = f /\ f \in 1 .. MaxBlocks
             \/ h \in Holding /\ h[1] \in Blocks \ {p}
  <2>1. h = <<h[1], h[2]>> /\ h[1] \in Blocks \cup {q} /\ h[2] \in 1 .. MaxBlocks
    BY <1>1 DEF Holding
  <2>2. ASSUME NEW u \in Tracked', u[2].ptr = h[1], u[2].finalizer = h[2]
        PROVE  \/ h[1] = q /\ h[2] = f
               \/ h \in Holding /\ h[1] \in Blocks \ {p}
    <3>1. CASE u \in Tracked \ {t}
      <4>1. h[1] \in Blocks \ {p}
        BY <2>2, <3>1, TrackedFacts DEF BlockInv
      <4>. QED  BY <2>1, <2>2, <3>1, <4>1 DEF Holding
    <3>2. CASE u \notin Tracked \ {t}
      <4>1. PICK e \in Entry : /\ e.ptr = q /\ e.finalizer = f
                               /\ Tracked' = (Tracked \ {t}) \cup {<<t[1], e>>}
        BY <2>2, <3>2 DEF Replaced
      <4>2. u[2] = e
        BY <3>2, <4>1
      <4>. QED  BY <2>2, <4>1, <4>2
    <3>. QED  BY <3>1, <3>2
  <2>3. CASE heap'[h[1]].state = "boehm" /\ heap'[h[1]].finalizer = h[2] /\ h[1] = q
    <3>1. heap'[q] \in {[state |-> "malloc", finalizer |-> NULL],
                        [state |-> "boehm", finalizer |-> f]}
      BY DEF Replaced
    <3>2. heap'[q] = [state |-> "boehm", finalizer |-> f]
      BY <2>3, <3>1
    <3>3. h[1] = q /\ h[2] = f /\ h[2] \in 1 .. MaxBlocks
      BY <2>1, <2>3, <3>2
    <3>. HIDE DEF p, q, f
    <3>. QED  BY <3>3
  <2>4. CASE heap'[h[1]].state = "boehm" /\ heap'[h[1]].finalizer = h[2] /\ h[1] \in Blocks
    <3>1. heap'[p].state = "freed"
      BY <1>1 DEF Replaced, BlockRecord
    <3>2. h[1] # p /\ heap'[h[1]] = heap[h[1]]
      BY <2>4, <3>1 DEF Replaced
    <3>. QED  BY <2>1, <2>4, <3>2 DEF Holding
  <2>5. \/ \E u \in Tracked' : u[2].ptr = h[1] /\ u[2].finalizer = h[2]
        \/ heap'[h[1]].state = "boehm" /\ heap'[h[1]].finalizer = h[2]
    BY DEF Holding
  <2>6. \/ h[1] = q /\ h[2] = f
        \/ h \in Holding /\ h[1] \in Blocks \ {p}
    <3>1. CASE \E u \in Tracked' : u[2].ptr = h[1] /\ u[2].finalizer = h[2]
      BY <2>2, <3>1
    <3>2. CASE heap'[h[1]].state = "boehm" /\ heap'[h[1]].finalizer = h[2]
      BY <2>1, <2>3, <2>4, <3>2
    <3>. QED  BY <2>5, <3>1, <3>2
  <2>7. h[2] \in 1 .. MaxBlocks
    BY <2>1
  <2>. QED
    <3>. HIDE DEF p, q, f
    <3>. QED  BY <2>6, <2>7
<1>4. ASSUME NEW g \in Holding', NEW h \in Holding', g[2] = h[2]
      PROVE  g[1] = h[1]
  <2>1. \A k \in Holding : k[2] = f /\ f \in 1 .. MaxBlocks => k[1] = p
    <3>1. <<p, f>>[1] = p /\ <<p, f>>[2] = f
      OBVIOUS
    <3>. QED  BY <1>2, <3>1 DEF FinalizerInv
  <2>. QED  BY <1>3, <1>4, <2>1 DEF FinalizerInv
<1>5. ASSUME NEW h \in Holding'
      PROVE  \E g \in Holding : g[2] = h[2]
  <2>1. <<p, f>>[2] = f
    OBVIOUS
  <2>. QED  BY <1>2, <1>3, <2>1
<1>. QED  BY <1>1, <1>4, <1>5, HandedOver

LEMMA BlockStepFinalizers ==
  ASSUME BlockInv, FinalizerInv, BlockStep
  PROVE  FinalizerInv'
BY DisposedFinalizers, ObtainedFinalizers, RetrackedFinalizers, ReplacedFinalizers DEF BlockStep

LEMMA InitFinalizers == Init => FinalizerInv
<1>. SUFFICES ASSUME Init PROVE FinalizerInv
  OBVIOUS
<1>1. Len(heap) = 0 /\ finalized = [p \in 1 .. MaxBlocks |-> "none"]
  BY EmptySeq DEF Init
<1>2. Holding = {}
  BY <1>1 DEF Holding, Blocks
<1>. QED  BY <1>1, <1>2 DEF FinalizerInv, FinalizedOnce

LEMMA StutterFinalizers == FinalizerInv /\ UNCHANGED vars => FinalizerInv'
<1>. SUFFICES ASSUME FinalizerInv, UNCHANGED vars PROVE FinalizerInv'
  OBVIOUS
<1>1. Holding' = Holding
  BY StutterTracked DEF Holding, Blocks, vars
<1>. QED  BY <1>1 DEF FinalizerInv, FinalizedOnce, vars

(* No finalizer runs twice (gc.c:483, 498): not when an area ends after a  *)
(* block has escaped from it, nor when the collector reclaims the copy,    *)
(* nor at shutdown; whatever fails, in whatever order areas end.           *)
THEOREM FinalizedOnceAnyOrder == AnyOrderSpec => []FinalizedOnce
<1>1. Init => BlockInv /\ FinalizerInv
  BY InitBlock, InitFinalizers
<1>2. BlockInv /\ FinalizerInv /\ [AnyOrderNext]_vars => (BlockInv /\ FinalizerInv)'
  BY NextBlock, StutterBlock, BlockStepFinalizers, StutterFinalizers
<1>3. FinalizerInv => FinalizedOnce
  BY DEF FinalizerInv
<1>. QED  BY <1>1, <1>2, <1>3, PTL DEF AnyOrderSpec

(* What FinalizerKept needs besides: a finalizer that has not run is held. *)
KeptInv ==
  \A p \in 1 .. MaxBlocks : finalized[p] = "pending" => \E h \in Holding : h[2] = p

(* A block that holds a finalizer still does, when its entry is still      *)
(* there, or its registration.                                             *)
LEMMA HoldsByEntry ==
  TypeOK /\ Owned =>
    \A t \in Tracked : t[2].finalizer \in 1 .. MaxBlocks =>
      \E h \in Holding : h[2] = t[2].finalizer
<1>. SUFFICES ASSUME TypeOK, Owned, NEW t \in Tracked, t[2].finalizer \in 1 .. MaxBlocks
              PROVE  \E h \in Holding : h[2] = t[2].finalizer
  OBVIOUS
<1>1. t[2].ptr \in Blocks
  BY TrackedFacts
<1>. DEFINE h == <<t[2].ptr, t[2].finalizer>>
<1>2. h[1] = t[2].ptr /\ h[2] = t[2].finalizer /\ h \in Blocks \X (1 .. MaxBlocks)
  BY <1>1
<1>. HIDE DEF h
<1>3. h \in Holding
  BY <1>2 DEF Holding
<1>. QED  BY <1>2, <1>3

LEMMA HoldsByEntryNext ==
  (TypeOK /\ Owned =>
     \A t \in Tracked : t[2].finalizer \in 1 .. MaxBlocks =>
       \E h \in Holding : h[2] = t[2].finalizer)'
BY HoldsByEntry, PTL

LEMMA BlockStepKept ==
  ASSUME BlockInv, BlockInv', KeptInv, BlockStep, "tracking" \notin Failing, 0 \notin Sizes
  PROVE  KeptInv'
<1>1. /\ Len(heap) \in Nat
      /\ heap \in [Blocks -> BlockRecord]
      /\ \A t \in Tracked : t[2].ptr \in Blocks /\ heap[t[2].ptr].state = "malloc"
      /\ \A p \in 1 .. MaxBlocks : finalized[p] = "pending" =>
           \/ \E t \in Tracked : t[2].finalizer = p
           \/ \E q \in Blocks : heap[q].state = "boehm" /\ heap[q].finalizer = p
  BY HeapFunction, TrackedFacts DEF BlockInv, TypeOK, KeptInv, Holding
<1>2. ASSUME NEW p \in 1 .. MaxBlocks,
             \/ \E t \in Tracked' : t[2].finalizer = p
             \/ \E q \in Blocks' : heap'[q].state = "boehm" /\ heap'[q].finalizer = p
      PROVE  \E h \in Holding' : h[2] = p
  <2>1. ASSUME NEW q \in Blocks', heap'[q].state = "boehm", heap'[q].finalizer = p
        PROVE  \E h \in Holding' : h[2] = p
    <3>1. <<q, p>>[1] = q /\ <<q, p>>[2] = p /\ <<q, p>> \in Blocks' \X (1 .. MaxBlocks)
      BY <2>1
    <3>. QED  BY <2>1, <3>1 DEF Holding
  <2>. QED  BY <1>2, <2>1, HoldsByEntryNext DEF BlockInv
<1>3. ASSUME NEW A, NEW S, Disposed(A, S), NEW p \in 1 .. MaxBlocks, finalized'[p] = "pending"
      PROVE  \E h \in Holding' : h[2] = p
  <2>. DEFINE Runs == \/ \E t \in Tracked : t[1] \in A /\ t[2].finalizer = p
                      \/ \E q \in S : heap[q].finalizer = p
  <2>1. finalized[p] = "pending" /\ ~Runs
    BY <1>3 DEF Disposed, Finalizing
  <2>2. ASSUME NEW t \in Tracked, t[2].finalizer = p
        PROVE  t \in Tracked'
    BY <1>3, <2>1, <2>2 DEF Disposed
  <2>3. ASSUME NEW q \in Blocks, heap[q].state = "boehm", heap[q].finalizer = p
        PROVE  q \in Blocks' /\ heap'[q] = heap[q]
    <3>1. q \notin S /\ ~\E t \in Tracked : t[1] \in A /\ t[2].ptr = q
      BY <1>1, <2>1, <2>3
    <3>. QED  BY <1>3, <3>1 DEF Disposed, Blocks
  <2>. QED  BY <1>1, <1>2, <2>1, <2>2, <2>3
<1>4. ASSUME NEW S, NEW finalizer, Obtained(S, finalizer),
             NEW p \in 1 .. MaxBlocks, finalized'[p] = "pending"
      PROVE  \E h \in Holding' : h[2] = p
  <2>. DEFINE n == Len(heap) + 1
  <2>1. /\ Blocks' = Blocks \cup {n} /\ n \notin Blocks /\ n \in 1 .. MaxBlocks
        /\ Tracked \subseteq Tracked'
    BY <1>1, <1>4 DEF Obtained, Blocks
  <2>2. CASE finalizer = n /\ p = n
    <3>1. CASE heap'[n] = [state |-> "boehm", finalizer |-> finalizer]
      <4>1. heap'[n].state = "boehm" /\ heap'[n].finalizer = p
        BY <2>2, <3>1
      <4>. QED  BY <1>2, <2>1, <4>1
    <3>2. CASE heap'[n] # [state |-> "boehm", finalizer |-> finalizer]
      <4>1. PICK a \in OpenAreas, e \in Entry :
              e.finalizer = finalizer /\ Tracked' = Tracked \cup {<<a, e>>}
        BY <1>4, <3>2 DEF Obtained
      <4>2. <<a, e>>[2] = e /\ <<a, e>> \in Tracked'
        BY <4>1
      <4>. QED  BY <1>2, <2>2, <4>1, <4>2
    <3>. QED  BY <3>1, <3>2
  <2>3. CASE ~(finalizer = n /\ p = n)
    <3>1. finalized'[p] = FinalizedBy(S)[p]
      <4>1. FinalizedBy(S) = [r \in 1 .. MaxBlocks |-> FinalizedBy(S)[r]]
        BY DEF FinalizedBy, Finalizing
      <4>. QED  BY <1>4, <2>1, <2>3, <4>1 DEF Obtained
    <3>2. finalized[p] = "pending" /\ ~\E q \in S : heap[q].finalizer = p
      BY <1>4, <3>1 DEF FinalizedBy, Finalizing
    <3>3. ASSUME NEW q \in Blocks, heap[q].state = "boehm", heap[q].finalizer = p
          PROVE  q \in Blocks' /\ heap'[q] = heap[q]
      BY <1>4, <2>1, <3>2, <3>3 DEF Obtained
    <3>. QED  BY <1>1, <1>2, <2>1, <3>2, <3>3
  <2>. QED  BY <2>2, <2>3
<1>5. ASSUME NEW t \in Tracked, Retracked(t),
             NEW p \in 1 .. MaxBlocks, finalized'[p] = "pending"
      PROVE  \E h \in Holding' : h[2] = p
  <2>1. Blocks' = Blocks /\ heap' = heap /\ finalized[p] = "pending"
    BY <1>5 DEF Retracked, Blocks
  <2>2. PICK a, e : /\ e.finalizer = t[2].finalizer
                    /\ Tracked' = (Tracked \ {t}) \cup {<<a, e>>}
    BY <1>5 DEF Retracked
  <2>3. ASSUME NEW u \in Tracked
        PROVE  \E v \in Tracked' : v[2].finalizer = u[2].finalizer
    <3>1. CASE u # t
      BY <2>2, <3>1
    <3>2. CASE u = t
      <4>1. <<a, e>>[2] = e /\ <<a, e>> \in Tracked'
        BY <2>2
      <4>. QED  BY <2>2, <3>2, <4>1
    <3>. QED  BY <3>1, <3>2
  <2>4. CASE \E u \in Tracked : u[2].finalizer = p
    BY <1>2, <2>3, <2>4
  <2>5. CASE \E q \in Blocks : heap[q].state = "boehm" /\ heap[q].finalizer = p
    BY <1>2, <2>1, <2>5
  <2>. QED  BY <1>1, <2>1, <2>4, <2>5
<1>6. ASSUME NEW t \in Tracked, Replaced(t),
             NEW p \in 1 .. MaxBlocks, finalized'[p] = "pending"
      PROVE  \E h \in Holding' : h[2] = p
  <2>. DEFINE n == Len(heap) + 1
  <2>1. Blocks' = Blocks \cup {n} /\ n \notin Blocks /\ finalized[p] = "pending"
    BY <1>1, <1>6 DEF Replaced, Blocks
  <2>2. CASE t[2].finalizer = p
    <3>1. CASE heap'[n] = [state |-> "boehm", finalizer |-> t[2].finalizer]
      <4>1. heap'[n].state = "boehm" /\ heap'[n].finalizer = p
        BY <2>2, <3>1
      <4>. QED  BY <1>2, <2>1, <4>1
    <3>2. CASE heap'[n] # [state |-> "boehm", finalizer |-> t[2].finalizer]
      <4>1. PICK e \in Entry : /\ e.finalizer = t[2].finalizer
                               /\ Tracked' = (Tracked \ {t}) \cup {<<t[1], e>>}
        BY <1>6, <3>2 DEF Replaced
      <4>2. <<t[1], e>>[2] = e /\ <<t[1], e>> \in Tracked'
        BY <4>1
      <4>. QED  BY <1>2, <2>2, <4>1, <4>2
    <3>. QED  BY <3>1, <3>2
  <2>3. ASSUME NEW u \in Tracked, u # t, u[2].finalizer = p
        PROVE  u \in Tracked'
    BY <1>6, <2>3 DEF Replaced
  <2>4. ASSUME NEW q \in Blocks, heap[q].state = "boehm", heap[q].finalizer = p
        PROVE  q \in Blocks' /\ heap'[q] = heap[q]
    <3>1. q # t[2].ptr
      BY <1>1, <2>4
    <3>. QED  BY <1>6, <2>1, <3>1 DEF Replaced
  <2>5. CASE \E u \in Tracked : u[2].finalizer = p
    BY <1>2, <2>2, <2>3, <2>5
  <2>6. CASE \E q \in Blocks : heap[q].state = "boehm" /\ heap[q].finalizer = p
    BY <1>2, <2>4, <2>6
  <2>. QED  BY <1>1, <2>1, <2>5, <2>6
<1>. QED  BY <1>3, <1>4, <1>5, <1>6 DEF BlockStep, KeptInv

LEMMA InitKept == Init => KeptInv
BY DEF Init, KeptInv

LEMMA StutterKept == KeptInv /\ UNCHANGED vars => KeptInv'
<1>. SUFFICES ASSUME KeptInv, UNCHANGED vars PROVE KeptInv'
  OBVIOUS
<1>1. Holding' = Holding
  BY StutterTracked DEF Holding, Blocks, vars
<1>. QED  BY <1>1 DEF KeptInv, vars

LEMMA IntervalSize ==
  ASSUME NEW n \in Nat
  PROVE  IsFiniteSet(1 .. n) /\ Cardinality(1 .. n) = n
<1>1. IsFiniteSet(1 .. n) /\ Cardinality(1 .. n) = IF 1 > n THEN 0 ELSE n - 1 + 1
  BY FS_Interval
<1>2. (IF 1 > n THEN 0 ELSE n - 1 + 1) = n
  OBVIOUS
<1>. QED  BY <1>1, <1>2

(* A tracking array has no more entries than there are blocks. *)
LEMMA SlotsBounded ==
  ASSUME BlockInv, NEW a \in OpenAreas
  PROVE  Slots(a) \subseteq 1 .. MaxBlocks
<1>. DEFINE n == Len(areas[a].allocations)
            S == 1 .. n
            T == 1 .. MaxBlocks
            f == [i \in S |-> Ptr(a, i)]
<1>1. n \in Nat /\ MaxBlocks \in Nat
  BY AreasFunction, LenProperties, BoundsAssumption DEF BlockInv, TypeOK, OpenAreas, AreaRecord
<1>2. f \in [S -> T]
  <2>1. Blocks \subseteq T
    BY <1>1, HeapFunction DEF BlockInv, TypeOK, HeapOK, Blocks
  <2>2. \A i \in S : Ptr(a, i) \in Blocks
    BY DEF BlockInv, Owned, TrackedIsMalloc, Slots
  <2>. QED  BY <2>1, <2>2
<1>3. \A x, y \in S : f[x] = f[y] => x = y
  BY DEF BlockInv, Owned, UniqueOwner, Slots
<1>4. /\ IsFiniteSet(S) /\ Cardinality(S) = n
      /\ IsFiniteSet(T) /\ Cardinality(T) = MaxBlocks
  BY <1>1, IntervalSize
<1>. HIDE DEF S, T, f, n
<1>5. ~(Cardinality(T) < Cardinality(S))
  BY <1>2, <1>3, <1>4, FS_PigeonHole
<1>. QED  BY <1>1, <1>4, <1>5 DEF Slots, n

(* The carriers of a finalizer are the places where a block holds it. *)
LEMMA CarrierHolds ==
  ASSUME BlockInv, NEW p \in 1 .. MaxBlocks
  PROVE  /\ \A c \in Carriers(p) : \E h \in Holding :
              /\ h[2] = p
              /\ \/ c = <<NULL, h[1]>> /\ heap[h[1]].state = "boehm"
                 \/ /\ c = <<c[1], c[2]>> /\ c[1] \in OpenAreas /\ c[2] \in Slots(c[1])
                    /\ Ptr(c[1], c[2]) = h[1]
         /\ \A h \in Holding : h[2] = p => Carriers(p) # {}
<1>1. \A t \in Tracked : /\ t[1] \in OpenAreas /\ t[2] \in Entries(areas[t[1]].allocations)
  BY DEF Tracked
<1>2. ASSUME NEW a \in OpenAreas, NEW i \in Slots(a), areas[a].allocations[i].finalizer = p
      PROVE  <<Ptr(a, i), p>> \in Holding
  <2>. DEFINE e == areas[a].allocations[i]
              t == <<a, e>>
  <2>1. t \in Tracked /\ t[2] = e
    BY SlotTracked DEF BlockInv
  <2>2. e.ptr \in Blocks
    BY <2>1, TrackedFacts DEF BlockInv
  <2>. QED  BY <1>2, <2>1, <2>2 DEF Holding, Ptr
<1>3. ASSUME NEW c \in Carriers(p)
      PROVE  \E h \in Holding :
              /\ h[2] = p
              /\ \/ c = <<NULL, h[1]>> /\ heap[h[1]].state = "boehm"
                 \/ /\ c = <<c[1], c[2]>> /\ c[1] \in OpenAreas /\ c[2] \in Slots(c[1])
                    /\ Ptr(c[1], c[2]) = h[1]
  <2>1. CASE /\ c \in OpenAreas \X (1 .. MaxBlocks) /\ c[2] \in Slots(c[1])
             /\ areas[c[1]].allocations[c[2]].finalizer = p
    <3>. DEFINE h == <<Ptr(c[1], c[2]), p>>
    <3>1. h \in Holding /\ h[1] = Ptr(c[1], c[2]) /\ h[2] = p
      BY <1>2, <2>1
    <3>. HIDE DEF h
    <3>. QED  BY <2>1, <3>1
  <2>2. CASE \E q \in Blocks : /\ c = <<NULL, q>>
                               /\ heap[q].state = "boehm" /\ heap[q].finalizer = p
    <3>1. PICK q \in Blocks : c = <<NULL, q>> /\ heap[q].state = "boehm" /\ heap[q].finalizer = p
      BY <2>2
    <3>. DEFINE h == <<q, p>>
    <3>2. h \in Blocks \X (1 .. MaxBlocks) /\ h[1] = q /\ h[2] = p
      OBVIOUS
    <3>. HIDE DEF h
    <3>3. h \in Holding
      BY <3>1, <3>2 DEF Holding
    <3>. QED  BY <3>1, <3>2, <3>3
  <2>. QED  BY <2>1, <2>2 DEF Carriers
<1>4. ASSUME NEW h \in Holding, h[2] = p
      PROVE  \E c : c \in Carriers(p)
  <2>1. CASE \E t \in Tracked : t[2].ptr = h[1] /\ t[2].finalizer = p
    <3>1. PICK t \in Tracked : t[2].finalizer = p
      BY <2>1
    <3>2. PICK i \in Slots(t[1]) : t[2] = areas[t[1]].allocations[i]
      BY <1>1 DEF Entries, Slots
    <3>3. i \in 1 .. MaxBlocks
      BY <1>1, <3>2, SlotsBounded DEF BlockInv
    <3>. DEFINE c == <<t[1], i>>
    <3>4. c \in OpenAreas \X (1 .. MaxBlocks) /\ c[1] = t[1] /\ c[2] = i
      BY <1>1, <3>3
    <3>. HIDE DEF c
    <3>. QED  BY <3>1, <3>2, <3>4 DEF Carriers
  <2>2. CASE heap[h[1]].state = "boehm" /\ heap[h[1]].finalizer = p
    <3>1. h[1] \in Blocks
      BY DEF Holding
    <3>. QED  BY <2>2, <3>1 DEF Carriers
  <2>. QED  BY <1>4, <2>1, <2>2 DEF Holding
<1>. QED  BY <1>3, <1>4

(* ... and there is at most one. *)
LEMMA OneCarrier ==
  ASSUME BlockInv, FinalizerInv, NEW p \in 1 .. MaxBlocks
  PROVE  \A c, d \in Carriers(p) : c = d
<1>. SUFFICES ASSUME NEW c \in Carriers(p), NEW d \in Carriers(p)
              PROVE  c = d
  OBVIOUS
<1>1. PICK g \in Holding :
        /\ g[2] = p
        /\ \/ c = <<NULL, g[1]>> /\ heap[g[1]].state = "boehm"
           \/ /\ c = <<c[1], c[2]>> /\ c[1] \in OpenAreas /\ c[2] \in Slots(c[1])
              /\ Ptr(c[1], c[2]) = g[1]
  BY CarrierHolds
<1>2. PICK h \in Holding :
        /\ h[2] = p
        /\ \/ d = <<NULL, h[1]>> /\ heap[h[1]].state = "boehm"
           \/ /\ d = <<d[1], d[2]>> /\ d[1] \in OpenAreas /\ d[2] \in Slots(d[1])
              /\ Ptr(d[1], d[2]) = h[1]
  BY CarrierHolds
<1>3. g[1] = h[1]
  BY <1>1, <1>2 DEF FinalizerInv
<1>4. \A a \in OpenAreas : \A i \in Slots(a) : heap[Ptr(a, i)].state # "boehm"
  BY DEF BlockInv, Owned, TrackedIsMalloc
<1>5. \A a, b \in OpenAreas : \A i \in Slots(a), j \in Slots(b) :
        Ptr(a, i) = Ptr(b, j) => a = b /\ i = j
  BY DEF BlockInv, Owned, UniqueOwner
<1>6. CASE c = <<NULL, g[1]>> /\ heap[g[1]].state = "boehm"
  <2>1. d = <<NULL, h[1]>>
    BY <1>2, <1>3, <1>4, <1>6
  <2>. QED  BY <1>3, <1>6, <2>1
<1>7. CASE /\ c = <<c[1], c[2]>> /\ c[1] \in OpenAreas /\ c[2] \in Slots(c[1])
           /\ Ptr(c[1], c[2]) = g[1]
  <2>1. /\ d = <<d[1], d[2]>> /\ d[1] \in OpenAreas /\ d[2] \in Slots(d[1])
        /\ Ptr(d[1], d[2]) = g[1]
    BY <1>2, <1>3, <1>4, <1>7
  <2>2. c[1] = d[1] /\ c[2] = d[2]
    BY <1>5, <1>7, <2>1
  <2>. QED  BY <1>7, <2>1, <2>2
<1>. QED  BY <1>1, <1>6, <1>7

LEMMA CarriersCounted ==
  ASSUME BlockInv, FinalizerInv, KeptInv
  PROVE  FinalizerKept
<1>. SUFFICES ASSUME NEW p \in 1 .. MaxBlocks
              PROVE  Cardinality(Carriers(p)) = IF finalized[p] = "pending" THEN 1 ELSE 0
  BY DEF FinalizerKept
<1>. DEFINE C == Carriers(p)
<1>1. \A c, d \in C : c = d
  BY OneCarrier
<1>2. CASE finalized[p] = "pending"
  <2>1. C # {}
    BY <1>2, CarrierHolds DEF KeptInv
  <2>2. PICK c : c \in C
    BY <2>1
  <2>3. C = {c}
    BY <1>1, <2>2
  <2>4. Cardinality({c}) = 1
    BY FS_Singleton
  <2>. HIDE DEF C
  <2>5. Cardinality(C) = 1
    BY <2>3, <2>4
  <2>. QED  BY <1>2, <2>5 DEF C
<1>3. CASE finalized[p] # "pending"
  <2>1. \A c : c \notin C
    BY <1>3, CarrierHolds DEF FinalizerInv
  <2>. HIDE DEF C
  <2>2. C = {}
    BY <2>1
  <2>3. Cardinality(C) = 0
    BY <2>2, FS_EmptySet
  <2>. QED  BY <1>3, <2>3 DEF C
<1>. QED  BY <1>2, <1>3

(* A finalizer registered with a block keeps exactly one place that will   *)
(* run it until it runs, and none afterwards, through resizing (gc.c:388), *)
(* escapes and whatever fails. The assumptions are those of                *)
(* NothingLeaksAnyOrder: a lost block loses its finalizer with it.         *)
THEOREM FinalizerKeptAnyOrder ==
  ASSUME "tracking" \notin Failing, 0 \notin Sizes
  PROVE  AnyOrderSpec => []FinalizerKept
<1>1. Init => BlockInv /\ FinalizerInv /\ KeptInv
  BY InitBlock, InitFinalizers, InitKept
<1>2. BlockInv /\ FinalizerInv /\ KeptInv /\ [AnyOrderNext]_vars
        => (BlockInv /\ FinalizerInv /\ KeptInv)'
  <2>1. ASSUME BlockInv, FinalizerInv, KeptInv, AnyOrderNext
        PROVE  (BlockInv /\ FinalizerInv /\ KeptInv)'
    <3>1. BlockStep /\ BlockInv'
      BY <2>1, NextBlock
    <3>. QED  BY <2>1, <3>1, BlockStepFinalizers, BlockStepKept
  <2>. QED  BY <2>1, StutterBlock, StutterFinalizers, StutterKept
<1>3. BlockInv /\ FinalizerInv /\ KeptInv => FinalizerKept
  BY CarriersCounted
<1>. QED  BY <1>1, <1>2, <1>3, PTL DEF AnyOrderSpec

-----------------------------------------------------------------------------
(* What the write barrier lets through. *)

(* An area and the areas around it. *)
Around(a) == ToSet(Lineage(a))

(* Of two areas on a chain, one is around the other. *)
Nested == \A c \in AreaIds : \A a, b \in Around(c) : a \in Around(b) \/ b \in Around(a)

(* The value is tracked in an area around that of its container.           *)
Inward(p, q) ==
  \E t, u \in Tracked : t[2].ptr = p /\ u[2].ptr = q /\ u[1] \in Around(t[1])

(* The value is not tracked: the collector's, or of no area and never to   *)
(* be freed.                                                               *)
Outward(p, q) ==
  /\ Untracked(q)
  /\ \/ heap[q].state \in {"malloc", "boehm"}
     \/ heap[p].state = "malloc" /\ heap[q].state = "collected"

(* What TrustedReferencesHold needs to be inductive for clients that end   *)
(* the innermost area first: the value of a trusted reference is in an     *)
(* area around that of its container, and so outlives it, or in no area.   *)
TrustInv == \A r \in trusted : Live(r[1]) => Inward(r[1], r[2]) \/ Outward(r[1], r[2])

LEMMA AroundArea ==
  TypeOK /\ ParentsOK =>
    /\ \A a \in AreaIds : /\ a \in Around(a)
                          /\ Around(a) \subseteq AreaIds
                          /\ \A b \in Around(a) : b <= a
                          /\ Parent(a) \in {NULL} \cup AreaIds /\ Parent(a) < a
                          /\ Around(a) = {a} \cup Around(Parent(a))
    /\ Around(NULL) = {}
<1>. SUFFICES ASSUME TypeOK, ParentsOK
              PROVE  /\ \A a \in AreaIds : /\ a \in Around(a)
                                           /\ Around(a) \subseteq AreaIds
                                           /\ \A b \in Around(a) : b <= a
                                           /\ Parent(a) \in {NULL} \cup AreaIds /\ Parent(a) < a
                                           /\ Around(a) = {a} \cup Around(Parent(a))
                     /\ Around(NULL) = {}
  OBVIOUS
<1>1. Around(NULL) = {}
  <2>1. <<>> \in Seq(AreaIds) /\ Len(<<>>) = 0
    BY EmptySeq
  <2>. QED  BY <2>1 DEF Around, Lineage, ToSet
<1>2. ASSUME NEW a \in AreaIds
      PROVE  /\ a \in Around(a)
             /\ Around(a) \subseteq AreaIds
             /\ \A b \in Around(a) : b <= a
             /\ Parent(a) \in {NULL} \cup AreaIds /\ Parent(a) < a
             /\ Around(a) = {a} \cup Around(Parent(a))
  <2>. DEFINE chain == Lineage(a)
  <2>1. /\ chain = areas[a].lineage
        /\ chain \in Seq(AreaIds)
        /\ Len(chain) \in Nat \ {0}
        /\ chain[1] = a
        /\ \A i \in 2 .. Len(chain) : chain[i] < a
    BY LineageProperties DEF TypeOK
  <2>2. Len(areas) \in Nat /\ a \in Nat \ {0} /\ Parent(a) \in 0 .. Len(areas)
    BY AreasFunction, ParentProperties DEF TypeOK, AreaIds
  <2>3. Parent(a) = IF Len(chain) > 1 THEN chain[2] ELSE NULL
    BY <2>1 DEF Parent
  <2>4. Around(a) = {chain[i] : i \in 1 .. Len(chain)}
    BY <2>1 DEF Around, ToSet
  <2>. HIDE DEF chain
  <2>5. 1 \in 1 .. Len(chain) /\ \A i \in 1 .. Len(chain) : i = 1 \/ i \in 2 .. Len(chain)
    BY <2>1
  <2>6. a \in Around(a) /\ \A b \in Around(a) : b <= a
    <3>1. \A i \in 1 .. Len(chain) : chain[i] \in AreaIds
      BY <2>1, ElementOfSeq
    <3>2. \A i \in 1 .. Len(chain) : chain[i] <= a
      BY <2>1, <2>2, <2>5, <3>1 DEF AreaIds
    <3>. QED  BY <2>1, <2>4, <2>5, <3>2
  <2>7. Around(a) \subseteq AreaIds
    BY <2>1, <2>4, ElementOfSeq
  <2>8. Parent(a) \in {NULL} \cup AreaIds /\ Parent(a) < a
    BY <2>1, <2>2, <2>3 DEF NULL, AreaIds
  <2>9. Around(Parent(a)) = Around(a) \ {a}
    BY PoppedChain DEF Around
  <2>. QED  BY <2>6, <2>7, <2>8, <2>9
<1>. QED  BY <1>1, <1>2

LEMMA AroundAreaNext ==
  (TypeOK /\ ParentsOK =>
    /\ \A a \in AreaIds : /\ a \in Around(a)
                          /\ Around(a) \subseteq AreaIds
                          /\ \A b \in Around(a) : b <= a
                          /\ Parent(a) \in {NULL} \cup AreaIds /\ Parent(a) < a
                          /\ Around(a) = {a} \cup Around(Parent(a))
    /\ Around(NULL) = {})'
BY AroundArea, PTL

(* No step changes the areas around an area, and no area ends before one   *)
(* that it is around.                                                      *)
LEMMA NextAreas ==
  ASSUME TypeOK, ChainInv, Next
  PROVE  /\ Len(areas') \in {Len(areas), Len(areas) + 1}
         /\ \A a \in AreaIds : Around(a)' = Around(a)
         /\ \A a, b \in OpenAreas : b \in Around(a) /\ a \in OpenAreas' => b \in OpenAreas'
<1>1. /\ areas \in [AreaIds -> AreaRecord] /\ Len(areas) \in Nat /\ areas \in Seq(AreaRecord)
      /\ \A a \in AreaIds : a # NULL
  BY AreasFunction DEF TypeOK, AreasOK, AreaIds, NULL
<1>2. ASSUME Len(areas') \in {Len(areas), Len(areas) + 1},
             \A a \in AreaIds : areas'[a].lineage = areas[a].lineage
      PROVE  \A a \in AreaIds : Around(a)' = Around(a)
  BY <1>1, <1>2 DEF Around, Lineage
<1>3. ASSUME Len(areas') \in {Len(areas), Len(areas) + 1},
             \A a \in AreaIds : areas'[a].state = areas[a].state
      PROVE  \A a \in OpenAreas : a \in OpenAreas'
  BY <1>1, <1>3 DEF OpenAreas, AreaIds
<1>4. CASE ~EndCurrent /\ ~dragonstone_gc_begin_area /\ ~dragonstone_gc_shutdown
  <2>1. SameStates
    BY <1>4, QuietStep
  <2>. QED  BY <1>2, <1>3, <2>1 DEF SameStates
<1>5. CASE dragonstone_gc_begin_area
  <2>1. PICK area : areas' = Append(areas, area) \/ areas' = areas
    BY <1>5 DEF dragonstone_gc_begin_area
  <2>2. CASE areas' = Append(areas, area)
    <3>1. /\ \A e : Len(Append(areas, e)) = Len(areas) + 1
          /\ \A e : \A b \in 1 .. Len(areas) : Append(areas, e)[b] = areas[b]
      BY <1>1
    <3>2. Len(areas') = Len(areas) + 1 /\ \A b \in AreaIds : areas'[b] = areas[b]
      BY <2>2, <3>1 DEF AreaIds
    <3>. QED  BY <1>2, <1>3, <3>2
  <2>3. CASE areas' = areas
    BY <1>2, <1>3, <2>3
  <2>. QED  BY <2>1, <2>2, <2>3
<1>6. CASE EndCurrent
  <2>. DEFINE c == gc.current_area
  <2>1. c \in AreaIds /\ areas' = [areas EXCEPT ![c] = Ended(areas[c])]
    BY <1>1, <1>6 DEF EndCurrent, dragonstone_gc_end_area, TypeOK, ManagerOK, NULL, AreaIds
  <2>2. Ended(areas[c]).lineage = areas[c].lineage /\ Ended(areas[c]).state = "ended"
    BY <1>1, <2>1, EndedProperties
  <2>3. OpenAreas = Around(c)
    BY DEF ChainInv, ChainIsOpenAreas, Around
  <2>. HIDE DEF c
  <2>4. /\ AreaIds' = AreaIds /\ Len(areas') = Len(areas)
        /\ areas'[c] = Ended(areas[c])
        /\ \A b \in AreaIds \ {c} : areas'[b] = areas[b]
    <3>1. Len(areas') = Len(areas)
      BY <1>1, <2>1 DEF AreaIds
    <3>. QED  BY <1>1, <2>1, <3>1 DEF AreaIds
  <2>5. OpenAreas' = OpenAreas \ {c}
    BY <2>2, <2>4 DEF OpenAreas
  <2>6. ASSUME NEW a \in OpenAreas, c \in Around(a)
        PROVE  a = c
    <3>1. c <= a /\ a <= c /\ a \in Nat /\ c \in Nat
      BY <2>1, <2>3, <2>6, AroundArea DEF OpenAreas, AreaIds, ChainInv
    <3>. QED  BY <3>1
  <2>. QED  BY <1>2, <2>2, <2>4, <2>5, <2>6
<1>7. CASE dragonstone_gc_shutdown
  <2>. DEFINE chain == ToSet(Lineage(gc.current_area))
  <2>1. areas' = [a \in AreaIds |-> IF a \in chain THEN Ended(areas[a]) ELSE areas[a]]
    BY <1>7 DEF dragonstone_gc_shutdown
  <2>2. chain = OpenAreas
    BY DEF ChainInv, ChainIsOpenAreas
  <2>. HIDE DEF chain
  <2>3. \A a \in AreaIds : Ended(areas[a]).state = "ended" /\ Ended(areas[a]).lineage = areas[a].lineage
    BY <1>1, EndedProperties
  <2>4. Len(areas') = Len(areas) /\ AreaIds' = AreaIds
    <3>1. Len(areas') = Len(areas)
      BY <1>1, <2>1 DEF AreaIds
    <3>. QED  BY <3>1 DEF AreaIds
  <2>5. /\ \A a \in AreaIds : areas'[a].lineage = areas[a].lineage
        /\ OpenAreas' = {}
    BY <2>1, <2>2, <2>3, <2>4 DEF OpenAreas
  <2>. QED  BY <1>2, <2>4, <2>5
<1>. QED  BY <1>4, <1>5, <1>6, <1>7

LEMMA NextNested ==
  ASSUME TypeOK, ChainInv, Next, TypeOK', ParentsOK', Nested
  PROVE  Nested'
<1>. SUFFICES ASSUME NEW c \in AreaIds', NEW a \in Around(c)', NEW b \in Around(c)'
              PROVE  a \in Around(b)' \/ b \in Around(a)'
  BY DEF Nested
<1>1. /\ Len(areas) \in Nat /\ Len(areas') \in {Len(areas), Len(areas) + 1}
      /\ \A d \in AreaIds : Around(d)' = Around(d)
  BY AreasFunction, NextAreas DEF TypeOK
<1>2. c \in AreaIds \/ c = Len(areas) + 1
  BY <1>1 DEF AreaIds
<1>3. ASSUME NEW d \in AreaIds, a \in Around(d), b \in Around(d)
      PROVE  a \in Around(b)' \/ b \in Around(a)'
  <2>1. a \in AreaIds /\ b \in AreaIds
    BY <1>3, AroundArea DEF ChainInv
  <2>. QED  BY <1>1, <1>3, <2>1 DEF Nested
<1>4. CASE c = Len(areas) + 1
  <2>1. /\ Parent(c)' \in {NULL} \cup AreaIds' /\ Parent(c)' < c
        /\ Around(c)' = {c} \cup Around(Parent(c))'
        /\ Around(NULL)' = {}
    BY AroundAreaNext
  <2>2. Parent(c)' \in {NULL} \cup AreaIds
    BY <1>1, <1>4, <2>1 DEF AreaIds
  <2>3. CASE a = c \/ b = c
    BY <2>3
  <2>4. CASE a # c /\ b # c
    <3>1. Parent(c)' \in AreaIds /\ a \in Around(Parent(c))' /\ b \in Around(Parent(c))'
      BY <2>1, <2>2, <2>4
    <3>. QED  BY <1>1, <1>3, <3>1
  <2>. QED  BY <2>3, <2>4
<1>. QED  BY <1>1, <1>2, <1>3, <1>4

(* The barrier stays silent only when the value's area is around the       *)
(* container's, or is the container's, or when the value is in none.       *)
LEMMA BarrierTrust ==
  ASSUME TypeOK, ChainInv, Nested, NEW p \in Blocks, NEW q \in Blocks,
         dragonstone_gc_write_barrier(p, q)
  PROVE  Inward(p, q) \/ Outward(p, q)
<1>. DEFINE a == FindArea(p)
            b == FindArea(q)
            c == gc.current_area
<1>1. CASE b = NULL
  <2>1. ASSUME NEW t \in Tracked, t[2].ptr = q
        PROVE  FALSE
    <3>1. t[1] \in OpenAreas
      BY DEF Tracked
    <3>2. Tracks(t[1], q)
      BY <2>1, <3>1, TracksTracked
    <3>. QED  BY <1>1, <3>1, <3>2, FoundOnChain DEF ChainInv
  <2>2. heap[q].state \in {"malloc", "boehm"}
    BY DEF dragonstone_gc_write_barrier, Live
  <2>. QED  BY <2>1, <2>2 DEF Outward, Untracked
<1>2. CASE b # NULL
  <2>1. /\ ChainOpen
        /\ a = b \/ (a # NULL /\ ~IsAncestor(a, b))
    BY <1>2 DEF dragonstone_gc_write_barrier, Warned
  <2>2. a # NULL
    BY <1>2, <2>1
  <2>3. /\ a \in OpenAreas /\ Tracks(a, p)
        /\ b \in OpenAreas /\ Tracks(b, q)
    BY <1>2, <2>1, <2>2, FoundProperties, FindAreaProperties DEF TypeOK
  <2>4. a \in Around(c) /\ b \in Around(c)
    BY <2>3 DEF ChainInv, ChainIsOpenAreas, Around
  <2>5. c \in AreaIds
    <3>1. c # NULL
      BY <2>4, AroundArea DEF ChainInv
    <3>. QED  BY <3>1, AreasFunction DEF TypeOK, ManagerOK, NULL, AreaIds
  <2>. HIDE DEF a, b, c
  <2>6. b \in Around(a)
    <3>1. CASE a = b
      BY <2>3, <3>1, AroundArea DEF OpenAreas, ChainInv
    <3>2. CASE a # b
      <4>1. b \in AreaIds /\ ~IsAncestor(a, b)
        BY <2>1, <2>3, <3>2 DEF OpenAreas
      <4>2. /\ Lineage(b) \in Seq(AreaIds) /\ Lineage(b)[1] = b
            /\ Len(Lineage(b)) \in Nat
        BY <4>1, LineageProperties DEF TypeOK
      <4>3. \A i \in 1 .. Len(Lineage(b)) : i = 1 \/ i \in 2 .. Len(Lineage(b))
        BY <4>2
      <4>4. a \notin Around(b)
        BY <3>2, <4>1, <4>2, <4>3 DEF IsAncestor, Around, ToSet
      <4>. QED  BY <2>4, <2>5, <4>4 DEF Nested
    <3>. QED  BY <3>1, <3>2
  <2>7. PICK t \in Tracked : t[1] = a /\ t[2].ptr = p
    BY <2>3, TracksTracked
  <2>8. PICK u \in Tracked : u[1] = b /\ u[2].ptr = q
    BY <2>3, TracksTracked
  <2>. QED  BY <2>6, <2>7, <2>8 DEF Inward
<1>. QED  BY <1>1, <1>2

(* A value that is tracked stays around its container, as long as the      *)
(* container lives and neither moves.                                      *)
LEMMA InwardStep ==
  ASSUME BlockInv, ChainInv, Next, BlockStep, NEW r \in trusted, r \in trusted',
         Live(r[1])', Inward(r[1], r[2])
  PROVE  Inward(r[1], r[2])'
<1>1. /\ heap \in [Blocks -> BlockRecord]
      /\ \A t \in Tracked : t[1] \in OpenAreas /\ t[1] \in AreaIds
      /\ \A t \in Tracked' : t[1] \in OpenAreas'
      /\ r[1] \in Blocks /\ r[2] \in Blocks
  <2>1. \A t \in Tracked : t[1] \in OpenAreas
    BY DEF Tracked
  <2>2. \A t \in Tracked' : t[1] \in OpenAreas'
    BY DEF Tracked
  <2>. QED  BY <2>1, <2>2, HeapFunction DEF BlockInv, TypeOK, HistoryOK, OpenAreas
<1>2. /\ \A a \in AreaIds : Around(a)' = Around(a)
      /\ \A a, b \in OpenAreas : b \in Around(a) /\ a \in OpenAreas' => b \in OpenAreas'
  BY NextAreas DEF BlockInv
<1>3. PICK t \in Tracked, u \in Tracked :
        t[2].ptr = r[1] /\ u[2].ptr = r[2] /\ u[1] \in Around(t[1])
  BY DEF Inward
<1>4. ASSUME NEW v \in Tracked', v[1] = t[1], v[2].ptr = r[1],
             NEW w \in Tracked', w[1] = u[1], w[2].ptr = r[2]
      PROVE  Inward(r[1], r[2])'
  BY <1>1, <1>2, <1>3, <1>4 DEF Inward
<1>5. ASSUME NEW A, NEW S, Disposed(A, S)
      PROVE  Inward(r[1], r[2])'
  <2>1. t[1] \notin A
    <3>1. /\ [heap[r[1]] EXCEPT !.state = "collected"].state = "collected"
          /\ [heap[r[1]] EXCEPT !.state = "freed"].state = "freed"
      BY <1>1 DEF BlockRecord
    <3>2. t[1] \in A => heap'[r[1]].state \in {"collected", "freed"}
      BY <1>1, <1>3, <1>5, <3>1 DEF Disposed
    <3>. QED  BY <3>2 DEF Live
  <2>2. t \in Tracked'
    BY <1>5, <2>1 DEF Disposed
  <2>3. u \in Tracked'
    <3>1. u[1] \in OpenAreas'
      BY <1>1, <1>2, <1>3, <2>2
    <3>. QED  BY <1>5, <3>1 DEF Disposed
  <2>. QED  BY <1>3, <1>4, <2>2, <2>3
<1>6. ASSUME NEW S, NEW finalizer, Obtained(S, finalizer)
      PROVE  Inward(r[1], r[2])'
  <2>1. Tracked \subseteq Tracked'
    BY <1>6 DEF Obtained
  <2>. QED  BY <1>3, <1>4, <2>1
<1>7. ASSUME NEW x \in Tracked, Retracked(x) \/ Replaced(x), ForgetBlock(x[2].ptr)
      PROVE  Inward(r[1], r[2])'
  <2>1. x # t /\ x # u
    BY <1>3, <1>7 DEF ForgetBlock
  <2>2. t \in Tracked' /\ u \in Tracked'
    BY <1>7, <2>1 DEF Retracked, Replaced
  <2>. QED  BY <1>3, <1>4, <2>2
<1>8. ASSUME NEW x \in Tracked, NEW e \in Entry,
             e.ptr = x[2].ptr, Tracked' = (Tracked \ {x}) \cup {<<x[1], e>>}
      PROVE  Inward(r[1], r[2])'
  <2>1. ASSUME NEW y \in Tracked
        PROVE  \E v \in Tracked' : v[1] = y[1] /\ v[2].ptr = y[2].ptr
    <3>1. CASE y # x
      BY <1>8, <3>1
    <3>2. CASE y = x
      <4>1. <<x[1], e>>[1] = x[1] /\ <<x[1], e>>[2] = e /\ <<x[1], e>> \in Tracked'
        BY <1>8
      <4>. QED  BY <1>8, <3>2, <4>1
    <3>. QED  BY <3>1, <3>2
  <2>2. PICK v \in Tracked' : v[1] = t[1] /\ v[2].ptr = t[2].ptr
    BY <2>1
  <2>3. PICK w \in Tracked' : w[1] = u[1] /\ w[2].ptr = u[2].ptr
    BY <2>1
  <2>. QED  BY <1>3, <1>4, <2>2, <2>3
<1>9. ASSUME NEW x \in Tracked, Retracked(x) \/ Replaced(x)
      PROVE  Inward(r[1], r[2])'
  BY <1>7, <1>8, <1>9 DEF Retracked, Replaced
<1>. QED  BY <1>5, <1>6, <1>9 DEF BlockStep

(* A value that is not tracked is never freed, and collected only when its *)
(* container is memory from malloc: a collection that reclaims the value   *)
(* of a collector's block reclaims the block as well.                      *)
LEMMA OutwardStep ==
  ASSUME BlockInv, BlockStep, NEW r \in trusted, r \in trusted',
         Live(r[1])', Outward(r[1], r[2])
  PROVE  Outward(r[1], r[2])'
<1>. DEFINE p == r[1]
            q == r[2]
<1>1. /\ Len(heap) \in Nat /\ heap \in [Blocks -> BlockRecord]
      /\ p \in Blocks /\ q \in Blocks
      /\ Len(heap) + 1 \notin Blocks
  BY HeapFunction DEF BlockInv, TypeOK, HistoryOK, Blocks
<1>2. /\ Untracked(q) /\ heap'[p].state \in {"malloc", "boehm"}
      /\ \/ heap[q].state \in {"malloc", "boehm"}
         \/ heap[p].state = "malloc" /\ heap[q].state = "collected"
  BY DEF Outward, Live
<1>3. \A b \in Blocks : /\ [heap[b] EXCEPT !.state = "collected"].state = "collected"
                        /\ [heap[b] EXCEPT !.state = "freed"].state = "freed"
  BY <1>1 DEF BlockRecord
<1>. HIDE DEF p, q
<1>4. ASSUME Untracked(q)', heap'[p] = heap[p], heap'[q] = heap[q]
      PROVE  Outward(p, q)'
  BY <1>2, <1>4 DEF Outward
<1>5. ASSUME NEW S \in {{}} \cup Reclaimable, Untracked(q)', heap'[p] = heap[p],
             heap'[q] = [heap[q] EXCEPT !.state = "collected"], q \in S, p \notin S
      PROVE  Outward(p, q)'
  <2>1. heap[p].state # "boehm"
    BY <1>5 DEF Reclaimable, p, q
  <2>2. heap'[p].state = "malloc" /\ heap'[q].state = "collected"
    BY <1>1, <1>2, <1>3, <1>5, <2>1
  <2>. QED  BY <1>5, <2>2 DEF Outward
<1>6. ASSUME NEW A, NEW S, Disposed(A, S)
      PROVE  Outward(p, q)'
  <2>1. Untracked(q)'
    BY <1>2, <1>6 DEF Disposed, Untracked
  <2>2. p \notin S /\ heap'[p] = heap[p]
    BY <1>1, <1>2, <1>3, <1>6 DEF Disposed
  <2>3. heap'[q] = IF q \in S THEN [heap[q] EXCEPT !.state = "collected"] ELSE heap[q]
    BY <1>1, <1>2, <1>6 DEF Disposed, Untracked
  <2>4. S \in {{}} \cup Reclaimable
    BY <1>6 DEF Disposed
  <2>. QED  BY <1>4, <1>5, <2>1, <2>2, <2>3, <2>4
<1>7. ASSUME NEW S, NEW finalizer, Obtained(S, finalizer)
      PROVE  Outward(p, q)'
  <2>1. Untracked(q)'
    <3>1. ASSUME NEW a, NEW e, e.ptr = Len(heap) + 1, Tracked' = Tracked \cup {<<a, e>>}
          PROVE  Untracked(q)'
      <4>1. <<a, e>>[2].ptr # q
        BY <1>1, <3>1
      <4>. QED  BY <1>2, <3>1, <4>1 DEF Untracked
    <3>2. Tracked' = Tracked => Untracked(q)'
      BY <1>2 DEF Untracked
    <3>. QED  BY <1>7, <3>1, <3>2 DEF Obtained
  <2>2. /\ S \in {{}} \cup Reclaimable
        /\ \A b \in Blocks :
             heap'[b] = IF b \in S THEN [heap[b] EXCEPT !.state = "collected"] ELSE heap[b]
    BY <1>7 DEF Obtained
  <2>3. p \notin S /\ heap'[p] = heap[p]
    BY <1>1, <1>2, <1>3, <2>2
  <2>. QED  BY <1>1, <1>4, <1>5, <2>1, <2>2, <2>3
<1>8. ASSUME NEW t \in Tracked, Retracked(t)
      PROVE  Outward(p, q)'
  <2>1. t[2].ptr # q
    BY <1>2 DEF Untracked
  <2>2. Untracked(q)'
    <3>1. ASSUME NEW a, NEW e, e.ptr = t[2].ptr, Tracked' = (Tracked \ {t}) \cup {<<a, e>>}
          PROVE  Untracked(q)'
      <4>1. <<a, e>>[2].ptr # q
        BY <2>1, <3>1
      <4>. QED  BY <1>2, <3>1, <4>1 DEF Untracked
    <3>2. Tracked' = Tracked \ {t} => Untracked(q)'
      BY <1>2 DEF Untracked
    <3>. QED  BY <1>8, <3>1, <3>2 DEF Retracked
  <2>3. heap' = heap
    BY <1>8 DEF Retracked
  <2>. QED  BY <1>4, <2>2, <2>3
<1>9. ASSUME NEW t \in Tracked, Replaced(t)
      PROVE  Outward(p, q)'
  <2>1. t[2].ptr # p /\ t[2].ptr # q
    BY <1>9 DEF Replaced, ForgetBlock, p, q
  <2>2. Untracked(q)'
    <3>1. ASSUME NEW a, NEW e, e.ptr = Len(heap) + 1, Tracked' = (Tracked \ {t}) \cup {<<a, e>>}
          PROVE  Untracked(q)'
      <4>1. <<a, e>>[2].ptr # q
        BY <1>1, <3>1
      <4>. QED  BY <1>2, <3>1, <4>1 DEF Untracked
    <3>2. Tracked' = Tracked \ {t} => Untracked(q)'
      BY <1>2 DEF Untracked
    <3>. QED  BY <1>9, <3>1, <3>2 DEF Replaced
  <2>3. heap'[p] = heap[p] /\ heap'[q] = heap[q]
    BY <1>1, <1>9, <2>1 DEF Replaced
  <2>. QED  BY <1>4, <2>2, <2>3
<1>10. Outward(p, q)'
  BY <1>6, <1>7, <1>8, <1>9 DEF BlockStep
<1>. QED  BY <1>10 DEF p, q

(* What lives after a step lived before it, if it was there.               *)
LEMMA LivedBefore ==
  ASSUME BlockInv, BlockStep, NEW p \in Blocks, Live(p)'
  PROVE  Live(p)
<1>1. Len(heap) \in Nat /\ heap[p] \in BlockRecord
  BY HeapFunction DEF BlockInv, TypeOK
<1>2. /\ [heap[p] EXCEPT !.state = "collected"].state = "collected"
      /\ [heap[p] EXCEPT !.state = "freed"].state = "freed"
  BY <1>1 DEF BlockRecord
<1>3. ASSUME heap'[p] = heap[p]
      PROVE  Live(p)
  BY <1>3 DEF Live
<1>4. ASSUME NEW A, NEW S, Disposed(A, S)
      PROVE  Live(p)
  BY <1>2, <1>3, <1>4 DEF Disposed, Live
<1>5. ASSUME NEW S, NEW finalizer, Obtained(S, finalizer)
      PROVE  Live(p)
  BY <1>2, <1>3, <1>5 DEF Obtained, Live
<1>6. ASSUME NEW t \in Tracked, Retracked(t) \/ Replaced(t)
      PROVE  Live(p)
  BY <1>2, <1>3, <1>6 DEF Retracked, Replaced, Live
<1>. QED  BY <1>4, <1>5, <1>6 DEF BlockStep

LEMMA BlockStepTrust ==
  ASSUME BlockInv, ChainInv, Nested, TrustInv, Next, BlockStep
  PROVE  TrustInv'
<1>. SUFFICES ASSUME NEW r \in trusted', Live(r[1])'
              PROVE  Inward(r[1], r[2])' \/ Outward(r[1], r[2])'
  BY DEF TrustInv
<1>1. CASE r \in trusted
  <2>1. r[1] \in Blocks
    BY <1>1 DEF BlockInv, TypeOK, HistoryOK
  <2>2. Live(r[1])
    BY <2>1, LivedBefore
  <2>. QED  BY <1>1, <2>2, InwardStep, OutwardStep DEF TrustInv
<1>2. CASE r \notin trusted
  <2>1. PICK p \in Blocks, q \in Blocks : dragonstone_gc_write_barrier(p, q) /\ Disposed({}, {})
    BY <1>2 DEF BlockStep, Obtained, Retracked, Replaced, ForgetBlock
  <2>2. r = <<p, q>> /\ r[1] = p /\ r[2] = q /\ heap' = heap /\ areas' = areas
    BY <1>2, <2>1 DEF dragonstone_gc_write_barrier
  <2>3. Tracked' = Tracked /\ \A a : Around(a)' = Around(a)
    BY <2>2, SameTracked DEF Around, Lineage
  <2>4. Inward(p, q) \/ Outward(p, q)
    BY <2>1, BarrierTrust DEF BlockInv
  <2>. QED  BY <2>2, <2>3, <2>4 DEF Inward, Outward, Untracked
<1>. QED  BY <1>1, <1>2

LEMMA InitTrust == Init => Nested /\ TrustInv
<1>. SUFFICES ASSUME Init PROVE Nested /\ TrustInv
  OBVIOUS
<1>1. Len(areas) = 0 /\ trusted = {}
  BY EmptySeq DEF Init
<1>. QED  BY <1>1 DEF Nested, TrustInv, AreaIds

LEMMA StutterTrust ==
  ASSUME Nested, TrustInv, UNCHANGED vars
  PROVE  Nested' /\ TrustInv'
<1>1. \A a : Around(a)' = Around(a)
  BY DEF Around, Lineage, vars
<1>2. Tracked' = Tracked
  BY StutterTracked
<1>. QED  BY <1>1, <1>2 DEF Nested, TrustInv, Inward, Outward, Untracked, AreaIds, Live, vars

LEMMA TrustMeans ==
  ASSUME BlockInv, TrustInv
  PROVE  TrustedReferencesHold
<1>1. \A u \in Tracked : heap[u[2].ptr].state = "malloc"
  BY TrackedFacts DEF BlockInv
<1>. QED  BY <1>1 DEF TrustInv, Inward, Outward, TrustedReferencesHold, Live

(* What the write barrier lets through in silence (gc.c:724), the          *)
(* collector's values in containers of areas included, dangles in one way  *)
(* only, when areas end innermost first and neither block moves: such a    *)
(* value is collected, for the collector does not scan what malloc         *)
(* returned. No other value is gone before its container, whichever areas  *)
(* end, blocks escape or collections run in between. Nothing is assumed of *)
(* what may fail.                                                          *)
THEOREM TrustedReferencesHoldLifo == Spec => []TrustedReferencesHold
<1>1. Init => BlockInv /\ ChainInv /\ Nested /\ TrustInv
  BY InitBlock, InitChain, InitTrust
<1>2. BlockInv /\ ChainInv /\ Nested /\ TrustInv /\ [Next]_vars
        => (BlockInv /\ ChainInv /\ Nested /\ TrustInv)'
  <2>1. ASSUME BlockInv, ChainInv, Nested, TrustInv, Next
        PROVE  (BlockInv /\ ChainInv /\ Nested /\ TrustInv)'
    <3>1. BlockStep /\ BlockInv'
      BY <2>1, NextBlock DEF AnyOrderNext
    <3>2. ChainInv'
      BY <2>1, NextChain DEF BlockInv
    <3>3. Nested'
      BY <2>1, <3>1, <3>2, NextNested DEF BlockInv, ChainInv
    <3>. QED  BY <2>1, <3>1, <3>2, <3>3, BlockStepTrust
  <2>. QED  BY <2>1, StutterBlock, StutterChain, StutterTrust
<1>3. BlockInv /\ TrustInv => TrustedReferencesHold
  BY TrustMeans
<1>. QED  BY <1>1, <1>2, <1>3, PTL DEF Spec

-----------------------------------------------------------------------------
(* The byte counts: an area's own count is the sum of what it tracks, and *)
(* the manager never reports more freed than allocated. Sums over         *)
(* sequences are defined by recursive functions; the lemmas about them     *)
(* come first.                                                             *)

(* The partial sums of a sequence of numbers. *)
Sums(s) ==
  {f \in [0 .. Len(s) -> Int] :
     f[0] = 0 /\ \A k \in 1 .. Len(s) : f[k] = f[k - 1] + s[k]}

(* What holds of 0, and of k + 1 when it does of k, holds up to n. *)
LEMMA Upwards ==
  ASSUME NEW n \in Nat, NEW T, 0 \in T, \A k \in 0 .. n - 1 : k \in T => k + 1 \in T
  PROVE  0 .. n \subseteq T
<1>. SUFFICES ASSUME ~(0 .. n \subseteq T) PROVE FALSE
  OBVIOUS
<1>. DEFINE missing == {k \in 0 .. n : k \notin T}
<1>1. PICK m \in missing : \A k \in missing : m <= k
  <2>1. missing \subseteq Nat /\ missing # {}
    OBVIOUS
  <2>. HIDE DEF missing
  <2>. QED  BY <2>1, LeastNatural
<1>2. m # 0 /\ m - 1 \in 0 .. n - 1 /\ m - 1 \notin missing
  BY <1>1
<1>. QED  BY <1>1, <1>2

(* Every sequence of integers has partial sums. *)
LEMMA SumsExist ==
  ASSUME NEW s \in Seq(Int)
  PROVE  Sums(s) # {}
<1>. DEFINE Upto(m) == {f \in [0 .. m -> Int] :
                          f[0] = 0 /\ \A k \in 1 .. m : f[k] = f[k - 1] + s[k]}
            T == {m \in 0 .. Len(s) : Upto(m) # {}}
<1>1. Len(s) \in Nat /\ \A k \in 1 .. Len(s) : s[k] \in Int
  BY LenProperties, ElementOfSeq
<1>2. 0 \in T
  <2>1. [k \in 0 .. 0 |-> 0] \in Upto(0)
    OBVIOUS
  <2>. QED  BY <1>1, <2>1
<1>3. ASSUME NEW m \in 0 .. Len(s) - 1, m \in T
      PROVE  m + 1 \in T
  <2>1. PICK f : f \in Upto(m)
    BY <1>3
  <2>. DEFINE g == [k \in 0 .. m + 1 |-> IF k = m + 1 THEN f[m] + s[m + 1] ELSE f[k]]
  <2>2. f \in [0 .. m -> Int] /\ f[0] = 0 /\ \A k \in 1 .. m : f[k] = f[k - 1] + s[k]
    BY <2>1
  <2>3. m \in Nat /\ s[m + 1] \in Int
    BY <1>1
  <2>4. g \in [0 .. m + 1 -> Int] /\ g[0] = 0
    BY <2>2, <2>3
  <2>5. \A k \in 1 .. m + 1 : g[k] = g[k - 1] + s[k]
    BY <2>2, <2>3
  <2>6. g \in Upto(m + 1)
    BY <2>4, <2>5
  <2>7. m + 1 \in 0 .. Len(s) /\ Upto(m + 1) # {}
    <3>. HIDE DEF Upto
    <3>. QED  BY <1>1, <2>6
  <2>. HIDE DEF Upto
  <2>. QED  BY <2>7
<1>4. 0 .. Len(s) \subseteq T
  <2>. HIDE DEF T
  <2>. QED  BY <1>1, <1>2, <1>3, Upwards
<1>5. Upto(Len(s)) # {}
  <2>1. Len(s) \in T
    <3>. HIDE DEF T
    <3>. QED  BY <1>1, <1>4
  <2>. HIDE DEF Upto
  <2>. QED  BY <2>1
<1>. QED  BY <1>5 DEF Sums

(* ... and the total is the last of them. *)
LEMMA TotalIsLast ==
  ASSUME NEW s \in Seq(Int), NEW f \in Sums(s)
  PROVE  Total(s) = f[Len(s)] /\ Total(s) \in Int
<1>. DEFINE Step(g) == [k \in 0 .. Len(s) |-> IF k = 0 THEN 0 ELSE g[k - 1] + s[k]]
            sum == CHOOSE g : g = Step(g)
<1>1. /\ Len(s) \in Nat
      /\ f \in [0 .. Len(s) -> Int] /\ f[0] = 0
      /\ \A k \in 1 .. Len(s) : f[k] = f[k - 1] + s[k]
  BY LenProperties DEF Sums
<1>2. f = Step(f)
  BY <1>1
<1>3. sum = Step(sum)
  BY <1>2, Zenon
<1>4. Total(s) = sum[Len(s)]
  BY Zenon DEF Total
<1>. HIDE DEF sum
<1>. DEFINE T == {k \in 0 .. Len(s) : sum[k] = f[k]}
<1>5. 0 \in T
  BY <1>1, <1>3
<1>6. ASSUME NEW k \in 0 .. Len(s) - 1, k \in T
      PROVE  k + 1 \in T
  BY <1>1, <1>3, <1>6
<1>7. 0 .. Len(s) \subseteq T
  <2>. HIDE DEF T
  <2>. QED  BY <1>1, <1>5, <1>6, Upwards
<1>8. Len(s) \in 0 .. Len(s)
  BY <1>1
<1>. QED  BY <1>1, <1>4, <1>7, <1>8

LEMMA TotalType ==
  ASSUME NEW s \in Seq(Int)
  PROVE  Total(s) \in Int
BY SumsExist, TotalIsLast

LEMMA TotalNothing == Total(<<>>) = 0
<1>1. <<>> \in Seq(Int) /\ Len(<<>>) = 0
  BY EmptySeq
<1>2. PICK f : f \in Sums(<<>>)
  BY <1>1, SumsExist
<1>3. f[0] = 0
  BY <1>2 DEF Sums
<1>. QED  BY <1>1, <1>2, <1>3, TotalIsLast

(* One number more, at the end or at the front. *)
LEMMA TotalAppended ==
  ASSUME NEW s \in Seq(Int), NEW t \in Seq(Int), NEW x \in Int, Len(t) = Len(s) + 1,
         \A k \in 1 .. Len(s) : t[k] = s[k], t[Len(s) + 1] = x
  PROVE  Total(t) = Total(s) + x
<1>. DEFINE n == Len(s)
<1>1. PICK f : f \in Sums(s)
  BY SumsExist
<1>2. /\ n \in Nat
      /\ f \in [0 .. n -> Int] /\ f[0] = 0
      /\ \A k \in 1 .. n : f[k] = f[k - 1] + s[k]
  BY <1>1, LenProperties DEF Sums
<1>. DEFINE g == [k \in 0 .. n + 1 |-> IF k = n + 1 THEN f[n] + x ELSE f[k]]
<1>3. g \in [0 .. n + 1 -> Int] /\ g[0] = 0
  <2>1. n \in 0 .. n /\ f[n] + x \in Int
    BY <1>2
  <2>2. \A k \in 0 .. n + 1 : k # n + 1 => k \in 0 .. n
    BY <1>2
  <2>. QED  BY <1>2, <2>1, <2>2
<1>4. \A k \in 1 .. n + 1 : g[k] = g[k - 1] + t[k]
  BY <1>2
<1>5. g[n + 1] = f[n] + x
  BY <1>2
<1>6. g \in Sums(t)
  BY <1>3, <1>4 DEF Sums
<1>7. Total(s) = f[n] /\ Total(t) = g[n + 1]
  BY <1>1, <1>6, TotalIsLast
<1>. QED  BY <1>5, <1>7

LEMMA TotalPrepended ==
  ASSUME NEW s \in Seq(Int), NEW t \in Seq(Int), NEW x \in Int, Len(t) = Len(s) + 1,
         \A k \in 1 .. Len(s) : t[k + 1] = s[k], t[1] = x
  PROVE  Total(t) = Total(s) + x
<1>. DEFINE n == Len(s)
<1>1. PICK f : f \in Sums(s)
  BY SumsExist
<1>2. /\ n \in Nat
      /\ f \in [0 .. n -> Int] /\ f[0] = 0
      /\ \A k \in 1 .. n : f[k] = f[k - 1] + s[k]
  BY <1>1, LenProperties DEF Sums
<1>. DEFINE g == [k \in 0 .. n + 1 |-> IF k = 0 THEN 0 ELSE f[k - 1] + x]
<1>3. g \in [0 .. n + 1 -> Int] /\ g[0] = 0
  <2>1. \A k \in 0 .. n + 1 : k # 0 => k - 1 \in 0 .. n
    BY <1>2
  <2>2. \A k \in 0 .. n : f[k] \in Int
    BY <1>2
  <2>. QED  BY <1>2, <2>1, <2>2
<1>4. ASSUME NEW k \in 1 .. n + 1
      PROVE  g[k] = g[k - 1] + t[k]
  <2>1. CASE k = 1
    BY <1>2, <2>1
  <2>2. CASE k # 1
    <3>1. PICK j \in 1 .. n : k = j + 1
      <4>1. k - 1 \in 1 .. n /\ k = (k - 1) + 1
        BY <1>2, <2>2
      <4>. QED  BY <4>1
    <3>2. t[k] = s[j] /\ g[k] = f[j] + x /\ g[k - 1] = f[j - 1] + x
      BY <1>2, <3>1
    <3>3. f[j] = f[j - 1] + s[j] /\ s[j] \in Int
      BY <1>2, ElementOfSeq
    <3>4. f[j - 1] \in Int
      <4>1. j - 1 \in 0 .. n
        BY <1>2
      <4>. QED  BY <1>2, <4>1
    <3>. QED  BY <3>2, <3>3, <3>4
  <2>. QED  BY <2>1, <2>2
<1>5. g[n + 1] = f[n] + x
  BY <1>2
<1>6. g \in Sums(t)
  BY <1>3, <1>4 DEF Sums
<1>7. Total(s) = f[n] /\ Total(t) = g[n + 1]
  BY <1>1, <1>6, TotalIsLast
<1>. QED  BY <1>5, <1>7

(* One number changed. *)
LEMMA TotalReplaced ==
  ASSUME NEW s \in Seq(Int), NEW t \in Seq(Int), NEW i \in 1 .. Len(s), Len(t) = Len(s),
         \A k \in 1 .. Len(s) : k # i => t[k] = s[k]
  PROVE  Total(t) = Total(s) - s[i] + t[i]
<1>. DEFINE n == Len(s)
<1>1. PICK f : f \in Sums(s)
  BY SumsExist
<1>2. /\ n \in Nat
      /\ f \in [0 .. n -> Int] /\ f[0] = 0
      /\ \A k \in 1 .. n : f[k] = f[k - 1] + s[k]
      /\ s[i] \in Int /\ t[i] \in Int
  BY <1>1, LenProperties, ElementOfSeq DEF Sums
<1>. DEFINE g == [k \in 0 .. n |-> IF k < i THEN f[k] ELSE f[k] - s[i] + t[i]]
<1>3. g \in [0 .. n -> Int] /\ g[0] = 0
  BY <1>2
<1>4. ASSUME NEW k \in 1 .. n
      PROVE  g[k] = g[k - 1] + t[k]
  <2>1. f[k] = f[k - 1] + s[k] /\ s[k] \in Int
    BY <1>2, ElementOfSeq
  <2>6. k \in 0 .. n /\ k - 1 \in 0 .. n
    BY <1>2
  <2>7. f[k] \in Int /\ f[k - 1] \in Int
    BY <1>2, <2>6
  <2>2. g[k] = (IF k < i THEN f[k] ELSE f[k] - s[i] + t[i])
    OBVIOUS
  <2>3. g[k - 1] = (IF k - 1 < i THEN f[k - 1] ELSE f[k - 1] - s[i] + t[i])
    BY <1>2
  <2>. HIDE DEF g
  <2>4. CASE k = i
    BY <1>2, <2>1, <2>2, <2>3, <2>4, <2>7
  <2>5. CASE k # i
    <3>1. t[k] = s[k]
      BY <2>5
    <3>2. CASE k < i
      <4>1. g[k] = f[k] /\ g[k - 1] = f[k - 1]
        BY <2>2, <2>3, <3>2
      <4>. QED  BY <2>1, <3>1, <4>1
    <3>3. CASE k > i
      <4>1. g[k] = f[k] - s[i] + t[i] /\ g[k - 1] = f[k - 1] - s[i] + t[i]
        BY <2>2, <2>3, <3>3
      <4>2. s[i] \in Int /\ t[i] \in Int
        BY <1>2
      <4>. QED  BY <2>1, <2>7, <3>1, <4>1, <4>2
    <3>. QED  BY <2>5, <3>2, <3>3
  <2>. QED  BY <2>4, <2>5
<1>5. g[n] = f[n] - s[i] + t[i]
  BY <1>2
<1>6. g \in Sums(t)
  BY <1>3, <1>4 DEF Sums
<1>7. Total(s) = f[n] /\ Total(t) = g[n]
  BY <1>1, <1>6, TotalIsLast
<1>. QED  BY <1>5, <1>7

(* One number removed, the last one taking its place. *)
LEMMA TotalRemoved ==
  ASSUME NEW s \in Seq(Int), NEW t \in Seq(Int), NEW i \in 1 .. Len(s), Len(t) = Len(s) - 1,
         \A k \in 1 .. Len(s) - 1 : t[k] = IF k = i THEN s[Len(s)] ELSE s[k]
  PROVE  Total(t) = Total(s) - s[i]
<1>. DEFINE n == Len(s)
            x == s[n]
            u == [k \in 1 .. n |-> IF k = i THEN x ELSE s[k]]
<1>1. n \in Nat /\ n >= 1 /\ x \in Int /\ s[i] \in Int /\ \A k \in 1 .. n : s[k] \in Int
  BY LenProperties, ElementOfSeq
<1>2. u \in Seq(Int) /\ Len(u) = n
  <2>1. u \in [1 .. n -> Int]
    BY <1>1
  <2>. QED  BY <1>1, <2>1, SegmentIsSeq
<1>3. Total(u) = Total(s) - s[i] + x
  <2>1. u[i] = x /\ \A k \in 1 .. n : k # i => u[k] = s[k]
    OBVIOUS
  <2>. HIDE DEF u
  <2>. QED  BY <1>2, <2>1, TotalReplaced
<1>4. Total(u) = Total(t) + x
  <2>1. \A k \in 1 .. Len(t) : u[k] = t[k]
    BY <1>1
  <2>2. u[Len(t) + 1] = x /\ Len(u) = Len(t) + 1
    BY <1>1, <1>2
  <2>. HIDE DEF u
  <2>. QED  BY <1>1, <1>2, <2>1, <2>2, TotalAppended
<1>5. Total(s) \in Int /\ Total(t) \in Int
  BY TotalType
<1>. DEFINE before == Total(s)
            after == Total(t)
            removed == s[i]
<1>6. /\ before \in Int /\ after \in Int /\ removed \in Int /\ x \in Int
      /\ before - removed + x = after + x
  BY <1>1, <1>3, <1>4, <1>5
<1>7. after = before - removed
  <2>. HIDE DEF before, after, removed, x
  <2>. QED  BY <1>6
<1>. QED  BY <1>7

-----------------------------------------------------------------------------
(* The bytes of a tracking array. *)

LEMMA SizesType ==
  ASSUME NEW A \in Seq(Entry)
  PROVE  /\ [i \in 1 .. Len(A) |-> A[i].size] \in Seq(Int)
         /\ Len([i \in 1 .. Len(A) |-> A[i].size]) = Len(A)
         /\ \A i \in 1 .. Len(A) : A[i].size \in Nat
<1>1. Len(A) \in Nat /\ \A i \in 1 .. Len(A) : A[i].size \in Nat
  <2>1. Len(A) \in Nat /\ \A i \in 1 .. Len(A) : A[i] \in Entry
    BY LenProperties, ElementOfSeq
  <2>. QED  BY <2>1 DEF Entry
<1>2. [i \in 1 .. Len(A) |-> A[i].size] \in [1 .. Len(A) -> Int]
  BY <1>1
<1>. QED  BY <1>1, <1>2, SegmentIsSeq

LEMMA SumType ==
  ASSUME NEW A \in Seq(Entry)
  PROVE  SumSizes(A) \in Int
BY SizesType, TotalType DEF SumSizes

LEMMA SumNothing == SumSizes(<<>>) = 0
<1>1. <<>> \in Seq(Entry) /\ Len(<<>>) = 0
  BY EmptySeq
<1>2. [i \in 1 .. Len(<<>>) |-> <<>>[i].size] = <<>>
  BY <1>1, SizesType, EmptySeq
<1>. QED  BY <1>2, TotalNothing DEF SumSizes

LEMMA SumAppended ==
  ASSUME NEW A \in Seq(Entry), NEW e \in Entry
  PROVE  SumSizes(Append(A, e)) = SumSizes(A) + e.size
<1>. DEFINE B == Append(A, e)
            s == [i \in 1 .. Len(A) |-> A[i].size]
            t == [i \in 1 .. Len(B) |-> B[i].size]
<1>1. /\ B \in Seq(Entry) /\ Len(B) = Len(A) + 1 /\ Len(A) \in Nat
      /\ \A k \in 1 .. Len(A) : B[k] = A[k]
      /\ B[Len(A) + 1] = e
  BY AppendProperties, LenProperties
<1>2. s \in Seq(Int) /\ Len(s) = Len(A)
  BY SizesType
<1>. HIDE DEF B
<1>3. t \in Seq(Int) /\ Len(t) = Len(B)
  BY <1>1, SizesType
<1>4. e.size \in Int
  BY DEF Entry
<1>5. (\A k \in 1 .. Len(A) : t[k] = s[k]) /\ t[Len(A) + 1] = e.size
  BY <1>1
<1>6. Total(s) = SumSizes(A) /\ Total(t) = SumSizes(B)
  BY DEF SumSizes
<1>. HIDE DEF s, t
<1>7. Total(t) = Total(s) + e.size
  BY <1>1, <1>2, <1>3, <1>4, <1>5, TotalAppended
<1>. QED  BY <1>6, <1>7 DEF B

LEMMA SumRemoved ==
  ASSUME NEW A \in Seq(Entry), NEW i \in 1 .. Len(A)
  PROVE  SumSizes(SwapRemove(A, i)) = SumSizes(A) - A[i].size
<1>. DEFINE B == SwapRemove(A, i)
            s == [k \in 1 .. Len(A) |-> A[k].size]
            t == [k \in 1 .. Len(B) |-> B[k].size]
<1>1. /\ B \in Seq(Entry) /\ Len(B) = Len(A) - 1 /\ Len(A) \in Nat
      /\ \A k \in 1 .. Len(A) - 1 : B[k] = IF k = i THEN A[Len(A)] ELSE A[k]
  BY SwapRemoveProperties, LenProperties
<1>2. s \in Seq(Int) /\ Len(s) = Len(A)
  BY SizesType
<1>. HIDE DEF B
<1>3. t \in Seq(Int) /\ Len(t) = Len(B)
  BY <1>1, SizesType
<1>4. (\A k \in 1 .. Len(A) - 1 : t[k] = IF k = i THEN s[Len(A)] ELSE s[k]) /\ s[i] = A[i].size
  BY <1>1
<1>5. Total(s) = SumSizes(A) /\ Total(t) = SumSizes(B)
  BY DEF SumSizes
<1>. HIDE DEF s, t
<1>6. Total(t) = Total(s) - s[i]
  BY <1>1, <1>2, <1>3, <1>4, TotalRemoved
<1>. QED  BY <1>4, <1>5, <1>6 DEF B

LEMMA SumReplaced ==
  ASSUME NEW A \in Seq(Entry), NEW B \in Seq(Entry), NEW i \in 1 .. Len(A), Len(B) = Len(A),
         \A k \in 1 .. Len(A) : k # i => B[k] = A[k]
  PROVE  SumSizes(B) = SumSizes(A) - A[i].size + B[i].size
<1>. DEFINE s == [k \in 1 .. Len(A) |-> A[k].size]
            t == [k \in 1 .. Len(B) |-> B[k].size]
<1>1. s \in Seq(Int) /\ Len(s) = Len(A) /\ t \in Seq(Int) /\ Len(t) = Len(B)
  BY SizesType
<1>2. (\A k \in 1 .. Len(A) : k # i => t[k] = s[k]) /\ s[i] = A[i].size /\ t[i] = B[i].size
  OBVIOUS
<1>3. Total(s) = SumSizes(A) /\ Total(t) = SumSizes(B)
  BY DEF SumSizes
<1>. HIDE DEF s, t
<1>4. Total(t) = Total(s) - s[i] + t[i]
  BY <1>1, <1>2, TotalReplaced
<1>. QED  BY <1>2, <1>3, <1>4

(* An area whose count is right. *)
Summed(area) == area.total_bytes = SumSizes(area.allocations)

LEMMA TrackSum ==
  ASSUME NEW area \in AreaRecord, NEW entry \in Entry, NEW grows \in BOOLEAN
  PROVE  /\ Summed(area) => Summed(Track(area, entry, grows))
         /\ SumSizes(Track(area, entry, grows).allocations)
              \in {SumSizes(area.allocations), SumSizes(area.allocations) + entry.size}
<1>. DEFINE capacity == IF Len(area.allocations) >= area.capacity /\ grows
                        THEN Grown(area.capacity) ELSE area.capacity
            tracked == [area EXCEPT !.capacity    = capacity,
                                    !.allocations = Append(area.allocations, entry),
                                    !.total_bytes = area.total_bytes + entry.size]
<1>1. area.allocations \in Seq(Entry)
  BY DEF AreaRecord
<1>2. SumSizes(Append(area.allocations, entry)) = SumSizes(area.allocations) + entry.size
  BY <1>1, SumAppended
<1>3. Track(area, entry, grows) \in {area, tracked}
  BY DEF Track
<1>4. /\ tracked.allocations = Append(area.allocations, entry)
      /\ tracked.total_bytes = area.total_bytes + entry.size
  BY DEF AreaRecord
<1>. HIDE DEF tracked
<1>. QED  BY <1>2, <1>3, <1>4 DEF Summed

LEMMA UntrackSum ==
  ASSUME NEW area \in AreaRecord, RoomOK(area), NEW i \in 1 .. Len(area.allocations)
  PROVE  /\ Summed(area) => Summed(Untrack(area, i))
         /\ SumSizes(Untrack(area, i).allocations)
              = SumSizes(area.allocations) - area.allocations[i].size
<1>1. area.allocations \in Seq(Entry)
  BY DEF AreaRecord
<1>2. SumSizes(SwapRemove(area.allocations, i))
        = SumSizes(area.allocations) - area.allocations[i].size
  BY <1>1, SumRemoved
<1>3. /\ Untrack(area, i).allocations = SwapRemove(area.allocations, i)
      /\ Untrack(area, i).total_bytes = area.total_bytes - area.allocations[i].size
  BY DEF Untrack, AreaRecord
<1>. QED  BY <1>2, <1>3 DEF Summed

LEMMA ResizedSum ==
  ASSUME NEW area \in AreaRecord, RoomOK(area), NEW i \in 1 .. Len(area.allocations),
         NEW p \in 1 .. MaxBlocks, NEW size \in Nat
  PROVE  /\ Summed(area) => Summed(Resized(area, i, p, size))
         /\ SumSizes(Resized(area, i, p, size).allocations)
              = SumSizes(area.allocations) - area.allocations[i].size + size
<1>. DEFINE A == area.allocations
            e == [A[i] EXCEPT !.ptr = p, !.size = size]
            B == [A EXCEPT ![i] = e]
<1>1. A \in Seq(Entry) /\ i \in 1 .. Len(A) /\ A[i] \in Entry
  BY ElementOfSeq DEF AreaRecord
<1>2. /\ Resized(area, i, p, size).allocations = B
      /\ Resized(area, i, p, size).total_bytes = area.total_bytes - A[i].size + size
  BY DEF Resized, AreaRecord
<1>3. /\ B \in Seq(Entry) /\ Len(B) = Len(A)
      /\ \A k \in 1 .. Len(A) : k # i => B[k] = A[k]
      /\ B[i].size = size
  <2>1. e \in Entry /\ e.size = size
    BY <1>1 DEF Entry
  <2>. HIDE DEF e, A
  <2>. QED  BY <1>1, <2>1, ExceptSeq
<1>. HIDE DEF B
<1>4. SumSizes(B) = SumSizes(A) - A[i].size + size
  BY <1>1, <1>3, SumReplaced
<1>. QED  BY <1>2, <1>4 DEF Summed

LEMMA EndedSum ==
  ASSUME NEW area \in AreaRecord
  PROVE  Summed(Ended(area)) /\ SumSizes(Ended(area).allocations) = 0
<1>1. Ended(area).total_bytes = 0 /\ Ended(area).allocations = <<>>
  BY EndedProperties DEF Ended, AreaRecord
<1>. QED  BY <1>1, SumNothing DEF Summed

-----------------------------------------------------------------------------
(* The counts of the areas through the steps. *)

LEMMA OneSummed ==
  ASSUME TypeOK, BytesAreSummed, NEW s \in AreaIds, NEW area, Summed(area),
         areas' = [areas EXCEPT ![s] = area]
  PROVE  BytesAreSummed'
<1>1. areas \in [AreaIds -> AreaRecord] /\ Len(areas) \in Nat
  BY AreasFunction DEF TypeOK
<1>2. AreaIds' = AreaIds
  BY <1>1 DEF AreaIds
<1>. QED  BY <1>1, <1>2 DEF BytesAreSummed, Summed

LEMMA SummedUnchanged == BytesAreSummed /\ UNCHANGED areas => BytesAreSummed'
BY DEF BytesAreSummed, AreaIds

LEMMA ObtainSums ==
  ASSUME TypeOK, NEW size \in Nat, NEW fin \in BOOLEAN, NEW S, Obtain(size, fin, S)
  PROVE  /\ BytesAreSummed => BytesAreSummed'
         /\ \/ UNCHANGED areas
            \/ /\ Ready.current_area \in AreaIds
               /\ \E area \in AreaRecord :
                    /\ areas' = [areas EXCEPT ![Ready.current_area] = area]
                    /\ SumSizes(area.allocations)
                         <= SumSizes(areas[Ready.current_area].allocations) + size
<1>. DEFINE a == Ready.current_area
            p == Len(heap) + 1
            entry == [ptr |-> p, size |-> size, finalizer |-> IF fin THEN p ELSE NULL]
<1>1. CASE a = NULL
  BY <1>1, SummedUnchanged DEF Obtain
<1>2. CASE a # NULL
  <2>1. a \in AreaIds
    BY <1>2, ReadyType, AreasFunction DEF TypeOK, AreaIds, NULL
  <2>2. PICK grows \in BOOLEAN : areas' = [areas EXCEPT ![a] = Track(areas[a], entry, grows)]
    BY <1>2 DEF Obtain, Outcomes
  <2>3. entry \in Entry /\ entry.size = size
    <3>1. p \in 1 .. MaxBlocks
      BY HeapFunction, BoundsAssumption DEF Obtain, TypeOK
    <3>. QED  BY <3>1, BoundsAssumption DEF Entry, NULL
  <2>4. areas[a] \in AreaRecord /\ RoomOK(areas[a])
    BY <2>1, AreasFunction DEF TypeOK
  <2>. DEFINE area == Track(areas[a], entry, grows)
  <2>. HIDE DEF entry
  <2>5. /\ area \in AreaRecord
        /\ Summed(areas[a]) => Summed(area)
        /\ SumSizes(area.allocations)
             \in {SumSizes(areas[a].allocations), SumSizes(areas[a].allocations) + size}
    BY <2>3, <2>4, TrackProperties, TrackSum
  <2>6. SumSizes(areas[a].allocations) \in Int
    BY <2>4, SumType DEF AreaRecord
  <2>. HIDE DEF area, a
  <2>7. SumSizes(area.allocations) <= SumSizes(areas[a].allocations) + size
    BY <2>5, <2>6
  <2>8. areas' = [areas EXCEPT ![a] = area]
    BY <2>2 DEF area
  <2>9. ASSUME BytesAreSummed PROVE BytesAreSummed'
    BY <2>1, <2>5, <2>8, <2>9, OneSummed DEF BytesAreSummed, Summed
  <2>. QED  BY <2>1, <2>5, <2>7, <2>8, <2>9 DEF a
<1>. QED  BY <1>1, <1>2

LEMMA ReallocSums ==
  ASSUME TypeOK, NEW p \in Blocks, NEW size \in Nat, dragonstone_gc_realloc(p, size)
  PROVE  /\ BytesAreSummed => BytesAreSummed'
         /\ \E s \in AreaIds, area \in AreaRecord, old \in Nat :
              /\ Tracks(s, p) /\ s = FindArea(p)
              /\ areas' = [areas EXCEPT ![s] = area]
              /\ stats' = [stats EXCEPT !.total_allocated = @ + Growth(old, size)]
              /\ SumSizes(area.allocations) = SumSizes(areas[s].allocations) - old + size
<1>. DEFINE a == FindArea(p)
            i == SlotOf(a, p)
            old == areas[a].allocations[i].size
<1>1. a \in AreaIds /\ i \in 1 .. Len(areas[a].allocations) /\ Tracks(a, p)
  BY FindAreaProperties, SlotProperties DEF dragonstone_gc_realloc, TypeOK, Slots
<1>2. areas[a] \in AreaRecord /\ RoomOK(areas[a])
  BY <1>1, AreasFunction DEF TypeOK
<1>3. PICK q \in 1 .. MaxBlocks : areas' = [areas EXCEPT ![a] = Resized(areas[a], i, q, size)]
  <2>1. Len(heap) \in Nat /\ Len(heap) <= MaxBlocks /\ p \in 1 .. MaxBlocks
    BY HeapFunction, BoundsAssumption DEF TypeOK, HeapOK, Blocks
  <2>2. Len(heap) < MaxBlocks => Len(heap) + 1 \in 1 .. MaxBlocks
    BY <2>1, BoundsAssumption
  <2>. QED  BY <2>1, <2>2 DEF dragonstone_gc_realloc
<1>4. stats' = [stats EXCEPT !.total_allocated = @ + Growth(old, size)]
  BY DEF dragonstone_gc_realloc
<1>5. old \in Nat
  <2>1. areas[a].allocations \in Seq(Entry)
    BY <1>2 DEF AreaRecord
  <2>. QED  BY <1>1, <2>1, SizesType
<1>. DEFINE area == Resized(areas[a], i, q, size)
<1>6. /\ area \in AreaRecord
      /\ Summed(areas[a]) => Summed(area)
      /\ SumSizes(area.allocations) = SumSizes(areas[a].allocations) - old + size
  <2>. HIDE DEF a, i
  <2>. QED  BY <1>1, <1>2, ResizedProperties, ResizedSum
<1>7. areas' = [areas EXCEPT ![a] = area] /\ a = FindArea(p)
  BY <1>3
<1>. HIDE DEF area, a, old
<1>8. ASSUME BytesAreSummed PROVE BytesAreSummed'
  BY <1>1, <1>6, <1>7, <1>8, OneSummed DEF BytesAreSummed, Summed
<1>. QED  BY <1>1, <1>4, <1>5, <1>6, <1>7, <1>8

(* An escape takes an entry out of an array, or puts it back, or moves it  *)
(* to another.                                                             *)
LEMMA EscapeSums ==
  ASSUME TypeOK, NEW p \in Blocks, NEW target \in 0 .. Len(areas),
         dragonstone_gc_escape_to(p, target)
  PROVE  /\ BytesAreSummed => BytesAreSummed'
         /\ \E s \in AreaIds, left \in AreaRecord :
              /\ s = FindArea(p)
              /\ \/ /\ areas' = [areas EXCEPT ![s] = left]
                    /\ SumSizes(left.allocations) <= SumSizes(areas[s].allocations)
                 \/ \E grown \in AreaRecord :
                      /\ target \in AreaIds /\ target # s
                      /\ areas' = [areas EXCEPT ![s] = left, ![target] = grown]
                      /\ SumSizes(left.allocations) + SumSizes(grown.allocations)
                           <= SumSizes(areas[s].allocations) + SumSizes(areas[target].allocations)
<1>. DEFINE s == FindArea(p)
            i == SlotOf(s, p)
            entry == areas[s].allocations[i]
            left == Untrack(areas[s], i)
<1>1. s \in AreaIds /\ i \in Slots(s) /\ s # target
  BY FindAreaProperties, SlotProperties DEF dragonstone_gc_escape_to, TypeOK
<1>2. entry \in Entry /\ entry.size \in Nat
  BY <1>1, EscapeAreas DEF Entry
<1>3. areas[s] \in AreaRecord /\ RoomOK(areas[s])
  BY <1>1, AreasFunction DEF TypeOK
<1>4. /\ left \in AreaRecord
      /\ Summed(areas[s]) => Summed(left)
      /\ SumSizes(left.allocations) = SumSizes(areas[s].allocations) - entry.size
  BY <1>1, <1>3, UntrackProperties, UntrackSum DEF Slots
<1>5. SumSizes(areas[s].allocations) \in Int
  BY <1>3, SumType DEF AreaRecord
<1>. HIDE DEF left, entry
<1>6. CASE areas' = [areas EXCEPT ![s] = left]
  <2>. HIDE DEF s
  <2>1. SumSizes(left.allocations) <= SumSizes(areas[s].allocations)
    BY <1>2, <1>4, <1>5
  <2>2. ASSUME BytesAreSummed PROVE BytesAreSummed'
    BY <1>1, <1>4, <1>6, <2>2, OneSummed DEF BytesAreSummed, Summed
  <2>. QED  BY <1>1, <1>4, <1>6, <2>1, <2>2 DEF s
<1>7. CASE areas' = [areas EXCEPT ![s] = Track(left, entry, TRUE)]
  <2>. DEFINE back == Track(left, entry, TRUE)
  <2>. HIDE DEF s
  <2>1. /\ back \in AreaRecord
        /\ Summed(left) => Summed(back)
        /\ SumSizes(back.allocations)
             \in {SumSizes(left.allocations), SumSizes(left.allocations) + entry.size}
    <3>1. RoomOK(left)
      BY <1>1, <1>3, UntrackProperties DEF Slots, left
    <3>. QED  BY <1>2, <1>4, <3>1, TrackProperties, TrackSum
  <2>. HIDE DEF back
  <2>2. SumSizes(back.allocations) <= SumSizes(areas[s].allocations)
    BY <1>2, <1>4, <1>5, <2>1
  <2>3. areas' = [areas EXCEPT ![s] = back]
    BY <1>7 DEF back
  <2>4. ASSUME BytesAreSummed PROVE BytesAreSummed'
    BY <1>1, <1>4, <2>1, <2>3, <2>4, OneSummed DEF BytesAreSummed, Summed
  <2>. QED  BY <1>1, <2>1, <2>2, <2>3, <2>4 DEF s
<1>8. ASSUME NEW grows \in BOOLEAN, target # NULL,
             areas' = [areas EXCEPT ![s] = left, ![target] = Track(areas[target], entry, grows)]
      PROVE  /\ BytesAreSummed => BytesAreSummed'
             /\ \E grown \in AreaRecord :
                  /\ target \in AreaIds /\ target # s
                  /\ areas' = [areas EXCEPT ![s] = left, ![target] = grown]
                  /\ SumSizes(left.allocations) + SumSizes(grown.allocations)
                       <= SumSizes(areas[s].allocations) + SumSizes(areas[target].allocations)
  <2>1. target \in AreaIds
    BY <1>8 DEF AreaIds, NULL
  <2>2. areas[target] \in AreaRecord /\ RoomOK(areas[target])
    BY <2>1, AreasFunction DEF TypeOK
  <2>. DEFINE grown == Track(areas[target], entry, grows)
  <2>3. SumSizes(areas[target].allocations) \in Int
    BY <2>2, SumType DEF AreaRecord
  <2>4. /\ grown \in AreaRecord
        /\ Summed(areas[target]) => Summed(grown)
        /\ SumSizes(grown.allocations)
             \in {SumSizes(areas[target].allocations), SumSizes(areas[target].allocations) + entry.size}
    BY <1>2, <2>2, TrackProperties, TrackSum
  <2>5. areas' = [areas EXCEPT ![s] = left, ![target] = grown]
    BY <1>8
  <2>. HIDE DEF s, grown
  <2>6. SumSizes(left.allocations) + SumSizes(grown.allocations)
          <= SumSizes(areas[s].allocations) + SumSizes(areas[target].allocations)
    BY <1>2, <1>4, <1>5, <2>3, <2>4
  <2>7. areas \in [AreaIds -> AreaRecord] /\ Len(areas) \in Nat
    BY AreasFunction DEF TypeOK
  <2>8. AreaIds' = AreaIds
    BY <2>5, <2>7 DEF AreaIds
  <2>9. ASSUME BytesAreSummed PROVE BytesAreSummed'
    <3>1. Summed(left) /\ Summed(grown)
      BY <1>1, <1>4, <2>1, <2>4, <2>9 DEF BytesAreSummed, Summed
    <3>2. \A a \in AreaIds : areas'[a] \in {areas[a], left, grown}
      BY <2>5, <2>7
    <3>. QED  BY <2>8, <2>9, <3>1, <3>2 DEF BytesAreSummed, Summed
  <2>. QED  BY <1>1, <2>1, <2>4, <2>5, <2>6, <2>9
<1>9. CASE EscapeLost(p, s)
  BY <1>6, <1>9 DEF EscapeLost, left
<1>10. CASE target # NULL /\ EscapeToArea(p, s, target)
  <2>1. PICK grows \in BOOLEAN :
          areas' = [areas EXCEPT ![s] = left, ![target] = Track(areas[target], entry, grows)]
    BY <1>1, <1>10 DEF EscapeToArea, Outcomes, left, entry
  <2>. QED  BY <1>1, <1>4, <1>8, <1>10, <2>1
<1>11. CASE EscapeToBoehm(p, s)
  BY <1>6, <1>7, <1>11 DEF EscapeToBoehm, left, entry
<1>. QED  BY <1>9, <1>10, <1>11 DEF dragonstone_gc_escape_to

LEMMA BeginShape ==
  ASSUME TypeOK, dragonstone_gc_begin_area
  PROVE  \/ UNCHANGED areas /\ gc' = Ready
         \/ /\ gc' = [Ready EXCEPT !.current_area = Len(areas) + 1, !.area_count = @ + 1]
            /\ Len(areas') = Len(areas) + 1
            /\ \A a \in AreaIds : areas'[a] = areas[a]
            /\ areas'[Len(areas) + 1].lineage = <<Len(areas) + 1>> \o Lineage(Ready.current_area)
            /\ areas'[Len(areas) + 1].allocations = <<>>
            /\ areas'[Len(areas) + 1].total_bytes = 0
<1>. DEFINE area == [state |-> "open", lineage |-> <<Len(areas) + 1>> \o Lineage(Ready.current_area),
                     allocations |-> <<>>, capacity |-> 0, total_bytes |-> 0]
<1>1. \/ UNCHANGED areas /\ gc' = Ready
      \/ /\ gc' = [Ready EXCEPT !.current_area = Len(areas) + 1, !.area_count = @ + 1]
         /\ areas' = Append(areas, area)
  BY DEF dragonstone_gc_begin_area
<1>2. areas \in Seq(AreaRecord) /\ Len(areas) \in Nat
  BY AreasFunction DEF TypeOK, AreasOK
<1>3. /\ area.lineage = <<Len(areas) + 1>> \o Lineage(Ready.current_area)
      /\ area.allocations = <<>> /\ area.total_bytes = 0
  OBVIOUS
<1>. HIDE DEF area
<1>4. /\ Len(Append(areas, area)) = Len(areas) + 1
      /\ \A a \in 1 .. Len(areas) : Append(areas, area)[a] = areas[a]
      /\ Append(areas, area)[Len(areas) + 1] = area
  BY <1>2
<1>. QED  BY <1>1, <1>3, <1>4 DEF AreaIds

LEMMA BeginSummed ==
  ASSUME TypeOK, BytesAreSummed, dragonstone_gc_begin_area
  PROVE  BytesAreSummed'
<1>1. CASE UNCHANGED areas
  BY <1>1, SummedUnchanged
<1>2. CASE /\ Len(areas') = Len(areas) + 1
           /\ \A a \in AreaIds : areas'[a] = areas[a]
           /\ areas'[Len(areas) + 1].allocations = <<>>
           /\ areas'[Len(areas) + 1].total_bytes = 0
  <2>1. AreaIds' = AreaIds \cup {Len(areas) + 1}
    BY <1>2, AreasFunction DEF AreaIds, TypeOK
  <2>. QED  BY <1>2, <2>1, SumNothing DEF BytesAreSummed
<1>. QED  BY <1>1, <1>2, BeginShape

LEMMA ShutdownShape ==
  ASSUME TypeOK, dragonstone_gc_shutdown
  PROVE  /\ AreaIds' = AreaIds
         /\ \A a \in AreaIds : areas'[a] \in {areas[a], Ended(areas[a])}
<1>1. areas \in [AreaIds -> AreaRecord] /\ Len(areas) \in Nat
  BY AreasFunction DEF TypeOK
<1>. DEFINE chain == ToSet(Lineage(gc.current_area))
<1>2. areas' = [a \in AreaIds |-> IF a \in chain THEN Ended(areas[a]) ELSE areas[a]]
  BY DEF dragonstone_gc_shutdown
<1>. HIDE DEF chain
<1>3. Len(areas') = Len(areas)
  BY <1>1, <1>2 DEF AreaIds
<1>. QED  BY <1>2, <1>3 DEF AreaIds

LEMMA NextSummed ==
  ASSUME TypeOK, BytesAreSummed, Next \/ \E a \in AreaIds : dragonstone_gc_end_area(a)
  PROVE  BytesAreSummed'
<1>1. /\ gc.current_area \in 0 .. Len(areas) /\ Len(areas) \in Nat
      /\ areas \in [AreaIds -> AreaRecord]
  BY AreasFunction DEF TypeOK, ManagerOK
<1>2. ASSUME NEW size \in Sizes,
             dragonstone_gc_alloc(size) \/ dragonstone_gc_alloc_with_finalizer(size)
      PROVE  BytesAreSummed'
  <2>1. PICK S \in {{}} \cup Reclaimable, fin \in BOOLEAN : Obtain(size, fin, S) \/ ObtainNothing(S)
    BY <1>2 DEF dragonstone_gc_alloc, dragonstone_gc_alloc_with_finalizer, Collectable
  <2>2. CASE Obtain(size, fin, S)
    BY <2>2, SizesAssumption, ObtainSums
  <2>3. CASE ObtainNothing(S)
    BY <2>3, SummedUnchanged DEF ObtainNothing
  <2>. QED  BY <2>1, <2>2, <2>3
<1>3. ASSUME NEW size \in Sizes, NEW p \in Blocks, dragonstone_gc_realloc(p, size)
      PROVE  BytesAreSummed'
  BY <1>3, SizesAssumption, ReallocSums
<1>4. CASE dragonstone_gc_begin_area
  BY <1>4, BeginSummed
<1>5. ASSUME NEW a \in AreaIds, dragonstone_gc_end_area(a)
      PROVE  BytesAreSummed'
  <2>1. areas' = [areas EXCEPT ![a] = Ended(areas[a])]
    BY <1>5 DEF dragonstone_gc_end_area
  <2>. QED  BY <1>1, <1>5, <2>1, EndedSum, OneSummed
<1>6. CASE EndCurrent
  <2>1. gc.current_area \in AreaIds
    BY <1>1, <1>6 DEF EndCurrent, NULL, AreaIds
  <2>. QED  BY <1>5, <1>6, <2>1 DEF EndCurrent
<1>7. CASE dragonstone_gc_shutdown
  <2>1. \A a \in AreaIds : Summed(Ended(areas[a]))
    BY <1>1, EndedSum
  <2>. QED  BY <1>7, <2>1, ShutdownShape DEF BytesAreSummed, Summed
<1>8. ASSUME NEW p \in Blocks, NEW target \in 0 .. Len(areas), dragonstone_gc_escape_to(p, target)
      PROVE  BytesAreSummed'
  BY <1>8, EscapeSums
<1>9. ASSUME NEW p \in Blocks, dragonstone_gc_escape(p)
      PROVE  BytesAreSummed'
  <2>1. gc.current_area \in AreaIds
    BY <1>1, <1>9 DEF dragonstone_gc_escape, NULL, AreaIds
  <2>. QED  BY <1>8, <1>9, <2>1, ParentProperties DEF dragonstone_gc_escape, TypeOK
<1>10. ASSUME NEW p \in Blocks, NEW target \in {NULL} \cup ToSet(Lineage(gc.current_area)),
              dragonstone_gc_escape_to(p, target)
       PROVE  BytesAreSummed'
  <2>1. ToSet(Lineage(gc.current_area)) \subseteq AreaIds
    BY ChainProperties, ElementOfSeq DEF ToSet, TypeOK
  <2>2. target \in 0 .. Len(areas)
    BY <1>1, <2>1 DEF NULL, AreaIds
  <2>. QED  BY <1>8, <1>10, <2>2
<1>11. CASE UNCHANGED areas
  BY <1>11, SummedUnchanged
<1>12. ASSUME NEW p \in Blocks, NEW value \in Blocks, dragonstone_gc_write_barrier(p, value)
       PROVE  BytesAreSummed'
  BY <1>11, <1>12 DEF dragonstone_gc_write_barrier
<1>13. CASE \/ dragonstone_gc_init \/ dragonstone_gc_disable \/ dragonstone_gc_enable
            \/ dragonstone_gc_collect \/ BoehmCollect
  BY <1>11, <1>13 DEF dragonstone_gc_init, dragonstone_gc_disable, dragonstone_gc_enable,
                      dragonstone_gc_collect, BoehmCollect
<1>. QED  BY <1>2, <1>3, <1>4, <1>5, <1>6, <1>7, <1>9, <1>10, <1>12, <1>13 DEF Next

LEMMA InitSummed == Init => BytesAreSummed
<1>. SUFFICES ASSUME Init PROVE BytesAreSummed
  OBVIOUS
<1>1. AreaIds = {}
  BY EmptySeq DEF Init, AreaIds
<1>. QED  BY <1>1 DEF BytesAreSummed

(* The byte count of an area, kept separately by track, untrack, realloc,  *)
(* escape and end (gc.c:137, 152, 394, 589), is the sum of the sizes in    *)
(* its tracking array, whatever fails and whatever the order in which      *)
(* areas end.                                                              *)
THEOREM BytesAreSummedAnyOrder == AnyOrderSpec => []BytesAreSummed
<1>1. Init => TypeOK /\ BytesAreSummed
  BY InitType, InitSummed
<1>2. TypeOK /\ BytesAreSummed /\ [AnyOrderNext]_vars => (TypeOK /\ BytesAreSummed)'
  BY NextType, StutterType, NextSummed, SummedUnchanged DEF AnyOrderNext, vars
<1>. QED  BY <1>1, <1>2, PTL DEF AnyOrderSpec

-----------------------------------------------------------------------------
(* The bytes of the chain. *)

Weights(f, chain) == [i \in 1 .. Len(chain) |-> SumSizes(f[chain[i]].allocations)]

LEMMA WeightsType ==
  ASSUME NEW S, NEW f \in [S -> AreaRecord], NEW chain \in Seq(S)
  PROVE  Weights(f, chain) \in Seq(Int) /\ Len(Weights(f, chain)) = Len(chain)
<1>1. Len(chain) \in Nat /\ \A i \in 1 .. Len(chain) : chain[i] \in S
  BY LenProperties, ElementOfSeq
<1>2. \A i \in 1 .. Len(chain) : SumSizes(f[chain[i]].allocations) \in Int
  BY <1>1, SumType DEF AreaRecord
<1>3. Weights(f, chain) \in [1 .. Len(chain) -> Int]
  BY <1>2 DEF Weights
<1>. QED  BY <1>1, <1>3, SegmentIsSeq

(* One area changes, which has one place on the chain. *)
ChangedAt(f, g, S, chain, c) ==
  /\ f \in [S -> AreaRecord] /\ g \in [S -> AreaRecord] /\ c \in S
  /\ \A a \in S \ {c} : g[a] = f[a]
  /\ chain \in Seq(S)
  /\ \E i \in 1 .. Len(chain) : chain[i] = c /\ \A j \in 1 .. Len(chain) : j # i => chain[j] # c

LEMMA WeightsChanged ==
  ASSUME NEW f, NEW g, NEW S, NEW chain, NEW c, ChangedAt(f, g, S, chain, c)
  PROVE  Total(Weights(g, chain)) = Total(Weights(f, chain))
           - SumSizes(f[c].allocations) + SumSizes(g[c].allocations)
<1>. DEFINE s == Weights(f, chain)
            t == Weights(g, chain)
<1>1. s \in Seq(Int) /\ Len(s) = Len(chain) /\ t \in Seq(Int) /\ Len(t) = Len(chain)
  BY WeightsType DEF ChangedAt
<1>2. \A j \in 1 .. Len(chain) : chain[j] \in S
  BY ElementOfSeq DEF ChangedAt
<1>3. PICK i \in 1 .. Len(chain) :
        chain[i] = c /\ \A j \in 1 .. Len(chain) : j # i => chain[j] # c
  BY DEF ChangedAt
<1>4. /\ \A k \in 1 .. Len(chain) : k # i => t[k] = s[k]
      /\ s[i] = SumSizes(f[c].allocations)
      /\ t[i] = SumSizes(g[c].allocations)
  BY <1>2, <1>3 DEF Weights, ChangedAt
<1>. HIDE DEF s, t
<1>5. Total(t) = Total(s) - s[i] + t[i]
  BY <1>1, <1>4, TotalReplaced
<1>. QED  BY <1>4, <1>5 DEF s, t

LEMMA ChainBytesType ==
  ASSUME TypeOK
  PROVE  /\ ChainBytes = Total(Weights(areas, Lineage(gc.current_area)))
         /\ ChainBytes \in Int
<1>1. ChainBytes = Total(Weights(areas, Lineage(gc.current_area)))
  BY DEF ChainBytes, Weights
<1>2. Lineage(gc.current_area) \in Seq(AreaIds) /\ areas \in [AreaIds -> AreaRecord]
  BY ChainProperties, AreasFunction DEF TypeOK
<1>. QED  BY <1>1, <1>2, WeightsType, TotalType

(* Every open area has one place on the chain. *)
LEMMA PlaceOnChain ==
  ASSUME TypeOK, ChainInv, NEW a \in OpenAreas
  PROVE  \E i \in 1 .. Len(Lineage(gc.current_area)) :
           /\ Lineage(gc.current_area)[i] = a
           /\ \A j \in 1 .. Len(Lineage(gc.current_area)) :
                j # i => Lineage(gc.current_area)[j] # a
<1>. DEFINE chain == Lineage(gc.current_area)
<1>1. chain \in Seq(AreaIds) /\ a \in ToSet(chain)
  BY ChainProperties DEF TypeOK, ChainInv, ChainIsOpenAreas
<1>2. PICK i \in 1 .. Len(chain) : chain[i] = a
  BY <1>1 DEF ToSet
<1>3. gc.current_area \in AreaIds
  <2>1. gc.current_area # NULL
    <3>1. Len(<<>>) = 0
      BY EmptySeq
    <3>. QED  BY <1>2, <3>1 DEF Lineage
  <2>. QED  BY <2>1, AreasFunction DEF TypeOK, ManagerOK, NULL, AreaIds
<1>4. chain = areas[gc.current_area].lineage /\ Len(chain) \in Nat
  BY <1>3, LineageProperties DEF TypeOK
<1>5. \A j, k \in 1 .. Len(chain) : j < k => chain[k] < chain[j]
  BY <1>3, <1>4 DEF TypeOK, AreasOK, AreaOK
<1>6. \A j \in 1 .. Len(chain) : chain[j] \in Nat
  BY <1>1, <1>4, ElementOfSeq DEF AreaIds
<1>. HIDE DEF chain
<1>7. ASSUME NEW j \in 1 .. Len(chain), j # i
      PROVE  chain[j] # a
  <2>1. CASE j < i
    BY <1>2, <1>5, <1>6, <2>1
  <2>2. CASE i < j
    BY <1>2, <1>5, <1>6, <2>2
  <2>. QED  BY <1>4, <1>7, <2>1, <2>2
<1>. QED  BY <1>2, <1>7 DEF chain

(* The chain is the same after a step that opens and closes no area. *)
LEMMA SameChain ==
  ASSUME TypeOK, Len(areas') = Len(areas), gc'.current_area = gc.current_area,
         \A a \in AreaIds : areas'[a].lineage = areas[a].lineage,
         NEW after, after = areas'
  PROVE  ChainBytes' = Total(Weights(after, Lineage(gc.current_area)))
<1>1. Lineage(gc.current_area)' = Lineage(gc.current_area)
  <2>1. gc.current_area \in {NULL} \cup AreaIds
    BY AreasFunction DEF TypeOK, ManagerOK, NULL, AreaIds
  <2>. QED  BY <2>1 DEF Lineage
<1>. QED  BY <1>1 DEF ChainBytes, Weights

LEMMA SameBytes ==
  ASSUME TypeOK, UNCHANGED areas, gc'.current_area = gc.current_area
  PROVE  ChainBytes' = ChainBytes
BY SameChain, ChainBytesType DEF Weights

LEMMA OneAreaBytes ==
  ASSUME TypeOK, ChainInv, gc'.current_area = gc.current_area, NEW s \in OpenAreas,
         NEW area \in AreaRecord, area.lineage = areas[s].lineage,
         areas' = [areas EXCEPT ![s] = area]
  PROVE  ChainBytes' = ChainBytes - SumSizes(areas[s].allocations) + SumSizes(area.allocations)
<1>. DEFINE chain == Lineage(gc.current_area)
<1>1. /\ areas \in [AreaIds -> AreaRecord] /\ Len(areas) \in Nat /\ s \in AreaIds
      /\ chain \in Seq(AreaIds)
  BY AreasFunction, ChainProperties DEF TypeOK, OpenAreas
<1>. DEFINE after == [areas EXCEPT ![s] = area]
<1>2. /\ after \in [AreaIds -> AreaRecord]
      /\ after[s] = area
      /\ \A a \in AreaIds \ {s} : after[a] = areas[a]
      /\ after = areas'
  BY <1>1
<1>. HIDE DEF after
<1>3. Len(areas') = Len(areas) /\ \A a \in AreaIds : areas'[a].lineage = areas[a].lineage
  BY <1>1, <1>2 DEF AreaIds
<1>4. PICK i \in 1 .. Len(chain) :
        chain[i] = s /\ \A j \in 1 .. Len(chain) : j # i => chain[j] # s
  BY PlaceOnChain
<1>5. ChainBytes' = Total(Weights(after, chain)) /\ ChainBytes = Total(Weights(areas, chain))
  BY <1>2, <1>3, SameChain, ChainBytesType
<1>. HIDE DEF chain
<1>6. ChangedAt(areas, after, AreaIds, chain, s)
  BY <1>1, <1>2, <1>4 DEF ChangedAt
<1>7. Total(Weights(after, chain)) = Total(Weights(areas, chain))
        - SumSizes(areas[s].allocations) + SumSizes(after[s].allocations)
  BY <1>6, WeightsChanged
<1>. QED  BY <1>2, <1>5, <1>7

LEMMA TwoAreasBytes ==
  ASSUME TypeOK, ChainInv, gc'.current_area = gc.current_area,
         NEW s \in OpenAreas, NEW t \in OpenAreas, s # t,
         NEW left \in AreaRecord, left.lineage = areas[s].lineage,
         NEW grown \in AreaRecord, grown.lineage = areas[t].lineage,
         areas' = [areas EXCEPT ![s] = left, ![t] = grown]
  PROVE  ChainBytes' = ChainBytes
           - SumSizes(areas[s].allocations) + SumSizes(left.allocations)
           - SumSizes(areas[t].allocations) + SumSizes(grown.allocations)
<1>. DEFINE chain == Lineage(gc.current_area)
            between == [areas EXCEPT ![s] = left]
<1>1. /\ areas \in [AreaIds -> AreaRecord] /\ Len(areas) \in Nat /\ s \in AreaIds /\ t \in AreaIds
      /\ chain \in Seq(AreaIds)
  BY AreasFunction, ChainProperties DEF TypeOK, OpenAreas
<1>. DEFINE after == [areas EXCEPT ![s] = left, ![t] = grown]
<1>2. /\ after \in [AreaIds -> AreaRecord]
      /\ after[s] = left /\ after[t] = grown
      /\ \A a \in AreaIds \ {s, t} : after[a] = areas[a]
      /\ after = areas'
  BY <1>1
<1>. HIDE DEF after
<1>3. /\ between \in [AreaIds -> AreaRecord]
      /\ between[s] = left
      /\ \A a \in AreaIds \ {s} : between[a] = areas[a]
  BY <1>1
<1>4. Len(areas') = Len(areas) /\ \A a \in AreaIds : areas'[a].lineage = areas[a].lineage
  BY <1>1, <1>2 DEF AreaIds
<1>5. PICK i \in 1 .. Len(chain) :
        chain[i] = s /\ \A j \in 1 .. Len(chain) : j # i => chain[j] # s
  BY PlaceOnChain
<1>6. PICK k \in 1 .. Len(chain) :
        chain[k] = t /\ \A j \in 1 .. Len(chain) : j # k => chain[j] # t
  BY PlaceOnChain
<1>7. ChainBytes' = Total(Weights(after, chain)) /\ ChainBytes = Total(Weights(areas, chain))
  BY <1>2, <1>4, SameChain, ChainBytesType
<1>. HIDE DEF chain, between
<1>8. Total(Weights(between, chain)) = Total(Weights(areas, chain))
        - SumSizes(areas[s].allocations) + SumSizes(left.allocations)
  <2>1. ChangedAt(areas, between, AreaIds, chain, s)
    BY <1>1, <1>3, <1>5 DEF ChangedAt
  <2>. QED  BY <1>3, <2>1, WeightsChanged
<1>9. \A a \in AreaIds \ {t} : after[a] = between[a]
  BY <1>2, <1>3
<1>10. Total(Weights(after, chain)) = Total(Weights(between, chain))
         - SumSizes(between[t].allocations) + SumSizes(after[t].allocations)
  <2>1. ChangedAt(between, after, AreaIds, chain, t)
    BY <1>1, <1>2, <1>3, <1>6, <1>9 DEF ChangedAt
  <2>. QED  BY <2>1, WeightsChanged
<1>11. between[t] = areas[t]
  BY <1>1, <1>3
<1>12. Total(Weights(after, chain)) = Total(Weights(between, chain))
         - SumSizes(areas[t].allocations) + SumSizes(grown.allocations)
  BY <1>2, <1>10, <1>11
<1>13. /\ ChainBytes \in Int
       /\ SumSizes(areas[s].allocations) \in Int /\ SumSizes(areas[t].allocations) \in Int
       /\ SumSizes(left.allocations) \in Int /\ SumSizes(grown.allocations) \in Int
  BY <1>1, ChainBytesType, SumType DEF AreaRecord
<1>. QED  BY <1>7, <1>8, <1>12, <1>13

-----------------------------------------------------------------------------
(* Bytes freed and bytes allocated. *)

StatsOK == stats \in [total_allocated : Int, total_freed : Int]

BytesInv == StatsOK /\ FreedWithinAllocated

LEMMA CountersBytes ==
  ASSUME TypeOK, ChainInv, BytesInv
  PROVE  /\ Counters \in [total_allocated : Int, total_freed : Int]
         /\ Counters.total_freed + ChainBytes <= Counters.total_allocated
<1>1. CASE gc.initialized
  BY <1>1 DEF Counters, BytesInv, StatsOK, FreedWithinAllocated
<1>2. CASE ~gc.initialized
  <2>1. Lineage(gc.current_area) = <<>>
    BY <1>2 DEF ChainInv, Lineage
  <2>2. Weights(areas, <<>>) = <<>>
    <3>1. <<>> \in Seq(AreaIds) /\ Len(<<>>) = 0
      BY EmptySeq
    <3>2. Weights(areas, <<>>) \in Seq(Int) /\ Len(Weights(areas, <<>>)) = 0
      BY <3>1, AreasFunction, WeightsType DEF TypeOK
    <3>. QED  BY <3>2, EmptySeq
  <2>3. ChainBytes = 0
    BY <2>1, <2>2, ChainBytesType, TotalNothing
  <2>. QED  BY <1>2, <2>3 DEF Counters
<1>. QED  BY <1>1, <1>2

(* A step that changes the counters and the bytes of the chain. *)
LEMMA BytesStep ==
  ASSUME TypeOK, NEW allocated \in Int, NEW freed \in Int, NEW bytes \in Int,
         stats' = [total_allocated |-> allocated, total_freed |-> freed],
         ChainBytes' = bytes, freed + bytes <= allocated
  PROVE  BytesInv'
BY DEF BytesInv, StatsOK, FreedWithinAllocated

LEMMA ObtainBytes ==
  ASSUME TypeOK, ChainInv, BytesInv, NEW size \in Nat, NEW fin \in BOOLEAN,
         NEW S \in {{}} \cup Reclaimable, Obtain(size, fin, S)
  PROVE  BytesInv'
<1>1. /\ Counters \in [total_allocated : Int, total_freed : Int]
      /\ Counters.total_freed + ChainBytes <= Counters.total_allocated
      /\ ChainBytes \in Int
  BY CountersBytes, ChainBytesType
<1>2. gc'.current_area = gc.current_area /\ Ready.current_area = gc.current_area
  BY ReadyChain DEF Obtain
<1>3. stats' = [total_allocated |-> Counters.total_allocated + size,
                total_freed |-> Counters.total_freed]
  BY <1>1 DEF Obtain
<1>4. CASE UNCHANGED areas
  <2>1. ChainBytes' = ChainBytes
    BY <1>2, <1>4, SameBytes
  <2>. QED  BY <1>1, <1>3, <2>1, BytesStep
<1>5. ASSUME NEW area \in AreaRecord, Ready.current_area \in AreaIds,
             areas' = [areas EXCEPT ![Ready.current_area] = area],
             SumSizes(area.allocations) <= SumSizes(areas[Ready.current_area].allocations) + size
      PROVE  BytesInv'
  <2>. DEFINE a == gc.current_area
  <2>1. a \in OpenAreas
    <3>1. ChainOpen
      BY DEF Obtain
    <3>. QED  BY <1>2, <1>5, <3>1, CurrentIsOpen DEF AreaIds, NULL
  <2>2. areas' = [areas EXCEPT ![a] = area]
    BY <1>2, <1>5
  <2>3. areas[a] \in AreaRecord /\ areas' [a] = area
    BY <2>1, <2>2, AreasFunction DEF TypeOK, OpenAreas
  <2>4. area.lineage = areas[a].lineage
    BY <2>1, <2>3, ObtainStates DEF SameStates, OpenAreas
  <2>5. /\ SumSizes(area.allocations) \in Int /\ SumSizes(areas[a].allocations) \in Int
        /\ SumSizes(area.allocations) <= SumSizes(areas[a].allocations) + size
    BY <1>2, <1>5, <2>3, SumType DEF AreaRecord
  <2>6. ChainBytes' = ChainBytes - SumSizes(areas[a].allocations) + SumSizes(area.allocations)
    <3>. HIDE DEF a
    <3>. QED  BY <1>2, <2>1, <2>2, <2>4, OneAreaBytes
  <2>. HIDE DEF a
  <2>7. Counters.total_allocated \in Int /\ Counters.total_freed \in Int
    BY <1>1
  <2>8. Counters.total_freed + (ChainBytes - SumSizes(areas[a].allocations) + SumSizes(area.allocations))
          <= Counters.total_allocated + size
    BY <1>1, <2>5, <2>7
  <2>. QED  BY <1>1, <1>3, <2>5, <2>6, <2>7, <2>8, BytesStep
<1>. QED  BY <1>4, <1>5, ObtainSums

LEMMA ReallocBytes ==
  ASSUME TypeOK, ChainInv, BytesInv, NEW p \in Blocks, NEW size \in Nat,
         dragonstone_gc_realloc(p, size)
  PROVE  BytesInv'
<1>1. PICK s \in AreaIds, area \in AreaRecord, old \in Nat :
        /\ Tracks(s, p) /\ s = FindArea(p)
        /\ areas' = [areas EXCEPT ![s] = area]
        /\ stats' = [stats EXCEPT !.total_allocated = @ + Growth(old, size)]
        /\ SumSizes(area.allocations) = SumSizes(areas[s].allocations) - old + size
  BY ReallocSums
<1>2. s \in OpenAreas /\ gc' = gc
  BY <1>1, FoundProperties DEF dragonstone_gc_realloc
<1>3. areas[s] \in AreaRecord /\ areas'[s] = area
  BY <1>1, AreasFunction DEF TypeOK
<1>4. area.lineage = areas[s].lineage
  BY <1>3, ReallocStates DEF SameStates
<1>5. /\ SumSizes(area.allocations) \in Int /\ SumSizes(areas[s].allocations) \in Int
      /\ ChainBytes \in Int
  BY <1>3, SumType, ChainBytesType DEF AreaRecord
<1>6. ChainBytes' = ChainBytes - SumSizes(areas[s].allocations) + SumSizes(area.allocations)
  BY <1>1, <1>2, <1>4, OneAreaBytes
<1>7. /\ stats.total_allocated \in Int /\ stats.total_freed \in Int
      /\ stats.total_freed + ChainBytes <= stats.total_allocated
      /\ stats' = [total_allocated |-> stats.total_allocated + Growth(old, size),
                   total_freed |-> stats.total_freed]
  BY <1>1 DEF BytesInv, StatsOK, FreedWithinAllocated
<1>8. Growth(old, size) \in Int /\ Growth(old, size) >= size - old
  BY DEF Growth
<1>9. stats.total_freed + (ChainBytes - SumSizes(areas[s].allocations) + SumSizes(area.allocations))
        <= stats.total_allocated + Growth(old, size)
  BY <1>1, <1>5, <1>7, <1>8
<1>. QED  BY <1>5, <1>6, <1>7, <1>8, <1>9, BytesStep

LEMMA EscapeBytes ==
  ASSUME TypeOK, ChainInv, BytesInv, NEW p \in Blocks, NEW target \in {NULL} \cup OpenAreas,
         dragonstone_gc_escape_to(p, target)
  PROVE  BytesInv'
<1>1. /\ stats.total_allocated \in Int /\ stats.total_freed \in Int
      /\ stats.total_freed + ChainBytes <= stats.total_allocated
      /\ stats' = [total_allocated |-> stats.total_allocated, total_freed |-> stats.total_freed]
      /\ ChainBytes \in Int
      /\ gc' = gc
  BY ChainBytesType
     DEF BytesInv, StatsOK, FreedWithinAllocated, dragonstone_gc_escape_to
<1>2. target \in 0 .. Len(areas) /\ areas \in [AreaIds -> AreaRecord]
  BY AreasFunction DEF TypeOK, NULL, OpenAreas, AreaIds
<1>3. SameStates
  BY <1>2, EscapeStates
<1>4. PICK s \in AreaIds, left \in AreaRecord :
        /\ s = FindArea(p)
        /\ \/ /\ areas' = [areas EXCEPT ![s] = left]
              /\ SumSizes(left.allocations) <= SumSizes(areas[s].allocations)
           \/ \E grown \in AreaRecord :
                /\ target \in AreaIds /\ target # s
                /\ areas' = [areas EXCEPT ![s] = left, ![target] = grown]
                /\ SumSizes(left.allocations) + SumSizes(grown.allocations)
                     <= SumSizes(areas[s].allocations) + SumSizes(areas[target].allocations)
  BY <1>2, EscapeSums
<1>5. s \in OpenAreas
  BY <1>4, FoundProperties DEF dragonstone_gc_escape_to
<1>6. SumSizes(left.allocations) \in Int /\ SumSizes(areas[s].allocations) \in Int
  BY <1>2, SumType DEF AreaRecord
<1>7. CASE /\ areas' = [areas EXCEPT ![s] = left]
           /\ SumSizes(left.allocations) <= SumSizes(areas[s].allocations)
  <2>1. left.lineage = areas[s].lineage
    BY <1>2, <1>3, <1>7 DEF SameStates
  <2>2. ChainBytes' = ChainBytes - SumSizes(areas[s].allocations) + SumSizes(left.allocations)
    BY <1>1, <1>5, <1>7, <2>1, OneAreaBytes
  <2>3. stats.total_freed + (ChainBytes - SumSizes(areas[s].allocations) + SumSizes(left.allocations))
          <= stats.total_allocated
    BY <1>1, <1>6, <1>7
  <2>. QED  BY <1>1, <1>6, <2>2, <2>3, BytesStep
<1>8. ASSUME NEW grown \in AreaRecord, target \in AreaIds, target # s,
             areas' = [areas EXCEPT ![s] = left, ![target] = grown],
             SumSizes(left.allocations) + SumSizes(grown.allocations)
               <= SumSizes(areas[s].allocations) + SumSizes(areas[target].allocations)
      PROVE  BytesInv'
  <2>1. target \in OpenAreas
    BY <1>8 DEF NULL, AreaIds
  <2>2. left.lineage = areas[s].lineage /\ grown.lineage = areas[target].lineage
    BY <1>2, <1>3, <1>8 DEF SameStates
  <2>3. SumSizes(grown.allocations) \in Int /\ SumSizes(areas[target].allocations) \in Int
    BY <1>2, <1>8, SumType DEF AreaRecord
  <2>. DEFINE bytes == ChainBytes
                 - SumSizes(areas[s].allocations) + SumSizes(left.allocations)
                 - SumSizes(areas[target].allocations) + SumSizes(grown.allocations)
  <2>4. ChainBytes' = bytes
    BY <1>1, <1>5, <1>8, <2>1, <2>2, TwoAreasBytes
  <2>5. bytes \in Int /\ stats.total_freed + bytes <= stats.total_allocated
    BY <1>1, <1>6, <1>8, <2>3
  <2>. HIDE DEF bytes
  <2>. QED  BY <1>1, <2>4, <2>5, BytesStep
<1>. QED  BY <1>4, <1>7, <1>8

(* An area at the head of a chain adds what it tracks to the chain below. *)
HeadedBy(f, S, chain, g, R, longer, a) ==
  /\ f \in [S -> AreaRecord] /\ chain \in Seq(S)
  /\ g \in [R -> AreaRecord] /\ longer \in Seq(R) /\ a \in R
  /\ longer = <<a>> \o chain
  /\ \A i \in 1 .. Len(chain) : g[chain[i]].allocations = f[chain[i]].allocations

LEMMA HeadedWeights ==
  ASSUME NEW f, NEW S, NEW chain, NEW g, NEW R, NEW longer, NEW a,
         HeadedBy(f, S, chain, g, R, longer, a)
  PROVE  Total(Weights(g, longer)) = Total(Weights(f, chain)) + SumSizes(g[a].allocations)
<1>. DEFINE s == Weights(f, chain)
            t == Weights(g, longer)
<1>0. /\ f \in [S -> AreaRecord] /\ chain \in Seq(S)
      /\ g \in [R -> AreaRecord] /\ longer \in Seq(R) /\ a \in R
      /\ longer = <<a>> \o chain
      /\ \A i \in 1 .. Len(chain) : g[chain[i]].allocations = f[chain[i]].allocations
  BY DEF HeadedBy
<1>1. s \in Seq(Int) /\ Len(s) = Len(chain) /\ t \in Seq(Int) /\ Len(t) = Len(longer)
  BY <1>0, WeightsType
<1>2. /\ Len(chain) \in Nat
      /\ Len(longer) = Len(chain) + 1
      /\ longer[1] = a
      /\ \A i \in 1 .. Len(chain) : longer[i + 1] = chain[i]
  <2>1. <<a>> \in Seq(R \cup S) /\ Len(<<a>>) = 1 /\ <<a>>[1] = a
    BY <1>0
  <2>2. chain \in Seq(R \cup S) /\ Len(chain) \in Nat
    <3>1. Len(chain) \in Nat /\ chain \in [1 .. Len(chain) -> S]
      BY <1>0, LenProperties
    <3>2. chain \in [1 .. Len(chain) -> R \cup S]
      BY <3>1
    <3>. QED  BY <3>1, <3>2, SegmentIsSeq
  <2>. QED  BY <1>0, <2>1, <2>2, ConcatProperties
<1>3. SumSizes(g[a].allocations) \in Int
  BY <1>0, SumType DEF AreaRecord
<1>4. t[1] = SumSizes(g[a].allocations)
  BY <1>2 DEF Weights
<1>5. \A k \in 1 .. Len(s) : t[k + 1] = s[k]
  <2>. SUFFICES ASSUME NEW k \in 1 .. Len(chain) PROVE t[k + 1] = s[k]
    BY <1>1
  <2>1. k + 1 \in 1 .. Len(longer)
    BY <1>2
  <2>2. t[k + 1] = SumSizes(g[longer[k + 1]].allocations)
    BY <2>1 DEF Weights
  <2>3. longer[k + 1] = chain[k]
    BY <1>2
  <2>4. t[k + 1] = SumSizes(g[chain[k]].allocations)
    BY <2>2, <2>3
  <2>5. s[k] = SumSizes(f[chain[k]].allocations)
    BY DEF Weights
  <2>6. g[chain[k]].allocations = f[chain[k]].allocations
    BY <1>0
  <2>. HIDE DEF s, t
  <2>. QED  BY <2>4, <2>5, <2>6
<1>. HIDE DEF s, t
<1>6. Total(t) = Total(s) + SumSizes(g[a].allocations)
  BY <1>1, <1>2, <1>3, <1>4, <1>5, TotalPrepended
<1>. QED  BY <1>6 DEF s, t

LEMMA ChainFacts ==
  TypeOK => /\ Lineage(gc.current_area) \in Seq(AreaIds)
            /\ areas \in [AreaIds -> AreaRecord]
BY ChainProperties, AreasFunction DEF TypeOK

LEMMA ChainFactsNext ==
  (TypeOK => /\ Lineage(gc.current_area) \in Seq(AreaIds)
             /\ areas \in [AreaIds -> AreaRecord])'
BY ChainFacts, PTL

LEMMA BeginBytes ==
  ASSUME TypeOK, ChainInv, BytesInv, dragonstone_gc_begin_area
  PROVE  BytesInv'
<1>. DEFINE a == Len(areas) + 1
            chain == Lineage(gc.current_area)
<1>1. /\ Counters \in [total_allocated : Int, total_freed : Int]
      /\ Counters.total_freed + ChainBytes <= Counters.total_allocated
      /\ ChainBytes \in Int
      /\ stats' = Counters
  BY CountersBytes, ChainBytesType DEF dragonstone_gc_begin_area
<1>2. Ready.current_area = gc.current_area
  BY ReadyChain
<1>3. SUFFICES ChainBytes' = ChainBytes
  <2>1. /\ Counters.total_allocated \in Int /\ Counters.total_freed \in Int
        /\ stats' = [total_allocated |-> Counters.total_allocated,
                     total_freed |-> Counters.total_freed]
    BY <1>1
  <2>. QED  BY <1>1, <1>3, <2>1, BytesStep
<1>4. CASE UNCHANGED areas /\ gc' = Ready
  BY <1>2, <1>4, SameBytes
<1>5. CASE /\ gc' = [Ready EXCEPT !.current_area = a, !.area_count = @ + 1]
           /\ Len(areas') = a
           /\ \A b \in AreaIds : areas'[b] = areas[b]
           /\ areas'[a].lineage = <<a>> \o chain
           /\ areas'[a].allocations = <<>>
  <2>1. /\ chain \in Seq(AreaIds) /\ areas \in [AreaIds -> AreaRecord] /\ Len(areas) \in Nat
        /\ TypeOK'
    BY ChainProperties, AreasFunction, BeginAreaType DEF TypeOK
  <2>2. gc'.current_area = a
    BY <1>5, ReadyType DEF TypeOK
  <2>3. a \in AreaIds' /\ AreaIds \subseteq AreaIds'
    BY <1>5, <2>1 DEF AreaIds
  <2>4. Lineage(gc.current_area)' = <<a>> \o chain
    BY <1>5, <2>1, <2>2 DEF Lineage, NULL
  <2>5. (/\ Lineage(gc.current_area) \in Seq(AreaIds)
         /\ areas \in [AreaIds -> AreaRecord])'
    BY <2>1, ChainFactsNext
  <2>6. PICK after : after = areas'
    OBVIOUS
  <2>7. PICK longer : longer = Lineage(gc.current_area)'
    OBVIOUS
  <2>8. PICK R : R = AreaIds'
    OBVIOUS
  <2>9. ChainBytes' = Total(Weights(after, longer))
    BY <2>6, <2>7 DEF ChainBytes, Weights
  <2>10. /\ longer \in Seq(R) /\ longer = <<a>> \o chain
         /\ after \in [R -> AreaRecord] /\ a \in R
    BY <2>3, <2>4, <2>5, <2>6, <2>7, <2>8
  <2>11. \A i \in 1 .. Len(chain) : after[chain[i]].allocations = areas[chain[i]].allocations
    BY <1>5, <2>1, <2>6, ElementOfSeq
  <2>12. after[a].allocations = <<>>
    BY <1>5, <2>6
  <2>. HIDE DEF a, chain
  <2>13. Total(Weights(after, longer)) = Total(Weights(areas, chain)) + SumSizes(after[a].allocations)
    <3>1. HeadedBy(areas, AreaIds, chain, after, R, longer, a)
      BY <2>1, <2>10, <2>11 DEF HeadedBy
    <3>. QED  BY <3>1, HeadedWeights
  <2>14. SumSizes(after[a].allocations) = 0
    BY <2>12, SumNothing
  <2>15. ChainBytes = Total(Weights(areas, chain))
    BY ChainBytesType DEF chain
  <2>. QED  BY <1>1, <2>9, <2>13, <2>14, <2>15
<1>. QED  BY <1>2, <1>4, <1>5, BeginShape

LEMMA EndBytes ==
  ASSUME TypeOK, ChainInv, BytesInv, EndCurrent
  PROVE  BytesInv'
<1>. DEFINE a == gc.current_area
            chain == Lineage(a)
            tail == Lineage(Parent(a))
            after == [areas EXCEPT ![a] = Ended(areas[a])]
<1>1. /\ a \in AreaIds
      /\ areas \in [AreaIds -> AreaRecord] /\ Len(areas) \in Nat
      /\ chain \in Seq(AreaIds)
  BY AreasFunction, ChainProperties DEF EndCurrent, TypeOK, ManagerOK, NULL, AreaIds
<1>2. /\ areas' = after
      /\ gc'.current_area = Parent(a)
      /\ stats' = [stats EXCEPT !.total_freed = @ + SumSizes(areas[a].allocations)]
  BY DEF EndCurrent, dragonstone_gc_end_area, TypeOK, ManagerOK
<1>3. /\ tail \in Seq(AreaIds)
      /\ ToSet(tail) = ToSet(chain) \ {a}
      /\ chain = <<a>> \o tail
  <2>1. ParentsOK
    BY DEF ChainInv
  <2>2. chain = areas[a].lineage
    BY <1>1 DEF Lineage, NULL, AreaIds
  <2>3. areas[a].lineage = <<a>> \o tail
    BY <1>1, <2>1 DEF ParentsOK
  <2>4. /\ tail \in Seq(AreaIds)
        /\ ToSet(tail) = ToSet(chain) \ {a}
    BY <1>1, <2>1, PoppedChain
  <2>. HIDE DEF a, chain, tail
  <2>. QED  BY <2>2, <2>3, <2>4
<1>4. /\ after \in [AreaIds -> AreaRecord]
      /\ \A b \in AreaIds \ {a} : after[b] = areas[b]
      /\ \A b \in AreaIds : after[b].lineage = areas[b].lineage
  BY <1>1, EndedProperties
<1>5. Lineage(gc.current_area)' = tail
  <2>1. Parent(a) \in {NULL} \cup AreaIds
    BY <1>1, ParentProperties DEF TypeOK, NULL, AreaIds
  <2>. QED  BY <1>2, <1>4, <2>1 DEF Lineage
<1>. HIDE DEF after
<1>6. ChainBytes' = Total(Weights(after, tail))
  BY <1>2, <1>5 DEF ChainBytes, Weights
<1>7. \A i \in 1 .. Len(tail) : areas[tail[i]].allocations = after[tail[i]].allocations
  <2>1. \A i \in 1 .. Len(tail) : tail[i] \in AreaIds \ {a}
    <3>. SUFFICES ASSUME NEW i \in 1 .. Len(tail) PROVE tail[i] \in AreaIds \ {a}
      OBVIOUS
    <3>1. tail \in [1 .. Len(tail) -> AreaIds]
      BY <1>3, LenProperties
    <3>2. tail[i] \in ToSet(tail)
      BY <3>1 DEF ToSet
    <3>. HIDE DEF a, chain, tail
    <3>. QED  BY <1>3, <3>1, <3>2
  <2>. QED  BY <1>4, <2>1
<1>8. ChainBytes = Total(Weights(areas, chain)) /\ ChainBytes \in Int
  BY ChainBytesType
<1>. HIDE DEF tail, chain, a
<1>9. Total(Weights(areas, chain)) = Total(Weights(after, tail)) + SumSizes(areas[a].allocations)
  <2>1. HeadedBy(after, AreaIds, tail, areas, AreaIds, chain, a)
    BY <1>1, <1>3, <1>4, <1>7 DEF HeadedBy
  <2>. QED  BY <2>1, HeadedWeights
<1>10. Total(Weights(after, tail)) \in Int /\ SumSizes(areas[a].allocations) \in Int
  BY <1>1, <1>3, <1>4, WeightsType, TotalType, SumType DEF AreaRecord
<1>11. /\ stats.total_allocated \in Int /\ stats.total_freed \in Int
       /\ stats.total_freed + ChainBytes <= stats.total_allocated
       /\ stats' = [total_allocated |-> stats.total_allocated,
                    total_freed |-> stats.total_freed + SumSizes(areas[a].allocations)]
  BY <1>2 DEF BytesInv, StatsOK, FreedWithinAllocated
<1>12. (stats.total_freed + SumSizes(areas[a].allocations)) + Total(Weights(after, tail))
         <= stats.total_allocated
  BY <1>8, <1>9, <1>10, <1>11
<1>. QED  BY <1>6, <1>10, <1>11, <1>12, BytesStep

LEMMA ShutdownBytes ==
  ASSUME TypeOK, ChainInv, BytesInv, dragonstone_gc_shutdown
  PROVE  BytesInv'
<1>1. gc'.current_area = NULL /\ stats' = [stats EXCEPT !.total_freed = @ + ChainBytes]
  BY DEF dragonstone_gc_shutdown, TypeOK, ManagerOK
<1>2. ChainBytes' = 0
  <2>1. Lineage(gc.current_area)' = <<>>
    BY <1>1 DEF Lineage
  <2>2. ChainBytes' = Total([i \in 1 .. Len(<<>>) |-> SumSizes(areas'[<<>>[i]].allocations)])
    BY <2>1 DEF ChainBytes
  <2>3. Len(<<>>) = 0
    BY EmptySeq
  <2>4. [i \in 1 .. Len(<<>>) |-> SumSizes(areas'[<<>>[i]].allocations)] = <<>>
    BY <2>3, EmptySeq
  <2>. QED  BY <2>2, <2>4, TotalNothing
<1>3. /\ stats.total_allocated \in Int /\ stats.total_freed \in Int /\ ChainBytes \in Int
      /\ stats.total_freed + ChainBytes <= stats.total_allocated
      /\ stats' = [total_allocated |-> stats.total_allocated,
                   total_freed |-> stats.total_freed + ChainBytes]
  BY <1>1, ChainBytesType DEF BytesInv, StatsOK, FreedWithinAllocated
<1>. QED  BY <1>2, <1>3, BytesStep

(* Steps that leave both counters and every array alone. *)
LEMMA QuietBytes ==
  ASSUME TypeOK, ChainInv, BytesInv, UNCHANGED areas, gc'.current_area = gc.current_area,
         stats' = stats \/ stats' = Counters
  PROVE  BytesInv'
<1>1. ChainBytes' = ChainBytes /\ ChainBytes \in Int
  BY SameBytes, ChainBytesType
<1>2. /\ stats' \in [total_allocated : Int, total_freed : Int]
      /\ stats'.total_freed + ChainBytes <= stats'.total_allocated
  BY CountersBytes DEF BytesInv, StatsOK, FreedWithinAllocated
<1>. QED  BY <1>1, <1>2 DEF BytesInv, StatsOK, FreedWithinAllocated

LEMMA NextBytes ==
  ASSUME TypeOK, ChainInv, BytesInv, Next
  PROVE  BytesInv'
<1>1. /\ gc.current_area \in 0 .. Len(areas) /\ Len(areas) \in Nat
      /\ ChainOpen /\ Ready.current_area = gc.current_area
  BY AreasFunction, ChainInvOpen, ReadyChain DEF TypeOK, ManagerOK
<1>2. ASSUME NEW size \in Sizes,
             dragonstone_gc_alloc(size) \/ dragonstone_gc_alloc_with_finalizer(size)
      PROVE  BytesInv'
  <2>1. PICK S \in {{}} \cup Reclaimable, fin \in BOOLEAN : Obtain(size, fin, S) \/ ObtainNothing(S)
    BY <1>2 DEF dragonstone_gc_alloc, dragonstone_gc_alloc_with_finalizer, Collectable
  <2>2. CASE Obtain(size, fin, S)
    BY <2>2, SizesAssumption, ObtainBytes
  <2>3. CASE ObtainNothing(S)
    BY <1>1, <2>3, QuietBytes DEF ObtainNothing
  <2>. QED  BY <2>1, <2>2, <2>3
<1>3. ASSUME NEW size \in Sizes, NEW p \in Blocks, dragonstone_gc_realloc(p, size)
      PROVE  BytesInv'
  BY <1>3, SizesAssumption, ReallocBytes
<1>4. CASE dragonstone_gc_begin_area
  BY <1>4, BeginBytes
<1>5. CASE EndCurrent
  BY <1>5, EndBytes
<1>6. CASE dragonstone_gc_shutdown
  BY <1>6, ShutdownBytes
<1>7. ASSUME NEW p \in Blocks, dragonstone_gc_escape(p)
      PROVE  BytesInv'
  <2>1. gc.current_area \in AreaIds
    BY <1>1, <1>7 DEF dragonstone_gc_escape, NULL, AreaIds
  <2>2. Parent(gc.current_area) \in {NULL} \cup OpenAreas
    BY <1>1, <2>1, OpenParent
  <2>. QED  BY <1>7, <2>2, EscapeBytes DEF dragonstone_gc_escape
<1>8. ASSUME NEW p \in Blocks, NEW target \in {NULL} \cup ToSet(Lineage(gc.current_area)),
             dragonstone_gc_escape_to(p, target)
      PROVE  BytesInv'
  BY <1>1, <1>8, OpenChain, EscapeBytes
<1>9. ASSUME NEW p \in Blocks, NEW value \in Blocks, dragonstone_gc_write_barrier(p, value)
      PROVE  BytesInv'
  BY <1>9, QuietBytes DEF dragonstone_gc_write_barrier
<1>10. CASE dragonstone_gc_collect \/ BoehmCollect \/ dragonstone_gc_init
  BY <1>1, <1>10, QuietBytes DEF dragonstone_gc_collect, BoehmCollect, dragonstone_gc_init
<1>11. CASE dragonstone_gc_disable \/ dragonstone_gc_enable
  BY <1>11, QuietBytes DEF dragonstone_gc_disable, dragonstone_gc_enable, TypeOK, ManagerOK
<1>. QED  BY <1>2, <1>3, <1>4, <1>5, <1>6, <1>7, <1>8, <1>9, <1>10, <1>11 DEF Next

LEMMA InitBytes == Init => BytesInv
<1>. SUFFICES ASSUME Init PROVE BytesInv
  OBVIOUS
<1>1. Lineage(gc.current_area) = <<>> /\ stats = [total_allocated |-> 0, total_freed |-> 0]
  BY DEF Init, Startup, Lineage
<1>2. ChainBytes = 0
  <2>1. ChainBytes = Total([i \in 1 .. Len(<<>>) |-> SumSizes(areas[<<>>[i]].allocations)])
    BY <1>1 DEF ChainBytes
  <2>2. [i \in 1 .. Len(<<>>) |-> SumSizes(areas[<<>>[i]].allocations)] = <<>>
    BY EmptySeq
  <2>. QED  BY <2>1, <2>2, TotalNothing
<1>. QED  BY <1>1, <1>2 DEF BytesInv, StatsOK, FreedWithinAllocated

LEMMA StutterBytes == BytesInv /\ UNCHANGED vars => BytesInv'
BY DEF BytesInv, StatsOK, FreedWithinAllocated, ChainBytes, Lineage, vars

(* What dragonstone_gc_get_stats reports as freed (gc.c:495, 791), with    *)
(* what the open areas still track, never exceeds what it reports as       *)
(* allocated, across shutdowns and restarts: a block is counted when it is *)
(* obtained or grows, and once at most when its area ends.                 *)
THEOREM FreedWithinAllocatedLifo == Spec => []FreedWithinAllocated
<1>1. Init => TypeOK /\ ChainInv /\ BytesInv
  BY InitType, InitChain, InitBytes
<1>2. TypeOK /\ ChainInv /\ BytesInv /\ [Next]_vars => (TypeOK /\ ChainInv /\ BytesInv)'
  BY NextType, StutterType, NextChain, StutterChain, NextBytes, StutterBytes, ChainInvOpen
<1>3. BytesInv => FreedWithinAllocated
  BY DEF BytesInv
<1>. QED  BY <1>1, <1>2, <1>3, PTL DEF Spec
=============================================================================
