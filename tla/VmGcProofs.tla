------------------------------ MODULE VmGcProofs ------------------------------
(***************************************************************************)
(* Proofs about the bytecode VM over the memory manager (VmGc), for every  *)
(* depth of frames, handlers and executes: that the collector is off while *)
(* a function or block that asked for it is live, whatever is raised and   *)
(* unwound around it, and that a program whose exceptions stay inside its  *)
(* annotated functions leaves every context it entered.                    *)
(***************************************************************************)
EXTENDS VmGc, GcAreaProofs, FiniteSetTheorems

FrameRecord == [kind : {"main", "function", "block"}, mode : Modes, area : 0 .. MaxAreas]

HostRecord == [kind : {"run", "method", "each", "with_disabled"}, depth : 0 .. MaxFrames]

-----------------------------------------------------------------------------
(* Lemmas about stacks. *)

LEMMA Pushed ==
  ASSUME NEW S, NEW s \in Seq(S), NEW e \in S
  PROVE  /\ Append(s, e) \in Seq(S)
         /\ Len(s) \in Nat
         /\ Len(Append(s, e)) = Len(s) + 1
         /\ \A i \in 1 .. Len(s) : Append(s, e)[i] = s[i]
         /\ Append(s, e)[Len(s) + 1] = e
BY AppendProperties, LenProperties

LEMMA Popped ==
  ASSUME NEW S, NEW s \in Seq(S), Len(s) >= 1
  PROVE  /\ Front(s) \in Seq(S)
         /\ Len(s) \in Nat \ {0}
         /\ Len(Front(s)) = Len(s) - 1
         /\ \A i \in 1 .. Len(s) - 1 : Front(s)[i] = s[i]
         /\ LastOf(s) = s[Len(s)] /\ LastOf(s) \in S
<1>1. Len(s) \in Nat \ {0} /\ \A i \in 1 .. Len(s) : s[i] \in S
  BY LenProperties, ElementOfSeq
<1>2. Front(s) = SubSeq(s, 1, Len(s) - 1)
  BY DEF Front
<1>3. /\ SubSeq(s, 1, Len(s) - 1) \in Seq(S)
      /\ Len(SubSeq(s, 1, Len(s) - 1)) = IF 1 <= Len(s) - 1 THEN (Len(s) - 1) - 1 + 1 ELSE 0
      /\ \A i \in 1 .. (Len(s) - 1) - 1 + 1 : SubSeq(s, 1, Len(s) - 1)[i] = s[1 + i - 1]
  BY <1>1, SubSeqProperties
<1>4. \A i \in 1 .. Len(s) - 1 : i \in 1 .. (Len(s) - 1) - 1 + 1 /\ 1 + i - 1 = i
  BY <1>1
<1>5. Front(s) \in Seq(S) /\ \A i \in 1 .. Len(s) - 1 : Front(s)[i] = s[i]
  BY <1>2, <1>3, <1>4
<1>6. Len(Front(s)) = Len(s) - 1
  <2>1. (IF 1 <= Len(s) - 1 THEN (Len(s) - 1) - 1 + 1 ELSE 0) = Len(s) - 1
    BY <1>1
  <2>. QED  BY <1>2, <1>3, <2>1
<1>7. Len(s) \in 1 .. Len(s)
  BY <1>1
<1>. QED  BY <1>1, <1>5, <1>6, <1>7 DEF LastOf

LEMMA Kept ==
  ASSUME NEW S, NEW s \in Seq(S), Len(s) >= 1, NEW n \in Nat \ {0}
  PROVE  /\ FirstOf(s, n) \in Seq(S)
         /\ Len(s) \in Nat \ {0}
         /\ Len(FirstOf(s, n)) = IF n < Len(s) THEN n ELSE Len(s)
         /\ \A i \in 1 .. Len(FirstOf(s, n)) : FirstOf(s, n)[i] = s[i]
<1>1. Len(s) \in Nat \ {0} /\ \A i \in 1 .. Len(s) : s[i] \in S
  BY LenProperties, ElementOfSeq
<1>2. CASE n < Len(s)
  <2>1. /\ SubSeq(s, 1, n) \in Seq(S)
        /\ Len(SubSeq(s, 1, n)) = IF 1 <= n THEN n - 1 + 1 ELSE 0
        /\ \A i \in 1 .. n - 1 + 1 : SubSeq(s, 1, n)[i] = s[1 + i - 1]
    BY <1>1, <1>2, SubSeqProperties
  <2>2. Len(SubSeq(s, 1, n)) = n /\ \A i \in 1 .. n : SubSeq(s, 1, n)[i] = s[i]
    <3>1. \A i \in 1 .. n : i \in 1 .. n - 1 + 1 /\ 1 + i - 1 = i
      OBVIOUS
    <3>. QED  BY <2>1, <3>1
  <2>. QED  BY <1>1, <1>2, <2>1, <2>2 DEF FirstOf
<1>3. CASE ~(n < Len(s))
  BY <1>1, <1>3 DEF FirstOf
<1>. QED  BY <1>2, <1>3

-----------------------------------------------------------------------------
(* How many of the first n contexts keep the collector off. *)

Off(modes, n) == {i \in 1 .. n : modes[i] = "disabled"}

Cost(mode) == IF mode = "disabled" THEN 1 ELSE 0

LEMMA OffFinite ==
  ASSUME NEW modes, NEW n \in Nat
  PROVE  IsFiniteSet(Off(modes, n)) /\ Cardinality(Off(modes, n)) \in Nat
<1>1. IsFiniteSet(1 .. n) /\ Off(modes, n) \in SUBSET (1 .. n)
  BY FS_Interval DEF Off
<1>. QED  BY <1>1, FS_Subset, FS_CardinalityType

LEMMA OffOneMore ==
  ASSUME NEW n \in Nat, NEW modes, NEW more, \A i \in 1 .. n : more[i] = modes[i]
  PROVE  Cardinality(Off(more, n + 1)) = Cardinality(Off(modes, n)) + Cost(more[n + 1])
<1>1. n + 1 \notin Off(modes, n)
  BY DEF Off
<1>2. IsFiniteSet(Off(modes, n)) /\ Cardinality(Off(modes, n)) \in Nat
  BY OffFinite
<1>3. CASE more[n + 1] = "disabled"
  <2>1. Off(more, n + 1) = Off(modes, n) \cup {n + 1}
    BY <1>3 DEF Off
  <2>2. Cardinality(Off(modes, n) \cup {n + 1}) = Cardinality(Off(modes, n)) + 1
    BY <1>1, <1>2, FS_AddElement
  <2>. QED  BY <1>3, <2>1, <2>2 DEF Cost
<1>4. CASE more[n + 1] # "disabled"
  <2>1. Off(more, n + 1) = Off(modes, n)
    BY <1>4 DEF Off
  <2>. QED  BY <1>2, <1>4, <2>1 DEF Cost
<1>. QED  BY <1>3, <1>4

LEMMA OffFewer ==
  ASSUME NEW n \in Nat, NEW k \in 0 .. n, NEW modes, NEW fewer,
         \A i \in 1 .. k : fewer[i] = modes[i]
  PROVE  /\ Cardinality(Off(fewer, k)) <= Cardinality(Off(modes, n))
         /\ (\A i \in k + 1 .. n : modes[i] # "disabled")
              => Cardinality(Off(fewer, k)) = Cardinality(Off(modes, n))
<1>1. IsFiniteSet(Off(modes, n)) /\ Off(fewer, k) \in SUBSET Off(modes, n)
  BY OffFinite DEF Off
<1>2. Cardinality(Off(fewer, k)) <= Cardinality(Off(modes, n))
  BY <1>1, FS_Subset
<1>3. (\A i \in k + 1 .. n : modes[i] # "disabled") => Off(fewer, k) = Off(modes, n)
  BY DEF Off
<1>. QED  BY <1>2, <1>3

FrameModes == [i \in 1 .. Len(frames) |-> frames[i].mode]
HostModes == [i \in 1 .. Len(hosts) |-> HostMode(hosts[i])]

FrameCount == Cardinality(Off(FrameModes, Len(frames)))
HostCount == Cardinality(Off(HostModes, Len(hosts)))

LEMMA FramePushed ==
  ASSUME frames \in Seq(FrameRecord), NEW f \in FrameRecord, frames' = Append(frames, f)
  PROVE  /\ frames' \in Seq(FrameRecord)
         /\ Len(frames) \in Nat /\ Len(frames') = Len(frames) + 1
         /\ \A i \in 1 .. Len(frames) : frames'[i] = frames[i]
         /\ frames'[Len(frames) + 1] = f
         /\ FrameCount \in Nat /\ FrameCount' = FrameCount + Cost(f.mode)
<1>1. /\ frames' \in Seq(FrameRecord)
      /\ Len(frames) \in Nat /\ Len(frames') = Len(frames) + 1
      /\ \A i \in 1 .. Len(frames) : frames'[i] = frames[i]
      /\ frames'[Len(frames) + 1] = f
  BY Pushed
<1>2. \A i \in 1 .. Len(frames) : FrameModes'[i] = FrameModes[i]
  BY <1>1 DEF FrameModes
<1>3. FrameModes'[Len(frames) + 1] = f.mode
  BY <1>1 DEF FrameModes
<1>4. FrameCount' = Cardinality(Off(FrameModes', Len(frames) + 1))
  BY <1>1 DEF FrameCount
<1>5. FrameCount' = FrameCount + Cost(FrameModes'[Len(frames) + 1])
  BY <1>1, <1>2, <1>4, OffOneMore DEF FrameCount
<1>. QED  BY <1>1, <1>3, <1>5, OffFinite DEF FrameCount

LEMMA FramePopped ==
  ASSUME frames \in Seq(FrameRecord), Len(frames) >= 1, frames' = Front(frames)
  PROVE  /\ frames' \in Seq(FrameRecord)
         /\ Len(frames) \in Nat \ {0} /\ Len(frames') = Len(frames) - 1
         /\ \A i \in 1 .. Len(frames') : frames'[i] = frames[i]
         /\ LastOf(frames) = frames[Len(frames)] /\ LastOf(frames) \in FrameRecord
         /\ FrameCount \in Nat /\ FrameCount' \in Nat
         /\ FrameCount = FrameCount' + Cost(LastOf(frames).mode)
<1>1. /\ frames' \in Seq(FrameRecord)
      /\ Len(frames) \in Nat \ {0} /\ Len(frames') = Len(frames) - 1
      /\ \A i \in 1 .. Len(frames') : frames'[i] = frames[i]
      /\ LastOf(frames) = frames[Len(frames)] /\ LastOf(frames) \in FrameRecord
  BY Popped
<1>. DEFINE n == Len(frames')
<1>2. n \in Nat /\ Len(frames) = n + 1
  BY <1>1
<1>3. \A i \in 1 .. n : FrameModes[i] = FrameModes'[i]
  BY <1>1, <1>2 DEF FrameModes
<1>4. FrameModes[n + 1] = LastOf(frames).mode
  BY <1>1, <1>2 DEF FrameModes
<1>5. FrameCount = Cardinality(Off(FrameModes, n + 1)) /\ FrameCount' = Cardinality(Off(FrameModes', n))
  BY <1>2 DEF FrameCount
<1>. HIDE DEF n
<1>6. FrameCount = FrameCount' + Cost(FrameModes[n + 1])
  BY <1>2, <1>3, <1>5, OffOneMore
<1>. QED  BY <1>1, <1>2, <1>4, <1>5, <1>6, OffFinite

LEMMA HostPushed ==
  ASSUME hosts \in Seq(HostRecord), NEW h \in HostRecord, hosts' = Append(hosts, h)
  PROVE  /\ hosts' \in Seq(HostRecord)
         /\ Len(hosts) \in Nat /\ Len(hosts') = Len(hosts) + 1
         /\ \A i \in 1 .. Len(hosts) : hosts'[i] = hosts[i]
         /\ hosts'[Len(hosts) + 1] = h
         /\ HostCount \in Nat /\ HostCount' = HostCount + Cost(HostMode(h))
<1>1. /\ hosts' \in Seq(HostRecord)
      /\ Len(hosts) \in Nat /\ Len(hosts') = Len(hosts) + 1
      /\ \A i \in 1 .. Len(hosts) : hosts'[i] = hosts[i]
      /\ hosts'[Len(hosts) + 1] = h
  BY Pushed
<1>2. \A i \in 1 .. Len(hosts) : HostModes'[i] = HostModes[i]
  BY <1>1 DEF HostModes
<1>3. HostModes'[Len(hosts) + 1] = HostMode(h)
  BY <1>1 DEF HostModes
<1>4. HostCount' = Cardinality(Off(HostModes', Len(hosts) + 1))
  BY <1>1 DEF HostCount
<1>5. HostCount' = HostCount + Cost(HostModes'[Len(hosts) + 1])
  BY <1>1, <1>2, <1>4, OffOneMore DEF HostCount
<1>. QED  BY <1>1, <1>3, <1>5, OffFinite DEF HostCount

LEMMA HostPopped ==
  ASSUME hosts \in Seq(HostRecord), Len(hosts) >= 1, hosts' = Front(hosts)
  PROVE  /\ hosts' \in Seq(HostRecord)
         /\ Len(hosts) \in Nat \ {0} /\ Len(hosts') = Len(hosts) - 1
         /\ \A i \in 1 .. Len(hosts') : hosts'[i] = hosts[i]
         /\ LastOf(hosts) = hosts[Len(hosts)] /\ LastOf(hosts) \in HostRecord
         /\ HostCount \in Nat /\ HostCount' \in Nat
         /\ HostCount = HostCount' + Cost(HostMode(LastOf(hosts)))
<1>1. /\ hosts' \in Seq(HostRecord)
      /\ Len(hosts) \in Nat \ {0} /\ Len(hosts') = Len(hosts) - 1
      /\ \A i \in 1 .. Len(hosts') : hosts'[i] = hosts[i]
      /\ LastOf(hosts) = hosts[Len(hosts)] /\ LastOf(hosts) \in HostRecord
  BY Popped
<1>. DEFINE n == Len(hosts')
<1>2. n \in Nat /\ Len(hosts) = n + 1
  BY <1>1
<1>3. \A i \in 1 .. n : HostModes[i] = HostModes'[i]
  BY <1>1, <1>2 DEF HostModes
<1>4. HostModes[n + 1] = HostMode(LastOf(hosts))
  BY <1>1, <1>2 DEF HostModes
<1>5. HostCount = Cardinality(Off(HostModes, n + 1)) /\ HostCount' = Cardinality(Off(HostModes', n))
  BY <1>2 DEF HostCount
<1>. HIDE DEF n
<1>6. HostCount = HostCount' + Cost(HostModes[n + 1])
  BY <1>2, <1>3, <1>5, OffOneMore
<1>. QED  BY <1>1, <1>2, <1>4, <1>5, <1>6, OffFinite

-----------------------------------------------------------------------------
(* What the VM does to the memory manager. *)

(* Boehm is off exactly when the manager's own count is above zero, as     *)
(* nothing shuts the manager down while a program runs.                    *)
ManagerInv ==
  /\ TypeOK
  /\ gc.initialized
  /\ boehm_off = IF gc.disable_depth > 0 THEN 1 ELSE 0

(* The manager takes a step that adds d to its count of disables.          *)
Counts(d) == ManagerInv' /\ gc'.disable_depth = gc.disable_depth + d

LEMMA StillManager ==
  ASSUME ManagerInv, UnchangedGc
  PROVE  Counts(0)
<1>1. TypeOK'
  BY StutterType DEF ManagerInv, UnchangedGc
<1>2. gc.disable_depth \in Nat
  BY DEF ManagerInv, TypeOK, ManagerOK
<1>. QED  BY <1>1, <1>2 DEF ManagerInv, Counts, UnchangedGc, vars

LEMMA DisableManager ==
  ASSUME ManagerInv, dragonstone_gc_disable
  PROVE  Counts(1)
<1>1. TypeOK'
  BY NextType DEF ManagerInv, Next
<1>2. gc \in [current_area : 0 .. Len(areas), disable_depth : Nat,
              initialized : BOOLEAN, area_count : Int]
  BY DEF ManagerInv, TypeOK, ManagerOK
<1>. QED  BY <1>1, <1>2 DEF ManagerInv, Counts, dragonstone_gc_disable

LEMMA EnableManager ==
  ASSUME ManagerInv, dragonstone_gc_enable
  PROVE  Counts(-1)
<1>1. TypeOK'
  BY NextType DEF ManagerInv, Next
<1>2. gc \in [current_area : 0 .. Len(areas), disable_depth : Nat,
              initialized : BOOLEAN, area_count : Int]
  BY DEF ManagerInv, TypeOK, ManagerOK
<1>. QED  BY <1>1, <1>2 DEF ManagerInv, Counts, dragonstone_gc_enable

LEMMA AreaManager ==
  ASSUME ManagerInv, dragonstone_gc_begin_area \/ EndCurrent
  PROVE  Counts(0)
<1>1. TypeOK'
  BY NextType DEF ManagerInv, Next
<1>2. gc \in [current_area : 0 .. Len(areas), disable_depth : Nat,
              initialized : BOOLEAN, area_count : Int]
  BY DEF ManagerInv, TypeOK, ManagerOK
<1>3. /\ gc'.disable_depth = gc.disable_depth
      /\ gc'.initialized = gc.initialized
      /\ boehm_off' = boehm_off
  BY <1>2 DEF ManagerInv, dragonstone_gc_begin_area, EndCurrent, dragonstone_gc_end_area, Ready
<1>. QED  BY <1>1, <1>2, <1>3 DEF ManagerInv, Counts

LEMMA EnterContext ==
  ASSUME ManagerInv, NEW mode \in Modes, enter_gc_context(mode)
  PROVE  Counts(Cost(mode))
BY StillManager, DisableManager, AreaManager DEF enter_gc_context, Modes, Cost

LEMMA ExitContext ==
  ASSUME ManagerInv, NEW mode \in Modes, exit_gc_context(mode)
  PROVE  Counts(0 - Cost(mode))
<1>1. CASE mode = "disabled"
  <2>1. Cost(mode) = 1 /\ 0 - 1 = -1
    BY <1>1 DEF Cost
  <2>2. Counts(-1)
    BY <1>1, EnableManager DEF exit_gc_context
  <2>. QED  BY <2>1, <2>2
<1>2. CASE mode # "disabled"
  <2>1. Cost(mode) = 0 /\ 0 - 0 = 0
    BY <1>2 DEF Cost
  <2>2. Counts(0)
    BY <1>2, StillManager, AreaManager DEF exit_gc_context, EndInnermost, Modes
  <2>. QED  BY <2>1, <2>2
<1>. QED  BY <1>1, <1>2

-----------------------------------------------------------------------------
(* The stacks. *)

FramesOK == frames \in Seq(FrameRecord) /\ Len(frames) \in 1 .. MaxFrames

(* Only the run waits with nothing below it. *)
HostsOK ==
  /\ hosts \in Seq(HostRecord)
  /\ Len(hosts) >= 1
  /\ hosts[1] = [kind |-> "run", depth |-> 0]
  /\ \A i \in 2 .. Len(hosts) : hosts[i].depth >= 1

StatusOK ==
  /\ handlers \in Seq(Nat)
  /\ status \in {"running", "returned", "error", "signal", "ended"}
  /\ runs \in 1 .. MaxRuns
  /\ status = "returned" => Len(hosts) > 1
  /\ status = "ended" => Len(hosts) = 1

LEMMA CountTypes ==
  ASSUME FramesOK, HostsOK
  PROVE  FrameCount \in Nat /\ HostCount \in Nat
BY LenProperties, OffFinite DEF FramesOK, HostsOK, FrameCount, HostCount

LEMMA SameFrames ==
  ASSUME FramesOK, UNCHANGED frames
  PROVE  FramesOK' /\ FrameCount' = FrameCount
BY DEF FramesOK, FrameCount, FrameModes

LEMMA SameHosts ==
  ASSUME HostsOK, UNCHANGED hosts
  PROVE  HostsOK' /\ HostCount' = HostCount
BY DEF HostsOK, HostCount, HostModes

LEMMA PushFrame ==
  ASSUME FramesOK, NEW f \in FrameRecord, Len(frames) < MaxFrames, frames' = Append(frames, f)
  PROVE  FramesOK' /\ FrameCount' = FrameCount + Cost(f.mode)
BY FramePushed, FrameBoundsAssumption DEF FramesOK

LEMMA PopFrame ==
  ASSUME FramesOK, Len(frames) > 1, frames' = Front(frames)
  PROVE  FramesOK' /\ FrameCount = FrameCount' + Cost(LastOf(frames).mode)
BY FramePopped, FrameBoundsAssumption DEF FramesOK

LEMMA KeepFrames ==
  ASSUME FramesOK, NEW n \in Nat \ {0}, frames' = FirstOf(frames, n)
  PROVE  /\ FramesOK'
         /\ Len(frames') <= Len(frames)
         /\ \A i \in 1 .. Len(frames') : frames'[i] = frames[i]
         /\ FrameCount' <= FrameCount
         /\ (\A i \in Len(frames') + 1 .. Len(frames) : frames[i].mode # "disabled")
              => FrameCount' = FrameCount
<1>1. /\ frames' \in Seq(FrameRecord)
      /\ Len(frames) \in Nat \ {0}
      /\ Len(frames') = IF n < Len(frames) THEN n ELSE Len(frames)
      /\ \A i \in 1 .. Len(frames') : frames'[i] = frames[i]
  BY Kept DEF FramesOK
<1>2. Len(frames') \in 0 .. Len(frames) /\ Len(frames') \in 1 .. MaxFrames
  BY <1>1, FrameBoundsAssumption DEF FramesOK
<1>. DEFINE k == Len(frames')
            m == Len(frames)
<1>3. \A i \in 1 .. k : FrameModes'[i] = FrameModes[i]
  BY <1>1, <1>2 DEF FrameModes
<1>4. \A i \in k + 1 .. m : FrameModes[i] = frames[i].mode
  BY <1>1, <1>2 DEF FrameModes
<1>5. FrameCount = Cardinality(Off(FrameModes, m)) /\ FrameCount' = Cardinality(Off(FrameModes', k))
  BY DEF FrameCount
<1>6. m \in Nat /\ k \in 0 .. m
  BY <1>1, <1>2
<1>. HIDE DEF k, m
<1>7. /\ FrameCount' <= FrameCount
      /\ (\A i \in k + 1 .. m : FrameModes[i] # "disabled") => FrameCount' = FrameCount
  BY <1>3, <1>5, <1>6, OffFewer
<1>. QED  BY <1>1, <1>2, <1>4, <1>7 DEF FramesOK, k, m

LEMMA PushHost ==
  ASSUME HostsOK, NEW h \in HostRecord, h.depth >= 1, hosts' = Append(hosts, h)
  PROVE  HostsOK' /\ Len(hosts') > 1 /\ HostCount' = HostCount + Cost(HostMode(h))
BY HostPushed DEF HostsOK

LEMMA PopHost ==
  ASSUME HostsOK, Len(hosts) > 1, hosts' = Front(hosts)
  PROVE  HostsOK' /\ HostCount = HostCount' + Cost(HostMode(LastOf(hosts)))
BY HostPopped DEF HostsOK

LEMMA LastHost ==
  ASSUME HostsOK
  PROVE  /\ LastOf(hosts) \in HostRecord
         /\ Len(hosts) > 1 => LastOf(hosts).depth >= 1
         /\ Len(hosts) = 1 => LastOf(hosts).depth = 0
<1>1. Len(hosts) \in Nat /\ Len(hosts) \in 1 .. Len(hosts)
  BY LenProperties DEF HostsOK
<1>2. hosts[Len(hosts)] \in HostRecord
  BY <1>1, ElementOfSeq DEF HostsOK
<1>. QED  BY <1>1, <1>2 DEF HostsOK, LastOf

-----------------------------------------------------------------------------
(* The disables that are in force and the contexts that asked for them. *)

VmInv == ManagerInv /\ FramesOK /\ HostsOK /\ StatusOK

(* The disables that no live context will take back. *)
Owed == gc.disable_depth - (FrameCount + HostCount)

(* A step that leaves as many disables unaccounted for as there were.      *)
Settles == VmInv' /\ Owed' = Owed

LEMMA DepthType ==
  ASSUME ManagerInv
  PROVE  gc.disable_depth \in Nat
BY DEF ManagerInv, TypeOK, ManagerOK

LEMMA CurrentBounded == TypeOK => gc.current_area \in 0 .. MaxAreas
<1>. SUFFICES ASSUME TypeOK PROVE gc.current_area \in 0 .. MaxAreas
  OBVIOUS
<1>1. Len(areas) \in Nat /\ Len(areas) <= MaxAreas
  BY AreasFunction DEF TypeOK, AreasOK
<1>. QED  BY <1>1, BoundsAssumption DEF TypeOK, ManagerOK

LEMMA CurrentBoundedNext == (TypeOK => gc.current_area \in 0 .. MaxAreas)'
BY CurrentBounded, PTL

LEMMA SameStatus ==
  ASSUME StatusOK, UNCHANGED <<handlers, runs>>, Len(hosts') >= 1,
         status' \in {"running", "error", "signal"}
  PROVE  StatusOK'
BY DEF StatusOK

(* A call, in the same execute or in one of its own. *)
LEMMA CallSettles ==
  ASSUME VmInv, NEW kind \in {"function", "block"}, NEW mode \in Modes,
         push_callable_frame(kind, mode),
         UNCHANGED hosts \/ EnterExecute("method") \/ EnterExecute("each"),
         UNCHANGED <<handlers, runs>>
  PROVE  Settles
<1>. DEFINE f == Frame(kind, mode, IF mode = "area" THEN gc'.current_area ELSE NULL)
<1>1. Counts(Cost(mode)) /\ Len(frames) < MaxFrames /\ frames' = Append(frames, f)
  BY EnterContext DEF VmInv, push_callable_frame
<1>2. f \in FrameRecord /\ f.mode = mode
  <2>1. gc'.current_area \in 0 .. MaxAreas /\ NULL \in 0 .. MaxAreas
    BY <1>1, CurrentBoundedNext, BoundsAssumption DEF Counts, ManagerInv, NULL
  <2>. QED  BY <2>1 DEF Frame, FrameRecord
<1>. HIDE DEF f
<1>3. FramesOK' /\ FrameCount' = FrameCount + Cost(mode)
  BY <1>1, <1>2, PushFrame DEF VmInv
<1>4. HostsOK' /\ HostCount' = HostCount
  <2>1. CASE UNCHANGED hosts
    BY <2>1, SameHosts DEF VmInv
  <2>2. ASSUME NEW k \in {"method", "each"}, EnterExecute(k)
        PROVE  HostsOK' /\ HostCount' = HostCount
    <3>. DEFINE h == [kind |-> k, depth |-> Len(frames)]
    <3>1. h \in HostRecord /\ h.depth >= 1 /\ HostMode(h) = "enabled"
      BY FrameBoundsAssumption DEF VmInv, FramesOK, HostRecord, HostMode
    <3>2. hosts' = Append(hosts, h)
      BY <2>2 DEF EnterExecute
    <3>. HIDE DEF h
    <3>3. HostsOK' /\ HostCount' = HostCount + Cost(HostMode(h))
      BY <3>1, <3>2, PushHost DEF VmInv
    <3>. QED  BY <3>1, <3>3, CountTypes DEF VmInv, Cost
  <2>. QED  BY <2>1, <2>2
<1>5. StatusOK'
  BY <1>4, SameStatus DEF VmInv, HostsOK, push_callable_frame
<1>6. Cost(mode) \in Int /\ gc.disable_depth \in Nat
  BY DepthType DEF Cost, VmInv
<1>. QED  BY <1>1, <1>3, <1>4, <1>5, <1>6, CountTypes DEF VmInv, Settles, Owed, Counts

LEMMA DisabledBlockSettles ==
  ASSUME VmInv, with_disabled
  PROVE  Settles
<1>. DEFINE f == Frame("block", "enabled", NULL)
            h == [kind |-> "with_disabled", depth |-> Len(frames)]
<1>1. Counts(1)
  BY DisableManager DEF VmInv, with_disabled
<1>2. f \in FrameRecord /\ f.mode = "enabled"
  BY BoundsAssumption DEF Frame, FrameRecord, Modes, NULL
<1>3. h \in HostRecord /\ h.depth >= 1 /\ HostMode(h) = "disabled"
  BY FrameBoundsAssumption DEF VmInv, FramesOK, HostRecord, HostMode
<1>4. Len(frames) < MaxFrames /\ frames' = Append(frames, f) /\ hosts' = Append(hosts, h)
  BY DEF with_disabled, EnterExecute
<1>. HIDE DEF f, h
<1>5. FramesOK' /\ FrameCount' = FrameCount + 0
  BY <1>2, <1>4, PushFrame DEF VmInv, Cost
<1>6. HostsOK' /\ Len(hosts') > 1 /\ HostCount' = HostCount + 1
  BY <1>3, <1>4, PushHost DEF VmInv, Cost
<1>7. StatusOK'
  BY <1>6 DEF VmInv, StatusOK, HostsOK, with_disabled
<1>8. gc.disable_depth \in Nat
  BY DepthType DEF VmInv
<1>. QED  BY <1>1, <1>5, <1>6, <1>7, <1>8, CountTypes DEF VmInv, Settles, Owed, Counts

(* A frame is left, by a return or by an exception of Crystal's. *)
LEMMA LeaveFrameSettles ==
  ASSUME VmInv, Len(frames) > 1, exit_gc_context(LastOf(frames).mode),
         frames' = Front(frames), UNCHANGED hosts, StatusOK'
  PROVE  Settles
<1>. DEFINE mode == LastOf(frames).mode
<1>1. mode \in Modes
  BY FramePopped DEF VmInv, FramesOK, FrameRecord
<1>2. exit_gc_context(mode)
  OBVIOUS
<1>3. FramesOK' /\ FrameCount = FrameCount' + Cost(mode)
  BY PopFrame DEF VmInv
<1>. HIDE DEF mode
<1>4. Counts(0 - Cost(mode))
  BY <1>1, <1>2, ExitContext DEF VmInv
<1>5. HostsOK' /\ HostCount' = HostCount
  BY SameHosts DEF VmInv
<1>6. Cost(mode) \in Int /\ gc.disable_depth \in Nat
  BY DepthType DEF Cost, VmInv
<1>7. FrameCount \in Nat /\ HostCount \in Nat /\ FrameCount' = FrameCount - Cost(mode)
  <2>1. FrameCount' \in Nat
    BY <1>3, LenProperties, OffFinite DEF FramesOK, FrameCount
  <2>. QED  BY <1>3, <1>6, <2>1, CountTypes DEF VmInv
<1>. QED  BY <1>3, <1>4, <1>5, <1>6, <1>7 DEF VmInv, Settles, Owed, Counts

(* An execute is left by its host. *)
LEMMA LeaveHostSettles ==
  ASSUME VmInv, Len(hosts) > 1, exit_gc_context(HostMode(LastOf(hosts))),
         hosts' = Front(hosts), UNCHANGED frames, StatusOK'
  PROVE  Settles
<1>. DEFINE mode == HostMode(LastOf(hosts))
<1>1. mode \in Modes
  BY DEF HostMode, Modes
<1>2. exit_gc_context(mode)
  OBVIOUS
<1>3. HostsOK' /\ HostCount = HostCount' + Cost(mode)
  BY PopHost DEF VmInv
<1>. HIDE DEF mode
<1>4. Counts(0 - Cost(mode))
  BY <1>1, <1>2, ExitContext DEF VmInv
<1>5. FramesOK' /\ FrameCount' = FrameCount
  BY SameFrames DEF VmInv
<1>6. Cost(mode) \in Int /\ gc.disable_depth \in Nat
  BY DepthType DEF Cost, VmInv
<1>7. FrameCount \in Nat /\ HostCount \in Nat /\ HostCount' = HostCount - Cost(mode)
  <2>1. HostCount' \in Nat
    BY <1>3, LenProperties, OffFinite DEF HostsOK, HostCount
  <2>. QED  BY <1>3, <1>6, <2>1, CountTypes DEF VmInv
<1>. QED  BY <1>3, <1>4, <1>5, <1>6, <1>7 DEF VmInv, Settles, Owed, Counts

LEMMA SameStacksSettle ==
  ASSUME VmInv, UnchangedGc, UNCHANGED <<frames, hosts>>, StatusOK'
  PROVE  Settles
<1>1. Counts(0)
  BY StillManager DEF VmInv
<1>2. FramesOK' /\ FrameCount' = FrameCount /\ HostsOK' /\ HostCount' = HostCount
  BY SameFrames, SameHosts DEF VmInv
<1>. QED  BY <1>1, <1>2, CountTypes, DepthType DEF VmInv, Settles, Owed, Counts

(* What a rescue drops. *)
LEMMA DroppedFrames ==
  ASSUME VmInv, handle_exception
  PROVE  /\ FramesOK'
         /\ Len(frames') <= Len(frames)
         /\ \A i \in 1 .. Len(frames') : frames'[i] = frames[i]
         /\ FrameCount' <= FrameCount
         /\ ~RescueOutside => /\ \A i \in Len(frames') + 1 .. Len(frames) : frames[i].mode = "enabled"
                              /\ FrameCount' = FrameCount
<1>. DEFINE n == LastOf(handlers) + 1
            gone == SubSeq(frames, Len(frames') + 1, Len(frames))
<1>1. n \in Nat \ {0}
  <2>1. handlers \in Seq(Nat) /\ Len(handlers) >= 1
    BY LenProperties, EmptySeq DEF VmInv, StatusOK, handle_exception
  <2>2. LastOf(handlers) \in Nat
    BY <2>1, Popped
  <2>. QED  BY <2>2
<1>2. frames' = FirstOf(frames, n)
  BY DEF handle_exception
<1>. HIDE DEF n
<1>3. /\ FramesOK'
      /\ Len(frames') <= Len(frames)
      /\ \A i \in 1 .. Len(frames') : frames'[i] = frames[i]
      /\ FrameCount' <= FrameCount
      /\ (\A i \in Len(frames') + 1 .. Len(frames) : frames[i].mode # "disabled")
           => FrameCount' = FrameCount
  BY <1>1, <1>2, KeepFrames DEF VmInv
<1>4. ASSUME ~RescueOutside, NEW i \in Len(frames') + 1 .. Len(frames)
      PROVE  frames[i].mode = "enabled"
  <2>1. ~Annotated(gone)
    BY <1>2, <1>4 DEF handle_exception, n
  <2>2. frames \in Seq(FrameRecord) /\ Len(frames) \in Nat /\ Len(frames') \in Nat \ {0}
    BY <1>3, LenProperties DEF VmInv, FramesOK
  <2>. DEFINE k == Len(frames')
              m == Len(frames)
  <2>3. k + 1 \in 1 .. m /\ m \in k + 1 - 1 .. m
    BY <1>3, <1>4, <2>2
  <2>. HIDE DEF k, m
  <2>4. /\ Len(SubSeq(frames, k + 1, m)) = IF k + 1 <= m THEN m - (k + 1) + 1 ELSE 0
        /\ \A j \in 1 .. m - (k + 1) + 1 : SubSeq(frames, k + 1, m)[j] = frames[k + 1 + j - 1]
    BY <2>2, <2>3, SubSeqProperties DEF m, k
  <2>5. k \in Nat /\ m \in Nat /\ i \in k + 1 .. m
    BY <1>4, <2>2 DEF k, m
  <2>6. i - k \in 1 .. m - (k + 1) + 1 /\ k + 1 + (i - k) - 1 = i /\ k + 1 <= m
    BY <2>5
  <2>7. gone[i - k] = frames[i] /\ i - k \in 1 .. Len(gone)
    BY <2>4, <2>6 DEF k, m
  <2>. QED  BY <2>1, <2>7 DEF Annotated
<1>. QED  BY <1>3, <1>4

(* A rescue drops frames without leaving their contexts: it can only add   *)
(* to what is owed, and adds nothing when no annotated frame is dropped.   *)
LEMMA RescueOwes ==
  ASSUME VmInv, handle_exception
  PROVE  VmInv' /\ Owed' >= Owed /\ (~RescueOutside => Owed' = Owed)
<1>1. Counts(0)
  BY StillManager DEF VmInv, handle_exception
<1>2. HostsOK' /\ HostCount' = HostCount
  BY SameHosts DEF VmInv, handle_exception
<1>3. StatusOK'
  BY DEF VmInv, StatusOK, handle_exception
<1>4. FrameCount \in Nat /\ HostCount \in Nat /\ gc.disable_depth \in Nat
  BY CountTypes, DepthType DEF VmInv
<1>5. FramesOK' /\ FrameCount' <= FrameCount /\ (~RescueOutside => FrameCount' = FrameCount)
  BY DroppedFrames
<1>6. FrameCount' \in Nat
  BY <1>5, LenProperties, OffFinite DEF FramesOK, FrameCount
<1>. QED  BY <1>1, <1>2, <1>3, <1>4, <1>5, <1>6 DEF VmInv, Owed, Counts

(* A new run begins with no context, whatever the last one left behind.    *)
LEMMA ResetOwes ==
  ASSUME VmInv, reset_for_run
  PROVE  VmInv' /\ Owed' >= Owed /\ (~RescueOutside => Owed' = Owed)
<1>1. frames' = <<Main>> /\ hosts' = <<[kind |-> "run", depth |-> 0]>>
  BY DEF reset_for_run
<1>2. Main \in FrameRecord /\ Main.mode = "enabled"
  BY BoundsAssumption DEF Main, Frame, FrameRecord, Modes, NULL
<1>3. [kind |-> "run", depth |-> 0] \in HostRecord
  BY FrameBoundsAssumption DEF HostRecord
<1>4. FramesOK' /\ Len(frames') = 1 /\ frames'[1] = Main
  BY <1>1, <1>2, FrameBoundsAssumption DEF FramesOK
<1>5. HostsOK' /\ Len(hosts') = 1 /\ hosts'[1].kind = "run"
  BY <1>1, <1>3 DEF HostsOK
<1>6. FrameCount' = 0
  <2>1. FrameModes' = [i \in 1 .. 1 |-> frames'[i].mode]
    BY <1>4 DEF FrameModes
  <2>2. FrameModes'[1] = "enabled"
    BY <1>2, <1>4, <2>1
  <2>3. Off(FrameModes', 1) = {}
    BY <2>2 DEF Off
  <2>. QED  BY <1>4, <2>3, FS_EmptySet DEF FrameCount
<1>7. HostCount' = 0
  <2>1. HostModes' = [i \in 1 .. 1 |-> HostMode(hosts'[i])]
    BY <1>5 DEF HostModes
  <2>2. HostModes'[1] = "enabled"
    BY <1>5, <2>1 DEF HostMode
  <2>3. Off(HostModes', 1) = {}
    BY <2>2 DEF Off
  <2>. QED  BY <1>5, <2>3, FS_EmptySet DEF HostCount
<1>8. StatusOK'
  <2>1. runs' \in 1 .. MaxRuns /\ handlers' = <<>> /\ status' = "running"
    BY FrameBoundsAssumption DEF VmInv, StatusOK, reset_for_run
  <2>2. <<>> \in Seq(Nat)
    BY EmptySeq
  <2>. QED  BY <2>1, <2>2 DEF StatusOK
<1>9. Counts(0)
  BY StillManager DEF VmInv, reset_for_run
<1>10. FrameCount \in Nat /\ HostCount \in Nat /\ gc.disable_depth \in Nat
  BY CountTypes, DepthType DEF VmInv
<1>11. ~RescueOutside => FrameCount = 0 /\ HostCount = 0
  <2>. SUFFICES ASSUME ~RescueOutside PROVE FrameCount = 0 /\ HostCount = 0
    OBVIOUS
  <2>1. \A i \in 1 .. Len(frames) : frames[i].mode = "enabled"
    BY DEF reset_for_run, Annotated
  <2>2. Off(FrameModes, Len(frames)) = {}
    BY <2>1 DEF Off, FrameModes
  <2>3. Len(hosts) = 1 /\ hosts[1].kind = "run"
    BY DEF VmInv, StatusOK, HostsOK, reset_for_run
  <2>4. Off(HostModes, Len(hosts)) = {}
    <3>1. HostModes = [i \in 1 .. 1 |-> HostMode(hosts[i])]
      BY <2>3 DEF HostModes
    <3>2. HostModes[1] = "enabled"
      BY <2>3, <3>1 DEF HostMode
    <3>. QED  BY <2>3, <3>2 DEF Off
  <2>. QED  BY <2>2, <2>4, FS_EmptySet DEF FrameCount, HostCount
<1>. QED  BY <1>4, <1>5, <1>6, <1>7, <1>8, <1>9, <1>10, <1>11 DEF VmInv, Owed, Counts

LEMMA VmStep ==
  ASSUME VmInv, VmNext
  PROVE  VmInv' /\ Owed' >= Owed /\ (~RescueOutside => Owed' = Owed)
<1>. DEFINE Goal == VmInv' /\ Owed' >= Owed /\ (~RescueOutside => Owed' = Owed)
<1>0. Settles => Goal
  <2>1. Owed \in Int
    BY CountTypes, DepthType DEF VmInv, Owed
  <2>. QED  BY <2>1 DEF Settles
<1>1. CASE \E mode \in Modes : prepare_function_call(mode) \/ call_function_value(mode)
  <2>. PICK mode \in Modes : prepare_function_call(mode) \/ call_function_value(mode)
    BY <1>1
  <2>. QED  BY <1>0, CallSettles DEF prepare_function_call, call_function_value
<1>2. CASE execute_block_iteration
  <2>1. "enabled" \in Modes
    BY DEF Modes
  <2>. QED  BY <1>0, <1>2, <2>1, CallSettles DEF execute_block_iteration
<1>3. CASE with_disabled
  BY <1>0, <1>3, DisabledBlockSettles
<1>4. CASE handle_return
  <2>1. frames \in Seq(FrameRecord) /\ Len(frames) >= 1
    BY DEF VmInv, FramesOK
  <2>2. /\ Len(frames) \in Nat \ {0}
        /\ Front(frames) \in Seq(FrameRecord)
        /\ Len(Front(frames)) = Len(frames) - 1
    BY <2>1, Popped
  <2>3. Len(Front(frames)) # 0
    BY <1>4, <2>2, EmptySeq DEF handle_return
  <2>4. Len(frames) > 1
    BY <2>2, <2>3
  <2>5. status' = "returned" => Len(hosts) > 1
    <3>1. status' = "returned" => Len(Front(frames)) = LastOf(hosts).depth
      BY <1>4 DEF handle_return
    <3>2. Len(hosts) = 1 => LastOf(hosts).depth = 0
      BY LastHost DEF VmInv
    <3>3. Len(hosts) \in Nat /\ Len(hosts) >= 1
      BY LenProperties DEF VmInv, HostsOK
    <3>4. status' = "returned" => Len(hosts) # 1
      BY <2>3, <3>1, <3>2, Zenon
    <3>5. Len(hosts) # 1 => Len(hosts) > 1
      BY <3>3
    <3>. QED  BY <3>4, <3>5, Zenon
  <2>6. StatusOK'
    BY <1>4, <2>5 DEF VmInv, StatusOK, handle_return
  <2>. QED  BY <1>0, <1>4, <2>4, <2>6, LeaveFrameSettles DEF handle_return
<1>5. CASE ResumeHost
  <2>1. Len(hosts) > 1
    BY <1>5 DEF VmInv, StatusOK, ResumeHost
  <2>2. StatusOK'
    BY <1>5 DEF VmInv, StatusOK, ResumeHost
  <2>. QED  BY <1>0, <1>5, <2>1, <2>2, LeaveHostSettles DEF ResumeHost
<1>6. CASE push_handler
  <2>1. handlers' \in Seq(Nat)
    <3>1. Len(frames) - 1 \in Nat /\ handlers \in Seq(Nat)
      BY DEF VmInv, FramesOK, StatusOK
    <3>2. Append(handlers, Len(frames) - 1) \in Seq(Nat)
      BY <3>1, AppendProperties
    <3>. QED  BY <1>6, <3>2 DEF push_handler
  <2>2. StatusOK'
    BY <1>6, <2>1 DEF VmInv, StatusOK, push_handler
  <2>. QED  BY <1>0, <1>6, <2>2, SameStacksSettle DEF push_handler
<1>7. CASE pop_handler
  <2>1. handlers' \in Seq(Nat)
    <3>1. handlers \in Seq(Nat) /\ Len(handlers) >= 1
      BY <1>7, LenProperties, EmptySeq DEF VmInv, StatusOK, pop_handler
    <3>. QED  BY <1>7, <3>1, Popped DEF pop_handler
  <2>2. StatusOK'
    BY <1>7, <2>1 DEF VmInv, StatusOK, pop_handler
  <2>. QED  BY <1>0, <1>7, <2>2, SameStacksSettle DEF pop_handler
<1>8. CASE handle_exception
  BY <1>8, RescueOwes
<1>9. CASE LeaveCode
  <2>1. StatusOK'
    BY <1>9 DEF VmInv, StatusOK, LeaveCode
  <2>. QED  BY <1>0, <1>9, <2>1, SameStacksSettle DEF LeaveCode
<1>10. CASE cleanup_frames_from
  <2>1. LastOf(hosts).depth \in Nat /\ LastOf(hosts).depth >= 1
    BY <1>10, LastHost DEF VmInv, HostRecord, cleanup_frames_from
  <2>2. Len(frames) > 1
    BY <1>10, <2>1 DEF VmInv, FramesOK, cleanup_frames_from
  <2>3. StatusOK'
    BY <1>10 DEF VmInv, StatusOK, cleanup_frames_from
  <2>. QED  BY <1>0, <1>10, <2>2, <2>3, LeaveFrameSettles DEF cleanup_frames_from
<1>11. CASE LeaveExecute
  <2>1. StatusOK'
    BY <1>11 DEF VmInv, StatusOK, Leaving, LeaveExecute
  <2>. QED  BY <1>0, <1>11, <2>1, LeaveHostSettles DEF LeaveExecute
<1>12. CASE LeaveRun
  <2>1. StatusOK'
    BY <1>12 DEF VmInv, StatusOK, LeaveRun
  <2>. QED  BY <1>0, <1>12, <2>1, SameStacksSettle DEF LeaveRun
<1>13. CASE reset_for_run
  BY <1>13, ResetOwes
<1>. QED  BY <1>1, <1>2, <1>3, <1>4, <1>5, <1>6, <1>7, <1>8, <1>9, <1>10, <1>11,
             <1>12, <1>13 DEF VmNext

-----------------------------------------------------------------------------
(* Types, and the collector that is off. *)

LEMMA VmInitInv == VmInit => VmInv /\ Owed = 0
<1>. SUFFICES ASSUME VmInit PROVE VmInv /\ Owed = 0
  OBVIOUS
<1>1. TypeOK
  <2>1. /\ areas = <<>> /\ heap = <<>> /\ Len(areas) = 0 /\ Len(heap) = 0
        /\ areas \in Seq(AreaRecord) /\ heap \in Seq(BlockRecord)
    BY EmptySeq DEF VmInit
  <2>2. ManagerOK
    BY <2>1 DEF VmInit, ManagerOK, Startup, NULL
  <2>3. AreasOK /\ HeapOK
    BY <2>1, BoundsAssumption DEF AreasOK, HeapOK, AreaIds
  <2>4. HistoryOK
    BY DEF VmInit, HistoryOK
  <2>. QED  BY <2>2, <2>3, <2>4 DEF TypeOK
<1>2. ManagerInv /\ gc.disable_depth = 0
  BY <1>1 DEF VmInit, ManagerInv, Startup
<1>3. frames = <<Main>> /\ Main \in FrameRecord /\ Main.mode = "enabled"
  BY BoundsAssumption DEF VmInit, Main, Frame, FrameRecord, Modes, NULL
<1>4. hosts = <<[kind |-> "run", depth |-> 0]>> /\ [kind |-> "run", depth |-> 0] \in HostRecord
  BY FrameBoundsAssumption DEF VmInit, HostRecord
<1>5. FramesOK /\ Len(frames) = 1 /\ frames[1] = Main
  BY <1>3, FrameBoundsAssumption DEF FramesOK
<1>6. HostsOK /\ Len(hosts) = 1 /\ hosts[1].kind = "run"
  BY <1>4 DEF HostsOK
<1>7. FrameCount = 0 /\ HostCount = 0
  <2>1. FrameModes = [i \in 1 .. 1 |-> frames[i].mode] /\ FrameModes[1] = "enabled"
    BY <1>3, <1>5 DEF FrameModes
  <2>2. HostModes = [i \in 1 .. 1 |-> HostMode(hosts[i])] /\ HostModes[1] = "enabled"
    BY <1>6 DEF HostModes, HostMode
  <2>3. Off(FrameModes, 1) = {} /\ Off(HostModes, 1) = {}
    BY <2>1, <2>2 DEF Off
  <2>. QED  BY <1>5, <1>6, <2>3, FS_EmptySet DEF FrameCount, HostCount
<1>8. StatusOK
  BY <1>6, FrameBoundsAssumption, EmptySeq DEF VmInit, StatusOK
<1>. QED  BY <1>2, <1>5, <1>6, <1>7, <1>8 DEF VmInv, Owed

LEMMA VmStutter ==
  VmInv /\ UNCHANGED <<vars, vmVars>> => VmInv' /\ Owed' = Owed
<1>. SUFFICES ASSUME VmInv, UNCHANGED <<vars, vmVars>> PROVE Settles
  BY DEF Settles
<1>1. UnchangedGc /\ UNCHANGED <<frames, hosts, handlers, status, runs>>
  BY DEF UnchangedGc, vmVars
<1>2. StatusOK'
  BY <1>1 DEF VmInv, StatusOK
<1>. QED  BY <1>1, <1>2, SameStacksSettle

(* Every variable of the VM keeps its type, those of the manager included: *)
(* no frame, handler or execute is taken off a stack that has none.        *)
THEOREM VmTypeCorrect == VmSpec => []VmTypeOK
<1>1. VmInit => VmInv
  BY VmInitInv
<1>2. VmInv /\ [VmNext]_<<vars, vmVars>> => VmInv'
  BY VmStep, VmStutter
<1>3. VmInv => VmTypeOK
  BY DEF VmInv, ManagerInv, FramesOK, HostsOK, StatusOK, VmTypeOK, FrameRecord, HostRecord
<1>. QED  BY <1>1, <1>2, <1>3, PTL DEF VmSpec

(* No more contexts are live than disables are in force. *)
NothingMissing == VmInv /\ Owed >= 0

LEMMA LiveCounts ==
  ASSUME NothingMissing
  PROVE  CollectorOff
<1>1. FrameCount \in Nat /\ HostCount \in Nat /\ gc.disable_depth \in Nat
  BY CountTypes, DepthType DEF NothingMissing, VmInv
<1>2. Len(frames) \in Nat /\ Len(hosts) \in Nat
  BY LenProperties DEF NothingMissing, VmInv, FramesOK, HostsOK
<1>3. ASSUME NEW i \in 1 .. Len(frames), frames[i].mode = "disabled"
      PROVE  boehm_off > 0
  <2>1. i \in Off(FrameModes, Len(frames))
    BY <1>3 DEF Off, FrameModes
  <2>2. FrameCount # 0
    BY <1>2, <2>1, OffFinite, FS_EmptySet DEF FrameCount
  <2>. QED  BY <1>1, <2>2 DEF NothingMissing, VmInv, ManagerInv, Owed
<1>4. ASSUME NEW i \in 1 .. Len(hosts), hosts[i].kind = "with_disabled"
      PROVE  boehm_off > 0
  <2>1. i \in Off(HostModes, Len(hosts))
    BY <1>4 DEF Off, HostModes, HostMode
  <2>2. HostCount # 0
    BY <1>2, <2>1, OffFinite, FS_EmptySet DEF HostCount
  <2>. QED  BY <1>1, <2>2 DEF NothingMissing, VmInv, ManagerInv, Owed
<1>. QED  BY <1>3, <1>4 DEF CollectorOff

(* The collector is off while a function or block that asked for it is     *)
(* live, wherever exceptions end: a frame that a rescue drops without      *)
(* leaving its context only keeps the collector off for longer.            *)
THEOREM CollectorAlwaysOff == VmSpec => []CollectorOff
<1>1. VmInit => NothingMissing
  BY VmInitInv DEF NothingMissing
<1>2. NothingMissing /\ [VmNext]_<<vars, vmVars>> => NothingMissing'
  <2>. SUFFICES ASSUME NothingMissing, [VmNext]_<<vars, vmVars>>
                PROVE  NothingMissing'
    OBVIOUS
  <2>1. VmInv' /\ Owed' >= Owed
    <3>1. Owed \in Int
      BY CountTypes, DepthType DEF NothingMissing, VmInv, Owed
    <3>. QED  BY <3>1, VmStep, VmStutter DEF NothingMissing
  <2>2. Owed \in Int /\ Owed' \in Int
    <3>1. (VmInv => Owed \in Int)
      BY CountTypes, DepthType DEF VmInv, Owed
    <3>2. (VmInv => Owed \in Int)'
      <4>1. VmInv' => FrameCount' \in Nat /\ HostCount' \in Nat
        BY LenProperties, OffFinite DEF VmInv, FramesOK, HostsOK, FrameCount, HostCount
      <4>2. VmInv' => gc'.disable_depth \in Nat
        BY DEF VmInv, ManagerInv, TypeOK, ManagerOK
      <4>. QED  BY <4>1, <4>2 DEF Owed
    <3>. QED  BY <2>1, <3>1, <3>2 DEF NothingMissing
  <2>. QED  BY <2>1, <2>2 DEF NothingMissing
<1>3. NothingMissing => CollectorOff
  BY LiveCounts
<1>. QED  BY <1>1, <1>2, <1>3, PTL DEF VmSpec

-----------------------------------------------------------------------------
(* The areas of the live frames. *)

(* The innermost area that the first n frames fs have begun, if any, is a. *)
Inner(fs, n, a) ==
  \/ a = NULL /\ \A i \in 1 .. n : fs[i].mode # "area"
  \/ \E i \in 1 .. n : /\ fs[i].mode = "area"
                       /\ fs[i].area = a
                       /\ \A j \in i + 1 .. n : fs[j].mode # "area"

(* The current area is that of the innermost frame that began one, whose   *)
(* parent is that of the next.                                             *)
AreasFollow ==
  /\ Inner(frames, Len(frames), gc.current_area)
  /\ \A i \in 1 .. Len(frames) :
       frames[i].mode = "area" => /\ frames[i].area \in AreaIds
                                  /\ Inner(frames, i - 1, Parent(frames[i].area))

LEMMA InnerSame ==
  ASSUME NEW n \in Nat, NEW fs, NEW gs, NEW a, \A i \in 1 .. n : fs[i] = gs[i]
  PROVE  Inner(fs, n, a) => Inner(gs, n, a)
BY DEF Inner

LEMMA InnerMore ==
  ASSUME NEW n \in Nat, NEW k \in 0 .. n, NEW fs, NEW a,
         \A i \in k + 1 .. n : fs[i].mode # "area"
  PROVE  Inner(fs, n, a) <=> Inner(fs, k, a)
BY DEF Inner

LEMMA InnerTop ==
  ASSUME NEW n \in Nat, NEW fs, NEW a, fs[n + 1].mode = "area"
  PROVE  Inner(fs, n + 1, a) <=> a = fs[n + 1].area
BY DEF Inner

-----------------------------------------------------------------------------
(* What the steps do to the chain of areas. *)

(* The parent that an area has after a step. *)
ParentNext(b) == IF Len(areas'[b].lineage) > 1 THEN areas'[b].lineage[2] ELSE NULL

SameAreaTree ==
  /\ AreaIds \subseteq AreaIds'
  /\ \A b \in AreaIds : ParentNext(b) = Parent(b)

LEMMA FollowNext ==
  ASSUME Inner(frames', Len(frames'), gc'.current_area),
         \A i \in 1 .. Len(frames') :
           frames'[i].mode = "area" => /\ frames'[i].area \in AreaIds'
                                       /\ Inner(frames', i - 1, ParentNext(frames'[i].area))
  PROVE  AreasFollow'
BY DEF AreasFollow, Parent, ParentNext

LEMMA BeginParent ==
  ASSUME ManagerInv, dragonstone_gc_begin_area, "boehm" \notin Failing
  PROVE  /\ SameAreaTree
         /\ gc'.current_area \in AreaIds'
         /\ ParentNext(gc'.current_area) = gc.current_area
<1>. DEFINE a == Len(areas) + 1
            top == gc.current_area
            area == [state |-> "open", lineage |-> <<a>> \o Lineage(top),
                     allocations |-> <<>>, capacity |-> 0, total_bytes |-> 0]
<1>1. gc' = [gc EXCEPT !.current_area = a, !.area_count = @ + 1] /\ areas' = Append(areas, area)
  BY DEF ManagerInv, dragonstone_gc_begin_area, Ready
<1>2. areas \in Seq(AreaRecord) /\ Len(areas) \in Nat
  BY AreasFunction DEF ManagerInv, TypeOK, AreasOK
<1>3. /\ Len(areas') = a
      /\ \A b \in 1 .. Len(areas) : areas'[b] = areas[b]
      /\ areas'[a] = area
  BY <1>1, <1>2
<1>4. gc'.current_area = a
  <2>1. gc \in [current_area : 0 .. Len(areas), disable_depth : Nat,
                initialized : BOOLEAN, area_count : Int]
    BY DEF ManagerInv, TypeOK, ManagerOK
  <2>. QED  BY <1>1, <2>1
<1>5. SameAreaTree
  BY <1>2, <1>3 DEF SameAreaTree, AreaIds, Parent, ParentNext
<1>6. areas'[a].lineage = <<a>> \o Lineage(top)
  BY <1>3
<1>7. (IF Len(areas'[a].lineage) > 1 THEN areas'[a].lineage[2] ELSE NULL) = top
  <2>. HIDE DEF area
  <2>1. top \in 0 .. Len(areas)
    BY DEF ManagerInv, TypeOK, ManagerOK
  <2>2. CASE top = NULL
    <3>1. Lineage(top) = <<>>
      BY <2>2 DEF Lineage
    <3>2. areas'[a].lineage = <<a>>
      BY <1>6, <3>1
    <3>. QED  BY <2>2, <3>2
  <2>3. CASE top # NULL
    <3>1. top \in AreaIds
      BY <1>2, <2>1, <2>3 DEF AreaIds, NULL
    <3>2. /\ Lineage(top) \in Seq(AreaIds)
          /\ Len(Lineage(top)) \in Nat \ {0}
          /\ Lineage(top)[1] = top
      BY <3>1, LineageProperties DEF ManagerInv, TypeOK
    <3>. DEFINE chain == Lineage(top)
    <3>. HIDE DEF chain
    <3>3. <<a>> \in Seq(Nat) /\ Len(<<a>>) = 1 /\ <<a>>[1] = a
      BY <1>2
    <3>4. chain \in Seq(Nat)
      <4>1. \A i \in 1 .. Len(chain) : chain[i] \in Nat
        BY <1>2, <3>2, ElementOfSeq DEF chain, AreaIds
      <4>2. chain \in [1 .. Len(chain) -> Nat]
        BY <3>2, <4>1, LenProperties DEF chain
      <4>. QED  BY <3>2, <4>2, SegmentIsSeq DEF chain
    <3>5. Len(<<a>> \o chain) = 1 + Len(chain) /\ (<<a>> \o chain)[2] = chain[1]
      <4>1. Len(chain) \in Nat \ {0}
        BY <3>2 DEF chain
      <4>2. /\ Len(<<a>> \o chain) = 1 + Len(chain)
            /\ \A i \in 1 .. 1 + Len(chain) :
                 (<<a>> \o chain)[i] = IF i <= 1 THEN <<a>>[i] ELSE chain[i - 1]
        BY <3>3, <3>4, ConcatProperties
      <4>3. 2 \in 1 .. 1 + Len(chain) /\ 2 - 1 = 1 /\ ~(2 <= 1)
        BY <4>1
      <4>. QED  BY <4>2, <4>3
    <3>. QED  BY <1>6, <3>2, <3>5 DEF chain
  <2>. QED  BY <2>2, <2>3
<1>8. ParentNext(gc'.current_area) = top
  BY <1>4, <1>7 DEF ParentNext
<1>. QED  BY <1>2, <1>3, <1>4, <1>5, <1>8 DEF AreaIds

LEMMA EndParent ==
  ASSUME ManagerInv, EndCurrent
  PROVE  SameAreaTree /\ gc'.current_area = Parent(gc.current_area)
<1>. DEFINE a == gc.current_area
<1>1. gc' = [gc EXCEPT !.current_area = Parent(a), !.area_count = @ - 1]
  BY DEF EndCurrent, dragonstone_gc_end_area
<1>2. gc \in [current_area : 0 .. Len(areas), disable_depth : Nat,
              initialized : BOOLEAN, area_count : Int]
  BY DEF ManagerInv, TypeOK, ManagerOK
<1>3. areas \in [AreaIds -> AreaRecord] /\ Len(areas) \in Nat /\ a \in AreaIds
  BY <1>2, AreasFunction DEF ManagerInv, TypeOK, EndCurrent, AreaIds, NULL
<1>4. areas' = [areas EXCEPT ![a] = Ended(areas[a])]
  BY DEF EndCurrent, dragonstone_gc_end_area
<1>5. Ended(areas[a]).lineage = areas[a].lineage
  BY <1>3 DEF Ended, AreaRecord
<1>6. Len(areas') = Len(areas) /\ \A b \in AreaIds : areas'[b].lineage = areas[b].lineage
  BY <1>3, <1>4, <1>5 DEF AreaIds
<1>. QED  BY <1>1, <1>2, <1>6 DEF SameAreaTree, AreaIds, Parent, ParentNext

LEMMA SameTree ==
  ASSUME ManagerInv, UnchangedGc \/ dragonstone_gc_disable \/ dragonstone_gc_enable
  PROVE  SameAreaTree /\ gc'.current_area = gc.current_area
<1>1. gc \in [current_area : 0 .. Len(areas), disable_depth : Nat,
              initialized : BOOLEAN, area_count : Int]
  BY DEF ManagerInv, TypeOK, ManagerOK
<1>2. UNCHANGED areas /\ gc'.current_area = gc.current_area
  BY <1>1 DEF UnchangedGc, vars, dragonstone_gc_disable, dragonstone_gc_enable
<1>. QED  BY <1>2 DEF SameAreaTree, AreaIds, Parent, ParentNext

-----------------------------------------------------------------------------
(* The current area follows the frames. *)

LEMMA FollowTypes ==
  ASSUME VmInv
  PROVE  /\ Len(frames) \in Nat \ {0}
         /\ AreaIds \subseteq Nat \ {0}
         /\ gc.current_area \in {NULL} \cup AreaIds
<1>1. Len(areas) \in Nat
  BY AreasFunction DEF VmInv, ManagerInv, TypeOK
<1>. QED  BY <1>1 DEF VmInv, ManagerInv, TypeOK, ManagerOK, FramesOK, AreaIds, NULL

(* Frames that began no area are dropped, or none are. *)
LEMMA FollowDropped ==
  ASSUME VmInv, AreasFollow, SameAreaTree, gc'.current_area = gc.current_area,
         Len(frames') \in 0 .. Len(frames),
         \A i \in 1 .. Len(frames') : frames'[i] = frames[i],
         \A i \in Len(frames') + 1 .. Len(frames) : frames[i].mode # "area"
  PROVE  AreasFollow'
<1>. DEFINE n == Len(frames)
            k == Len(frames')
            cur == gc.current_area
<1>1. n \in Nat /\ k \in 0 .. n /\ k \in Nat
  BY FollowTypes
<1>2. Inner(frames, n, cur)
  BY DEF AreasFollow
<1>3. \A i \in 1 .. k : frames[i] = frames'[i]
  OBVIOUS
<1>4. \A i \in k + 1 .. n : frames[i].mode # "area"
  OBVIOUS
<1>5. ASSUME NEW i \in 1 .. k, frames'[i].mode = "area"
      PROVE  frames'[i].area \in AreaIds' /\ Inner(frames', i - 1, ParentNext(frames'[i].area))
  <2>1. frames[i].area \in AreaIds /\ Inner(frames, i - 1, Parent(frames[i].area))
    BY <1>1, <1>3, <1>5 DEF AreasFollow
  <2>2. frames'[i].area \in AreaIds' /\ ParentNext(frames'[i].area) = Parent(frames[i].area)
    BY <1>3, <2>1 DEF SameAreaTree
  <2>. DEFINE p == Parent(frames[i].area)
              m == i - 1
  <2>3. m \in Nat /\ \A j \in 1 .. m : frames[j] = frames'[j]
    BY <1>1, <1>3
  <2>4. Inner(frames, m, p)
    BY <2>1
  <2>. HIDE DEF p, m
  <2>5. Inner(frames', m, p)
    BY <2>3, <2>4, InnerSame
  <2>. QED  BY <2>2, <2>5 DEF p, m
<1>. HIDE DEF n, k, cur
<1>6. Inner(frames, k, cur)
  BY <1>1, <1>2, <1>4, InnerMore
<1>7. Inner(frames', k, cur)
  BY <1>1, <1>3, <1>6, InnerSame
<1>. QED  BY <1>5, <1>7, FollowNext DEF k, cur

(* A frame is entered. *)
LEMMA FollowPushed ==
  ASSUME VmInv, AreasFollow, SameAreaTree, NEW f \in FrameRecord, frames' = Append(frames, f),
         \/ f.mode # "area" /\ gc'.current_area = gc.current_area
         \/ /\ f.mode = "area"
            /\ f.area = gc'.current_area
            /\ gc'.current_area \in AreaIds'
            /\ ParentNext(gc'.current_area) = gc.current_area
  PROVE  AreasFollow'
<1>. DEFINE n == Len(frames)
            cur == gc.current_area
            new == gc'.current_area
<1>1. /\ n \in Nat
      /\ Len(frames') = n + 1
      /\ \A i \in 1 .. n : frames[i] = frames'[i]
      /\ frames'[n + 1] = f
  BY FramePushed DEF VmInv, FramesOK
<1>2. Inner(frames, n, cur)
  BY DEF AreasFollow
<1>3. ASSUME NEW i \in 1 .. n, frames'[i].mode = "area"
      PROVE  frames'[i].area \in AreaIds' /\ Inner(frames', i - 1, ParentNext(frames'[i].area))
  <2>1. frames[i].area \in AreaIds /\ Inner(frames, i - 1, Parent(frames[i].area))
    BY <1>1, <1>3 DEF AreasFollow
  <2>2. frames'[i].area \in AreaIds' /\ ParentNext(frames'[i].area) = Parent(frames[i].area)
    BY <1>1, <2>1 DEF SameAreaTree
  <2>. DEFINE p == Parent(frames[i].area)
              m == i - 1
  <2>3. m \in Nat /\ \A j \in 1 .. m : frames[j] = frames'[j]
    BY <1>1
  <2>4. Inner(frames, m, p)
    BY <2>1
  <2>. HIDE DEF p, m
  <2>5. Inner(frames', m, p)
    BY <2>3, <2>4, InnerSame
  <2>. QED  BY <2>2, <2>5 DEF p, m
<1>4. f.mode = "area" => f.area = new /\ new \in AreaIds' /\ ParentNext(new) = cur
  OBVIOUS
<1>5. f.mode # "area" => new = cur
  OBVIOUS
<1>. HIDE DEF n, cur, new
<1>6. Inner(frames', n, cur)
  BY <1>1, <1>2, InnerSame
<1>7. Inner(frames', n + 1, new)
  <2>1. CASE f.mode = "area"
    <3>1. frames'[n + 1].mode = "area" /\ new = frames'[n + 1].area
      BY <1>1, <1>4, <2>1
    <3>. QED  BY <1>1, <3>1, InnerTop
  <2>2. CASE f.mode # "area"
    <3>1. n \in 0 .. n + 1 /\ n + 1 \in Nat /\ \A i \in n + 1 .. n + 1 : frames'[i].mode # "area"
      BY <1>1, <2>2
    <3>. QED  BY <1>5, <1>6, <2>2, <3>1, InnerMore
  <2>. QED  BY <2>1, <2>2
<1>8. ASSUME NEW i \in 1 .. n + 1, frames'[i].mode = "area"
      PROVE  frames'[i].area \in AreaIds' /\ Inner(frames', i - 1, ParentNext(frames'[i].area))
  <2>1. CASE i \in 1 .. n
    BY <1>3, <1>8, <2>1
  <2>2. CASE i = n + 1
    <3>1. i - 1 = n
      BY <1>1, <2>2
    <3>. QED  BY <1>1, <1>4, <1>6, <1>8, <2>2, <3>1
  <2>3. i \in 1 .. n \/ i = n + 1
    BY <1>1
  <2>. QED  BY <2>1, <2>2, <2>3
<1>9. \A i \in 1 .. Len(frames') :
        frames'[i].mode = "area" =>
          frames'[i].area \in AreaIds' /\ Inner(frames', i - 1, ParentNext(frames'[i].area))
  BY <1>1, <1>8
<1>10. Inner(frames', Len(frames'), gc'.current_area)
  BY <1>1, <1>7 DEF new
<1>. QED  BY <1>9, <1>10, FollowNext

(* A frame is left, and with it its context. *)
LEMMA FollowPopped ==
  ASSUME VmInv, AreasFollow, frames' = Front(frames), exit_gc_context(LastOf(frames).mode)
  PROVE  AreasFollow'
<1>. DEFINE n == Len(frames)
            k == Len(frames')
            cur == gc.current_area
            mode == LastOf(frames).mode
<1>1. /\ n \in Nat \ {0} /\ k = n - 1
      /\ \A i \in 1 .. k : frames'[i] = frames[i]
      /\ mode = frames[n].mode /\ mode \in Modes
  BY FramePopped DEF VmInv, FramesOK, FrameRecord
<1>2. exit_gc_context(mode)
  OBVIOUS
<1>3. k \in 0 .. n /\ \A i \in k + 1 .. n : i = n
  BY <1>1
<1>. HIDE DEF mode
<1>4. CASE mode # "area"
  <2>1. UnchangedGc \/ dragonstone_gc_enable
    BY <1>1, <1>2, <1>4 DEF exit_gc_context, Modes
  <2>2. SameAreaTree /\ gc'.current_area = gc.current_area
    BY <2>1, SameTree DEF VmInv
  <2>3. \A i \in k + 1 .. n : frames[i].mode # "area"
    BY <1>1, <1>3, <1>4
  <2>. QED  BY <1>1, <1>3, <2>2, <2>3, FollowDropped
<1>5. CASE mode = "area"
  <2>1. EndInnermost
    BY <1>2, <1>5 DEF exit_gc_context
  <2>3. /\ Inner(frames, n, cur)
        /\ \A i \in 1 .. n :
             frames[i].mode = "area" => /\ frames[i].area \in AreaIds
                                        /\ Inner(frames, i - 1, Parent(frames[i].area))
    BY DEF AreasFollow
  <2>4. n \in 1 .. n /\ frames[n].mode = "area" /\ \A i \in 1 .. k : i \in 1 .. n
    BY <1>1, <1>5
  <2>5. \A i \in 1 .. k : frames[i] = frames'[i]
    BY <1>1
  <2>6. n = k + 1 /\ k \in Nat
    BY <1>1
  <2>8. cur = frames[n].area
    <3>1. Inner(frames, k + 1, cur) /\ frames[k + 1].mode = "area"
      BY <2>3, <2>4, <2>6
    <3>2. cur = frames[k + 1].area
      BY <2>6, <3>1, InnerTop
    <3>. QED  BY <2>6, <3>2
  <2>2. SameAreaTree /\ gc'.current_area = Parent(cur)
    <3>1. cur # NULL
      BY <2>3, <2>4, <2>8 DEF AreaIds, NULL
    <3>2. EndCurrent
      BY <2>1, <3>1 DEF EndInnermost
    <3>. QED  BY <3>2, EndParent DEF VmInv
  <2>7. ASSUME NEW i \in 1 .. k, frames'[i].mode = "area"
        PROVE  frames'[i].area \in AreaIds' /\ Inner(frames', i - 1, ParentNext(frames'[i].area))
    <3>1. frames[i].area \in AreaIds /\ Inner(frames, i - 1, Parent(frames[i].area))
      <4>1. i \in 1 .. n /\ frames[i].mode = "area"
        BY <2>4, <2>5, <2>7
      <4>. HIDE DEF n
      <4>. QED  BY <2>3, <4>1
    <3>2. frames'[i].area \in AreaIds' /\ ParentNext(frames'[i].area) = Parent(frames[i].area)
      BY <1>1, <2>2, <3>1 DEF SameAreaTree
    <3>. DEFINE p == Parent(frames[i].area)
                m == i - 1
    <3>3. m \in Nat /\ \A j \in 1 .. m : frames[j] = frames'[j]
      BY <1>1, <2>6
    <3>4. Inner(frames, m, p)
      BY <3>1
    <3>. HIDE DEF p, m
    <3>5. Inner(frames', m, p)
      BY <3>3, <3>4, InnerSame
    <3>. QED  BY <3>2, <3>5 DEF p, m
  <2>. HIDE DEF n, k, cur
  <2>9. Inner(frames, k, Parent(cur))
    <3>1. n - 1 = k
      BY <2>6
    <3>. QED  BY <2>3, <2>4, <2>8, <3>1
  <2>10. Inner(frames', k, gc'.current_area)
    BY <2>2, <2>5, <2>6, <2>9, InnerSame
  <2>. QED  BY <2>7, <2>10, FollowNext DEF k
<1>. QED  BY <1>4, <1>5

LEMMA FollowUnmoved ==
  ASSUME VmInv, AreasFollow, UNCHANGED frames,
         UnchangedGc \/ dragonstone_gc_disable \/ dragonstone_gc_enable
  PROVE  AreasFollow'
<1>1. SameAreaTree /\ gc'.current_area = gc.current_area
  BY SameTree DEF VmInv
<1>2. Len(frames) \in Nat
  BY FollowTypes
<1>. QED  BY <1>1, <1>2, FollowDropped

LEMMA FollowCall ==
  ASSUME VmInv, AreasFollow, "boehm" \notin Failing,
         NEW kind \in {"function", "block"}, NEW mode \in Modes,
         push_callable_frame(kind, mode)
  PROVE  AreasFollow'
<1>. DEFINE f == Frame(kind, mode, IF mode = "area" THEN gc'.current_area ELSE NULL)
<1>1. frames' = Append(frames, f) /\ enter_gc_context(mode)
  BY DEF push_callable_frame
<1>2. f.mode = mode /\ (mode = "area" => f.area = gc'.current_area)
  BY DEF Frame
<1>3. f \in FrameRecord
  <2>1. TypeOK'
    BY <1>1, EnterContext DEF VmInv, Counts, ManagerInv
  <2>2. gc'.current_area \in 0 .. MaxAreas /\ NULL \in 0 .. MaxAreas
    BY <2>1, CurrentBoundedNext, BoundsAssumption DEF NULL
  <2>. QED  BY <2>2 DEF Frame, FrameRecord
<1>. HIDE DEF f
<1>4. CASE mode = "area"
  <2>1. dragonstone_gc_begin_area
    BY <1>1, <1>4 DEF enter_gc_context
  <2>2. /\ SameAreaTree
        /\ gc'.current_area \in AreaIds'
        /\ ParentNext(gc'.current_area) = gc.current_area
    BY <2>1, BeginParent DEF VmInv
  <2>. QED  BY <1>1, <1>2, <1>3, <1>4, <2>2, FollowPushed
<1>5. CASE mode # "area"
  <2>1. UnchangedGc \/ dragonstone_gc_disable
    BY <1>1, <1>5 DEF enter_gc_context, Modes
  <2>2. SameAreaTree /\ gc'.current_area = gc.current_area
    BY <2>1, SameTree DEF VmInv
  <2>. QED  BY <1>1, <1>2, <1>3, <1>5, <2>2, FollowPushed
<1>. QED  BY <1>4, <1>5

LEMMA FollowHost ==
  ASSUME VmInv, AreasFollow, UNCHANGED frames, exit_gc_context(HostMode(LastOf(hosts)))
  PROVE  AreasFollow'
<1>1. UnchangedGc \/ dragonstone_gc_enable
  BY DEF exit_gc_context, HostMode
<1>. QED  BY <1>1, FollowUnmoved

(* Exceptions that end inside the annotated function they are raised in    *)
(* drop no frame that began an area.                                       *)
LEMMA FollowRescue ==
  ASSUME VmInv, AreasFollow, ~RescueOutside, handle_exception
  PROVE  AreasFollow'
<1>1. SameAreaTree /\ gc'.current_area = gc.current_area
  BY SameTree DEF VmInv, handle_exception
<1>2. /\ Len(frames') \in 0 .. Len(frames)
      /\ \A i \in 1 .. Len(frames') : frames'[i] = frames[i]
      /\ \A i \in Len(frames') + 1 .. Len(frames) : frames[i].mode # "area"
  <2>1. Len(frames') \in Nat /\ Len(frames) \in Nat
    BY DroppedFrames, FollowTypes, LenProperties DEF FramesOK
  <2>. QED  BY <2>1, DroppedFrames
<1>. QED  BY <1>1, <1>2, FollowDropped

LEMMA FollowReset ==
  ASSUME VmInv, AreasFollow, ~RescueOutside, reset_for_run
  PROVE  AreasFollow'
<1>1. gc'.current_area = gc.current_area
  BY SameTree DEF VmInv, reset_for_run
<1>2. \A i \in 1 .. Len(frames) : frames[i].mode = "enabled"
  BY DEF reset_for_run, Annotated
<1>3. gc.current_area = NULL
  BY <1>2 DEF AreasFollow, Inner
<1>4. frames' = <<Main>> /\ Main.mode = "enabled"
  BY DEF reset_for_run, Main, Frame
<1>5. Len(frames') = 1 /\ frames'[1].mode = "enabled"
  BY <1>4
<1>6. Inner(frames', Len(frames'), gc'.current_area)
  BY <1>1, <1>3, <1>5 DEF Inner
<1>. QED  BY <1>5, <1>6, FollowNext

LEMMA FollowStep ==
  ASSUME VmInv, AreasFollow, ~RescueOutside, "boehm" \notin Failing, VmNext
  PROVE  AreasFollow'
<1>1. CASE \E mode \in Modes : prepare_function_call(mode) \/ call_function_value(mode)
  <2>. PICK mode \in Modes : prepare_function_call(mode) \/ call_function_value(mode)
    BY <1>1
  <2>. QED  BY FollowCall DEF prepare_function_call, call_function_value
<1>2. CASE execute_block_iteration
  <2>1. "enabled" \in Modes
    BY DEF Modes
  <2>. QED  BY <1>2, <2>1, FollowCall DEF execute_block_iteration
<1>3. CASE with_disabled
  <2>. DEFINE f == Frame("block", "enabled", NULL)
  <2>1. f \in FrameRecord /\ f.mode # "area"
    BY BoundsAssumption DEF Frame, FrameRecord, Modes, NULL
  <2>2. frames' = Append(frames, f) /\ dragonstone_gc_disable
    BY <1>3 DEF with_disabled
  <2>. HIDE DEF f
  <2>3. SameAreaTree /\ gc'.current_area = gc.current_area
    BY <2>2, SameTree DEF VmInv
  <2>. QED  BY <2>1, <2>2, <2>3, FollowPushed
<1>4. CASE handle_return
  BY <1>4, FollowPopped DEF handle_return
<1>5. CASE ResumeHost
  BY <1>5, FollowHost DEF ResumeHost
<1>6. CASE push_handler \/ pop_handler
  BY <1>6, FollowUnmoved DEF push_handler, pop_handler
<1>7. CASE handle_exception
  BY <1>7, FollowRescue
<1>8. CASE LeaveCode \/ LeaveRun
  BY <1>8, FollowUnmoved DEF LeaveCode, LeaveRun
<1>9. CASE cleanup_frames_from
  BY <1>9, FollowPopped DEF cleanup_frames_from
<1>10. CASE LeaveExecute
  BY <1>10, FollowHost DEF LeaveExecute
<1>11. CASE reset_for_run
  BY <1>11, FollowReset
<1>. QED  BY <1>1, <1>2, <1>3, <1>4, <1>5, <1>6, <1>7, <1>8, <1>9, <1>10, <1>11 DEF VmNext

LEMMA FollowInit == VmInit => AreasFollow
<1>. SUFFICES ASSUME VmInit PROVE AreasFollow
  OBVIOUS
<1>1. Len(frames) = 1 /\ frames[1].mode = "enabled" /\ gc.current_area = NULL
  BY DEF VmInit, Main, Frame, Startup
<1>. QED  BY <1>1 DEF AreasFollow, Inner

LEMMA FollowStutter == VmInv /\ AreasFollow /\ UNCHANGED <<vars, vmVars>> => AreasFollow'
BY FollowUnmoved DEF UnchangedGc, vmVars

(* Every disable is some live context's, and the current area is that of   *)
(* the innermost frame that began one.                                     *)
NothingOwed == VmInv /\ Owed = 0 /\ AreasFollow

(* A program whose exceptions end inside the annotated functions they are  *)
(* raised in has left every context by the time it is back in its          *)
(* outermost code: what gc.h:251 asks of the callers of disable, the VM    *)
(* does for them.  Areas are never refused (gc.c:443), as that leaves the  *)
(* parent area to be ended in its place.                                   *)
THEOREM ContextsClosedWhenInside ==
  ASSUME RescueOutside = FALSE, "boehm" \notin Failing
  PROVE  VmSpec => []ContextsClosed
<1>1. VmInit => NothingOwed
  BY VmInitInv, FollowInit DEF NothingOwed
<1>2. NothingOwed /\ [VmNext]_<<vars, vmVars>> => NothingOwed'
  BY VmStep, VmStutter, FollowStep, FollowStutter DEF NothingOwed
<1>3. NothingOwed => ContextsClosed
  <2>. SUFFICES ASSUME NothingOwed, status = "running", frames = <<Main>>, Len(hosts) = 1
                PROVE  gc.disable_depth = 0 /\ gc.current_area = NULL
    BY DEF ContextsClosed
  <2>1. Len(frames) = 1 /\ frames[1].mode = "enabled"
    BY DEF Main, Frame
  <2>2. gc.current_area = NULL
    BY <2>1 DEF NothingOwed, AreasFollow, Inner
  <2>3. Off(FrameModes, Len(frames)) = {}
    BY <2>1 DEF Off, FrameModes
  <2>4. hosts[1].kind = "run"
    BY DEF NothingOwed, VmInv, HostsOK
  <2>5. Off(HostModes, Len(hosts)) = {}
    BY <2>4 DEF Off, HostModes, HostMode
  <2>6. FrameCount = 0 /\ HostCount = 0
    BY <2>3, <2>5, FS_EmptySet DEF FrameCount, HostCount
  <2>. QED  BY <2>2, <2>6, DepthType DEF NothingOwed, VmInv, Owed
<1>. QED  BY <1>1, <1>2, <1>3, PTL DEF VmSpec
=============================================================================
