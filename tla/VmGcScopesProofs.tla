--------------------------- MODULE VmGcScopesProofs ---------------------------
(***************************************************************************)
(* The VM and its memory manager implement GcScopes, for every depth of    *)
(* frames and executes: whatever is called, raised and unwound, the        *)
(* manager's count of disables and its current area are those of the       *)
(* scopes that are open, which open and close innermost first.             *)
(*                                                                         *)
(* First, what a step does to the levels of the stack does to LiveScopes;  *)
(* then, that each step of the VM leaves the scopes alone, opens one or    *)
(* closes the last.                                                        *)
(***************************************************************************)
EXTENDS VmGcProofs

-----------------------------------------------------------------------------
(* Flattening. *)

(* What holds of 1, and of k + 1 when it does of k, holds up to n. *)
LEMMA UpwardsFromOne ==
  ASSUME NEW n \in Nat, NEW T, 1 \in T, \A k \in 1 .. n - 1 : k \in T => k + 1 \in T
  PROVE  1 .. n \subseteq T
<1>. SUFFICES ASSUME ~(1 .. n \subseteq T) PROVE FALSE
  OBVIOUS
<1>. DEFINE missing == {k \in 1 .. n : k \notin T}
<1>1. PICK m \in missing : \A k \in missing : m <= k
  <2>1. missing \subseteq Nat /\ missing # {}
    OBVIOUS
  <2>. HIDE DEF missing
  <2>. QED  BY <2>1, LeastNatural
<1>2. m # 1 /\ m - 1 \in 1 .. n - 1 /\ m - 1 \notin missing
  BY <1>1
<1>. QED  BY <1>1, <1>2

Join(s, t) == s \o t

(* The sequences that flattening more and more of the parts makes. *)
Flattened(S, parts) ==
  {f \in [1 .. Len(parts) -> Seq(S)] :
     f[1] = parts[1] /\ \A k \in 2 .. Len(parts) : f[k] = Join(f[k - 1], parts[k])}

LEMMA JoinType ==
  ASSUME NEW S, NEW s \in Seq(S), NEW t \in Seq(S)
  PROVE  Join(s, t) \in Seq(S)
BY ConcatProperties DEF Join

LEMMA FlattenedExist ==
  ASSUME NEW S, NEW parts \in Seq(Seq(S)), Len(parts) >= 1
  PROVE  Flattened(S, parts) # {}
<1>. DEFINE Upto(m) == {f \in [1 .. m -> Seq(S)] :
                          f[1] = parts[1] /\ \A k \in 2 .. m : f[k] = Join(f[k - 1], parts[k])}
            T == {m \in 1 .. Len(parts) : Upto(m) # {}}
<1>1. Len(parts) \in Nat /\ \A k \in 1 .. Len(parts) : parts[k] \in Seq(S)
  BY LenProperties, ElementOfSeq
<1>2. 1 \in T
  <2>1. [k \in 1 .. 1 |-> parts[1]] \in Upto(1)
    BY <1>1
  <2>2. 1 \in 1 .. Len(parts)
    BY <1>1
  <2>. HIDE DEF Upto
  <2>. QED  BY <2>1, <2>2
<1>3. ASSUME NEW m \in 1 .. Len(parts) - 1, m \in T
      PROVE  m + 1 \in T
  <2>1. PICK f : f \in Upto(m)
    BY <1>3
  <2>. DEFINE g == [k \in 1 .. m + 1 |-> IF k = m + 1 THEN Join(f[m], parts[m + 1]) ELSE f[k]]
  <2>2. f \in [1 .. m -> Seq(S)] /\ f[1] = parts[1] /\ \A k \in 2 .. m : f[k] = Join(f[k - 1], parts[k])
    BY <2>1
  <2>3. m \in Nat \ {0} /\ Join(f[m], parts[m + 1]) \in Seq(S)
    BY <1>1, <2>2, JoinType
  <2>4. g \in [1 .. m + 1 -> Seq(S)] /\ g[1] = parts[1]
    BY <2>2, <2>3
  <2>5. \A k \in 2 .. m + 1 : g[k] = Join(g[k - 1], parts[k])
    BY <2>2, <2>3
  <2>6. g \in Upto(m + 1)
    BY <2>4, <2>5
  <2>7. m + 1 \in 1 .. Len(parts) /\ Upto(m + 1) # {}
    <3>. HIDE DEF Upto
    <3>. QED  BY <1>1, <2>6
  <2>. HIDE DEF Upto
  <2>. QED  BY <2>7
<1>4. 1 .. Len(parts) \subseteq T
  <2>. HIDE DEF T
  <2>. QED  BY <1>1, <1>2, <1>3, UpwardsFromOne
<1>5. Upto(Len(parts)) # {}
  <2>1. Len(parts) \in T
    <3>. HIDE DEF T
    <3>. QED  BY <1>1, <1>4
  <2>. HIDE DEF Upto
  <2>. QED  BY <2>1
<1>. QED  BY <1>5 DEF Flattened

LEMMA FlattenIsLast ==
  ASSUME NEW S, NEW parts \in Seq(Seq(S)), Len(parts) >= 1, NEW f \in Flattened(S, parts)
  PROVE  FlattenSeq(parts) = f[Len(parts)] /\ FlattenSeq(parts) \in Seq(S)
<1>. DEFINE Step(g) == [i \in 1 .. Len(parts) |-> IF i = 1 THEN parts[i] ELSE Join(g[i - 1], parts[i])]
            flatten == CHOOSE g : g = Step(g)
<1>0. Len(parts) \in Nat \ {0}
  BY LenProperties
<1>1. /\ f \in [1 .. Len(parts) -> Seq(S)] /\ f[1] = parts[1]
      /\ \A k \in 2 .. Len(parts) : f[k] = Join(f[k - 1], parts[k])
  BY Zenon DEF Flattened
<1>2. f = Step(f)
  BY <1>0, <1>1
<1>3. flatten = Step(flatten)
  BY <1>2, Zenon
<1>4. FlattenSeq(parts) = flatten[Len(parts)]
  <2>1. Len(parts) # 0
    BY <1>1
  <2>. QED  BY <2>1, Zenon DEF FlattenSeq, Join
<1>. HIDE DEF flatten
<1>. DEFINE T == {k \in 1 .. Len(parts) : flatten[k] = f[k]}
<1>5. 1 \in T
  BY <1>1, <1>3
<1>6. ASSUME NEW k \in 1 .. Len(parts) - 1, k \in T
      PROVE  k + 1 \in T
  BY <1>1, <1>3, <1>6
<1>7. 1 .. Len(parts) \subseteq T
  <2>. HIDE DEF T
  <2>. QED  BY <1>0, <1>5, <1>6, UpwardsFromOne
<1>8. Len(parts) \in 1 .. Len(parts)
  BY <1>0
<1>. QED  BY <1>1, <1>4, <1>7, <1>8

LEMMA FlattenOne ==
  ASSUME NEW S, NEW parts \in Seq(Seq(S)), Len(parts) = 1
  PROVE  FlattenSeq(parts) = parts[1]
<1>1. PICK f : f \in Flattened(S, parts)
  BY FlattenedExist
<1>2. f[1] = parts[1]
  BY <1>1 DEF Flattened
<1>3. FlattenSeq(parts) = f[Len(parts)]
  BY <1>1, FlattenIsLast
<1>. QED  BY <1>2, <1>3

(* One part more. *)
LEMMA FlattenMore ==
  ASSUME NEW S, NEW parts \in Seq(Seq(S)), Len(parts) >= 1,
         NEW more \in Seq(Seq(S)), Len(more) = Len(parts) + 1,
         \A k \in 1 .. Len(parts) : more[k] = parts[k]
  PROVE  FlattenSeq(more) = FlattenSeq(parts) \o more[Len(more)]
<1>. DEFINE n == Len(parts)
<1>1. PICK f : f \in Flattened(S, more)
  <2>1. Len(parts) \in Nat /\ Len(more) >= 1
    BY LenProperties
  <2>. QED  BY <2>1, FlattenedExist
<1>2. /\ n \in Nat \ {0}
      /\ f \in [1 .. n + 1 -> Seq(S)] /\ f[1] = more[1]
      /\ \A k \in 2 .. n + 1 : f[k] = Join(f[k - 1], more[k])
  BY <1>1, LenProperties DEF Flattened
<1>. DEFINE g == [k \in 1 .. n |-> f[k]]
<1>3. g \in Flattened(S, parts)
  <2>1. g \in [1 .. n -> Seq(S)]
    BY <1>2
  <2>2. g[1] = parts[1]
    BY <1>2
  <2>3. \A k \in 2 .. n : g[k] = Join(g[k - 1], parts[k])
    <3>. SUFFICES ASSUME NEW k \in 2 .. n PROVE f[k] = Join(f[k - 1], more[k])
      BY <1>2
    <3>. QED  BY <1>2
  <2>. HIDE DEF g
  <2>. QED  BY <2>1, <2>2, <2>3 DEF Flattened
<1>4. FlattenSeq(parts) = g[n]
  <2>. HIDE DEF g
  <2>. QED  BY <1>3, FlattenIsLast
<1>5. FlattenSeq(more) = f[n + 1]
  <2>1. Len(more) >= 1
    BY <1>2
  <2>. QED  BY <1>1, <2>1, FlattenIsLast
<1>6. f[n + 1] = Join(f[n], more[n + 1]) /\ g[n] = f[n]
  <2>1. n + 1 \in 2 .. n + 1 /\ (n + 1) - 1 = n /\ n \in 1 .. n
    BY <1>2
  <2>2. f[n + 1] = Join(f[(n + 1) - 1], more[n + 1])
    BY <1>2, <2>1
  <2>. QED  BY <2>1, <2>2
<1>. QED  BY <1>4, <1>5, <1>6 DEF Join

-----------------------------------------------------------------------------
(* The scopes of a stack of frames fs and of the executes hs, level by     *)
(* level: those of an execute's host come before those of its first frame. *)

HostScopes(hs, i) ==
  IF \E j \in 1 .. Len(hs) : hs[j].kind = "with_disabled" /\ hs[j].depth = i - 1
  THEN <<NULL>> ELSE <<>>

FrameScopes(fs, i) == IF i > Len(fs) \/ fs[i].mode = "enabled" THEN <<>> ELSE <<fs[i].area>>

Level(fs, hs, i) == HostScopes(hs, i) \o FrameScopes(fs, i)

Levels(fs, hs, n) == FlattenSeq([i \in 1 .. n |-> Level(fs, hs, i)])

LEMMA LiveLevels ==
  /\ LiveScopes = Levels(frames, hosts, Len(frames) + 1)
  /\ LiveScopes' = Levels(frames', hosts', Len(frames') + 1)
BY DEF LiveScopes, ScopesAt, Levels, Level, HostScopes, FrameScopes

LEMMA LevelTypes ==
  ASSUME NEW fs \in Seq(FrameRecord), NEW hs, NEW i \in Nat \ {0}
  PROVE  /\ HostScopes(hs, i) \in Seq(Nat)
         /\ FrameScopes(fs, i) \in Seq(Nat)
         /\ Level(fs, hs, i) \in Seq(Nat)
<1>1. HostScopes(hs, i) \in Seq(Nat)
  BY DEF HostScopes, NULL
<1>2. FrameScopes(fs, i) \in Seq(Nat)
  <2>1. CASE i > Len(fs) \/ fs[i].mode = "enabled"
    BY <2>1 DEF FrameScopes
  <2>2. CASE ~(i > Len(fs) \/ fs[i].mode = "enabled")
    <3>1. i \in 1 .. Len(fs)
      BY <2>2, LenProperties
    <3>2. fs[i].area \in Nat
      <4>1. fs[i] \in FrameRecord
        BY <3>1, ElementOfSeq
      <4>2. fs[i].area \in 0 .. MaxAreas
        BY <4>1 DEF FrameRecord
      <4>. QED  BY <4>2
    <3>. QED  BY <2>2, <3>2 DEF FrameScopes
  <2>. QED  BY <2>1, <2>2
<1>. QED  BY <1>1, <1>2, ConcatProperties DEF Level

LEMMA LevelsSeq ==
  ASSUME NEW fs \in Seq(FrameRecord), NEW hs, NEW n \in Nat \ {0}
  PROVE  /\ [i \in 1 .. n |-> Level(fs, hs, i)] \in Seq(Seq(Nat))
         /\ Len([i \in 1 .. n |-> Level(fs, hs, i)]) = n
<1>. DEFINE parts == [i \in 1 .. n |-> Level(fs, hs, i)]
<1>1. parts \in [1 .. n -> Seq(Nat)]
  BY LevelTypes
<1>. HIDE DEF parts
<1>2. parts \in Seq(Seq(Nat)) /\ Len(parts) = n
  BY <1>1, SegmentIsSeq
<1>. QED  BY <1>2 DEF parts

LEMMA LevelsType ==
  ASSUME NEW fs \in Seq(FrameRecord), NEW hs, NEW n \in Nat \ {0}
  PROVE  Levels(fs, hs, n) \in Seq(Nat)
<1>. DEFINE parts == [i \in 1 .. n |-> Level(fs, hs, i)]
<1>1. parts \in Seq(Seq(Nat)) /\ Len(parts) = n
  BY LevelsSeq
<1>. HIDE DEF parts
<1>2. Len(parts) >= 1
  BY <1>1
<1>3. PICK f : f \in Flattened(Nat, parts)
  BY <1>1, <1>2, FlattenedExist
<1>. QED  BY <1>1, <1>2, <1>3, FlattenIsLast DEF Levels, parts

LEMMA LevelsMore ==
  ASSUME NEW fs \in Seq(FrameRecord), NEW hs, NEW n \in Nat \ {0}
  PROVE  Levels(fs, hs, n + 1) = Levels(fs, hs, n) \o Level(fs, hs, n + 1)
<1>. DEFINE parts == [i \in 1 .. n |-> Level(fs, hs, i)]
            more == [i \in 1 .. n + 1 |-> Level(fs, hs, i)]
<1>1. parts \in Seq(Seq(Nat)) /\ Len(parts) = n
  BY LevelsSeq
<1>2. more \in Seq(Seq(Nat)) /\ Len(more) = n + 1
  <2>1. n + 1 \in Nat \ {0}
    OBVIOUS
  <2>. QED  BY <2>1, LevelsSeq
<1>3. \A k \in 1 .. n : more[k] = parts[k]
  OBVIOUS
<1>4. more[n + 1] = Level(fs, hs, n + 1)
  OBVIOUS
<1>. HIDE DEF parts, more
<1>5. FlattenSeq(more) = FlattenSeq(parts) \o more[Len(more)]
  <2>1. n >= 1
    OBVIOUS
  <2>2. Len(parts) >= 1 /\ Len(more) = Len(parts) + 1
    BY <1>1, <1>2, <2>1
  <2>3. \A k \in 1 .. Len(parts) : more[k] = parts[k]
    BY <1>1, <1>3
  <2>. QED  BY <1>1, <1>2, <2>2, <2>3, FlattenMore
<1>. QED  BY <1>2, <1>4, <1>5 DEF Levels, parts, more

LEMMA LevelsSame ==
  ASSUME NEW fs, NEW hs, NEW gs, NEW ks, NEW n,
         \A i \in 1 .. n : Level(gs, ks, i) = Level(fs, hs, i)
  PROVE  Levels(gs, ks, n) = Levels(fs, hs, n)
<1>1. [i \in 1 .. n |-> Level(gs, ks, i)] = [i \in 1 .. n |-> Level(fs, hs, i)]
  OBVIOUS
<1>. QED  BY <1>1 DEF Levels

LEMMA NumbersAssociate ==
  ASSUME NEW s \in Seq(Nat), NEW t \in Seq(Nat), NEW u \in Seq(Nat)
  PROVE  s \o (t \o u) = (s \o t) \o u
BY ConcatAssociative

(* A frame on top adds its scope. *)
FrameAbove(fs, gs, hs, n) ==
  /\ fs \in Seq(FrameRecord) /\ gs \in Seq(FrameRecord)
  /\ n \in Nat \ {0} /\ Len(fs) = n /\ Len(gs) = n + 1
  /\ \A i \in 1 .. n : gs[i] = fs[i]
  /\ HostScopes(hs, n + 2) = <<>>

LEMMA FrameLevel ==
  ASSUME NEW fs, NEW gs, NEW hs, NEW n, FrameAbove(fs, gs, hs, n)
  PROVE  Levels(gs, hs, n + 2) = Levels(fs, hs, n + 1) \o FrameScopes(gs, n + 1)
<1>. DEFINE below == Levels(fs, hs, n)
            host == HostScopes(hs, n + 1)
            frame == FrameScopes(gs, n + 1)
<1>0. /\ fs \in Seq(FrameRecord) /\ gs \in Seq(FrameRecord)
      /\ n \in Nat \ {0} /\ Len(fs) = n /\ Len(gs) = n + 1
      /\ \A i \in 1 .. n : gs[i] = fs[i]
      /\ HostScopes(hs, n + 2) = <<>>
  BY DEF FrameAbove
<1>1. /\ below \in Seq(Nat) /\ host \in Seq(Nat) /\ frame \in Seq(Nat)
      /\ n + 1 \in Nat \ {0} /\ n + 2 = (n + 1) + 1
  <2>1. n + 1 \in Nat \ {0} /\ n + 2 = (n + 1) + 1
    BY <1>0
  <2>2. below \in Seq(Nat)
    BY <1>0, LevelsType
  <2>. QED  BY <1>0, <2>1, <2>2, LevelTypes
<1>2. Level(gs, hs, n + 2) = <<>> /\ FrameScopes(fs, n + 1) = <<>>
  <2>1. FrameScopes(gs, n + 2) = <<>> /\ FrameScopes(fs, n + 1) = <<>>
    BY <1>0 DEF FrameScopes
  <2>. QED  BY <1>0, <2>1, EmptySeq, ConcatEmptySeq DEF Level
<1>3. Levels(gs, hs, n) = below
  <2>1. \A i \in 1 .. n : Level(gs, hs, i) = Level(fs, hs, i)
    BY <1>0 DEF Level, FrameScopes
  <2>. QED  BY <2>1, LevelsSame
<1>4. Levels(fs, hs, n + 1) = below \o host
  <2>1. Levels(fs, hs, n + 1) = below \o Level(fs, hs, n + 1)
    BY <1>0, LevelsMore
  <2>. QED  BY <1>1, <1>2, <2>1, ConcatEmptySeq DEF Level
<1>5. Levels(gs, hs, n + 1) = below \o (host \o frame)
  BY <1>0, <1>3, LevelsMore DEF Level
<1>6. Levels(gs, hs, n + 2) = Levels(gs, hs, n + 1)
  <2>1. Levels(gs, hs, n + 2) = Levels(gs, hs, n + 1) \o Level(gs, hs, n + 2)
    BY <1>0, <1>1, LevelsMore
  <2>2. Levels(gs, hs, n + 1) \in Seq(Nat)
    BY <1>0, <1>1, LevelsType
  <2>. QED  BY <1>2, <2>1, <2>2, ConcatEmptySeq
<1>. HIDE DEF below, host, frame
<1>7. below \o (host \o frame) = (below \o host) \o frame
  BY <1>1, NumbersAssociate
<1>. QED  BY <1>4, <1>5, <1>6, <1>7 DEF frame

(* An execute on top adds its host's. *)
HostAbove(fs, hs, ks, n) ==
  /\ fs \in Seq(FrameRecord) /\ n \in Nat \ {0} /\ Len(fs) = n
  /\ \A i \in 1 .. n : HostScopes(ks, i) = HostScopes(hs, i)
  /\ HostScopes(hs, n + 1) = <<>>

LEMMA HostLevel ==
  ASSUME NEW fs, NEW hs, NEW ks, NEW n, HostAbove(fs, hs, ks, n)
  PROVE  Levels(fs, ks, n + 1) = Levels(fs, hs, n + 1) \o HostScopes(ks, n + 1)
<1>. DEFINE below == Levels(fs, hs, n)
            host == HostScopes(ks, n + 1)
<1>0. /\ fs \in Seq(FrameRecord) /\ n \in Nat \ {0} /\ Len(fs) = n
      /\ \A i \in 1 .. n : HostScopes(ks, i) = HostScopes(hs, i)
      /\ HostScopes(hs, n + 1) = <<>>
  BY DEF HostAbove
<1>1. below \in Seq(Nat) /\ host \in Seq(Nat) /\ n + 1 \in Nat \ {0}
  <2>1. n + 1 \in Nat \ {0}
    BY <1>0
  <2>2. below \in Seq(Nat)
    BY <1>0, LevelsType
  <2>. QED  BY <1>0, <2>1, <2>2, LevelTypes
<1>2. FrameScopes(fs, n + 1) = <<>>
  BY <1>0 DEF FrameScopes
<1>3. Level(fs, ks, n + 1) = host /\ Level(fs, hs, n + 1) = <<>>
  BY <1>0, <1>1, <1>2, EmptySeq, ConcatEmptySeq DEF Level
<1>4. Levels(fs, ks, n) = below
  <2>1. \A i \in 1 .. n : Level(fs, ks, i) = Level(fs, hs, i)
    BY <1>0 DEF Level
  <2>. QED  BY <2>1, LevelsSame
<1>5. Levels(fs, ks, n + 1) = below \o host
  BY <1>0, <1>3, <1>4, LevelsMore
<1>6. Levels(fs, hs, n + 1) = below
  <2>1. Levels(fs, hs, n + 1) = below \o <<>>
    BY <1>0, <1>3, LevelsMore
  <2>. QED  BY <1>1, <2>1, ConcatEmptySeq
<1>. QED  BY <1>5, <1>6

(* Frames without a scope, above every execute's first, add nothing. *)
LEMMA RescueLevels ==
  ASSUME NEW fs \in Seq(FrameRecord), NEW gs \in Seq(FrameRecord), NEW hs,
         NEW n \in Nat \ {0}, NEW k \in 1 .. n, Len(fs) = n, Len(gs) = k,
         \A i \in 1 .. k : FrameScopes(gs, i) = FrameScopes(fs, i),
         \A i \in k + 1 .. n : fs[i].mode = "enabled",
         \A i \in k + 1 .. n + 1 : HostScopes(hs, i) = <<>>
  PROVE  Levels(gs, hs, k + 1) = Levels(fs, hs, n + 1)
<1>. DEFINE T == {m \in 1 .. n + 1 : m < k \/ Levels(fs, hs, m) = Levels(fs, hs, k)}
<1>1. \A i \in k + 1 .. n + 1 : Level(fs, hs, i) = <<>>
  <2>1. \A i \in k + 1 .. n + 1 : FrameScopes(fs, i) = <<>>
    BY DEF FrameScopes
  <2>. QED  BY <2>1, EmptySeq, ConcatEmptySeq DEF Level
<1>2. 1 \in T
  BY DEF T
<1>3. ASSUME NEW m \in 1 .. (n + 1) - 1, m \in T
      PROVE  m + 1 \in T
  <2>1. CASE m + 1 <= k
    BY <2>1
  <2>2. CASE m >= k
    <3>1. m \in Nat \ {0} /\ m + 1 \in k + 1 .. n + 1
      BY <2>2
    <3>2. Levels(fs, hs, m + 1) = Levels(fs, hs, m) \o Level(fs, hs, m + 1)
      BY <3>1, LevelsMore
    <3>3. Levels(fs, hs, m) \in Seq(Nat) /\ Level(fs, hs, m + 1) = <<>>
      BY <1>1, <3>1, LevelsType
    <3>4. Levels(fs, hs, m + 1) = Levels(fs, hs, m)
      BY <3>2, <3>3, ConcatEmptySeq
    <3>. QED  BY <1>3, <2>2, <3>4
  <2>. QED  BY <2>1, <2>2
<1>4. Levels(fs, hs, n + 1) = Levels(fs, hs, k)
  <2>1. n + 1 \in Nat
    OBVIOUS
  <2>2. n + 1 \in T
    <3>1. 1 .. n + 1 \subseteq T
      <4>. HIDE DEF T
      <4>. QED  BY <1>2, <1>3, <2>1, UpwardsFromOne
    <3>. HIDE DEF T
    <3>. QED  BY <3>1
  <2>. QED  BY <2>2
<1>5. Levels(gs, hs, k) = Levels(fs, hs, k)
  <2>1. \A i \in 1 .. k : Level(gs, hs, i) = Level(fs, hs, i)
    BY DEF Level
  <2>. QED  BY <2>1, LevelsSame
<1>6. Levels(gs, hs, k + 1) = Levels(gs, hs, k)
  <2>1. FrameScopes(gs, k + 1) = <<>> /\ HostScopes(hs, k + 1) = <<>>
    BY DEF FrameScopes
  <2>2. Level(gs, hs, k + 1) = <<>>
    BY <2>1, EmptySeq, ConcatEmptySeq DEF Level
  <2>3. k \in Nat \ {0}
    OBVIOUS
  <2>4. Levels(gs, hs, k + 1) = Levels(gs, hs, k) \o Level(gs, hs, k + 1)
    BY <2>3, LevelsMore
  <2>5. Levels(gs, hs, k) \in Seq(Nat)
    BY <2>3, LevelsType
  <2>. QED  BY <2>2, <2>4, <2>5, ConcatEmptySeq
<1>. QED  BY <1>4, <1>5, <1>6

-----------------------------------------------------------------------------
(* What governs: the scopes that keep the collector off are counted, and   *)
(* the last area of the first n scopes is found.                           *)

Zeros(s, n) == {i \in 1 .. n : s[i] = 0}

LastIn(s, n) == {i \in 1 .. n : s[i] # 0 /\ \A j \in i + 1 .. n : s[j] = 0}

AreaAt(s, last) == IF last = {} THEN 0 ELSE s[CHOOSE i \in last : TRUE]

AreaIn(s, n) == AreaAt(s, LastIn(s, n))

LEMMA GovernedBy ==
  ASSUME NEW s
  PROVE  /\ Scopes!Off(s) = Cardinality(Zeros(s, Len(s)))
         /\ Scopes!Innermost(s) = AreaIn(s, Len(s))
<1>1. Scopes!Off(s) = Cardinality(Zeros(s, Len(s)))
  BY Zenon DEF Scopes!Off, Zeros, Scopes!Cardinality, Cardinality
<1>2. Scopes!Innermost(s) = AreaIn(s, Len(s))
  BY Zenon DEF Scopes!Innermost, AreaIn, AreaAt, LastIn
<1>. QED  BY <1>1, <1>2

LEMMA AreaInMore ==
  ASSUME NEW s, NEW n \in Nat
  PROVE  AreaIn(s, n + 1) = IF s[n + 1] = 0 THEN AreaIn(s, n) ELSE s[n + 1]
<1>1. CASE s[n + 1] = 0
  <2>1. LastIn(s, n + 1) = LastIn(s, n)
    BY <1>1 DEF LastIn
  <2>2. AreaIn(s, n + 1) = AreaIn(s, n)
    BY <2>1 DEF AreaIn
  <2>. QED  BY <1>1, <2>2
<1>2. CASE s[n + 1] # 0
  <2>1. LastIn(s, n + 1) = {n + 1}
    BY <1>2 DEF LastIn
  <2>2. (CHOOSE i \in LastIn(s, n + 1) : TRUE) = n + 1
    BY <2>1
  <2>3. LastIn(s, n + 1) # {}
    BY <2>1
  <2>4. AreaIn(s, n + 1) = s[n + 1]
    BY <2>2, <2>3 DEF AreaIn, AreaAt
  <2>. QED  BY <1>2, <2>4
<1>. QED  BY <1>1, <1>2

LEMMA AreaInSame ==
  ASSUME NEW s, NEW t, NEW n \in Nat, \A i \in 1 .. n : t[i] = s[i]
  PROVE  AreaIn(t, n) = AreaIn(s, n)
<1>1. LastIn(t, n) = LastIn(s, n)
  BY DEF LastIn
<1>2. ASSUME LastIn(s, n) # {}
      PROVE  (CHOOSE i \in LastIn(s, n) : TRUE) \in 1 .. n
  <2>1. (CHOOSE i \in LastIn(s, n) : TRUE) \in LastIn(s, n)
    BY <1>2
  <2>. QED  BY <2>1 DEF LastIn
<1>. QED  BY <1>1, <1>2 DEF AreaIn, AreaAt

LEMMA ZerosFinite ==
  ASSUME NEW s, NEW n \in Nat
  PROVE  IsFiniteSet(Zeros(s, n)) /\ Cardinality(Zeros(s, n)) \in Nat
<1>1. IsFiniteSet(1 .. n) /\ Zeros(s, n) \in SUBSET (1 .. n)
  BY FS_Interval DEF Zeros
<1>. QED  BY <1>1, FS_Subset, FS_CardinalityType

LEMMA ZerosMore ==
  ASSUME NEW s, NEW t, NEW n \in Nat, \A i \in 1 .. n : t[i] = s[i]
  PROVE  Cardinality(Zeros(t, n + 1))
           = Cardinality(Zeros(s, n)) + IF t[n + 1] = 0 THEN 1 ELSE 0
<1>1. n + 1 \notin Zeros(s, n)
  BY DEF Zeros
<1>2. IsFiniteSet(Zeros(s, n)) /\ Cardinality(Zeros(s, n)) \in Nat
  BY ZerosFinite
<1>3. CASE t[n + 1] = 0
  <2>1. Zeros(t, n + 1) = Zeros(s, n) \cup {n + 1}
    BY <1>3 DEF Zeros
  <2>2. Cardinality(Zeros(s, n) \cup {n + 1}) = Cardinality(Zeros(s, n)) + 1
    BY <1>1, <1>2, FS_AddElement
  <2>. QED  BY <1>3, <2>1, <2>2
<1>4. CASE t[n + 1] # 0
  <2>1. Zeros(t, n + 1) = Zeros(s, n)
    BY <1>4 DEF Zeros
  <2>. QED  BY <1>2, <1>4, <2>1
<1>. QED  BY <1>3, <1>4

(* One scope more. *)
LEMMA OneMore ==
  ASSUME NEW s \in Seq(Nat), NEW t \in Seq(Nat), NEW a \in Nat, t = s \o <<a>>
  PROVE  /\ Len(s) \in Nat /\ Len(t) = Len(s) + 1
         /\ \A i \in 1 .. Len(s) : t[i] = s[i]
         /\ t[Len(s) + 1] = a
         /\ t = Append(s, a) /\ s = Front(t) /\ t # <<>>
<1>1. <<a>> \in Seq(Nat) /\ Len(<<a>>) = 1 /\ <<a>>[1] = a
  OBVIOUS
<1>2. t = Append(s, a)
  BY AppendIsConcat
<1>3. /\ Len(s) \in Nat /\ Len(t) = Len(s) + 1
      /\ \A i \in 1 .. Len(s) : t[i] = s[i]
      /\ t[Len(s) + 1] = a
  BY <1>2, Pushed
<1>4. s = Front(t)
  <2>1. Len(t) >= 1
    BY <1>3
  <2>2. /\ Front(t) \in Seq(Nat) /\ Len(Front(t)) = Len(t) - 1
        /\ \A i \in 1 .. Len(t) - 1 : Front(t)[i] = t[i]
    BY <2>1, Popped
  <2>3. Len(Front(t)) = Len(s) /\ \A i \in 1 .. Len(s) : Front(t)[i] = s[i]
    <3>1. Len(t) - 1 = Len(s)
      BY <1>3
    <3>2. Len(Front(t)) = Len(s) /\ \A i \in 1 .. Len(s) : Front(t)[i] = t[i]
      BY <2>2, <3>1
    <3>. QED  BY <1>3, <3>2
  <2>. QED  BY <2>2, <2>3, SeqEqual
<1>5. t # <<>>
  <2>1. Len(<<>>) = 0
    BY EmptySeq
  <2>. QED  BY <1>3, <2>1
<1>. QED  BY <1>2, <1>3, <1>4, <1>5

-----------------------------------------------------------------------------
(* The manager is governed by the scopes, and the parent of a scope's area *)
(* is the area of the next scope below that has one.                       *)
ScopesFollow ==
  /\ LiveScopes \in Seq(Nat)
  /\ Cardinality(Zeros(LiveScopes, Len(LiveScopes))) = gc.disable_depth
  /\ AreaIn(LiveScopes, Len(LiveScopes)) = gc.current_area
  /\ \A k \in 1 .. Len(LiveScopes) : LiveScopes[k] # 0 =>
       LiveScopes[k] \in AreaIds /\ Parent(LiveScopes[k]) = AreaIn(LiveScopes, k - 1)

LEMMA ScopesFollowNext ==
  ASSUME LiveScopes' \in Seq(Nat),
         Cardinality(Zeros(LiveScopes', Len(LiveScopes'))) = gc'.disable_depth,
         AreaIn(LiveScopes', Len(LiveScopes')) = gc'.current_area,
         \A k \in 1 .. Len(LiveScopes') : LiveScopes'[k] # 0 =>
           LiveScopes'[k] \in AreaIds' /\ ParentNext(LiveScopes'[k]) = AreaIn(LiveScopes', k - 1)
  PROVE  ScopesFollow'
BY DEF ScopesFollow, Parent, ParentNext

(* A step of the VM is one of the program's scopes, or none of them. *)
Refines == ScopesFollow' /\ (Scopes!ScopesNext \/ UNCHANGED Scopes!scopeVars)

LEMMA ScopesAlone ==
  ASSUME ScopesFollow, LiveScopes' = LiveScopes, SameAreaTree,
         gc'.disable_depth = gc.disable_depth, gc'.current_area = gc.current_area
  PROVE  Refines
<1>1. ScopesFollow'
  BY ScopesFollowNext DEF ScopesFollow, SameAreaTree
<1>. QED  BY <1>1 DEF Refines, Scopes!scopeVars

LEMMA ScopeOpened ==
  ASSUME ScopesFollow, NEW a \in Nat, LiveScopes' = LiveScopes \o <<a>>, SameAreaTree,
         \/ /\ a = 0
            /\ gc'.disable_depth = gc.disable_depth + 1
            /\ gc'.current_area = gc.current_area
         \/ /\ a # 0 /\ a = gc'.current_area
            /\ a \notin AreaIds /\ a \in AreaIds' /\ ParentNext(a) = gc.current_area
            /\ gc'.disable_depth = gc.disable_depth
  PROVE  Refines
<1>. DEFINE s == LiveScopes
            t == LiveScopes'
            n == Len(LiveScopes)
<1>1. s \in Seq(Nat) /\ t \in Seq(Nat)
  <2>1. <<a>> \in Seq(Nat)
    OBVIOUS
  <2>. QED  BY <2>1, ConcatProperties DEF ScopesFollow
<1>2. /\ n \in Nat /\ Len(t) = n + 1
      /\ \A i \in 1 .. n : t[i] = s[i]
      /\ t[n + 1] = a
      /\ t = Append(s, a)
  BY <1>1, OneMore
<1>. HIDE DEF s, t, n
<1>3. Cardinality(Zeros(t, Len(t))) = gc'.disable_depth
  <2>1. Cardinality(Zeros(t, n + 1)) = Cardinality(Zeros(s, n)) + IF t[n + 1] = 0 THEN 1 ELSE 0
    BY <1>2, ZerosMore
  <2>2. Cardinality(Zeros(s, n)) = gc.disable_depth /\ Cardinality(Zeros(s, n)) \in Nat
    BY <1>2, ZerosFinite DEF ScopesFollow, s, n
  <2>. QED  BY <1>2, <2>1, <2>2
<1>4. \A k \in 0 .. n : AreaIn(t, k) = AreaIn(s, k)
  <2>. SUFFICES ASSUME NEW k \in 0 .. n PROVE AreaIn(t, k) = AreaIn(s, k)
    OBVIOUS
  <2>1. k \in Nat /\ \A i \in 1 .. k : t[i] = s[i]
    BY <1>2
  <2>. QED  BY <2>1, AreaInSame
<1>5. AreaIn(s, n) = gc.current_area
  BY DEF ScopesFollow, s, n
<1>6. AreaIn(t, Len(t)) = gc'.current_area
  <2>1. AreaIn(t, n + 1) = IF t[n + 1] = 0 THEN AreaIn(t, n) ELSE t[n + 1]
    BY <1>2, AreaInMore
  <2>2. AreaIn(t, n) = gc.current_area
    BY <1>2, <1>4, <1>5
  <2>. QED  BY <1>2, <2>1, <2>2
<1>7. ASSUME NEW k \in 1 .. Len(t), t[k] # 0
      PROVE  t[k] \in AreaIds' /\ ParentNext(t[k]) = AreaIn(t, k - 1)
  <2>1. CASE k = n + 1
    <3>1. t[k] = a /\ AreaIn(t, k - 1) = gc.current_area
      BY <1>2, <1>4, <1>5, <2>1
    <3>. QED  BY <1>7, <3>1
  <2>2. CASE k \in 1 .. n
    <3>1. t[k] = s[k] /\ AreaIn(t, k - 1) = AreaIn(s, k - 1)
      BY <1>2, <1>4, <2>2
    <3>2. s[k] \in AreaIds /\ Parent(s[k]) = AreaIn(s, k - 1)
      BY <1>7, <2>2, <3>1 DEF ScopesFollow, s, n
    <3>. QED  BY <3>1, <3>2 DEF SameAreaTree
  <2>. QED  BY <1>2, <2>1, <2>2
<1>8. ScopesFollow'
  BY <1>1, <1>3, <1>6, <1>7, ScopesFollowNext DEF t
<1>9. a = 0 \/ a \notin ToSet(s)
  <2>1. \A k \in DOMAIN s : s[k] # 0 => s[k] \in AreaIds
    BY <1>1, <1>2, LenProperties DEF ScopesFollow, s, n
  <2>. QED  BY <2>1 DEF ToSet
<1>10. /\ gc'.disable_depth = Scopes!Off(Append(s, a))
       /\ gc'.current_area = Scopes!Innermost(Append(s, a))
  BY <1>2, <1>3, <1>6, GovernedBy
<1>11. Scopes!OpenScope(a) /\ a \in {0, gc'.current_area}
  BY <1>2, <1>9, <1>10 DEF Scopes!OpenScope, Scopes!Governed, Scopes!ToSet, ToSet, s, t
<1>. QED  BY <1>8, <1>11 DEF Refines, Scopes!ScopesNext

(* An area at the top of the scopes is the current one. *)
LEMMA TopIsCurrent ==
  ASSUME ScopesFollow, NEW a \in Nat, a # 0, LiveScopes' \in Seq(Nat), LiveScopes = LiveScopes' \o <<a>>
  PROVE  gc.current_area = a
<1>. DEFINE s == LiveScopes
            t == LiveScopes'
            n == Len(LiveScopes')
<1>1. s \in Seq(Nat) /\ t \in Seq(Nat)
  BY DEF ScopesFollow
<1>2. n \in Nat /\ Len(s) = n + 1 /\ s[n + 1] = a
  BY <1>1, OneMore
<1>3. AreaIn(s, Len(s)) = gc.current_area
  BY DEF ScopesFollow
<1>. HIDE DEF s, t, n
<1>4. AreaIn(s, n + 1) = IF s[n + 1] = 0 THEN AreaIn(s, n) ELSE s[n + 1]
  BY <1>2, AreaInMore
<1>. QED  BY <1>2, <1>3, <1>4

LEMMA ScopeClosed ==
  ASSUME ScopesFollow, NEW a \in Nat, LiveScopes' \in Seq(Nat), LiveScopes = LiveScopes' \o <<a>>,
         SameAreaTree,
         \/ /\ a = 0
            /\ gc'.disable_depth = gc.disable_depth - 1
            /\ gc'.current_area = gc.current_area
         \/ /\ a # 0
            /\ gc'.disable_depth = gc.disable_depth
            /\ gc'.current_area = Parent(gc.current_area)
  PROVE  Refines
<1>. DEFINE s == LiveScopes
            t == LiveScopes'
            n == Len(LiveScopes')
<1>1. s \in Seq(Nat) /\ t \in Seq(Nat)
  BY DEF ScopesFollow
<1>2. /\ n \in Nat /\ Len(s) = n + 1
      /\ \A i \in 1 .. n : s[i] = t[i]
      /\ s[n + 1] = a
      /\ t = Front(s) /\ s # <<>>
  BY <1>1, OneMore
<1>. HIDE DEF s, t, n
<1>3. n = Len(t)
  BY DEF n, t
<1>4. Cardinality(Zeros(t, n)) = gc'.disable_depth
  <2>1. Cardinality(Zeros(s, n + 1)) = Cardinality(Zeros(t, n)) + IF s[n + 1] = 0 THEN 1 ELSE 0
    BY <1>2, ZerosMore
  <2>2. Cardinality(Zeros(s, n + 1)) = gc.disable_depth /\ Cardinality(Zeros(t, n)) \in Nat
    BY <1>2, ZerosFinite DEF ScopesFollow, s
  <2>. QED  BY <1>2, <2>1, <2>2
<1>5. \A k \in 0 .. n : AreaIn(t, k) = AreaIn(s, k)
  BY <1>2, AreaInSame
<1>6. AreaIn(s, n + 1) = gc.current_area
  BY <1>2 DEF ScopesFollow, s
<1>7. \A k \in 1 .. n + 1 : s[k] # 0 => s[k] \in AreaIds /\ Parent(s[k]) = AreaIn(s, k - 1)
  BY <1>2 DEF ScopesFollow, s
<1>8. AreaIn(t, n) = gc'.current_area
  <2>1. AreaIn(s, n + 1) = IF s[n + 1] = 0 THEN AreaIn(s, n) ELSE s[n + 1]
    BY <1>2, AreaInMore
  <2>2. AreaIn(t, n) = AreaIn(s, n)
    BY <1>2, <1>5
  <2>3. CASE a = 0
    BY <1>2, <1>6, <2>1, <2>2, <2>3
  <2>4. CASE a # 0
    <3>1. Parent(a) = AreaIn(s, n) /\ a = gc.current_area
      BY <1>2, <1>6, <1>7, <2>1, <2>4
    <3>. QED  BY <2>2, <2>4, <3>1
  <2>. QED  BY <2>3, <2>4
<1>9. ASSUME NEW k \in 1 .. n, t[k] # 0
      PROVE  t[k] \in AreaIds' /\ ParentNext(t[k]) = AreaIn(t, k - 1)
  <2>1. k \in 1 .. n + 1 /\ k - 1 \in 0 .. n
    BY <1>2
  <2>2. t[k] = s[k] /\ AreaIn(t, k - 1) = AreaIn(s, k - 1)
    BY <1>2, <1>5, <2>1
  <2>3. s[k] \in AreaIds /\ Parent(s[k]) = AreaIn(s, k - 1)
    BY <1>7, <1>9, <2>1, <2>2
  <2>. QED  BY <2>2, <2>3 DEF SameAreaTree
<1>10. ScopesFollow'
  BY <1>1, <1>3, <1>4, <1>8, <1>9, ScopesFollowNext DEF t
<1>11. /\ gc'.disable_depth = Scopes!Off(Front(s))
       /\ gc'.current_area = Scopes!Innermost(Front(s))
  BY <1>2, <1>3, <1>4, <1>8, GovernedBy
<1>12. Scopes!CloseScope
  BY <1>2, <1>11 DEF Scopes!CloseScope, Scopes!Governed, Scopes!Front, Front, s, t
<1>. QED  BY <1>10, <1>12 DEF Refines, Scopes!ScopesNext

-----------------------------------------------------------------------------
(* The stacks: executes begin at different depths, and the one that runs   *)
(* has a frame; an area is kept in the frame that began it.                *)
StacksOK ==
  /\ \A i \in 1 .. Len(hosts) : \A j \in i + 1 .. Len(hosts) : hosts[i].depth < hosts[j].depth
  /\ LastOf(hosts).depth <= Len(frames)
  /\ status = "running" => LastOf(hosts).depth < Len(frames)
  /\ status = "returned" => LastOf(hosts).depth = Len(frames)

AreasGiven == \A i \in 1 .. Len(frames) : frames[i].mode = "area" <=> frames[i].area # NULL

(* The types that every step needs. *)
LEMMA StackTypes ==
  ASSUME VmInv
  PROVE  /\ frames \in Seq(FrameRecord) /\ Len(frames) \in Nat \ {0}
         /\ \A i \in 1 .. Len(frames) : frames[i] \in FrameRecord
         /\ hosts \in Seq(HostRecord) /\ Len(hosts) \in Nat \ {0}
         /\ \A i \in 1 .. Len(hosts) : hosts[i] \in HostRecord /\ hosts[i].depth \in Nat
         /\ LastOf(hosts) = hosts[Len(hosts)]
<1>1. /\ frames \in Seq(FrameRecord) /\ Len(frames) \in Nat \ {0}
      /\ \A i \in 1 .. Len(frames) : frames[i] \in FrameRecord
  BY LenProperties, ElementOfSeq DEF VmInv, FramesOK
<1>2. /\ hosts \in Seq(HostRecord) /\ Len(hosts) \in Nat \ {0}
      /\ \A i \in 1 .. Len(hosts) : hosts[i] \in HostRecord
  BY LenProperties, ElementOfSeq DEF VmInv, HostsOK
<1>3. \A h \in HostRecord : h.depth \in Nat
  BY DEF HostRecord
<1>. QED  BY <1>1, <1>2, <1>3 DEF LastOf

(* No execute begins at a depth that the last one's is below. *)
LEMMA NothingAbove ==
  ASSUME VmInv, StacksOK, NEW n \in Nat, LastOf(hosts).depth < n, NEW i \in Nat, i > n
  PROVE  HostScopes(hosts, i) = <<>>
<1>1. \A j \in 1 .. Len(hosts) : hosts[j].depth < n
  BY StackTypes DEF StacksOK
<1>2. \A j \in 1 .. Len(hosts) : hosts[j].depth # i - 1
  BY <1>1, StackTypes
<1>. QED  BY <1>2 DEF HostScopes

LEMMA PushedScopes ==
  ASSUME VmInv, StacksOK, status = "running", UNCHANGED hosts,
         NEW f \in FrameRecord, frames' = Append(frames, f)
  PROVE  LiveScopes' = LiveScopes \o (IF f.mode = "enabled" THEN <<>> ELSE <<f.area>>)
<1>. DEFINE n == Len(frames)
<1>1. /\ frames' \in Seq(FrameRecord) /\ n \in Nat \ {0} /\ Len(frames') = n + 1
      /\ \A i \in 1 .. n : frames'[i] = frames[i]
      /\ frames'[n + 1] = f
  BY StackTypes, Pushed
<1>2. HostScopes(hosts, n + 2) = <<>>
  BY <1>1, NothingAbove DEF StacksOK
<1>3. Levels(frames', hosts, n + 2) = Levels(frames, hosts, n + 1) \o FrameScopes(frames', n + 1)
  <2>1. PICK gs : gs = frames'
    OBVIOUS
  <2>2. FrameAbove(frames, gs, hosts, n)
    BY <1>1, <1>2, <2>1, StackTypes DEF FrameAbove
  <2>3. Levels(gs, hosts, n + 2) = Levels(frames, hosts, n + 1) \o FrameScopes(gs, n + 1)
    BY <2>2, FrameLevel
  <2>. QED  BY <2>1, <2>3
<1>4. FrameScopes(frames', n + 1) = IF f.mode = "enabled" THEN <<>> ELSE <<f.area>>
  BY <1>1 DEF FrameScopes
<1>5. /\ LiveScopes = Levels(frames, hosts, n + 1)
      /\ LiveScopes' = Levels(frames', hosts, n + 2)
  <2>1. Len(frames') + 1 = n + 2
    BY <1>1
  <2>. QED  BY <2>1, LiveLevels
<1>. QED  BY <1>3, <1>4, <1>5

LEMMA CalledScopes ==
  ASSUME VmInv, StacksOK, status = "running",
         NEW h \in HostRecord, h.depth = Len(frames), hosts' = Append(hosts, h),
         NEW f \in FrameRecord, frames' = Append(frames, f)
  PROVE  LiveScopes' = (LiveScopes \o IF h.kind = "with_disabled" THEN <<NULL>> ELSE <<>>)
                         \o (IF f.mode = "enabled" THEN <<>> ELSE <<f.area>>)
<1>. DEFINE n == Len(frames)
<1>1. /\ frames' \in Seq(FrameRecord) /\ n \in Nat \ {0} /\ Len(frames') = n + 1
      /\ \A i \in 1 .. n : frames'[i] = frames[i]
      /\ frames'[n + 1] = f
  BY StackTypes, Pushed
<1>2. /\ Len(hosts) \in Nat /\ Len(hosts') = Len(hosts) + 1
      /\ \A i \in 1 .. Len(hosts) : hosts'[i] = hosts[i]
      /\ hosts'[Len(hosts) + 1] = h
  BY StackTypes, Pushed
<1>3. \A j \in 1 .. Len(hosts) : hosts[j].depth < n /\ hosts[j].depth \in Nat
  BY StackTypes DEF StacksOK
<1>4. \A i \in 1 .. n : HostScopes(hosts', i) = HostScopes(hosts, i)
  BY <1>1, <1>2, <1>3 DEF HostScopes
<1>5. HostScopes(hosts, n + 1) = <<>> /\ HostScopes(hosts', n + 2) = <<>>
  BY <1>1, <1>2, <1>3 DEF HostScopes
<1>6. HostScopes(hosts', n + 1) = IF h.kind = "with_disabled" THEN <<NULL>> ELSE <<>>
  BY <1>1, <1>2, <1>3 DEF HostScopes
<1>7. Levels(frames, hosts', n + 1) = Levels(frames, hosts, n + 1) \o HostScopes(hosts', n + 1)
  <2>1. PICK ks : ks = hosts'
    OBVIOUS
  <2>2. \A i \in 1 .. n : HostScopes(ks, i) = HostScopes(hosts, i)
    BY <1>4, <2>1
  <2>3. HostAbove(frames, hosts, ks, n)
    BY <1>1, <1>5, <2>2, StackTypes DEF HostAbove
  <2>4. Levels(frames, ks, n + 1) = Levels(frames, hosts, n + 1) \o HostScopes(ks, n + 1)
    <3>. HIDE DEF n
    <3>. QED  BY <2>3, HostLevel
  <2>. QED  BY <2>1, <2>4
<1>8. Levels(frames', hosts', n + 2) = Levels(frames, hosts', n + 1) \o FrameScopes(frames', n + 1)
  <2>1. PICK ks : ks = hosts'
    OBVIOUS
  <2>2. PICK gs : gs = frames'
    OBVIOUS
  <2>3. gs \in Seq(FrameRecord) /\ Len(gs) = n + 1 /\ \A i \in 1 .. n : gs[i] = frames[i]
    BY <1>1, <2>2
  <2>4. HostScopes(ks, n + 2) = <<>>
    BY <1>5, <2>1
  <2>5. Levels(gs, ks, n + 2) = Levels(frames, ks, n + 1) \o FrameScopes(gs, n + 1)
    <3>1. FrameAbove(frames, gs, ks, n)
      BY <1>1, <2>3, <2>4, StackTypes DEF FrameAbove
    <3>. QED  BY <3>1, FrameLevel
  <2>. QED  BY <2>1, <2>2, <2>5
<1>9. FrameScopes(frames', n + 1) = IF f.mode = "enabled" THEN <<>> ELSE <<f.area>>
  BY <1>1 DEF FrameScopes
<1>10. /\ LiveScopes = Levels(frames, hosts, n + 1)
       /\ LiveScopes' = Levels(frames', hosts', n + 2)
  <2>1. Len(frames') + 1 = n + 2
    BY <1>1
  <2>. QED  BY <2>1, LiveLevels
<1>. QED  BY <1>6, <1>7, <1>8, <1>9, <1>10

LEMMA PoppedScopes ==
  ASSUME VmInv, StacksOK, LastOf(hosts).depth < Len(frames), UNCHANGED hosts,
         Len(frames) > 1, frames' = Front(frames)
  PROVE  /\ LastOf(frames) \in FrameRecord /\ LastOf(frames) = frames[Len(frames)]
         /\ LiveScopes' \in Seq(Nat)
         /\ LiveScopes = LiveScopes' \o (IF LastOf(frames).mode = "enabled"
                                         THEN <<>> ELSE <<LastOf(frames).area>>)
<1>. DEFINE n == Len(frames')
            f == LastOf(frames)
<1>1. /\ frames' \in Seq(FrameRecord) /\ n \in Nat \ {0} /\ Len(frames) = n + 1
      /\ \A i \in 1 .. n : frames[i] = frames'[i]
      /\ f = frames[n + 1] /\ f \in FrameRecord
  <2>1. Len(frames) >= 1 /\ frames \in Seq(FrameRecord) /\ Len(frames) \in Nat
    BY StackTypes
  <2>2. /\ frames' \in Seq(FrameRecord) /\ Len(frames') = Len(frames) - 1
        /\ \A i \in 1 .. Len(frames) - 1 : frames'[i] = frames[i]
        /\ f = frames[Len(frames)] /\ f \in FrameRecord
    BY <2>1, Popped
  <2>. QED  BY <2>1, <2>2
<1>. HIDE DEF n, f
<1>2. HostScopes(hosts, n + 2) = <<>>
  BY <1>1, NothingAbove
<1>3. Levels(frames, hosts, n + 2) = Levels(frames', hosts, n + 1) \o FrameScopes(frames, n + 1)
  <2>1. PICK fs : fs = frames'
    OBVIOUS
  <2>2. FrameAbove(fs, frames, hosts, n)
    <3>1. Len(fs) = n
      BY <2>1 DEF n
    <3>. QED  BY <1>1, <1>2, <2>1, <3>1, StackTypes DEF FrameAbove
  <2>3. Levels(frames, hosts, n + 2) = Levels(fs, hosts, n + 1) \o FrameScopes(frames, n + 1)
    BY <2>2, FrameLevel
  <2>. QED  BY <2>1, <2>3
<1>4. FrameScopes(frames, n + 1) = IF f.mode = "enabled" THEN <<>> ELSE <<f.area>>
  BY <1>1 DEF FrameScopes
<1>5. /\ LiveScopes = Levels(frames, hosts, n + 2)
      /\ LiveScopes' = Levels(frames', hosts, n + 1)
  <2>1. Len(frames) + 1 = n + 2 /\ Len(frames') + 1 = n + 1
    BY <1>1 DEF n
  <2>. QED  BY <2>1, LiveLevels
<1>6. LiveScopes' \in Seq(Nat)
  <2>1. n + 1 \in Nat \ {0}
    BY <1>1
  <2>. QED  BY <1>1, <1>5, <2>1, LevelsType
<1>7. f = frames[Len(frames)]
  BY <1>1
<1>. QED  BY <1>1, <1>3, <1>4, <1>5, <1>6, <1>7 DEF f

LEMMA ResumedScopes ==
  ASSUME VmInv, StacksOK, LastOf(hosts).depth = Len(frames), UNCHANGED frames,
         Len(hosts) > 1, hosts' = Front(hosts)
  PROVE  /\ LiveScopes' \in Seq(Nat)
         /\ LiveScopes = LiveScopes' \o (IF LastOf(hosts).kind = "with_disabled"
                                         THEN <<NULL>> ELSE <<>>)
<1>. DEFINE n == Len(frames)
            m == Len(hosts')
<1>1. /\ m \in Nat \ {0} /\ Len(hosts) = m + 1
      /\ \A i \in 1 .. m : hosts'[i] = hosts[i]
      /\ LastOf(hosts) = hosts[m + 1]
  <2>1. Len(hosts) >= 1 /\ hosts \in Seq(HostRecord) /\ Len(hosts) \in Nat
    BY StackTypes
  <2>2. /\ Len(hosts') = Len(hosts) - 1
        /\ \A i \in 1 .. Len(hosts) - 1 : hosts'[i] = hosts[i]
        /\ LastOf(hosts) = hosts[Len(hosts)]
    BY <2>1, Popped
  <2>. QED  BY <2>1, <2>2
<1>2. n \in Nat \ {0} /\ frames \in Seq(FrameRecord)
  BY StackTypes
<1>3. \A j \in 1 .. m : hosts'[j].depth < n /\ hosts[j].depth < n /\ hosts[j].depth \in Nat
  BY <1>1, StackTypes DEF StacksOK
<1>4. m = Len(hosts') /\ n = Len(frames)
  OBVIOUS
<1>. HIDE DEF m, n
<1>5. \A i \in 1 .. n : HostScopes(hosts, i) = HostScopes(hosts', i)
  BY <1>1, <1>2, <1>3, <1>4 DEF HostScopes
<1>6. HostScopes(hosts', n + 1) = <<>>
  BY <1>1, <1>2, <1>3, <1>4 DEF HostScopes
<1>7. HostScopes(hosts, n + 1) = IF LastOf(hosts).kind = "with_disabled" THEN <<NULL>> ELSE <<>>
  BY <1>1, <1>2, <1>3, <1>4 DEF HostScopes
<1>8. Levels(frames, hosts, n + 1) = Levels(frames, hosts', n + 1) \o HostScopes(hosts, n + 1)
  <2>1. PICK ks : ks = hosts'
    OBVIOUS
  <2>2. /\ \A i \in 1 .. n : HostScopes(hosts, i) = HostScopes(ks, i)
        /\ HostScopes(ks, n + 1) = <<>>
    BY <1>5, <1>6, <2>1
  <2>3. Levels(frames, hosts, n + 1) = Levels(frames, ks, n + 1) \o HostScopes(hosts, n + 1)
    <3>1. HostAbove(frames, ks, hosts, n)
      BY <1>2, <1>4, <2>2 DEF HostAbove
    <3>2. \A fs, hs : HostAbove(fs, hs, hosts, n)
            => Levels(fs, hosts, n + 1) = Levels(fs, hs, n + 1) \o HostScopes(hosts, n + 1)
      BY HostLevel
    <3>. QED  BY <3>1, <3>2, Zenon
  <2>. QED  BY <2>1, <2>3
<1>9. LiveScopes = Levels(frames, hosts, n + 1) /\ LiveScopes' = Levels(frames, hosts', n + 1)
  BY <1>4, LiveLevels
<1>10. LiveScopes' \in Seq(Nat)
  <2>1. n + 1 \in Nat \ {0}
    BY <1>2
  <2>. QED  BY <1>2, <1>9, <2>1, LevelsType
<1>. QED  BY <1>7, <1>8, <1>9, <1>10

-----------------------------------------------------------------------------
(* Contexts are scopes. *)

LEMMA BeginFresh ==
  ASSUME ManagerInv, dragonstone_gc_begin_area, "boehm" \notin Failing
  PROVE  gc'.current_area \in Nat \ {0} /\ gc'.current_area \notin AreaIds
<1>. DEFINE a == Len(areas) + 1
<1>1. gc' = [gc EXCEPT !.current_area = a, !.area_count = @ + 1]
  BY DEF ManagerInv, dragonstone_gc_begin_area, Ready
<1>2. gc \in [current_area : 0 .. Len(areas), disable_depth : Nat,
              initialized : BOOLEAN, area_count : Int]
  BY DEF ManagerInv, TypeOK, ManagerOK
<1>3. gc'.current_area = a
  BY <1>1, <1>2
<1>4. Len(areas) \in Nat
  BY AreasFunction DEF ManagerInv, TypeOK
<1>. QED  BY <1>3, <1>4 DEF AreaIds

LEMMA NoScope ==
  ASSUME ScopesFollow, SameAreaTree, gc'.current_area = gc.current_area,
         gc'.disable_depth = gc.disable_depth,
         \/ LiveScopes' = LiveScopes \o <<>>
         \/ LiveScopes' \in Seq(Nat) /\ LiveScopes = LiveScopes' \o <<>>
  PROVE  Refines
<1>1. PICK s : s = LiveScopes'
  OBVIOUS
<1>2. LiveScopes \in Seq(Nat)
  BY DEF ScopesFollow
<1>3. s = LiveScopes
  BY <1>1, <1>2, ConcatEmptySeq
<1>. QED  BY <1>1, <1>3, ScopesAlone

LEMMA EnterScopes ==
  ASSUME VmInv, ScopesFollow, "boehm" \notin Failing, NEW mode \in Modes, enter_gc_context(mode),
         LiveScopes' = LiveScopes \o (IF mode = "enabled" THEN <<>>
                                      ELSE <<IF mode = "area" THEN gc'.current_area ELSE NULL>>)
  PROVE  Refines
<1>1. Counts(Cost(mode)) /\ gc.disable_depth \in Nat
  BY EnterContext, DepthType DEF VmInv
<1>2. CASE mode = "enabled"
  <2>1. UnchangedGc
    BY <1>2 DEF enter_gc_context
  <2>2. SameAreaTree /\ gc'.current_area = gc.current_area
    BY <2>1, SameTree DEF VmInv
  <2>3. gc'.disable_depth = gc.disable_depth
    BY <1>1, <1>2 DEF Counts, Cost
  <2>4. LiveScopes' = LiveScopes \o <<>>
    BY <1>2
  <2>. QED  BY <2>2, <2>3, <2>4, NoScope
<1>3. CASE mode = "disabled"
  <2>1. dragonstone_gc_disable
    BY <1>3 DEF enter_gc_context
  <2>2. SameAreaTree /\ gc'.current_area = gc.current_area
    BY <2>1, SameTree DEF VmInv
  <2>3. gc'.disable_depth = gc.disable_depth + 1
    BY <1>1, <1>3 DEF Counts, Cost
  <2>4. LiveScopes' = LiveScopes \o <<0>>
    BY <1>3 DEF NULL
  <2>. QED  BY <2>2, <2>3, <2>4, ScopeOpened
<1>4. CASE mode = "area"
  <2>1. dragonstone_gc_begin_area
    BY <1>4 DEF enter_gc_context
  <2>2. PICK a : a = gc'.current_area
    OBVIOUS
  <2>3. /\ SameAreaTree
        /\ gc'.current_area \in AreaIds'
        /\ ParentNext(gc'.current_area) = gc.current_area
        /\ gc'.current_area \in Nat \ {0} /\ gc'.current_area \notin AreaIds
    BY <2>1, BeginParent, BeginFresh DEF VmInv
  <2>4. /\ a \in Nat /\ a # 0 /\ a \notin AreaIds /\ a \in AreaIds'
        /\ ParentNext(a) = gc.current_area
    BY <2>2, <2>3
  <2>5. gc'.disable_depth = gc.disable_depth
    BY <1>1, <1>4 DEF Counts, Cost
  <2>6. LiveScopes' = LiveScopes \o <<a>>
    BY <1>4, <2>2
  <2>. QED  BY <2>2, <2>3, <2>4, <2>5, <2>6, ScopeOpened
<1>. QED  BY <1>2, <1>3, <1>4 DEF Modes

LEMMA ExitScopes ==
  ASSUME VmInv, ScopesFollow, NEW mode \in Modes, exit_gc_context(mode),
         NEW a \in Nat, mode = "area" <=> a # NULL, LiveScopes' \in Seq(Nat),
         LiveScopes = LiveScopes' \o (IF mode = "enabled" THEN <<>> ELSE <<a>>)
  PROVE  Refines
<1>1. Counts(0 - Cost(mode)) /\ gc.disable_depth \in Nat
  BY ExitContext, DepthType DEF VmInv
<1>2. CASE mode = "enabled"
  <2>1. UnchangedGc
    BY <1>2 DEF exit_gc_context
  <2>2. SameAreaTree /\ gc'.current_area = gc.current_area
    BY <2>1, SameTree DEF VmInv
  <2>3. gc'.disable_depth = gc.disable_depth
    BY <1>1, <1>2 DEF Counts, Cost
  <2>4. LiveScopes = LiveScopes' \o <<>>
    BY <1>2
  <2>. QED  BY <2>2, <2>3, <2>4, NoScope
<1>3. CASE mode = "disabled"
  <2>1. dragonstone_gc_enable
    BY <1>3 DEF exit_gc_context
  <2>2. SameAreaTree /\ gc'.current_area = gc.current_area
    BY <2>1, SameTree DEF VmInv
  <2>3. gc'.disable_depth = gc.disable_depth - 1
    BY <1>1, <1>3 DEF Counts, Cost
  <2>4. LiveScopes = LiveScopes' \o <<a>> /\ a = 0
    BY <1>3 DEF NULL
  <2>. QED  BY <2>2, <2>3, <2>4, ScopeClosed
<1>4. CASE mode = "area"
  <2>1. EndCurrent
    <3>1. a # 0 /\ EndInnermost
      BY <1>4 DEF exit_gc_context, NULL
    <3>2. gc.current_area # NULL
      <4>1. LiveScopes = LiveScopes' \o <<a>>
        BY <1>4
      <4>. QED  BY <3>1, <4>1, TopIsCurrent DEF NULL
    <3>. QED  BY <3>1, <3>2 DEF EndInnermost
  <2>2. SameAreaTree /\ gc'.current_area = Parent(gc.current_area)
    BY <2>1, EndParent DEF VmInv
  <2>3. gc'.disable_depth = gc.disable_depth
    BY <1>1, <1>4 DEF Counts, Cost
  <2>4. LiveScopes = LiveScopes' \o <<a>> /\ a # 0
    BY <1>4 DEF NULL
  <2>. QED  BY <2>2, <2>3, <2>4, ScopeClosed
<1>. QED  BY <1>2, <1>3, <1>4 DEF Modes
-----------------------------------------------------------------------------
(* The stacks after a step. *)

HostsNest == \A i \in 1 .. Len(hosts) : \A j \in i + 1 .. Len(hosts) : hosts[i].depth < hosts[j].depth

LEMMA StacksNext ==
  ASSUME HostsNest', LastOf(hosts').depth <= Len(frames'),
         status' = "running" => LastOf(hosts').depth < Len(frames'),
         status' = "returned" => LastOf(hosts').depth = Len(frames')
  PROVE  StacksOK'
BY DEF StacksOK, HostsNest, LastOf

LEMMA HostsSame ==
  ASSUME StacksOK, UNCHANGED hosts
  PROVE  HostsNest' /\ LastOf(hosts').depth = LastOf(hosts).depth
BY DEF StacksOK, HostsNest

LEMMA HostsPushed ==
  ASSUME VmInv, StacksOK, status = "running",
         NEW h \in HostRecord, h.depth = Len(frames), hosts' = Append(hosts, h)
  PROVE  HostsNest' /\ LastOf(hosts').depth = Len(frames)
<1>1. /\ Len(hosts) \in Nat \ {0} /\ Len(hosts') = Len(hosts) + 1
      /\ \A i \in 1 .. Len(hosts) : hosts'[i] = hosts[i]
      /\ hosts'[Len(hosts) + 1] = h
  BY StackTypes, Pushed
<1>2. \A i \in 1 .. Len(hosts) : hosts[i].depth < Len(frames)
  BY StackTypes DEF StacksOK
<1>3. HostsNest'
  BY <1>1, <1>2 DEF HostsNest, StacksOK
<1>. QED  BY <1>1, <1>3 DEF LastOf

LEMMA HostsPopped ==
  ASSUME VmInv, StacksOK, Len(hosts) > 1, hosts' = Front(hosts)
  PROVE  HostsNest' /\ LastOf(hosts').depth < LastOf(hosts).depth
<1>1. /\ Len(hosts) \in Nat \ {0} /\ Len(hosts') = Len(hosts) - 1
      /\ \A i \in 1 .. Len(hosts) - 1 : hosts'[i] = hosts[i]
  <2>1. hosts \in Seq(HostRecord) /\ Len(hosts) >= 1 /\ Len(hosts) \in Nat
    BY StackTypes
  <2>. QED  BY <2>1, Popped
<1>2. HostsNest'
  BY <1>1 DEF HostsNest, StacksOK
<1>3. LastOf(hosts') = hosts[Len(hosts) - 1] /\ LastOf(hosts) = hosts[Len(hosts)]
  BY <1>1 DEF LastOf
<1>4. hosts[Len(hosts) - 1].depth < hosts[Len(hosts)].depth
  BY <1>1 DEF StacksOK
<1>. QED  BY <1>2, <1>3, <1>4

LEMMA AreasKept ==
  ASSUME AreasGiven, Len(frames') <= Len(frames),
         Len(frames) \in Nat, Len(frames') \in Nat,
         \A i \in 1 .. Len(frames') : frames'[i] = frames[i]
  PROVE  AreasGiven'
BY DEF AreasGiven

LEMMA AreasPushed ==
  ASSUME VmInv, AreasGiven, NEW f \in FrameRecord, frames' = Append(frames, f),
         f.mode = "area" <=> f.area # NULL
  PROVE  AreasGiven' /\ Len(frames') = Len(frames) + 1
<1>1. /\ Len(frames) \in Nat /\ Len(frames') = Len(frames) + 1
      /\ \A i \in 1 .. Len(frames) : frames'[i] = frames[i]
      /\ frames'[Len(frames) + 1] = f
  BY StackTypes, Pushed
<1>. QED  BY <1>1 DEF AreasGiven

-----------------------------------------------------------------------------
(* Every step of the VM. *)

Following == VmInv /\ StacksOK /\ AreasGiven /\ ScopesFollow

(* A step that keeps the stacks in order and is one of the program's scopes. *)
Keeps == StacksOK' /\ AreasGiven' /\ Refines

LEMMA CallKeeps ==
  ASSUME Following, "boehm" \notin Failing,
         NEW kind \in {"function", "block"}, NEW mode \in Modes,
         push_callable_frame(kind, mode),
         UNCHANGED hosts \/ EnterExecute("method") \/ EnterExecute("each")
  PROVE  Keeps
<1>1. /\ status = "running" /\ enter_gc_context(mode)
      /\ frames' = Append(frames, Frame(kind, mode, IF mode = "area" THEN gc'.current_area ELSE NULL))
      /\ status' \in {"running", "error"}
  BY DEF push_callable_frame
<1>2. PICK f : f = Frame(kind, mode, IF mode = "area" THEN gc'.current_area ELSE NULL)
  OBVIOUS
<1>3. /\ f.mode = mode
      /\ f.area = IF mode = "area" THEN gc'.current_area ELSE NULL
      /\ frames' = Append(frames, f)
  BY <1>1, <1>2 DEF Frame
<1>4. f \in FrameRecord
  <2>1. TypeOK'
    BY <1>1, EnterContext DEF Following, VmInv, Counts, ManagerInv
  <2>2. gc'.current_area \in 0 .. MaxAreas /\ NULL \in 0 .. MaxAreas
    BY <2>1, CurrentBoundedNext, BoundsAssumption DEF NULL
  <2>. QED  BY <1>2, <2>2 DEF Frame, FrameRecord
<1>5. f.mode = "area" <=> f.area # NULL
  <2>1. mode = "area" => gc'.current_area # NULL
    BY <1>1, BeginFresh DEF Following, VmInv, enter_gc_context, NULL
  <2>. QED  BY <1>3, <2>1
<1>6. AreasGiven' /\ Len(frames') = Len(frames) + 1 /\ Len(frames) \in Nat
  BY <1>3, <1>4, <1>5, AreasPushed, StackTypes DEF Following
<1>7. LiveScopes \in Seq(Nat)
  BY DEF Following, ScopesFollow
<1>8. CASE UNCHANGED hosts
  <2>1. LiveScopes' = LiveScopes \o (IF mode = "enabled" THEN <<>> ELSE <<f.area>>)
    BY <1>1, <1>3, <1>4, <1>8, PushedScopes DEF Following
  <2>2. Refines
    BY <1>1, <1>3, <2>1, EnterScopes DEF Following
  <2>3. HostsNest' /\ LastOf(hosts').depth = LastOf(hosts).depth
    BY <1>8, HostsSame DEF Following
  <2>4. LastOf(hosts).depth < Len(frames) /\ LastOf(hosts).depth \in Nat
    BY <1>1, StackTypes DEF Following, StacksOK
  <2>5. StacksOK'
    <3>1. LastOf(hosts').depth < Len(frames') /\ LastOf(hosts').depth <= Len(frames')
      BY <1>6, <2>3, <2>4
    <3>. QED  BY <1>1, <2>3, <3>1, StacksNext
  <2>. QED  BY <1>6, <2>2, <2>5 DEF Keeps
<1>9. ASSUME NEW k \in {"method", "each"}, EnterExecute(k)
      PROVE  Keeps
  <2>. DEFINE h == [kind |-> k, depth |-> Len(frames)]
  <2>1. /\ h \in HostRecord /\ h.depth = Len(frames) /\ h.kind # "with_disabled"
        /\ hosts' = Append(hosts, h)
    BY <1>9 DEF Following, VmInv, FramesOK, HostRecord, EnterExecute
  <2>. HIDE DEF h
  <2>2. LiveScopes' = LiveScopes \o (IF mode = "enabled" THEN <<>> ELSE <<f.area>>)
    <3>1. LiveScopes' = (LiveScopes \o IF h.kind = "with_disabled" THEN <<NULL>> ELSE <<>>)
                          \o (IF mode = "enabled" THEN <<>> ELSE <<f.area>>)
      BY <1>1, <1>3, <1>4, <2>1, CalledScopes DEF Following
    <3>2. LiveScopes \o <<>> = LiveScopes
      BY <1>7, ConcatEmptySeq
    <3>. QED  BY <2>1, <3>1, <3>2
  <2>3. Refines
    BY <1>1, <1>3, <2>2, EnterScopes DEF Following
  <2>4. HostsNest' /\ LastOf(hosts').depth = Len(frames)
    BY <1>1, <2>1, HostsPushed DEF Following
  <2>5. StacksOK'
    <3>1. LastOf(hosts').depth < Len(frames') /\ LastOf(hosts').depth <= Len(frames')
      BY <1>6, <2>4
    <3>. QED  BY <1>1, <2>4, <3>1, StacksNext
  <2>. QED  BY <1>6, <2>3, <2>5 DEF Keeps
<1>. QED  BY <1>8, <1>9

LEMMA DisabledBlockKeeps ==
  ASSUME Following, "boehm" \notin Failing, with_disabled
  PROVE  Keeps
<1>. DEFINE f == Frame("block", "enabled", NULL)
            h == [kind |-> "with_disabled", depth |-> Len(frames)]
<1>1. f \in FrameRecord /\ f.mode = "enabled" /\ f.area = NULL
  BY BoundsAssumption DEF Frame, FrameRecord, Modes, NULL
<1>2. h \in HostRecord /\ h.depth = Len(frames) /\ h.kind = "with_disabled"
  BY DEF Following, VmInv, FramesOK, HostRecord
<1>3. /\ frames' = Append(frames, f) /\ hosts' = Append(hosts, h)
      /\ status = "running" /\ status' = "running" /\ dragonstone_gc_disable
  BY DEF with_disabled, EnterExecute
<1>. HIDE DEF f, h
<1>4. AreasGiven' /\ Len(frames') = Len(frames) + 1 /\ Len(frames) \in Nat
  BY <1>1, <1>3, AreasPushed, StackTypes DEF Following
<1>5. LiveScopes' = LiveScopes \o <<NULL>>
  <2>1. LiveScopes' = (LiveScopes \o IF h.kind = "with_disabled" THEN <<NULL>> ELSE <<>>)
                        \o (IF f.mode = "enabled" THEN <<>> ELSE <<f.area>>)
    BY <1>1, <1>2, <1>3, CalledScopes DEF Following
  <2>2. LiveScopes \in Seq(Nat) /\ <<NULL>> \in Seq(Nat)
    BY DEF Following, ScopesFollow, NULL
  <2>3. LiveScopes \o <<NULL>> \in Seq(Nat)
    BY <2>2, ConcatProperties
  <2>4. (LiveScopes \o <<NULL>>) \o <<>> = LiveScopes \o <<NULL>>
    BY <2>3, ConcatEmptySeq
  <2>. QED  BY <1>1, <1>2, <2>1, <2>4
<1>6. Refines
  <2>1. enter_gc_context("disabled") /\ "disabled" \in Modes
    BY <1>3 DEF enter_gc_context, Modes
  <2>2. LiveScopes' = LiveScopes \o (IF "disabled" = "enabled" THEN <<>>
                         ELSE <<IF "disabled" = "area" THEN gc'.current_area ELSE NULL>>)
    BY <1>5
  <2>. QED  BY <2>1, <2>2, EnterScopes DEF Following
<1>7. HostsNest' /\ LastOf(hosts').depth = Len(frames)
  BY <1>2, <1>3, HostsPushed DEF Following
<1>8. StacksOK'
  <2>1. LastOf(hosts').depth < Len(frames') /\ LastOf(hosts').depth <= Len(frames')
    BY <1>4, <1>7
  <2>. QED  BY <1>3, <1>7, <2>1, StacksNext
<1>. QED  BY <1>4, <1>6, <1>8 DEF Keeps

(* A frame of the execute that runs is left. *)
LEMMA LeaveFrameKeeps ==
  ASSUME Following, LastOf(hosts).depth < Len(frames), UNCHANGED hosts,
         exit_gc_context(LastOf(frames).mode), Len(frames) > 1, frames' = Front(frames),
         status' = "running" => LastOf(hosts).depth # Len(frames) - 1,
         status' = "returned" => LastOf(hosts).depth = Len(frames) - 1
  PROVE  Keeps
<1>1. PICK f : f = LastOf(frames)
  OBVIOUS
<1>2. /\ f \in FrameRecord /\ f = frames[Len(frames)]
      /\ LiveScopes' \in Seq(Nat)
      /\ LiveScopes = LiveScopes' \o (IF f.mode = "enabled" THEN <<>> ELSE <<f.area>>)
  BY <1>1, PoppedScopes DEF Following
<1>3. f.mode \in Modes /\ f.area \in Nat
  BY <1>2, BoundsAssumption DEF FrameRecord
<1>4. /\ Len(frames) \in Nat \ {0} /\ Len(frames') = Len(frames) - 1
      /\ \A i \in 1 .. Len(frames') : frames'[i] = frames[i]
  BY FramePopped DEF Following, VmInv, FramesOK
<1>5. f.mode = "area" <=> f.area # NULL
  <2>1. Len(frames) \in 1 .. Len(frames)
    BY <1>4
  <2>. QED  BY <1>2, <2>1 DEF Following, AreasGiven
<1>6. Refines
  BY <1>1, <1>2, <1>3, <1>5, ExitScopes DEF Following
<1>7. AreasGiven'
  BY <1>4, AreasKept DEF Following
<1>8. HostsNest' /\ LastOf(hosts').depth = LastOf(hosts).depth
  BY HostsSame DEF Following
<1>9. LastOf(hosts).depth \in Nat
  BY StackTypes DEF Following
<1>10. StacksOK'
  BY <1>4, <1>8, <1>9, StacksNext
<1>. QED  BY <1>6, <1>7, <1>10 DEF Keeps

(* An execute without frames is left by its host. *)
LEMMA LeaveHostKeeps ==
  ASSUME Following, LastOf(hosts).depth = Len(frames), UNCHANGED frames,
         exit_gc_context(HostMode(LastOf(hosts))), Len(hosts) > 1, hosts' = Front(hosts),
         status' # "returned"
  PROVE  Keeps
<1>1. PICK h : h = LastOf(hosts)
  OBVIOUS
<1>2. /\ LiveScopes' \in Seq(Nat)
      /\ LiveScopes = LiveScopes' \o (IF h.kind = "with_disabled" THEN <<NULL>> ELSE <<>>)
  BY <1>1, ResumedScopes DEF Following
<1>3. PICK mode : mode = HostMode(h)
  OBVIOUS
<1>4. /\ mode \in Modes /\ mode # "area" /\ (mode = "enabled" <=> h.kind # "with_disabled")
      /\ exit_gc_context(mode)
  BY <1>1, <1>3 DEF HostMode, Modes
<1>5. LiveScopes = LiveScopes' \o (IF mode = "enabled" THEN <<>> ELSE <<NULL>>)
  BY <1>2, <1>4
<1>6. NULL \in Nat /\ (mode = "area" <=> NULL # NULL)
  BY <1>4 DEF NULL
<1>7. Refines
  BY <1>2, <1>4, <1>5, <1>6, ExitScopes DEF Following
<1>8. Len(frames) \in Nat
  BY StackTypes DEF Following
<1>9. AreasGiven'
  BY <1>8, AreasKept DEF Following
<1>10. HostsNest' /\ LastOf(hosts').depth < LastOf(hosts).depth
  BY HostsPopped DEF Following
<1>11. HostsNest' /\ LastOf(hosts').depth < Len(frames')
  BY <1>10
<1>12. LastOf(hosts').depth <= Len(frames')
  <2>1. PICK ks : ks = hosts'
    OBVIOUS
  <2>2. ks \in Seq(HostRecord) /\ Len(ks) \in 1 .. Len(ks)
    BY <2>1, HostPopped DEF Following, VmInv, HostsOK
  <2>3. LastOf(ks).depth \in Nat
    <3>1. ks[Len(ks)] \in HostRecord
      BY <2>2, ElementOfSeq
    <3>2. ks[Len(ks)].depth \in 0 .. MaxFrames
      BY <3>1 DEF HostRecord
    <3>. QED  BY <3>2 DEF LastOf
  <2>. QED  BY <1>8, <1>11, <2>1, <2>3
<1>13. StacksOK'
  BY <1>11, <1>12, StacksNext
<1>. QED  BY <1>7, <1>9, <1>13 DEF Keeps

LEMMA SameStacksKeep ==
  ASSUME Following, UnchangedGc, UNCHANGED <<frames, hosts>>,
         status' = "running" => status = "running", status' = "returned" => status = "returned"
  PROVE  Keeps
<1>1. SameAreaTree /\ gc'.current_area = gc.current_area /\ gc'.disable_depth = gc.disable_depth
  BY SameTree DEF Following, VmInv, UnchangedGc, vars
<1>2. LiveScopes' = LiveScopes
  BY DEF LiveScopes, ScopesAt
<1>3. Refines
  BY <1>1, <1>2, ScopesAlone DEF Following
<1>4. AreasGiven' /\ StacksOK'
  BY DEF Following, AreasGiven, StacksOK
<1>. QED  BY <1>3, <1>4 DEF Keeps
(* A rescue inside the annotated functions drops no scope. *)
LEMMA RescueKeeps ==
  ASSUME Following, ~RescueOutside, handle_exception
  PROVE  Keeps
<1>. DEFINE n == Len(frames)
            k == Len(frames')
<1>1. /\ frames' \in Seq(FrameRecord) /\ n \in Nat \ {0} /\ k \in 1 .. n
      /\ \A i \in 1 .. k : frames'[i] = frames[i]
      /\ \A i \in k + 1 .. n : frames[i].mode = "enabled"
  <2>1. /\ FramesOK' /\ k <= n
        /\ \A i \in 1 .. k : frames'[i] = frames[i]
        /\ \A i \in k + 1 .. n : frames[i].mode = "enabled"
    BY DroppedFrames DEF Following
  <2>2. n \in Nat \ {0}
    BY StackTypes DEF Following
  <2>3. frames' \in Seq(FrameRecord) /\ k \in Nat /\ k >= 1
    BY <2>1 DEF FramesOK
  <2>. QED  BY <2>1, <2>2, <2>3
<1>2. UnchangedGc /\ UNCHANGED <<hosts, handlers, status>> /\ LastOf(hosts).depth < k
  BY DEF handle_exception
<1>3. LiveScopes' = LiveScopes
  <2>1. PICK gs : gs = frames'
    OBVIOUS
  <2>2. \A i \in k + 1 .. n + 1 : HostScopes(hosts, i) = <<>>
    BY <1>1, <1>2, NothingAbove DEF Following
  <2>3. \A i \in 1 .. k : FrameScopes(gs, i) = FrameScopes(frames, i)
    BY <1>1, <2>1 DEF FrameScopes
  <2>4. frames \in Seq(FrameRecord) /\ gs \in Seq(FrameRecord) /\ Len(gs) = k /\ Len(frames) = n
    BY <1>1, <2>1, StackTypes DEF Following
  <2>. HIDE DEF n, k
  <2>5. Levels(gs, hosts, k + 1) = Levels(frames, hosts, n + 1)
    BY <1>1, <2>2, <2>3, <2>4, RescueLevels
  <2>6. LiveScopes = Levels(frames, hosts, n + 1) /\ LiveScopes' = Levels(frames', hosts', k + 1)
    BY LiveLevels DEF n, k
  <2>. QED  BY <1>2, <2>1, <2>5, <2>6
<1>4. SameAreaTree /\ gc'.current_area = gc.current_area /\ gc'.disable_depth = gc.disable_depth
  BY <1>2, SameTree DEF Following, VmInv, UnchangedGc, vars
<1>5. Refines
  BY <1>3, <1>4, ScopesAlone DEF Following
<1>6. AreasGiven'
  BY <1>1, AreasKept DEF Following
<1>7. HostsNest' /\ LastOf(hosts').depth = LastOf(hosts).depth
  BY <1>2, HostsSame DEF Following
<1>8. status' # "returned"
  BY <1>2 DEF handle_exception
<1>9. StacksOK'
  <2>1. LastOf(hosts).depth \in Nat
    BY StackTypes DEF Following
  <2>2. LastOf(hosts').depth < Len(frames') /\ LastOf(hosts').depth <= Len(frames')
    BY <1>1, <1>2, <1>7, <2>1
  <2>. QED  BY <1>7, <1>8, <2>2, StacksNext
<1>. QED  BY <1>5, <1>6, <1>9 DEF Keeps

(* A run that ended outside every annotated function left no scope. *)
LEMMA ResetKeeps ==
  ASSUME Following, ~RescueOutside, reset_for_run
  PROVE  Keeps
<1>. DEFINE n == Len(frames)
<1>1. /\ n \in Nat \ {0} /\ frames \in Seq(FrameRecord)
      /\ \A i \in 1 .. n : frames[i].mode = "enabled"
  BY StackTypes DEF Following, reset_for_run, Annotated
<1>2. Main \in FrameRecord /\ Main.mode = "enabled" /\ Main.area = NULL
  BY BoundsAssumption DEF Main, Frame, FrameRecord, Modes, NULL
<1>3. Len(frames') = 1 /\ frames'[1] = Main /\ frames' \in Seq(FrameRecord)
  <2>1. frames' = <<Main>>
    BY DEF reset_for_run
  <2>. QED  BY <1>2, <2>1
<1>4. hosts' = hosts /\ Len(hosts) = 1 /\ hosts[1].depth = 0 /\ hosts[1].kind = "run"
  <2>1. /\ Len(hosts) = 1 /\ hosts \in Seq(HostRecord)
        /\ hosts[1] = [kind |-> "run", depth |-> 0]
    BY DEF Following, VmInv, StatusOK, HostsOK, reset_for_run
  <2>2. hosts = <<hosts[1]>>
    BY <2>1
  <2>. QED  BY <2>1, <2>2 DEF reset_for_run
<1>5. \A i \in 1 .. n + 1 : HostScopes(hosts, i) = <<>>
  BY <1>4 DEF HostScopes
<1>6. LiveScopes' = LiveScopes
  <2>1. PICK gs : gs = frames'
    OBVIOUS
  <2>2. FrameScopes(gs, 1) = FrameScopes(frames, 1)
    BY <1>1, <1>2, <1>3, <2>1 DEF FrameScopes
  <2>3. Len(gs) = 1 /\ gs \in Seq(FrameRecord) /\ Len(frames) = n
    BY <1>3, <2>1
  <2>. HIDE DEF n
  <2>4. Levels(gs, hosts, 1 + 1) = Levels(frames, hosts, n + 1)
    <3>. DEFINE k == 1
    <3>1. k \in 1 .. n /\ Len(gs) = k
      BY <1>1, <2>3
    <3>2. /\ \A i \in 1 .. k : FrameScopes(gs, i) = FrameScopes(frames, i)
          /\ \A i \in k + 1 .. n : frames[i].mode = "enabled"
          /\ \A i \in k + 1 .. n + 1 : HostScopes(hosts, i) = <<>>
      BY <1>1, <1>5, <2>2
    <3>. HIDE DEF k
    <3>3. Levels(gs, hosts, k + 1) = Levels(frames, hosts, n + 1)
      BY <1>1, <2>3, <3>1, <3>2, RescueLevels
    <3>. QED  BY <3>3 DEF k
  <2>5. LiveScopes = Levels(frames, hosts, n + 1) /\ LiveScopes' = Levels(frames', hosts', 1 + 1)
    BY <1>3, LiveLevels DEF n
  <2>. QED  BY <1>4, <2>1, <2>4, <2>5
<1>7. SameAreaTree /\ gc'.current_area = gc.current_area /\ gc'.disable_depth = gc.disable_depth
  BY SameTree DEF Following, VmInv, UnchangedGc, vars, reset_for_run
<1>8. Refines
  BY <1>6, <1>7, ScopesAlone DEF Following
<1>9. AreasGiven'
  BY <1>2, <1>3 DEF AreasGiven
<1>10. StacksOK'
  BY <1>3, <1>4 DEF StacksOK, LastOf, reset_for_run
<1>. QED  BY <1>8, <1>9, <1>10 DEF Keeps

LEMMA StepKeeps ==
  ASSUME Following, ~RescueOutside, "boehm" \notin Failing, VmNext
  PROVE  Keeps
<1>0. /\ frames \in Seq(FrameRecord) /\ Len(frames) \in Nat \ {0}
      /\ LastOf(hosts).depth \in Nat /\ LastOf(hosts).depth <= Len(frames)
  BY StackTypes DEF Following, StacksOK
<1>1. CASE \E mode \in Modes : prepare_function_call(mode) \/ call_function_value(mode)
  <2>. PICK mode \in Modes : prepare_function_call(mode) \/ call_function_value(mode)
    BY <1>1
  <2>. QED  BY CallKeeps DEF prepare_function_call, call_function_value
<1>2. CASE execute_block_iteration
  <2>1. "enabled" \in Modes
    BY DEF Modes
  <2>. QED  BY <1>2, <2>1, CallKeeps DEF execute_block_iteration
<1>3. CASE with_disabled
  BY <1>3, DisabledBlockKeeps
<1>4. CASE handle_return
  <2>1. /\ Front(frames) # <<>> /\ status = "running"
        /\ exit_gc_context(LastOf(frames).mode) /\ frames' = Front(frames) /\ UNCHANGED hosts
    BY <1>4 DEF handle_return
  <2>2. Front(frames) \in Seq(FrameRecord) /\ Len(Front(frames)) = Len(frames) - 1
    BY <1>0, Popped
  <2>3. Len(Front(frames)) # 0
    BY <2>1, <2>2, EmptySeq
  <2>4. Len(frames) > 1
    BY <1>0, <2>2, <2>3
  <2>5. LastOf(hosts).depth < Len(frames)
    BY <2>1 DEF Following, StacksOK
  <2>6. /\ status' = "running" => LastOf(hosts).depth # Len(frames) - 1
        /\ status' = "returned" => LastOf(hosts).depth = Len(frames) - 1
    BY <1>4, <2>2 DEF handle_return
  <2>. QED  BY <2>1, <2>4, <2>5, <2>6, LeaveFrameKeeps
<1>5. CASE ResumeHost
  <2>1. Len(hosts) > 1 /\ LastOf(hosts).depth = Len(frames)
    BY <1>5 DEF Following, VmInv, StatusOK, StacksOK, ResumeHost
  <2>. QED  BY <1>5, <2>1, LeaveHostKeeps DEF ResumeHost
<1>6. CASE push_handler \/ pop_handler
  BY <1>6, SameStacksKeep DEF push_handler, pop_handler
<1>7. CASE handle_exception
  BY <1>7, RescueKeeps
<1>8. CASE LeaveCode \/ LeaveRun
  BY <1>8, SameStacksKeep DEF LeaveCode, LeaveRun
<1>9. CASE cleanup_frames_from
  <2>1. Len(hosts) > 1 /\ LastOf(hosts).depth < Len(frames)
    BY <1>0, <1>9 DEF cleanup_frames_from
  <2>2. Len(frames) > 1
    BY <1>0, <2>1, LastHost DEF Following, VmInv
  <2>3. status' # "running" /\ status' # "returned"
    BY <1>9 DEF cleanup_frames_from, Leaving
  <2>. QED  BY <1>9, <2>1, <2>2, <2>3, LeaveFrameKeeps DEF cleanup_frames_from
<1>10. CASE LeaveExecute
  <2>1. LastOf(hosts).depth = Len(frames)
    BY <1>0, <1>10 DEF LeaveExecute
  <2>2. status' # "returned"
    BY <1>10 DEF LeaveExecute, Leaving
  <2>. QED  BY <1>10, <2>1, <2>2, LeaveHostKeeps DEF LeaveExecute
<1>11. CASE reset_for_run
  BY <1>11, ResetKeeps
<1>. QED  BY <1>1, <1>2, <1>3, <1>4, <1>5, <1>6, <1>7, <1>8, <1>9, <1>10, <1>11 DEF VmNext

LEMMA StutterKeeps ==
  ASSUME Following, UNCHANGED <<vars, vmVars>>
  PROVE  Keeps
BY SameStacksKeep DEF UnchangedGc, vmVars

LEMMA FollowingInit ==
  ASSUME VmInit
  PROVE  Following /\ Scopes!ScopesInit
<1>1. VmInv
  BY VmInitInv
<1>2. frames = <<Main>> /\ Main \in FrameRecord /\ Main.mode = "enabled" /\ Main.area = NULL
  BY BoundsAssumption DEF VmInit, Main, Frame, FrameRecord, Modes, NULL
<1>3. Len(frames) = 1 /\ frames[1] = Main /\ frames \in Seq(FrameRecord)
  BY <1>2
<1>4. Len(hosts) = 1 /\ hosts[1].depth = 0 /\ hosts[1].kind = "run"
  BY DEF VmInit
<1>5. StacksOK /\ AreasGiven
  BY <1>2, <1>3, <1>4 DEF VmInit, StacksOK, AreasGiven, LastOf
<1>6. LiveScopes = <<>>
  <2>1. Level(frames, hosts, 1) = <<>> /\ Level(frames, hosts, 2) = <<>>
    <3>1. HostScopes(hosts, 1) = <<>> /\ HostScopes(hosts, 2) = <<>>
      BY <1>4 DEF HostScopes
    <3>2. FrameScopes(frames, 1) = <<>> /\ FrameScopes(frames, 2) = <<>>
      BY <1>2, <1>3 DEF FrameScopes
    <3>. QED  BY <3>1, <3>2, EmptySeq, ConcatEmptySeq DEF Level
  <2>2. Levels(frames, hosts, 1) = <<>>
    <3>. DEFINE parts == [i \in 1 .. 1 |-> Level(frames, hosts, i)]
    <3>1. parts \in Seq(Seq(Nat)) /\ Len(parts) = 1
      BY <1>3, LevelsSeq
    <3>2. parts[1] = <<>>
      BY <2>1
    <3>. HIDE DEF parts
    <3>3. FlattenSeq(parts) = <<>>
      BY <3>1, <3>2, FlattenOne
    <3>. QED  BY <3>3 DEF Levels, parts
  <2>3. Levels(frames, hosts, 1 + 1) = Levels(frames, hosts, 1) \o Level(frames, hosts, 1 + 1)
    BY <1>3, LevelsMore
  <2>4. LiveScopes = Levels(frames, hosts, 1 + 1)
    BY <1>3, LiveLevels
  <2>. QED  BY <2>1, <2>2, <2>3, <2>4
<1>7. gc.disable_depth = 0 /\ gc.current_area = 0
  BY DEF VmInit, Startup, NULL
<1>8. ScopesFollow
  <2>1. LiveScopes \in Seq(Nat) /\ Len(LiveScopes) = 0
    BY <1>6, EmptySeq
  <2>2. Zeros(LiveScopes, 0) = {} /\ LastIn(LiveScopes, 0) = {}
    BY DEF Zeros, LastIn
  <2>3. AreaIn(LiveScopes, 0) = 0
    BY <2>2 DEF AreaIn, AreaAt
  <2>. QED  BY <1>7, <2>1, <2>2, <2>3, FS_EmptySet DEF ScopesFollow
<1>. QED  BY <1>1, <1>5, <1>6, <1>7, <1>8 DEF Following, Scopes!ScopesInit

-----------------------------------------------------------------------------
(* As long as no exception is rescued or ends a run outside the annotated  *)
(* function it leaves, the manager does what GcScopes promises: its count  *)
(* of disables and its current area are those of the scopes that the live  *)
(* calls have entered (the gc_flags of the frames in core/vm/vm.cr), and   *)
(* every step of the VM opens a scope, closes the innermost one or leaves  *)
(* them all alone.  Areas are never refused (gc.c:443).                    *)
THEOREM ManagerFollowsScopesWhenInside ==
  ASSUME RescueOutside = FALSE, "boehm" \notin Failing
  PROVE  VmSpec => ManagerFollowsScopes
<1>1. VmInit => Following /\ Scopes!ScopesInit
  BY FollowingInit
<1>2. Following /\ [VmNext]_<<vars, vmVars>>
        => Following' /\ [Scopes!ScopesNext]_(Scopes!scopeVars)
  <2>. SUFFICES ASSUME Following, [VmNext]_<<vars, vmVars>>
                PROVE  Following' /\ [Scopes!ScopesNext]_(Scopes!scopeVars)
    OBVIOUS
  <2>1. Keeps
    BY StepKeeps, StutterKeeps
  <2>2. VmInv'
    BY VmStep, VmStutter DEF Following
  <2>. QED  BY <2>1, <2>2 DEF Keeps, Refines, Following
<1>. QED  BY <1>1, <1>2, PTL DEF VmSpec, ManagerFollowsScopes, Scopes!ScopesSpec
=============================================================================
