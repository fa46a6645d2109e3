------------------------------ MODULE GcOwners ------------------------------
(***************************************************************************)
(* What the memory manager promises of the blocks it has handed out: each  *)
(* belongs to one arena or to the collector, from the moment it is         *)
(* obtained until its owner disposes of it. An arena disposes of all its   *)
(* blocks when it ends, and of no other; a block may be given away before. *)
(***************************************************************************)
EXTENDS Naturals, Sequences, SequencesExt

VARIABLES
  open,   \* the open arenas, the innermost first
  owner   \* the owners of every live block, of which there is to be one

ownerVars == <<open, owner>>

Collector == 0

Innermost == IF open = <<>> THEN Collector ELSE Head(open)

OwnedBy(o) == {p \in DOMAIN owner : owner[p] = {o}}

(* The blocks S are gone.                                                  *)
Without(S) == [p \in DOMAIN owner \ S |-> owner[p]]

(* The block p is new and belongs to o; the blocks S are gone.             *)
With(p, o, S) == [q \in (DOMAIN owner \ S) \cup {p} |-> IF q = p THEN o ELSE owner[q]]

Begin ==
  /\ open' # <<>>
  /\ open' = <<Head(open')>> \o open
  /\ Head(open') \notin ToSet(open) \cup {Collector}
  /\ UNCHANGED owner

End ==
  /\ open # <<>>
  /\ open = <<Head(open)>> \o open'
  /\ owner' = Without(OwnedBy(Head(open)))

EndAll ==
  /\ open' = <<>>
  /\ \E S \in SUBSET OwnedBy(Collector) :
       owner' = [p \in OwnedBy(Collector) \ S |-> {Collector}]

Collect ==
  /\ \E S \in SUBSET OwnedBy(Collector) : owner' = Without(S)
  /\ UNCHANGED open

(* The collector may run before the block is found.                        *)
Obtain(p) ==
  /\ p \notin DOMAIN owner
  /\ \E S \in SUBSET OwnedBy(Collector) : owner' = With(p, {Innermost}, S)
  /\ UNCHANGED open

Give(p) ==
  /\ p \notin OwnedBy(Collector)
  /\ \E a \in ToSet(open) : owner' = [owner EXCEPT ![p] = {a}]
  /\ UNCHANGED open

(* The contents of p move to a new block, which belongs to the owner of p  *)
(* or to the collector.                                                    *)
Move(p, q) ==
  /\ p \notin OwnedBy(Collector)
  /\ q \notin DOMAIN owner
  /\ \E o \in {owner[p], {Collector}} : owner' = With(q, o, {p})
  /\ UNCHANGED open

OwnersInit == open = <<>> /\ owner = <<>>

OwnersNext ==
  \/ Begin \/ End \/ EndAll \/ Collect
  \/ \E p \in DOMAIN owner' : Obtain(p)
  \/ \E p \in DOMAIN owner : Give(p) \/ \E q \in DOMAIN owner' : Move(p, q)

OwnersSpec == OwnersInit /\ [][OwnersNext]_ownerVars
=============================================================================
