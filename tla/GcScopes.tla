------------------------------ MODULE GcScopes ------------------------------
(***************************************************************************)
(* What a Dragonstone program is promised of the memory manager: it is     *)
(* governed by the scopes that are open, innermost last.  A scope turns    *)
(* the collector off or opens an area; a scope that is closed leaves       *)
(* nothing behind.                                                         *)
(***************************************************************************)
EXTENDS Integers, FiniteSets, Sequences, SequencesExt

VARIABLES
  scopes,         \* the open scopes: the area each opened, or 0 for "collector off"
  disable_depth,  \* scopes that keep the collector off
  current_area    \* the innermost area, or 0

scopeVars == <<scopes, disable_depth, current_area>>

(* How many scopes keep the collector off. *)
Off(s) == Cardinality({i \in 1 .. Len(s) : s[i] = 0})

(* The area that the last scope with one opened. *)
Innermost(s) ==
  LET last == {i \in 1 .. Len(s) : s[i] # 0 /\ \A j \in i + 1 .. Len(s) : s[j] = 0}
  IN  IF last = {} THEN 0 ELSE s[CHOOSE i \in last : TRUE]

Governed(s) ==
  /\ disable_depth' = Off(s)
  /\ current_area' = Innermost(s)

(* An area is opened anew. *)
OpenScope(a) ==
  /\ a = 0 \/ a \notin ToSet(scopes)
  /\ scopes' = Append(scopes, a)
  /\ Governed(Append(scopes, a))

CloseScope ==
  /\ scopes # <<>>
  /\ scopes' = Front(scopes)
  /\ Governed(Front(scopes))

ScopesInit == scopes = <<>> /\ disable_depth = 0 /\ current_area = 0

ScopesNext == CloseScope \/ \E a \in {0, current_area'} : OpenScope(a)

ScopesSpec == ScopesInit /\ [][ScopesNext]_scopeVars
=============================================================================
