----------------------------- MODULE LlvmTables -----------------------------
(***************************************************************************)
(* What the lists of methods of llvm_runtime.c promise: two tables, that   *)
(* of the methods of each class and that of the methods each object has    *)
(* for itself. A class is an object too, and its methods are its own.      *)
(***************************************************************************)
CONSTANTS
  Objects, Classes,  \* those of the objects that are classes
  Selectors,         \* names of methods
  Functions,         \* what is called
  NONE               \* no function

VARIABLES
  methods, singletons,
  defined             \* functions there have ever been

tables == <<methods, singletons, defined>>

Init ==
  /\ methods = [c \in Classes |-> [n \in Selectors |-> NONE]]
  /\ singletons = [o \in Objects |-> [n \in Selectors |-> NONE]]
  /\ defined = {}

New(f) == f \in Functions \ defined /\ f \in defined'

(* The newest definitions win, for the instances and for the class.        *)
Define(c, ns) ==
  LET Redefined(table) == [n \in Selectors |-> IF n \in ns THEN methods'[c][n] ELSE table[n]]
  IN  /\ \A n \in ns : New(methods'[c][n])
      /\ methods' = [methods EXCEPT ![c] = Redefined(@)]
      /\ singletons' = [singletons EXCEPT ![c] = Redefined(@)]

DefineFor(o, n) ==
  /\ New(singletons'[o][n])
  /\ singletons' = [singletons EXCEPT ![o][n] = singletons'[o][n]]
  /\ UNCHANGED methods

(* The class gets what it lacks, from the methods of the other before what *)
(* the other has for itself.                                               *)
Extend(c, other) ==
  LET Lent(n) == IF methods[other][n] # NONE THEN methods[other][n] ELSE singletons[other][n]
      Completed(table) == [n \in Selectors |-> IF table[n] # NONE THEN table[n] ELSE Lent(n)]
  IN  /\ methods' = [methods EXCEPT ![c] = Completed(@)]
      /\ singletons' = [singletons EXCEPT ![c] = Completed(@)]
      /\ UNCHANGED defined

Next ==
  \/ \E c \in Classes, ns \in SUBSET Selectors : Define(c, ns)
  \/ \E o \in Objects, n \in Selectors : DefineFor(o, n)
  \/ \E c, other \in Classes : Extend(c, other)

Spec == Init /\ [][Next]_tables
=============================================================================
