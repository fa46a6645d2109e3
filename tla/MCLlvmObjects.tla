--------------------------- MODULE MCLlvmObjects ---------------------------
(***************************************************************************)
(* Two kinds of programs: those that define methods, and those that define *)
(* names. What one kind defines is not looked at by the calls of the other.*)
(***************************************************************************)
EXTENDS LlvmObjects

CONSTANT MaxListed   \* bound: methods of single objects, copies included
VARIABLE program

B  == <<"B">>
AB == <<"A", "B">>
IO == <<"IOStream">>

MCClasses == {B, AB, IO}
MCArity   == [each |-> 0, initialize |-> 6]

MCInit == Init /\ program \in {"methods", "names"}

(* The first kind opens its classes and makes its instances before it      *)
(* defines a method, since a lookup looks only at what they are by then:   *)
(* AB is a module, IO may inherit from B, and there is an instance of IO   *)
(* beside the one of the runtime. The second kind has no superclasses and  *)
(* few paths.                                                              *)
Opening ==
  /\ OpenClass
  /\ IF program = "methods"
     THEN /\ singleton_methods = <<>>
          /\ global_classes' \in {<<B>>, <<AB, B>>, <<IO, AB, B>>}
          /\ \A c \in DOMAIN class' : /\ class'[c].is_module <=> c = AB
                                      /\ class'[c].superclass # NULL => c = IO /\ class'[c].superclass = B
     ELSE \A c \in DOMAIN class' : class'[c].superclass = NULL /\ c # IO

DefiningMethods ==
  /\ DefineMethods
  /\ Len(global_classes) = 3
  /\ (made' = made /\ instances' # instances) => singleton_methods = <<>> /\ Last(instances') = IO
  /\ Len(singleton_methods') <= MaxListed

DefiningNames ==
  DefineNames /\ DOMAIN global_constants' \subseteq {B, AB, <<"C">>, Append(B, "C")}

MCNext ==
  /\ \/ Opening
     \/ program = "methods" /\ DefiningMethods
     \/ program = "names" /\ DefiningNames
  /\ UNCHANGED program

MCSpec == MCInit /\ [][MCNext]_<<vars, program>>
=============================================================================
