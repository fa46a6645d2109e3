---------------------------- MODULE LlvmObjects ----------------------------
(***************************************************************************)
(* Classes, modules, enumerations and constants of a compiled program, as  *)
(* llvm_runtime.c keeps them: linked lists that grow at the head and are   *)
(* searched by name. The bodies of classes run as the program does, in any *)
(* order and more than once. A method is the function it calls; all that   *)
(* matters of one here is whether it yields, for then it has a parameter   *)
(* more, the block, that its callers must pass.                            *)
(***************************************************************************)
EXTENDS Naturals, SequencesExt

CONSTANTS
  Classes,       \* names of classes and modules: sequences of segments
  IOStream,      \* the one of them that the runtime defines itself
  Selectors,     \* names of methods
  Builtins,      \* those of the methods of IOStream
  Loops,         \* those whose block the compiler passes aside
  Arity,         \* the parameters a method of each name has, without the block
  Members,       \* names of members and other constants: segments
  Values,        \* numbers of members
  NULL, BLOCK,   \* no value, and the block of a call
  GARBAGE,       \* a parameter that nobody passed
  MaxFunctions,  \* bound: methods defined
  MaxMembers,    \* bound: members of an enumeration
  MaxInstances   \* bound: instances made

ASSUME ObjectsAssumption ==
  /\ IOStream \in Classes /\ \A c \in Classes : c \in Seq(ToSet(c)) \ {<<>>}
  /\ Builtins \subseteq Selectors /\ IsFiniteSet(Builtins) /\ Loops \subseteq Selectors
  /\ \A n \in Selectors : Arity[n] \in Nat
  /\ {MaxFunctions, MaxMembers, MaxInstances} \subseteq Nat

VARIABLES
  global_classes,    \* names of the classes there are, the newest first
  class,             \* for each of them, its superclass, kind, methods and constants
  singleton_methods, \* methods of single objects, the newest first
  global_constants,  \* what each path was bound to
  rebound,           \* for the properties only: the paths that a class or a
                     \* constant was the last to be bound to
  instances,         \* the class of each instance
  made,              \* number of functions so far, by which they differ
  ds_io_builtins_initialized

names   == <<global_classes, global_constants, rebound>>
objects == <<instances, made, ds_io_builtins_initialized>>
vars    == <<names, class, singleton_methods, objects>>

ClassBox(c)      == [kind |-> "CLASS", class |-> c]
InstanceBox(i)   == [kind |-> "INSTANCE", instance |-> i]
EnumBox(c, n, v) == [kind |-> "ENUM", class |-> c, name |-> n, value |-> v]

(* A function knows, for the properties only, whose body it is from.       *)
Functions == [id : Nat, owner : Classes \cup {NULL}, name : Selectors, yields : BOOLEAN]
Methods   == [name : Selectors, func : Functions, expects_block : BOOLEAN]

(* No value is none of the values.                                         *)
ASSUME NullAssumption ==
  /\ NULL \notin Classes /\ NULL \notin Functions /\ NULL \notin Methods
  /\ NULL \notin [func : Functions, argv : Seq(Nat \cup {NULL, BLOCK})]
  /\ NULL \notin [kind : {"CLASS"}, class : Classes]
  /\ NULL \notin [kind : {"ENUM"}, class : Classes, name : Members, value : Values]

Known        == DOMAIN class
Receivers    == {ClassBox(c) : c \in Known} \cup {InstanceBox(i) : i \in DOMAIN instances}
ClassOf(box) == IF box.kind = "CLASS" THEN box.class ELSE instances[box.instance]

Function(id, owner, n, yields) == [id |-> id, owner |-> owner, name |-> n, yields |-> yields]

Named(list, n) == SelectInSeq(list, LAMBDA m : m.name = n)
Own(box, n)    == SelectInSeq(singleton_methods, LAMBDA m : m.receiver = box /\ m.name = n)

(* The methods of one object: those of the first k of the list that are.   *)
Of(box) ==
  LET IfIts(list, m) == IF m.receiver = box THEN Append(list, m) ELSE list
      of[k \in 0 .. Len(singleton_methods)] ==
        IF k = 0 THEN <<>> ELSE IfIts(of[k - 1], singleton_methods[k])
  IN  of[Len(singleton_methods)]

-----------------------------------------------------------------------------
(* Defining                                                                *)

ds_constant_set(path, value) ==
  [p \in DOMAIN global_constants \cup {path} |-> IF p = path THEN value ELSE global_constants[p]]

(* A class that is there already keeps its box, and its name whatever it   *)
(* is bound to. To reopen a class as a module makes it one.                *)
Opened(c, is_module) ==
  IF c \in Known THEN [class EXCEPT ![c].is_module = @ \/ is_module]
  ELSE [d \in Known \cup {c} |->
          IF d \in Known THEN class[d]
          ELSE [superclass |-> NULL, is_module |-> is_module, methods |-> <<>>, constants |-> <<>>]]

Naming(c) ==
  IF c \in Known THEN UNCHANGED names
  ELSE /\ global_classes' = <<c>> \o global_classes
       /\ global_constants' = ds_constant_set(c, ClassBox(c))
       /\ rebound' = rebound \cup {c}

DefineModule(c) ==
  /\ class' = Opened(c, TRUE)
  /\ Naming(c)
  /\ UNCHANGED <<singleton_methods, objects>>

(* From a class to the last of its superclasses.                           *)
Lineage(c) ==
  LET line[d \in Known \cup {NULL}] == IF d = NULL THEN <<>> ELSE <<d>> \o line[class[d].superclass]
  IN  line[c]

(* define_class, and set_superclass when the source names one. Nothing     *)
(* there keeps a class from becoming its own ancestor, and lookups from    *)
(* never ending; programs that do it are left out.                         *)
DefineClass(c, superclass) ==
  /\ superclass # NULL => superclass \in Known /\ c \notin ToSet(Lineage(superclass))
  /\ class' = IF superclass = NULL THEN Opened(c, FALSE)
              ELSE [Opened(c, FALSE) EXCEPT ![c].superclass = superclass]
  /\ Naming(c)
  /\ UNCHANGED <<singleton_methods, objects>>

Singleton(box, f) == [receiver |-> box, name |-> f.name, func |-> f]
Unflagged(f, expects_block) == [name |-> f.name, func |-> f, expects_block |-> FALSE]
Method(f, expects_block)    == [name |-> f.name, func |-> f, expects_block |-> expects_block]

(* Every method of a class is one of the class itself as well.             *)
Prepended(methods, fs)    == [i \in DOMAIN fs |-> Method(fs[i], fs[i].yields)] \o methods
PrependedFor(box, fs)     == [i \in DOMAIN fs |-> Singleton(box, fs[i])] \o singleton_methods

DefineMethod(c, n, yields) ==
  LET fs == <<Function(made, c, n, yields)>>
  IN  /\ made < MaxFunctions /\ made' = made + 1
      /\ class' = [class EXCEPT ![c].methods = Prepended(@, fs)]
      /\ singleton_methods' = PrependedFor(ClassBox(c), fs)
      /\ UNCHANGED <<names, instances, ds_io_builtins_initialized>>

DefineSingletonMethod(box, n, yields) ==
  /\ made < MaxFunctions /\ made' = made + 1
  /\ singleton_methods' = PrependedFor(box, <<Function(made, NULL, n, yields)>>)
  /\ UNCHANGED <<names, class, instances, ds_io_builtins_initialized>>

(* What is offered goes to the head of the list, the first offered first,  *)
(* unless something of that name is there by then.                         *)
EveryOne(list, offers) == Reverse(offers) \o list
IfAbsent(list, m) == IF Named(list, m.name) = 0 THEN <<m>> \o list ELSE list
WithAbsent(list, offers) ==
  LET with[k \in 0 .. Len(offers)] ==
        IF k = 0 THEN list ELSE IfAbsent(with[k - 1], offers[k])
  IN  with[Len(offers)]

(* The methods of the other class come before those that it has for        *)
(* itself. A copy does not tell that its function expects a block.         *)
Extend(c, other) ==
  LET offered == class[other].methods \o Of(ClassBox(other))
      added   == WithAbsent(Of(ClassBox(c)), [i \in DOMAIN offered |-> Singleton(ClassBox(c), offered[i].func)])
  IN  /\ class' = [class EXCEPT ![c].methods =
                     WithAbsent(@, [i \in DOMAIN offered |-> Method(offered[i].func, FALSE)])]
      /\ singleton_methods' = SubSeq(added, 1, Len(added) - Len(Of(ClassBox(c)))) \o singleton_methods
      /\ UNCHANGED <<names, objects>>

(* Mutant: a path is bound only once.                                      *)
DefineNewMember(c, n, v) ==
  /\ Len(class[c].constants) < MaxMembers
  /\ class' = [class EXCEPT ![c].constants = Append(@, EnumBox(c, n, v))]
  /\ global_constants' = IF Append(c, n) \in DOMAIN global_constants THEN global_constants
                         ELSE ds_constant_set(Append(c, n), EnumBox(c, n, v))
  /\ rebound' = rebound \ {Append(c, n)}
  /\ UNCHANGED <<global_classes, singleton_methods, objects>>

(* Members go to the end of the list, whatever it holds.                   *)
DefineEnumMember(c, n, v) ==
  /\ Len(class[c].constants) < MaxMembers
  /\ class' = [class EXCEPT ![c].constants = Append(@, EnumBox(c, n, v))]
  /\ global_constants' = ds_constant_set(Append(c, n), EnumBox(c, n, v))
  /\ rebound' = rebound \ {Append(c, n)}
  /\ UNCHANGED <<global_classes, singleton_methods, objects>>

(* A constant, or NULL for the name of a struct.                           *)
DefineConstant(path, value) ==
  /\ global_constants' = ds_constant_set(path, value)
  /\ rebound' = rebound \cup {path}
  /\ UNCHANGED <<global_classes, class, singleton_methods, objects>>

(* The first use of a stream defines its class, or reopens the program's   *)
(* class of that name.                                                     *)
ds_init_io_builtins ==
  LET fs == SetToSeq({Function(made, IOStream, n, FALSE) : n \in Builtins})
  IN  /\ ~ds_io_builtins_initialized /\ ds_io_builtins_initialized' = TRUE
      /\ class' = [Opened(IOStream, FALSE) EXCEPT ![IOStream].methods = Prepended(@, fs)]
      /\ Naming(IOStream)
      /\ singleton_methods' = PrependedFor(ClassBox(IOStream), fs)
      /\ instances' = Append(instances, IOStream)
      /\ made' = made + 1

-----------------------------------------------------------------------------
(* Calling: what is called with what, or NULL                              *)

ds_call_method(f, argv) == IF Len(argv) > 7 THEN NULL ELSE [func |-> f, argv |-> argv]

ds_lookup_method_from(c, n) ==
  LET line == Lineage(c)
      i    == SelectInSeq(line, LAMBDA d : Named(class[d].methods, n) > 0)
  IN  IF i = 0 THEN NULL ELSE class[line[i]].methods[Named(class[line[i]].methods, n)]

(* A method that expects a block gets one, or NULL.                        *)
CallExpecting(m, argv, block) ==
  IF m = NULL THEN NULL
  ELSE ds_call_method(m.func, IF m.expects_block THEN Append(argv, block) ELSE argv)

dragonstone_runtime_method_invoke(box, n, argv, block) ==
  IF Own(box, n) > 0 THEN ds_call_method(singleton_methods[Own(box, n)].func, argv)
  ELSE CallExpecting(ds_lookup_method_from(ClassOf(box), n), argv, block)

(* The compiler passes the block as the last argument, except for the      *)
(* names that collections loop under.                                      *)
emit_receiver_call(box, n, argv, block) ==
  IF n \in Loops THEN dragonstone_runtime_method_invoke(box, n, argv, block)
  ELSE dragonstone_runtime_method_invoke(box, n, IF block = NULL THEN argv ELSE Append(argv, block), NULL)

dragonstone_runtime_super_invoke(owner, n, argv, block) ==
  IF class[owner].superclass = NULL THEN NULL
  ELSE CallExpecting(ds_lookup_method_from(class[owner].superclass, n), argv, block)

(* The method of an operator, looked for in the class only.                *)
ds_try_invoke_operator(box, n, argv) ==
  CallExpecting(ds_lookup_method_from(ClassOf(box), n), argv, NULL)

OrElse(a, b) == IF a # NULL THEN a ELSE b
Bound(path)  == IF path \in DOMAIN global_constants THEN global_constants[path] ELSE NULL

(* The newest class with one of the names.                                 *)
ClassNamed(paths) ==
  LET i == SelectInSeq(global_classes, LAMBDA c : c \in paths)
  IN  IF i = 0 THEN NULL ELSE ClassBox(global_classes[i])

LookupBound(path, split) == Bound(path)

(* The compiler passes a path as one string or, where the source has the   *)
(* whole path, split into its segments.                                    *)
constant_lookup(path, split) ==
  LET tail == <<Last(path)>>
  IN  OrElse(Bound(path),
        IF split THEN ClassNamed({path, tail})
        ELSE OrElse(ClassNamed({path}), OrElse(Bound(tail), ClassNamed({tail}))))

(* With one argument, the first member of that value, if there is one.     *)
MemberOf(c, v) ==
  LET i == SelectInSeq(class[c].constants, LAMBDA e : e.value = v)
  IN  IF i = 0 THEN NULL ELSE class[c].constants[i]

(* initialize is looked up in the class and never told of a block.         *)
Initialize(c, argv) ==
  LET m == ds_lookup_method_from(c, "initialize")
  IN  IF m = NULL THEN NULL ELSE ds_call_method(m.func, argv)

New(c) ==
  /\ ~class[c].is_module /\ Len(instances) < MaxInstances
  /\ instances' = Append(instances, c)
  /\ UNCHANGED <<names, class, singleton_methods, made, ds_io_builtins_initialized>>

Init ==
  /\ global_classes = <<>> /\ global_constants = <<>> /\ rebound = {} /\ class = <<>>
  /\ singleton_methods = <<>> /\ instances = <<>>
  /\ made = 0 /\ ds_io_builtins_initialized = FALSE

OpenClass ==
  \/ \E c \in Classes : DefineModule(c)
  \/ \E c \in Classes, superclass \in Classes \cup {NULL} : DefineClass(c, superclass)

DefineMethods ==
  \/ \E c \in Known, n \in Selectors, yields \in BOOLEAN : DefineMethod(c, n, yields)
  \/ \E box \in Receivers, n \in Selectors, yields \in BOOLEAN : DefineSingletonMethod(box, n, yields)
  \/ \E c, other \in Known : Extend(c, other)
  \/ ds_init_io_builtins
  \/ \E c \in Known : New(c)

DefineNames ==
  \/ \E c \in Known, n \in Members, v \in Values : DefineEnumMember(c, n, v)
  \/ \E path \in {Append(c, n) : c \in Classes \cup {<<>>}, n \in Members} \cup Classes :
       \E value \in {NULL} \cup {ClassBox(c) : c \in Known} : DefineConstant(path, value)

Next == OpenClass \/ DefineMethods \/ DefineNames

Spec == Init /\ [][Next]_vars

-----------------------------------------------------------------------------
(* The lists implement two tables, in which the newest definition wins and *)
(* extend adds only what is not there, however classes are reopened and    *)
(* extended by one another or by themselves, although every method is in   *)
(* two lists and copies go to the heads of both (llvm_runtime.c:1962-2071).*)
At(list, i)  == IF i = 0 THEN NULL ELSE list[i].func
InList(list) == [n \in Selectors |-> At(list, Named(list, n))]
OwnOf(box)   == [n \in Selectors |-> At(singleton_methods, Own(box, n))]

ClassBoxes == {ClassBox(c) : c \in Classes}
Objects    == ClassBoxes \cup {InstanceBox(i) : i \in 1 .. MaxInstances + 1}

ClassTables     == [o \in ClassBoxes |-> InList(IF o.class \in Known THEN class[o.class].methods ELSE <<>>)]
SingletonTables == [o \in Objects |-> OwnOf(o)]
Defined         == {singleton_methods[i].func : i \in DOMAIN singleton_methods}

Tables == INSTANCE LlvmTables
  WITH Classes <- ClassBoxes, NONE <- NULL,
       methods <- ClassTables, singletons <- SingletonTables, defined <- Defined

ListsAreTables == Tables!Spec

(* A function that yields gets the block of the call, or NULL without one, *)
(* where the block is the last argument, or where the nearest class with   *)
(* the method wrote it itself. It gets what nobody passed, when there is   *)
(* no block or its name is one that collections loop under, as a method of *)
(* a class, module or single object, as the copy an extend has made, and   *)
(* as initialize (llvm_runtime.c:1247, :1512, :1521, :1923, :2027, :2775). *)
(* A method that is found is called unless there are more than seven       *)
(* arguments: its block counts twice when it is passed in both ways.       *)
BlocksArrive ==
  \A n \in Selectors, block \in {NULL, BLOCK} :
    LET argv == [i \in 1 .. Arity[n] |-> i]
        Nearest(c) == SelectInSeq(Lineage(c), LAMBDA d : InList(class[d].methods)[n] # NULL)
        Wrote(c)   == LET d == Lineage(c)[Nearest(c)]
                      IN  Nearest(c) > 0 /\ InList(class[d].methods)[n].owner = d
        Parameter(call) == IF Len(call.argv) > Arity[n] THEN call.argv[Arity[n] + 1] ELSE GARBAGE
        Passed(call, passes) ==
          call # NULL /\ call.func.yields => Parameter(call) = IF passes THEN block ELSE GARBAGE
    IN  /\ \A box \in Receivers :
             LET call == emit_receiver_call(box, n, argv, block)
                 own    == Own(box, n) > 0
                 packed == block # NULL /\ n \notin Loops
                 told   == ~own /\ Wrote(ClassOf(box))
             IN  /\ Passed(call, packed \/ told)
                 /\ call = NULL /\ (own \/ Nearest(ClassOf(box)) > 0) =>
                      Arity[n] + (IF packed THEN 1 ELSE 0) + (IF told THEN 1 ELSE 0) > 7
                 /\ block = NULL => Passed(ds_try_invoke_operator(box, n, argv), Wrote(ClassOf(box)))
        /\ \A c \in Known :
             /\ Passed(dragonstone_runtime_super_invoke(c, n, argv, block), Wrote(class[c].superclass))
             /\ n = "initialize" => Passed(Initialize(c, argv), FALSE)

(* However often an enumeration is reopened, and whatever else is bound to *)
(* its paths, a path finds the last of the members that it names unless a  *)
(* class or a constant has since taken it, and a value finds the first of  *)
(* the members that have it (llvm_runtime.c:1494-1507, :2073-2101): they   *)
(* find the same one unless the class has two of that name or value.       *)
(* A class is found by its name unless a constant or a member has it now,  *)
(* even when a struct of that name has erased it; but then a path that is  *)
(* split may find another class of the same last segment (:2125-2140).     *)
NamesResolve ==
  \A c \in Known :
    LET members == class[c].constants
    IN  /\ \A i \in DOMAIN members :
             LET e    == members[i]
                 path == Append(c, e.name)
             IN  /\ (\A k \in 1 .. i - 1 : members[k].value # e.value) => MemberOf(c, e.value) = e
                 /\ path \notin rebound /\ (\A k \in i + 1 .. Len(members) : members[k].name # e.name) =>
                      \A split \in BOOLEAN : constant_lookup(path, split) = e
        /\ global_constants[c] \in {NULL, ClassBox(c)} =>
             /\ constant_lookup(c, FALSE) = ClassBox(c)
             /\ constant_lookup(c, TRUE) \in {ClassBox(c), ClassBox(<<Last(c)>>)}
=============================================================================
