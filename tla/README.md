# A verification development for Dragonstone

Dragonstone is a language with three ways of running a program: a native tree
walker, a compiler to bytecode with its VM (the "core"), behind an engine that
chooses between the two, and a compiler to LLVM whose programs are linked with
a runtime in C; below them is a memory manager in C. This directory holds
TLA+ models of the parts whose correctness depends on long sequences of events,
the TLC configurations that check them on small instances, and theorems that the
TLA+ proof system checks for every instance. `PROJECT.json` maps every
definition to the lines it models; all paths below are relative to
`src/src/dragonstone` unless they start otherwise.

To run: `tlc -config X.cfg M` for a module `M` and a configuration named `M_*.cfg`
(`MCVmControl_*.cfg` belong to `MCVmControl`, `MCLlvmControl*.cfg` to
`MCLlvmControl`, and so on), and `tlapm` on the modules
named `*Proofs.tla`.

## 1. Inventory

### Memory manager: `shared/runtime/abi/std/gc/gc.c`, `gc.h`, wrapper `gc.cr`

*State.* One global structure: the current area, the disable depth, an area
count, byte counters, `initialized`. Each area has a parent, a tracking array of
(pointer, size, finalizer) with a capacity, and a byte total. Outside an area
everything is delegated to the Boehm collector.
*Operations.* init, shutdown, alloc (with or without finalizer), realloc,
begin/end area, escape, escape_to, disable, enable, collect, write barrier,
statistics.
*Callers.* The VM and the interpreter (annotated functions, `gc.with_disabled`),
generated LLVM code, and Dragonstone programs through `gc.begin`, `gc.end` ...
*Hard.* Ownership moves between arrays one call at a time and goes wrong only when
an area ends; finalizers follow their objects across three places; disable nests
and spans shutdown; allocation can fail at each point; areas can be ended out of
order. *Correct* means: no block is freed twice, none leaks, finalizers run
once, a disabled collector does not collect, the chain is the open areas.

### Bytecode generator: `core/compiler/codegen/bytecode_generator.cr`

*State.* The code emitted, the current and greatest static stack depth, name and
constant tables. *Operations.* One compile method per node of the tree.
*Hard.* Back-patched jump targets; values kept or dropped by each statement; a
static depth that follows the order of emission. *Correct*: the code has the
effect of the tree.

### Bytecode VM, control flow: `core/vm/vm.cr`

*State.* `@stack`, `@frames`, `@handlers`, `@loop_stack`, two flags for what an
ensure block interrupted, and the Crystal call stack: a method or a block runs in
an `execute` inside the Crystal method that called it. *Hard.* All of these have
to be cut back together, by exceptions of the program, exceptions of Crystal,
`break`/`next`/`redo`/`retry` and returns. *Correct*: the same effect as the
interpreter, nothing left on any stack, every program that should end does.

### Native interpreter: `native/interpreter/evaluator/visitor.cr`, `builtins/runtime_calls.cr`

*State.* Scopes, type scopes, block/method/container stacks, loop and rescue
depth; control flow is Crystal's. *Hard.* What exceptions leave on its stacks.
It is also the reference for what a program means.

### VM and memory manager

A frame of an annotated function enters a context of the manager
(`enter_gc_context`) and leaves it (`exit_gc_context`); `gc.with_disabled` does so
around a block. *Hard.* There are four ways out of a frame, and the context
must be left on each. *Correct*: the manager follows the scopes that are open.

### LLVM target and its runtime: `core/compiler/targets/llvm/backend.cr`, `llvm_runtime.c`

*State.* A value is a pointer: NULL, a C string, or a box with a kind. The runtime
keeps lists of classes (with methods and constants), of methods of single objects
and of constants by path; arrays, bags and maps on the heap; and one linked list
of exception frames (`top_exception_frame`). The compiler keeps a stack of the
ensure blocks around the statement it generates code for.
*Operations.* Operators on any two values; ranges, slices and indices; loops of
collections that call a block; definition and reopening of classes, `extend`,
enumerations, constants, calls with or without a block, `super`; push, pop and
`longjmp` of exception frames; code for begin blocks, loops and ways out.
*Hard.* Every operator decides by itself what it does with which pair of kinds;
literals and results have different widths; a loop's block may change what is
being looped over; a method is in two lists and can be reached by five ways of
calling, not all of which know whether it expects a block; a body pops one
frame, its jumps pop none. *Correct*: operators agree with one another; loops
give each item once and stay within memory; lists behave as tables; a block
reaches the method that expects it; a compiled program does what the
interpreter does with it.

### Not modelled

| Component | Source | Why it matters, or why not |
| --- | --- | --- |
| Hybrid engine, importer | `hybrid/runtime_engine.cr`, `shared/language/resolver/loader.cr` | Unit cache keyed by path and backend, recursive imports, a second attempt on another backend after any exception. Planned (4). |
| Module resolver | `shared/language/resolver/resolver.cr` | Depth-first visit with cycle check, topological order. Planned (5). |
| Interpreter's scopes and contexts | `native/interpreter` | Unwinding of five stacks. Planned (6). |
| Values, names and types of the VM | `core/vm/vm.cr` | Name caches and global slots. Planned (7). |
| Lexical bindings, lowering, fingerprint | `shared/language/transforms`, `shared/ir` | Tree rewriting; a candidate. |
| Rest of the LLVM target and runtime | `core/compiler/targets/llvm` | Instance variables, tuples, a class's own `new`, the value of an enumeration member as a method, blocks and closures as code, arguments of the process, methods of strings, Unicode, files, formatting, `debug`, type names: each a copy, a conversion or text. Arithmetic that the emitter writes inline for typed operands is one LLVM instruction each. |
| Lexer, parser, type checker, other targets, FFI, std ABI, command line, stdlib | | Sequential translation of text or data, I/O, stubs or prose. |
| Boehm collector, UTF-8 tables | `std/gc/vendor`, `utf8.cr` | Vendored or generated. Boehm is modelled by the interface that `gc.c` uses. |
| `core/runtime/*.c` | | An unfinished walker over Ruby's C API: no build file compiles it, and its visit functions are not called. |

The hazards, each at its line with the properties aimed at it, are in
`PROJECT.json`.

## 2. Plan

1. `GcArea`, with proofs: **done**.
2. `Ast`, `Interpreter`, `Codegen`, `VmControl`, `MCVmControl`: **done** for
   statements that direct control.
3. `VmGc` over `GcArea`, refining the abstract `GcScopes`: **done**.
4. The LLVM runtime, bottom up: `LlvmOperators` (values), `LlvmRanges` over it,
   `LlvmCollections` over both, run together by `MCLlvmValues`; `LlvmObjects`,
   refining the abstract `LlvmTables`; `LlvmControl`, the generated control flow
   against `Interpreter`: **done**.
5. The engine: unit cache, imports, fallback; abstract specification: every unit
   of a program is evaluated once.
6. The resolver: visit, cycle check, `topo_sort` against a reference order over
   all small graphs.
7. The interpreter's scopes and contexts, with `with_gc_context`, composed with
   `GcArea` the way `VmGc` is.
8. Name caches and global slots of the VM; `end_area` with one step per finalizer
   and callbacks between them.

## 3. The modules

### `GcArea`, `GcOwners` (with `GcAreaProofs`, `GcAreaBlockProofs`)

| Model | Code |
| --- | --- |
| `gc`, `stats` | `dragonstone_gc_global` |
| `areas[a]` | `DragonstoneGcArea`; `lineage` is the chain of `parent` pointers, which never changes |
| `heap[p]` | one result of `malloc` or `GC_MALLOC`; addresses are not reused |
| `boehm_off` | Boehm's own count of `GC_disable` (external) |
| `finalized`, `trusted` | history, read by properties only (`finalized` says which finalizers have run) |
| `Track`, `Untrack`, `FindArea` | `area_track`, `area_untrack` (swap with the last), `find_area` |
| one action per function | the function, with the failures of `malloc`, `GC_MALLOC` and of growing a tracking array as `Failing` allows |

`alloc_atomic`, `strdup` and `memdup` are allocations that differ in what Boehm
scans. `BoehmCollect` is a collection any `GC_MALLOC` may start. What Boehm reclaims is any
set of its blocks: the model does not know which the program still reaches, so
"reclaimed" is what could be. `Spec` is a client that ends the innermost area
(`GC.with_area`, annotated functions, `gc.end` without argument); `AnyOrderSpec`
may end any open area. Once an ended area is on the chain (`ChainOpen` no longer
holds), a call that follows the chain would read freed memory: nothing is said of
it, and only calls that do not follow the chain go on. `GC_REALLOC` of a block of
Boehm's is taken to return that block: the collector keeps its finalizer and
address, or moves both.

`GcOwners` is the promise of the manager to its clients: every live block has one
owner, an arena or the collector; ending an arena disposes of what it owns then, and
of no block that was given away or moved before. The refinement takes as owners of
a block all the open areas whose array has it, and the collector if the block is
Boehm's: an entry that an escape leaves behind is a second owner.

The write barrier is modelled as it is: silent also for a value of the collector
that is stored into the memory of an area (`gc.c:724`). The collector does not scan
that memory, so such a reference may dangle; `TrustedReferencesHold` names it as
the one exception.

### `Ast`, `Interpreter`, `Codegen`, `VmControl`, `MCVmControl`

`Ast` is the tree both backends get. `Interpreter` gives a program its output and
outcome as a function of the conditions it reads (a signal takes the place of a
Crystal exception). `Codegen` translates a program into the VM's code, with the
stack discipline of each statement, its jumps and the generator's own static
depth check; programs it rejects do not run (`Compiles`). `VmControl` executes
the code, one action per group of instructions that touch the same stacks:
`frames`, `handlers`, `loops`, `stack` are the VM's own; `hosts` are the Crystal
methods waiting for an `execute`, with the depth at which each will go on;
`status` is `running` or the Crystal exception on its way out. Expressions are
one instruction, `WORK`, whose evaluation is observed; conditions are chosen as
the VM reads them and remembered, so that `BackendsAgree` can compare with what
the interpreter makes of the same choices. An ip carried into another piece of
code ends the model in `"astray"`.

### `VmGc` (with `VmGcProofs`, `VmGcScopesProofs`) and `GcScopes`

`VmGc` extends `GcArea` with the VM's frames, handlers and executes. The code that
runs is any order of instructions. Each action that pushes or pops frames performs
the manager's operation in the same step; `CollectorOff`, `ContextsClosed` and the
refinement talk about both. `GcScopes` is the promise: scopes open and close
innermost first, and the manager's depth and current area are a function of those
that are open. `RescueOutside = FALSE` restricts exceptions to those rescued in
the annotated function that raises them (the others are the finding
`vmgc_leak`). The program's own calls of `gc.disable` or `gc.begin` are left out.

### `LlvmOperators`, `LlvmRanges`, `LlvmCollections`, `MCLlvmValues` (with `LlvmOperatorsProofs`, `LlvmRangesProofs`, `LlvmCollectionsProofs`)

A value is a record with the kind of its box; NULL and C strings are the two
unboxed kinds. An operator is an operator of two values with an outcome: a value,
`RAISED`, or `DEAD` where C ends the process. The runtime is compiled without
optimisation (`cli_build.cr:478`), so sums wrap, shifts count modulo the width and
the least integer divided by -1 traps. A float is a double of `Precision` bits, counted
in the least positive ones: `Doubles` are the mantissas times powers of two, and
`Rounded` is the nearest one, the even one of two. What is too great is an
infinity, and NaN comes of what has no value; both are operands like any other.
Integers become doubles by rounding (`Converted`), so that two 64-bit integers may
equal the same float. Left out are the sign of a zero and how floats
are written; `pow` returns any double, and a cast of a float that does not fit any
integer (C leaves it undefined). Strings are sequences of bytes and
`Encoding` gives the bytes of a character (UTF-8 is one such code):
`ds_slice_string` counts bytes, `utf8proc_iterate` decodes the first character.
`operands` are two values that a computation has; `Operate` puts the result of any
operator in the place of one of them.

| Model | Code |
| --- | --- |
| `add` ... `lte`, `eq`, `ne`, `case_compare` | `dragonstone_runtime_add` ... without the overriding methods, which `LlvmObjects` has |
| `ds_get_ordinal`, `range_literal`, `Element`, `slice` ... | ranges and slices |
| `object.slots`, `object.length` | an array, bag or map: memory and how much of it counts (`pop` only counts down, growing keeps the memory) |
| `loops` | the C frames of loops in progress, innermost last; `at` tells whether the block is being called |
| `Iterate`, `BlockReturns` | the code from one call of the block to the next, and what is done with its result |

The loops of arrays, bags and maps (`each`, `select`, `map`, `inject`, and `until`)
are written out for each kind in the C code with one shape; the model has that
shape once, and the differences (which bounds are read again, where the first
item goes) as conditions on the kind.

### `LlvmObjects`, `LlvmTables`, `MCLlvmObjects` (with `LlvmObjectsProofs`)

`global_classes`, `class`, `singleton_methods` and `global_constants` are the
runtime's lists, newest first, with the class structures as records. The actions
are what generated code calls at the place of a definition, in any order a program
may have them. A method is the function it calls; what matters of one is who wrote
it and whether it yields. The five ways of calling are `emit_receiver_call`
(the compiler's packing of arguments over `dragonstone_runtime_method_invoke`),
the same from within the runtime, `dragonstone_runtime_super_invoke`,
`ds_try_invoke_operator` and `Initialize`. `LlvmTables` is the promise: two tables
in which a definition replaces and `extend` fills gaps; the refinement reads each
list by its first entry of a name. Programs that make a class its own ancestor are
left out: `set_superclass` accepts them and lookups then never end
(`llvm_runtime.c:1897`). The operators that walk a list (`Lineage`, `Of`, `WithAbsent`)
are recursive functions of a class or of a number of entries, so that they can be proved
about. A struct erases the binding of its name
(`backend.cr:4538`), which is a constant set to NULL.

### `LlvmControl`, `MCLlvmControl`

`generate` compiles the tree of `Ast` the way the backend does, with the compiler's
stack of ensure blocks as its second argument: emitting the chain before a return
empties it. `calls` are the C functions being executed, each with the tasks that
are left to it (statements, and the generated code between them); `frames` is
`top_exception_frame`. A raise takes the first frame; whether the function that
made it is still executing, and whether its begin block is, decides between
going on there, `"undefined"` (a `longjmp` into a function that has returned) and
`"stray"` (a clause that runs a second time), after which the run is not
followed. Conditions are chosen at the start, and `Interpreter` says what the
program means under them.

## 4. The runs

`CHECK_DEADLOCK FALSE` everywhere: programs end, and clients of the manager stop
when the bounds are used up.

| Run | What it asks | Bounds and why they suffice |
| --- | --- | --- |
| `gc_nesting` | Chain, count, leaks, "not found is Boehm", the write barrier; `GcArea` implements `GcOwners` | Three areas are a parent, a child and one between; three blocks are one in each or two in one, with an array that must grow after one entry; one stored reference, followed through any later history |
| `gc_blocks` | Type, ownership, finalizers, byte counts, disabling, areas ended in any order | Two areas and the collector are every kind of escape; two sizes let blocks grow and shrink; `malloc` and `GC_MALLOC` fail; two nested disables, or one left behind by a shutdown and one after it |
| `vm_control` | Agreement of the backends, live handlers and loop contexts, clean stacks, nothing wrong before a failure, termination | 1136 programs: 480 with begin blocks (attempts × clauses × ensure blocks × functions that raise, and the same nested), 125 with loops (pairs of `break`/`next`/`redo`, alone, nested, in begin blocks, in functions), 443 with enumerations of up to two elements, methods and yields, and 88 that may fail (stray flow keywords, unrescued exceptions, exceptions through methods, stack underflows), for which agreement is not asked. Three free conditions make two retries, or two iterations, and another outcome |
| `vmgc_scopes` | `VmGc` implements `GcScopes` | Four frames, three executes, three areas: an area and a disable in each other, both ways, twice |
| `vmgc_any` | The collector is off where it must be, exceptions rescued anywhere, two runs in one process | Three frames, three executes |
| `llvm_values` | Orders, divisions, powers, widths, ranges and slices; stores, keys and loops of collections | Integers of 3 bits as literals and 4 as results have every sign, both extremes and all wraps; doubles have two bits of mantissa and five powers of two, so that integers of 4 bits are rounded, halves and quarters exist, products overflow and `inf - inf` is NaN; strings of up to three bytes, with a character of two bytes that a slice cuts apart. Collections to three items, one loop at a time with a block that makes any changes: a second loop inside the block does to the first only what changes the block can make by itself |
| `llvm_objects` | Lists are tables, blocks arrive, names resolve | Two kinds of programs. Methods: a class, a module and the stream's class, with or without inheritance, two functions beside the built-in one, four entries for single objects. Names: two classes whose paths end alike, two members with two values |
| `llvm_control` | Compiled control flow against the interpreter; live frames | 171 programs of begin blocks that raise, retry and are nested, with loops and jumps, and with returns through ensure blocks; six conditions are two attempts of the deepest of them and the outcome after |

The value of a counter is never limited in the middle of an operation: every
bound is a guard of an action (`MaxBlocks`, `MaxAreas`, `MaxDisable`, `MaxBytes`,
`MaxTrusted`, `MaxFrames`, `MaxHandlers`, `MaxHosts`, `MaxRuns`), and
`MaxConditions` makes later conditions false, which every program run here
survives; `MaxLength`, `MaxItems`, `MaxLoops`, `MaxFunctions`, `MaxListed`,
`MaxMembers` and `MaxInstances` bound what the LLVM modules make.

*Fairness.* `Terminates` (in `vm_control`) and `EnsureRuns` (in `vm_return`) are checked under `WF_vars(Next)`:
`VM#execute` is a loop in one thread that nothing but its program stops. The
manager's specifications have no fairness: nothing makes a client call.

### What the runs that violate a property show

Each checks one sentence of the repository against the code.

| Run | What happens |
| --- | --- |
| `vm_return` | `return` in a begin block skips the ensure block. |
| `vm_method` | An exception rescued outside a method leaves the method's `execute` running the outer code; at its `HALT` the stack underflows. |
| `vmgc_leak` | A handler drops annotated frames without leaving their contexts. |
| `llvm_ensure` | The compiler's stack of ensure blocks is emptied by the first return: a second return, or one in a rescue clause, runs none. |

The VM and the interpreter disagree on more. `MCVmControl` has a program for each,
to be given to `Programs` in `MCVmControl_control.cfg` with `BackendsAgree` as the
invariant:

| Programs | What happens |
| --- | --- |
| `NextPrograms` | `next` in a block inside a `while` acts on the `while` (`vm.cr:1576`). |
| `ElsePrograms` | The else block is not compiled. |
| `ReraisePrograms` | A raise in a rescue clause is rescued by the same clause, for ever (`Terminates`; as `Programs` of `MCVmControl_return.cfg`, `EnsureRuns`). |
| `ModifierPrograms` | A rescue clause that ends in `retry if` leaves no value where one is popped. |
| `BreakPrograms` | An exception out of a loop leaves its context: the next `break` leaves that loop again. |
| `YieldPrograms` | A yield's result is on the stack twice. |

Of the manager: a zero-sized block that escapes leaves its area's array and enters
no other, its size being taken for "not found" (`gc.c:596`; put 0 among the `Sizes`
of `GcArea_nesting.cfg` and `NothingLeaks` fails); ending an outer area first leaves
the inner one off the chain (`AnyOrderSpec`; `end_area` only warns, `gc.c:477`), so
that `NotFoundIsBoehm` and `CountIsDepth` do not hold; an escape fills the hole in
the array with the last entry, so that finalizers no longer run in reverse
allocation order (`gc.h:166`).

Compiled programs do not do what the documentation and the specs say of operators.
`MCLlvmValues` has each as a formula that TLC refutes at once when it is put among the
invariants of `MCLlvmValues.cfg`; `PowersAgree` and `SlicesAgree` say what the code
computes, and do not say that it should:

| Formula | What happens |
| --- | --- |
| `PowersAreFloats` | `2 ** 4` is the integer 16 (`llvm_runtime.c:3002`), and wraps at 64 bits like `&**`; `docs/2_Introduction/5. Numbers.md:71` gives 16.0. |
| `MixedAreFloats` | `1 + 2.0` raises (`:2708`) while `1 - 2.0` computes; `5. Numbers.md:78` makes every mixed operation a float. |
| `SlicesAreCharacters` | A slice counts bytes and cuts characters apart, and from beyond the end it is empty (`:320`); `spec/language_features_spec.cr:737` slices "by codepoint and enforces bounds" and expects `OutOfBounds`. |

Of compiled programs besides, all in what the modules state or leave out: only the first
rescue clause of a begin block is compiled; an ensure block without a clause ends
the exception; jumps out of a begin block run no ensure block, and before a
`retry` only the interpreter runs it; `inject` without an argument over a map
starts over while its memo is NULL; `select` and `map` write past their buffer when
the block makes the collection longer (`:1418`, `:1609`); a call with more than
seven arguments gives NULL; a copy made by `extend` no longer tells that it expects
a block; comparing a string with NULL by `<` ends the process.

The program families of the passing runs stay clear of the cases their properties
cannot survive. For the VM: no exception crosses the boundary
of a method's or a block's `execute` into a handler outside it; no return, break
or next leaves a begin block; rescue clauses do not raise; no loop is left by an
exception; blocks use flow keywords only where no `while` is open around them; a
rescue clause does not end in a modified keyword. No program has an `if` or a `while` as the
last value of a body that uses it, a rescue clause of a function itself, or an
ensure block without a rescue clause around a raise: what the two backends do
with these is not compared. The 88 failing programs do some of
this, for `NeverSilentlyWrong` and the invariants of the stacks. For compiled
programs: begin blocks have one clause, for every class, and one return at most for
each ensure block; jumps leave only blocks without an ensure, and a clause that
retries has none.

## 5. What is proved

Assumed throughout: the named assumptions on the constants. `BoundsAssumption` (the
bounds are natural numbers), `SizesAssumption`, `CapacityAssumption` (the first
capacity is positive) and `FailingAssumption` for the manager; `WidthsAssumption`,
`DoublesAssumption` (a 32-bit integer is a double, and 64-bit ones and their
inverses are in the range of one), `TextsAssumption`, `BytesAssumption`,
`EncodingAssumption` and `PrefixAssumption` (characters have bytes, none begins
another's, and the ones below the highest byte are their own) and `KeysAssumption`
(integer keys are 64-bit integers, and none is NaN) for compiled programs; `ObjectsAssumption` (the name of a class
is a path of at least one segment, there are finitely many builtins) and
`NullAssumption` (`NULL` is not a class, a function, a method, a call, nor the box of a class or of a
member) for their classes. Everything holds for all
bounds, sizes and sets of failing allocators; where a theorem needs more, it says so
in an `ASSUME` of its own, and the reason is below. `Spec` is a client that ends the
innermost area first, `AnyOrderSpec` one that ends any open area.

### The manager: types, owners, the chain, collections

`GcAreaProofs`, for `AnyOrderSpec`:

- `TypeCorrect`: `[]TypeOK`. `TypeOK` is inductive as it stands; what makes it so
  is `AreaOK`: a lineage starts at its area and decreases, and an array holds no
  more than its capacity. `TypeCorrectLifo` is the same for `Spec`.
- `UniqueOwnerAnyOrder`, `TrackedIsMallocAnyOrder`: no block is in two tracking
  slots, and every tracked block is live malloc memory, so ending an area never
  frees a block twice or one of the collector's. The inductive invariant is
  `TypeOK /\ Owned`, both properties together over open areas: a moved entry is
  unique because it was, and a fresh block is in no slot because tracked blocks
  are in the heap already. Neither alone is inductive: an escape to Boehm frees
  its block, which is safe only because no other slot has it.

Its second part, on the chain and on what steps may do to blocks:

- `ChainComplete` (`Spec`): the chain from the current area is exactly the open
  areas; `DepthCorrect`: `area_count` is the nesting depth. The inductive invariant
  `ChainInv` adds `ParentsOK` (the lineage of an area is itself followed by its
  parent's) and that a manager shut down has no current area; ending the current
  area then pops one element of the chain, and shutdown removes all.
- `UniqueOwnerLifo`, `TrackedIsMallocLifo`: ownership for `Spec`, from
  `IInv == TypeOK /\ ChainInv /\ Owned`.
- `NoCollectionAnyOrder` (`AnyOrderSpec`): no block is collected while a disable
  is in force. The inductive invariant is `TypeOK /\ DisabledInv`: Boehm's count is
  not negative, and positive while the manager's depth is. A shutdown keeps the
  depth and a restart forgets it, but neither turns Boehm on, which is why the
  invariant is an implication and not an equation.

### The manager: what becomes of a block

`GcAreaBlockProofs` sees the tracking arrays of the open areas as one set of entries
(`Tracked`), and proves once that every operation is one of a few changes of that
set, the heap and the history together (`BlockStep`: blocks are disposed of, one is
obtained, an entry moves, or a block is replaced by a copy). The arrays, their
capacities and the swap with the last entry are dealt with there; the invariants
after it are preserved by reasoning about sets. `BlockInv` is
`TypeOK /\ Owned /\ SizesKnown`.

- `NothingLeaksAnyOrder`, `NotFoundIsBoehmLifo`: all malloc memory of the manager is
  tracked by an area that is not freed, and for `Spec` a block that no array on the
  chain has is one of the collector's. Both assume that the tracking array can always grow
  (`"tracking" \notin Failing`) and that no block has size zero. These are the two
  ways in which the code does lose a block: `area_track` returns without an entry when
  `realloc` fails (`gc.c:122`), and an escape takes size zero for "not found"
  (`gc.c:596`). Without either assumption TLC finds the block that is lost.
- `FinalizerKeptAnyOrder`, under the same assumptions: a finalizer that was
  registered and has not run is held in exactly one place. `FinalizedOnceAnyOrder`,
  under none: it runs at most once, through reallocations, escapes to an area or the
  collector, areas that end and collections. `FinalizerInv` says that no two blocks
  hold the same finalizer and that a held one has not run; `KeptInv` that one that
  has not run is held. Counting the places uses that only one block may hold it.
- `TrustedReferencesHoldLifo`, for `Spec` and without assumptions: of the references
  that the write barrier let through, and as long as neither block is escaped or
  moved, only those to a collector's value in an area's memory may dangle.
  `Nested` says that the areas around an area are around each other, so a
  reference into one of them outlives every reference from inside; it does not hold
  when areas end in any order.

The second half of `GcAreaBlockProofs` begins with lemmas about the sum of a sequence of
integers: that it is well defined, and what appending, prepending, replacing and taking away an element
do to it.

- `BytesAreSummedAnyOrder`: the count `total_bytes` that an area keeps by itself is the sum
  of the sizes in its array, whatever fails and in whatever order areas end.
- `FreedWithinAllocatedLifo`, for `Spec`: what `get_stats` reports as freed, with all that the
  open areas still track, never exceeds what it reports as allocated, across
  shutdowns and restarts. It is inductive with `TypeOK`, `ChainInv` (an area must be
  once on the chain) and `StatsOK`; freed alone within allocated is not.

### The VM and the manager

`VmGcProofs`, over the proofs of the manager:

- `VmTypeCorrect`, `CollectorAlwaysOff`: without assumptions, whether or not
  exceptions leave the annotated function they are raised in. The invariant is
  `VmInv` with `Owed >= 0`, where `Owed` is the manager's depth less the disables
  that live frames and executes will take back: no step makes it smaller, and a rescue that
  drops frames makes it larger.
- `ContextsClosedWhenInside`: when exceptions end inside the annotated function
  (`RescueOutside = FALSE`) and areas are not refused (`"boehm" \notin Failing`), every context has
  been left by the time the outermost code goes on. The invariant is `NothingOwed`:
  `Owed` is zero and the open areas are those of the live frames. The first
  assumption is needed because of the finding `vmgc_leak`; the second because
  `begin_area` may return NULL (`gc.c:443`), after which the function ends the
  area of its caller instead.

`VmGcScopesProofs` proves, under the same two assumptions, that `VmGc` implements
`GcScopes`:

- `ManagerFollowsScopesWhenInside`: every step of the VM opens a scope, closes the
  innermost one or leaves them all alone, and the manager's depth and current area
  are always those of the open scopes. The scopes are `LiveScopes`, flattened level by
  level from the frames and from the executes that wait for them; lemmas say what a
  frame or an execute more, or a rescue, does to the flattened sequence. The
  invariant `Following` adds to `VmInv` that executes begin at increasing depths and
  the running one has a frame (`StacksOK`: otherwise a host's context would be left
  from under its own frames), that an area is kept exactly by the frame that
  began it (`AreasGiven`), and `ScopesFollow`: the parent of a scope's area is the area of
  the next scope below that has one. The last is why closing the innermost area,
  which the code does without asking whose it is (`vm.cr:875`), closes the right one.

### The LLVM runtime

`LlvmOperatorsProofs`, for all widths. `OperatorsSpec` is a computation: two literals,
and then in the place of either what any operator makes of the two.

- `OperandsStayValues`: the operands are values (`Value`) in every state: integers of 64
  bits, doubles with the infinities and NaN, strings of bytes, booleans and NULL. It
  is inductive, with a lemma for each group of operators that its outcome, if it is
  used again, is such a value; only an exception, the end of the process and a
  string beyond the bound are not used again. The quotient of two 64-bit
  integers has 64 bits unless it is the one that traps (`QuotientFits`), which is why
  `mod` and `floor_div` may box what they computed without wrapping it.
- `OrdersAlwaysAgree`: the four order operators, `eq`, `ne`, `cmp` and `case_compare`
  agree with each other, and are one order on strings and one on all numbers but
  NaN. That rounding is monotone and exact on doubles (`RoundedMonotone`,
  `RoundedExact`) makes the order of integers and floats transitive; it is not
  strict where two integers of more bits than a double meet one, which the
  property says.
- `DivisionsAlwaysAgree`: `//` and `%` of integers fit together for every sign (a
  quotient of C, its adjustment, and the two traps), from `FloorDivisionRoundsDown`:
  `ds_int_floor_div` is the floor for all integers and signs. For integers of no more
  bits than a double, computing with doubles gives the same, though the quotient
  is rounded to a double and then down: a quotient below an integer n of that size
  stays below it when it is rounded, because there is a double between them
  (`MantissaBelow`, `QuotientRoundsWithin`).
- `PowersAlwaysAgree`, from `SquaringComputesThePower`: the loop of `ds_int_pow_i64`, whose
  factor and result wrap at every step, ends for every exponent and gives the power
  of the integers, wrapped once. Arithmetic that wraps is arithmetic of
  congruences modulo 2^64: `WrapProperties` says that every integer has exactly one
  congruent one of 64 bits, and the invariant of the loop (`LoopsCompute`) is that
  result times factor to the power is congruent to what was asked for.
- `WidthNeverSeen`: the invariant `WidthIsInvisible` holds of any two values, with one
  lemma for each group of operators. Conditions of a `CASE` that overlapped would
  make this unprovable, which is one reason why those of the module do not.

Induction over natural numbers is done by hand, for one set at a time: the library's
theorem takes an operator, but `Upwards` takes the set of the numbers for which
something holds. `IterationExists` gives the functions that are defined by
recursion on a number from the functions on its initial segments, `LoopsExist` those by
recursion on a number that is halved.

`LlvmRangesProofs`, for `OperatorsSpec` too:

- `SlicesAlwaysAgree`: a slice is the bytes at its positions. The sum that
  `ds_slice_string` compares as an unsigned number cannot wrap where it is computed.
- `RangesAlwaysAgree`: `each`, `to_a` and `includes?` of a range find the same numbers, and
  exactly what happens where the count does not fit or the loop never ends. For
  ranges of characters it needs `DecodedByte`: as no character's bytes begin
  another's, a text that is one byte is decoded as that byte.

`LlvmCollectionsProofs`, for `CollectionsSpec` (every change to a collection, by the
program or by the block of a loop in progress), from the inductive invariant
`CollectionsInv`:

- `KeysStayDistinct`: maps and bags keep their keys apart, loops of `select` included;
  `EveryAdditionIsVisited`: a loop that reads the length again sees what its block
  added. Neither assumes anything.
- `LoopsKeepToTheirBuffers`: a loop's results go past the buffer it sized only by as much as
  the collection has grown since the loop began, and what `select` keeps is an item
  unless something was popped meanwhile. `loops` counts both, so that shrinking
  and growing again hides nothing. The
  theorem assumes that the marker of unset memory is not itself an item or a
  key, without which reading it could not be told from reading an item.
- `AssignmentsAreExact`, an action property, assumes that integers wide enough for
  the indices of a collection exist (`Wrap(i) = i` up to `MaxItems`; in the code an `int64_t`
  indexes memory).

`LlvmObjectsProofs`, for `Spec` and without further assumptions: any classes, names,
numbers of arguments, functions and instances. Its first part is about searches: what
`SelectInSeq` finds in a list is its first entry in a set (`Got`), and lemmas say what that
is when a list is extended at its head, filtered (`OfProperties`) or filled up by
`extend` (`WithAbsentProperties`). Its second part reduces each action to an effect
(`Opens`, `Writes`, `WritesFor`, `Copies`, `Numbers` ...), so that the inductions below have one
step per effect.

- `NamesAlwaysResolve`: a path gives the last member that was defined under it, until a
  constant, a class or an enumeration is bound to the path again (`rebound`); a value gives the
  first member with it; a class is found by its name. It follows from `TypeInv` and `NamesInv`: `global_classes` lists exactly the
  classes, each has a binding that may have been erased but is never removed, and a
  binding that is a member of an enumeration stands at that member's path. Without the last
  a member could hide a class of another name.
- `ListsAlwaysAreTables`, the refinement of `LlvmTables`: opening a class and naming
  things are stutters, `define_method` and the builtins a `Define`, `define_singleton_method`
  a `DefineFor`, and `extend` an `Extend`. The last is the hard one: the code adds what
  both lists of the other class have to two lists of this one, each guarded by a search of
  its own while it grows, and the table's step says it in one formula.
- `BlocksAlwaysArrive`, from two invariants. `MethodsInv` relates a method to the
  function it calls: a class that wrote a function keeps a method of its name for
  ever, so that no copy, which has forgotten that its function expects a block,
  enters that class's own list; whether the nearest class wrote the function therefore
  says whether the call knows about the block. `LinesEnd` says that superclasses end: there is a bounded
  rank that falls from every class to its superclass. A class that gets another superclass,
  with all that descend from it, is raised above that superclass; only then is
  `Lineage`, and so every search along it, defined.

### What is only model-checked

- `VmControl` and `LlvmControl`: their operators are recursive over the syntax, and the
  prover has no backend for modules that declare a recursive operator.
- `LoopsAgree`: what a filter or a fold computes for every collection is an induction
  over data. (The sums above are within reach because every step of the manager
  changes them in one place, and the powers because they are functions of a number.)
- `BlocksHaveOneOwner`: the parts of it that are invariants are proved (`UniqueOwnerLifo`,
  `TrackedIsMallocLifo`, `NothingLeaksAnyOrder`); that every step is one of `GcOwners` is not.
- Liveness under fairness (`Terminates`, `EnsureRuns`).
