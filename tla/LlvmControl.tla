---------------------------- MODULE LlvmControl ----------------------------
(***************************************************************************)
(* Control flow of compiled programs: the code that the LLVM backend       *)
(* (targets/llvm/backend.cr) generates for loops, calls, begin blocks and  *)
(* their ways out, and the exception frames of llvm_runtime.c, which       *)
(* raise reaches by longjmp. A begin block pushes a frame; its body pops   *)
(* one at its end. Nothing else does.                                      *)
(*                                                                         *)
(* What a function has still to do is a sequence of tasks: statements, and *)
(* what the generated code does between them. A jump drops tasks, up to    *)
(* the task that stands for its label.                                     *)
(***************************************************************************)
EXTENDS Interpreter

CONSTANTS
  Programs,       \* the programs that are compiled and run
  MaxConditions   \* bound: conditions a run reads; the ones after are false

VARIABLES
  program, given, \* the program, compiled, and the conditions of its run
  conditions,     \* those still to be read
  calls,          \* the functions being executed, the innermost last
  frames,         \* the exception frames, top_exception_frame first
  serial,         \* calls and frames so far, by which they differ
  output, status

vars == <<program, given, conditions, calls, frames, serial, output, status>>

-----------------------------------------------------------------------------
(* Compiling: a return is preceded by the ensure blocks that the compiler  *)
(* has on its stack at that place of the text; emitting them empties it.   *)

RECURSIVE generate(_, _, _)

(* What has been compiled: the code, the stack behind it, and whether it   *)
(* ends with a jump, after which no statement of the block is compiled.    *)
Emitted(code, stack, terminated) == [code |-> code, stack |-> stack, terminated |-> terminated]

(* Compiles statements one after another. In the blocks whose value is     *)
(* used (evaluate_block_value) an if is an expression: it ends no block.   *)
generate_block(statements, stack, valued) ==
  FoldLeft(LAMBDA r, n :
             LET g == generate(n, r.stack, valued)
             IN  IF r.terminated THEN r
                 ELSE Emitted(Append(r.code, g.code), g.stack, g.terminated /\ ~(valued /\ n.node = "if")),
           Emitted(<<>>, stack, FALSE), statements)

OutermostFirst(stack) ==
  FlattenSeq([i \in DOMAIN stack |-> generate_block(stack[i], <<>>, FALSE).code])
emit_ensure_chain(stack) ==
  FlattenSeq([i \in DOMAIN stack |-> generate_block(Reverse(stack)[i], <<>>, FALSE).code])

generate_return(n, stack) ==
  Emitted([node |-> "ensured", tasks |-> Append(emit_ensure_chain(stack), n)], <<>>, TRUE)

generate_if(n, stack, valued) ==
  LET then_code == generate_block(n.then_block, stack, valued)
      else_code == generate_block(n.else_block, then_code.stack, valued)
  IN  Emitted(If(then_code.code, else_code.code), else_code.stack, then_code.terminated /\ else_code.terminated)

generate_while(n, stack) ==
  LET body == generate_block(n.block, stack, FALSE)
  IN  Emitted(While(body.code), body.stack, FALSE)

ClauseOnly(clause, ensure) == clause
RescueCode(clause, ensure) == clause \o ensure

(* Only the body has the ensure block on the stack, which is compiled once *)
(* for its end and once for the end of a rescue clause, where these ends   *)
(* are reached. Of the rescue clauses the first one is run, whatever it    *)
(* names.                                                                  *)
generate_begin(n, stack) ==
  LET Unless(before, block, valued) ==
        IF before.terminated THEN Emitted(<<>>, before.stack, TRUE)
        ELSE generate_block(block, before.stack, valued)
      pushed == IF n.ensure_block = <<>> THEN stack ELSE Append(stack, n.ensure_block)
      body   == generate_block(n.body, pushed, TRUE)
      popped == IF body.stack = pushed THEN stack ELSE body.stack
      after  == Unless([body EXCEPT !.stack = popped], n.else_block, TRUE)
      ensure == Unless(after, n.ensure_block, FALSE)
      clause == IF n.rescue_clauses = <<>> THEN Emitted(<<>>, ensure.stack, FALSE)
                ELSE generate_block(Head(n.rescue_clauses).body, ensure.stack, TRUE)
      again  == Unless(clause, n.ensure_block, FALSE)
      rescue == Rescue({}, RescueCode(clause.code, again.code))
  IN  Emitted(BeginElse(body.code, <<rescue>>, after.code, ensure.code), again.stack, FALSE)

generate(n, stack, valued) ==
  CASE n.node = "return" -> generate_return(n, stack)
    [] n.node = "if"     -> generate_if(n, stack, valued)
    [] n.node = "while"  -> generate_while(n, stack)
    [] n.node = "begin"  -> generate_begin(n, stack)
    [] OTHER             -> Emitted(n, stack, n.node = "raise" \/ (n.node \in {"break", "next", "redo", "retry"} /\ ~n.modified))

Compiled(statements) == generate_block(statements, <<>>, FALSE).code

-----------------------------------------------------------------------------
(* Running                                                                 *)

Again(loop)  == [node |-> "again", loop |-> loop]      \* the end of a loop's body
Pop(frame)   == [node |-> "pop", frame |-> frame]      \* pop_exception_frame
End(n, frame) == [node |-> "end", begin |-> n, frame |-> frame]

Activation(id, body) == [id |-> id, todo |-> Compiled(body)]

Task == Head(Last(calls).todo)
Rest == Tail(Last(calls).todo)

Continue(todo) == calls' = Append(Front(calls), [Last(calls) EXCEPT !.todo = todo])

(* The tasks from the nearest one that stands for a label of this kind.    *)
From(kind, todo) == SubSeq(todo, SelectInSeq(todo, LAMBDA t : t.node = kind), Len(todo))

ReadIf(reads) == conditions' = IF reads /\ conditions # <<>> THEN Tail(conditions) ELSE conditions
IsTrue        == conditions # <<>> /\ Head(conditions)

At(kinds) == status = "running" /\ Last(calls).todo # <<>> /\ Task.node \in kinds
Still     == UNCHANGED <<program, given>>

DoWork ==
  /\ At({"work"})
  /\ output' = Append(output, Task.id)
  /\ Continue(Rest)
  /\ Still /\ UNCHANGED <<conditions, frames, serial, status>>

DoIf ==
  /\ At({"if"})
  /\ ReadIf(TRUE)
  /\ Continue((IF IsTrue THEN Task.then_block ELSE Task.else_block) \o Rest)
  /\ Still /\ UNCHANGED <<frames, serial, output, status>>

DoWhile ==
  /\ At({"while", "again"})
  /\ LET loop == IF Task.node = "while" THEN Task ELSE Task.loop
     IN  Continue(IF IsTrue THEN loop.block \o <<Again(loop)>> \o Rest ELSE Rest)
  /\ ReadIf(TRUE)
  /\ Still /\ UNCHANGED <<frames, serial, output, status>>

(* The code from the start of a begin block, which a retry jumps to; the   *)
(* frame has been pushed before.                                           *)
BeginStart(n, frame) ==
  n.body \o n.else_block \o <<Pop(frame)>> \o n.ensure_block \o <<End(n, frame)>>

(* A jump out of a begin block pops no frame and runs no ensure block.     *)
Jump(keyword) ==
  LET loop  == From("again", Rest)
      begin == From("end", Rest)
  IN  CASE keyword = "break" -> Tail(loop)
        [] keyword = "next"  -> loop
        [] keyword = "redo"  -> Head(loop).loop.block \o loop
        [] keyword = "retry" -> BeginStart(Head(begin).begin, Head(begin).frame) \o Tail(begin)

DoFlow ==
  /\ At({"break", "next", "redo", "retry"})
  /\ ReadIf(Task.modified)
  /\ Continue(IF ~Task.modified \/ IsTrue THEN Jump(Task.node) ELSE Rest)
  /\ Still /\ UNCHANGED <<frames, serial, output, status>>

(* The frame remembers, for longjmp, whose it is and what comes after the  *)
(* block.                                                                  *)
DoBegin ==
  /\ At({"begin"})
  /\ serial' = serial + 1
  /\ frames' = <<[id |-> serial, call |-> Last(calls).id, begin |-> Task, after |-> Rest]>> \o frames
  /\ Continue(BeginStart(Task, serial) \o Rest)
  /\ Still /\ UNCHANGED <<conditions, output, status>>

DoPop ==
  /\ At({"pop"})
  /\ frames' = IF frames = <<>> THEN frames ELSE Tail(frames)
  /\ Continue(Rest)
  /\ Still /\ UNCHANGED <<conditions, serial, output, status>>

DoEnd ==
  /\ At({"end"})
  /\ Continue(Rest)
  /\ Still /\ UNCHANGED <<conditions, frames, serial, output, status>>

DoCall ==
  /\ At({"call", "invoke"})
  /\ serial' = serial + 1
  /\ calls' = Append(Append(Front(calls), [Last(calls) EXCEPT !.todo = Rest]),
                     Activation(serial, program.functions[Task.name].body))
  /\ Still /\ UNCHANGED <<conditions, frames, output, status>>

DoEnsured ==
  /\ At({"ensured"})
  /\ Continue(Task.tasks)
  /\ Still /\ UNCHANGED <<conditions, frames, serial, output, status>>

(* The caller echoes what is returned. What a function that does not       *)
(* return a value ends with is left out.                                   *)
DoReturn ==
  /\ At({"return"})
  /\ calls' = Front(calls)
  /\ output' = Append(output, Task.value)
  /\ Still /\ UNCHANGED <<conditions, frames, serial, status>>

DoHalt ==
  /\ status = "running" /\ Len(calls) = 1 /\ calls[1].todo = <<>>
  /\ status' = "halted"
  /\ Still /\ UNCHANGED <<conditions, calls, frames, serial, output>>

PopOnRescue(fs) == Tail(fs)
OnRescue(fs) == fs

AfterRaise(f) == Head(f.begin.rescue_clauses).body \o <<End(f.begin, f.id)>> \o f.after

(* The begin blocks whose bodies are being executed, the innermost first.  *)
BodiesOf(call) == LET pops == SelectSeq(call.todo, LAMBDA t : t.node = "pop")
                  IN  [i \in DOMAIN pops |-> pops[i].frame]
Bodies == FlattenSeq([i \in DOMAIN calls |-> BodiesOf(Reverse(calls)[i])])

(* longjmp to the first frame, which stays there: to a function that has   *)
(* returned, anything may happen; to a block whose body has been left, its *)
(* clause is run again, and the run is not followed any further.           *)
DoRaise ==
  /\ At({"raise"})
  /\ LET f == Head(frames)
         k == SelectInSeq(calls, LAMBDA call : call.id = f.call)
     IN  IF frames = <<>> THEN status' = "aborted" /\ UNCHANGED <<calls, frames>>
         ELSE IF k = 0 THEN status' = "undefined" /\ UNCHANGED <<calls, frames>>
         ELSE IF f.id \notin ToSet(Bodies) THEN status' = "stray" /\ UNCHANGED <<calls, frames>>
         ELSE /\ calls' = Append(SubSeq(calls, 1, k - 1), [calls[k] EXCEPT !.todo = AfterRaise(f)])
              /\ frames' = OnRescue(frames)
              /\ UNCHANGED status
  /\ Still /\ UNCHANGED <<conditions, serial, output>>

Init ==
  /\ program \in Programs
  /\ given \in BoundedSeq(BOOLEAN, MaxConditions)
  /\ conditions = given
  /\ calls = <<Activation(0, program.statements)>>
  /\ frames = <<>> /\ serial = 1
  /\ output = <<>> /\ status = "running"

Next ==
  \/ DoWork \/ DoIf \/ DoWhile \/ DoFlow
  \/ DoBegin \/ DoPop \/ DoEnd
  \/ DoCall \/ DoEnsured \/ DoReturn \/ DoHalt \/ DoRaise

Spec == Init /\ [][Next]_vars

-----------------------------------------------------------------------------
(* A compiled program has the effect the interpreter gives it, and until   *)
(* an exception comes to a frame that is left behind, it has done nothing  *)
(* else (backend.cr:2511-2640, llvm_runtime.c:644): although frames pile   *)
(* up, jumps pop none and ensure blocks are copied to every way out.       *)
CompiledAgrees ==
  LET expected == interpret(program, given)
  IN  /\ status = "halted" => expected = [output |-> output, status |-> "halted"]
      /\ status = "aborted" => expected = [output |-> output, status |-> "failed"]
      /\ IsPrefix(output, expected.output)

(* A body may pop a frame that is not its own, when a block within it has  *)
(* left one behind, but never that of a block around it: the begin blocks  *)
(* whose bodies are being executed have their frames in the list, in their *)
(* order, so that no exception passes one by (llvm_runtime.c:192-202).     *)
LiveFramesStay ==
  LET live == SelectSeq(frames, LAMBDA f : f.id \in ToSet(Bodies))
  IN  [i \in DOMAIN live |-> live[i].id] = Bodies

(* "runs ensure blocks before returning" (spec/llvm_backend_spec.cr:96).   *)
EnsuresRunBeforeReturning == status = "halted" => "cleanup" \in ToSet(output)
=============================================================================
