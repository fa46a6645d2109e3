---------------------------- MODULE Interpreter ----------------------------
(***************************************************************************)
(* Control flow of the native interpreter: the tree walker of              *)
(* native/interpreter/evaluator/visitor.cr, with the calls of              *)
(* builtins/runtime_calls.cr.  Crystal's exceptions (ReturnValue,          *)
(* BreakSignal, NextSignal, RedoSignal, RetrySignal, InterpreterError) are *)
(* the signal with which the execution of a statement ends.                *)
(*                                                                         *)
(* An execution takes a state to a state: the conditions still to be read  *)
(* (FALSE once they run out), what was written so far, the signal and the  *)
(* value of the last statement.  A context holds what Crystal keeps in     *)
(* @loop_depth, @rescue_depth, @block_stack and the scopes.                *)
(***************************************************************************)
EXTENDS Ast, Integers, SequencesExt

Done(s, v)     == [s EXCEPT !.signal = "none", !.value = v]
Signal(s, sig) == [s EXCEPT !.signal = sig]
Emit(s, items) == [s EXCEPT !.output = @ \o items]

Condition(s) == s.conditions # <<>> /\ Head(s.conditions)
Read(s)      == IF s.conditions = <<>> THEN s
                ELSE [s EXCEPT !.conditions = Tail(@)]

RECURSIVE visit(_, _, _)

(* A signal ends the block. *)
execute_block(statements, c, s) ==
  FoldLeft(LAMBDA r, n : IF r.signal = "none" THEN visit(n, c, r) ELSE r,
           Done(s, "nil"), statements)

-----------------------------------------------------------------------------
(* Loops and flow modifiers. *)

visit_flow(n, depth, s) ==
  IF depth = 0 THEN Signal(s, "raise")
  ELSE IF ~n.modified \/ Condition(s)
       THEN Signal(IF n.modified THEN Read(s) ELSE s, n.node)
       ELSE Done(Read(s), "nil")

(* A body, again and again as long as it asks to be redone. *)
RECURSIVE Redone(_, _, _)
Redone(statements, c, s) ==
  LET r == execute_block(statements, c, s)
  IN  IF r.signal = "redo" THEN Redone(statements, c, r) ELSE r

(* The loop's value is that of the last iteration that ran to its end. *)
RECURSIVE visit_while(_, _, _)
visit_while(n, c, s) ==
  LET r == Redone(n.block, c, Read(s))
  IN  IF ~Condition(s) THEN Done(Read(s), s.value)
      ELSE CASE r.signal = "none"  -> visit_while(n, c, r)
             [] r.signal = "next"  -> visit_while(n, c, Done(r, s.value))
             [] r.signal = "break" -> Done(r, s.value)
             [] OTHER              -> r

-----------------------------------------------------------------------------
(* Exceptions. *)

(* The first clause that names no class or the raised one. *)
Matching(rescue_clauses) ==
  SelectSeq(rescue_clauses,
            LAMBDA clause : clause.exceptions = {} \/ RaisedClass \in clause.exceptions)

(* A raised error goes to the matching clause; "retry" is left for the     *)
(* caller.                                                                 *)
handle_rescue_clauses(rescue_clauses, c, r) ==
  IF r.signal = "raise" /\ Matching(rescue_clauses) # <<>>
  THEN execute_block(Head(Matching(rescue_clauses)).body,
                     [c EXCEPT !.rescue_depth = @ + 1], r)
  ELSE r

(* A signal of the ensure block replaces the one it interrupted. *)
Ensured(ensure_block, c, r) ==
  LET e == execute_block(ensure_block, c, r)
  IN  IF e.signal = "none" THEN [e EXCEPT !.signal = r.signal, !.value = r.value] ELSE e

(* The ensure block runs once per attempt, however the attempt ends. *)
RECURSIVE visit_begin(_, _, _)
visit_begin(n, c, s) ==
  LET body   == execute_block(n.body, c, s)
      whole  == IF body.signal = "none" /\ n.else_block # <<>>
                THEN execute_block(n.else_block, c, body) ELSE body
      caught == handle_rescue_clauses(n.rescue_clauses, c, whole)
      retry  == whole.signal = "raise" /\ caught.signal = "retry"
      end    == Ensured(n.ensure_block, c, IF retry THEN Done(caught, "nil") ELSE caught)
  IN  IF retry /\ end.signal = "none" THEN visit_begin(n, c, end) ELSE end

RECURSIVE execute_block_with_rescue(_, _, _)
execute_block_with_rescue(f, c, s) ==
  LET body   == execute_block(f.body, c, s)
      caught == handle_rescue_clauses(f.rescue_clauses, c, body)
  IN  IF body.signal = "raise" /\ caught.signal = "retry"
      THEN execute_block_with_rescue(f, c, Done(caught, "nil"))
      ELSE caught

-----------------------------------------------------------------------------
(* Calls and blocks. *)

(* "return" is the value of the function or block that it leaves. *)
Returned(r) == IF r.signal = "return" THEN Done(r, r.value) ELSE r

(* What a call returns is echoed. *)
Echoed(before, r) ==
  IF r.signal = "none" THEN Done(Emit(r, before \o <<r.value>>), "nil") ELSE r

call_function(name, block, c, s) ==
  Returned(execute_block_with_rescue(c.functions[name], [c EXCEPT !.block = block], s))

invoke_block(block, c, s) == Returned(Redone(block, [c EXCEPT !.block = <<>>], s))

visit_yield(n, c, s) ==
  IF c.block = <<>> THEN Signal(s, "raise")
  ELSE Echoed(n.before, invoke_block(c.block, c, s))

RECURSIVE run_enumeration_loop(_, _, _, _)
run_enumeration_loop(count, block, c, s) ==
  LET r == invoke_block(block, c, s)
  IN  IF count = 0 \/ r.signal = "break" THEN Done(IF count = 0 THEN s ELSE r, "array")
      ELSE IF r.signal \in {"none", "next"}
           THEN run_enumeration_loop(count - 1, block, c, Done(r, "nil"))
           ELSE r

visit(n, c, s) ==
  LET looping == [c EXCEPT !.loop_depth = @ + 1]
  IN
  CASE n.node = "work"   -> Done(Emit(s, <<n.id>>), n.id)
    [] n.node = "raise"  -> Signal(s, "raise")
    [] n.node = "return" -> [s EXCEPT !.signal = "return", !.value = n.value]
    [] n.node \in {"break", "next", "redo"} -> visit_flow(n, c.loop_depth, s)
    [] n.node = "retry"  -> visit_flow(n, c.rescue_depth, s)
    [] n.node = "if"     -> execute_block(IF Condition(s) THEN n.then_block ELSE n.else_block,
                                          c, Read(s))
    [] n.node = "while"  -> visit_while(n, looping, Done(s, "nil"))
    [] n.node = "begin"  -> visit_begin(n, c, s)
    [] n.node = "call"   -> Echoed(<<>>, call_function(n.name, n.block, c, s))
    [] n.node = "invoke" -> Echoed(<<>>, call_function(n.name, <<>>, c, s))
    [] n.node = "each"   -> run_enumeration_loop(n.count, n.block, looping, s)
    [] n.node = "yield"  -> visit_yield(n, c, s)

(* The run of a whole program: a signal that nothing catches fails it. *)
interpret(program, conditions) ==
  LET r == execute_block(program.statements,
             [functions |-> program.functions, block |-> <<>>,
              loop_depth |-> 0, rescue_depth |-> 0],
             [conditions |-> conditions, output |-> <<>>, signal |-> "none", value |-> "nil"])
  IN  [output |-> r.output, status |-> IF r.signal = "none" THEN "halted" ELSE "failed"]
=============================================================================
