------------------------------ MODULE Codegen ------------------------------
(***************************************************************************)
(* The bytecode generator (core/compiler/codegen/bytecode_generator.cr)    *)
(* for the statements of module Ast.                                       *)
(*                                                                         *)
(* An instruction is a record; one that stands for several opcodes (a      *)
(* condition, a work, a call with its receiver or its block literal) says  *)
(* so below.  Targets, absolute in the generator, are kept relative to     *)
(* their instruction, and code is put together from its parts instead of   *)
(* being patched.                                                          *)
(***************************************************************************)
EXTENDS Ast, Integers, SequencesExt

I(op) == <<[op |-> op]>>
CONST(v)      == <<[op |-> "CONST", value |-> v]>>
ECHO(argc)    == <<[op |-> "ECHO", argc |-> argc]>>
JMP(target)   == <<[op |-> "JMP", target |-> target]>>
JMPF(target)  == <<[op |-> "JMPF", target |-> target]>>

(* LOAD_STDOUT, CONST id, INVOKE debug: writes id and pushes it. *)
WORK(id)      == <<[op |-> "WORK", id |-> id]>>

(* What pushes a condition. *)
CONDITION     == I("CONDITION")

(* The statement's value is dropped unless the block's value is wanted. *)
Consumed(consume_result) == IF consume_result THEN I("POP") ELSE <<>>

RECURSIVE compile_statement(_, _)

compile_statements(statements, preserve_last) ==
  FoldLeft(LAMBDA code, i : code \o
             compile_statement(statements[i], ~(preserve_last /\ i = Len(statements))),
           <<>>, [i \in 1 .. Len(statements) |-> i])

compile_block(statements) == compile_statements(statements, FALSE)

compile_flow_modifier(modified, code) ==
  IF modified THEN CONDITION \o JMPF(Len(code) + 1) \o code ELSE code

(* Both branches drop what they compute: an if is worth nil. *)
compile_if(n) ==
  LET then == compile_block(n.then_block) \o CONST("nil")
      else == compile_block(n.else_block) \o CONST("nil")
  IN  CONDITION \o JMPF(Len(then) + 2) \o then \o JMP(Len(else) + 1) \o else

(* Mutant: redo runs the iteration from its condition. *)
WhileRedoneFromTop(n) ==
  LET body == compile_block(n.block)
      exit == Len(body) + 3
  IN  CONDITION \o JMPF(exit + 1)
      \o <<[op |-> "ENTER_LOOP", condition |-> -2, body |-> -2, exit |-> exit]>>
      \o body \o I("EXIT_LOOP") \o JMP(-(Len(body) + 4)) \o CONST("nil")

(* Mutant: the jump out of the loop is patched with its start. *)
WhileExitToTop(n) ==
  LET body == compile_block(n.block)
      exit == Len(body) + 3
  IN  CONDITION \o JMPF(-1)
      \o <<[op |-> "ENTER_LOOP", condition |-> -2, body |-> 1, exit |-> exit]>>
      \o body \o I("EXIT_LOOP") \o JMP(-(Len(body) + 4)) \o CONST("nil")

compile_while(n) ==
  LET body == compile_block(n.block)
      exit == Len(body) + 3
  IN  CONDITION \o JMPF(exit + 1)
      \o <<[op |-> "ENTER_LOOP", condition |-> -2, body |-> 1, exit |-> exit]>>
      \o body \o I("EXIT_LOOP") \o JMP(-(Len(body) + 4)) \o CONST("nil")

(* Without rescue clauses or ensure block there is no handler and no value *)
(* either.  The classes that the clauses name, the clauses after the first *)
(* and the else block leave nothing in the code that is ever reached.      *)
compile_begin_expression(n) ==
  LET body    == compile_statements(n.body, TRUE)
      clauses == FoldRight(LAMBDA clause, code :
                   compile_statements(clause.body, TRUE) \o JMP(Len(code) + 1) \o code,
                   n.rescue_clauses, <<>>)
      rescue_label == Len(body) + 2
      ensure_label == rescue_label + Len(clauses)
  IN  IF n.rescue_clauses = <<>> /\ n.ensure_block = <<>> THEN compile_block(n.body)
      ELSE <<[op |-> "PUSH_HANDLER",
              rescue |-> IF n.rescue_clauses = <<>> THEN 0 ELSE rescue_label,
              ensure |-> ensure_label, body |-> 1]>>
           \o body \o JMP(Len(clauses) + 1) \o clauses \o compile_block(n.ensure_block)
           \o I("CHECK_RETHROW") \o I("POP_HANDLER")

-----------------------------------------------------------------------------
(* The depth of the value stack as the generator tracks it while it emits. *)

Popped(i) ==
  CASE i.op \in {"POP", "JMPF", "RAISE"} -> 1
    [] i.op = "ECHO"                     -> i.argc
    [] OTHER                             -> 0

Pushed(i) ==
  IF i.op \in {"CONST", "WORK", "CONDITION", "ECHO", "CALL", "INVOKE", "EACH", "YIELD"}
  THEN 1 ELSE 0

(* Nothing is known of the stack after a raise or a return. *)
adjust_stack(depth, i) ==
  IF depth < Popped(i) THEN -1
  ELSE IF i.op \in {"RAISE", "RET", "HALT"} THEN 0
  ELSE depth - Popped(i) + Pushed(i)

(* -1: "Bytecode stack underflow". *)
StackDepth(code) ==
  FoldLeft(LAMBDA depth, i : IF depth < 0 THEN depth ELSE adjust_stack(depth, i), 0, code)

(* A function or a block: nil is its default value, when the stack is      *)
(* believed to be empty at its end.                                        *)
compile_function_body(statements) ==
  LET code == compile_statements(statements, TRUE)
  IN  code \o (IF StackDepth(code) = 0 THEN CONST("nil") ELSE <<>>) \o I("RET")

compile(program) == compile_block(program.statements) \o I("HALT")

compile_statement(n, consume_result) ==
  LET pop == Consumed(consume_result)
  IN
  CASE n.node = "work"   -> WORK(n.id) \o pop
    [] n.node = "raise"  -> CONST("error") \o I("RAISE")
    [] n.node = "return" -> CONST(n.value) \o I("RET")
    [] n.node = "break"  -> compile_flow_modifier(n.modified, I("BREAK_SIGNAL"))
    [] n.node = "next"   -> compile_flow_modifier(n.modified, I("NEXT_SIGNAL"))
    [] n.node = "redo"   -> compile_flow_modifier(n.modified, I("REDO_SIGNAL"))
    [] n.node = "retry"  -> compile_flow_modifier(n.modified, I("RETRY"))
    [] n.node = "if"     -> compile_if(n) \o pop
    [] n.node = "while"  -> compile_while(n) \o pop
    [] n.node = "begin"  -> compile_begin_expression(n) \o pop
    [] n.node = "call"   -> <<[op |-> "CALL", name |-> n.name,
                               block |-> IF n.block = <<>> THEN <<>>
                                         ELSE compile_function_body(n.block)]>>
                            \o ECHO(1) \o pop
    [] n.node = "invoke" -> <<[op |-> "INVOKE", name |-> n.name]>> \o ECHO(1) \o pop
    [] n.node = "each"   -> <<[op |-> "EACH", count |-> n.count,
                               block |-> compile_function_body(n.block)]>> \o pop
    [] n.node = "yield"  -> (IF n.before = <<>> THEN <<>> ELSE CONST(n.before[1]))
                            \o I("YIELD") \o ECHO(Len(n.before) + 1) \o pop

(* The generator accepts a program unless its stack underflows somewhere.  *)
RECURSIVE Accepted(_)
Accepted(code) ==
  /\ StackDepth(code) >= 0
  /\ \A i \in 1 .. Len(code) :
       code[i].op \in {"CALL", "EACH"} => Accepted(code[i].block)

Compiles(program) ==
  /\ Accepted(compile(program))
  /\ \A name \in DOMAIN program.functions :
       Accepted(compile_function_body(program.functions[name].body))
=============================================================================
