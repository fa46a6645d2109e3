-------------------------------- MODULE Ast --------------------------------
(***************************************************************************)
(* The part of Dragonstone's syntax that directs control: what both        *)
(* backends receive from the parser (shared/language/ast) for statements   *)
(* that raise, return, loop, call and yield.                               *)
(*                                                                         *)
(* A condition is read from outside; an expression that computes a value   *)
(* is a "work" whose evaluation can be observed (a program that writes     *)
(* with stdout.debug, which returns what it writes).                       *)
(***************************************************************************)
EXTENDS Sequences

Work(id)  == [node |-> "work", id |-> id]
Raise     == [node |-> "raise"]
Return(v) == [node |-> "return", value |-> v]

(* break, next, redo and retry, on their own or with an "if" modifier. *)
Flow(keyword)   == [node |-> keyword, modified |-> FALSE]
FlowIf(keyword) == [node |-> keyword, modified |-> TRUE]

If(then_block, else_block) ==
  [node |-> "if", then_block |-> then_block, else_block |-> else_block]

While(block) == [node |-> "while", block |-> block]

(* A clause that names no exception rescues any. *)
Rescue(exceptions, body) == [exceptions |-> exceptions, body |-> body]

(* No else or ensure block is an empty one. *)
BeginElse(body, rescue_clauses, else_block, ensure_block) ==
  [node |-> "begin", body |-> body, rescue_clauses |-> rescue_clauses,
   else_block |-> else_block, ensure_block |-> ensure_block]

Begin(body, rescue_clauses, ensure_block) ==
  BeginElse(body, rescue_clauses, <<>>, ensure_block)

(* echo f(), echo object.f(), and echo f() do ... end. *)
Call(name)        == [node |-> "call", name |-> name, block |-> <<>>]
Invoke(name)      == [node |-> "invoke", name |-> name]
CallBlock(name, block) == [node |-> "call", name |-> name, block |-> block]

(* [...].each do ... end over an array of this many elements. *)
Each(count, block) == [node |-> "each", count |-> count, block |-> block]

(* echo yield, and echo x, yield. *)
Yield       == [node |-> "yield", before |-> <<>>]
YieldAfter(x) == [node |-> "yield", before |-> <<x>>]

(* A program: its statements and the functions (or methods) they call. *)
FunctionDef(body, rescue_clauses) == [body |-> body, rescue_clauses |-> rescue_clauses]

Program(statements, functions) == [statements |-> statements, functions |-> functions]

(* The class of every exception a program raises with a string. *)
RaisedClass == "InterpreterError"
=============================================================================
