----------------------------- MODULE VmControl -----------------------------
(***************************************************************************)
(* Control flow of the bytecode VM (core/vm/vm.cr): frames, exception      *)
(* handlers, loop contexts and the nesting of VM#execute inside the Crystal *)
(* methods that run methods and blocks, executing what module Codegen      *)
(* generates.                                                              *)
(*                                                                         *)
(* A condition is true or false as it likes, up to MaxConditions times;    *)
(* the choices made are remembered, so that the run can be compared with   *)
(* the one that the native interpreter makes of the same program.          *)
(***************************************************************************)
EXTENDS Codegen, Interpreter

CONSTANTS
  Programs,       \* the programs that may be run
  MaxConditions   \* bound: conditions that are chosen; later ones are false

ASSUME ConditionsAssumption == MaxConditions \in Nat

VARIABLES
  program,     \* the program that runs
  chunks,      \* the code of its functions
  conditions,  \* history: the conditions chosen so far
  output,      \* what the program wrote so far
  stack,       \* @stack
  frames,      \* @frames
  handlers,    \* @handlers
  loops,       \* @loop_stack
  rethrow,     \* @rethrow_after_ensure
  retrying,    \* @retry_after_ensure: a target, or 0
  hosts,       \* the Crystal calls that wait for an execute, outermost first
  status       \* "running", a Crystal exception on its way out, or how it ended

vars == <<program, chunks, conditions, output, stack, frames, handlers, loops, rethrow,
          retrying, hosts, status>>

Top(s) == s[Len(s)]
Drop(s, n) == SubSeq(s, 1, Len(s) - n)
Truncated(s, depth) == IF depth < Len(s) THEN SubSeq(s, 1, depth) ELSE s

Frame == Top(frames)
At(op) == status = "running" /\ Frame.code[Frame.ip].op = op
Operand == Frame.code[Frame.ip]

Moved(fs, offset) == [fs EXCEPT ![Len(fs)].ip = @ + offset]
Jumped(fs, ip)    == [fs EXCEPT ![Len(fs)].ip = ip]

(* Ips are those of one piece of code.  The VM does not know whose they    *)
(* are: a jump into other code runs whatever is there, which is not        *)
(* modelled further.                                                       *)
Land(fs, home, ip) ==
  IF Top(fs).code = home
  THEN frames' = Jumped(fs, ip) /\ status' = "running"
  ELSE frames' = fs /\ status' = "astray"

Fail(signal) ==
  /\ status' = signal
  /\ UNCHANGED <<program, chunks, conditions, output, stack, frames, handlers, loops,
                 rethrow, retrying, hosts>>

-----------------------------------------------------------------------------
(* Straight code. *)

(* An instruction that takes n values, pushes others and goes on. *)
Replace(n, values) ==
  /\ Len(stack) >= n
  /\ stack' = Drop(stack, n) \o values
  /\ frames' = Moved(frames, 1)

Straight ==
  /\ \/ /\ At("CONST")
        /\ Replace(0, <<Operand.value>>)
        /\ UNCHANGED output
     \/ /\ At("WORK")
        /\ Replace(0, <<Operand.id>>)
        /\ output' = Append(output, Operand.id)
     \/ /\ At("ECHO")
        /\ Replace(Operand.argc, <<"nil">>)
        /\ output' = output \o SubSeq(stack, Len(stack) - Operand.argc + 1, Len(stack))
     \/ /\ At("POP")
        /\ Replace(1, <<>>)
        /\ UNCHANGED output
  /\ UNCHANGED <<program, chunks, conditions, handlers, loops, rethrow, retrying, hosts, status>>

ReadCondition ==
  /\ At("CONDITION")
  /\ \E b \in IF Len(conditions) < MaxConditions THEN BOOLEAN ELSE {FALSE} :
       /\ Replace(0, <<IF b THEN "true" ELSE "false">>)
       /\ conditions' = IF Len(conditions) < MaxConditions THEN Append(conditions, b)
                        ELSE conditions
  /\ UNCHANGED <<program, chunks, output, handlers, loops, rethrow, retrying, hosts, status>>

truthy(value) == value \notin {"false", "nil"}

Jump ==
  /\ \/ /\ At("JMP")
        /\ frames' = Moved(frames, Operand.target)
        /\ UNCHANGED stack
     \/ /\ At("JMPF")
        /\ stack # <<>>
        /\ stack' = Drop(stack, 1)
        /\ frames' = Moved(frames, IF truthy(Top(stack)) THEN 1 ELSE Operand.target)
  /\ UNCHANGED <<program, chunks, conditions, output, handlers, loops, rethrow, retrying,
                 hosts, status>>

(* "Stack underflow". *)
Underflow ==
  /\ \/ At("ECHO") /\ Len(stack) < Operand.argc
     \/ \E op \in {"POP", "JMPF", "RET", "RAISE"} : At(op) /\ stack = <<>>
  /\ Fail("broken")

-----------------------------------------------------------------------------
(* Loops. *)

push_loop_context ==
  /\ At("ENTER_LOOP")
  /\ loops' = Append(loops,
       [condition_ip |-> Frame.ip + Operand.condition, body_ip |-> Frame.ip + Operand.body,
        exit_ip |-> Frame.ip + Operand.exit, stack_depth |-> Len(stack),
        home |-> Frame.code])
  /\ frames' = Moved(frames, 1)
  /\ UNCHANGED <<program, chunks, conditions, output, stack, handlers, rethrow, retrying,
                 hosts, status>>

pop_loop_context ==
  /\ At("EXIT_LOOP")
  /\ loops' = IF loops = <<>> THEN loops ELSE Front(loops)
  /\ frames' = Moved(frames, 1)
  /\ UNCHANGED <<program, chunks, conditions, output, stack, handlers, rethrow, retrying,
                 hosts, status>>

(* Mutant: next leaves the context of the iteration on the stack. *)
LeaveIterationOnly(keyword) ==
  LET context == Top(loops)
  IN  /\ stack' = Truncated(stack, context.stack_depth)
      /\ loops' = IF keyword = "break" THEN Front(loops) ELSE loops
      /\ Land(frames, context.home,
              CASE keyword = "break" -> context.exit_ip
                [] keyword = "next"  -> context.condition_ip
                [] keyword = "redo"  -> context.body_ip)

LeaveIteration(keyword) ==
  LET context == Top(loops)
  IN  /\ stack' = Truncated(stack, context.stack_depth)
      /\ loops' = IF keyword = "redo" THEN loops ELSE Front(loops)
      /\ Land(frames, context.home,
              CASE keyword = "break" -> context.exit_ip
                [] keyword = "next"  -> context.condition_ip
                [] keyword = "redo"  -> context.body_ip)

(* The innermost while of the whole VM; a Crystal exception to the         *)
(* innermost enumeration when there is none.                               *)
LoopSignal ==
  /\ \E keyword \in {"break", "next", "redo"} :
       /\ At(CASE keyword = "break" -> "BREAK_SIGNAL"
               [] keyword = "next"  -> "NEXT_SIGNAL"
               [] keyword = "redo"  -> "REDO_SIGNAL")
       /\ IF loops # <<>> THEN LeaveIteration(keyword)
          ELSE status' = keyword /\ UNCHANGED <<stack, frames, loops>>
  /\ UNCHANGED <<program, chunks, conditions, output, handlers, rethrow, retrying, hosts>>

-----------------------------------------------------------------------------
(* Exceptions. *)

(* Mutant: the operand of the body is never patched. *)
PushUnpatched ==
  /\ At("PUSH_HANDLER")
  /\ handlers' = Append(handlers,
       [rescue_ip |-> IF Operand.rescue = 0 THEN 0 ELSE Frame.ip + Operand.rescue,
        ensure_ip |-> Frame.ip + Operand.ensure, body_ip |-> 0,
        stack_depth |-> Len(stack), frame_depth |-> Len(frames) - 1,
        home |-> Frame.code])
  /\ frames' = Moved(frames, 1)
  /\ UNCHANGED <<program, chunks, conditions, output, stack, loops, rethrow, retrying,
                 hosts, status>>

push_handler ==
  /\ At("PUSH_HANDLER")
  /\ handlers' = Append(handlers,
       [rescue_ip |-> IF Operand.rescue = 0 THEN 0 ELSE Frame.ip + Operand.rescue,
        ensure_ip |-> Frame.ip + Operand.ensure, body_ip |-> Frame.ip + Operand.body,
        stack_depth |-> Len(stack), frame_depth |-> Len(frames) - 1,
        home |-> Frame.code])
  /\ frames' = Moved(frames, 1)
  /\ UNCHANGED <<program, chunks, conditions, output, stack, loops, rethrow, retrying,
                 hosts, status>>

(* Mutant: a handler is not taken off when its block ends. *)
KeepHandler ==
  /\ At("POP_HANDLER")
  /\ frames' = Moved(frames, 1)
  /\ UNCHANGED <<program, chunks, conditions, output, stack, handlers, loops, rethrow, retrying,
                 hosts, status>>

pop_handler ==
  /\ At("POP_HANDLER")
  /\ handlers' = IF handlers = <<>> THEN handlers ELSE Front(handlers)
  /\ frames' = Moved(frames, 1)
  /\ UNCHANGED <<program, chunks, conditions, output, stack, loops, rethrow, retrying,
                 hosts, status>>

(* Mutant: the frames inside the handler's stay. *)
HandleInPlace(rethrowing) ==
  IF handlers = <<>>
  THEN status' = "unhandled" /\ rethrow' = rethrowing /\ UNCHANGED <<stack, frames>>
  ELSE LET h == Top(handlers)
       IN  /\ stack' = Truncated(stack, h.stack_depth)
           /\ rethrow' = (h.rescue_ip = 0 \/ rethrowing)
           /\ Land(frames, h.home, IF h.rescue_ip = 0 THEN h.ensure_ip ELSE h.rescue_ip)

(* The innermost handler stays where it is: only POP_HANDLER takes it off. *)
(* The generator gives every handler an ensure_ip.                         *)
handle_exception(rethrowing) ==
  IF handlers = <<>>
  THEN status' = "unhandled" /\ rethrow' = rethrowing /\ UNCHANGED <<stack, frames>>
  ELSE LET h == Top(handlers)
           left == Truncated(frames, h.frame_depth + 1)
           bases == {frames[i].stack_base : i \in Len(left) + 1 .. Len(frames)}
       IN  /\ stack' = Truncated(stack, Min(bases \cup {h.stack_depth}))
           /\ rethrow' = (h.rescue_ip = 0 \/ rethrowing)
           /\ Land(left, h.home, IF h.rescue_ip = 0 THEN h.ensure_ip ELSE h.rescue_ip)

RaiseException ==
  /\ At("RAISE")
  /\ stack # <<>>
  /\ handle_exception(rethrow)
  /\ UNCHANGED <<program, chunks, conditions, output, handlers, loops, retrying, hosts>>

(* Mutant: a retry is not forgotten once it has been made. *)
RetryAgain ==
  /\ At("CHECK_RETHROW")
  /\ ~rethrow
  /\ IF retrying # <<>> THEN Land(frames, retrying[1].home, retrying[1].ip)
     ELSE frames' = Moved(frames, 1) /\ UNCHANGED status
  /\ UNCHANGED <<program, chunks, conditions, output, stack, handlers, loops, rethrow,
                 retrying, hosts>>

(* At the end of an ensure block: the exception or the retry that it       *)
(* interrupted goes on.                                                    *)
CheckRethrow ==
  /\ At("CHECK_RETHROW")
  /\ \/ /\ rethrow
        /\ handle_exception(FALSE)
        /\ UNCHANGED retrying
     \/ /\ ~rethrow
        /\ retrying # <<>>
        /\ Land(frames, retrying[1].home, retrying[1].ip)
        /\ retrying' = <<>>
        /\ UNCHANGED <<stack, rethrow>>
     \/ /\ ~rethrow
        /\ retrying = <<>>
        /\ frames' = Moved(frames, 1)
        /\ UNCHANGED <<stack, rethrow, retrying, status>>
  /\ UNCHANGED <<program, chunks, conditions, output, handlers, loops, hosts>>

(* The body is run again once the ensure block has. *)
Retry ==
  /\ At("RETRY")
  /\ IF handlers = <<>>
     THEN status' = "broken" /\ UNCHANGED <<frames, rethrow, retrying>>
     ELSE LET h == Top(handlers)
          IN  /\ rethrow' = FALSE
              /\ retrying' = <<[ip |-> h.body_ip, home |-> h.home]>>
              /\ Land(frames, h.home, h.ensure_ip)
  /\ UNCHANGED <<program, chunks, conditions, output, stack, handlers, loops, hosts>>

-----------------------------------------------------------------------------
(* Calls.  The instruction pointer of the caller is already past the call. *)

push_callable_frame(code, block, base) ==
  Append(Moved(frames, 1), [code |-> code, ip |-> 1, stack_base |-> base, block |-> block])

(* A function runs in the execute that called it. *)
prepare_function_call ==
  /\ At("CALL")
  /\ frames' = push_callable_frame(chunks[Operand.name], Operand.block, Len(stack))
  /\ UNCHANGED <<program, chunks, conditions, output, stack, handlers, loops, rethrow, retrying,
                 hosts, status>>

(* A Crystal method that runs an execute of its own until the frame it     *)
(* pushed has returned.                                                    *)
Host(kind, depth) == [kind |-> kind, depth |-> depth, left |-> 0, block |-> <<>>]

EnterExecute(host, code) ==
  /\ frames' = push_callable_frame(code, <<>>, Len(stack))
  /\ hosts' = Append(hosts, host)
  /\ UNCHANGED <<program, chunks, conditions, output, stack, handlers, loops, rethrow, retrying,
                 status>>

call_function_value ==
  /\ At("INVOKE")
  /\ EnterExecute(Host("method", Len(frames)), chunks[Operand.name])

yield_to_block ==
  /\ At("YIELD")
  /\ IF Frame.block = <<>> THEN Fail("broken")
     ELSE EnterExecute(Host("yield", Len(frames)), Frame.block)

run_enumeration ==
  /\ At("EACH")
  /\ \/ /\ Operand.count = 0
        /\ Replace(0, <<"array">>)
        /\ UNCHANGED <<program, chunks, conditions, output, handlers, loops, rethrow, retrying,
                       hosts, status>>
     \/ /\ Operand.count > 0
        /\ EnterExecute([Host("each", Len(frames)) EXCEPT !.left  = Operand.count - 1,
                                                          !.block = Operand.block],
                        Operand.block)

(* One iteration more, from a stack and frames without the last one. *)
Iterate(host, s, fs) ==
  /\ stack' = s
  /\ frames' = Append(fs, [code |-> host.block, ip |-> 1, stack_base |-> Len(s),
                           block |-> <<>>])

(* Mutant: the last element is left out. *)
ButLastElement(s, fs) ==
  LET host == Top(hosts)
  IN  IF host.left > 1
      THEN /\ Iterate(host, s, fs)
           /\ hosts' = [hosts EXCEPT ![Len(hosts)].left = @ - 1]
      ELSE /\ stack' = Append(s, "array")
           /\ frames' = fs
           /\ hosts' = Front(hosts)

(* The enumeration goes on with the next element, or is over. *)
NextElement(s, fs) ==
  LET host == Top(hosts)
  IN  IF host.left > 0
      THEN /\ Iterate(host, s, fs)
           /\ hosts' = [hosts EXCEPT ![Len(hosts)].left = @ - 1]
      ELSE /\ stack' = Append(s, "array")
           /\ frames' = fs
           /\ hosts' = Front(hosts)

(* What the host does with the result that handle_return left on the stack. *)
ResumeHost(s, fs) ==
  CASE Top(hosts).kind = "method" ->
         stack' = s /\ frames' = fs /\ hosts' = Front(hosts)
    [] Top(hosts).kind = "yield" ->
         stack' = Append(s, Top(s)) /\ frames' = fs /\ hosts' = Front(hosts)
    [] Top(hosts).kind = "each" ->
         NextElement(Drop(s, 1), fs)

handle_return ==
  LET returned == Append(Truncated(Drop(stack, 1), Frame.stack_base), Top(stack))
      left == Drop(frames, 1)
  IN
  /\ At("RET")
  /\ left # <<>>
  /\ stack # <<>>
  /\ IF Len(left) = Top(hosts).depth THEN ResumeHost(returned, left)
     ELSE stack' = returned /\ frames' = left /\ UNCHANGED hosts
  /\ UNCHANGED <<program, chunks, conditions, output, handlers, loops, rethrow, retrying, status>>

(* "Return from top-level frame not supported". *)
ReturnFromTopLevel ==
  /\ At("RET")
  /\ Len(frames) = 1
  /\ Fail("broken")

(* A HALT reached by an execute inside another leaves the other at the end *)
(* of the code.                                                            *)
Halt ==
  /\ At("HALT")
  /\ IF Len(hosts) > 1 THEN Fail("broken")
     ELSE /\ status' = "halted"
          /\ stack' = IF stack = <<>> THEN stack ELSE Drop(stack, 1)
          /\ UNCHANGED <<program, chunks, conditions, output, frames, handlers, loops, rethrow,
                         retrying, hosts>>

-----------------------------------------------------------------------------
(* A Crystal exception leaves the executes one by one, each taking off the *)
(* frames above its own.                                                   *)

Leaving == status \in {"break", "next", "redo", "unhandled", "broken"}

cleanup_frames_from(depth) == Truncated(frames, depth)

CleanStack(depth) ==
  Truncated(stack, Min({frames[i].stack_base : i \in depth + 1 .. Len(frames)}
                       \cup {Len(stack)}))

LeaveExecute ==
  LET host == Top(hosts)
      fs == cleanup_frames_from(host.depth)
      s == CleanStack(host.depth)
  IN
  /\ Leaving
  /\ Len(hosts) > 1
  /\ CASE host.kind = "each" /\ status = "next" ->
            NextElement(s, fs) /\ status' = "running"
       [] host.kind = "each" /\ status = "redo" ->
            Iterate(host, s, fs) /\ UNCHANGED hosts /\ status' = "running"
       [] host.kind = "each" /\ status = "break" ->
            /\ stack' = Append(s, "array")
            /\ frames' = fs
            /\ hosts' = Front(hosts)
            /\ status' = "running"
       [] OTHER ->
            /\ stack' = s
            /\ frames' = fs
            /\ hosts' = Front(hosts)
            /\ UNCHANGED status
  /\ UNCHANGED <<program, chunks, conditions, output, handlers, loops, rethrow, retrying>>

(* Out of VM#run. *)
LeaveRun ==
  /\ Leaving
  /\ Len(hosts) = 1
  /\ status' = IF status = "unhandled" THEN "failed" ELSE "crashed"
  /\ UNCHANGED <<program, chunks, conditions, output, stack, frames, handlers, loops, rethrow,
                 retrying, hosts>>

-----------------------------------------------------------------------------
Init ==
  /\ program \in Programs
  /\ Compiles(program)
  /\ chunks = [name \in DOMAIN program.functions |->
                 compile_function_body(program.functions[name].body)]
  /\ conditions = <<>>
  /\ output = <<>>
  /\ stack = <<>>
  /\ frames = <<[code |-> compile(program), ip |-> 1, stack_base |-> 0, block |-> <<>>]>>
  /\ handlers = <<>>
  /\ loops = <<>>
  /\ rethrow = FALSE
  /\ retrying = <<>>
  /\ hosts = <<Host("run", 0)>>
  /\ status = "running"

Next ==
  \/ Straight \/ ReadCondition \/ Jump \/ Underflow
  \/ push_loop_context \/ pop_loop_context \/ LoopSignal
  \/ push_handler \/ pop_handler \/ RaiseException \/ CheckRethrow \/ Retry
  \/ prepare_function_call \/ call_function_value \/ yield_to_block \/ run_enumeration
  \/ handle_return \/ ReturnFromTopLevel \/ Halt
  \/ LeaveExecute \/ LeaveRun

Spec == Init /\ [][Next]_vars

(* VM#execute is a loop that only its program can stop. *)
FairSpec == Spec /\ WF_vars(Next)
-----------------------------------------------------------------------------
(* Properties. *)

CodeOf(fs) == {fs[i].code : i \in 1 .. Len(fs)}

Ended == status \in {"halted", "failed", "crashed"}

(* Every variable has its type; an instruction pointer never leaves its code. *)
TypeOK ==
  /\ conditions \in Seq(BOOLEAN) /\ Len(conditions) <= MaxConditions
  /\ \A i \in 1 .. Len(frames) :
       /\ frames[i].ip \in 1 .. Len(frames[i].code) + 1
       /\ frames[i].stack_base \in Nat
  /\ \A i \in 1 .. Len(handlers) :
       /\ handlers[i].rescue_ip \in Nat
       /\ {handlers[i].ensure_ip, handlers[i].body_ip} \subseteq 1 .. Len(handlers[i].home)
  /\ \A i \in 1 .. Len(loops) :
       {loops[i].condition_ip, loops[i].body_ip, loops[i].exit_ip} \subseteq 1 .. Len(loops[i].home)
  /\ rethrow \in BOOLEAN
  /\ Len(retrying) <= 1
  /\ hosts # <<>> /\ hosts[1].kind = "run"
  /\ status \in {"running", "break", "next", "redo", "unhandled", "broken",
                 "halted", "failed", "crashed", "astray"}

(* Both backends run the same program to the same effect: what the VM has  *)
(* written is, at every moment, the beginning of what the interpreter      *)
(* writes given the same conditions, and at the end all of it, with the    *)
(* same outcome ("identical behavior regardless of backend",               *)
(* docs/ARCHITECTURE.md:97).                                               *)
BackendsAgree ==
  LET native == interpret(program, conditions)
  IN  /\ IsPrefix(output, native.output)
      /\ Ended => output = native.output /\ status = native.status
      /\ status # "astray"

(* Where the VM stops with an exception of its own (cli_backend.cr:11 is   *)
(* not kept there), it has not gone wrong before: a program that the VM    *)
(* ends, or that fails with an exception of the program's, ends so on the  *)
(* interpreter.                                                            *)
NeverSilentlyWrong ==
  LET native == interpret(program, conditions)
  IN  /\ IsPrefix(output, native.output)
      /\ status = "halted" => output = native.output /\ native.status = "halted"
      /\ status = "failed" => output = native.output /\ native.status = "failed"

(* A handler belongs to a live frame, and handlers to frames in order: an  *)
(* exception is never given to code that has already been left.            *)
HandlersAreLive ==
  status = "running" =>
    /\ \A i \in 1 .. Len(handlers) :
         /\ handlers[i].frame_depth < Len(frames)
         /\ frames[handlers[i].frame_depth + 1].code = handlers[i].home
    /\ \A i, j \in 1 .. Len(handlers) :
         i < j => handlers[i].frame_depth <= handlers[j].frame_depth

(* A loop context belongs to code that is still running, so that break,    *)
(* next and redo act on the loop around them.                              *)
LoopsAreLive ==
  status = "running" => \A i \in 1 .. Len(loops) : loops[i].home \in CodeOf(frames)

(* A program that ends leaves nothing behind on any of the VM's stacks,    *)
(* which reset_for_run clears only in part.                                *)
NothingLeftBehind ==
  status = "halted" =>
    stack = <<>> /\ handlers = <<>> /\ loops = <<>> /\ ~rethrow /\ retrying = <<>>

(* "This code will always be executed." (examples/handling/ensure.ds:16)   *)
(* of the ensure block, here one that writes "cleanup" for a body that     *)
(* writes "try".                                                           *)
EnsureRuns == "try" \in ToSet(output) ~> "cleanup" \in ToSet(output)

(* "Stack underflow" (vm.cr:2162), "retry used outside of rescue"          *)
(* (vm.cr:1251) and the like are the VM's assertions about the code it is  *)
(* given.                                                                  *)
NeverBroken == status # "broken"

(* The programs run here end on the interpreter; the VM ends them too.     *)
Terminates == <>Ended
=============================================================================
