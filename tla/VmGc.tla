-------------------------------- MODULE VmGc --------------------------------
(***************************************************************************)
(* The bytecode VM and the memory manager together: the frames of          *)
(* core/vm/vm.cr enter and leave the contexts that their functions'        *)
(* annotations ask of gc.c (module GcArea), on every way out of a frame:   *)
(* a return, an exception that a handler takes, an exception of Crystal's  *)
(* that unwinds the executes, and the end of the run.                      *)
(*                                                                         *)
(* The code that runs is any: an instruction that may come does, in        *)
(* whatever order.  A program's own values are not in the areas (the VM    *)
(* allocates them with Crystal's allocator), so there are no blocks here.  *)
(***************************************************************************)
EXTENDS GcArea

CONSTANTS
  MaxFrames,      \* bound: frames on the VM's stack
  MaxHandlers,    \* bound: handlers on the VM's stack
  MaxHosts,       \* bound: executes inside one another
  MaxRuns,        \* bound: runs of a VM in this process
  RescueOutside   \* whether exceptions out of an annotated function end in its callers

ASSUME FrameBoundsAssumption ==
  /\ MaxFrames \in Nat \ {0}
  /\ MaxHandlers \in Nat
  /\ MaxHosts \in Nat
  /\ MaxRuns \in Nat \ {0}
  /\ RescueOutside \in BOOLEAN

VARIABLES
  frames,    \* @frames: the context each has entered
  hosts,     \* the Crystal calls that wait for an execute, outermost first
  handlers,  \* @handlers: the frame_depth of each
  status,    \* "running", "returned" to a host, "ended", or a Crystal
             \* exception on its way out: "error" or "signal"
  runs       \* runs of a VM that have begun

vmVars == <<frames, hosts, handlers, status, runs>>

(* effective_garbage: a function is in one mode. *)
Modes == {"enabled", "disabled", "area"}

Frame(kind, mode, area) == [kind |-> kind, mode |-> mode, area |-> area]

Main == Frame("main", "enabled", NULL)

LastOf(s) == s[Len(s)]
FirstOf(s, n) == IF n < Len(s) THEN SubSeq(s, 1, n) ELSE s

UnchangedGc == UNCHANGED vars

-----------------------------------------------------------------------------
(* Contexts. *)

enter_gc_context(mode) ==
  CASE mode = "disabled" -> dragonstone_gc_disable
    [] mode = "area"     -> dragonstone_gc_begin_area
    [] mode = "enabled"  -> UnchangedGc

(* Manager#end_area without an argument: the innermost area is ended,      *)
(* whoever began it, if there is one.                                      *)
EndInnermost == EndCurrent \/ (gc.current_area = NULL /\ UnchangedGc)

(* Mutant: a context is left even by a frame that entered none. *)
ExitAlways(mode) ==
  IF mode # "area" /\ gc.disable_depth > 0 THEN dragonstone_gc_enable
  ELSE IF mode = "area" THEN EndInnermost ELSE UnchangedGc

exit_gc_context(mode) ==
  CASE mode = "disabled" -> dragonstone_gc_enable
    [] mode = "area"     -> EndInnermost
    [] mode = "enabled"  -> UnchangedGc

-----------------------------------------------------------------------------
(* Calls. *)

(* The context is entered before the arguments are checked against the     *)
(* types of the parameters.                                                *)
push_callable_frame(kind, mode) ==
  /\ status = "running"
  /\ Len(frames) < MaxFrames
  /\ enter_gc_context(mode)
  /\ frames' = Append(frames,
       Frame(kind, mode, IF mode = "area" THEN gc'.current_area ELSE NULL))
  /\ status' \in {"running", "error"}

(* A function runs in the execute that called it. *)
prepare_function_call(mode) ==
  /\ push_callable_frame("function", mode)
  /\ UNCHANGED <<hosts, handlers, runs>>

(* A method, and a block in an iteration of an enumeration, runs in an     *)
(* execute of its own.                                                     *)
EnterExecute(kind) ==
  /\ Len(hosts) < MaxHosts
  /\ hosts' = Append(hosts, [kind |-> kind, depth |-> Len(frames)])

call_function_value(mode) ==
  /\ push_callable_frame("function", mode)
  /\ EnterExecute("method")
  /\ UNCHANGED <<handlers, runs>>

execute_block_iteration ==
  /\ push_callable_frame("block", "enabled")
  /\ EnterExecute("each")
  /\ UNCHANGED <<handlers, runs>>

(* gc.with_disabled: the collector is off as long as the block's execute runs. *)
with_disabled ==
  /\ status = "running"
  /\ Len(frames) < MaxFrames
  /\ dragonstone_gc_disable
  /\ frames' = Append(frames, Frame("block", "enabled", NULL))
  /\ EnterExecute("with_disabled")
  /\ UNCHANGED <<handlers, status, runs>>

(* The type of a function's result is checked once its frame is gone. *)
handle_return ==
  LET left == Front(frames)
  IN
  /\ status = "running"
  /\ left # <<>>
  /\ exit_gc_context(LastOf(frames).mode)
  /\ frames' = left
  /\ \/ status' = IF Len(left) = LastOf(hosts).depth THEN "returned" ELSE "running"
     \/ LastOf(frames).kind = "function" /\ status' = "error"
  /\ UNCHANGED <<hosts, handlers, runs>>

(* What a host leaves when its execute is over, however that ended. *)
HostMode(host) == IF host.kind = "with_disabled" THEN "disabled" ELSE "enabled"

ResumeHost ==
  /\ status = "returned"
  /\ exit_gc_context(HostMode(LastOf(hosts)))
  /\ hosts' = Front(hosts)
  /\ status' = "running"
  /\ UNCHANGED <<frames, handlers, runs>>

-----------------------------------------------------------------------------
(* Exceptions. *)

(* Mutant: the frame below is remembered. *)
HandlerOneBelow ==
  /\ status = "running"
  /\ Len(handlers) < MaxHandlers
  /\ handlers' = Append(handlers, Len(frames) - 2)
  /\ UnchangedGc
  /\ UNCHANGED <<frames, hosts, status, runs>>

push_handler ==
  /\ status = "running"
  /\ Len(handlers) < MaxHandlers
  /\ handlers' = Append(handlers, Len(frames) - 1)
  /\ UnchangedGc
  /\ UNCHANGED <<frames, hosts, status, runs>>

pop_handler ==
  /\ status = "running"
  /\ handlers # <<>>
  /\ handlers' = Front(handlers)
  /\ UnchangedGc
  /\ UNCHANGED <<frames, hosts, status, runs>>

Annotated(fs) == \E i \in 1 .. Len(fs) : fs[i].mode # "enabled"

(* The frames inside the handler's are gone; their contexts are not left,  *)
(* nor are the executes that wait for them.                                *)
handle_exception ==
  LET kept == FirstOf(frames, LastOf(handlers) + 1)
      gone == SubSeq(frames, Len(kept) + 1, Len(frames))
  IN
  /\ status = "running"
  /\ handlers # <<>>
  /\ RescueOutside \/ (~Annotated(gone) /\ LastOf(hosts).depth < Len(kept))
  /\ frames' = kept
  /\ UnchangedGc
  /\ UNCHANGED <<hosts, handlers, status, runs>>

(* An exception that no handler takes, or one of Crystal's; a break, next  *)
(* or redo of a block; a HALT or a RET of the main program inside another  *)
(* execute.                                                                *)
LeaveCode ==
  /\ status = "running"
  /\ status' \in {"error", "signal"}
  /\ UnchangedGc
  /\ UNCHANGED <<frames, hosts, handlers, runs>>

Leaving == status \in {"error", "signal"}

(* Mutant: frames are dropped without leaving their contexts. *)
CleanupWithoutExit ==
  /\ Leaving
  /\ Len(hosts) > 1
  /\ Len(frames) > LastOf(hosts).depth
  /\ UnchangedGc
  /\ frames' = Front(frames)
  /\ UNCHANGED <<hosts, handlers, status, runs>>

cleanup_frames_from ==
  /\ Leaving
  /\ Len(hosts) > 1
  /\ Len(frames) > LastOf(hosts).depth
  /\ exit_gc_context(LastOf(frames).mode)
  /\ frames' = Front(frames)
  /\ UNCHANGED <<hosts, handlers, status, runs>>

(* An execute whose frames are gone is left; a signal ends there that was  *)
(* meant for its enumeration.                                              *)
LeaveExecute ==
  /\ Leaving
  /\ Len(hosts) > 1
  /\ Len(frames) <= LastOf(hosts).depth
  /\ exit_gc_context(HostMode(LastOf(hosts)))
  /\ hosts' = Front(hosts)
  /\ status' = IF LastOf(hosts).kind = "each" /\ status = "signal" THEN "running" ELSE status
  /\ UNCHANGED <<frames, handlers, runs>>

(* HALT, or out of VM#run with whatever frames there are. *)
LeaveRun ==
  /\ Leaving \/ (status = "running" /\ Len(frames) = 1)
  /\ Len(hosts) = 1
  /\ status' = "ended"
  /\ UnchangedGc
  /\ UNCHANGED <<frames, hosts, handlers, runs>>

(* A new VM, for another unit of the program or another program, over the  *)
(* same memory manager.                                                    *)
reset_for_run ==
  /\ status = "ended"
  /\ runs < MaxRuns
  /\ RescueOutside \/ ~Annotated(frames)
  /\ frames' = <<Main>>
  /\ hosts' = <<[kind |-> "run", depth |-> 0]>>
  /\ handlers' = <<>>
  /\ status' = "running"
  /\ runs' = runs + 1
  /\ UnchangedGc

-----------------------------------------------------------------------------
(* The VM initialises the manager when it is created. *)
VmInit ==
  /\ gc = Startup
  /\ stats = [total_allocated |-> 0, total_freed |-> 0]
  /\ areas = <<>>
  /\ heap = <<>>
  /\ boehm_off = 0
  /\ finalized = [p \in 1 .. MaxBlocks |-> "none"]
  /\ trusted = {}
  /\ frames = <<Main>>
  /\ hosts = <<[kind |-> "run", depth |-> 0]>>
  /\ handlers = <<>>
  /\ status = "running"
  /\ runs = 1

VmNext ==
  \/ \E mode \in Modes : prepare_function_call(mode) \/ call_function_value(mode)
  \/ execute_block_iteration \/ with_disabled \/ handle_return \/ ResumeHost
  \/ push_handler \/ pop_handler \/ handle_exception
  \/ LeaveCode \/ cleanup_frames_from \/ LeaveExecute \/ LeaveRun \/ reset_for_run

VmSpec == VmInit /\ [][VmNext]_<<vars, vmVars>>
-----------------------------------------------------------------------------
(* Properties. *)

(* Every variable has its type. *)
VmTypeOK ==
  /\ TypeOK
  /\ frames \in Seq([kind : {"main", "function", "block"}, mode : Modes, area : 0 .. MaxAreas])
  /\ hosts \in Seq([kind : {"run", "method", "each", "with_disabled"}, depth : 0 .. MaxFrames])
  /\ handlers \in Seq(Nat)
  /\ status \in {"running", "returned", "error", "signal", "ended"}
  /\ runs \in 1 .. MaxRuns

(* "GC will not run inside this function." (garbage_collection.ds:26)      *)
(* Whatever is raised, rescued and unwound around it, the collector is off *)
(* while an annotated function, or the block of gc.with_disabled, is live. *)
CollectorOff ==
  /\ \A i \in 1 .. Len(frames) : frames[i].mode = "disabled" => boehm_off > 0
  /\ \A i \in 1 .. Len(hosts) : hosts[i].kind = "with_disabled" => boehm_off > 0

(* "Must be called once for each dragonstone_gc_disable()" (gc.h:251): a   *)
(* program that is back in its outermost code has left every context.      *)
ContextsClosed ==
  status = "running" /\ frames = <<Main>> /\ Len(hosts) = 1 =>
    gc.disable_depth = 0 /\ gc.current_area = NULL

(* The scopes of the program: what its live calls have entered. *)
ScopesAt(i) ==
  (IF \E j \in 1 .. Len(hosts) : hosts[j].kind = "with_disabled" /\ hosts[j].depth = i - 1
   THEN <<NULL>> ELSE <<>>)
  \o IF i > Len(frames) \/ frames[i].mode = "enabled" THEN <<>> ELSE <<frames[i].area>>

LiveScopes == FlattenSeq([i \in 1 .. Len(frames) + 1 |-> ScopesAt(i)])

Scopes == INSTANCE GcScopes
  WITH scopes <- LiveScopes, disable_depth <- gc.disable_depth, current_area <- gc.current_area

(* The manager is governed by the scopes that are open, and by nothing     *)
(* that was open before, as long as no exception is rescued or ends the    *)
(* run outside the annotated function it leaves.                           *)
ManagerFollowsScopes == Scopes!ScopesSpec
=============================================================================
