---------------------------- MODULE MCVmControl ----------------------------
(***************************************************************************)
(* Families of small programs for VmControl.                               *)
(***************************************************************************)
EXTENDS VmControl

a == Work("a")
b == Work("b")
c == Work("c")

RaiseIf == If(<<Raise>>, <<>>)
RetryIf == If(<<Flow("retry")>>, <<>>)
Catch(body) == <<Rescue({}, body)>>

NoFunctions == [name \in {} |-> FunctionDef(<<>>, <<>>)]
Functions(f, m) ==
  [name \in {"f", "m"} |-> FunctionDef(IF name = "f" THEN f ELSE m, <<>>)]
Main(statements) == Program(statements \o <<Work("end")>>, NoFunctions)
MainWith(statements, f) == Program(statements \o <<Work("end")>>, Functions(f, <<>>))
MainInvoking(statements, m, f) == Program(statements \o <<Work("end")>>, Functions(f, m))

(* Exceptions raised and rescued in the same execute, directly or through  *)
(* functions, retried or not, with or without an ensure block.             *)
Attempts == {<<a>>, <<Raise>>, <<a, RaiseIf, b>>, <<RaiseIf, RaiseIf, a>>, <<Call("f"), b>>}
Clauses == {<<b>>, <<RetryIf>>, <<FlowIf("retry"), c>>, <<b, RetryIf, c>>}
Ensures == {<<>>, <<c>>, <<If(<<b>>, <<c>>)>>}
Raisers == {<<Raise>>, <<a, RaiseIf, b>>, <<If(<<Return("early")>>, <<>>), RaiseIf, b>>,
            <<Begin(<<RaiseIf, a>>, Catch(<<b>>), <<c>>)>>}

Handling == {Begin(body, Catch(clause), ensure) :
               body \in Attempts, clause \in Clauses, ensure \in Ensures}

HandlingPrograms == {MainWith(<<n>>, f) : n \in Handling, f \in Raisers}

(* Blocks in blocks: the inner one has ended when the outer one is needed. *)
NestedPrograms ==
  {MainWith(<<Begin(<<n, RaiseIf, a>>, Catch(clause), <<c>>), m>>, <<b, RaiseIf>> \o <<a>>) :
     n \in Handling, m \in {a, Begin(<<RaiseIf>>, Catch(<<b>>), <<>>)}, clause \in {<<b>>, <<RetryIf>>}}

(* Loops, alone, in one another, around blocks and in functions.           *)
Steps == {a, FlowIf("next"), FlowIf("break"), FlowIf("redo"), If(<<a, Flow("next")>>, <<b>>)}
Bodies == {<<s>> \o <<t>> \o <<b>> : s \in Steps, t \in Steps}
Loops == {While(body) : body \in Bodies}

LoopPrograms ==
  {Main(<<n>>) : n \in Loops}
  \cup {Main(<<While(<<n, FlowIf("break"), c>>)>>) : n \in Loops}
  \cup {Main(<<While(<<Begin(<<n, a>>, Catch(<<b>>), <<c>>), FlowIf("next"), b>>)>>) : n \in Loops}
  \cup {MainWith(<<While(<<Call("f"), FlowIf("redo"), a>>)>>, <<n, c>>) : n \in Loops}
  \cup {Main(<<Begin(<<n, RaiseIf>>, Catch(<<RetryIf>>), <<c>>)>>) : n \in Loops}

(* Enumerations and methods, which run in an execute of their own. *)
BlockPrograms ==
  {Main(<<Each(2, body)>>) : body \in Bodies}
  \cup {Main(<<Each(2, <<Each(1, body), FlowIf("break"), c>>)>>) : body \in Bodies}
  \cup {Main(<<Each(2, <<n, FlowIf("next"), c>>)>>) : n \in Loops}
  \cup {MainInvoking(<<Invoke("m"), a>>, <<n, c>>, f) : n \in Loops \cup Handling, f \in Raisers}
  \cup {MainWith(<<Each(count, <<Invoke("f"), FlowIf("break"), n>>)>>, f) :
          count \in 0 .. 2, n \in {a, Begin(<<RaiseIf>>, Catch(<<RetryIf>>), <<>>)}, f \in Raisers}
  \cup {MainWith(<<CallBlock("f", block), c>>, <<a, Yield, Each(1, <<b>>), Yield, b>>) :
          block \in {<<a>>, <<RaiseIf, b>>, <<If(<<Return("early")>>, <<>>), b>>,
                    <<Begin(<<Raise>>, Catch(<<b>>), <<>>)>>}}

ControlPrograms == HandlingPrograms \cup NestedPrograms \cup LoopPrograms \cup BlockPrograms

(* Programs that fail, with an exception of their own or one of the VM's. *)
Faults ==
  {<<Return("early")>>, <<Raise>>, <<If(<<Flow("break")>>, <<>>)>>, <<If(<<Flow("next")>>, <<>>)>>, <<Flow("redo")>>,
   <<RetryIf>>, <<a, RaiseIf>>, <<Invoke("f")>>, <<Call("f"), b>>, <<CallBlock("f", <<b>>)>>,
   <<CallBlock("f", <<If(<<Flow("next")>>, <<b>>), RaiseIf>>)>>, <<Each(2, <<RaiseIf, Invoke("f")>>)>>,
   <<Begin(<<Invoke("f")>>, Catch(<<b>>), <<>>)>>,
   <<Begin(<<RaiseIf>>, Catch(<<FlowIf("retry")>>), <<>>)>>}

FaultPrograms ==
  {MainWith(<<a>> \o fault \o <<b>>, f) : fault \in Faults, f \in Raisers \cup {<<Yield>>, <<b, Yield, c>>}}
  \cup {Main(fault) : fault \in {<<Return("early")>>, <<Flow("break")>>, <<Flow("retry")>>, <<Raise>>}}

AllPrograms == ControlPrograms \cup FaultPrograms

(* "Control flows such as each/map/select/inject/until honor               *)
(* next/redo/break on both backends." (cli_backend.cr:11): a program of    *)
(* ControlPrograms has the same effect on both. A program of FaultPrograms *)
(* may end with an exception of the VM's own; NeverSilentlyWrong says what *)
(* it may not do before.                                                   *)
BackendsAgreeOnControl == program \in ControlPrograms => BackendsAgree

-----------------------------------------------------------------------------
(* Programs the backends disagree on, or that break the VM: whichever is   *)
(* given to Programs, BackendsAgree does not hold,                         *)
(* or Terminates in the case of ReraisePrograms.                           *)

(* A return from a block with an ensure. *)
ReturnPrograms ==
  {MainWith(<<Call("f")>>, <<Begin(<<Work("try"), Return("early")>>, <<>>, <<Work("cleanup")>>)>>)}

(* A raise in a rescue clause. *)
ReraisePrograms ==
  {MainWith(<<Call("f")>>, <<Begin(<<Work("try"), Raise>>, Catch(<<Raise>>), <<Work("cleanup")>>)>>)}

(* An else block. *)
ElsePrograms == {Main(<<BeginElse(<<a>>, Catch(<<b>>), <<Work("otherwise")>>, <<>>)>>)}

(* A rescue around a method that raises. *)
MethodPrograms == {MainWith(<<Begin(<<Invoke("f")>>, Catch(<<b>>), <<>>)>>, <<Raise>>)}

(* A rescue clause that ends with a modified retry. *)
ModifierPrograms == {Main(<<Begin(<<RaiseIf, a>>, Catch(<<FlowIf("retry")>>), <<>>)>>)}

(* A next in a block inside a while. *)
NextPrograms == {Main(<<While(<<Each(1, <<FlowIf("next"), a>>)>>)>>)}

(* A yielded value that is echoed after another one. *)
YieldPrograms == {MainWith(<<CallBlock("f", <<a>>)>>, <<YieldAfter("x")>>)}

(* A break after a loop that an exception left. *)
BreakPrograms ==
  {Main(<<While(<<Begin(<<While(<<Raise>>), a>>, Catch(<<b>>), <<>>), Flow("break"), c>>)>>)}
=============================================================================
