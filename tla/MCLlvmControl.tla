--------------------------- MODULE MCLlvmControl ---------------------------
(***************************************************************************)
(* Families of small programs for LlvmControl.                             *)
(***************************************************************************)
EXTENDS LlvmControl

a == Work("a")
b == Work("b")
c == Work("c")
Cleanup == Work("cleanup")

RaiseIf == If(<<Raise>>, <<>>)
Catch(body) == <<Rescue({}, body)>>

(* Every function returns a value at its end.                              *)
MainWith(statements, f) ==
  Program(statements \o <<Work("end")>>, [name \in {"f"} |-> FunctionDef(f \o <<Return("f")>>, <<>>)])
Main(statements) == MainWith(statements, <<>>)

Attempts == {<<a>>, <<a, RaiseIf, b>>, <<RaiseIf, RaiseIf, a>>, <<Call("f"), b>>}
Raisers  == {<<Raise>>, <<a, RaiseIf, b>>, <<Begin(<<RaiseIf, a>>, Catch(<<b>>), <<c>>), RaiseIf>>}

(* A clause that retries has no ensure block: only the interpreter runs it *)
(* before each attempt.                                                    *)
Handling ==
  {Begin(body, Catch(clause), ensure) : body \in Attempts, clause \in {<<b>>, <<b, RaiseIf>>}, ensure \in {<<>>, <<c>>}}
  \cup {Begin(body, Catch(clause), <<>>) : body \in Attempts, clause \in {<<FlowIf("retry"), c>>, <<b, If(<<Flow("retry")>>, <<>>)>>}}
  \cup {BeginElse(<<RaiseIf, a>>, Catch(<<b>>), <<c, RaiseIf>>, ensure) :
          ensure \in {<<>>, <<b>>, <<Begin(<<RaiseIf, a>>, Catch(<<c>>), <<b>>)>>}}

HandlingPrograms ==
  {MainWith(<<n, RaiseIf>>, f) : n \in Handling, f \in Raisers}
  \cup {MainWith(<<Begin(<<n, RaiseIf, a>>, Catch(<<b>>), <<c>>), m>>, <<b, RaiseIf>>) :
          n \in Handling, m \in {a, Begin(<<RaiseIf>>, Catch(<<b>>), <<>>)}}

(* A jump leaves only blocks without an ensure: it runs none.              *)
Jumps == {FlowIf("next"), FlowIf("break"), FlowIf("redo")}

LoopPrograms ==
  {Main(<<While(<<Begin(<<j, RaiseIf, a>>, Catch(clause), <<>>), k, b>>), RaiseIf>>) :
     j \in Jumps, k \in Jumps \cup {c, RaiseIf}, clause \in {<<c>>, <<FlowIf("break"), c>>}}
  \cup {Main(<<Begin(<<While(<<a, j, RaiseIf>>), b>>, Catch(<<c>>), <<a>>), RaiseIf>>) : j \in Jumps}

(* A return from the body of blocks runs their ensure blocks.              *)
ReturningPrograms ==
  {MainWith(<<Call("f"), RaiseIf, Begin(<<Call("f"), RaiseIf>>, Catch(<<a>>), <<b>>)>>,
            <<Begin(<<Begin(body, Catch(<<b>>), <<a>>), RaiseIf>>, Catch(<<b>>), <<Cleanup>>)>>) :
     body \in {<<If(<<Return("early")>>, <<>>), RaiseIf>>, <<RaiseIf, If(<<c>>, <<Return("early")>>)>>,
               <<While(<<If(<<Return("early")>>, <<>>), RaiseIf>>)>>}}

AllPrograms == HandlingPrograms \cup LoopPrograms \cup ReturningPrograms

-----------------------------------------------------------------------------
(* The second return of a block, and a return from a rescue clause.        *)
EnsurePrograms ==
  {MainWith(<<Call("f")>>, <<Begin(<<If(<<Return("early")>>, <<>>), Return("late")>>, Catch(<<a>>), <<Cleanup>>)>>),
   MainWith(<<Call("f")>>, <<Begin(<<Raise>>, Catch(<<Return("rescued")>>), <<Cleanup>>)>>)}
=============================================================================
