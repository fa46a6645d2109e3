----------------------------- MODULE MCLlvmValues -----------------------------
(***************************************************************************)
(* Two programs side by side: one computes with operators and has no       *)
(* collection, the other has a collection of values and computes nothing.  *)
(***************************************************************************)
EXTENDS LlvmCollections

vars == <<operands, object, loops, finished>>

MCItems   == {NULL, Int64(1)}
MCKeys    == {Int32(0), Int64(0), Int64(2), Int32(-1)}
MCAnswers == {NULL, Bool(TRUE), Int32(1)}

\* One character of two bytes, the others of one.
MCEncoding == [c \in {1, 2, 3, 5} |-> IF c = 5 THEN <<6, 4>> ELSE <<c>>]
MCTexts    == {<<>>, <<1>>, <<2>>, <<1, 1>>, <<6, 4>>, <<1, 6, 4>>}

Idle == <<RAISED, RAISED>>

Init ==
  \/ OperatorsInit /\ object = Collection("BAG", <<>>) /\ loops = <<>> /\ finished = <<>>
  \/ CollectionsInit /\ operands = Idle

Next ==
  \/ operands # Idle /\ Operate /\ UNCHANGED cvars
  \/ operands = Idle /\ CollectionsNext /\ UNCHANGED operands

Spec == Init /\ [][Next]_vars

-----------------------------------------------------------------------------
(* What the documentation and the specs say of every program, and compiled *)
(* ones do not do: TLC refutes each in an initial state, as an invariant   *)
(* of MCLlvmValues.cfg.                                                    *)

(* "2 ** 4 # -> 16.0" (docs/2_Introduction/5. Numbers.md:71): a power of   *)
(* integers is a float. It is an integer (llvm_runtime.c:3002).            *)
PowersAreFloats ==
  BothInts(operands[1], operands[2]) => \A v \in pow(operands[1], operands[2]) : IsFloat(v)

(* "When you mix integers and floats in an operation, the result is always *)
(* a float" (docs/2_Introduction/5. Numbers.md:78). A sum raises           *)
(* (llvm_runtime.c:2696-2709).                                             *)
MixedAreFloats ==
  LET l == operands[1]
      r == operands[2]
  IN  IsInt(l) /\ IsFloat(r) => /\ IsFloat(add(l, r)) /\ IsFloat(add(r, l))
                               /\ IsFloat(sub(l, r)) /\ IsFloat(mul(l, r))

(* "slices strings by codepoint and enforces bounds"                       *)
(* (spec/language_features_spec.cr:737), of a text of two characters.      *)
SlicesAreCharacters ==
  LET l == operands[1]
      r == operands[2]
  IN  BothInts(l, r) /\ l.i \in {0, 1, 3} /\ r.i = 1 =>
        \A c \in [1 .. 2 -> DOMAIN Encoding] :
          slice(Encoding[c[1]] \o Encoding[c[2]], l, r) =
            {IF l.i <= 1 THEN Str(Encoding[c[l.i + 1]]) ELSE RAISED}
=============================================================================
