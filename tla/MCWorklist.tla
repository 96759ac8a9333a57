------------------------------ MODULE MCWorklist ------------------------------
(***************************************************************************)
(* Small programs for Worklist: every way to fill four blocks behind the   *)
(* first, in every basic shape of control flow.                            *)
(***************************************************************************)
EXTENDS Worklist

Graph(s1, s2, s3, s4) == (1 :> s1) @@ (2 :> s2) @@ (3 :> s3) @@ (4 :> s4) @@ (5 :> <<1>>)
Straight   == Graph(<<2>>, <<3>>, <<4>>, <<>>)
Forever    == Graph(<<2>>, <<3>>, <<2>>, <<>>)
IfThen     == Graph(<<2, 3>>, <<3>>, <<4>>, <<>>)
IfThenElse == Graph(<<2, 3>>, <<4>>, <<4>>, <<>>)
While      == Graph(<<2>>, <<3, 4>>, <<2>>, <<>>)
DoWhile    == Graph(<<2>>, <<3>>, <<2, 4>>, <<>>)
EarlyExit  == Graph(<<2, 3>>, <<>>, <<4>>, <<>>)
MCShape == {Straight, Forever, IfThen, IfThenElse, While, DoWhile, EarlyExit}

(* h is what malloc returns, g points into the same block, s is a variable *)
(* on the stack that stores h and l is loaded from there.                  *)
Instr(kind, value, from) == [kind |-> kind, value |-> value, from |-> from]
MCIR ==
  ("h=malloc" :> Instr("alloc", "h", "null")) @@ ("free h" :> Instr("free", "h", "null"))
    @@ ("g=h" :> Instr("copy", "g", "h")) @@ ("s=h" :> Instr("store", "s", "h"))
    @@ ("l=s" :> Instr("load", "l", "s"))
    @@ ("use h" :> Instr("use", "h", "null")) @@ ("use g" :> Instr("use", "g", "null"))
    @@ ("use l" :> Instr("use", "l", "null"))

Calls == {"PreCall", "PreCallParams", "PostCall", "Release"}
CallBodies == {"nop", "target", "supplier", "call"}
AllocBodies == {"nop", "free h", "g=h", "s=h", "l=s", "use h", "use g", "use l"}
MCBodyOf ==
  ("PreCall" :> CallBodies) @@ ("PreCallParams" :> {"mismatch", "target", "supplier", "call"})
    @@ ("PostCall" :> CallBodies) @@ ("Release" :> {"forbid", "target", "supplier", "call"})
    @@ ("Alloc" :> AllocBodies)
CallBodyOf == [a \in Calls |-> MCBodyOf[a]]
MCEntryOf == [a \in Calls |-> "nop"] @@ ("Alloc" :> "h=malloc")
MCHelper == [a \in Calls |-> {"target", "supplier"}] @@ ("Alloc" :> {"nop"})
=============================================================================
