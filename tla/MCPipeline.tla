------------------------------ MODULE MCPipeline ------------------------------
(***************************************************************************)
(* A supplier f that is called twice, the second time on the line of a     *)
(* store; its precondition is a formula over required calls (C) and        *)
(* operations that no pass decides (R), its postcondition forbids the      *)
(* store until w is called, or v until a call tagged t, as g is, which has *)
(* the parameter and allocation requirements.                              *)
(***************************************************************************)
EXTENDS Pipeline

Call(f, line)               == [instr |-> "call", callee |-> f, line |-> line, column |-> 1]
Access(instr, line, column) == [instr |-> instr, callee |-> "-", line |-> line, column |-> column]

MCProgram ==
  <<Call("f", 1), Call("f", 2), Access("store", 2, 5), Call("g", 4), Call("w", 5), Call("u", 6), Call("v", 7)>>

(* What is moved or copied gets the location of the second call of f, as   *)
(* when the two calls are merged.                                          *)
MCElsewhere == {[line |-> 2, column |-> 1]}

CallOp(target)     == [kind |-> "CALL", target |-> target]
Leaf1(op)          == [children |-> <<>>] @@ op
Composite(K, subs) == [kind |-> K, children |-> subs]
ForbiddenStore     == [kind |-> "RELEASE", forbidden |-> [kind |-> "WRITE"], until |-> CallOp("w")]
ForbiddenCall      == [kind |-> "RELEASE", forbidden |-> CallOp("v"), until |-> [kind |-> "CALLTAG", target |-> "t"]]

(* 1 to 3 are C, 4 is R, 11 to 17 the trees over them.                     *)
MCFormula ==
  [i \in 1..3 |-> Leaf1(CallOp("g"))]
    \o <<Leaf1([kind |-> "READ"]), Leaf1(ForbiddenStore), Leaf1(ForbiddenCall), Leaf1([kind |-> "PARAM"]),
         Leaf1([kind |-> "ALLOC"]), Leaf1(CallOp("u")), Leaf1([kind |-> "ALLOC"]),
         Composite("XOR", <<1, 4, 3>>), Composite("OR",  <<4, 2, 3>>), Composite("XOR", <<2, 3>>),
         Composite("OR",  <<2, 3>>),    Composite("OR",  <<1, 13>>),   Composite("XOR", <<4, 13>>),
         Composite("XOR", <<4, 14>>)>>

Database(tree, release, requirements, xres) ==
  {[func |-> "f", Pre |-> <<tree>>, Post |-> <<release>>, tags |-> {}, xres |-> "UNKNOWN"],
   [func |-> "g", Pre |-> requirements, Post |-> <<9, 10>>, tags |-> {"t"}, xres |-> xres]}

MCDatabases ==
  {Database(tree, 5, <<>>, "UNKNOWN") : tree \in {11, 12} \cup (15..17)}
  \cup {Database(1, 6, <<7, 8>>, xres) : xres \in {"UNKNOWN", "BROKEN"}}

Symmetry == Permutations(Processes) \cup Permutations(Names)
=============================================================================
