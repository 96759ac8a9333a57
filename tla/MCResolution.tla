----------------------------- MODULE MCResolution -----------------------------
(***************************************************************************)
(* Small contract databases for Resolution, one per shape of formula tree. *)
(***************************************************************************)
EXTENDS Resolution, TLC

Parents(S, p) == [f \in S |-> p]

(* PRE { p1, (p2 | a1), (p3 ^ c1) } and                               *)
(* POST { r1, ((k1, r2) | k2), (k3 ^ r3) }: every connective over every    *)
(* kind of analysis, two levels of nesting.                                *)
MixedParents ==
  Parents({"pre", "post"}, "null") @@ Parents({"p1", "or1", "xor1"}, "pre")
    @@ Parents({"p2", "a1"}, "or1") @@ Parents({"p3", "c1"}, "xor1")
    @@ Parents({"r1", "or2", "xor2"}, "post") @@ Parents({"and1", "k2"}, "or2")
    @@ Parents({"k1", "r2"}, "and1") @@ Parents({"k3", "r3"}, "xor2")
MixedFormula == DOMAIN MixedParents
MixedConn ==
  Parents({"pre", "post", "and1"}, "AND") @@ Parents({"or1", "or2"}, "OR")
    @@ Parents({"xor1", "xor2"}, "XOR") @@ Parents({"p1", "p2", "p3"}, "PARAM")
    @@ ("a1" :> "ALLOC") @@ Parents({"c1", "k1", "k2", "k3"}, "CALL")
    @@ Parents({"r1", "r2", "r3"}, "RELEASE")
MixedIsPre == [f \in MixedFormula |-> f \in {"pre", "or1", "xor1", "p1", "p2", "p3", "a1", "c1"}]
MixedAnalyses == <<"p1", "p2", "a1", "p3", "c1", "r1", "k1", "r2", "k2", "k3", "r3">>

(* PRE { (p1 | p2 | c1), (p3 | a1) }: a disjunction with three alternatives. *)
TernaryParents ==
  Parents({"pre"}, "null") @@ Parents({"or1", "or2"}, "pre")
    @@ Parents({"p1", "p2", "c1"}, "or1") @@ Parents({"p3", "a1"}, "or2")
TernaryFormula == DOMAIN TernaryParents
TernaryConn ==
  ("pre" :> "AND") @@ Parents({"or1", "or2"}, "OR") @@ ("c1" :> "CALL") @@ ("a1" :> "ALLOC")
    @@ Parents({"p1", "p2", "p3"}, "PARAM")
TernaryIsPre == [f \in TernaryFormula |-> TRUE]
TernaryAnalyses == <<"p1", "p2", "c1", "p3", "a1">>
=============================================================================
