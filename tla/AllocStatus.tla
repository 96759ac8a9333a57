------------------------------ MODULE AllocStatus ------------------------------
(***************************************************************************)
(* The information of the static verifier for alloc! preconditions         *)
(* (ContractVerifierAllocPass): which values of the IR count as allocated, *)
(* from which values they were copied, and how an instruction changes      *)
(* that.  C and C++ only: Fortran asks an alias analysis of LLVM instead.  *)
(*                                                                         *)
(* An instruction is a record: kind, the value it defines (for a store the *)
(* pointer it writes through, for free and use the argument), and the      *)
(* value it is made from.  "copy" stands for getelementptr.                *)
(***************************************************************************)
EXTENDS Naturals, FiniteSets, TLC

CONSTANTS
  IR,     \* name of an instruction -> [kind, value, from]
  Stack   \* values that are the address of a stack or global variable

Kinds == {"alloc", "free", "store", "load", "copy", "use"}
ASSUME IRAssumption == \A n \in DOMAIN IR : IR[n].kind \in Kinds

NoValue == "null"
IRValue == {IR[n].value : n \in DOMAIN IR} \cup {IR[n].from : n \in DOMAIN IR} \cup {NoValue}

(* The operand a load or getelementptr follows, in the forms the code asks *)
(* for it: of both, of a load only, of a getelementptr only.               *)
Operand(v, kinds) ==
  LET defs == {n \in DOMAIN IR : IR[n].value = v /\ IR[n].kind \in kinds}
  IN  IF defs = {} THEN NoValue ELSE IR[CHOOSE n \in defs : TRUE].from
getPointerOperand(v)          == Operand(v, {"load", "copy"})
getLoadStorePointerOperand(v) == Operand(v, {"load"})
SkipGEP(v) == IF Operand(v, {"copy"}) = NoValue THEN v ELSE Operand(v, {"copy"})

Base[v \in IRValue] == IF SkipGEP(v) = v THEN v ELSE Base[SkipGEP(v)]
isTrivialAlloc(v) == Base[v] \in Stack

(* Two values match if climbing both chains of operands in step meets.     *)
Aliases[s \in IRValue, t \in IRValue] ==
  /\ NoValue \notin {s, t}
  /\ \/ s = t
     \/ SkipGEP(s) = SkipGEP(t)
     \/ Aliases[getPointerOperand(SkipGEP(s)), getPointerOperand(SkipGEP(t))]

checkParamMatch(contrP, callP, acc) ==
  LET source == IF acc = "ADDROF" THEN getLoadStorePointerOperand(contrP) ELSE contrP
      target == IF acc = "DEREF" /\ getLoadStorePointerOperand(callP) # NoValue
                THEN getLoadStorePointerOperand(callP) ELSE callP
  IN  source = target \/ Aliases[source, target]

-----------------------------------------------------------------------------
(* The candidates: value -> parents, children and the access to match it   *)
(* with.  A second parent gets no link to its child.                       *)
NoCandidates == <<>>
Allocated(parents, acc) == [parents |-> parents, children |-> {}, acc |-> acc]

addAllocatedValue(c, v, acc) == (v :> Allocated({}, acc)) @@ c

addCopy(c, copy, parent, acc) ==
  IF copy \in DOMAIN c THEN [c EXCEPT ![copy].parents = @ \cup {parent}]
  ELSE (copy :> Allocated({parent}, acc)) @@ [c EXCEPT ![parent].children = @ \cup {copy}]

freeValue_alone(c, v) == [x \in DOMAIN c \ {v} |-> c[x]]   \* its copies stay allocated

(* Erases v and, from there, every child all of whose parents unlink it.   *)
freeValue(c, v) ==
  LET unlinked(x, erased) == {e \in erased : x \in c[e].children}
      Orphans(erased) == {x \in DOMAIN c : /\ unlinked(x, erased) # {}
                                           /\ c[x].parents \subseteq unlinked(x, erased)}
      closure[erased \in SUBSET DOMAIN c] ==
        IF Orphans(erased) \subseteq erased THEN erased ELSE closure[erased \cup Orphans(erased)]
      gone == closure[{v}]
  IN  IF v \notin DOMAIN c THEN c
      ELSE [x \in DOMAIN c \ gone |-> [c[x] EXCEPT !.parents = @ \ unlinked(x, gone)]]

(* this.intersect(other): what both know.                                  *)
intersect(this, other) ==
  [v \in DOMAIN this \cap DOMAIN other |->
     [parents  |-> this[v].parents \cap other[v].parents,
      children |-> this[v].children \cap other[v].children,
      acc      |-> this[v].acc]]

ALLOC == 0
UNDEF == 1
ERROR == 2

(* The first call of the supplier on a path settles its information.  What *)
(* is loaded from a stack variable counts as allocated.                    *)
transferAllocStat(cur, n) ==
  LET I == IR[n]
      c == cur.candidate
      Now(candidate) == [cur EXCEPT !.candidate = candidate]
      allocated == \/ isTrivialAlloc(I.value)
                   \/ \E v \in DOMAIN c : checkParamMatch(v, I.value, c[v].acc)
      follow == I.from \in DOMAIN c
  IN  IF cur.val # UNDEF THEN cur
      ELSE CASE I.kind = "alloc"                          -> Now(addAllocatedValue(c, I.value, "NORMAL"))
             [] I.kind = "free"                           -> Now(freeValue(c, I.value))
             [] I.kind = "use"                            -> [cur EXCEPT !.val = IF allocated THEN ALLOC ELSE ERROR]
             [] I.kind = "store" /\ follow                -> Now(addCopy(c, I.value, I.from, "ADDROF"))
             [] I.kind = "load" /\ isTrivialAlloc(I.from) -> Now(addAllocatedValue(c, I.value, "NORMAL"))
             [] follow /\ (I.kind = "copy" \/ (I.kind = "load" /\ ~isTrivialAlloc(I.from))) ->
                  Now(addCopy(c, I.value, I.from, c[I.from].acc))
             [] OTHER                                     -> cur
=============================================================================
