--------------------------- MODULE StaticResolution ---------------------------
(***************************************************************************)
(* What the static passes make of a contract: the verifiers decide its     *)
(* single operations (Passes/ContractVerifier*.cpp, each of them in one    *)
(* scope only), ContractPostProcess.cpp combines their verdicts along the  *)
(* formula and collects the code references of what is not fulfilled.      *)
(*                                                                         *)
(* The formulas of all contracts are numbered in the order in which the    *)
(* visitor of the contract language completes them, children before their  *)
(* parent.  A formula is a record: "kind" is the operation of a leaf or    *)
(* the connective, "children" the sequence of its subformulas' numbers,    *)
(* empty for a leaf.  A result is a status and the references of the error *)
(* information behind it.                                                  *)
(***************************************************************************)
EXTENDS Integers, FiniteSetsExt, SequencesExt

CONSTANT Formula   \* the formulas by number

Leaf     == {f \in DOMAIN Formula : Formula[f].children = <<>>}
Below(f) == Range(Formula[f].children)

ASSUME FormulaAssumption ==
  /\ Len(Formula) \in Nat /\ DOMAIN Formula = 1..Len(Formula)
  /\ \A f \in DOMAIN Formula : Formula[f].children \in Seq(1..(f - 1))
  /\ \A f \in DOMAIN Formula \ Leaf : Formula[f].kind \in {"OR", "XOR"}

Fulfillment == <<"FULFILLED", "UNKNOWN", "BROKEN">>
Severity(status) == CHOOSE i \in DOMAIN Fulfillment : Fulfillment[i] = status
Worst(statuses) == Fulfillment[Max({Severity(s) : s \in statuses})]
Best(statuses)  == Fulfillment[Min({Severity(s) : s \in statuses})]

Result(status, references) == [status |-> status, references |-> references]

linearizeContractFormula[f \in DOMAIN Formula] ==
  IF f \in Leaf THEN {f} ELSE UNION {linearizeContractFormula[c] : c \in Below(f)}

Linearized(scope) == UNION {linearizeContractFormula[f] : f \in Range(scope)}

(* The verifier passes by name: the scope whose expressions one visits and *)
(* the operations it decides.  Whatever no pass decides stays UNKNOWN.     *)
Decides(pass, scope, kind) ==
  CASE pass = "PreCall"  -> scope = "Pre"  /\ kind \in {"CALL", "CALLTAG"}
    [] pass = "PostCall" -> scope = "Post" /\ kind \in {"CALL", "CALLTAG"}
    [] pass = "Release"  -> scope = "Post" /\ kind = "RELEASE"
    [] pass = "Param"    -> scope = "Pre"  /\ kind = "PARAM"
    [] pass = "Alloc"    -> scope = "Pre"  /\ kind = "ALLOC"

(* Allocating and freeing are promises of a postcondition, taken as kept.  *)
Promised(scope, kind) == scope = "Post" /\ kind \in {"ALLOC", "FREE"}

-----------------------------------------------------------------------------
resolveXOR_first(sub) ==
  IF \E i \in DOMAIN sub : sub[i].status = "FULFILLED" THEN Result("FULFILLED", {})
  ELSE Result(Worst({sub[i].status : i \in DOMAIN sub}), UNION {sub[i].references : i \in DOMAIN sub})

(* The exclusive or looks at its children in order and stops at a second   *)
(* fulfilled or at an undetermined one.                                    *)
resolveXOR(sub) ==
  LET fulfilled == {i \in DOMAIN sub : sub[i].status = "FULFILLED"}
      stops     == {i \in DOMAIN sub : sub[i].status = "UNKNOWN" \/ \E j \in fulfilled : i \in fulfilled /\ j < i}
      first     == Min(stops)
  IN  IF stops = {}
      THEN IF fulfilled # {} THEN Result("FULFILLED", {})
           ELSE Result("BROKEN", UNION {sub[i].references : i \in DOMAIN sub})
      ELSE IF sub[first].status = "UNKNOWN" THEN Result("UNKNOWN", sub[first].references)
      ELSE Result("BROKEN", sub[Min(fulfilled)].references \cup sub[first].references)

resolveOR_first(sub) ==
  LET status == Best({sub[i].status : i \in DOMAIN sub})
  IN  Result(status, IF status = "FULFILLED" THEN {} ELSE sub[1].references)

resolveOR(sub) ==
  LET status == Best({sub[i].status : i \in DOMAIN sub})
  IN  Result(status, IF status = "FULFILLED" THEN {}
                     ELSE UNION {sub[i].references : i \in {j \in DOMAIN sub : sub[j].status # "FULFILLED"}})

(* leafs: the result of every leaf.                                        *)
Resolved(leafs) ==
  LET resolve[f \in DOMAIN Formula] ==
        LET sub == [i \in DOMAIN Formula[f].children |-> resolve[Formula[f].children[i]]]
        IN  IF f \in Leaf THEN leafs[f]
            ELSE IF Formula[f].kind = "OR" THEN resolveOR(sub) ELSE resolveXOR(sub)
  IN  resolve
resolveFormula(f, leafs) == Resolved(leafs)[f]

(* The status of the whole contract and what its report refers to.         *)
checkExpressions(contract, leafs) ==
  LET forms  == Range(contract.Pre) \cup Range(contract.Post)
      result == {resolveFormula(form, leafs) : form \in forms}
  IN  Result(Worst({"FULFILLED"} \cup {r.status : r \in result}),
             UNION {r.references : r \in {r \in result : r.status # "FULFILLED"}})

(* A contract with an expected outcome is a test of the tool: it is        *)
(* compared with that outcome and never reported.                          *)
Reported(contracts, leafs) ==
  UNION {checkExpressions(c, leafs).references : c \in {c \in contracts : c.xres = "UNKNOWN"}}

-----------------------------------------------------------------------------
(* The meaning of a formula when every operation either holds or not.      *)
Meaning(holding) ==
  LET holds[f \in DOMAIN Formula] ==
        LET true == {i \in DOMAIN Formula[f].children : holds[Formula[f].children[i]]}
        IN  IF f \in Leaf THEN f \in holding
            ELSE IF Formula[f].kind = "OR" THEN true # {} ELSE \E i \in true : true = {i}
  IN  holds
Holds(f, holding) == Meaning(holding)[f]

(* Whatever the undetermined operations turn out to be, a decided formula  *)
(* keeps its status; with nothing undetermined every formula is decided.   *)
Agrees(form, leafs) ==
  LET ids    == linearizeContractFormula[form]
      known  == {id \in ids : leafs[id].status = "FULFILLED"}
      open   == {id \in ids : leafs[id].status = "UNKNOWN"}
      status == resolveFormula(form, leafs).status
  IN  /\ status # "UNKNOWN" => \A more \in SUBSET open : Holds(form, known \cup more) <=> status = "FULFILLED"
      /\ open = {} => status # "UNKNOWN"

(* The leaf is to blame for a broken formula: repairing it alone would do. *)
ToBlame(form, leaf, leafs) ==
  /\ leafs[leaf].status = "BROKEN"
  /\ resolveFormula(form, leafs).status = "BROKEN"
  /\ resolveFormula(form, [leafs EXCEPT ![leaf] = Result("FULFILLED", {})]).status # "BROKEN"
=============================================================================
