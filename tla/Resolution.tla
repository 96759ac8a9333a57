------------------------------ MODULE Resolution ------------------------------
(***************************************************************************)
(* The verdict engine of the dynamic analyser (Dynamic/Hooks.hpp).         *)
(*                                                                         *)
(* Every scope of a contract is a tree of formulas.  The analyses at its   *)
(* leaves come to a verdict one at a time, in callbacks or when the        *)
(* program exits; validateState then climbs from the leaf towards the root *)
(* for as long as each step decides the parent, and reports a root that    *)
(* becomes violated.  One call of validateState is one action here: the    *)
(* call it may end with is its last statement, so the pending call is all  *)
(* there is to remember ("frame").                                         *)
(***************************************************************************)
EXTENDS Naturals, Sequences

CONSTANTS
  Formula,          \* the formulas of every contract in the database
  NoFormula,        \* the null pointer among formulas
  formula_parents,  \* formula -> the formula it is a child of, or NoFormula
  conn,             \* formula -> its connective, or the operation of a leaf
  isPre,            \* formula -> does it belong to a precondition?
  all_analyses      \* the leaves that got an analysis, in creation order

Connective == {"AND", "OR", "XOR"}
Operation  == {"CALL", "PARAM", "ALLOC", "FREE", "RELEASE"}
Verdict    == {"FULFILLED", "VIOLATED", "INACTIVE"}
Absent     == "ABSENT"    \* no entry in contract_status

children == [f \in Formula |-> {c \in Formula : formula_parents[c] = f}]
Leaf == {f \in Formula : conn[f] \in Operation}
Root == {f \in Formula : formula_parents[f] = NoFormula}

(* The analysis recurseCreateAnalyses makes for a leaf: alloc! and free!   *)
(* in a postcondition only inform the analyses of preconditions.           *)
AnalysisOf(f) ==
  CASE conn[f] = "CALL"    -> IF isPre[f] THEN "PreCall" ELSE "PostCall"
    [] conn[f] = "RELEASE" -> IF isPre[f] THEN "None" ELSE "Release"
    [] conn[f] = "PARAM"   -> IF isPre[f] THEN "Param" ELSE "None"
    [] conn[f] = "ALLOC"   -> IF isPre[f] THEN "Alloc" ELSE "None"
    [] OTHER               -> "None"

(* What the callbacks of an analysis can conclude with, and what its       *)
(* exitCBImpl can.                                                         *)
RunVerdicts(a) ==
  CASE a \in {"PreCall", "Param"}  -> {"FULFILLED", "VIOLATED"}
    [] a \in {"Alloc", "Release"}  -> {"VIOLATED"}
    [] OTHER                       -> {}
ExitVerdicts(a) ==
  CASE a = "PreCall"  -> {"INACTIVE"}
    [] a = "PostCall" -> {"FULFILLED", "VIOLATED"}
    [] OTHER          -> {"FULFILLED"}

(* The databases Instrument.cpp emits: each scope is a conjunction at the  *)
(* root, connectives sit above operations only in their own scope, and     *)
(* every analysed leaf has one analysis.                                   *)
ASSUME TreeAssumption ==
  /\ NoFormula \notin Formula
  /\ formula_parents \in [Formula -> Formula \cup {NoFormula}]
  /\ conn \in [Formula -> Connective \cup Operation]
  /\ isPre \in [Formula -> BOOLEAN]
  /\ \A f \in Root : conn[f] = "AND"
  /\ \A f \in Formula \ Root : /\ conn[formula_parents[f]] \in Connective
                               /\ isPre[formula_parents[f]] = isPre[f]
ASSUME AnalysesAssumption ==
  /\ all_analyses \in Seq(Formula)
  /\ \A l \in Formula : (\E i \in 1..Len(all_analyses) : all_analyses[i] = l)
                          <=> (l \in Leaf /\ AnalysisOf(l) # "None")
  /\ \A i, j \in 1..Len(all_analyses) : all_analyses[i] = all_analyses[j] => i = j

(* Formulas are nested finitely deep: among any of them one is outermost,  *)
(* and one has none of the others as a child.                              *)
ASSUME NestingAssumption ==
  \A S \in SUBSET Formula : S # {} =>
    /\ \E f \in S : formula_parents[f] \notin S
    /\ \E f \in S : children[f] \cap S = {}

Analysed == {l \in Leaf : AnalysisOf(l) # "None"}

VARIABLES
  contract_status,      \* formula -> its verdict, or Absent
  analysis_references,  \* the leaves whose code references are recorded
  frame,                \* the argument of the running validateState, or NoFormula
  exit_pos,             \* 0 while the program runs, then the destructor's loop index
  reported,             \* root -> how often its violation was reported
  noted,                \* formula -> how often it was noted as a secondary issue
  bare                  \* leaves printed while their references were not recorded

vars == <<contract_status, analysis_references, frame, exit_pos, reported, noted, bare>>

Decided(f)   == contract_status[f] # Absent
Fulfilled(p) == {c \in children[p] : contract_status[c] = "FULFILLED"}
Several(S)   == \E a, b \in S : a # b

-----------------------------------------------------------------------------
(* recurseCreateErrorMsg has no message for a formula that is not          *)
(* violated, nor for an XOR of which one child, and no other, has none.    *)
Silent[f \in Formula] ==
  \/ contract_status[f] # "VIOLATED"
  \/ conn[f] = "XOR" /\ \E c \in children[f] : Silent[c] /\ \A d \in children[f] \ {c} : ~Silent[d]

(* What is printed for f: the formulas with a message that are reached     *)
(* through others.                                                         *)
Ancestors[f \in Formula] ==
  IF f \in Root THEN {} ELSE {formula_parents[f]} \cup Ancestors[formula_parents[f]]
Printed(f) ==
  {g \in Formula :
     /\ g = f \/ f \in Ancestors[g]
     /\ \A h \in {g} \cup Ancestors[g] : (h = f \/ f \in Ancestors[h]) => ~Silent[h]}
PrintedBare(f) == (Printed(f) \cap Leaf) \ analysis_references

Init ==
  /\ contract_status = [f \in Formula |-> Absent]
  /\ analysis_references = {}
  /\ frame = NoFormula
  /\ exit_pos = 0
  /\ reported = [f \in Formula |-> 0]
  /\ noted = [f \in Formula |-> 0]
  /\ bare = {}

(* A callback of the analysis at leaf l returned the verdict v.            *)
Conclude_unrecorded(l, v) ==
  /\ exit_pos = 0
  /\ frame = NoFormula
  /\ l \in Analysed
  /\ ~Decided(l)
  /\ v \in RunVerdicts(AnalysisOf(l))
  /\ contract_status' = [contract_status EXCEPT ![l] = v]
  /\ frame' = l
  /\ UNCHANGED <<analysis_references, exit_pos, reported, noted, bare>>
Conclude(l, v) ==
  /\ exit_pos = 0
  /\ frame = NoFormula
  /\ l \in Analysed
  /\ ~Decided(l)
  /\ v \in RunVerdicts(AnalysisOf(l))
  /\ contract_status' = [contract_status EXCEPT ![l] = v]
  /\ analysis_references' = analysis_references \cup {l}
  /\ frame' = l
  /\ UNCHANGED <<exit_pos, reported, noted, bare>>

-----------------------------------------------------------------------------
(* validateState(frame), one action per way it ends.                       *)
Parent == formula_parents[frame]
ParentDecided == frame \notin Root /\ Decided(Parent)
Triggers_violationsOnly == contract_status[frame] = "VIOLATED"
Triggers_unlessFulfilled ==
  contract_status[frame] = "FULFILLED" => frame \notin Root /\ conn[Parent] = "XOR"
Triggers ==
  \/ contract_status[frame] = "VIOLATED"
  \/ contract_status[frame] = "FULFILLED" /\ frame \notin Root /\ conn[Parent] = "XOR"

(* Plausible slips in validateState, each to be caught by a property.      *)
ParentAlreadyDecided_climbs ==
  /\ frame # NoFormula
  /\ ParentDecided
  /\ frame' = IF contract_status[frame] = "VIOLATED" THEN Parent ELSE NoFormula
  /\ UNCHANGED <<contract_status, analysis_references, exit_pos, reported, noted, bare>>
ParentAlreadyDecided_silent ==
  /\ frame # NoFormula
  /\ ParentDecided
  /\ frame' = NoFormula
  /\ UNCHANGED <<contract_status, analysis_references, exit_pos, reported, noted, bare>>

(* The parent is decided already: at most a note below a violated root.    *)
ParentAlreadyDecided ==
  /\ frame # NoFormula
  /\ ParentDecided
  /\ IF /\ contract_status[frame] = "VIOLATED"
        /\ contract_status[Parent] = "VIOLATED"
        /\ Parent \in Root
     THEN /\ noted' = [noted EXCEPT ![frame] = @ + 1]
          /\ bare' = bare \cup PrintedBare(frame)
     ELSE UNCHANGED <<noted, bare>>
  /\ frame' = NoFormula
  /\ UNCHANGED <<contract_status, analysis_references, exit_pos, reported>>

(* Nothing to propagate: a fulfilled formula matters to an XOR only.       *)
NothingToPropagate ==
  /\ frame # NoFormula
  /\ ~ParentDecided
  /\ ~Triggers
  /\ frame' = NoFormula
  /\ UNCHANGED <<contract_status, analysis_references, exit_pos, reported, noted, bare>>

ReportRoot ==
  /\ frame \in Root
  /\ contract_status[frame] = "VIOLATED"
  /\ reported' = [reported EXCEPT ![frame] = @ + 1]
  /\ bare' = bare \cup PrintedBare(frame)
  /\ frame' = NoFormula
  /\ UNCHANGED <<contract_status, analysis_references, exit_pos, noted>>

Outcome_openHasFailed(p) ==
  IF conn[p] = "AND"
  THEN IF \E c \in children[p] : contract_status[c] = "VIOLATED" THEN "VIOLATED" ELSE Absent
  ELSE IF Several(Fulfilled(p)) \/ Fulfilled(p) = {} THEN "VIOLATED"
  ELSE IF conn[p] = "OR" THEN "FULFILLED" ELSE Absent
Outcome_inclusive(p) ==
  IF conn[p] = "AND"
  THEN IF \E c \in children[p] : contract_status[c] = "VIOLATED" THEN "VIOLATED" ELSE Absent
  ELSE IF Fulfilled(p) # {} THEN IF conn[p] = "OR" THEN "FULFILLED" ELSE Absent
  ELSE IF \A c \in children[p] : Decided(c) THEN "VIOLATED" ELSE Absent

(* The status the switch over parent->conn leaves behind.  The case for OR *)
(* has no break and runs on into the one for XOR.                          *)
Outcome(p) ==
  LET undecided == \E c \in children[p] : ~Decided(c)
      none      == Fulfilled(p) = {}
      violated  == \E c \in children[p] : contract_status[c] = "VIOLATED"
  IN  IF conn[p] = "AND"
      THEN IF violated THEN "VIOLATED" ELSE Absent
      ELSE IF Several(Fulfilled(p)) \/ (~undecided /\ none) THEN "VIOLATED"
      ELSE IF conn[p] = "OR" /\ ~none THEN "FULFILLED" ELSE Absent

Propagate_once ==
  /\ frame \in Formula \ Root
  /\ ~ParentDecided
  /\ Triggers
  /\ contract_status' = [contract_status EXCEPT ![Parent] = Outcome(Parent)]
  /\ frame' = NoFormula
  /\ UNCHANGED <<analysis_references, exit_pos, reported, noted, bare>>

Propagate ==
  /\ frame \in Formula \ Root
  /\ ~ParentDecided
  /\ Triggers
  /\ contract_status' = [contract_status EXCEPT ![Parent] = Outcome(Parent)]
  /\ frame' = IF Outcome(Parent) = "VIOLATED" THEN Parent ELSE NoFormula
  /\ UNCHANGED <<analysis_references, exit_pos, reported, noted, bare>>

-----------------------------------------------------------------------------
(* PPDCV_destructor, registered with atexit.  An analysis without verdict  *)
(* gets one; its references are recorded only after validateState has      *)
(* returned.  For the others ExitAdvance records nothing new.              *)
ExitLeaf == all_analyses[exit_pos]

StartExit_late ==
  /\ exit_pos = 0
  /\ frame = NoFormula
  /\ exit_pos' = 2
  /\ UNCHANGED <<contract_status, analysis_references, frame, reported, noted, bare>>
StartExit ==
  /\ exit_pos = 0
  /\ frame = NoFormula
  /\ exit_pos' = 1
  /\ UNCHANGED <<contract_status, analysis_references, frame, reported, noted, bare>>

ExitConclude_again(v) ==
  /\ exit_pos \in 1..Len(all_analyses)
  /\ frame = NoFormula
  /\ v \in ExitVerdicts(AnalysisOf(ExitLeaf))
  /\ contract_status' = [contract_status EXCEPT ![ExitLeaf] = v]
  /\ frame' = ExitLeaf
  /\ UNCHANGED <<analysis_references, exit_pos, reported, noted, bare>>

ExitConclude(v) ==
  /\ exit_pos \in 1..Len(all_analyses)
  /\ frame = NoFormula
  /\ ~Decided(ExitLeaf)
  /\ v \in ExitVerdicts(AnalysisOf(ExitLeaf))
  /\ contract_status' = [contract_status EXCEPT ![ExitLeaf] = v]
  /\ frame' = ExitLeaf
  /\ UNCHANGED <<analysis_references, exit_pos, reported, noted, bare>>

ExitAdvance ==
  /\ exit_pos \in 1..Len(all_analyses)
  /\ frame = NoFormula
  /\ Decided(ExitLeaf)
  /\ analysis_references' = analysis_references \cup {ExitLeaf}
  /\ exit_pos' = exit_pos + 1
  /\ UNCHANGED <<contract_status, frame, reported, noted, bare>>

Done == exit_pos = Len(all_analyses) + 1 /\ frame = NoFormula

Terminated == Done /\ UNCHANGED vars

ValidateState == ParentAlreadyDecided \/ NothingToPropagate \/ ReportRoot \/ Propagate

Next ==
  \/ \E l \in Leaf, v \in Verdict : Conclude(l, v)
  \/ ValidateState
  \/ StartExit
  \/ \E v \in Verdict : ExitConclude(v)
  \/ ExitAdvance
  \/ Terminated

Spec == Init /\ [][Next]_vars

(* validateState and the destructor are sequential code that runs to its   *)
(* end; whether and when the program itself exits is left open.            *)
Fairness == WF_vars(ValidateState) /\ WF_vars(\E v \in Verdict : ExitConclude(v))
              /\ WF_vars(ExitAdvance)
FairSpec == Spec /\ Fairness
-----------------------------------------------------------------------------
TypeOK ==
  /\ contract_status \in [Formula -> Verdict \cup {Absent}]
  /\ analysis_references \subseteq Leaf
  /\ frame \in Formula \cup {NoFormula}
  /\ exit_pos \in 0..(Len(all_analyses) + 1)
  /\ reported \in [Formula -> 0..1]
  /\ noted \in [Formula -> 0..1]
  /\ bare \subseteq Leaf

(* Shape of the database.  With three alternatives in a disjunction, or a  *)
(* connective below an exclusive or, the engine does not compute the       *)
(* connectives it names: the runs on those databases show it.              *)
BinaryDisjunctions ==
  \A p \in Formula : conn[p] = "OR" =>
    \A a, b, c \in children[p] : a = b \/ b = c \/ a = c
ExclusiveOverLeaves ==
  \A f \in Formula \ Root : conn[formula_parents[f]] = "XOR" => f \in Leaf

(* A disjunction or an exclusive or is of something; and one of a call in  *)
(* a precondition with something else is of operations only.               *)
HasAlternatives == \A p \in Formula : conn[p] \in {"OR", "XOR"} => children[p] # {}
CallsAmongLeaves ==
  \A p \in Formula : /\ conn[p] = "OR" /\ isPre[p]
                     /\ \E c \in children[p] : conn[c] = "CALL"
                     => children[p] \subseteq Leaf
MonitorShape == BinaryDisjunctions /\ ExclusiveOverLeaves /\ HasAlternatives /\ CallsAmongLeaves

AllIn(p, S) == \A c \in children[p] : contract_status[c] \in S
(* What it takes for an inner formula to be broken, given its children and *)
(* the verdicts that count as a failed alternative.                        *)
Broken(p, failed) ==
  CASE conn[p] = "AND" -> \E c \in children[p] : contract_status[c] = "VIOLATED"
    [] conn[p] = "OR"  -> AllIn(p, failed)
    [] conn[p] = "XOR" -> Several(Fulfilled(p)) \/ AllIn(p, failed)
    [] OTHER           -> FALSE

(* An inner formula is marked violated only when its children break it, in *)
(* whatever order their verdicts arrived; an alternative that is still     *)
(* undecided is never counted as a failed one.                             *)
Sound ==
  \A p \in Formula \ Leaf :
    contract_status[p] = "VIOLATED" => Broken(p, {"VIOLATED", "INACTIVE"})

(* Once validateState has returned, no broken formula is left unmarked:    *)
(* no early return of the climb loses a violation.                         *)
Complete ==
  frame = NoFormula =>
    \A p \in Formula \ Leaf :
      children[p] # {} /\ Broken(p, {"VIOLATED"}) => contract_status[p] = "VIOLATED"

(* Every violated contract scope is reported, exactly once, by the time    *)
(* the callback that broke it returns; nothing else is reported.           *)
ReportedExactlyOnce ==
  frame = NoFormula =>
    \A f \in Formula : reported[f] = IF f \in Root /\ contract_status[f] = "VIOLATED" THEN 1 ELSE 0

(* Of the violated requirements at the top of a violated scope exactly one *)
(* is the reported cause, and each later one is noted as a possible        *)
(* secondary issue exactly once.                                           *)
SecondaryNoted ==
  frame = NoFormula =>
    \A r \in Root : contract_status[r] = "VIOLATED" =>
      \E c \in children[r] :
        /\ contract_status[c] = "VIOLATED" /\ noted[c] = 0
        /\ \A d \in children[r] \ {c} : noted[d] = IF contract_status[d] = "VIOLATED" THEN 1 ELSE 0

(* A verdict is final: neither a later callback nor the destructor changes *)
(* what was concluded about an operation or a composite.                   *)
VerdictsAreFinal ==
  [][\A f \in Formula : Decided(f) => contract_status'[f] = contract_status[f]]_vars

(* Once the program exits, the destructor gets through every analysis: all *)
(* of them end with a verdict.                                             *)
ExitCompletes == exit_pos > 0 ~> (Done /\ \A l \in Analysed : Decided(l))

(* A report carries the references of all the analyses it is about, but    *)
(* for those that got their verdict from the destructor, which prints      *)
(* before it records: a report made while the program runs misses none,    *)
(* even if it blames verdicts of other calls, long before.                 *)
OnlyExitMissesReferences ==
  \A l \in bare : \E i \in DOMAIN all_analyses : i <= exit_pos /\ all_analyses[i] = l

(* Usage.md: "for a disjunction, use |".                                   *)
DisjunctionNeedsOne ==
  \A p \in Formula : conn[p] = "OR" /\ contract_status[p] = "VIOLATED" => Fulfilled(p) = {}
-----------------------------------------------------------------------------
(* The engine implements the monitor: the leaves' entries are the observed *)
(* verdicts, and a scope is violated once it has been reported.            *)
Monitor ==
  INSTANCE ContractMonitor WITH
    Observable <- Leaf,
    verdict    <- [l \in Leaf |-> contract_status[l]],
    violated   <- {r \in Root : reported[r] > 0},
    closed     <- Done

(* validateState, interrupted between no two callbacks, reports exactly    *)
(* what the monitor would, when it would.                                  *)
ImplementsMonitor == Monitor!MSpec
=============================================================================
