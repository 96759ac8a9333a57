--------------------------- MODULE ResolutionProofs ---------------------------
(***************************************************************************)
(* Theorems about the verdict engine, for every contract database.         *)
(*                                                                         *)
(* IInv is the inductive invariant behind type correctness and reporting;  *)
(* the soundness and the completeness of the climb, and the refinement of  *)
(* the monitor, each add a part of their own to it.                        *)
(***************************************************************************)
EXTENDS Resolution, TLAPS

Types ==
  /\ contract_status \in [Formula -> Verdict \cup {Absent}]
  /\ analysis_references \subseteq Leaf
  /\ frame \in Formula \cup {NoFormula}
  /\ exit_pos \in 0..(Len(all_analyses) + 1)
  /\ reported \in [Formula -> Nat]
  /\ noted \in [Formula -> Nat]
  /\ bare \subseteq Leaf

(* validateState runs on decided formulas, and climbs to violated ones.    *)
FrameDecided ==
  frame # NoFormula => /\ Decided(frame)
                       /\ frame \in Leaf \/ contract_status[frame] = "VIOLATED"

(* An inner formula is only ever marked violated, or fulfilled as an OR.   *)
InnerStatus ==
  \A p \in Formula \ Leaf :
    \/ contract_status[p] \in {"VIOLATED", Absent}
    \/ contract_status[p] = "FULFILLED" /\ conn[p] = "OR" /\ Fulfilled(p) # {}

ReportCount ==
  \A f \in Formula :
    reported[f] = IF f \in Root /\ contract_status[f] = "VIOLATED" /\ frame # f THEN 1 ELSE 0

NoteCount ==
  \A f \in Formula :
    \/ noted[f] = 0
    \/ noted[f] = 1 /\ contract_status[f] = "VIOLATED" /\ frame # f

(* A violated child leaves its AND undecided only while it is climbing.    *)
AndClimbs ==
  \A c \in Formula \ Root :
    /\ conn[formula_parents[c]] = "AND"
    /\ contract_status[c] = "VIOLATED"
    /\ contract_status[formula_parents[c]] # "VIOLATED"
    => c = frame

(* One violated child is the cause of a violated root; each of the others  *)
(* has been noted or is about to be.                                       *)
RootCause ==
  \A r \in Root : contract_status[r] = "VIOLATED" =>
    \E c \in children[r] :
      /\ contract_status[c] = "VIOLATED" /\ noted[c] = 0 /\ c # frame
      /\ \A d \in children[r] \ {c} :
           contract_status[d] = "VIOLATED" => noted[d] = 1 \/ d = frame

IInv == Types /\ FrameDecided /\ InnerStatus /\ ReportCount /\ NoteCount /\ AndClimbs /\ RootCause

-----------------------------------------------------------------------------
(* Facts about the tree that every step uses.                              *)
LEMMA TreeFacts ==
  /\ NoFormula \notin Formula
  /\ \A f \in Formula \ Root : /\ formula_parents[f] \in Formula \ Leaf
                               /\ f \in children[formula_parents[f]]
                               /\ isPre[formula_parents[f]] = isPre[f]
  /\ \A f \in Root : f \in Formula \ Leaf /\ conn[f] = "AND"
  /\ \A p \in Formula : \A c \in children[p] : c \in Formula \ Root /\ formula_parents[c] = p
  /\ \A p \in Formula \ Leaf : conn[p] \in Connective
<1> USE TreeAssumption
<1>1. NoFormula \notin Formula
  OBVIOUS
<1>2. ASSUME NEW f \in Formula \ Root
      PROVE  /\ formula_parents[f] \in Formula \ Leaf
             /\ f \in children[formula_parents[f]]
             /\ isPre[formula_parents[f]] = isPre[f]
  <2>1. formula_parents[f] \in Formula /\ conn[formula_parents[f]] \in Connective
    BY DEF Root
  <2>2. Connective \cap Operation = {}
    BY DEF Connective, Operation
  <2>3. QED
    BY <2>1, <2>2 DEF Leaf, children
<1>3. ASSUME NEW f \in Root
      PROVE  f \in Formula \ Leaf /\ conn[f] = "AND"
  BY DEF Root, Leaf, Operation
<1>4. ASSUME NEW p \in Formula, NEW c \in children[p]
      PROVE  c \in Formula \ Root /\ formula_parents[c] = p
  BY DEF Root, children
<1>5. ASSUME NEW p \in Formula \ Leaf
      PROVE  conn[p] \in Connective
  BY DEF Leaf
<1>6. QED
  BY <1>1, <1>2, <1>3, <1>4, <1>5

(* The analysis the destructor is at belongs to an operation.              *)
LEMMA ExitLeafFacts ==
  ASSUME exit_pos \in 1..Len(all_analyses)
  PROVE  ExitLeaf \in Leaf
BY AnalysesAssumption DEF ExitLeaf

(* The two ways a leaf gets its verdict have the same effect on the tree.  *)
LeafDecided(l, v) ==
  /\ frame = NoFormula
  /\ l \in Leaf
  /\ ~Decided(l)
  /\ v \in Verdict
  /\ contract_status' = [contract_status EXCEPT ![l] = v]
  /\ frame' = l
  /\ analysis_references' \subseteq analysis_references \cup {l}
  /\ UNCHANGED <<exit_pos, reported, noted, bare>>

(* A verdict of a callback enters the status and the frame.                *)
LEMMA ConcludeDecides ==
  ASSUME NEW l \in Leaf, NEW v \in Verdict, Conclude(l, v)
  PROVE  LeafDecided(l, v)
BY DEF Conclude, LeafDecided

(* So does a verdict of the destructor.                                    *)
LEMMA ExitConcludeDecides ==
  ASSUME NEW v \in Verdict, ExitConclude(v)
  PROVE  LeafDecided(ExitLeaf, v)
BY ExitLeafFacts DEF ExitConclude, LeafDecided

(* Every step, seen from the tree: a leaf is decided, the climb goes on,   *)
(* or statuses and frame are left as they are.                             *)
Idle == UNCHANGED <<contract_status, frame, reported, noted, bare>>

(* The kinds of steps, as the invariants need to tell them apart.          *)
LEMMA StepCases ==
  ASSUME Types, [Next]_vars
  PROVE  \/ \E l \in Leaf, v \in Verdict : LeafDecided(l, v)
         \/ ParentAlreadyDecided \/ NothingToPropagate \/ ReportRoot \/ Propagate
         \/ Idle
<1>1. CASE \E l \in Leaf, v \in Verdict : Conclude(l, v)
  BY <1>1, ConcludeDecides
<1>2. CASE \E v \in Verdict : ExitConclude(v)
  <2>1. PICK v \in Verdict : ExitConclude(v)
    BY <1>2
  <2>2. ExitLeaf \in Leaf
    BY <2>1, ExitLeafFacts DEF ExitConclude
  <2>3. QED
    BY <2>1, <2>2, ExitConcludeDecides
<1>3. CASE StartExit \/ ExitAdvance \/ Terminated \/ UNCHANGED vars
  BY <1>3 DEF StartExit, ExitAdvance, Terminated, vars, Idle
<1>4. QED
  BY <1>1, <1>2, <1>3 DEF Next, ValidateState

-----------------------------------------------------------------------------
(* Every step keeps the types.                                             *)
LEMMA TypesStep ==
  ASSUME Types, [Next]_vars
  PROVE  Types'
<1> USE TreeFacts DEF Types
<1>1. CASE \E l \in Leaf, v \in Verdict : Conclude(l, v)
  BY <1>1 DEF Conclude, Leaf
<1>2. CASE \E v \in Verdict : ExitConclude(v)
  BY <1>2, ExitLeafFacts DEF ExitConclude, Leaf
<1>3. CASE ParentAlreadyDecided
  <2>1. frame \in Formula /\ PrintedBare(frame) \subseteq Leaf
    BY <1>3 DEF ParentAlreadyDecided, PrintedBare
  <2>2. bare' \subseteq Leaf
    BY <1>3, <2>1 DEF ParentAlreadyDecided
  <2>3. noted' \in [Formula -> Nat]
    <3>1. noted' = [noted EXCEPT ![frame] = noted[frame] + 1] \/ noted' = noted
      BY <1>3 DEF ParentAlreadyDecided
    <3>2. noted[frame] + 1 \in Nat
      BY <2>1
    <3>3. QED
      BY <2>1, <3>1, <3>2
  <2>4. QED
    BY <1>3, <2>2, <2>3 DEF ParentAlreadyDecided
<1>4. CASE NothingToPropagate
  BY <1>4 DEF NothingToPropagate
<1>5. CASE ReportRoot
  BY <1>5 DEF ReportRoot, PrintedBare, Root
<1>6. CASE Propagate
  <2>1. Parent \in Formula
    BY <1>6 DEF Propagate, Parent
  <2>2. Outcome(Parent) \in Verdict \cup {Absent}
    BY DEF Outcome, Verdict, Absent
  <2>3. QED
    BY <1>6, <2>1, <2>2 DEF Propagate
<1>7. CASE StartExit
  BY <1>7, AnalysesAssumption DEF StartExit
<1>8. CASE ExitAdvance
  BY <1>8, ExitLeafFacts, AnalysesAssumption DEF ExitAdvance
<1>9. CASE Terminated \/ UNCHANGED vars
  BY <1>9 DEF Terminated, vars
<1>10. QED
  BY <1>1, <1>2, <1>3, <1>4, <1>5, <1>6, <1>7, <1>8, <1>9 DEF Next, ValidateState

(* No step overwrites a verdict.                                           *)
LEMMA FinalStep ==
  ASSUME Types, [Next]_vars
  PROVE  \A f \in Formula : Decided(f) => contract_status'[f] = contract_status[f]
<1> USE DEF Types, Decided
<1>1. ASSUME NEW l \in Leaf, NEW v \in Verdict, LeafDecided(l, v)
      PROVE  \A f \in Formula : Decided(f) => contract_status'[f] = contract_status[f]
  BY <1>1 DEF LeafDecided, Leaf
<1>2. CASE Propagate
  BY <1>2, TreeFacts DEF Propagate, Parent, ParentDecided
<1>3. CASE ParentAlreadyDecided \/ NothingToPropagate \/ ReportRoot \/ Idle
  BY <1>3 DEF ParentAlreadyDecided, NothingToPropagate, ReportRoot, Idle
<1>4. QED
  BY <1>1, <1>2, <1>3, StepCases

(* Every step puts only decided formulas into the frame.                   *)
LEMMA FrameDecidedStep ==
  ASSUME IInv, [Next]_vars
  PROVE  FrameDecided'
<1> USE DEF IInv, Types, FrameDecided, Decided
<1>1. ASSUME NEW l \in Leaf, NEW v \in Verdict, LeafDecided(l, v)
      PROVE  FrameDecided'
  <2>1. contract_status'[l] = v /\ v # Absent
    BY <1>1 DEF LeafDecided, Leaf, Verdict, Absent
  <2>2. QED
    BY <1>1, <2>1 DEF LeafDecided
<1>2. CASE Propagate
  <2>1. Parent \in Formula /\ contract_status'[Parent] = Outcome(Parent)
    BY <1>2, TreeFacts DEF Propagate, Parent
  <2>2. QED
    BY <1>2, <2>1 DEF Propagate, Absent
<1>3. CASE ParentAlreadyDecided \/ NothingToPropagate \/ ReportRoot \/ Idle
  BY <1>3 DEF ParentAlreadyDecided, NothingToPropagate, ReportRoot, Idle
<1>4. QED
  BY <1>1, <1>2, <1>3, StepCases

(* What Propagate knows about the formulas it works on.                    *)
LEMMA PropagateFacts ==
  ASSUME IInv, Propagate
  PROVE  /\ frame \in Formula \ Root
         /\ Parent \in Formula \ Leaf
         /\ frame \in children[Parent]
         /\ contract_status[Parent] = Absent
         /\ contract_status[frame] \in {"VIOLATED", "FULFILLED"}
         /\ contract_status[frame] = "FULFILLED" => conn[Parent] = "XOR"
         /\ contract_status' = [contract_status EXCEPT ![Parent] = Outcome(Parent)]
BY TreeFacts DEF Propagate, Parent, ParentDecided, Decided, Triggers

(* What the switch of validateState can result in.                         *)
LEMMA OutcomeFacts ==
  ASSUME NEW p \in Formula
  PROVE  /\ Outcome(p) \in {"VIOLATED", "FULFILLED", Absent}
         /\ Outcome(p) = "FULFILLED" => conn[p] = "OR" /\ Fulfilled(p) # {}
BY DEF Outcome, Absent

(* Every step keeps the restricted verdicts of inner formulas.             *)
LEMMA InnerStatusStep ==
  ASSUME IInv, [Next]_vars
  PROVE  InnerStatus'
<1> USE DEF IInv, InnerStatus
<1> SUFFICES ASSUME NEW p \in Formula \ Leaf
             PROVE  \/ contract_status'[p] \in {"VIOLATED", Absent}
                    \/ contract_status'[p] = "FULFILLED" /\ conn[p] = "OR" /\ Fulfilled(p)' # {}
  OBVIOUS
<1>1. Fulfilled(p) # {} => Fulfilled(p)' # {}
  BY FinalStep, TreeFacts DEF Fulfilled, Decided, Absent
<1>2. ASSUME NEW l \in Leaf, NEW v \in Verdict, LeafDecided(l, v)
      PROVE  contract_status'[p] = contract_status[p]
  BY <1>2 DEF LeafDecided, Types
<1>3. CASE Propagate
  <2>1. CASE p = Parent
    BY <1>1, <1>3, <2>1, PropagateFacts, OutcomeFacts DEF Types
  <2>2. CASE p # Parent
    BY <1>1, <1>3, <2>2, PropagateFacts DEF Types
  <2>3. QED
    BY <2>1, <2>2
<1>4. CASE ParentAlreadyDecided \/ NothingToPropagate \/ ReportRoot \/ Idle
  BY <1>1, <1>4 DEF ParentAlreadyDecided, NothingToPropagate, ReportRoot, Idle
<1>5. QED
  BY <1>1, <1>2, <1>3, <1>4, StepCases

(* Every step keeps the count of the reports.                              *)
LEMMA ReportCountStep ==
  ASSUME IInv, [Next]_vars
  PROVE  ReportCount'
<1> USE DEF IInv, Types, ReportCount
<1> SUFFICES ASSUME NEW f \in Formula
             PROVE  reported'[f] = IF f \in Root /\ contract_status'[f] = "VIOLATED" /\ frame' # f
                                   THEN 1 ELSE 0
  OBVIOUS
<1>1. ASSUME NEW l \in Leaf, NEW v \in Verdict, LeafDecided(l, v)
      PROVE  ReportCount'
  BY <1>1, TreeFacts DEF LeafDecided
<1>2. CASE Propagate
  <2>1. reported' = reported /\ frame \notin Root /\ (f # Parent => contract_status'[f] = contract_status[f])
    BY <1>2, PropagateFacts DEF Propagate
  <2>2. CASE f = Parent
    BY <1>2, <2>1, <2>2, PropagateFacts DEF Propagate, Absent
  <2>3. CASE f # Parent
    BY <1>2, <2>1, <2>3, TreeFacts DEF Propagate
  <2>4. QED
    BY <2>2, <2>3
<1>3. CASE ReportRoot
  BY <1>3, TreeFacts DEF ReportRoot
<1>4. CASE ParentAlreadyDecided
  BY <1>4, TreeFacts DEF ParentAlreadyDecided, ParentDecided
<1>5. CASE NothingToPropagate
  BY <1>5, TreeFacts DEF NothingToPropagate, Triggers
<1>6. CASE Idle
  BY <1>6 DEF Idle
<1>7. QED
  BY <1>1, <1>2, <1>3, <1>4, <1>5, <1>6, StepCases

(* Every step keeps the count of the notes.                                *)
LEMMA NoteCountStep ==
  ASSUME IInv, [Next]_vars
  PROVE  NoteCount'
<1> USE DEF IInv, Types, NoteCount
<1> SUFFICES ASSUME NEW f \in Formula
             PROVE  \/ noted'[f] = 0
                    \/ noted'[f] = 1 /\ contract_status'[f] = "VIOLATED" /\ frame' # f
  OBVIOUS
<1>1. ASSUME NEW l \in Leaf, NEW v \in Verdict, LeafDecided(l, v)
      PROVE  NoteCount'
  BY <1>1 DEF LeafDecided, Decided, Absent, Leaf
<1>2. CASE Propagate
  <2>1. noted' = noted /\ frame' \in {Parent, NoFormula}
    BY <1>2 DEF Propagate
  <2>2. noted[f] = 1 => f # Parent
    BY <1>2, PropagateFacts DEF Absent
  <2>3. f # Parent => contract_status'[f] = contract_status[f]
    BY <1>2, PropagateFacts
  <2>4. QED
    BY <2>1, <2>2, <2>3, TreeFacts
<1>3. CASE ReportRoot \/ NothingToPropagate \/ Idle
  BY <1>3, TreeFacts DEF ReportRoot, NothingToPropagate, Idle
<1>4. CASE ParentAlreadyDecided
  <2>1. contract_status' = contract_status /\ frame' = NoFormula /\ frame \in Formula
    BY <1>4 DEF ParentAlreadyDecided
  <2>2. noted[frame] = 0
    BY <2>1
  <2>3. \/ noted' = noted
        \/ noted' = [noted EXCEPT ![frame] = noted[frame] + 1] /\ contract_status[frame] = "VIOLATED"
    BY <1>4 DEF ParentAlreadyDecided
  <2>4. QED
    BY <2>1, <2>2, <2>3, TreeFacts
<1>5. QED
  BY <1>1, <1>2, <1>3, <1>4, StepCases

(* Every step keeps the climb through conjunctions complete.               *)
LEMMA AndClimbsStep ==
  ASSUME IInv, [Next]_vars
  PROVE  AndClimbs'
<1> USE DEF IInv, Types, AndClimbs
<1> SUFFICES ASSUME NEW c \in Formula \ Root,
                    conn[formula_parents[c]] = "AND",
                    contract_status'[c] = "VIOLATED",
                    contract_status'[formula_parents[c]] # "VIOLATED"
             PROVE  c = frame'
  OBVIOUS
<1>1. contract_status[formula_parents[c]] # "VIOLATED"
  BY FinalStep, TreeFacts DEF Decided, Absent
<1>2. ASSUME NEW l \in Leaf, NEW v \in Verdict, LeafDecided(l, v)
      PROVE  c = frame'
  BY <1>1, <1>2, TreeFacts DEF LeafDecided
<1>3. CASE Propagate
  <2>1. CASE c = Parent
    <3>1. Outcome(Parent) = "VIOLATED"
      BY <1>3, <2>1, PropagateFacts
    <3>2. QED
      BY <1>3, <2>1, <3>1 DEF Propagate
  <2>2. CASE c # Parent
    <3>1. c = frame
      BY <1>1, <1>3, <2>2, PropagateFacts
    <3>2. Outcome(Parent) = "VIOLATED"
      BY <1>1, <1>3, <2>2, <3>1, PropagateFacts DEF Outcome, Parent
    <3>3. QED
      BY <1>3, <3>1, <3>2, PropagateFacts DEF Parent
  <2>3. QED
    BY <2>1, <2>2
<1>4. CASE ParentAlreadyDecided
  <2>1. c = frame /\ contract_status' = contract_status
    BY <1>1, <1>4 DEF ParentAlreadyDecided
  <2>2. Decided(formula_parents[c])
    BY <1>4, <2>1 DEF ParentAlreadyDecided, ParentDecided, Parent
  <2>3. formula_parents[c] \in Formula \ Leaf
    BY TreeFacts
  <2>4. contract_status[formula_parents[c]] \in {"VIOLATED", Absent}
    BY <2>3 DEF InnerStatus
  <2>5. QED
    BY <1>1, <2>2, <2>4 DEF Decided
<1>5. CASE ReportRoot \/ NothingToPropagate \/ Idle
  BY <1>1, <1>5 DEF ReportRoot, NothingToPropagate, Idle, Triggers
<1>6. QED
  BY <1>2, <1>3, <1>4, <1>5, StepCases

(* Every step keeps one cause below a violated root.                       *)
LEMMA RootCauseStep ==
  ASSUME IInv, [Next]_vars
  PROVE  RootCause'
<1> USE DEF IInv, Types
<1> SUFFICES ASSUME NEW r \in Root, contract_status'[r] = "VIOLATED"
             PROVE  \E c \in children[r] :
                      /\ contract_status'[c] = "VIOLATED" /\ noted'[c] = 0 /\ c # frame'
                      /\ \A d \in children[r] \ {c} :
                           contract_status'[d] = "VIOLATED" => noted'[d] = 1 \/ d = frame'
  BY DEF RootCause
<1>r. r \in Formula \ Leaf /\ conn[r] = "AND" /\ children[r] \subseteq Formula \ Root
      /\ \A c \in children[r] : formula_parents[c] = r
  BY TreeFacts
<1>1. ASSUME NEW l \in Leaf, NEW v \in Verdict, LeafDecided(l, v)
      PROVE  RootCause'
  <2> SUFFICES ASSUME NEW q \in Root, contract_status'[q] = "VIOLATED"
               PROVE  \E c \in children[q] :
                        /\ contract_status'[c] = "VIOLATED" /\ noted'[c] = 0 /\ c # frame'
                        /\ \A d \in children[q] \ {c} :
                             contract_status'[d] = "VIOLATED" => noted'[d] = 1 \/ d = frame'
    BY DEF RootCause
  <2>1. q \in Formula \ Leaf /\ children[q] \subseteq Formula
    BY TreeFacts
  <2>2. contract_status[q] = "VIOLATED" /\ \A d \in children[q] : d # l => contract_status'[d] = contract_status[d]
    BY <1>1, <2>1 DEF LeafDecided
  <2>3. PICK c \in children[q] :
          /\ contract_status[c] = "VIOLATED" /\ noted[c] = 0 /\ c # frame
          /\ \A d \in children[q] \ {c} : contract_status[d] = "VIOLATED" => noted[d] = 1 \/ d = frame
    BY <2>2 DEF RootCause
  <2>4. c # l
    BY <1>1, <2>3 DEF LeafDecided, Decided, Absent
  <2>5. ASSUME NEW d \in children[q] \ {c}, contract_status'[d] = "VIOLATED"
        PROVE  noted'[d] = 1 \/ d = frame'
    <3>1. frame = NoFormula /\ frame' = l /\ noted' = noted
      BY <1>1 DEF LeafDecided
    <3>2. d # frame
      BY <2>1, <3>1, TreeFacts
    <3>3. QED
      BY <2>2, <2>3, <2>5, <3>1, <3>2
  <2>6. QED
    BY <1>1, <2>2, <2>3, <2>4, <2>5 DEF LeafDecided
<1>2. CASE Propagate
  <2>1. CASE r = Parent
    <3>1. contract_status[frame] = "VIOLATED" /\ frame \in children[r] /\ noted[frame] = 0
      BY <1>2, <1>r, <2>1, PropagateFacts DEF NoteCount
    <3>2. frame' # frame /\ noted' = noted
      BY <1>2, <1>r, <2>1, <3>1, TreeFacts DEF Propagate
    <3>3. ASSUME NEW d \in children[r] \ {frame}
          PROVE  contract_status'[d] # "VIOLATED"
      BY <1>2, <1>r, <2>1, PropagateFacts DEF AndClimbs, Absent
    <3>4. contract_status'[frame] = "VIOLATED"
      BY <1>2, <2>1, <3>1, PropagateFacts, FinalStep DEF Decided, Absent
    <3>5. QED
      BY <3>1, <3>2, <3>3, <3>4
  <2>2. CASE r # Parent
    <3>1. contract_status[r] = "VIOLATED"
      BY <1>2, <1>r, <2>2, PropagateFacts
    <3>2. PICK c \in children[r] :
            /\ contract_status[c] = "VIOLATED" /\ noted[c] = 0 /\ c # frame
            /\ \A d \in children[r] \ {c} : contract_status[d] = "VIOLATED" => noted[d] = 1 \/ d = frame
      BY <3>1 DEF RootCause
    <3>3. frame \notin children[r]
      BY <1>2, <1>r, <2>2, PropagateFacts DEF Parent
    <3>4. c # Parent /\ contract_status'[c] = "VIOLATED" /\ noted' = noted /\ c # frame'
      BY <1>2, <1>r, <3>2, PropagateFacts, TreeFacts DEF Propagate, Absent
    <3>5. ASSUME NEW d \in children[r] \ {c}, contract_status'[d] = "VIOLATED"
          PROVE  noted'[d] = 1 \/ d = frame'
      <4>1. CASE d = Parent
        BY <1>2, <1>r, <3>5, <4>1, PropagateFacts DEF Propagate
      <4>2. CASE d # Parent
        BY <1>2, <1>r, <3>2, <3>3, <3>4, <3>5, <4>2, PropagateFacts
      <4>3. QED
        BY <4>1, <4>2
    <3>6. QED
      BY <3>2, <3>4, <3>5
  <2>3. QED
    BY <2>1, <2>2
<1>3. CASE ParentAlreadyDecided
  <2>1. contract_status' = contract_status /\ frame' = NoFormula /\ frame \in Formula \ Root
    BY <1>3 DEF ParentAlreadyDecided, ParentDecided
  <2>2. PICK c \in children[r] :
          /\ contract_status[c] = "VIOLATED" /\ noted[c] = 0 /\ c # frame
          /\ \A d \in children[r] \ {c} : contract_status[d] = "VIOLATED" => noted[d] = 1 \/ d = frame
    BY <2>1 DEF RootCause
  <2>3. /\ \A d \in Formula : d # frame => noted'[d] = noted[d]
        /\ contract_status[frame] = "VIOLATED" /\ Parent = r => noted'[frame] = noted[frame] + 1
    BY <1>3, <2>1 DEF ParentAlreadyDecided
  <2>4. noted[frame] = 0
    BY <2>1 DEF NoteCount
  <2>5. ASSUME NEW d \in children[r] \ {c}, contract_status[d] = "VIOLATED"
        PROVE  noted'[d] = 1
    BY <1>r, <2>2, <2>3, <2>4, <2>5 DEF Parent
  <2>6. noted'[c] = 0 /\ c # frame'
    BY <1>r, <2>1, <2>2, <2>3, TreeFacts
  <2>7. QED
    BY <2>1, <2>2, <2>5, <2>6
<1>4. CASE NothingToPropagate
  <2>1. contract_status' = contract_status /\ noted' = noted /\ frame' = NoFormula
    BY <1>4 DEF NothingToPropagate
  <2>2. contract_status[frame] # "VIOLATED"
    BY <1>4 DEF NothingToPropagate, Triggers
  <2>3. QED
    BY <1>r, <2>1, <2>2, TreeFacts DEF RootCause
<1>5. CASE ReportRoot
  <2>1. contract_status' = contract_status /\ noted' = noted /\ frame' = NoFormula /\ frame \in Root
    BY <1>5 DEF ReportRoot
  <2>2. QED
    BY <1>r, <2>1, TreeFacts DEF RootCause
<1>6. CASE Idle
  BY <1>6 DEF Idle, RootCause
<1>7. QED
  BY <1>1, <1>2, <1>3, <1>4, <1>5, <1>6, StepCases DEF RootCause

(* The inductive invariant of the engine holds initially.                  *)
LEMMA IInvInit == Init => IInv
<1> SUFFICES ASSUME Init
             PROVE  IInv
  OBVIOUS
<1>1. Types
  BY AnalysesAssumption DEF Init, Types
<1>2. FrameDecided /\ InnerStatus /\ AndClimbs
  BY TreeFacts DEF Init, FrameDecided, InnerStatus, AndClimbs, Absent
<1>3. ReportCount /\ NoteCount
  BY DEF Init, ReportCount, NoteCount, Absent
<1>4. RootCause
  BY TreeFacts DEF Init, RootCause, Absent
<1>5. QED
  BY <1>1, <1>2, <1>3, <1>4 DEF IInv

(* Every step of the engine keeps its inductive invariant.                 *)
LEMMA IInvStep == IInv /\ [Next]_vars => IInv'
BY TypesStep, FrameDecidedStep, InnerStatusStep, ReportCountStep, NoteCountStep,
   AndClimbsStep, RootCauseStep DEF IInv

(* The inductive invariant of the engine holds in every execution.         *)
LEMMA IInvInvariant == Spec => []IInv
BY IInvInit, IInvStep, PTL DEF Spec

(* Type correctness of the verdict engine; in particular no scope is       *)
(* reported and no formula noted more than once.                           *)
THEOREM TypeCorrect == Spec => []TypeOK
<1>1. IInv => TypeOK
  BY DEF IInv, Types, ReportCount, NoteCount, TypeOK
<1>2. QED
  BY <1>1, IInvInvariant, PTL

(* No callback and no step of the destructor changes a verdict that        *)
(* contract_status holds.                                                  *)
THEOREM VerdictsFinal == Spec => VerdictsAreFinal
<1>1. IInv /\ [Next]_vars => [\A f \in Formula : Decided(f) => contract_status'[f] = contract_status[f]]_vars
  BY FinalStep DEF IInv
<1>2. QED
  BY <1>1, IInvInvariant, PTL DEF Spec, VerdictsAreFinal

(* Between callbacks exactly the violated scopes have been reported, each  *)
(* of them once.                                                           *)
THEOREM ReportsExact == Spec => []ReportedExactlyOnce
<1>1. IInv => ReportedExactlyOnce
  BY TreeFacts DEF IInv, ReportCount, ReportedExactlyOnce
<1>2. QED
  BY <1>1, IInvInvariant, PTL

(* Every violated requirement at the top of a violated scope was the       *)
(* reported cause or has been noted, once.                                 *)
THEOREM SecondariesNoted == Spec => []SecondaryNoted
<1>1. IInv => SecondaryNoted
  <2> SUFFICES ASSUME IInv, frame = NoFormula, NEW r \in Root, contract_status[r] = "VIOLATED"
               PROVE  \E c \in children[r] :
                        /\ contract_status[c] = "VIOLATED" /\ noted[c] = 0
                        /\ \A d \in children[r] \ {c} :
                             noted[d] = IF contract_status[d] = "VIOLATED" THEN 1 ELSE 0
    BY DEF SecondaryNoted
  <2>1. PICK c \in children[r] :
          /\ contract_status[c] = "VIOLATED" /\ noted[c] = 0 /\ c # frame
          /\ \A d \in children[r] \ {c} : contract_status[d] = "VIOLATED" => noted[d] = 1 \/ d = frame
    BY DEF IInv, RootCause
  <2>2. \A d \in children[r] : d \in Formula /\ d # frame
    BY TreeFacts
  <2>3. QED
    BY <2>1, <2>2 DEF IInv, NoteCount
<1>2. QED
  BY <1>1, IInvInvariant, PTL

-----------------------------------------------------------------------------
(* Soundness.  Verdicts are final, so what breaks a formula keeps breaking *)
(* it; what remains is the step that marks it.                             *)
Failed == {"VIOLATED", "INACTIVE"}

(* A formula that its children break stays broken, since verdicts are      *)
(* final.                                                                  *)
LEMMA BrokenStable ==
  ASSUME IInv, [Next]_vars, NEW p \in Formula, NEW failed, failed \subseteq Verdict, Broken(p, failed)
  PROVE  Broken(p, failed)'
<1>1. \A c \in children[p] : Decided(c) => contract_status'[c] = contract_status[c]
  BY FinalStep, TreeFacts DEF IInv
<1>2. \A c \in children[p] : contract_status[c] \in Verdict => contract_status'[c] = contract_status[c]
  BY <1>1 DEF Decided, Verdict, Absent
<1>3. CASE conn[p] = "AND"
  BY <1>2, <1>3 DEF Broken, Verdict
<1>4. ASSUME AllIn(p, failed)
      PROVE  AllIn(p, failed)'
  BY <1>2, <1>4 DEF AllIn
<1>5. ASSUME Several(Fulfilled(p))
      PROVE  Several(Fulfilled(p))'
  BY <1>2, <1>5, TreeFacts DEF Several, Fulfilled, Verdict
<1>6. CASE conn[p] = "OR"
  BY <1>4, <1>6 DEF Broken
<1>7. CASE conn[p] = "XOR"
  BY <1>4, <1>5, <1>7 DEF Broken
<1>8. QED
  BY <1>3, <1>6, <1>7 DEF Broken

(* The switch marks a formula violated only when its children break it.    *)
LEMMA OutcomeBroken ==
  ASSUME BinaryDisjunctions, IInv, Propagate, Outcome(Parent) = "VIOLATED"
  PROVE  Broken(Parent, Failed)
<1> USE PropagateFacts, TreeFacts
<1>1. CASE conn[Parent] = "AND"
  BY <1>1 DEF Outcome, Broken, Absent
<1>2. ASSUME \A c \in children[Parent] : Decided(c), Fulfilled(Parent) = {}
      PROVE  AllIn(Parent, Failed)
  BY <1>2 DEF IInv, Types, AllIn, Decided, Fulfilled, Verdict, Failed
<1>3. CASE conn[Parent] = "OR"
  <2>1. ~Several(Fulfilled(Parent))
    <3> SUFFICES ASSUME NEW a \in Fulfilled(Parent), NEW b \in Fulfilled(Parent), a # b
                 PROVE  FALSE
      BY DEF Several
    <3>1. a \in children[Parent] /\ b \in children[Parent]
      BY DEF Fulfilled
    <3>2. a # frame /\ b # frame
      BY <1>3 DEF Fulfilled
    <3>3. QED
      BY <1>3, <3>1, <3>2 DEF BinaryDisjunctions
  <2>2. QED
    BY <1>2, <1>3, <2>1 DEF Outcome, Broken, Absent
<1>4. CASE conn[Parent] = "XOR"
  BY <1>2, <1>4 DEF Outcome, Broken, Absent
<1>5. QED
  BY <1>1, <1>3, <1>4 DEF Connective

(* The only step that marks an inner formula.                              *)
LEMMA MarkedByPropagate ==
  ASSUME IInv, [Next]_vars, NEW p \in Formula \ Leaf,
         contract_status[p] # "VIOLATED", contract_status'[p] = "VIOLATED"
  PROVE  Propagate /\ p = Parent /\ Outcome(Parent) = "VIOLATED"
<1>1. ASSUME NEW l \in Leaf, NEW v \in Verdict
      PROVE  ~LeafDecided(l, v)
  BY DEF LeafDecided, IInv, Types
<1>2. ~(ParentAlreadyDecided \/ NothingToPropagate \/ ReportRoot \/ Idle)
  BY DEF ParentAlreadyDecided, NothingToPropagate, ReportRoot, Idle
<1>3. Propagate
  BY <1>1, <1>2, StepCases DEF IInv
<1>4. QED
  BY <1>3, PropagateFacts DEF IInv, Types

(* Every step marks only what is broken.                                   *)
LEMMA SoundStep ==
  ASSUME BinaryDisjunctions, IInv, Sound, [Next]_vars
  PROVE  Sound'
<1> USE DEF Failed, Verdict
<1> SUFFICES ASSUME NEW p \in Formula \ Leaf, contract_status'[p] = "VIOLATED"
             PROVE  Broken(p, Failed)'
  BY DEF Sound
<1>1. CASE contract_status[p] = "VIOLATED"
  BY <1>1, BrokenStable DEF Sound
<1>2. CASE contract_status[p] # "VIOLATED"
  <2>1. Propagate /\ p = Parent /\ Outcome(Parent) = "VIOLATED"
    BY <1>2, MarkedByPropagate
  <2>2. QED
    BY <2>1, OutcomeBroken, BrokenStable
<1>3. QED
  BY <1>1, <1>2

(* With at most two alternatives per disjunction (a third one meets the    *)
(* missing break), a formula is marked violated only when its children     *)
(* break it, whatever the database and the order of the verdicts.          *)
THEOREM Soundness == ASSUME BinaryDisjunctions PROVE Spec => []Sound
<1>1. Init => Sound
  BY TreeFacts DEF Init, Sound, Absent
<1>2. IInv /\ Sound /\ [Next]_vars => Sound'
  BY SoundStep
<1>3. QED
  BY <1>1, <1>2, IInvInvariant, PTL DEF Spec

-----------------------------------------------------------------------------
(* Completeness.  While a broken formula is unmarked, the climb is at one  *)
(* of its children, with a verdict that will make it look at the parent.   *)
Climbing(p) ==
  /\ frame \in children[p]
  /\ \/ contract_status[frame] = "VIOLATED"
     \/ contract_status[frame] = "FULFILLED" /\ conn[p] = "XOR"

CompleteInv ==
  \A p \in Formula \ Leaf :
    children[p] # {} /\ Broken(p, {"VIOLATED"}) => contract_status[p] = "VIOLATED" \/ Climbing(p)

(* A broken formula stays unmarked only if a child changed to its verdict. *)
LEMMA BrokenByChange ==
  ASSUME IInv, NEW p \in Formula \ Leaf, Broken(p, {"VIOLATED"})',
         \A c \in children[p] : contract_status'[c] = contract_status[c]
  PROVE  Broken(p, {"VIOLATED"})
<1>1. Fulfilled(p)' = Fulfilled(p)
  BY TreeFacts DEF Fulfilled
<1>2. QED
  BY <1>1 DEF Broken, AllIn, Several

(* The switch marks every broken formula it looks at.                      *)
LEMMA OutcomeOfBroken ==
  ASSUME NEW p \in Formula \ Leaf, children[p] # {}, Broken(p, {"VIOLATED"})
  PROVE  Outcome(p) = "VIOLATED"
<1>1. CASE conn[p] = "AND"
  BY <1>1 DEF Broken, Outcome
<1>2. ASSUME AllIn(p, {"VIOLATED"})
      PROVE  (\A c \in children[p] : Decided(c)) /\ Fulfilled(p) = {}
  BY <1>2 DEF AllIn, Decided, Absent, Fulfilled
<1>3. CASE conn[p] = "OR"
  BY <1>2, <1>3 DEF Broken, Outcome
<1>4. CASE conn[p] = "XOR"
  BY <1>2, <1>4 DEF Broken, Outcome
<1>5. QED
  BY <1>1, <1>3, <1>4 DEF Broken

(* Every step leaves what is broken marked, or climbing.                   *)
LEMMA CompleteStep ==
  ASSUME ExclusiveOverLeaves, IInv, CompleteInv, [Next]_vars
  PROVE  CompleteInv'
<1> USE TreeFacts
<1> SUFFICES ASSUME NEW p \in Formula \ Leaf, children[p] # {}, Broken(p, {"VIOLATED"})',
                    contract_status'[p] # "VIOLATED"
             PROVE  Climbing(p)'
  BY DEF CompleteInv
<1>0. contract_status[p] # "VIOLATED"
  BY FinalStep DEF IInv, Decided, Absent
<1>1. ASSUME NEW l \in Leaf, NEW v \in Verdict, LeafDecided(l, v)
      PROVE  Climbing(p)'
  <2>1. contract_status' = [contract_status EXCEPT ![l] = v] /\ frame = NoFormula /\ frame' = l
    BY <1>1 DEF LeafDecided
  <2>2. ~Broken(p, {"VIOLATED"})
    BY <1>0, <2>1 DEF CompleteInv, Climbing
  <2>3. l \in children[p]
    BY <2>1, <2>2, BrokenByChange DEF IInv, Types
  <2>4. v = "VIOLATED" \/ (v = "FULFILLED" /\ conn[p] = "XOR")
    <3>1. CASE v = "FULFILLED" /\ conn[p] # "XOR"
      <4>1. \A c \in children[p] : contract_status'[c] = "VIOLATED" => contract_status[c] = "VIOLATED"
        BY <2>1, <3>1 DEF IInv, Types
      <4>2. QED
        BY <2>1, <2>2, <2>3, <3>1, <4>1 DEF Broken, AllIn, IInv, Types
    <3>2. CASE v = "INACTIVE"
      <4>1. \A c \in children[p] : contract_status'[c] = "VIOLATED" => contract_status[c] = "VIOLATED"
        BY <2>1, <3>2 DEF IInv, Types
      <4>2. Fulfilled(p)' \subseteq Fulfilled(p)
        BY <2>1, <3>2 DEF IInv, Types, Fulfilled
      <4>3. QED
        BY <2>1, <2>2, <2>3, <3>2, <4>1, <4>2 DEF Broken, AllIn, Several, IInv, Types
    <3>3. QED
      BY <3>1, <3>2, <1>1 DEF LeafDecided, Verdict
  <2>5. contract_status'[l] = v
    BY <2>1 DEF IInv, Types, Leaf
  <2>6. QED
    BY <2>1, <2>3, <2>4, <2>5 DEF Climbing
<1>2. CASE Propagate
  <2>1. contract_status' = [contract_status EXCEPT ![Parent] = Outcome(Parent)]
        /\ Parent \in Formula \ Leaf /\ frame \in children[Parent]
    BY <1>2, PropagateFacts
  <2>2. \A c \in Formula : c # Parent => contract_status'[c] = contract_status[c]
    BY <2>1 DEF IInv, Types
  <2>3. contract_status'[Parent] = Outcome(Parent)
    BY <2>1 DEF IInv, Types
  <2>4. Outcome(Parent) = Absent => \A c \in Formula : contract_status'[c] = contract_status[c]
    BY <1>2, <2>2, <2>3, PropagateFacts
  <2>5. CASE p = Parent
    <3>1. Outcome(p) # "VIOLATED"
      BY <2>3, <2>5
    <3>2. ASSUME Outcome(p) = "FULFILLED"
          PROVE  Broken(p, {"VIOLATED"})
      <4>1. conn[p] = "OR"
        BY <3>2, OutcomeFacts
      <4>2. \A c \in children[p] : contract_status'[c] = "VIOLATED"
        BY <4>1 DEF Broken, AllIn
      <4>3. \A c \in children[p] : contract_status[c] = "VIOLATED"
        BY <2>2, <2>3, <2>5, <3>2, <4>2
      <4>4. QED
        BY <4>1, <4>3 DEF Broken, AllIn
    <3>3. ASSUME Outcome(p) = Absent
          PROVE  Broken(p, {"VIOLATED"})
      BY <2>4, <2>5, <3>3, BrokenByChange
    <3>4. QED
      BY <3>1, <3>2, <3>3, OutcomeFacts, OutcomeOfBroken
  <2>6. CASE p # Parent
    <3>1. ~Broken(p, {"VIOLATED"})
      BY <1>0, <2>1, <2>6 DEF CompleteInv, Climbing
    <3>2. Parent \in children[p] /\ Outcome(Parent) # Absent
      BY <2>2, <2>4, <3>1, BrokenByChange
    <3>3. ASSUME Outcome(Parent) = "FULFILLED"
          PROVE  FALSE
      <4>1. conn[p] # "XOR"
        BY <2>1, <3>2 DEF ExclusiveOverLeaves
      <4>2. CASE conn[p] = "AND"
        BY <2>2, <2>3, <3>1, <3>3, <4>2 DEF Broken
      <4>3. CASE conn[p] = "OR"
        BY <2>3, <3>2, <3>3, <4>3 DEF Broken, AllIn
      <4>4. QED
        BY <4>1, <4>2, <4>3 DEF Broken
    <3>4. Outcome(Parent) = "VIOLATED"
      BY <2>1, <3>2, <3>3, OutcomeFacts
    <3>5. QED
      BY <1>2, <2>3, <3>2, <3>4 DEF Propagate, Climbing
  <2>7. QED
    BY <2>5, <2>6
<1>3. CASE ParentAlreadyDecided \/ NothingToPropagate \/ ReportRoot
  <2>1. contract_status' = contract_status
    BY <1>3 DEF ParentAlreadyDecided, NothingToPropagate, ReportRoot
  <2>2. Broken(p, {"VIOLATED"}) /\ Climbing(p)
    BY <1>0, <2>1, BrokenByChange DEF CompleteInv
  <2>3. frame \in Formula \ Root /\ Parent = p
    BY <2>2 DEF Climbing, Parent
  <2>4. ~ReportRoot /\ ~NothingToPropagate
    BY <2>2, <2>3 DEF ReportRoot, NothingToPropagate, Climbing, Triggers
  <2>5. Decided(p)
    BY <1>3, <2>3, <2>4 DEF ParentAlreadyDecided, ParentDecided
  <2>6. conn[p] = "OR" /\ Fulfilled(p) # {}
    BY <1>0, <2>5 DEF IInv, InnerStatus, Decided
  <2>7. QED
    BY <2>2, <2>6 DEF Broken, AllIn, Fulfilled
<1>4. CASE Idle
  <2>1. contract_status' = contract_status /\ frame' = frame
    BY <1>4 DEF Idle
  <2>2. QED
    BY <1>0, <2>1, BrokenByChange DEF CompleteInv, Climbing
<1>5. QED
  BY <1>1, <1>2, <1>3, <1>4, StepCases DEF IInv

(* Initially nothing is broken.                                            *)
LEMMA CompleteInit == Init => CompleteInv
<1> SUFFICES ASSUME Init, NEW p \in Formula \ Leaf, children[p] # {}
             PROVE  ~Broken(p, {"VIOLATED"})
  BY DEF CompleteInv
<1>1. \A c \in children[p] : contract_status[c] = Absent
  BY TreeFacts DEF Init
<1>2. QED
  BY <1>1 DEF Broken, AllIn, Several, Fulfilled, Absent

(* With exclusive ors over operations only, the climb misses no broken     *)
(* formula: each is marked violated before validateState returns.          *)
THEOREM Completeness == ASSUME ExclusiveOverLeaves PROVE Spec => []Complete
<1>1. Init => CompleteInv
  BY CompleteInit
<1>2. IInv /\ CompleteInv /\ [Next]_vars => CompleteInv'
  BY CompleteStep
<1>3. IInv /\ CompleteInv => Complete
  BY TreeFacts DEF CompleteInv, Complete, Climbing
<1>4. QED
  BY <1>1, <1>2, <1>3, IInvInvariant, PTL DEF Spec

-----------------------------------------------------------------------------
(* The verdict engine implements the monitor: what validateState and the   *)
(* destructor report is what the verdicts observed so far falsify, as soon *)
(* as they do.  The monitor's Value is a recursive function over trees.    *)
(* That there is a function with its equation, and what it agrees with, is *)
(* shown by looking at an innermost formula of a set of counterexamples.   *)
Closed(D) == D \subseteq Formula /\ \A f \in D : children[f] \subseteq D

(* What Value says of f, if it is g that says what its children are.       *)
Pick(v, w) == IF v THEN "VIOLATED" ELSE IF w THEN "FULFILLED" ELSE "OPEN"
With(f, g, v) == {c \in children[f] : g[c] = v}
Reading(f, g) ==
  LET ful == With(f, g, "FULFILLED")
      vio == With(f, g, "VIOLATED")
  IN  CASE conn[f] = "AND" -> Pick(vio # {}, ful = children[f])
        [] conn[f] = "OR"  -> Pick(vio = children[f], ful # {})
        [] conn[f] = "XOR" -> Pick(vio = children[f] \/ \E a, b \in ful : a # b,
                                   ful # {} /\ ful \cup vio = children[f])
        [] OTHER           -> [l \in Leaf |-> contract_status[l]][f]
Solves(g, D) == g = [f \in D |-> Reading(f, g)]

(* Only the children count.                                                *)
LEMMA ReadingLocal ==
  ASSUME NEW f, NEW g, NEW h, \A c \in children[f] : g[c] = h[c]
  PROVE  Reading(f, g) = Reading(f, h)
<1>1. \A v : With(f, g, v) = With(f, h, v)
  BY DEF With
<1>2. QED
  BY <1>1 DEF Reading

(* Two solutions agree where both are defined.                             *)
LEMMA SolutionsAgree ==
  ASSUME NEW D, NEW E, NEW g, NEW h, Closed(D), Closed(E), Solves(g, D), Solves(h, E),
         NEW f \in D \cap E
  PROVE  g[f] = h[f]
<1> DEFINE S == {d \in D \cap E : g[d] # h[d]}
<1>1. SUFFICES ASSUME S # {}
               PROVE  FALSE
  OBVIOUS
<1>2. S \in SUBSET Formula
  BY DEF Closed
<1> HIDE DEF S
<1>3. PICK d \in S : children[d] \cap S = {}
  BY <1>1, <1>2, NestingAssumption
<1>4. d \in D /\ d \in E /\ g[d] # h[d]
  BY <1>3 DEF S
<1>5. \A c \in children[d] : g[c] = h[c]
  BY <1>3, <1>4 DEF S, Closed
<1>6. g[d] = Reading(d, g) /\ h[d] = Reading(d, h)
  BY <1>4 DEF Solves
<1>7. Reading(d, g) = Reading(d, h)
  BY <1>5, ReadingLocal
<1>8. QED
  BY <1>4, <1>6, <1>7

Solved(f, D, g) == Closed(D) /\ f \in D /\ Solves(g, D)
Solvable == {f \in Formula : \E D, g : Solved(f, D, g)}
Glued ==
  [f \in Solvable |-> LET g == CHOOSE g : \E D : Solved(f, D, g) IN g[f]]

(* Solutions on parts of the tree agree where they overlap, so together    *)
(* they are one.                                                           *)
LEMMA GluedFacts ==
  /\ Closed(Solvable)
  /\ Solves(Glued, Solvable)
<1>1. ASSUME NEW D, NEW g, Closed(D), Solves(g, D)
      PROVE  D \subseteq Solvable /\ \A f \in D : Glued[f] = g[f]
  <2>1. D \subseteq Solvable
    BY <1>1 DEF Solvable, Solved, Closed
  <2>2. ASSUME NEW f \in D
        PROVE  Glued[f] = g[f]
    <3> DEFINE h == CHOOSE k : \E E : Solved(f, E, k)
    <3>1. \E E : Solved(f, E, h)
      BY <1>1 DEF Solved
    <3>2. Glued[f] = h[f]
      BY <2>1 DEF Glued
    <3> HIDE DEF h
    <3>3. PICK E : Solved(f, E, h)
      BY <3>1
    <3>4. h[f] = g[f]
      BY <1>1, <3>3, SolutionsAgree DEF Solved
    <3>5. QED
      BY <3>2, <3>4
  <2>3. QED
    BY <2>1, <2>2
<1>2. ASSUME NEW f \in Solvable
      PROVE  children[f] \subseteq Solvable /\ Glued[f] = Reading(f, Glued)
  <2>1. PICK D, g : Solved(f, D, g)
    BY <1>2 DEF Solvable
  <2>2. Closed(D) /\ Solves(g, D) /\ f \in D
    BY <2>1 DEF Solved
  <2>3. D \subseteq Solvable /\ \A d \in D : Glued[d] = g[d]
    BY <1>1, <2>2
  <2>4. children[f] \subseteq D
    BY <2>2 DEF Closed
  <2>5. g[f] = Reading(f, g)
    BY <2>2 DEF Solves
  <2>6. Reading(f, g) = Reading(f, Glued)
    BY <2>3, <2>4, ReadingLocal
  <2>7. QED
    BY <2>2, <2>3, <2>4, <2>5, <2>6
<1>3. Solvable \subseteq Formula
  BY DEF Solvable
<1>4. Glued = [f \in Solvable |-> Glued[f]]
  BY DEF Glued
<1>5. [f \in Solvable |-> Glued[f]] = [f \in Solvable |-> Reading(f, Glued)]
  BY <1>2
<1>6. QED
  BY <1>2, <1>3, <1>4, <1>5 DEF Closed, Solves

(* An innermost formula without solution would get one from its children.  *)
LEMMA AllSolvable == Solvable = Formula
<1>1. SUFFICES ASSUME Formula \ Solvable # {}
               PROVE  FALSE
  BY DEF Solvable
<1>2. PICK f \in Formula \ Solvable : children[f] \cap (Formula \ Solvable) = {}
  BY <1>1, NestingAssumption
<1> DEFINE D == Solvable \cup {f}
           g == [d \in D |-> IF d = f THEN Reading(f, Glued) ELSE Glued[d]]
<1>3. children[f] \subseteq Solvable
  BY <1>2, TreeFacts
<1>4. Closed(D)
  BY <1>2, <1>3, GluedFacts DEF Closed
<1>5. ASSUME NEW d \in D
      PROVE  g[d] = Reading(d, g)
  <2>1. children[d] \subseteq Solvable
    BY <1>3, GluedFacts DEF Closed
  <2>2. \A c \in children[d] : g[c] = Glued[c]
    BY <1>2, <2>1
  <2>3. Reading(d, g) = Reading(d, Glued)
    BY <2>2, ReadingLocal
  <2>4. d # f => Glued[d] = Reading(d, Glued)
    BY <1>5, GluedFacts DEF Solves
  <2>5. QED
    BY <1>5, <2>3, <2>4
<1>6. g = [d \in D |-> g[d]]
  OBVIOUS
<1> HIDE DEF g, D
<1>7. [d \in D |-> g[d]] = [d \in D |-> Reading(d, g)]
  BY <1>5
<1>8. Solved(f, D, g)
  BY <1>4, <1>6, <1>7 DEF Solved, Solves, D
<1>9. QED
  BY <1>2, <1>8 DEF Solvable

(* The monitor's Value is what it says it is.                              *)
LEMMA ValueIs == \A f \in Formula : Monitor!Value[f] = Reading(f, Monitor!Value)
<1>1. \A f, g : Reading(f, g) = 
        LET ful == {c \in Monitor!Below[f] : g[c] = "FULFILLED"}
            vio == {c \in Monitor!Below[f] : g[c] = "VIOLATED"}
            Pk(v, w) == IF v THEN "VIOLATED" ELSE IF w THEN "FULFILLED" ELSE "OPEN"
        IN  CASE conn[f] = "AND" -> Pk(vio # {}, ful = Monitor!Below[f])
              [] conn[f] = "OR"  -> Pk(vio = Monitor!Below[f], ful # {})
              [] conn[f] = "XOR" -> Pk(vio = Monitor!Below[f] \/ \E a, b \in ful : a # b,
                                         ful # {} /\ ful \cup vio = Monitor!Below[f])
              [] OTHER           -> [l \in Leaf |-> contract_status[l]][f]
  BY DEF Reading, With, Pick, Monitor!Below, children
<1>2. Monitor!Value = CHOOSE g : g = [f \in Formula |-> Reading(f, g)]
  BY <1>1 DEF Monitor!Value
<1>3. Solves(Glued, Formula)
  BY AllSolvable, GluedFacts
<1>4. Monitor!Value = [f \in Formula |-> Reading(f, Monitor!Value)]
  BY <1>2, <1>3 DEF Solves
<1>5. QED
  BY <1>4

-----------------------------------------------------------------------------
(* What a verdict says depends on when it was given: after the exit no     *)
(* operation of a precondition becomes violated, and before it none is     *)
(* inactive.                                                               *)
Timing ==
  /\ exit_pos = 0 => \A f \in Formula : contract_status[f] # "INACTIVE"
  /\ \A f \in Formula : contract_status[f] = "INACTIVE" => f \in Leaf /\ isPre[f] /\ conn[f] = "CALL"
  /\ frame \in Leaf /\ exit_pos > 0 /\ isPre[frame] => contract_status[frame] # "VIOLATED"
  /\ frame # NoFormula => exit_pos # Len(all_analyses) + 1

(* What the destructor may conclude about an operation.                    *)
LEMMA ExitVerdictFacts ==
  ASSUME NEW l \in Leaf, NEW v \in ExitVerdicts(AnalysisOf(l)), AnalysisOf(l) # "None"
  PROVE  /\ v \in Verdict
         /\ v = "INACTIVE" => isPre[l] /\ conn[l] = "CALL"
         /\ v = "VIOLATED" => ~isPre[l]
BY TreeAssumption DEF ExitVerdicts, AnalysisOf, Verdict, Leaf

(* Every step keeps the timing of the verdicts.                            *)
LEMMA TimingStep ==
  ASSUME IInv, Timing, [Next]_vars
  PROVE  Timing'
<1> USE DEF Timing
<1>t. Types /\ FrameDecided /\ exit_pos \in Nat /\ Len(all_analyses) \in Nat /\ NoFormula \notin Leaf
  BY TreeFacts, AnalysesAssumption DEF IInv, Types, Leaf
<1>1. ASSUME NEW l \in Leaf, NEW v \in Verdict, Conclude(l, v)
      PROVE  Timing'
  <2>1. v # "INACTIVE"
    BY <1>1 DEF Conclude, RunVerdicts
  <2>2. exit_pos' = 0 /\ contract_status' = [contract_status EXCEPT ![l] = v]
    BY <1>1 DEF Conclude
  <2>3. \A f \in Formula : contract_status'[f] # "INACTIVE"
    BY <1>1, <1>t, <2>1, <2>2 DEF Conclude, Types
  <2>4. QED
    BY <1>t, <2>2, <2>3
<1>2. ASSUME NEW v \in Verdict, ExitConclude(v)
      PROVE  Timing'
  <2>1. ExitLeaf \in Leaf /\ AnalysisOf(ExitLeaf) # "None" /\ exit_pos \in 1..Len(all_analyses)
    BY <1>2, AnalysesAssumption DEF ExitConclude, ExitLeaf
  <2>2. /\ v = "INACTIVE" => isPre[ExitLeaf] /\ conn[ExitLeaf] = "CALL"
        /\ v = "VIOLATED" => ~isPre[ExitLeaf]
    BY <1>2, <2>1, ExitVerdictFacts DEF ExitConclude
  <2>3. /\ contract_status' = [contract_status EXCEPT ![ExitLeaf] = v]
        /\ frame' = ExitLeaf /\ exit_pos' = exit_pos
    BY <1>2 DEF ExitConclude
  <2>4. ExitLeaf \in Formula
    BY <2>1 DEF Leaf
  <2> HIDE DEF Timing
  <2>5. contract_status'[ExitLeaf] = v
        /\ \A f \in Formula : f # ExitLeaf => contract_status'[f] = contract_status[f]
    BY <1>t, <2>3, <2>4 DEF Types
  <2>6. \A f \in Formula : contract_status'[f] = "INACTIVE" => f \in Leaf /\ isPre[f] /\ conn[f] = "CALL"
    BY <2>1, <2>2, <2>5 DEF Timing
  <2>7. exit_pos' # 0 /\ exit_pos' # Len(all_analyses) + 1
    BY <1>t, <2>1, <2>3
  <2>8. isPre[frame'] => contract_status'[frame'] # "VIOLATED"
    BY <2>2, <2>3, <2>5
  <2>9. QED
    BY <2>6, <2>7, <2>8 DEF Timing
<1>3. CASE Propagate
  <2>1. Parent \in Formula \ Leaf /\ contract_status' = [contract_status EXCEPT ![Parent] = Outcome(Parent)]
    BY <1>3, PropagateFacts
  <2>2. Outcome(Parent) # "INACTIVE" /\ frame' \notin Leaf /\ exit_pos' = exit_pos /\ frame # NoFormula
    BY <1>3, <1>t, <2>1, OutcomeFacts, TreeFacts DEF Propagate, Absent
  <2>3. \A f \in Formula : contract_status'[f] = "INACTIVE" => contract_status[f] = "INACTIVE"
    BY <1>t, <2>1, <2>2 DEF Types
  <2>4. QED
    BY <2>2, <2>3
<1>4. CASE ParentAlreadyDecided \/ NothingToPropagate \/ ReportRoot
  <2>1. contract_status' = contract_status /\ exit_pos' = exit_pos /\ frame' = NoFormula
    BY <1>4 DEF ParentAlreadyDecided, NothingToPropagate, ReportRoot
  <2>2. QED
    BY <1>t, <2>1
<1>5. CASE StartExit \/ ExitAdvance
  <2>1. contract_status' = contract_status /\ frame' = NoFormula /\ exit_pos' # 0
    BY <1>5, <1>t DEF StartExit, ExitAdvance
  <2>2. QED
    BY <1>t, <2>1
<1>6. CASE Terminated \/ UNCHANGED vars
  BY <1>6 DEF Terminated, vars
<1>7. QED
  BY <1>1, <1>2, <1>3, <1>4, <1>5, <1>6 DEF Next, ValidateState

(* With the verdicts in that order, no inactive alternative is counted as  *)
(* a failed one: soundness in the sense of the monitor.                    *)
StrictlySound == \A p \in Formula \ Leaf : contract_status[p] = "VIOLATED" => Broken(p, {"VIOLATED"})

(* The alternative that makes the climb look at its parent was exercised,   *)
(* so that none of the others can have been closed by the exit.            *)
LEMMA AlternativesExercised ==
  ASSUME IInv, Timing, Propagate, frame \in Leaf, AllIn(Parent, Failed)
  PROVE  AllIn(Parent, {"VIOLATED"})
<1> SUFFICES ASSUME NEW c \in children[Parent], contract_status[c] = "INACTIVE"
             PROVE  FALSE
  BY DEF AllIn, Failed
<1>1. /\ frame \in Formula \ Root /\ Parent \in Formula \ Leaf /\ frame \in children[Parent]
      /\ isPre[Parent] = isPre[frame]
  BY PropagateFacts, TreeFacts DEF Parent
<1>2. c \in Formula /\ isPre[c] /\ exit_pos # 0 /\ isPre[Parent]
  BY <1>1, TreeFacts DEF Timing
<1>3. contract_status[frame] = "VIOLATED"
  BY <1>1, PropagateFacts DEF AllIn, Failed
<1>4. exit_pos > 0
  BY <1>2 DEF IInv, Types
<1>5. QED
  BY <1>1, <1>2, <1>3, <1>4 DEF Timing

(* When validateState marks a formula, its children break it without the   *)
(* inactive ones.                                                          *)
LEMMA StrictOutcome ==
  ASSUME BinaryDisjunctions, ExclusiveOverLeaves, CallsAmongLeaves,
         IInv, Timing, Propagate, Outcome(Parent) = "VIOLATED"
  PROVE  Broken(Parent, {"VIOLATED"})
<1>1. Broken(Parent, Failed)
  BY OutcomeBroken
<1>2. /\ frame \in Formula \ Root /\ Parent \in Formula \ Leaf /\ frame \in children[Parent]
      /\ isPre[Parent] = isPre[frame] /\ formula_parents[frame] = Parent
  BY PropagateFacts, TreeFacts DEF Parent
<1>3. ASSUME AllIn(Parent, Failed), conn[Parent] \in {"OR", "XOR"}
      PROVE  AllIn(Parent, {"VIOLATED"})
  <2>1. CASE \E c \in children[Parent] : contract_status[c] = "INACTIVE"
    <3>1. PICK c \in children[Parent] : contract_status[c] = "INACTIVE"
      BY <2>1
    <3>2. c \in Formula /\ conn[c] = "CALL" /\ isPre[Parent]
      BY <1>2, <3>1, TreeFacts DEF Timing
    <3>3. frame \in Leaf
      BY <1>2, <1>3, <3>2 DEF ExclusiveOverLeaves, CallsAmongLeaves
    <3>4. QED
      BY <1>3, <3>3, AlternativesExercised
  <2>2. CASE ~\E c \in children[Parent] : contract_status[c] = "INACTIVE"
    BY <1>3, <2>2 DEF AllIn, Failed
  <2>3. QED
    BY <2>1, <2>2
<1>4. CASE conn[Parent] = "AND"
  BY <1>1, <1>4 DEF Broken
<1>5. CASE conn[Parent] \in {"OR", "XOR"}
  BY <1>1, <1>3, <1>5 DEF Broken
<1>6. QED
  BY <1>1, <1>4, <1>5 DEF Broken

(* Every step keeps the strict soundness of the marks.                     *)
LEMMA StrictlySoundStep ==
  ASSUME BinaryDisjunctions, ExclusiveOverLeaves, CallsAmongLeaves,
         IInv, Timing, StrictlySound, [Next]_vars
  PROVE  StrictlySound'
<1> SUFFICES ASSUME NEW p \in Formula \ Leaf, contract_status'[p] = "VIOLATED"
             PROVE  Broken(p, {"VIOLATED"})'
  BY DEF StrictlySound
<1>1. CASE contract_status[p] = "VIOLATED"
  BY <1>1, BrokenStable DEF StrictlySound, Verdict
<1>2. CASE contract_status[p] # "VIOLATED"
  <2>1. Propagate /\ p = Parent /\ Outcome(Parent) = "VIOLATED"
    BY <1>2, MarkedByPropagate
  <2>2. QED
    BY <2>1, StrictOutcome, BrokenStable DEF Verdict
<1>3. QED
  BY <1>1, <1>2

-----------------------------------------------------------------------------
(* The value of a formula by its connective.                               *)
LEMMA ValueFacts ==
  ASSUME NEW f \in Formula
  PROVE  LET V == Monitor!Value
         IN  /\ f \in Leaf => V[f] = contract_status[f]
             /\ conn[f] = "AND" => (V[f] = "VIOLATED" <=> \E c \in children[f] : V[c] = "VIOLATED")
             /\ conn[f] = "OR"  => (V[f] = "VIOLATED" <=> \A c \in children[f] : V[c] = "VIOLATED")
             /\ conn[f] = "XOR" =>
                  (V[f] = "VIOLATED" <=>
                     \/ \A c \in children[f] : V[c] = "VIOLATED"
                     \/ \E a, b \in children[f] : a # b /\ V[a] = "FULFILLED" /\ V[b] = "FULFILLED")
<1> DEFINE V   == Monitor!Value
           ful == With(f, V, "FULFILLED")
           vio == With(f, V, "VIOLATED")
<1>1. V[f] = Reading(f, V)
  BY ValueIs
<1> HIDE DEF V
<1>2. \A v, w : Pick(v, w) = "VIOLATED" <=> v
  BY DEF Pick
<1>3. CASE f \in Leaf
  <2>1. conn[f] # "AND" /\ conn[f] # "OR" /\ conn[f] # "XOR"
    BY <1>3 DEF Leaf, Operation
  <2>2. Reading(f, V) = [l \in Leaf |-> contract_status[l]][f]
    BY <2>1 DEF Reading
  <2>3. QED
    BY <1>1, <1>3, <2>1, <2>2 DEF V
<1>4. CASE conn[f] = "AND"
  <2>1. Reading(f, V) = Pick(vio # {}, ful = children[f])
    BY <1>4 DEF Reading
  <2>2. vio # {} <=> \E c \in children[f] : V[c] = "VIOLATED"
    BY DEF With
  <2>3. V[f] = "VIOLATED" <=> \E c \in children[f] : V[c] = "VIOLATED"
    BY <1>1, <1>2, <2>1, <2>2
  <2>4. f \notin Leaf
    BY <1>4 DEF Leaf, Operation
  <2>5. QED
    BY <1>4, <2>3, <2>4 DEF V
<1>5. CASE conn[f] = "OR"
  <2>1. Reading(f, V) = Pick(vio = children[f], ful # {})
    BY <1>5 DEF Reading
  <2>2. vio = children[f] <=> \A c \in children[f] : V[c] = "VIOLATED"
    BY DEF With
  <2>3. V[f] = "VIOLATED" <=> \A c \in children[f] : V[c] = "VIOLATED"
    BY <1>1, <1>2, <2>1, <2>2
  <2>4. f \notin Leaf
    BY <1>5 DEF Leaf, Operation
  <2>5. QED
    BY <1>5, <2>3, <2>4 DEF V
<1>6. CASE conn[f] = "XOR"
  <2>1. Reading(f, V) = Pick(vio = children[f] \/ \E a, b \in ful : a # b,
                             ful # {} /\ ful \cup vio = children[f])
    BY <1>6 DEF Reading
  <2>2. vio = children[f] <=> \A c \in children[f] : V[c] = "VIOLATED"
    BY DEF With
  <2>3. (\E a, b \in ful : a # b)
        <=> \E a, b \in children[f] : a # b /\ V[a] = "FULFILLED" /\ V[b] = "FULFILLED"
    BY DEF With
  <2>4. V[f] = "VIOLATED" <=>
          \/ \A c \in children[f] : V[c] = "VIOLATED"
          \/ \E a, b \in children[f] : a # b /\ V[a] = "FULFILLED" /\ V[b] = "FULFILLED"
    BY <1>1, <1>2, <2>1, <2>2, <2>3
  <2>5. f \notin Leaf
    BY <1>6 DEF Leaf, Operation
  <2>6. QED
    BY <1>6, <2>4, <2>5 DEF V
<1>7. f \in Leaf \/ conn[f] \in Connective
  BY TreeFacts
<1>8. QED
  BY <1>3, <1>4, <1>5, <1>6, <1>7 DEF Connective

(* What the engine has marked, the observed verdicts falsify, also while   *)
(* validateState is climbing.                                              *)
LEMMA MarkedIsFalsified ==
  ASSUME ExclusiveOverLeaves, StrictlySound, NEW r \in Formula, contract_status[r] = "VIOLATED"
  PROVE  Monitor!Value[r] = "VIOLATED"
<1> DEFINE V == Monitor!Value
           S == {f \in Formula : contract_status[f] = "VIOLATED" /\ V[f] # "VIOLATED"}
<1>1. SUFFICES ASSUME S # {}
               PROVE  FALSE
  OBVIOUS
<1>2. PICK f \in S : children[f] \cap S = {}
  <2>1. S \in SUBSET Formula
    OBVIOUS
  <2> HIDE DEF S
  <2>2. QED
    BY <1>1, <2>1, NestingAssumption
<1>3. f \in Formula /\ contract_status[f] = "VIOLATED" /\ V[f] # "VIOLATED"
  OBVIOUS
<1>4. \A c \in children[f] : contract_status[c] = "VIOLATED" => V[c] = "VIOLATED"
  BY <1>2, <1>3, TreeFacts
<1>v. /\ f \in Leaf => V[f] = contract_status[f]
      /\ conn[f] = "AND" => (V[f] = "VIOLATED" <=> \E c \in children[f] : V[c] = "VIOLATED")
      /\ conn[f] = "OR"  => (V[f] = "VIOLATED" <=> \A c \in children[f] : V[c] = "VIOLATED")
      /\ conn[f] = "XOR" =>
           (V[f] = "VIOLATED" <=>
              \/ \A c \in children[f] : V[c] = "VIOLATED"
              \/ \E a, b \in children[f] : a # b /\ V[a] = "FULFILLED" /\ V[b] = "FULFILLED")
  BY <1>3, ValueFacts
<1>w. \A c \in children[f] : conn[f] = "XOR" => V[c] = contract_status[c]
  <2> SUFFICES ASSUME NEW c \in children[f], conn[f] = "XOR"
               PROVE  V[c] = contract_status[c]
    OBVIOUS
  <2>1. c \in Leaf /\ c \in Formula
    BY <1>3, TreeFacts DEF ExclusiveOverLeaves
  <2>2. QED
    BY <2>1, ValueFacts
<1> HIDE DEF V, S
<1>5. f \notin Leaf /\ Broken(f, {"VIOLATED"})
  BY <1>3, <1>v DEF StrictlySound
<1>6. CASE conn[f] = "AND"
  BY <1>3, <1>4, <1>5, <1>6, <1>v DEF Broken
<1>7. CASE conn[f] = "OR"
  BY <1>3, <1>4, <1>5, <1>7, <1>v DEF Broken, AllIn
<1>8. CASE conn[f] = "XOR"
  <2>1. Several(Fulfilled(f)) \/ AllIn(f, {"VIOLATED"})
    BY <1>5, <1>8 DEF Broken
  <2>2. CASE Several(Fulfilled(f))
    BY <1>3, <1>8, <1>v, <1>w, <2>2 DEF Several, Fulfilled
  <2>3. CASE AllIn(f, {"VIOLATED"})
    BY <1>3, <1>4, <1>8, <1>v, <2>3 DEF AllIn
  <2>4. QED
    BY <2>1, <2>2, <2>3
<1>9. QED
  BY <1>3, <1>5, <1>6, <1>7, <1>8, TreeFacts DEF Connective

(* Once validateState has returned, it has marked all that is falsified.   *)
LEMMA FalsifiedIsMarked ==
  ASSUME ExclusiveOverLeaves, HasAlternatives, Complete, frame = NoFormula,
         NEW r \in Formula, Monitor!Value[r] = "VIOLATED"
  PROVE  contract_status[r] = "VIOLATED"
<1> DEFINE V == Monitor!Value
           S == {f \in Formula : contract_status[f] # "VIOLATED" /\ V[f] = "VIOLATED"}
<1>1. SUFFICES ASSUME S # {}
               PROVE  FALSE
  OBVIOUS
<1>2. PICK f \in S : children[f] \cap S = {}
  <2>1. S \in SUBSET Formula
    OBVIOUS
  <2> HIDE DEF S
  <2>2. QED
    BY <1>1, <2>1, NestingAssumption
<1>3. f \in Formula /\ contract_status[f] # "VIOLATED" /\ V[f] = "VIOLATED"
  OBVIOUS
<1>4. \A c \in children[f] : V[c] = "VIOLATED" => contract_status[c] = "VIOLATED"
  BY <1>2, <1>3, TreeFacts
<1>v. /\ f \in Leaf => V[f] = contract_status[f]
      /\ conn[f] = "AND" => (V[f] = "VIOLATED" <=> \E c \in children[f] : V[c] = "VIOLATED")
      /\ conn[f] = "OR"  => (V[f] = "VIOLATED" <=> \A c \in children[f] : V[c] = "VIOLATED")
      /\ conn[f] = "XOR" =>
           (V[f] = "VIOLATED" <=>
              \/ \A c \in children[f] : V[c] = "VIOLATED"
              \/ \E a, b \in children[f] : a # b /\ V[a] = "FULFILLED" /\ V[b] = "FULFILLED")
  BY <1>3, ValueFacts
<1>w. \A c \in children[f] : conn[f] = "XOR" => V[c] = contract_status[c]
  <2> SUFFICES ASSUME NEW c \in children[f], conn[f] = "XOR"
               PROVE  V[c] = contract_status[c]
    OBVIOUS
  <2>1. c \in Leaf /\ c \in Formula
    BY <1>3, TreeFacts DEF ExclusiveOverLeaves
  <2>2. QED
    BY <2>1, ValueFacts
<1> HIDE DEF V, S
<1>5. f \in Formula \ Leaf
  BY <1>3, <1>v
<1>6. ~(children[f] # {} /\ Broken(f, {"VIOLATED"}))
  BY <1>3, <1>5 DEF Complete
<1>7. CASE conn[f] = "AND"
  BY <1>3, <1>4, <1>6, <1>7, <1>v DEF Broken
<1>8. CASE conn[f] = "OR"
  BY <1>3, <1>4, <1>6, <1>8, <1>v DEF Broken, AllIn, HasAlternatives
<1>9. CASE conn[f] = "XOR"
  <2>1. children[f] # {}
    BY <1>3, <1>9 DEF HasAlternatives
  <2>2. CASE \A c \in children[f] : V[c] = "VIOLATED"
    BY <1>4, <1>6, <1>9, <2>1, <2>2 DEF Broken, AllIn
  <2>3. CASE \E a, b \in children[f] : a # b /\ V[a] = "FULFILLED" /\ V[b] = "FULFILLED"
    BY <1>6, <1>9, <1>w, <2>1, <2>3 DEF Broken, Several, Fulfilled
  <2>4. QED
    BY <1>3, <1>9, <1>v, <2>2, <2>3
<1>10. QED
  BY <1>5, <1>7, <1>8, <1>9, TreeFacts DEF Connective

-----------------------------------------------------------------------------
MonitorInv == IInv /\ CompleteInv /\ Timing /\ StrictlySound

(* The invariant of the refinement holds initially.                        *)
LEMMA MonitorInvInit == ASSUME MonitorShape, Init PROVE MonitorInv
<1>1. IInv
  BY IInvInit
<1>2. CompleteInv
  BY CompleteInit
<1>3. Timing /\ StrictlySound
  BY TreeFacts, AnalysesAssumption DEF Init, Timing, StrictlySound, Absent
<1>4. QED
  BY <1>1, <1>2, <1>3 DEF MonitorInv

(* Every step keeps the invariant of the refinement.                       *)
LEMMA MonitorInvStep == ASSUME MonitorShape, MonitorInv, [Next]_vars PROVE MonitorInv'
<1> USE DEF MonitorShape, MonitorInv
<1>1. IInv'
  BY IInvStep
<1>2. CompleteInv'
  BY CompleteStep
<1>3. Timing' /\ StrictlySound'
  BY TimingStep, StrictlySoundStep
<1>4. QED
  BY <1>1, <1>2, <1>3

(* What the invariant says in the words of the monitor.                    *)
LEMMA MonitorInvFacts ==
  ASSUME MonitorShape, MonitorInv
  PROVE  /\ Monitor!Roots = Root
         /\ {r \in Root : contract_status[r] = "VIOLATED"} \subseteq Monitor!Falsified
         /\ frame = NoFormula =>
              /\ Monitor!Falsified = {r \in Root : contract_status[r] = "VIOLATED"}
              /\ {r \in Root : reported[r] > 0} = {r \in Root : contract_status[r] = "VIOLATED"}
<1> USE DEF MonitorShape, MonitorInv
<1>1. Monitor!Roots = Root /\ Root \subseteq Formula
  BY DEF Monitor!Roots, Root
<1>2. \A r \in Root : contract_status[r] = "VIOLATED" => Monitor!Value[r] = "VIOLATED"
  BY <1>1, MarkedIsFalsified
<1>3. Complete
  BY TreeFacts DEF CompleteInv, Complete, Climbing
<1>4. frame = NoFormula => \A r \in Root : Monitor!Value[r] = "VIOLATED" => contract_status[r] = "VIOLATED"
  BY <1>1, <1>3, FalsifiedIsMarked
<1>5. frame = NoFormula => \A r \in Root : reported[r] > 0 <=> contract_status[r] = "VIOLATED"
  BY <1>1, TreeFacts DEF IInv, ReportCount
<1>6. QED
  BY <1>1, <1>2, <1>4, <1>5 DEF Monitor!Falsified

(* Every step of the engine is a step of the monitor, or leaves it alone.  *)
LEMMA MonitorStep ==
  ASSUME MonitorShape, MonitorInv, [Next]_vars
  PROVE  [Monitor!MNext]_(Monitor!mvars)
<1> DEFINE verd == [l \in Leaf |-> contract_status[l]]
           viol == {r \in Root : reported[r] > 0}
<1>t. /\ Types /\ NoFormula \notin Formula /\ Leaf \subseteq Formula /\ Root \subseteq Formula
      /\ exit_pos \in Nat /\ Len(all_analyses) \in Nat
  BY TreeFacts, AnalysesAssumption DEF MonitorInv, IInv, Types, Leaf, Root
<1>0. ASSUME UNCHANGED <<verd, viol, Done>>
      PROVE  UNCHANGED Monitor!mvars
  BY <1>0 DEF Monitor!mvars
<1>1. ASSUME NEW l \in Leaf, NEW v \in Verdict, LeafDecided(l, v), exit_pos # Len(all_analyses) + 1
      PROVE  Monitor!Observe(l, v)
  <2>1. ~Done /\ Done' = Done /\ viol' = viol
    BY <1>1 DEF LeafDecided, Done
  <2>2. verd[l] = "ABSENT" /\ verd' = [verd EXCEPT ![l] = v]
    BY <1>1, <1>t DEF LeafDecided, Decided, Absent, Types
  <2>3. Monitor!Falsified = viol
    BY <1>1, MonitorInvFacts DEF LeafDecided
  <2>4. QED
    BY <2>1, <2>2, <2>3 DEF Monitor!Observe
<1>2. ASSUME NEW l \in Leaf, NEW v \in Verdict, Conclude(l, v)
      PROVE  Monitor!MNext
  <2>1. LeafDecided(l, v)
    BY <1>2, ConcludeDecides
  <2>2. exit_pos # Len(all_analyses) + 1
    BY <1>2, <1>t DEF Conclude
  <2>3. QED
    BY <1>1, <2>1, <2>2 DEF Monitor!MNext, Verdict
<1>3. ASSUME NEW v \in Verdict, ExitConclude(v)
      PROVE  Monitor!MNext
  <2>1. LeafDecided(ExitLeaf, v)
    BY <1>3, ExitConcludeDecides
  <2>2. exit_pos # Len(all_analyses) + 1 /\ ExitLeaf \in Leaf
    BY <1>3, <1>t, ExitLeafFacts DEF ExitConclude
  <2>3. \E l \in Leaf : LeafDecided(l, v)
    BY <2>1, <2>2
  <2>4. QED
    BY <1>1, <2>2, <2>3 DEF Monitor!MNext, Verdict
<1>4. CASE ReportRoot
  <2>1. ~Done /\ Done' = Done /\ verd' = verd
    BY <1>4, <1>t DEF ReportRoot, Done, MonitorInv, Timing
  <2>r. PICK r : r = frame
    OBVIOUS
  <2>2. frame \in Root /\ contract_status[frame] = "VIOLATED" /\ reported[frame] = 0
    BY <1>4, <1>t DEF ReportRoot, MonitorInv, IInv, ReportCount
  <2>3. reported' = [reported EXCEPT ![frame] = 1]
    BY <1>4, <2>2 DEF ReportRoot
  <2>4. viol' = viol \cup {frame}
    BY <1>t, <2>2, <2>3 DEF Types
  <2>5. frame \in Monitor!Falsified \ viol /\ frame \in Monitor!Roots
    BY <2>2, MonitorInvFacts
  <2>6. Monitor!Report(r)
    BY <2>1, <2>4, <2>5, <2>r DEF Monitor!Report
  <2>7. QED
    BY <2>5, <2>6, <2>r DEF Monitor!MNext
<1>5. CASE ParentAlreadyDecided \/ NothingToPropagate \/ Propagate
  <2>1. frame # NoFormula /\ exit_pos' = exit_pos /\ reported' = reported
    BY <1>5, <1>t DEF ParentAlreadyDecided, NothingToPropagate, Propagate
  <2>2. Done' = Done
    BY <2>1 DEF Done, MonitorInv, Timing
  <2>3. \A l \in Leaf : contract_status'[l] = contract_status[l]
    BY <1>5, <1>t, PropagateFacts DEF ParentAlreadyDecided, NothingToPropagate, MonitorInv, Types
  <2>4. QED
    BY <1>0, <2>1, <2>2, <2>3
<1>6. CASE StartExit \/ ExitAdvance
  <2>1. frame = NoFormula /\ frame' = NoFormula /\ contract_status' = contract_status
        /\ reported' = reported /\ ~Done
    BY <1>6, <1>t DEF StartExit, ExitAdvance, Done
  <2>2. CASE Done'
    <3>1. Monitor!Close
      BY <2>1, <2>2, MonitorInvFacts DEF Monitor!Close
    <3>2. QED
      BY <3>1 DEF Monitor!MNext
  <2>3. CASE ~Done'
    <3>1. Done' = Done
      BY <2>1, <2>3 DEF Done
    <3>2. QED
      BY <1>0, <2>1, <3>1
  <2>4. QED
    BY <2>2, <2>3
<1>7. CASE Terminated \/ UNCHANGED vars
  BY <1>0, <1>7 DEF Terminated, vars, Done
<1>8. QED
  BY <1>2, <1>3, <1>4, <1>5, <1>6, <1>7 DEF Next, ValidateState

(* The initial state of the engine is one of the monitor.                  *)
LEMMA MonitorInit_ == ASSUME Init PROVE Monitor!MInit
<1>1. ~Done
  BY AnalysesAssumption DEF Init, Done
<1>2. [l \in Leaf |-> contract_status[l]] = [l \in Leaf |-> "ABSENT"]
  BY DEF Init, Absent, Leaf
<1>3. {r \in Root : reported[r] > 0} = {}
  BY DEF Init, Root
<1>4. QED
  BY <1>1, <1>2, <1>3 DEF Monitor!MInit

(* The engine reports a contract scope when, and only when, the verdicts   *)
(* observed so far falsify it, before it observes the next one, for every  *)
(* database of the given shape.                                            *)
THEOREM MonitorImplemented == ASSUME MonitorShape PROVE Spec => ImplementsMonitor
<1>1. Init => MonitorInv /\ Monitor!MInit
  BY MonitorInvInit, MonitorInit_
<1>2. MonitorInv /\ [Next]_vars => MonitorInv'
  BY MonitorInvStep
<1>3. MonitorInv /\ [Next]_vars => [Monitor!MNext]_(Monitor!mvars)
  BY MonitorStep
<1>4. QED
  BY <1>1, <1>2, <1>3, PTL DEF Spec, ImplementsMonitor, Monitor!MSpec
================================================================================
