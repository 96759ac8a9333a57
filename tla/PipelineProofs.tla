----------------------------- MODULE PipelineProofs -----------------------------
(***************************************************************************)
(* What the build and the coverage check promise, for every program, every *)
(* contract database, every number of processes and every choice of file   *)
(* names.  The first part is about the combination of verdicts along a     *)
(* formula, the second about the passes, the third about the folder of     *)
(* coverage files and the report.                                          *)
(***************************************************************************)
EXTENDS Pipeline, ListProofs, FiniteSetTheorems

(* The numbers of the children of a formula are smaller than its own.      *)
LEMMA BelowIsBelow ==
  /\ DOMAIN Formula = 1..Len(Formula) /\ Len(Formula) \in Nat
  /\ \A f \in DOMAIN Formula : Below(f) \subseteq DOMAIN Formula /\ \A c \in Below(f) : c < f
<1>1. ASSUME NEW f \in DOMAIN Formula, NEW c \in Below(f)
      PROVE  c \in 1..(f - 1)
  <2>1. Formula[f].children \in Seq(1..(f - 1))
    BY FormulaAssumption
  <2>2. QED
    BY <2>1 DEF Below, Range
<1>2. QED
  BY <1>1, FormulaAssumption

(* A set of numbers of formulas that has a formula whenever it has all the *)
(* formulas below it has all formulas.                                     *)
LEMMA InductiveFormulas ==
  ASSUME NEW S, \A f \in DOMAIN Formula : Below(f) \subseteq S => f \in S
  PROVE  DOMAIN Formula \subseteq S
<1>1. SUFFICES ASSUME DOMAIN Formula \ S # {} PROVE FALSE
  OBVIOUS
<1>2. DOMAIN Formula \ S \in SUBSET Nat
  BY BelowIsBelow
<1>3. PICK f \in DOMAIN Formula \ S : \A g \in DOMAIN Formula \ S : f <= g
  BY <1>1, <1>2, LeastElement
<1>4. \A c \in Below(f) : c \in S
  BY <1>3, BelowIsBelow
<1>5. QED
  BY <1>3, <1>4

-----------------------------------------------------------------------------
(* The recursive definitions over formulas have the values that their      *)
(* equations ask for.                                                      *)
LEMMA LinearizedIs ==
  \A f \in DOMAIN Formula : linearizeContractFormula[f] =
    IF f \in Leaf THEN {f} ELSE UNION {linearizeContractFormula[c] : c \in Below(f)}
<1> DEFINE Combine(f, g) == IF f \in Leaf THEN {f} ELSE UNION {g[c] : c \in Below(f)}
           Solves(g, n) == \A f \in DOMAIN Formula : f <= n => g[f] = Combine(f, g)
           Solved == {n \in Nat : \E g : Solves(g, n)}
<1>1. ASSUME NEW f \in DOMAIN Formula, NEW g, NEW h, \A c \in Below(f) : g[c] = h[c]
      PROVE  Combine(f, g) = Combine(f, h)
  <2>1. {g[c] : c \in Below(f)} = {h[c] : c \in Below(f)}
    BY <1>1
  <2>2. QED
    BY <2>1
<1> HIDE DEF Combine
<1>2. 0 \in Solved
  BY BelowIsBelow
<1>3. ASSUME NEW n \in Nat, n \in Solved
      PROVE  n + 1 \in Solved
  <2>1. PICK g : Solves(g, n)
    BY <1>3
  <2> DEFINE h == [f \in DOMAIN Formula |-> IF f <= n THEN g[f] ELSE Combine(f, g)]
  <2>2. ASSUME NEW f \in DOMAIN Formula, f <= n + 1
        PROVE  h[f] = Combine(f, h)
    <3>1. \A c \in Below(f) : h[c] = g[c]
      BY <2>2, BelowIsBelow
    <3>2. Combine(f, h) = Combine(f, g)
      BY <1>1, <3>1
    <3>3. QED
      BY <2>1, <3>2
  <2> HIDE DEF h
  <2>3. Solves(h, n + 1)
    BY <2>2
  <2> HIDE DEF Solves
  <2>4. QED
    BY <2>3
<1>4. PICK g : Solves(g, Len(Formula))
  <2> HIDE DEF Solves
  <2>1. Nat \subseteq Solved
    BY <1>2, <1>3, InductiveSet
  <2>2. QED
    BY <2>1, BelowIsBelow
<1>5. \E h : h = [f \in DOMAIN Formula |-> Combine(f, h)]
  <2> DEFINE h == [f \in DOMAIN Formula |-> g[f]]
  <2>1. ASSUME NEW f \in DOMAIN Formula
        PROVE  h[f] = Combine(f, h)
    <3>1. \A c \in Below(f) : h[c] = g[c]
      BY BelowIsBelow
    <3>2. Combine(f, h) = Combine(f, g)
      BY <1>1, <3>1
    <3>3. QED
      BY <1>4, <3>2, BelowIsBelow
  <2>2. h = [f \in DOMAIN Formula |-> Combine(f, h)]
    BY <2>1
  <2>3. QED
    BY <2>2
<1>6. linearizeContractFormula = CHOOSE h : h = [f \in DOMAIN Formula |-> Combine(f, h)]
  BY DEF linearizeContractFormula, Combine
<1>7. linearizeContractFormula = [f \in DOMAIN Formula |-> Combine(f, linearizeContractFormula)]
  BY <1>5, <1>6
<1>8. QED
  BY <1>7 DEF Combine

(* The same for the resolution of a formula.                               *)
LEMMA ResolvedIs ==
  ASSUME NEW results
  PROVE  \A f \in DOMAIN Formula : Resolved(results)[f] =
           LET sub == [i \in DOMAIN Formula[f].children |-> Resolved(results)[Formula[f].children[i]]]
           IN  IF f \in Leaf THEN results[f]
               ELSE IF Formula[f].kind = "OR" THEN resolveOR(sub) ELSE resolveXOR(sub)
<1> DEFINE Sub(f, g) == [i \in DOMAIN Formula[f].children |-> g[Formula[f].children[i]]]
           Combine(f, g) == IF f \in Leaf THEN results[f]
                            ELSE IF Formula[f].kind = "OR" THEN resolveOR(Sub(f, g)) ELSE resolveXOR(Sub(f, g))
           Solves(g, n) == \A f \in DOMAIN Formula : f <= n => g[f] = Combine(f, g)
           Solved == {n \in Nat : \E g : Solves(g, n)}
<1>1. ASSUME NEW f \in DOMAIN Formula, NEW g, NEW h, \A c \in Below(f) : g[c] = h[c]
      PROVE  Combine(f, g) = Combine(f, h)
  <2>1. \A i \in DOMAIN Formula[f].children : Formula[f].children[i] \in Below(f)
    BY DEF Below, Range
  <2>2. Sub(f, g) = Sub(f, h)
    BY <1>1, <2>1
  <2>3. QED
    BY <2>2
<1> HIDE DEF Combine
<1>2. 0 \in Solved
  BY BelowIsBelow
<1>3. ASSUME NEW n \in Nat, n \in Solved
      PROVE  n + 1 \in Solved
  <2>1. PICK g : Solves(g, n)
    BY <1>3
  <2> DEFINE h == [f \in DOMAIN Formula |-> IF f <= n THEN g[f] ELSE Combine(f, g)]
  <2>2. ASSUME NEW f \in DOMAIN Formula, f <= n + 1
        PROVE  h[f] = Combine(f, h)
    <3>1. \A c \in Below(f) : h[c] = g[c]
      BY <2>2, BelowIsBelow
    <3>2. Combine(f, h) = Combine(f, g)
      BY <1>1, <3>1
    <3>3. QED
      BY <2>1, <3>2
  <2> HIDE DEF h
  <2>3. Solves(h, n + 1)
    BY <2>2
  <2> HIDE DEF Solves
  <2>4. QED
    BY <2>3
<1>4. PICK g : Solves(g, Len(Formula))
  <2> HIDE DEF Solves
  <2>1. Nat \subseteq Solved
    BY <1>2, <1>3, InductiveSet
  <2>2. QED
    BY <2>1, BelowIsBelow
<1>5. \E h : h = [f \in DOMAIN Formula |-> Combine(f, h)]
  <2> DEFINE h == [f \in DOMAIN Formula |-> g[f]]
  <2>1. ASSUME NEW f \in DOMAIN Formula
        PROVE  h[f] = Combine(f, h)
    <3>1. \A c \in Below(f) : h[c] = g[c]
      BY BelowIsBelow
    <3>2. Combine(f, h) = Combine(f, g)
      BY <1>1, <3>1
    <3>3. QED
      BY <1>4, <3>2, BelowIsBelow
  <2>2. h = [f \in DOMAIN Formula |-> Combine(f, h)]
    BY <2>1
  <2>3. QED
    BY <2>2
<1>6. Resolved(results) = CHOOSE h : h = [f \in DOMAIN Formula |-> Combine(f, h)]
  BY DEF Resolved, Combine
<1>7. Resolved(results) = [f \in DOMAIN Formula |-> Combine(f, Resolved(results))]
  BY <1>5, <1>6
<1>8. QED
  BY <1>7 DEF Combine


(* The same for its meaning.                                               *)
LEMMA MeaningIs ==
  ASSUME NEW holding
  PROVE  \A f \in DOMAIN Formula : Holds(f, holding) =
           LET true == {i \in DOMAIN Formula[f].children : Holds(Formula[f].children[i], holding)}
           IN  IF f \in Leaf THEN f \in holding
               ELSE IF Formula[f].kind = "OR" THEN true # {} ELSE \E i \in true : true = {i}
<1> DEFINE True(f, g) == {i \in DOMAIN Formula[f].children : g[Formula[f].children[i]]}
           Combine(f, g) == IF f \in Leaf THEN f \in holding
                            ELSE IF Formula[f].kind = "OR" THEN True(f, g) # {}
                            ELSE \E i \in True(f, g) : True(f, g) = {i}
           Solves(g, n) == \A f \in DOMAIN Formula : f <= n => g[f] = Combine(f, g)
           Solved == {n \in Nat : \E g : Solves(g, n)}
<1>1. ASSUME NEW f \in DOMAIN Formula, NEW g, NEW h, \A c \in Below(f) : g[c] = h[c]
      PROVE  Combine(f, g) = Combine(f, h)
  <2>1. \A i \in DOMAIN Formula[f].children : Formula[f].children[i] \in Below(f)
    BY DEF Below, Range
  <2>2. True(f, g) = True(f, h)
    BY <1>1, <2>1
  <2>3. QED
    BY <2>2
<1> HIDE DEF Combine
<1>2. 0 \in Solved
  BY BelowIsBelow
<1>3. ASSUME NEW n \in Nat, n \in Solved
      PROVE  n + 1 \in Solved
  <2>1. PICK g : Solves(g, n)
    BY <1>3
  <2> DEFINE h == [f \in DOMAIN Formula |-> IF f <= n THEN g[f] ELSE Combine(f, g)]
  <2>2. ASSUME NEW f \in DOMAIN Formula, f <= n + 1
        PROVE  h[f] = Combine(f, h)
    <3>1. \A c \in Below(f) : h[c] = g[c]
      BY <2>2, BelowIsBelow
    <3>2. Combine(f, h) = Combine(f, g)
      BY <1>1, <3>1
    <3>3. QED
      BY <2>1, <3>2
  <2> HIDE DEF h
  <2>3. Solves(h, n + 1)
    BY <2>2
  <2> HIDE DEF Solves
  <2>4. QED
    BY <2>3
<1>4. PICK g : Solves(g, Len(Formula))
  <2> HIDE DEF Solves
  <2>1. Nat \subseteq Solved
    BY <1>2, <1>3, InductiveSet
  <2>2. QED
    BY <2>1, BelowIsBelow
<1>5. \E h : h = [f \in DOMAIN Formula |-> Combine(f, h)]
  <2> DEFINE h == [f \in DOMAIN Formula |-> g[f]]
  <2>1. ASSUME NEW f \in DOMAIN Formula
        PROVE  h[f] = Combine(f, h)
    <3>1. \A c \in Below(f) : h[c] = g[c]
      BY BelowIsBelow
    <3>2. Combine(f, h) = Combine(f, g)
      BY <1>1, <3>1
    <3>3. QED
      BY <1>4, <3>2, BelowIsBelow
  <2>2. h = [f \in DOMAIN Formula |-> Combine(f, h)]
    BY <2>1
  <2>3. QED
    BY <2>2
<1>6. Meaning(holding) = CHOOSE h : h = [f \in DOMAIN Formula |-> Combine(f, h)]
  BY DEF Meaning, Combine
<1>7. Meaning(holding) = [f \in DOMAIN Formula |-> Combine(f, Meaning(holding))]
  BY <1>5, <1>6
<1>8. QED
  BY <1>7 DEF Combine, Holds


(* The same for the shape that FaultsAreWatched speaks about.              *)
LEMMA FlatXORIs ==
  \A f \in DOMAIN Formula : FlatXOR[f] =
    \A c \in Below(f) : FlatXOR[c] /\ (Formula[f].kind = "XOR" => c \in Leaf)
<1> DEFINE Combine(f, g) == \A c \in Below(f) : g[c] /\ (Formula[f].kind = "XOR" => c \in Leaf)
           Solves(g, n) == \A f \in DOMAIN Formula : f <= n => g[f] = Combine(f, g)
           Solved == {n \in Nat : \E g : Solves(g, n)}
<1>1. ASSUME NEW f \in DOMAIN Formula, NEW g, NEW h, \A c \in Below(f) : g[c] = h[c]
      PROVE  Combine(f, g) = Combine(f, h)
  BY <1>1
<1> HIDE DEF Combine
<1>2. 0 \in Solved
  BY BelowIsBelow
<1>3. ASSUME NEW n \in Nat, n \in Solved
      PROVE  n + 1 \in Solved
  <2>1. PICK g : Solves(g, n)
    BY <1>3
  <2> DEFINE h == [f \in DOMAIN Formula |-> IF f <= n THEN g[f] ELSE Combine(f, g)]
  <2>2. ASSUME NEW f \in DOMAIN Formula, f <= n + 1
        PROVE  h[f] = Combine(f, h)
    <3>1. \A c \in Below(f) : h[c] = g[c]
      BY <2>2, BelowIsBelow
    <3>2. Combine(f, h) = Combine(f, g)
      BY <1>1, <3>1
    <3>3. QED
      BY <2>1, <3>2
  <2> HIDE DEF h
  <2>3. Solves(h, n + 1)
    BY <2>2
  <2> HIDE DEF Solves
  <2>4. QED
    BY <2>3
<1>4. PICK g : Solves(g, Len(Formula))
  <2> HIDE DEF Solves
  <2>1. Nat \subseteq Solved
    BY <1>2, <1>3, InductiveSet
  <2>2. QED
    BY <2>1, BelowIsBelow
<1>5. \E h : h = [f \in DOMAIN Formula |-> Combine(f, h)]
  <2> DEFINE h == [f \in DOMAIN Formula |-> g[f]]
  <2>1. ASSUME NEW f \in DOMAIN Formula
        PROVE  h[f] = Combine(f, h)
    <3>1. \A c \in Below(f) : h[c] = g[c]
      BY BelowIsBelow
    <3>2. Combine(f, h) = Combine(f, g)
      BY <1>1, <3>1
    <3>3. QED
      BY <1>4, <3>2, BelowIsBelow
  <2>2. h = [f \in DOMAIN Formula |-> Combine(f, h)]
    BY <2>1
  <2>3. QED
    BY <2>2
<1>6. FlatXOR = CHOOSE h : h = [f \in DOMAIN Formula |-> Combine(f, h)]
  BY DEF FlatXOR, Combine
<1>7. FlatXOR = [f \in DOMAIN Formula |-> Combine(f, FlatXOR)]
  BY <1>5, <1>6
<1>8. QED
  BY <1>7 DEF Combine

-----------------------------------------------------------------------------
Statuses == {"FULFILLED", "UNKNOWN", "BROKEN"}
Results(results) == \A i \in DOMAIN results : results[i].status \in Statuses

(* The best of some statuses.                                              *)
LEMMA BestIs ==
  ASSUME NEW statuses \in SUBSET Statuses, statuses # {}
  PROVE  /\ Best(statuses) \in statuses
         /\ "FULFILLED" \in statuses => Best(statuses) = "FULFILLED"
         /\ Best(statuses) = "BROKEN" => statuses = {"BROKEN"}
<1>1. /\ Severity("FULFILLED") = 1 /\ Severity("UNKNOWN") = 2 /\ Severity("BROKEN") = 3
      /\ Fulfillment[1] = "FULFILLED" /\ Fulfillment[2] = "UNKNOWN" /\ Fulfillment[3] = "BROKEN"
  BY DEF Severity, Fulfillment
<1> DEFINE levels == {Severity(s) : s \in statuses}
<1>2. /\ 1 \in levels <=> "FULFILLED" \in statuses
      /\ 2 \in levels <=> "UNKNOWN" \in statuses
      /\ 3 \in levels <=> "BROKEN" \in statuses
      /\ levels \subseteq {1, 2, 3} /\ levels # {}
  BY <1>1 DEF Statuses
<1> HIDE DEF levels
<1>3. \E m \in levels : \A n \in levels : m <= n
  <2>1. levels \in SUBSET Nat
    BY <1>2
  <2>2. QED
    BY <1>2, <2>1, LeastElement
<1>4. Min(levels) \in levels /\ \A n \in levels : Min(levels) <= n
  BY <1>3 DEF Min
<1>5. Best(statuses) = Fulfillment[Min(levels)]
  BY DEF Best, levels
<1>6. statuses \subseteq Statuses /\ statuses # {}
  OBVIOUS
<1> HIDE DEF Min
<1>7. CASE Min(levels) = 1
  BY <1>1, <1>2, <1>4, <1>5, <1>7
<1>8. CASE Min(levels) = 2
  <2>1. Best(statuses) = "UNKNOWN" /\ "FULFILLED" \notin statuses /\ "UNKNOWN" \in statuses
    BY <1>1, <1>2, <1>4, <1>5, <1>8
  <2>2. QED
    BY <2>1
<1>9. CASE Min(levels) = 3
  <2>1. Best(statuses) = "BROKEN" /\ "FULFILLED" \notin statuses /\ "UNKNOWN" \notin statuses
    BY <1>1, <1>2, <1>4, <1>5, <1>9
  <2>2. QED
    BY <1>6, <2>1 DEF Statuses
<1>10. QED
  BY <1>2, <1>4, <1>7, <1>8, <1>9

(* What an inclusive or makes of the results of its children.              *)
LEMMA ORNode ==
  ASSUME NEW n \in Nat \ {0}, NEW sub, DOMAIN sub = 1..n, Results(sub)
  PROVE  /\ resolveOR(sub).status \in Statuses
         /\ resolveOR(sub).status = "FULFILLED" => \E i \in 1..n : sub[i].status = "FULFILLED"
         /\ resolveOR(sub).status = "BROKEN" <=> \A i \in 1..n : sub[i].status = "BROKEN"
         /\ resolveOR(sub).status = "UNKNOWN" => \E i \in 1..n : sub[i].status = "UNKNOWN"
         /\ resolveOR(sub).references \subseteq UNION {sub[i].references : i \in 1..n}
         /\ resolveOR(sub).status # "FULFILLED" =>
              \A i \in 1..n : sub[i].status # "FULFILLED" => sub[i].references \subseteq resolveOR(sub).references
<1> DEFINE statuses == {sub[i].status : i \in DOMAIN sub}
           open == {j \in DOMAIN sub : sub[j].status # "FULFILLED"}
<1>1. statuses \in SUBSET Statuses /\ statuses # {}
  BY DEF Results
<1>2. /\ Best(statuses) \in statuses
      /\ Best(statuses) = "BROKEN" => statuses = {"BROKEN"}
  BY <1>1, BestIs
<1>3. /\ resolveOR(sub).status = Best(statuses)
      /\ resolveOR(sub).references = IF Best(statuses) = "FULFILLED" THEN {} ELSE UNION {sub[i].references : i \in open}
  BY Zenon DEF resolveOR, Result
<1>4. PICK k \in 1..n : Best(statuses) = sub[k].status
  BY <1>2
<1>5. (\A i \in 1..n : sub[i].status = "BROKEN") => statuses = {"BROKEN"}
  OBVIOUS
<1>6. statuses = {"BROKEN"} => \A i \in 1..n : sub[i].status = "BROKEN"
  OBVIOUS
<1> HIDE DEF statuses
<1>7. QED
  BY <1>1, <1>2, <1>3, <1>4, <1>5, <1>6

(* What an exclusive or makes of the results of its children.              *)
LEMMA XORNode ==
  ASSUME NEW n \in Nat \ {0}, NEW sub, DOMAIN sub = 1..n, Results(sub)
  PROVE  /\ resolveXOR(sub).status \in Statuses
         /\ resolveXOR(sub).status = "FULFILLED" =>
              \E i \in 1..n : sub[i].status = "FULFILLED" /\ \A j \in 1..n : j # i => sub[j].status = "BROKEN"
         /\ resolveXOR(sub).status = "BROKEN" =>
              \/ \A i \in 1..n : sub[i].status = "BROKEN" /\ sub[i].references \subseteq resolveXOR(sub).references
              \/ \E i, j \in 1..n : /\ j < i /\ sub[i].status = "FULFILLED" /\ sub[j].status = "FULFILLED"
                                    /\ \A k \in 1..n : k < i => sub[k].status # "UNKNOWN"
         /\ resolveXOR(sub).status = "UNKNOWN" => \E i \in 1..n : sub[i].status = "UNKNOWN"
         /\ (\E i, j \in 1..n : /\ j < i /\ sub[i].status = "FULFILLED" /\ sub[j].status = "FULFILLED"
                                /\ \A k \in 1..n : k < i => sub[k].status # "UNKNOWN") =>
              resolveXOR(sub).status = "BROKEN"
         /\ resolveXOR(sub).references \subseteq UNION {sub[i].references : i \in 1..n}
<1> DEFINE fulfilled == {i \in DOMAIN sub : sub[i].status = "FULFILLED"}
           stops     == {i \in DOMAIN sub : sub[i].status = "UNKNOWN" \/ \E j \in fulfilled : i \in fulfilled /\ j < i}
<1>1. /\ \A i : i \in fulfilled <=> i \in 1..n /\ sub[i].status = "FULFILLED"
      /\ \A i : i \in stops <=> i \in 1..n /\ (sub[i].status = "UNKNOWN" \/ (i \in fulfilled /\ \E j \in fulfilled : j < i))
      /\ fulfilled \in SUBSET Nat /\ stops \in SUBSET Nat
  OBVIOUS
<1>2. resolveXOR(sub) =
        IF stops = {}
        THEN IF fulfilled # {} THEN Result("FULFILLED", {})
             ELSE Result("BROKEN", UNION {sub[i].references : i \in DOMAIN sub})
        ELSE IF sub[Min(stops)].status = "UNKNOWN" THEN Result("UNKNOWN", sub[Min(stops)].references)
        ELSE Result("BROKEN", sub[Min(fulfilled)].references \cup sub[Min(stops)].references)
  BY Zenon DEF resolveXOR
<1> HIDE DEF fulfilled, stops
<1>3. \A i \in 1..n : sub[i].status \in Statuses
  BY DEF Results
<1>4. stops # {} => Min(stops) \in stops /\ \A i \in stops : Min(stops) <= i
  BY <1>1, LeastElement DEF Min
<1>5. fulfilled # {} => Min(fulfilled) \in fulfilled /\ \A i \in fulfilled : Min(fulfilled) <= i
  BY <1>1, LeastElement DEF Min
<1>6. CASE stops = {} /\ fulfilled # {}
  <2>1. resolveXOR(sub).status = "FULFILLED" /\ resolveXOR(sub).references = {}
    BY <1>2, <1>6 DEF Result
  <2>2. PICK i \in fulfilled : TRUE
    BY <1>6
  <2>3. ASSUME NEW j \in 1..n, j # i
        PROVE  sub[j].status = "BROKEN"
    BY <1>1, <1>3, <1>6, <2>2, <2>3 DEF Statuses
  <2>4. \A k, j \in 1..n : ~(j < k /\ sub[k].status = "FULFILLED" /\ sub[j].status = "FULFILLED")
    BY <1>1, <1>6
  <2>5. sub[i].status = "FULFILLED" /\ i \in 1..n
    BY <1>1
  <2>6. QED
    BY <2>1, <2>3, <2>4, <2>5 DEF Statuses
<1>7. CASE stops = {} /\ fulfilled = {}
  <2>1. /\ resolveXOR(sub).status = "BROKEN"
        /\ resolveXOR(sub).references = UNION {sub[i].references : i \in 1..n}
    BY <1>2, <1>7 DEF Result
  <2>2. \A i \in 1..n : sub[i].status = "BROKEN"
    BY <1>1, <1>3, <1>7 DEF Statuses
  <2>3. QED
    BY <2>1, <2>2 DEF Statuses
<1>8. CASE stops # {} /\ sub[Min(stops)].status = "UNKNOWN"
  <2>1. /\ resolveXOR(sub).status = "UNKNOWN"
        /\ resolveXOR(sub).references = sub[Min(stops)].references
    BY <1>2, <1>8 DEF Result
  <2>2. Min(stops) \in 1..n
    BY <1>1, <1>4, <1>8
  <2>3. ASSUME NEW i \in 1..n, NEW j \in 1..n, j < i, sub[i].status = "FULFILLED", sub[j].status = "FULFILLED",
               \A k \in 1..n : k < i => sub[k].status # "UNKNOWN"
        PROVE  FALSE
    <3>1. i \in stops
      BY <1>1, <2>3
    <3>2. Min(stops) <= i /\ Min(stops) # i
      BY <1>4, <1>8, <2>3, <3>1
    <3>3. QED
      BY <1>8, <2>2, <2>3, <3>2
  <2>4. QED
    BY <1>8, <2>1, <2>2, <2>3 DEF Statuses
<1>9. CASE stops # {} /\ sub[Min(stops)].status # "UNKNOWN"
  <2>1. /\ resolveXOR(sub).status = "BROKEN"
        /\ resolveXOR(sub).references = sub[Min(fulfilled)].references \cup sub[Min(stops)].references
    BY <1>2, <1>9 DEF Result
  <2>2. Min(stops) \in fulfilled /\ \E j \in fulfilled : j < Min(stops)
    BY <1>1, <1>4, <1>9
  <2>3. Min(stops) \in 1..n /\ Min(fulfilled) \in 1..n
    BY <1>1, <1>5, <2>2
  <2>4. \A k \in 1..n : k < Min(stops) => sub[k].status # "UNKNOWN"
    BY <1>1, <1>4, <1>9, <2>3
  <2>5. \E i, j \in 1..n : /\ j < i /\ sub[i].status = "FULFILLED" /\ sub[j].status = "FULFILLED"
                           /\ \A k \in 1..n : k < i => sub[k].status # "UNKNOWN"
    BY <1>1, <2>2, <2>3, <2>4
  <2>6. QED
    BY <2>1, <2>3, <2>5 DEF Statuses
<1>10. QED
  BY <1>6, <1>7, <1>8, <1>9

-----------------------------------------------------------------------------
(* An inner formula has children, numbered from 1, and the formulas below  *)
(* it are they.                                                            *)
LEMMA InnerFormula ==
  ASSUME NEW f \in DOMAIN Formula \ Leaf
  PROVE  \E n \in Nat \ {0} : /\ DOMAIN Formula[f].children = 1..n
                              /\ \A i \in 1..n : Formula[f].children[i] \in Below(f)
                              /\ \A c \in Below(f) : \E i \in 1..n : c = Formula[f].children[i]
<1>1. Formula[f].children \in Seq(1..(f - 1)) /\ Formula[f].children # <<>>
  BY FormulaAssumption DEF Leaf
<1>2. /\ Len(Formula[f].children) \in Nat \ {0}
      /\ DOMAIN Formula[f].children = 1..Len(Formula[f].children)
  BY <1>1
<1>3. QED
  BY <1>2 DEF Below, Range

(* The operations of a formula are leafs, and those of its children.       *)
LEMMA LinearizedFacts ==
  /\ \A f \in DOMAIN Formula : linearizeContractFormula[f] \subseteq Leaf
  /\ \A f \in Leaf : linearizeContractFormula[f] = {f}
  /\ \A f \in DOMAIN Formula \ Leaf : \A c \in Below(f) : linearizeContractFormula[c] \subseteq linearizeContractFormula[f]
<1>1. \A f \in Leaf : linearizeContractFormula[f] = {f}
  BY LinearizedIs DEF Leaf
<1>2. \A f \in DOMAIN Formula \ Leaf : \A c \in Below(f) : linearizeContractFormula[c] \subseteq linearizeContractFormula[f]
  BY LinearizedIs
<1> DEFINE S == {f \in DOMAIN Formula : linearizeContractFormula[f] \subseteq Leaf}
<1>3. ASSUME NEW f \in DOMAIN Formula, Below(f) \subseteq S
      PROVE  f \in S
  <2>1. CASE f \in Leaf
    BY <1>1, <2>1
  <2>2. CASE f \notin Leaf
    <3>1. linearizeContractFormula[f] = UNION {linearizeContractFormula[c] : c \in Below(f)}
      BY <2>2, LinearizedIs
    <3>2. \A c \in Below(f) : linearizeContractFormula[c] \subseteq Leaf
      BY <1>3
    <3>3. QED
      BY <3>1, <3>2
  <2>3. QED
    BY <2>1, <2>2
<1>4. DOMAIN Formula \subseteq S
  <2> HIDE DEF S
  <2>1. QED
    BY <1>3, InductiveFormulas
<1>5. QED
  BY <1>1, <1>2, <1>4

Typed(f, results) ==
  linearizeContractFormula[f] \subseteq DOMAIN results /\ \A id \in linearizeContractFormula[f] : results[id].status \in Statuses

(* The operations that hold fit their results.                             *)
Fits(f, results, holding) ==
  \A id \in linearizeContractFormula[f] :
    /\ results[id].status = "FULFILLED" => id \in holding
    /\ results[id].status = "BROKEN" => id \notin holding

RightVerdict(f, results, holding) ==
  /\ resolveFormula(f, results).status \in Statuses
  /\ resolveFormula(f, results).status = "FULFILLED" => Holds(f, holding)
  /\ resolveFormula(f, results).status = "BROKEN" => ~Holds(f, holding)
  /\ resolveFormula(f, results).status = "UNKNOWN" =>
       \E id \in linearizeContractFormula[f] : results[id].status = "UNKNOWN"

(* At an inner formula the verdict is right if it is at the children.      *)
LEMMA InnerVerdict ==
  ASSUME NEW f \in DOMAIN Formula \ Leaf, NEW results, NEW holding,
         \A c \in Below(f) : RightVerdict(c, results, holding)
  PROVE  RightVerdict(f, results, holding)
<1> DEFINE ch == Formula[f].children
           sub == [i \in DOMAIN ch |-> resolveFormula(ch[i], results)]
           true == {i \in DOMAIN ch : Holds(ch[i], holding)}
<1>1. PICK n \in Nat \ {0} : DOMAIN ch = 1..n /\ \A i \in 1..n : ch[i] \in Below(f)
  BY InnerFormula
<1>2. /\ Formula[f].kind = "OR" => resolveFormula(f, results) = resolveOR(sub)
      /\ Formula[f].kind # "OR" => resolveFormula(f, results) = resolveXOR(sub)
  BY ResolvedIs DEF resolveFormula
<1>3. /\ Formula[f].kind = "OR" => (Holds(f, holding) <=> true # {})
      /\ Formula[f].kind # "OR" => (Holds(f, holding) <=> \E i \in true : true = {i})
  <2>1. f \in DOMAIN Formula /\ f \notin Leaf
    OBVIOUS
  <2>2. Holds(f, holding) = IF f \in Leaf THEN f \in holding
                           ELSE IF Formula[f].kind = "OR" THEN true # {} ELSE \E i \in true : true = {i}
    BY <2>1, MeaningIs, Zenon
  <2>3. QED
    BY <2>1, <2>2, Zenon
<1>4. DOMAIN sub = 1..n /\ \A i \in 1..n : sub[i] = resolveFormula(ch[i], results)
  BY <1>1
<1>5. \A i \in 1..n : RightVerdict(ch[i], results, holding)
  BY <1>1
<1>6. \A i : i \in true <=> i \in 1..n /\ Holds(ch[i], holding)
  BY <1>1
<1> HIDE DEF sub, true
<1>7. \A i \in 1..n : /\ sub[i].status \in Statuses
                      /\ sub[i].status = "FULFILLED" => i \in true
                      /\ sub[i].status = "BROKEN" => i \notin true
  BY <1>4, <1>5, <1>6 DEF RightVerdict
<1>8. ASSUME NEW i \in 1..n, sub[i].status = "UNKNOWN"
      PROVE  \E id \in linearizeContractFormula[f] : results[id].status = "UNKNOWN"
  <2>1. \E id \in linearizeContractFormula[ch[i]] : results[id].status = "UNKNOWN"
    BY <1>4, <1>5, <1>8 DEF RightVerdict
  <2>2. QED
    BY <1>1, <2>1, LinearizedFacts
<1>9. Results(sub)
  BY <1>4, <1>7 DEF Results
<1>10. CASE Formula[f].kind = "OR"
  <2>1. /\ resolveOR(sub).status \in Statuses
        /\ resolveOR(sub).status = "FULFILLED" => \E i \in 1..n : sub[i].status = "FULFILLED"
        /\ resolveOR(sub).status = "BROKEN" => \A i \in 1..n : sub[i].status = "BROKEN"
        /\ resolveOR(sub).status = "UNKNOWN" => \E i \in 1..n : sub[i].status = "UNKNOWN"
    BY <1>4, <1>9, ORNode
  <2>2. /\ resolveOR(sub).status = "FULFILLED" => true # {}
        /\ resolveOR(sub).status = "BROKEN" => true = {}
    BY <1>6, <1>7, <2>1
  <2>3. QED
    BY <1>2, <1>3, <1>8, <1>10, <2>1, <2>2 DEF RightVerdict
<1>11. CASE Formula[f].kind # "OR"
  <2>1. /\ resolveXOR(sub).status \in Statuses
        /\ resolveXOR(sub).status = "FULFILLED" =>
             \E i \in 1..n : sub[i].status = "FULFILLED" /\ \A j \in 1..n : j # i => sub[j].status = "BROKEN"
        /\ resolveXOR(sub).status = "BROKEN" =>
             \/ \A i \in 1..n : sub[i].status = "BROKEN"
             \/ \E i, j \in 1..n : j < i /\ sub[i].status = "FULFILLED" /\ sub[j].status = "FULFILLED"
        /\ resolveXOR(sub).status = "UNKNOWN" => \E i \in 1..n : sub[i].status = "UNKNOWN"
    BY <1>4, <1>9, XORNode
  <2>2. ASSUME resolveXOR(sub).status = "FULFILLED"
        PROVE  \E i \in true : true = {i}
    <3>1. PICK i \in 1..n : sub[i].status = "FULFILLED" /\ \A j \in 1..n : j # i => sub[j].status = "BROKEN"
      BY <2>1, <2>2
    <3>2. i \in true /\ \A j \in true : j = i
      BY <1>6, <1>7, <3>1
    <3>3. QED
      BY <3>2
  <2>3. ASSUME resolveXOR(sub).status = "BROKEN", NEW k \in true, true = {k}
        PROVE  FALSE
    <3>1. k \in 1..n /\ sub[k].status # "BROKEN"
      BY <1>6, <1>7, <2>3
    <3>2. PICK i \in 1..n, j \in 1..n : j < i /\ sub[i].status = "FULFILLED" /\ sub[j].status = "FULFILLED"
      BY <2>1, <2>3, <3>1
    <3>3. i \in true /\ j \in true
      BY <1>7, <3>2
    <3>4. QED
      BY <2>3, <3>2, <3>3
  <2>4. QED
    BY <1>2, <1>3, <1>8, <1>11, <2>1, <2>2, <2>3 DEF RightVerdict
<1>12. QED
  BY <1>10, <1>11

(* Every decided formula has the status its meaning asks for, and one that *)
(* is not decided has an operation that is not.                            *)
LEMMA VerdictIsRight ==
  ASSUME NEW form \in DOMAIN Formula, NEW results, NEW holding,
         Typed(form, results), Fits(form, results, holding)
  PROVE  RightVerdict(form, results, holding)
<1> DEFINE S == {f \in DOMAIN Formula : Typed(f, results) /\ Fits(f, results, holding) => RightVerdict(f, results, holding)}
<1>1. ASSUME NEW f \in DOMAIN Formula, Below(f) \subseteq S, Typed(f, results), Fits(f, results, holding)
      PROVE  RightVerdict(f, results, holding)
  <2>1. CASE f \in Leaf
    <3>1. linearizeContractFormula[f] = {f} /\ resolveFormula(f, results) = results[f] /\ (Holds(f, holding) <=> f \in holding)
      BY <2>1, LinearizedFacts, ResolvedIs, MeaningIs DEF resolveFormula
    <3>2. QED
      BY <1>1, <3>1 DEF RightVerdict, Typed, Fits
  <2>2. CASE f \notin Leaf
    <3>1. ASSUME NEW c \in Below(f)
          PROVE  RightVerdict(c, results, holding)
      <4>1. linearizeContractFormula[c] \subseteq linearizeContractFormula[f]
        BY <2>2, LinearizedFacts
      <4>2. Typed(c, results) /\ Fits(c, results, holding)
        BY <1>1, <4>1 DEF Typed, Fits
      <4>3. QED
        BY <1>1, <4>2
    <3>2. QED
      BY <2>2, <3>1, InnerVerdict
  <2>3. QED
    BY <2>1, <2>2
<1>2. DOMAIN Formula \subseteq S
  <2>1. \A f \in DOMAIN Formula : Below(f) \subseteq S => f \in S
    BY <1>1
  <2> HIDE DEF S
  <2>2. QED
    BY <2>1, InductiveFormulas
<1>3. QED
  BY <1>2

(* The results of formulas have the statuses that results of operations    *)
(* have.                                                                   *)
LEMMA ResolvedTyped ==
  ASSUME NEW form \in DOMAIN Formula, NEW results, Typed(form, results)
  PROVE  /\ resolveFormula(form, results).status \in Statuses
         /\ resolveFormula(form, results).status = "UNKNOWN" =>
              \E id \in linearizeContractFormula[form] : results[id].status = "UNKNOWN"
<1> DEFINE holding == {id \in linearizeContractFormula[form] : results[id].status = "FULFILLED"}
<1>1. Fits(form, results, holding)
  BY DEF Fits
<1>2. RightVerdict(form, results, holding)
  BY <1>1, VerdictIsRight
<1>3. QED
  BY <1>2 DEF RightVerdict

(* The results of the children of an inner formula.                        *)
SubResults(f, results) == [i \in DOMAIN Formula[f].children |-> resolveFormula(Formula[f].children[i], results)]

(* They make the result of the formula.                                    *)
LEMMA NodeIs ==
  ASSUME NEW f \in DOMAIN Formula, NEW results
  PROVE  /\ f \in Leaf => resolveFormula(f, results) = results[f]
         /\ f \notin Leaf /\ Formula[f].kind = "OR" => resolveFormula(f, results) = resolveOR(SubResults(f, results))
         /\ f \notin Leaf /\ Formula[f].kind # "OR" => resolveFormula(f, results) = resolveXOR(SubResults(f, results))
BY ResolvedIs DEF resolveFormula, SubResults

(* And there are as many of them as children.                              *)
LEMMA SubResultsAre ==
  ASSUME NEW f \in DOMAIN Formula \ Leaf, NEW results, Typed(f, results)
  PROVE  /\ Formula[f].kind = "OR" => resolveFormula(f, results) = resolveOR(SubResults(f, results))
         /\ Formula[f].kind # "OR" => resolveFormula(f, results) = resolveXOR(SubResults(f, results))
         /\ \A c \in Below(f) : c \in DOMAIN Formula /\ Typed(c, results)
         /\ Results(SubResults(f, results))
         /\ \E n \in Nat \ {0} :
              /\ DOMAIN SubResults(f, results) = 1..n
              /\ DOMAIN Formula[f].children = 1..n
              /\ \A i \in 1..n : /\ SubResults(f, results)[i] = resolveFormula(Formula[f].children[i], results)
                                 /\ Formula[f].children[i] \in Below(f)
              /\ \A c \in Below(f) : \E i \in 1..n : c = Formula[f].children[i]
<1>1. /\ Formula[f].kind = "OR" => resolveFormula(f, results) = resolveOR(SubResults(f, results))
      /\ Formula[f].kind # "OR" => resolveFormula(f, results) = resolveXOR(SubResults(f, results))
  BY NodeIs
<1>2. \A c \in Below(f) : c \in DOMAIN Formula /\ Typed(c, results)
  BY BelowIsBelow, LinearizedFacts DEF Typed
<1>3. PICK n \in Nat \ {0} : /\ DOMAIN Formula[f].children = 1..n
                             /\ \A i \in 1..n : Formula[f].children[i] \in Below(f)
                             /\ \A c \in Below(f) : \E i \in 1..n : c = Formula[f].children[i]
  BY InnerFormula
<1>4. /\ DOMAIN SubResults(f, results) = 1..n
      /\ \A i \in 1..n : SubResults(f, results)[i] = resolveFormula(Formula[f].children[i], results)
  BY <1>3 DEF SubResults
<1>5. Results(SubResults(f, results))
  <2>1. ASSUME NEW i \in 1..n
        PROVE  SubResults(f, results)[i].status \in Statuses
    BY <1>2, <1>3, <1>4, ResolvedTyped
  <2>2. QED
    BY <1>4, <2>1 DEF Results
<1>6. QED
  BY <1>1, <1>2, <1>3, <1>4, <1>5

(* A report names nothing but the references of the operations it is about.*)
LEMMA ReferencesAreOfLeafs ==
  ASSUME NEW form \in DOMAIN Formula, NEW results, Typed(form, results)
  PROVE  resolveFormula(form, results).references \subseteq UNION {results[id].references : id \in linearizeContractFormula[form]}
<1> DEFINE Refs(f) == UNION {results[id].references : id \in linearizeContractFormula[f]}
           S == {f \in DOMAIN Formula : Typed(f, results) => resolveFormula(f, results).references \subseteq Refs(f)}
<1>1. ASSUME NEW f \in DOMAIN Formula, Below(f) \subseteq S, Typed(f, results)
      PROVE  resolveFormula(f, results).references \subseteq Refs(f)
  <2>1. CASE f \in Leaf
    BY <2>1, LinearizedFacts, NodeIs
  <2>2. CASE f \notin Leaf
    <3> DEFINE sub == SubResults(f, results)
    <3>1. PICK n \in Nat \ {0} : /\ DOMAIN sub = 1..n
                                 /\ \A i \in 1..n : /\ sub[i] = resolveFormula(Formula[f].children[i], results)
                                                    /\ Formula[f].children[i] \in Below(f)
      BY <1>1, <2>2, SubResultsAre
    <3>2. \A i \in 1..n : sub[i].references \subseteq Refs(f)
      <4>1. ASSUME NEW c \in Below(f)
            PROVE  resolveFormula(c, results).references \subseteq Refs(f)
        <5>1. Refs(c) \subseteq Refs(f)
          BY <2>2, LinearizedFacts
        <5>2. Typed(c, results)
          BY <1>1, <2>2, SubResultsAre
        <5>3. QED
          BY <1>1, <5>1, <5>2
      <4>2. QED
        BY <3>1, <4>1
    <3>3. Results(sub)
      BY <1>1, <2>2, SubResultsAre
    <3> HIDE DEF sub, Refs
    <3>4. /\ resolveOR(sub).references \subseteq UNION {sub[i].references : i \in 1..n}
          /\ resolveXOR(sub).references \subseteq UNION {sub[i].references : i \in 1..n}
      BY <3>1, <3>3, ORNode, XORNode
    <3>5. UNION {sub[i].references : i \in 1..n} \subseteq Refs(f)
      BY <3>2
    <3>6. resolveFormula(f, results) = resolveOR(sub) \/ resolveFormula(f, results) = resolveXOR(sub)
      BY <1>1, <2>2, SubResultsAre DEF sub
    <3>7. QED
      BY <3>4, <3>5, <3>6
  <2>3. QED
    BY <2>1, <2>2
<1>2. DOMAIN Formula \subseteq S
  <2>1. \A f \in DOMAIN Formula : Below(f) \subseteq S => f \in S
    BY <1>1
  <2> HIDE DEF S
  <2>2. QED
    BY <2>1, InductiveFormulas
<1>3. QED
  BY <1>2

-----------------------------------------------------------------------------
(* Repairing one operation leaves the formulas without it alone.           *)
LEMMA RepairElsewhere ==
  ASSUME NEW form \in DOMAIN Formula, NEW results, NEW leaf, NEW result,
         Typed(form, results), leaf \notin linearizeContractFormula[form]
  PROVE  resolveFormula(form, [results EXCEPT ![leaf] = result]) = resolveFormula(form, results)
<1> DEFINE other == [results EXCEPT ![leaf] = result]
           S == {f \in DOMAIN Formula : Typed(f, results) /\ leaf \notin linearizeContractFormula[f] =>
                                          resolveFormula(f, other) = resolveFormula(f, results)}
<1>1. ASSUME NEW f \in DOMAIN Formula, Below(f) \subseteq S, Typed(f, results), leaf \notin linearizeContractFormula[f]
      PROVE  resolveFormula(f, other) = resolveFormula(f, results)
  <2>1. CASE f \in Leaf
    <3>1. f # leaf /\ f \in DOMAIN results
      BY <1>1, <2>1, LinearizedFacts DEF Typed
    <3>2. other[f] = results[f]
      BY <3>1
    <3>3. QED
      BY <2>1, <3>2, NodeIs
  <2>2. CASE f \notin Leaf
    <3>1. \A c \in Below(f) : leaf \notin linearizeContractFormula[c] /\ Typed(c, results)
      BY <1>1, <2>2, LinearizedFacts, SubResultsAre
    <3>2. \A c \in Below(f) : resolveFormula(c, other) = resolveFormula(c, results)
      BY <1>1, <3>1
    <3>3. \A i \in DOMAIN Formula[f].children : Formula[f].children[i] \in Below(f)
      BY DEF Below, Range
    <3>4. SubResults(f, other) = SubResults(f, results)
      BY <3>2, <3>3 DEF SubResults
    <3>5. QED
      BY <2>2, <3>4, NodeIs
  <2>3. QED
    BY <2>1, <2>2
<1>2. DOMAIN Formula \subseteq S
  <2>1. \A f \in DOMAIN Formula : Below(f) \subseteq S => f \in S
    BY <1>1
  <2> HIDE DEF S
  <2>2. QED
    BY <2>1, InductiveFormulas
<1>3. QED
  BY <1>2

(* In the formulas FaultsAreWatched speaks about, a broken formula reports *)
(* the references of an operation whose repair would do.                   *)
LEMMA BlamedIsReported ==
  ASSUME NEW form \in DOMAIN Formula, NEW results, NEW leaf \in DOMAIN results,
         Typed(form, results), FlatXOR[form], ToBlame(form, leaf, results)
  PROVE  results[leaf].references \subseteq resolveFormula(form, results).references
<1> DEFINE other == [results EXCEPT ![leaf] = Result("FULFILLED", {})]
           Broken(f) == resolveFormula(f, results).status = "BROKEN"
           Repaired(f) == resolveFormula(f, other).status # "BROKEN"
           Named(f) == results[leaf].references \subseteq resolveFormula(f, results).references
           S == {f \in DOMAIN Formula : Typed(f, results) /\ FlatXOR[f] /\ Broken(f) /\ Repaired(f) => Named(f)}
<1>1. /\ other[leaf].status = "FULFILLED"
      /\ DOMAIN other = DOMAIN results
      /\ \A id \in DOMAIN results : id # leaf => other[id] = results[id]
  BY DEF Result
<1>2. ASSUME NEW f \in DOMAIN Formula, Typed(f, results)
      PROVE  Typed(f, other)
  BY <1>1, <1>2 DEF Typed, Statuses
<1>3. ASSUME NEW f \in DOMAIN Formula, Typed(f, results), leaf \notin linearizeContractFormula[f]
      PROVE  resolveFormula(f, other) = resolveFormula(f, results)
  BY <1>3, RepairElsewhere
<1> HIDE DEF other
<1>4. ASSUME NEW f \in DOMAIN Formula, Below(f) \subseteq S, Typed(f, results), FlatXOR[f], Broken(f), Repaired(f)
      PROVE  Named(f)
  <2> DEFINE sub == SubResults(f, results)
             sub2 == SubResults(f, other)
             ch == Formula[f].children
  <2>1. CASE f \in Leaf
    <3>1. f = leaf
      <4>1. leaf \in linearizeContractFormula[f]
        BY <1>3, <1>4
      <4>2. QED
        BY <2>1, <4>1, LinearizedFacts
    <3>2. QED
      BY <2>1, <3>1, NodeIs
  <2>2. CASE f \notin Leaf
    <3>1. PICK n \in Nat \ {0} :
            /\ DOMAIN sub = 1..n /\ DOMAIN ch = 1..n
            /\ \A i \in 1..n : sub[i] = resolveFormula(ch[i], results) /\ ch[i] \in Below(f)
      BY <1>4, <2>2, SubResultsAre
    <3>2. /\ DOMAIN sub2 = 1..n
          /\ \A i \in 1..n : sub2[i] = resolveFormula(ch[i], other)
      BY <3>1 DEF SubResults
    <3>3. Results(sub) /\ Results(sub2)
      BY <1>2, <1>4, <2>2, SubResultsAre
    <3>4. \A c \in Below(f) : c \in DOMAIN Formula /\ Typed(c, results)
      BY <1>4, <2>2, SubResultsAre
    <3>5. \A c \in Below(f) : FlatXOR[c] /\ (Formula[f].kind = "XOR" => c \in Leaf)
      BY <1>4, FlatXORIs
    <3>6. \A i \in 1..n : sub2[i].status = sub[i].status \/ leaf \in linearizeContractFormula[ch[i]]
      BY <1>3, <3>1, <3>2, <3>4
    <3> HIDE DEF sub, sub2, S
    <3>7. CASE Formula[f].kind = "OR"
      <4>1. resolveFormula(f, results) = resolveOR(sub) /\ resolveFormula(f, other) = resolveOR(sub2)
        BY <2>2, <3>7, NodeIs DEF sub, sub2
      <4>2. /\ \A i \in 1..n : sub[i].status = "BROKEN"
            /\ \A i \in 1..n : sub[i].references \subseteq resolveOR(sub).references
        <5>1. resolveOR(sub).status = "BROKEN"
          BY <1>4, <4>1
        <5>2. \A i \in 1..n : sub[i].status = "BROKEN"
          BY <3>1, <3>3, <5>1, ORNode
        <5>3. QED
          BY <3>1, <3>3, <5>1, <5>2, ORNode
      <4>3. PICK i \in 1..n : sub2[i].status # "BROKEN"
        BY <1>4, <3>2, <3>3, <4>1, ORNode
      <4>4. Broken(ch[i]) /\ Repaired(ch[i])
        BY <3>1, <3>2, <4>2, <4>3
      <4>5. Named(ch[i])
        BY <1>4, <3>1, <3>4, <3>5, <4>4 DEF S
      <4>6. resolveFormula(ch[i], results).references \subseteq resolveFormula(f, results).references
        BY <3>1, <4>1, <4>2
      <4>7. QED
        BY <4>5, <4>6
    <3>8. CASE Formula[f].kind # "OR"
      <4>1. resolveFormula(f, results) = resolveXOR(sub) /\ resolveFormula(f, other) = resolveXOR(sub2)
        BY <2>2, <3>8, NodeIs DEF sub, sub2
      <4>2. \A i \in 1..n : ch[i] \in Leaf
        <5>1. Formula[f].kind = "XOR"
          BY <2>2, <3>8, FormulaAssumption
        <5>2. QED
          BY <3>1, <3>5, <5>1
      <4>3. \A i \in 1..n : /\ ch[i] = leaf => sub[i] = results[leaf] /\ sub2[i].status = "FULFILLED"
                            /\ ch[i] # leaf => sub2[i].status = sub[i].status
        <5>1. ASSUME NEW i \in 1..n
              PROVE  /\ ch[i] = leaf => sub[i] = results[leaf] /\ sub2[i].status = "FULFILLED"
                     /\ ch[i] # leaf => sub2[i].status = sub[i].status
          <6>1. ch[i] \in DOMAIN Formula /\ ch[i] \in Leaf /\ linearizeContractFormula[ch[i]] = {ch[i]}
            BY <3>1, <3>4, <4>2, LinearizedFacts
          <6>2. sub[i] = results[ch[i]] /\ sub2[i] = other[ch[i]]
            BY <3>1, <3>2, <6>1, NodeIs
          <6>3. QED
            BY <1>1, <3>6, <6>1, <6>2
        <5>2. QED
          BY <5>1
      <4>4. CASE \A i \in 1..n : sub[i].status = "BROKEN" /\ sub[i].references \subseteq resolveXOR(sub).references
        <5>1. PICK i \in 1..n : ch[i] = leaf
          <6>1. ASSUME \A i \in 1..n : ch[i] # leaf
                PROVE  FALSE
            <7>1. resolveFormula(f, other) = resolveFormula(f, results)
              <8>1. leaf \notin linearizeContractFormula[f]
                <9>1. linearizeContractFormula[f] = UNION {linearizeContractFormula[c] : c \in Below(f)}
                  BY <2>2, LinearizedIs
                <9>2. ASSUME NEW c \in Below(f), leaf \in linearizeContractFormula[c]
                      PROVE  FALSE
                  <10>1. \E i \in 1..n : c = ch[i]
                    BY <3>1 DEF Below, Range
                  <10>2. c \in Leaf /\ c # leaf
                    BY <4>2, <6>1, <10>1
                  <10>3. QED
                    BY <9>2, <10>2, LinearizedFacts
                <9>3. QED
                  BY <9>1, <9>2
              <8>2. QED
                BY <1>3, <1>4, <8>1
            <7>2. QED
              BY <1>4, <7>1
          <6>2. QED
            BY <6>1
        <5>2. QED
          BY <4>1, <4>3, <4>4, <5>1
      <4>5. CASE \E i, j \in 1..n : /\ j < i /\ sub[i].status = "FULFILLED" /\ sub[j].status = "FULFILLED"
                                    /\ \A k \in 1..n : k < i => sub[k].status # "UNKNOWN"
        <5>1. PICK i \in 1..n, j \in 1..n :
                /\ j < i /\ sub[i].status = "FULFILLED" /\ sub[j].status = "FULFILLED"
                /\ \A k \in 1..n : k < i => sub[k].status # "UNKNOWN"
          BY <4>5
        <5>2. /\ sub2[i].status = "FULFILLED" /\ sub2[j].status = "FULFILLED"
              /\ \A k \in 1..n : k < i => sub2[k].status # "UNKNOWN"
          BY <4>3, <5>1
        <5>3. resolveXOR(sub2).status = "BROKEN"
          BY <3>2, <3>3, <5>1, <5>2, XORNode
        <5>4. QED
          BY <1>4, <4>1, <5>3
      <4>6. resolveXOR(sub).status = "BROKEN"
        BY <1>4, <4>1
      <4>7. QED
        BY <3>1, <3>3, <4>4, <4>5, <4>6, XORNode
    <3>9. QED
      BY <3>7, <3>8
  <2>3. QED
    BY <2>1, <2>2
<1>5. DOMAIN Formula \subseteq S
  <2>1. \A f \in DOMAIN Formula : Below(f) \subseteq S => f \in S
    BY <1>4
  <2> HIDE DEF S
  <2>2. QED
    BY <2>1, InductiveFormulas
<1>6. Broken(form) /\ Repaired(form)
  BY DEF ToBlame, other
<1>7. QED
  BY <1>5, <1>6

-----------------------------------------------------------------------------
(* The passes.  Late are the states after the reports.                     *)
Late == passes \in {<<"Optimise", "Instrument">>, <<"Instrument">>, <<>>}
OrderKnown ==
  passes \in {PassList,
              <<"PostCall", "Release", "Param", "Alloc", "PostProcess", "Optimise", "Instrument">>,
              <<"Release", "Param", "Alloc", "PostProcess", "Optimise", "Instrument">>,
              <<"Param", "Alloc", "PostProcess", "Optimise", "Instrument">>,
              <<"Alloc", "PostProcess", "Optimise", "Instrument">>,
              <<"PostProcess", "Optimise", "Instrument">>} \/ Late

(* Accesses, and calls of functions that the instrumentation intercepts.   *)
Watchable == {s \in Site : Program[s].instr = "call" => Program[s].callee \in Intercepted}
CulpritRefs == {Reference(s) : s \in Culprits}

PipelineInv ==
  /\ OrderKnown
  /\ contracts \in Databases
  /\ DOMAIN leafs = AllLeafs
  /\ \A id \in AllLeafs : leafs[id].status \in Statuses /\ leafs[id].references \subseteq CulpritRefs
  /\ Late => err_msgs = Reported(contracts, leafs)
  /\ \A i \in code : i.site \in Site
  /\ Built => callback = [i \in code |-> Callback(i)]

(* One pass after the other.                                               *)
LEMMA OrderStep ==
  ASSUME OrderKnown, NEW pass, Next1(pass)
  PROVE  /\ OrderKnown'
         /\ Late => pass \in {"Optimise", "Instrument"}
         /\ Late' /\ ~Late => pass = "PostProcess"
         /\ Built' => pass = "Instrument"
         /\ ~Built
<1>1. /\ Late <=> passes = <<"Optimise", "Instrument">> \/ passes = <<"Instrument">> \/ passes = <<>>
      /\ passes # <<>> /\ pass = Head(passes) /\ passes' = Tail(passes)
  BY DEF Late, Next1
<1>2. CASE passes = <<"PreCall", "PostCall", "Release", "Param", "Alloc", "PostProcess", "Optimise", "Instrument">>
  BY <1>1, <1>2 DEF OrderKnown, Late, Built
<1>3. CASE passes = <<"PostCall", "Release", "Param", "Alloc", "PostProcess", "Optimise", "Instrument">>
  BY <1>1, <1>3 DEF OrderKnown, Late, Built
<1>4. CASE passes = <<"Release", "Param", "Alloc", "PostProcess", "Optimise", "Instrument">>
  BY <1>1, <1>4 DEF OrderKnown, Late, Built
<1>5. CASE passes = <<"Param", "Alloc", "PostProcess", "Optimise", "Instrument">>
  BY <1>1, <1>5 DEF OrderKnown, Late, Built
<1>6. CASE passes = <<"Alloc", "PostProcess", "Optimise", "Instrument">>
  BY <1>1, <1>6 DEF OrderKnown, Late, Built
<1>7. CASE passes = <<"PostProcess", "Optimise", "Instrument">>
  BY <1>1, <1>7 DEF OrderKnown, Late, Built
<1>8. CASE passes = <<"Optimise", "Instrument">>
  BY <1>1, <1>8 DEF OrderKnown, Late, Built
<1>9. CASE passes = <<"Instrument">>
  BY <1>1, <1>9 DEF OrderKnown, Late, Built
<1>10. QED
  BY <1>1, <1>2, <1>3, <1>4, <1>5, <1>6, <1>7, <1>8, <1>9 DEF OrderKnown, PassList

(* The formulas of a contract, and their operations.                       *)
LEMMA OperationOfContract ==
  ASSUME contracts \in Databases, NEW c \in contracts, NEW form \in Forms(c), NEW id \in linearizeContractFormula[form]
  PROVE  \E l \in Leafs("Pre") \cup Leafs("Post") : l.func = c.func /\ l.leaf = id
<1> DEFINE l == [func |-> c.func, leaf |-> id]
<1>1. form \in Range(c.Pre) \/ form \in Range(c.Post)
  BY DEF Forms
<1>2. form \in Range(c.Pre) => id \in Linearized(c["Pre"])
  BY DEF Linearized
<1>3. form \in Range(c.Post) => id \in Linearized(c["Post"])
  BY DEF Linearized
<1>4. ASSUME NEW scope \in {"Pre", "Post"}, id \in Linearized(c[scope])
      PROVE  l \in Leafs(scope)
  <2>1. l \in [func : {c.func}, leaf : Linearized(c[scope])]
    BY <1>4
  <2>2. QED
    BY <2>1 DEF Leafs
<1>5. l \in Leafs("Pre") \cup Leafs("Post")
  BY <1>1, <1>2, <1>3, <1>4
<1>6. l.func = c.func /\ l.leaf = id
  OBVIOUS
<1>7. QED
  BY <1>5, <1>6

(* They are all numbered, and their operations have results.               *)
LEMMA ContractFacts ==
  ASSUME contracts \in Databases, NEW c \in contracts
  PROVE  /\ Forms(c) \subseteq DOMAIN Formula
         /\ \A form \in Forms(c) : linearizeContractFormula[form] \subseteq AllLeafs
<1>1. c.Pre \in Seq(DOMAIN Formula) /\ c.Post \in Seq(DOMAIN Formula)
  BY DatabasesAssumption
<1>2. Forms(c) \subseteq DOMAIN Formula
  BY <1>1 DEF Forms, Range
<1>3. ASSUME NEW form \in Forms(c), NEW id \in linearizeContractFormula[form]
      PROVE  id \in AllLeafs
  BY OperationOfContract DEF AllLeafs
<1>4. QED
  BY <1>2, <1>3

(* An operation of a contract is one of a function that has a contract.    *)
LEMMA LeafsFacts ==
  ASSUME contracts \in Databases, NEW l \in Leafs("Pre") \cup Leafs("Post")
  PROVE  /\ l.func \in ContractFuncs
         /\ l.leaf \in AllLeafs
         /\ l.leaf \in Leaf
<1>1. PICK scope \in {"Pre", "Post"}, c \in contracts : l \in [func : {c.func}, leaf : Linearized(c[scope])]
  BY DEF Leafs
<1>2. l.func = c.func /\ l.leaf \in Linearized(c[scope])
  BY <1>1
<1>3. PICK form \in Range(c[scope]) : l.leaf \in linearizeContractFormula[form]
  BY <1>2 DEF Linearized
<1>4. form \in Forms(c)
  BY <1>3 DEF Forms
<1>5. form \in DOMAIN Formula
  BY <1>4, ContractFacts
<1>6. l.leaf \in Leaf
  BY <1>3, <1>5, LinearizedFacts
<1>7. QED
  BY <1>2, <1>6 DEF ContractFuncs, AllLeafs

(* An error names what it is about, and the instrumentation watches all    *)
(* instructions an error may be about.                                     *)
LEMMA ErrorsNameCulprits ==
  ASSUME NEW l \in Leafs("Pre") \cup Leafs("Post"), NEW refs \in Errors(l.func, l.leaf)
  PROVE  refs \subseteq CulpritRefs
<1>1. About(l.func, l.leaf) \subseteq Culprits
  BY DEF Culprits
<1>2. \A s \in About(l.func, l.leaf) : Reference(s) \in CulpritRefs
  BY <1>1 DEF CulpritRefs
<1>3. CASE Formula[l.leaf].kind = "RELEASE"
  <2>1. PICK forbidden \in Targets(Formula[l.leaf].forbidden), call \in CallsOf(l.func) :
          refs = {Reference(forbidden), Reference(call)}
    BY <1>3 DEF Errors
  <2>2. forbidden \in About(l.func, l.leaf) /\ call \in About(l.func, l.leaf)
    BY <1>3, <2>1 DEF About
  <2>3. QED
    BY <1>2, <2>1, <2>2
<1>4. CASE Formula[l.leaf].kind # "RELEASE"
  <2>1. PICK call \in CallsOf(l.func) : refs = {Reference(call)}
    BY <1>4 DEF Errors
  <2>2. QED
    BY <1>2, <2>1 DEF About
<1>5. QED
  BY <1>3, <1>4

(* Such an instruction is an access, or a call of a function that has a    *)
(* contract or is mentioned in one.                                        *)
LEMMA SubjectsAreWatchable ==
  ASSUME contracts \in Databases, NEW l \in Leafs("Pre") \cup Leafs("Post")
  PROVE  About(l.func, l.leaf) \subseteq Watchable
<1>1. l.func \in ContractFuncs /\ l.leaf \in AllLeafs /\ l.leaf \in Leaf
  BY LeafsFacts
<1>2. \A f \in Intercepted : CallsOf(f) \subseteq Watchable
  BY DEF CallsOf, Watchable
<1>3. CallsOf(l.func) \subseteq Watchable
  BY <1>1, <1>2 DEF Intercepted
<1>4. ASSUME Formula[l.leaf].kind = "RELEASE"
      PROVE  Targets(Formula[l.leaf].forbidden) \subseteq Watchable
  <2> DEFINE op == Formula[l.leaf].forbidden
  <2>1. op.kind \in {"CALL", "CALLTAG", "READ", "WRITE"}
    BY <1>1, <1>4, DatabasesAssumption
  <2>2. CASE op.kind = "CALL"
    <3>1. op.target \in Mentioned(Formula[l.leaf])
      BY <1>4, <2>2 DEF Mentioned
    <3>2. op.target \in Intercepted
      BY <1>1, <3>1 DEF Intercepted, mentioned_funcs
    <3>3. QED
      BY <1>2, <2>2, <3>2 DEF Targets
  <2>3. CASE op.kind = "CALLTAG"
    <3>1. Tagged(op.target) \subseteq Intercepted
      BY DEF Tagged, ContractFuncs, Intercepted
    <3>2. QED
      BY <1>2, <2>3, <3>1 DEF Targets
  <2>4. CASE op.kind = "READ" \/ op.kind = "WRITE"
    BY <2>4 DEF Targets, Watchable
  <2>5. QED
    BY <2>1, <2>2, <2>3, <2>4
<1>5. QED
  BY <1>3, <1>4 DEF About
(* What PipelineInv speaks about besides the variables of the step stays   *)
(* when the contracts do.                                                  *)
LEMMA ContractsStay ==
  ASSUME contracts' = contracts
  PROVE  AllLeafs' = AllLeafs /\ Intercepted' = Intercepted /\ CulpritRefs' = CulpritRefs
<1>1. AllLeafs' = AllLeafs
  BY DEF AllLeafs, Leafs
<1>2. Intercepted' = Intercepted
  BY <1>1 DEF Intercepted, ContractFuncs, mentioned_funcs
<1>3. CulpritRefs' = CulpritRefs
  BY DEF CulpritRefs, Culprits, Leafs, About, Targets, Tagged
<1>4. QED
  BY <1>1, <1>2, <1>3

(* A verifier gives verdicts, and no references but those of its errors.   *)
LEMMA VerifyStep ==
  ASSUME PipelineInv, NEW pass \in {"PreCall", "PostCall", "Release", "Param", "Alloc"}, Verify(pass)
  PROVE  PipelineInv'
<1> DEFINE mine == {l \in Leafs("Pre")  : Decides(pass, "Pre",  Formula[l.leaf].kind)}
                   \cup {l \in Leafs("Post") : Decides(pass, "Post", Formula[l.leaf].kind)}
           todo == {l \in mine : leafs[l.leaf].status = "UNKNOWN"}
           kept == IF pass # "Alloc" THEN {} ELSE {l \in Leafs("Post") : Promised("Post", Formula[l.leaf].kind)}
           all  == UNION {Verdicts(l.func, l.leaf) : l \in todo}
<1>1. PICK verdict \in [{l.leaf : l \in todo} -> all] :
        /\ \A l \in todo : verdict[l.leaf] \in Verdicts(l.func, l.leaf)
        /\ leafs' = [id \in DOMAIN leafs |->
                       IF id \in {l.leaf : l \in kept} THEN Result("FULFILLED", {})
                       ELSE IF id \in DOMAIN verdict THEN verdict[id] ELSE leafs[id]]
  BY Zenon DEF Verify
<1>2. /\ Next1(pass) /\ contracts' = contracts /\ code' = code /\ mode' = mode
  BY DEF Verify
<1>3. OrderKnown' /\ ~Late' /\ ~Built'
  BY <1>2, OrderStep DEF PipelineInv
<1>4. AllLeafs' = AllLeafs /\ CulpritRefs' = CulpritRefs
  BY <1>2, ContractsStay
<1>5. \A l \in todo : l \in Leafs("Pre") \cup Leafs("Post")
  OBVIOUS
<1> HIDE DEF todo, kept, all
<1>6. ASSUME NEW l \in todo
      PROVE  verdict[l.leaf].status \in Statuses /\ verdict[l.leaf].references \subseteq CulpritRefs
  <2>1. CASE verdict[l.leaf] = Result("FULFILLED", {})
    BY <2>1 DEF Result, Statuses
  <2>2. CASE \E refs \in Errors(l.func, l.leaf) : verdict[l.leaf] = Result("BROKEN", refs)
    <3>1. PICK refs \in Errors(l.func, l.leaf) : verdict[l.leaf] = Result("BROKEN", refs)
      BY <2>2
    <3>2. refs \subseteq CulpritRefs
      BY <1>5, ErrorsNameCulprits
    <3>3. QED
      BY <3>1, <3>2 DEF Result, Statuses
  <2>3. QED
    BY <1>1, <2>1, <2>2 DEF Verdicts
<1>7. ASSUME NEW id \in AllLeafs
      PROVE  leafs'[id].status \in Statuses /\ leafs'[id].references \subseteq CulpritRefs
  <2>1. CASE id \in {l.leaf : l \in kept}
    <3>1. leafs'[id] = Result("FULFILLED", {})
      BY <1>1, <2>1 DEF PipelineInv
    <3>2. QED
      BY <3>1 DEF Result, Statuses
  <2>2. CASE id \notin {l.leaf : l \in kept} /\ id \in DOMAIN verdict
    <3>1. leafs'[id] = verdict[id]
      BY <1>1, <2>2 DEF PipelineInv
    <3>2. \E l \in todo : id = l.leaf
      BY <2>2
    <3>3. QED
      BY <1>6, <3>1, <3>2
  <2>3. CASE id \notin {l.leaf : l \in kept} /\ id \notin DOMAIN verdict
    <3>1. leafs'[id] = leafs[id]
      BY <1>1, <2>3 DEF PipelineInv
    <3>2. QED
      BY <3>1 DEF PipelineInv
  <2>4. QED
    BY <2>1, <2>2, <2>3
<1>8. DOMAIN leafs' = AllLeafs
  BY <1>1 DEF PipelineInv
<1>9. (\A i \in code : i.site \in Site)' /\ contracts' \in Databases
  BY <1>2 DEF PipelineInv, Site
<1>10. QED
  BY <1>3, <1>4, <1>7, <1>8, <1>9 DEF PipelineInv

(* The reports, the optimisation and the instrumentation.                  *)
LEMMA LateSteps ==
  ASSUME PipelineInv, PostProcess \/ Optimise \/ Instrument
  PROVE  PipelineInv'
<1>1. contracts' = contracts /\ leafs' = leafs /\ mode' = mode
  BY DEF PostProcess, Optimise, Instrument
<1>2. AllLeafs' = AllLeafs /\ CulpritRefs' = CulpritRefs /\ Intercepted' = Intercepted
  BY <1>1, ContractsStay
<1>3. /\ contracts' \in Databases
      /\ (DOMAIN leafs = AllLeafs)'
      /\ (\A id \in AllLeafs : leafs[id].status \in Statuses /\ leafs[id].references \subseteq CulpritRefs)'
  BY <1>1, <1>2 DEF PipelineInv
<1>4. Reported(contracts, leafs)' = Reported(contracts, leafs)
  BY <1>1
<1>5. CASE PostProcess
  <2>1. OrderKnown' /\ ~Built'
    BY <1>5, OrderStep DEF PipelineInv, PostProcess
  <2>2. err_msgs' = Reported(contracts, leafs) /\ code' = code
    BY <1>5 DEF PostProcess
  <2>3. (\A i \in code : i.site \in Site)'
    BY <2>2 DEF PipelineInv, Site
  <2>4. QED
    BY <1>3, <1>4, <2>1, <2>2, <2>3 DEF PipelineInv
<1>6. CASE Optimise
  <2>1. OrderKnown' /\ ~Built' /\ (Late' => Late)
    BY <1>6, OrderStep DEF PipelineInv, Optimise
  <2>2. /\ err_msgs' = err_msgs
        /\ \E touched \in SUBSET Site : \E dropped \in SUBSET touched, copies \in SUBSET [site : touched, loc : Elsewhere] :
             code' = {i \in code : i.site \notin dropped} \cup copies
    BY <1>6 DEF Optimise
  <2>3. (\A i \in code : i.site \in Site)'
    BY <2>2 DEF PipelineInv, Site
  <2>4. QED
    BY <1>3, <1>4, <2>1, <2>2, <2>3 DEF PipelineInv
<1>7. CASE Instrument
  <2>1. OrderKnown' /\ (Late' => Late)
    BY <1>7, OrderStep DEF PipelineInv, Instrument
  <2>2. err_msgs' = err_msgs /\ code' = code /\ callback' = [i \in code |-> Callback(i)]
    BY <1>7 DEF Instrument
  <2>3. (\A i \in code : i.site \in Site)'
    BY <2>2 DEF PipelineInv, Site
  <2>4. [i \in code |-> Callback(i)]' = [i \in code |-> Callback(i)]
    BY <1>1, <1>2, <2>2 DEF Callback, HasCallback, isRelevant, Site
  <2>5. QED
    BY <1>3, <1>4, <2>1, <2>2, <2>3, <2>4 DEF PipelineInv
<1>8. QED
  BY <1>5, <1>6, <1>7

(* The runs of the program and the check leave the build as it is.         *)
LEMMA RunSteps ==
  ASSUME PipelineInv, PipelineConstant, Unchanged_build
  PROVE  PipelineInv'
<1>1. /\ contracts' = contracts /\ leafs' = leafs /\ mode' = mode /\ code' = code
      /\ passes' = passes /\ err_msgs' = err_msgs /\ callback' = callback
  BY DEF PipelineConstant, Unchanged_build
<1>2. AllLeafs' = AllLeafs /\ CulpritRefs' = CulpritRefs /\ Intercepted' = Intercepted
  BY <1>1, ContractsStay
<1>3. Late' = Late /\ OrderKnown' = OrderKnown /\ Built' = Built
  BY <1>1 DEF Late, OrderKnown, Built
<1>4. Reported(contracts, leafs)' = Reported(contracts, leafs)
  BY <1>1
<1>5. [i \in code |-> Callback(i)]' = [i \in code |-> Callback(i)]
  BY <1>1, <1>2 DEF Callback, HasCallback, isRelevant, Site
<1>6. Site' = Site
  BY DEF Site
<1>7. QED
  BY <1>1, <1>2, <1>3, <1>4, <1>5, <1>6 DEF PipelineInv

(* The invariant holds in every state.                                     *)
LEMMA PipelineInvariant == PipelineSpec => []PipelineInv
<1>1. Init => PipelineInv
  <2>1. SUFFICES ASSUME Init PROVE PipelineInv
    OBVIOUS
  <2>2. /\ contracts \in Databases /\ passes = PassList
        /\ leafs = [id \in AllLeafs |-> Result("UNKNOWN", {})]
        /\ code = {[site |-> s, loc |-> Reference(s)] : s \in Site}
    BY <2>1 DEF Init
  <2>3. OrderKnown
    BY <2>2 DEF OrderKnown
  <2>4. ~Late /\ ~Built
    BY <2>2 DEF Late, Built, PassList
  <2>5. \A id \in AllLeafs : leafs[id].status \in Statuses /\ leafs[id].references \subseteq CulpritRefs
    BY <2>2 DEF Result, Statuses
  <2>6. QED
    BY <2>2, <2>3, <2>4, <2>5 DEF PipelineInv
<1>2. PipelineInv /\ [Next]_vars => PipelineInv'
  <2>1. SUFFICES ASSUME PipelineInv, [Next]_vars PROVE PipelineInv'
    OBVIOUS
  <2>2. CASE \E pass \in {"PreCall", "PostCall", "Release", "Param", "Alloc"} : Verify(pass)
    BY <2>1, <2>2, VerifyStep
  <2>3. CASE PostProcess \/ Optimise \/ Instrument
    BY <2>1, <2>3, LateSteps
  <2>4. CASE (\E p \in Processes : printCoverageFile(p)) /\ PipelineConstant
    BY <2>1, <2>4, RunSteps DEF printCoverageFile
  <2>5. CASE CheckCoverage /\ PipelineConstant
    BY <2>1, <2>5, RunSteps DEF CheckCoverage
  <2>6. CASE UNCHANGED vars
    BY <2>1, <2>6, RunSteps DEF vars, PipelineConstant, Unchanged_build
  <2>7. QED
    BY <2>1, <2>2, <2>3, <2>4, <2>5, <2>6 DEF Next
<1>3. QED
  BY <1>1, <1>2, PTL DEF PipelineSpec

-----------------------------------------------------------------------------
(* The operations of a formula of a contract have results.                 *)
LEMMA FormsAreTyped ==
  ASSUME PipelineInv, NEW c \in contracts, NEW form \in Forms(c)
  PROVE  form \in DOMAIN Formula /\ Typed(form, leafs)
BY ContractFacts DEF PipelineInv, Typed

(* An instruction that is watched, and not left out by the mode, has a     *)
(* relevant callback where its location is in a report.                    *)
LEMMA WatchedIsRelevant ==
  ASSUME PipelineInv, Built, NEW i \in code, i.site \in Watchable, i.loc \in err_msgs, Instrumented(i)
  PROVE  callback[i] = "relevant"
<1>1. callback[i] = Callback(i)
  BY DEF PipelineInv
<1>2. HasCallback(i) /\ isRelevant(i)
  BY DEF HasCallback, isRelevant, Watchable, Accesses, Instrumented, Site
<1>3. QED
  BY <1>1, <1>2 DEF Callback

(* resolveFormula: a decided formula keeps its status whatever becomes of  *)
(* its undetermined operations, and one with none is decided.              *)
THEOREM VerdictsAreRight == PipelineSpec => []StaticVerdict
<1>1. PipelineInv => StaticVerdict
  <2>1. SUFFICES ASSUME PipelineInv, NEW c \in contracts, NEW form \in Forms(c)
                 PROVE  Agrees(form, leafs)
    BY DEF StaticVerdict
  <2> DEFINE ids == linearizeContractFormula[form]
             known == {id \in ids : leafs[id].status = "FULFILLED"}
             open  == {id \in ids : leafs[id].status = "UNKNOWN"}
             status == resolveFormula(form, leafs).status
  <2>2. form \in DOMAIN Formula /\ Typed(form, leafs)
    BY <2>1, FormsAreTyped
  <2>3. ASSUME NEW more \in SUBSET open, status # "UNKNOWN"
        PROVE  Holds(form, known \cup more) <=> status = "FULFILLED"
    <3>1. Fits(form, leafs, known \cup more)
      BY DEF Fits
    <3>2. RightVerdict(form, leafs, known \cup more)
      BY <2>2, <3>1, VerdictIsRight
    <3>3. QED
      BY <2>3, <3>2 DEF RightVerdict, Statuses
  <2>4. open = {} => status # "UNKNOWN"
    BY <2>2, ResolvedTyped
  <2>5. QED
    BY <2>3, <2>4 DEF Agrees
<1>2. QED
  BY <1>1, PipelineInvariant, PTL

(* instrumentFunctions, insertCBIfNeeded: an error that by itself breaks a *)
(* reported contract is watched by the instances of its instructions that  *)
(* the optimiser left at its locations.                                    *)
THEOREM FaultsWatched == PipelineSpec => []FaultsAreWatched
<1>1. PipelineInv => FaultsAreWatched
  <2>1. SUFFICES ASSUME PipelineInv, Built,
                        NEW c \in contracts, NEW form \in Forms(c), NEW leaf \in linearizeContractFormula[form],
                        c.xres = "UNKNOWN", FlatXOR[form], ToBlame(form, leaf, leafs),
                        NEW i \in code, i.loc \in leafs[leaf].references, i.site \in About(c.func, leaf), Instrumented(i)
                 PROVE  callback[i] = "relevant"
    BY Zenon DEF FaultsAreWatched, BuildEnded
  <2>2. form \in DOMAIN Formula /\ Typed(form, leafs)
    BY <2>1, FormsAreTyped
  <2>3. leaf \in DOMAIN leafs /\ leaf \in AllLeafs
    BY <2>1, <2>2, ContractFacts DEF PipelineInv
  <2>4. i.loc \in resolveFormula(form, leafs).references
    BY <2>1, <2>2, <2>3, BlamedIsReported
  <2>5. i.loc \in err_msgs
    <3>1. resolveFormula(form, leafs).status # "FULFILLED"
      BY <2>1 DEF ToBlame
    <3>2. i.loc \in checkExpressions(c, leafs).references
      BY <2>4, <3>1 DEF checkExpressions, Result, Forms
    <3>3. i.loc \in Reported(contracts, leafs)
      BY <2>1, <3>2 DEF Reported
    <3>4. QED
      BY <2>1, <3>3 DEF PipelineInv, Late, Built
  <2>6. i.site \in Watchable
    <3>1. contracts \in Databases
      BY <2>1 DEF PipelineInv
    <3>2. PICK l \in Leafs("Pre") \cup Leafs("Post") : l.func = c.func /\ l.leaf = leaf
      BY <3>1, OperationOfContract
    <3>3. QED
      BY <2>1, <3>1, <3>2, SubjectsAreWatchable
  <2>7. QED
    BY <2>1, <2>5, <2>6, WatchedIsRelevant
<1>2. QED
  BY <1>1, PipelineInvariant, PTL

(* createInstrumentation: no reference of the report is out of reach of    *)
(* the runs.                                                               *)
THEOREM CoverageInReach == PipelineSpec => []CoverageAttainable
<1>1. PipelineInv => CoverageAttainable
  <2>1. SUFFICES ASSUME PipelineInv, Built
                 PROVE  CoverageAttainable
    BY DEF CoverageAttainable, BuildEnded
  <2>2. ASSUME NEW ref \in err_msgs
        PROVE  ref \in CulpritRefs
    <3>1. ref \in Reported(contracts, leafs)
      BY <2>1 DEF PipelineInv, Late, Built
    <3>2. PICK c \in contracts : ref \in checkExpressions(c, leafs).references
      BY <3>1 DEF Reported
    <3>3. PICK form \in Forms(c) : ref \in resolveFormula(form, leafs).references
      BY <3>2 DEF checkExpressions, Result, Forms
    <3>4. form \in DOMAIN Formula /\ Typed(form, leafs)
      BY <2>1, FormsAreTyped
    <3>5. PICK id \in linearizeContractFormula[form] : ref \in leafs[id].references
      BY <3>3, <3>4, ReferencesAreOfLeafs
    <3>6. QED
      BY <2>1, <3>5, ContractFacts DEF PipelineInv
  <2>3. Culprits \subseteq Watchable
    BY <2>1, SubjectsAreWatchable DEF Culprits, PipelineInv
  <2>4. ASSUME NEW i \in code, isRelevant(i), Instrumented(i), i.site \in Culprits
        PROVE  callback[i] = "relevant"
    BY <2>1, <2>3, <2>4, WatchedIsRelevant DEF isRelevant
  <2>5. QED
    BY <2>2, <2>4 DEF CoverageAttainable, CulpritRefs
<1>2. QED
  BY <1>1, PipelineInvariant, PTL

(* insertFunctionInstrCallback: whatever function an operation waits for,  *)
(* its calls are intercepted.                                              *)
THEOREM NoDeafAnalysis == PipelineSpec => []Heard
<1>1. PipelineInv => Heard
  <2>1. SUFFICES ASSUME PipelineInv, Built,
                        NEW i \in code, Program[i.site].instr = "call",
                        NEW f \in ContractFuncs \cup UNION {Waited(Formula[leaf]) : leaf \in AllLeafs},
                        Program[i.site].callee = f
                 PROVE  callback[i] # "none"
    BY DEF Heard, BuildEnded
  <2>2. f \in Intercepted
    <3>1. CASE f \in ContractFuncs
      BY <3>1 DEF Intercepted
    <3>2. ASSUME NEW leaf \in AllLeafs, f \in Waited(Formula[leaf])
          PROVE  f \in Intercepted
      <4> DEFINE op == Formula[leaf]
      <4>1. Mentioned(op) \subseteq Intercepted
        BY DEF Intercepted, mentioned_funcs
      <4>2. leaf \in Leaf
        BY <2>1, LeafsFacts DEF PipelineInv, AllLeafs
      <4>3. ASSUME NEW o, f \in Listened(o), o.kind = "CALL" => o.target \in Intercepted
            PROVE  f \in Intercepted
        <5>1. CASE o.kind = "CALL"
          BY <4>3, <5>1 DEF Listened
        <5>2. CASE o.kind = "CALLTAG"
          BY <4>3, <5>2 DEF Listened, Tagged, Intercepted, ContractFuncs
        <5>3. CASE o.kind = "ALLOC"
          <6>1. PICK l \in Leafs("Post") : f = l.func
            BY <4>3, <5>3 DEF Listened
          <6>2. QED
            BY <2>1, <6>1, LeafsFacts DEF PipelineInv, Intercepted
        <5>4. CASE o.kind \notin {"CALL", "CALLTAG", "ALLOC"}
          BY <4>3, <5>4 DEF Listened
        <5>5. QED
          BY <5>1, <5>2, <5>3, <5>4
      <4>4. CASE op.kind = "RELEASE"
        <5>1. f \in Listened(op.forbidden) \/ f \in Listened(op.until)
          BY <3>2, <4>4 DEF Waited
        <5>2. \A o \in {op.forbidden, op.until} : o.kind = "CALL" => o.target \in Intercepted
          BY <4>1, <4>4 DEF Mentioned
        <5>3. QED
          BY <4>3, <5>1, <5>2
      <4>5. CASE op.kind # "RELEASE"
        <5>1. f \in Listened(op)
          BY <3>2, <4>5 DEF Waited
        <5>2. op.kind = "CALL" => op.target \in Intercepted
          BY <4>1 DEF Mentioned
        <5>3. QED
          BY <4>3, <5>1, <5>2
      <4>6. QED
        BY <4>4, <4>5
    <3>3. QED
      BY <2>1, <3>1, <3>2
  <2>3. HasCallback(i) /\ callback[i] = Callback(i)
    BY <2>1, <2>2 DEF PipelineInv, HasCallback
  <2>4. QED
    BY <2>3 DEF Callback
<1>2. QED
  BY <1>1, PipelineInvariant, PTL

-----------------------------------------------------------------------------
(* The whole build is a build in the sense of the module Coverage, so what *)
(* is proved below of the coverage check holds of it.                      *)
LEMMA PipelineImplementsCoverage == PipelineSpec => CoverageSpec
<1>1. Init => CoverageInit
  BY DEF Init
<1>2. [Next]_vars => [CoverageNext]_cvars
  <2>1. SUFFICES ASSUME [Next]_vars PROVE CoverageNext \/ UNCHANGED cvars
    OBVIOUS
  <2>2. ASSUME NEW pass, Next1(pass), Unchanged_run
        PROVE  CoverageNext
    BY <2>2 DEF CoverageNext, Building, Built, Next1
  <2>3. CASE \E pass \in {"PreCall", "PostCall", "Release", "Param", "Alloc"} : Verify(pass)
    BY <2>2, <2>3 DEF Verify
  <2>4. CASE PostProcess \/ Optimise \/ Instrument
    BY <2>2, <2>4 DEF PostProcess, Optimise, Instrument
  <2>5. CASE \E p \in Processes : printCoverageFile(p)
    BY <2>5 DEF CoverageNext
  <2>6. CASE CheckCoverage
    BY <2>6 DEF CoverageNext
  <2>7. CASE UNCHANGED vars
    BY <2>7 DEF vars, cvars
  <2>8. QED
    BY <2>1, <2>3, <2>4, <2>5, <2>6, <2>7 DEF Next
<1>3. QED
  BY <1>1, <1>2, PTL DEF PipelineSpec, CoverageSpec

-----------------------------------------------------------------------------
(* The processes that passed something.  Each of them has written the file *)
(* its owner function says, though another one may have overwritten it;    *)
(* the last to write a file is one of those that own it.                   *)
Writers == {p \in Processes : visitedLocs[p] # {}}
Owners(own) ==
  /\ own \in [Writers -> DOMAIN files]
  /\ \A n \in DOMAIN files : \E p \in Writers : own[p] = n /\ files[n] = visitedLocs[p]

(* The folder is made of what processes have passed, and once there is a   *)
(* report, it is about the folder and the references as they are.          *)
CoverageInv ==
  /\ DOMAIN visitedLocs = Processes
  /\ Writers \subseteq exited
  /\ \E own : Owners(own)
  /\ report # <<>> => Built /\ report[1] = Unvisited(err_msgs, files)

-----------------------------------------------------------------------------
(* A process that exits becomes the owner of the file it writes.           *)
LEMMA ExitOwns ==
  ASSUME CoverageInv, NEW p \in Processes, printCoverageFile(p)
  PROVE  \E own : Owners(own)'
<1>1. PICK own : Owners(own)
  BY DEF CoverageInv
<1>2. PICK locs \in SUBSET Relevant, name \in Names :
        visitedLocs' = [visitedLocs EXCEPT ![p] = locs] /\ files' = Written(files, name, locs)
  BY DEF printCoverageFile
<1>3. /\ p \notin Writers
      /\ \A q \in Processes : visitedLocs'[q] = IF q = p THEN locs ELSE visitedLocs[q]
  BY <1>2 DEF CoverageInv, printCoverageFile
<1>4. CASE locs = {}
  <2>1. files' = files
    BY <1>2, <1>4 DEF Written
  <2>2. Writers' = Writers /\ \A q \in Writers : visitedLocs'[q] = visitedLocs[q]
    BY <1>3, <1>4 DEF Writers
  <2>3. Owners(own)'
    BY <1>1, <2>1, <2>2 DEF Owners
  <2>4. QED
    BY <2>3
<1>5. CASE locs # {}
  <2> DEFINE new == [q \in Writers \cup {p} |-> IF q = p THEN name ELSE own[q]]
  <2>1. files' = [n \in DOMAIN files \cup {name} |-> IF n = name THEN locs ELSE files[n]]
    BY <1>2, <1>5 DEF Written
  <2>2. Writers' = Writers \cup {p}
    BY <1>3, <1>5 DEF Writers
  <2>3. new \in [Writers' -> DOMAIN files']
    BY <1>1, <2>1, <2>2 DEF Owners
  <2>4. ASSUME NEW n \in DOMAIN files'
        PROVE  \E q \in Writers' : new[q] = n /\ files'[n] = visitedLocs'[q]
    <3>1. CASE n = name
      BY <1>3, <2>1, <2>2, <3>1
    <3>2. CASE n # name
      <4>1. PICK q \in Writers : own[q] = n /\ files[n] = visitedLocs[q]
        BY <1>1, <2>1, <3>2 DEF Owners
      <4>2. q # p /\ q \in Processes
        BY <1>3 DEF Writers
      <4>3. QED
        BY <1>3, <2>1, <2>2, <3>2, <4>1, <4>2
    <3>3. QED
      BY <3>1, <3>2
  <2>5. Owners(new)'
    BY <2>3, <2>4 DEF Owners
  <2>6. QED
    BY <2>5
<1>6. QED
  BY <1>4, <1>5

(* A step that writes no file changes no owner.                            *)
LEMMA OwnersStay ==
  ASSUME CoverageInv, UNCHANGED <<exited, visitedLocs, files>>
  PROVE  /\ Writers' = Writers
         /\ \E own : Owners(own)'
<1>1. PICK own : Owners(own)
  BY DEF CoverageInv
<1>2. Writers' = Writers
  BY DEF Writers
<1>3. Owners(own)'
  BY <1>1, <1>2 DEF Owners
<1>4. QED
  BY <1>2, <1>3

(* Every step keeps the invariant.                                         *)
LEMMA CoverageStep ==
  ASSUME CoverageInv, [CoverageNext]_cvars
  PROVE  CoverageInv'
<1>1. CASE Building
  <2>1. UNCHANGED <<exited, visitedLocs, files, report>> /\ report = <<>>
    BY <1>1 DEF Building, Unchanged_run, CoverageInv
  <2>2. QED
    BY <2>1, OwnersStay DEF CoverageInv
<1>2. ASSUME NEW p \in Processes, printCoverageFile(p)
      PROVE  CoverageInv'
  <2>1. \E own : Owners(own)'
    BY <1>2, ExitOwns
  <2>2. report' = <<>> /\ exited' = exited \cup {p}
    BY <1>2 DEF printCoverageFile
  <2>3. /\ DOMAIN visitedLocs' = Processes
        /\ \A q \in Processes : q # p => visitedLocs'[q] = visitedLocs[q]
    BY <1>2 DEF printCoverageFile, CoverageInv
  <2>4. Writers' \subseteq exited'
    BY <2>2, <2>3 DEF CoverageInv, Writers
  <2>5. QED
    BY <2>1, <2>2, <2>3, <2>4 DEF CoverageInv
<1>3. CASE CheckCoverage
  <2>1. /\ report' = <<Unvisited(err_msgs, files)>> /\ Built
        /\ UNCHANGED <<passes, err_msgs, exited, visitedLocs, files>>
    BY <1>3 DEF CheckCoverage, Unchanged_build
  <2>2. report'[1] = Unvisited(err_msgs, files) /\ Built'
    BY <2>1 DEF Built
  <2>3. Unvisited(err_msgs, files)' = Unvisited(err_msgs, files)
    BY <2>1 DEF Unvisited, LinesOf
  <2>4. QED
    BY <2>1, <2>2, <2>3, OwnersStay DEF CoverageInv
<1>4. CASE UNCHANGED cvars
  <2>1. UNCHANGED <<passes, err_msgs, exited, visitedLocs, files, report>>
    BY <1>4 DEF cvars
  <2>2. Unvisited(err_msgs, files)' = Unvisited(err_msgs, files)
    BY <2>1 DEF Unvisited, LinesOf
  <2>3. QED
    BY <2>1, <2>2, OwnersStay DEF CoverageInv, Built
<1>5. QED
  BY <1>1, <1>2, <1>3, <1>4 DEF CoverageNext

(* The invariant holds in every state.                                     *)
LEMMA CoverageInvariant == CoverageSpec => []CoverageInv
<1>1. CoverageInit => CoverageInv
  <2>1. SUFFICES ASSUME CoverageInit PROVE CoverageInv
    OBVIOUS
  <2>2. Writers = {} /\ files = <<>> /\ DOMAIN visitedLocs = Processes /\ report = <<>>
    BY <2>1 DEF CoverageInit, Writers
  <2>3. DOMAIN files = {}
    BY <2>2
  <2>4. Owners([p \in {} |-> p])
    BY <2>2, <2>3 DEF Owners
  <2>5. QED
    BY <2>2, <2>4 DEF CoverageInv
<1>2. QED
  BY <1>1, CoverageStep, PTL DEF CoverageSpec

-----------------------------------------------------------------------------
(* PPDCV_Initialize: what is missing from the report has been passed.      *)
THEOREM ReportSound == CoverageSpec => []CoverageSound
<1>1. CoverageInv => CoverageSound
  <2>1. SUFFICES ASSUME CoverageInv, report # <<>>, NEW ref \in err_msgs \ report[1]
                 PROVE  Passed(ref)
    BY DEF CoverageSound
  <2>2. ref.line \in LinesOf(UNION Range(files))
    BY <2>1 DEF CoverageInv, Unvisited
  <2>3. PICK n \in DOMAIN files : ref.line \in LinesOf(files[n])
    BY <2>2 DEF LinesOf, Range
  <2>4. PICK p \in Processes : files[n] = visitedLocs[p]
    BY <2>1 DEF CoverageInv, Owners, Writers
  <2>5. QED
    BY <2>3, <2>4 DEF Passed
<1>2. QED
  BY <1>1, CoverageInvariant, PTL

(* If there are as many files as processes that passed something, every    *)
(* process finds what it has passed in a file.                             *)
LEMMA NothingOverwritten ==
  ASSUME CoverageInv, AllFilesThere, NEW p \in Writers
  PROVE  \E n \in DOMAIN files : files[n] = visitedLocs[p]
<1>1. PICK own : Owners(own)
  BY DEF CoverageInv
<1>2. IsFiniteSet(Writers)
  BY ProcessesAssumption, FS_Subset DEF Writers
<1>3. own \in Surjection(Writers, DOMAIN files)
  BY <1>1 DEF Owners, Surjection
<1>4. Cardinality(Writers) = Cardinality(DOMAIN files)
  BY DEF AllFilesThere, Writers
<1>5. own \in Injection(Writers, DOMAIN files)
  BY <1>2, <1>3, <1>4, FS_SurjSameCardinalityImpliesInj
<1>6. own \in [Writers -> DOMAIN files] /\ own[p] \in DOMAIN files
  BY <1>1 DEF Owners
<1>7. PICK q \in Writers : own[q] = own[p] /\ files[own[p]] = visitedLocs[q]
  BY <1>1, <1>6 DEF Owners
<1>8. q = p
  BY <1>5, <1>6, <1>7 DEF Injection, IsInjective
<1>9. QED
  BY <1>6, <1>7, <1>8

(* PPDCV_Initialize: with all files there, the report lists nothing that   *)
(* has been passed.                                                        *)
THEOREM ReportExact == CoverageSpec => []CoverageExact
<1>1. CoverageInv => CoverageExact
  <2>1. SUFFICES ASSUME CoverageInv, report # <<>>, AllFilesThere, NEW ref \in report[1], Passed(ref)
                 PROVE  FALSE
    BY DEF CoverageExact
  <2>2. PICK p \in Processes : ref.line \in LinesOf(visitedLocs[p])
    BY <2>1 DEF Passed
  <2>3. p \in Writers
    BY <2>2 DEF LinesOf, Writers
  <2>4. PICK n \in DOMAIN files : files[n] = visitedLocs[p]
    BY <2>1, <2>3, NothingOverwritten
  <2>5. ref.line \in LinesOf(UNION Range(files))
    BY <2>2, <2>4 DEF LinesOf, Range
  <2>6. QED
    BY <2>1, <2>5 DEF CoverageInv, Unvisited
<1>2. QED
  BY <1>1, CoverageInvariant, PTL
================================================================================
