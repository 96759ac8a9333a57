---------------------------- MODULE VectorProofs -----------------------------
(***************************************************************************)
(* The verdicts of the analyses that keep vectors and erase from them are  *)
(* what their operations mean on the history of the program.  The call     *)
(* sites of Release, in two vectors that it changes side by side, are the  *)
(* calls of the supplier that protect something; the list of Alloc holds,  *)
(* while the program's own code runs, exactly the blocks that are          *)
(* allocated, each of them once.                                           *)
(*                                                                         *)
(* Then what is reported about the contracts of a running program, over    *)
(* the history of its calls: the meaning of the operations and the climb   *)
(* through the connectives (ResolutionProofs) put together.                *)
(***************************************************************************)
EXTENDS RuntimeProofs

(* The positions a loop keeps, as it erases the others.                    *)
LEMMA SelectFacts ==
  ASSUME NEW s, IsList(s), NEW K \in SUBSET (1..Len(s)), NEW idx, idx = Filter(Indices(s), K)
  PROVE  /\ IsList(idx) /\ Len(idx) \in Nat
         /\ \A k \in 1..Len(idx) : idx[k] \in K
         /\ \A i \in K : \E k \in 1..Len(idx) : idx[k] = i
         /\ \A j, k \in 1..Len(idx) : idx[j] = idx[k] => j = k
<1> DEFINE n == Len(s)
           r == Indices(s)
<1>1. n \in Nat /\ r = [i \in 1..n |-> i]
  BY ListFacts DEF Indices
<1>2. r \in Seq(1..n) /\ Len(r) = n
  BY <1>1, SeqDef, LenProperties
<1>3. Distinct(r) /\ Elements(r) = 1..n
  BY <1>1, <1>2 DEF Distinct, Elements
<1> HIDE DEF n, r
<1>4. idx \in Seq(1..n) /\ Elements(idx) = (1..n) \cap K /\ Distinct(idx)
  BY <1>2, <1>3, FilterElements, FilterDistinct DEF r
<1>5. (1..n) \cap K = K
  BY DEF n
<1>6. IsList(idx) /\ Len(idx) \in Nat
  BY <1>4, SeqIsList, LenProperties
<1>7. QED
  BY <1>4, <1>5, <1>6 DEF Elements, Distinct

(* Selecting positions gives a list of as many elements.                   *)
LEMMA SelectIsList ==
  ASSUME NEW s, NEW idx, Len(idx) \in Nat
  PROVE  /\ IsList(Select(s, idx)) /\ Len(Select(s, idx)) = Len(idx)
         /\ \A k \in 1..Len(idx) : Select(s, idx)[k] = s[idx[k]]
<1> DEFINE t == [k \in 1..Len(idx) |-> s[idx[k]]]
           E == {t[k] : k \in 1..Len(idx)}
<1>1. t \in [1..Len(idx) -> E]
  OBVIOUS
<1>2. t \in Seq(E)
  BY <1>1, SeqDef
<1>3. Len(t) = Len(idx)
  BY <1>2, LenProperties
<1>4. t = Select(s, idx)
  BY DEF Select
<1>5. \A k \in 1..Len(idx) : t[k] = s[idx[k]]
  OBVIOUS
<1> HIDE DEF t, E
<1>6. IsList(t)
  BY <1>2, SeqIsList
<1>7. QED
  BY <1>3, <1>4, <1>5, <1>6

-----------------------------------------------------------------------------
(* What protects what, seen from the latest event.                         *)
LEMMA OpenProtects ==
  ASSUME NEW l, NEW n \in Nat, NEW k \in 1..n, DOMAIN history = 1..n, NEW i
  PROVE  Protects(l, i, k) <=> i \in OpenTo(l, k - 1)
<1> DEFINE S == CallsOf({operation[l].supplier})
           R == CallsOf(operation[l].releases)
<1>1. S \subseteq 1..n /\ R \subseteq 1..n
  BY DEF CallsOf, Calls
<1>2. OpenTo(l, k - 1) =
        {j \in {h \in S : h <= k - 1} :
           /\ ~\E h \in {g \in S : g <= k - 1} : j < h /\ SameLocation(j, h)
           /\ ~\E m \in R : j < m /\ m <= k - 1 /\ Matches(operation[l].relParams, m, j, m)}
  BY DEF OpenTo
<1>3. Protects(l, i, k) <=>
        /\ i \in S /\ i < k
        /\ ~\E j \in S : i < j /\ j < k /\ SameLocation(i, j)
        /\ ~\E m \in R : i < m /\ m < k /\ Matches(operation[l].relParams, m, i, m)
  BY DEF Protects
<1> HIDE DEF S, R
<1>4. (\A j \in S : j < k <=> j <= k - 1) /\ (\A m \in R : m < k <=> m <= k - 1)
  BY <1>1
<1>5. QED
  BY <1>2, <1>3, <1>4

(* Open operations are positions of the history.                           *)
LEMMA OpenSubset ==
  ASSUME NEW l, NEW n \in Nat, NEW k \in Nat, DOMAIN history = 1..n
  PROVE  OpenTo(l, k) \subseteq 1..n /\ \A i \in OpenTo(l, k) : i <= k
BY DEF OpenTo, CallsOf, Calls

(* An event breaks the operation anew when it is forbidden to an open one. *)
LEMMA BrokenNext ==
  ASSUME NEW l, NEW n \in Nat, DOMAIN history = 1..n + 1
  PROVE  BrokenTo(l, n + 1) <=> BrokenTo(l, n) \/ \E i \in OpenTo(l, n) : Forbidden(l, i, n + 1)
<1>1. \A i : Protects(l, i, n + 1) <=> i \in OpenTo(l, n)
  <2>1. n + 1 \in Nat /\ n + 1 \in 1..n + 1 /\ (n + 1) - 1 = n
    OBVIOUS
  <2>2. \A i : Protects(l, i, n + 1) <=> i \in OpenTo(l, (n + 1) - 1)
    BY <2>1, OpenProtects
  <2>3. QED
    BY <2>1, <2>2
<1>2. \A i \in OpenTo(l, n) : i \in 1..n
  BY OpenSubset
<1>3. \A i, k \in 1..n + 1 : Protects(l, i, k) => i < k
  BY DEF Protects
<1>4. BrokenTo(l, n + 1) <=> \E i, k \in 1..n + 1 : Protects(l, i, k) /\ Forbidden(l, i, k)
  BY DEF BrokenTo
<1>5. BrokenTo(l, n) <=> \E i, k \in 1..n : Protects(l, i, k) /\ Forbidden(l, i, k)
  BY DEF BrokenTo
<1>6. ASSUME NEW i \in 1..n + 1, NEW k \in 1..n + 1, Protects(l, i, k), Forbidden(l, i, k)
      PROVE  BrokenTo(l, n) \/ \E j \in OpenTo(l, n) : Forbidden(l, j, n + 1)
  <2>1. CASE k = n + 1
    BY <1>1, <1>6, <2>1
  <2>2. CASE k # n + 1
    <3>1. k \in 1..n /\ i \in 1..n
      BY <1>3, <1>6, <2>2
    <3>2. QED
      BY <1>5, <1>6, <3>1
  <2>3. QED
    BY <2>1, <2>2
<1>7. ASSUME NEW i \in OpenTo(l, n), Forbidden(l, i, n + 1)
      PROVE  BrokenTo(l, n + 1)
  <2>1. i \in 1..n + 1 /\ n + 1 \in 1..n + 1
    BY <1>2
  <2>2. QED
    BY <1>1, <1>4, <1>7, <2>1
<1>8. ASSUME BrokenTo(l, n)
      PROVE  BrokenTo(l, n + 1)
  <2>1. \A i \in 1..n : i \in 1..n + 1
    OBVIOUS
  <2>2. QED
    BY <1>4, <1>5, <1>8, <2>1
<1>9. QED
  BY <1>4, <1>6, <1>7, <1>8

(* An access opens and releases nothing, and the past does not change.     *)
LEMMA OpenStable ==
  ASSUME HistoryGrows, NEW l, NEW m \in {Len(history), Len(history) + 1},
         m = Len(history) \/ history'[Len(history) + 1].kind # "call"
  PROVE  OpenTo(l, m)' = OpenTo(l, Len(history))
<1> DEFINE n == Len(history)
           S == CallsOf({operation[l].supplier})
           R == CallsOf(operation[l].releases)
           P == operation[l].relParams
<1>0. m \in {n, n + 1} /\ n \in Nat
  BY DEF HistoryGrows
<1>1. /\ S \subseteq 1..n /\ R \subseteq 1..n
      /\ \A i \in 1..n : (i \in S' <=> i \in S) /\ (i \in R' <=> i \in R)
      /\ S' \subseteq 1..n + 1 /\ R' \subseteq 1..n + 1
      /\ m = n + 1 => n + 1 \notin S' /\ n + 1 \notin R'
  BY <1>0, CallsGrow
<1>2. \A i, k \in 1..n : Matches(P, k, i, k)' <=> Matches(P, k, i, k)
  BY MatchesStable
<1>3. \A i, j \in 1..n : SameLocation(i, j)' <=> SameLocation(i, j)
  BY DEF SameLocation, HistoryGrows
<1>4. OpenTo(l, n) =
        {i \in {j \in S : j <= n} : /\ ~\E j \in {j \in S : j <= n} : i < j /\ SameLocation(i, j)
                                    /\ ~\E k \in R : i < k /\ k <= n /\ Matches(P, k, i, k)}
  BY DEF OpenTo
<1>5. OpenTo(l, m)' =
        {i \in {j \in S' : j <= m} : /\ ~\E j \in {j \in S' : j <= m} : i < j /\ SameLocation(i, j)'
                                     /\ ~\E k \in R' : i < k /\ k <= m /\ Matches(P, k, i, k)'}
  BY DEF OpenTo
<1> HIDE DEF n, S, R, P
<1>6. {j \in S : j <= n} = S
  <2>1. \A j \in S : j <= n
    BY <1>0, <1>1
  <2>2. QED
    BY <2>1
<1>7. {j \in S' : j <= m} = S
  <2>1. \A j \in S : j \in S' /\ j <= m
    BY <1>0, <1>1
  <2>2. \A j \in S' : j <= m => j \in S
    BY <1>0, <1>1
  <2>3. QED
    BY <2>1, <2>2
<1>8. \A k : (k \in R /\ k <= n) <=> k \in R' /\ k <= m
  <2>1. \A k \in R : k <= n /\ k \in R' /\ k <= m
    BY <1>0, <1>1
  <2>2. \A k \in R' : k <= m => k \in R
    BY <1>0, <1>1
  <2>3. QED
    BY <2>1, <2>2
<1>9. \A i \in S : (\E k \in R' : i < k /\ k <= m /\ Matches(P, k, i, k)')
                     <=> \E k \in R : i < k /\ k <= n /\ Matches(P, k, i, k)
  BY <1>1, <1>2, <1>8
<1>10. \A i \in S : (\E j \in S : i < j /\ SameLocation(i, j)') <=> \E j \in S : i < j /\ SameLocation(i, j)
  BY <1>1, <1>3
<1>11. OpenTo(l, m)' = OpenTo(l, n)
  BY <1>4, <1>5, <1>6, <1>7, <1>9, <1>10
<1>12. QED
  BY <1>11 DEF n

(* A violation in the past stays; an event that is not forbidden adds      *)
(* none.                                                                   *)
LEMMA BrokenSoFar ==
  ASSUME HistoryGrows, NEW l, NEW n, n = Len(history), NEW m \in {n, n + 1}
  PROVE  /\ BrokenTo(l, n) => BrokenTo(l, m)'
         /\ (m = n \/ \A i : ~Forbidden(l, i, n + 1)') => (BrokenTo(l, m)' => BrokenTo(l, n))
<1> DEFINE S == CallsOf({operation[l].supplier})
           R == CallsOf(operation[l].releases)
           P == operation[l].relParams
<1>0. m \in {n, n + 1} /\ n \in Nat
  BY DEF HistoryGrows
<1>1. /\ S \subseteq 1..n /\ R \subseteq 1..n
      /\ \A i \in 1..n : (i \in S' <=> i \in S) /\ (i \in R' <=> i \in R)
      /\ S' \subseteq 1..n + 1 /\ R' \subseteq 1..n + 1
  BY <1>0, CallsGrow
<1>2. \A i, k \in 1..n : Matches(P, k, i, k)' <=> Matches(P, k, i, k)
  BY MatchesStable
<1>3. \A i, j \in 1..n : SameLocation(i, j)' <=> SameLocation(i, j)
  BY DEF SameLocation, HistoryGrows
<1>4. \A i, k \in 1..n : Forbidden(l, i, k)' <=> Forbidden(l, i, k)
  <2>1. ASSUME NEW i \in 1..n, NEW k \in 1..n
        PROVE  Forbidden(l, i, k)' <=> Forbidden(l, i, k)
    <3>1. history'[i] = history[i] /\ history'[k] = history[k]
      BY DEF HistoryGrows
    <3>2. Matches(operation[l].forbParams, k, i, k)' <=> Matches(operation[l].forbParams, k, i, k)
      BY MatchesStable
    <3>3. QED
      BY <3>1, <3>2 DEF Forbidden
  <2>2. QED
    BY <2>1
<1>5. ASSUME NEW i \in 1..n, NEW k \in 1..n
      PROVE  Protects(l, i, k)' <=> Protects(l, i, k)
  <2>1. Protects(l, i, k) <=>
          /\ i \in S /\ i < k
          /\ ~\E j \in S : i < j /\ j < k /\ SameLocation(i, j)
          /\ ~\E h \in R : i < h /\ h < k /\ Matches(P, h, i, h)
    BY DEF Protects
  <2>2. Protects(l, i, k)' <=>
          /\ i \in S' /\ i < k
          /\ ~\E j \in S' : i < j /\ j < k /\ SameLocation(i, j)'
          /\ ~\E h \in R' : i < h /\ h < k /\ Matches(P, h, i, h)'
    BY DEF Protects
  <2> HIDE DEF S, R, P
  <2>3. (\A j \in S : j < k => j \in S' /\ j \in 1..n) /\ (\A j \in S' : j < k => j \in S /\ j \in 1..n)
    BY <1>0, <1>1
  <2>4. (\A j \in R : j < k => j \in R' /\ j \in 1..n) /\ (\A j \in R' : j < k => j \in R /\ j \in 1..n)
    BY <1>0, <1>1
  <2>5. (\E j \in S' : i < j /\ j < k /\ SameLocation(i, j)') <=> \E j \in S : i < j /\ j < k /\ SameLocation(i, j)
    BY <1>3, <2>3
  <2>6. (\E h \in R' : i < h /\ h < k /\ Matches(P, h, i, h)') <=> \E h \in R : i < h /\ h < k /\ Matches(P, h, i, h)
    BY <1>2, <2>4
  <2>7. QED
    BY <1>1, <2>1, <2>2, <2>5, <2>6
<1>6. BrokenTo(l, n) <=> \E i, k \in 1..n : Protects(l, i, k) /\ Forbidden(l, i, k)
  BY DEF BrokenTo
<1>7. BrokenTo(l, m)' <=> \E i, k \in 1..m : Protects(l, i, k)' /\ Forbidden(l, i, k)'
  BY DEF BrokenTo
<1>8. \A i, k : Protects(l, i, k)' => i < k
  BY DEF Protects
<1> HIDE DEF S, R, P
<1>9. \A i \in 1..n : i \in 1..m
  BY <1>0
<1>10. BrokenTo(l, n) => BrokenTo(l, m)'
  BY <1>4, <1>5, <1>6, <1>7, <1>9
<1>11. ASSUME m = n \/ (\A i : ~Forbidden(l, i, n + 1)'), BrokenTo(l, m)'
       PROVE  BrokenTo(l, n)
  <2>1. PICK i \in 1..m, k \in 1..m : Protects(l, i, k)' /\ Forbidden(l, i, k)'
    BY <1>7, <1>11
  <2>2. i < k
    BY <1>8, <2>1
  <2>3. k # n + 1
    BY <1>0, <1>11, <2>1
  <2>4. k \in 1..n /\ i \in 1..n
    BY <1>0, <2>2, <2>3
  <2>5. QED
    BY <1>4, <1>5, <1>6, <2>1, <2>4
<1>12. QED
  BY <1>10, <1>11

(* How the latest event changes what is open.                              *)
LEMMA OpenNext ==
  ASSUME NEW l, NEW n \in Nat, DOMAIN history = 1..n + 1,
         NEW S, S = CallsOf({operation[l].supplier}), NEW R, R = CallsOf(operation[l].releases)
  PROVE  /\ n + 1 \notin S /\ n + 1 \notin R => OpenTo(l, n + 1) = OpenTo(l, n)
         /\ n + 1 \notin S /\ n + 1 \in R =>
              OpenTo(l, n + 1) = {i \in OpenTo(l, n) : ~Matches(operation[l].relParams, n + 1, i, n + 1)}
         /\ n + 1 \in S /\ n + 1 \notin R =>
              OpenTo(l, n + 1) = {i \in OpenTo(l, n) : ~SameLocation(i, n + 1)} \cup {n + 1}
<1> DEFINE P   == operation[l].relParams
           Old == OpenTo(l, n)
           New == OpenTo(l, n + 1)
<1>1. /\ S \subseteq 1..n + 1 /\ R \subseteq 1..n + 1
      /\ {i \in S : i <= n + 1} = S /\ {i \in S : i <= n} = S \ {n + 1}
  BY LatestCall
<1>2. Old = {i \in S \ {n + 1} : /\ ~\E j \in S \ {n + 1} : i < j /\ SameLocation(i, j)
                                 /\ ~\E k \in R : i < k /\ k <= n /\ Matches(P, k, i, k)}
  BY <1>1 DEF OpenTo
<1>3. New = {i \in S : /\ ~\E j \in S : i < j /\ SameLocation(i, j)
                       /\ ~\E k \in R : i < k /\ k <= n + 1 /\ Matches(P, k, i, k)}
  BY <1>1 DEF OpenTo
<1> HIDE DEF P, Old, New
<1>4. \A k \in R : k <= n + 1 /\ (k <= n <=> k # n + 1) /\ ~(k > n + 1)
  BY <1>1
<1>5. \A i \in S : i <= n + 1 /\ (i # n + 1 => i < n + 1) /\ ~(i > n + 1)
  <2>1. \A i \in 1..n + 1 : i <= n + 1 /\ (i # n + 1 => i < n + 1) /\ ~(i > n + 1)
    OBVIOUS
  <2>2. QED
    BY <1>1, <2>1
<1>6. CASE n + 1 \notin S /\ n + 1 \notin R
  <2>1. S \ {n + 1} = S
    BY <1>6
  <2>2. \A k \in R : k <= n + 1 <=> k <= n
    BY <1>4, <1>6
  <2>3. New = Old
    BY <1>2, <1>3, <2>1, <2>2
  <2>4. QED
    BY <1>6, <2>3 DEF New, Old
<1>7. CASE n + 1 \notin S /\ n + 1 \in R
  <2>1. S \ {n + 1} = S
    BY <1>7
  <2>2. \A i \in S : (\E k \in R : i < k /\ k <= n + 1 /\ Matches(P, k, i, k))
                       <=> \/ \E k \in R : i < k /\ k <= n /\ Matches(P, k, i, k)
                           \/ Matches(P, n + 1, i, n + 1)
    <3>1. \A i \in S : i < n + 1
      BY <1>5, <1>7
    <3>2. n + 1 <= n + 1
      OBVIOUS
    <3>3. QED
      BY <1>4, <1>7, <3>1, <3>2
  <2>3. \A i : i \in New <=> i \in Old /\ ~Matches(P, n + 1, i, n + 1)
    BY <1>2, <1>3, <2>1, <2>2
  <2>4. New = {i \in Old : ~Matches(P, n + 1, i, n + 1)}
    BY <2>3
  <2>5. QED
    BY <1>7, <2>4 DEF New, Old, P
<1>8. CASE n + 1 \in S /\ n + 1 \notin R
  <2>1. \A k \in R : k <= n + 1 /\ k <= n /\ ~(n + 1 < k)
    BY <1>4, <1>8
  <2>2. n + 1 \in New
    <3>1. \A j \in S : ~(n + 1 < j)
      BY <1>5
    <3>2. QED
      BY <1>3, <1>8, <2>1, <3>1
  <2>3. \A i : i # n + 1 => (i \in New <=> i \in Old /\ ~SameLocation(i, n + 1))
    <3>1. \A i \in S \ {n + 1} : (\E j \in S : i < j /\ SameLocation(i, j))
             <=> (\E j \in S \ {n + 1} : i < j /\ SameLocation(i, j)) \/ SameLocation(i, n + 1)
      BY <1>5, <1>8
    <3>2. QED
      BY <1>2, <1>3, <2>1, <3>1
  <2>4. n + 1 \notin Old
    BY <1>2
  <2>5. New = {i \in Old : ~SameLocation(i, n + 1)} \cup {n + 1}
    BY <2>2, <2>3, <2>4
  <2>6. QED
    BY <1>8, <2>5 DEF New, Old
<1>9. QED
  BY <1>6, <1>7, <1>8

-----------------------------------------------------------------------------
(* The two vectors.                                                        *)
Events(O) == {history[i].event : i \in O}
At(s, K)  == {s[k] : k \in K}
(* Erasing the same positions of both vectors keeps them in step.          *)
LEMMA SitesReleased ==
  ASSUME NEW l, NEW st, NEW O, Sites(l, st, O), NEW K \in SUBSET (1..Len(st.callsites)),
         NEW idx, idx = Filter(Indices(st.callsites), K),
         NEW new, new.callsites = Select(st.callsites, idx),
         new.mem = SelectMem(operation[l], st.mem, idx),
         NEW U, Events(U) = At(st.callsites, K)
  PROVE  Sites(l, new, U)
<1> DEFINE s == st.callsites
           t == new.callsites
<1>1. IsList(s)
  BY DEF Sites
<1>2. /\ IsList(idx) /\ Len(idx) \in Nat
      /\ \A k \in 1..Len(idx) : idx[k] \in K
      /\ \A i \in K : \E k \in 1..Len(idx) : idx[k] = i
      /\ \A j, k \in 1..Len(idx) : idx[j] = idx[k] => j = k
  BY <1>1, SelectFacts
<1>3. /\ IsList(t) /\ Len(t) = Len(idx)
      /\ \A k \in 1..Len(idx) : t[k] = s[idx[k]]
  BY <1>2, SelectIsList
<1>4. Elements(t) = {s[k] : k \in K}
  <2>1. Elements(t) = {t[k] : k \in 1..Len(idx)}
    BY <1>3 DEF Elements
  <2> HIDE DEF s, t
  <2>2. ASSUME NEW k \in 1..Len(idx)
        PROVE  t[k] \in {s[i] : i \in K}
    <3>1. idx[k] \in K /\ t[k] = s[idx[k]]
      BY <1>2, <1>3
    <3>2. QED
      BY <3>1
  <2>3. \A i \in K : s[i] \in {t[k] : k \in 1..Len(idx)}
    BY <1>2, <1>3
  <2>4. QED
    BY <2>1, <2>2, <2>3
<1>5. ASSUME NEW a \in 1..Len(t), NEW b \in 1..Len(t), t[a].location = t[b].location
      PROVE  a = b
  <2>1. s[idx[a]].location = s[idx[b]].location /\ idx[a] \in 1..Len(s) /\ idx[b] \in 1..Len(s)
    BY <1>2, <1>3, <1>5
  <2>2. idx[a] = idx[b]
    BY <2>1 DEF Sites
  <2>3. QED
    BY <1>2, <1>3, <1>5, <2>2
<1>6. ASSUME operation[l].forbIsRW
      PROVE  /\ IsList(new.mem) /\ Len(new.mem) = Len(t)
             /\ \A a \in 1..Len(new.mem) : new.mem[a] = t[a].params[operation[l].rwIdx]
  <2>1. new.mem = Select(st.mem, idx)
    BY <1>6 DEF SelectMem
  <2>2. /\ IsList(new.mem) /\ Len(new.mem) = Len(idx)
        /\ \A k \in 1..Len(idx) : new.mem[k] = st.mem[idx[k]]
    BY <1>2, <2>1, SelectIsList
  <2>3. \A k \in 1..Len(idx) : idx[k] \in 1..Len(st.mem)
    BY <1>2, <1>6 DEF Sites
  <2>4. \A k \in 1..Len(idx) : st.mem[idx[k]] = s[idx[k]].params[operation[l].rwIdx]
    BY <1>6, <2>3 DEF Sites
  <2>5. QED
    BY <1>3, <2>2, <2>4
<1>7. Elements(t) = {history[i].event : i \in U}
  BY <1>4 DEF Events, At
<1>8. QED
  BY <1>3, <1>5, <1>6, <1>7 DEF Sites

(* A new call site replaces that of its location, in both vectors.         *)
LEMMA SitesRegistered ==
  ASSUME NEW l, NEW st, NEW O, Sites(l, st, O), NEW e,
         NEW new, new = ReleaseRegister(operation[l], st, e),
         NEW U, {history[i].event : i \in U} = {c \in Elements(st.callsites) : c.location # e.location} \cup {e}
  PROVE  Sites(l, new, U)
<1> DEFINE s    == st.callsites
           t    == new.callsites
           v    == e.params[operation[l].rwIdx]
           same == {i \in 1..Len(s) : s[i].location = e.location}
           at   == CHOOSE i \in same : \A j \in same : i <= j
<1>1. IsList(s) /\ Len(s) \in Nat
  BY ListFacts DEF Sites
<1>2. CASE same = {}
  <2>1. t = Append(s, e) /\ (operation[l].forbIsRW => new.mem = Append(st.mem, v))
    BY <1>2 DEF ReleaseRegister
  <2> HIDE DEF t
  <2>2. Extends(t, s, e)
    BY <1>1, <2>1, ListAppend
  <2>3. IsList(t) /\ Len(t) = Len(s) + 1 /\ t[Len(s) + 1] = e /\ \A i \in 1..Len(s) : t[i] = s[i]
    BY <2>2 DEF Extends
  <2>4. Elements(t) = Elements(s) \cup {e}
    <3>1. \A i \in 1..Len(t) : i = Len(s) + 1 \/ i \in 1..Len(s)
      BY <1>1, <2>3
    <3>2. \A i \in 1..Len(s) : i \in 1..Len(t)
      BY <1>1, <2>3
    <3>3. Len(s) + 1 \in 1..Len(t)
      BY <1>1, <2>3
    <3> HIDE DEF s
    <3>4. QED
      BY <2>3, <3>1, <3>2, <3>3 DEF Elements
  <2>5. {c \in Elements(s) : c.location # e.location} = Elements(s)
    BY <1>2 DEF Elements
  <2>6. \A a, b \in 1..Len(t) : t[a].location = t[b].location => a = b
    <3>1. \A i \in 1..Len(s) : s[i].location # e.location
      BY <1>2
    <3>2. \A a, b \in 1..Len(s) : s[a].location = s[b].location => a = b
      BY DEF Sites
    <3> HIDE DEF s
    <3>3. QED
      BY <1>1, <2>3, <3>1, <3>2
  <2>7. ASSUME operation[l].forbIsRW
        PROVE  /\ IsList(new.mem) /\ Len(new.mem) = Len(t)
               /\ \A a \in 1..Len(new.mem) : new.mem[a] = t[a].params[operation[l].rwIdx]
    <3>1. IsList(st.mem) /\ Len(st.mem) = Len(s) /\ \A a \in 1..Len(st.mem) : st.mem[a] = s[a].params[operation[l].rwIdx]
      BY <2>7 DEF Sites
    <3>2. Extends(new.mem, st.mem, v)
      BY <2>1, <2>7, <3>1, ListAppend
    <3>3. IsList(new.mem) /\ Len(new.mem) = Len(s) + 1 /\ new.mem[Len(s) + 1] = v
          /\ \A i \in 1..Len(s) : new.mem[i] = st.mem[i]
      BY <3>1, <3>2 DEF Extends
    <3> HIDE DEF s
    <3>4. QED
      BY <1>1, <2>3, <3>1, <3>3
  <2>8. QED
    BY <2>3, <2>4, <2>5, <2>6, <2>7 DEF Sites, t
<1>3. CASE same # {}
  <2>1. PICK a \in same : TRUE
    BY <1>3
  <2>2. a \in 1..Len(s) /\ s[a].location = e.location
    BY <2>1
  <2>3. same = {a}
    BY <2>1 DEF Sites
  <2>4. at = a
    BY <1>1, <2>2, <2>3
  <2>5. t = [s EXCEPT ![a] = e] /\ (operation[l].forbIsRW => new.mem = [st.mem EXCEPT ![a] = v])
    BY <1>3, <2>4 DEF ReleaseRegister
  <2>6. \A i, j \in 1..Len(s) : s[i].location = s[j].location => i = j
    BY DEF Sites
  <2> HIDE DEF s, t, same, at
  <2>7. IsList(t) /\ Len(t) = Len(s) /\ \A i \in 1..Len(s) : t[i] = IF i = a THEN e ELSE s[i]
    <3>1. t = [s EXCEPT ![a] = e] /\ a \in 1..Len(s)
      BY <2>2, <2>5
    <3>2. Replaces(t, s, a, e)
      BY <1>1, <3>1, ListExcept
    <3>3. QED
      BY <3>2 DEF Replaces
  <2>8. Elements(t) = {c \in Elements(s) : c.location # e.location} \cup {e}
    <3>1. \A i \in 1..Len(s) : s[i].location # e.location <=> i # a
      BY <2>2, <2>6
    <3>2. \A c \in Elements(t) : c = e \/ (c \in Elements(s) /\ c.location # e.location)
      BY <2>7, <3>1 DEF Elements
    <3>3. e \in Elements(t)
      BY <2>2, <2>7 DEF Elements
    <3>4. \A c \in Elements(s) : c.location # e.location => c \in Elements(t)
      BY <2>7, <3>1 DEF Elements
    <3>5. QED
      BY <3>2, <3>3, <3>4
  <2>9. \A i, j \in 1..Len(t) : t[i].location = t[j].location => i = j
    BY <2>2, <2>6, <2>7
  <2>10. ASSUME operation[l].forbIsRW
         PROVE  /\ IsList(new.mem) /\ Len(new.mem) = Len(t)
                /\ \A i \in 1..Len(new.mem) : new.mem[i] = t[i].params[operation[l].rwIdx]
    <3>1. IsList(st.mem) /\ Len(st.mem) = Len(s) /\ \A i \in 1..Len(st.mem) : st.mem[i] = s[i].params[operation[l].rwIdx]
      BY <2>10 DEF Sites, s
    <3>2. IsList(new.mem) /\ Len(new.mem) = Len(s) /\ \A i \in 1..Len(s) : new.mem[i] = IF i = a THEN v ELSE st.mem[i]
      <4>1. new.mem = [st.mem EXCEPT ![a] = v] /\ a \in 1..Len(st.mem)
        BY <2>2, <2>5, <2>10, <3>1
      <4> HIDE DEF v
      <4>2. IsList(new.mem) /\ Len(new.mem) = Len(st.mem)
            /\ \A i \in 1..Len(st.mem) : new.mem[i] = IF i = a THEN v ELSE st.mem[i]
        <5>1. Replaces(new.mem, st.mem, a, v)
          BY <3>1, <4>1, ListExcept
        <5>2. QED
          BY <5>1 DEF Replaces
      <4>3. QED
        BY <3>1, <4>2
    <3>3. QED
      BY <2>7, <3>1, <3>2
  <2>11. QED
    BY <2>7, <2>8, <2>9, <2>10 DEF Sites, t, s
<1>4. QED
  BY <1>2, <1>3

-----------------------------------------------------------------------------
(* The invariant.                                                          *)
LEMMA ReleaseTypes ==
  ASSUME NEW l \in Analyses("Release")
  PROVE  /\ l \in Analysed /\ AnalysisOf(l) = "Release"
         /\ operation[l].forbIsRW =>
              /\ operation[l].forbidden = {}
              /\ Deciding(l) = IF operation[l].isWrite THEN "memWCB" ELSE "memRCB"
              /\ requiredCallbacks(l) = {"funcPreCB", Deciding(l)}
         /\ ~operation[l].forbIsRW => Deciding(l) = "funcPreCB" /\ requiredCallbacks(l) = {"funcPreCB"}
BY OperationsAssumption DEF Analyses, requiredCallbacks, Deciding

(* Initially nothing is open and nothing broken.                           *)
LEMMA ReleaseInit_ ==
  ASSUME RuntimeInit, NEW l \in Analyses("Release")
  PROVE  ReleaseInv(l)
<1>1. history = <<>> /\ contract_status[l] = Absent /\ l \in Analysed /\ AnalysisOf(l) = "Release"
  BY DEF RuntimeInit, Init, Analyses, Analysed, Leaf
<1>2. DOMAIN history = {}
  BY <1>1, ListEmpty
<1>3. temporaries[l].callsites = <<>> /\ temporaries[l].mem = <<>>
  BY <1>1 DEF RuntimeInit, InitTemporaries, ReleaseInit
<1>4. \A n : OpenTo(l, n) = {} /\ ~BrokenTo(l, n)
  BY <1>2 DEF OpenTo, BrokenTo, Protects, CallsOf, Calls
<1>5. ASSUME NEW st, st.callsites = <<>>, st.mem = <<>>
      PROVE  Sites(l, st, {})
  <2>1. /\ IsList(st.callsites) /\ Len(st.callsites) = 0 /\ Elements(st.callsites) = {}
        /\ IsList(st.mem) /\ Len(st.mem) = 0
    BY <1>5, ListEmpty
  <2>2. QED
    BY <2>1 DEF Sites
<1>6. Sites(l, temporaries[l], {})
  BY <1>3, <1>5
<1>7. contract_status[l] # "VIOLATED"
  BY <1>1 DEF Absent
<1>8. QED
  BY <1>1, <1>4, <1>6, <1>7 DEF ReleaseInv

(* An event that the analysis has not handled yet changes nothing for it.  *)
LEMMA ReleaseEvent ==
  ASSUME NEW l \in Analyses("Release"), ReleaseInv(l), EventOccurs(l)
  PROVE  ReleaseInv(l)'
<1> SUFFICES ASSUME NEW m, m = Seen(l)', NEW n, n = Len(history)
             PROVE  ReleaseInv(l)'
  OBVIOUS
<1>1. /\ HistoryGrows /\ n \in Nat /\ Seen(l) = n /\ exit_pos = 0 /\ m \in {n, n + 1}
      /\ contract_status'[l] = contract_status[l] /\ exit_pos' = exit_pos /\ temporaries' = temporaries
      /\ history'[n + 1].kind \in {"call", "access"}
  BY DEF EventOccurs, HistoryGrows
<1>2. ReleaseInv(l)' <=>
        /\ contract_status[l] = "VIOLATED" <=> BrokenTo(l, m)'
        /\ contract_status[l] # Absent => contract_status[l] = "VIOLATED" \/ exit_pos' > 0
        /\ ~Decided(l) => Sites(l, temporaries[l], OpenTo(l, m))'
  BY <1>1 DEF ReleaseInv, Decided
<1>3. /\ contract_status[l] = "VIOLATED" <=> BrokenTo(l, n)
      /\ contract_status[l] # Absent => contract_status[l] = "VIOLATED"
      /\ ~Decided(l) => Sites(l, temporaries[l], OpenTo(l, n))
  BY <1>1 DEF ReleaseInv
<1>4. BrokenTo(l, n) => BrokenTo(l, m)'
  BY <1>1, BrokenSoFar
<1>5. CASE Decided(l)
  BY <1>2, <1>3, <1>4, <1>5 DEF Decided
<1>6. CASE ~Decided(l)
  <2>1. m = n \/ history'[n + 1].kind # "call"
    BY <1>1, <1>6 DEF EventOccurs
  <2>2. OpenTo(l, m)' = OpenTo(l, n)
    BY <1>1, <2>1, OpenStable
  <2>3. \A i \in OpenTo(l, n) : history'[i] = history[i]
    <3>1. OpenTo(l, n) \subseteq 1..n
      BY <1>1, OpenSubset DEF HistoryGrows
    <3>2. QED
      BY <1>1, <3>1 DEF HistoryGrows
  <2>4. {history'[i].event : i \in OpenTo(l, n)} = {history[i].event : i \in OpenTo(l, n)}
    BY <2>3
  <2>5. Sites(l, temporaries[l], OpenTo(l, m))'
    <3>1. Sites(l, temporaries[l], OpenTo(l, n))
      BY <1>3, <1>6
    <3>2. QED
      BY <1>1, <2>2, <2>4, <3>1 DEF Sites
  <2>6. ASSUME m # n, NEW i
        PROVE  ~Forbidden(l, i, n + 1)'
    <3>1. history'[n + 1].kind = "access" /\ m = n + 1
      BY <1>1, <2>1, <2>6
    <3>2. (IF history'[n + 1].event.isWrite THEN "memWCB" ELSE "memRCB") \notin requiredCallbacks(l)
      BY <1>1, <1>6, <2>6, <3>1 DEF EventOccurs
    <3>3. ~(operation[l].forbIsRW /\ (history'[n + 1].event.isWrite <=> operation[l].isWrite))
      BY <3>2, ReleaseTypes
    <3>4. QED
      BY <3>1, <3>3 DEF Forbidden
  <2>7. BrokenTo(l, m)' => BrokenTo(l, n)
    BY <1>1, <2>6, BrokenSoFar
  <2>8. QED
    BY <1>2, <1>3, <1>4, <2>5, <2>7
<1>7. QED
  BY <1>5, <1>6

(* The turn of another analysis changes nothing for this one.              *)
LEMMA ReleaseElsewhere ==
  ASSUME NEW l \in Analyses("Release"), ReleaseInv(l), Elsewhere(l)
  PROVE  ReleaseInv(l)'
<1>1. /\ Seen(l)' = Seen(l) /\ temporaries'[l] = temporaries[l] /\ history' = history
      /\ exit_pos > 0 => exit_pos' > 0
      /\ \/ contract_status'[l] = contract_status[l]
         \/ exit_pos > 0 /\ ~Decided(l) /\ contract_status'[l] = "FULFILLED"
  BY ReleaseTypes DEF Elsewhere, onProgramExit
<1>2. /\ \A n : OpenTo(l, n)' = OpenTo(l, n)
      /\ \A n : BrokenTo(l, n)' = BrokenTo(l, n)
  BY <1>1, Unmoved
<1> DEFINE n == Seen(l)
<1>3. \A O : Sites(l, temporaries[l], O)' <=> Sites(l, temporaries[l], O)
  BY <1>1 DEF Sites
<1>4. ReleaseInv(l)' <=>
        /\ contract_status'[l] = "VIOLATED" <=> BrokenTo(l, n)
        /\ contract_status'[l] # Absent => contract_status'[l] = "VIOLATED" \/ exit_pos' > 0
        /\ contract_status'[l] = Absent => Sites(l, temporaries[l], OpenTo(l, n))
  BY <1>1, <1>2, <1>3 DEF ReleaseInv, Decided
<1>5. "FULFILLED" # Absent /\ "VIOLATED" # Absent
  BY DEF Absent
<1>6. QED
  BY <1>1, <1>4, <1>5 DEF ReleaseInv, Decided

(* A call, handled while the requirement is undecided.                     *)
LEMMA ReleaseCall ==
  ASSUME NEW l \in Analyses("Release"), StartsReleaseNothing,
         NEW n \in Nat, DOMAIN history = 1..n + 1, NEW e, NEW st,
         history[n + 1].event = e, history[n + 1].memory = memory, history[n + 1].kind = "call",
         Sites(l, st, OpenTo(l, n)),
         NEW h, h = ReleaseOnCall(operation[l], st, e.func, e, memory)
  PROVE  /\ h.verdict = IF \E i \in OpenTo(l, n) : Forbidden(l, i, n + 1) THEN "VIOLATED" ELSE Unknown
         /\ h.verdict = Unknown => Sites(l, h.state, OpenTo(l, n + 1))
<1> DEFINE op       == operation[l]
           s        == st.callsites
           Old      == OpenTo(l, n)
           New      == OpenTo(l, n + 1)
           freed(i) == op.relParams = {} \/ checkFuncCallMatch(memory, e.func, op.relParams, e.params, s[i].params)
           hit(i)   == op.forbParams = {} \/ checkFuncCallMatch(memory, e.func, op.forbParams, e.params, s[i].params)
           K        == {i \in 1..Len(s) : ~freed(i)}
           idx      == Filter(Indices(s), K)
           broken   == \E i \in Old : Forbidden(l, i, n + 1)
           S        == CallsOf({op.supplier})
           R        == CallsOf(op.releases)
<1> SUFFICES /\ h.verdict = IF broken THEN "VIOLATED" ELSE Unknown
             /\ h.verdict = Unknown => Sites(l, h.state, New)
  OBVIOUS
<1>1. /\ IsList(s) /\ Len(s) \in Nat /\ DOMAIN s = 1..Len(s)
      /\ s = <<>> => Len(s) = 0
      /\ {s[a] : a \in 1..Len(s)} = {history[i].event : i \in Old}
  BY ListFacts DEF Sites, Elements
<1>2. op.supplier \notin op.releases
  BY DEF StartsReleaseNothing
<1>3. /\ n + 1 \in S <=> e.func = op.supplier
      /\ n + 1 \in R <=> e.func \in op.releases
  BY LatestCall
<1>4. /\ e.func # op.supplier /\ e.func \notin op.releases => New = Old
      /\ e.func \in op.releases => New = {i \in Old : ~Matches(op.relParams, n + 1, i, n + 1)}
      /\ e.func = op.supplier => New = {i \in Old : ~SameLocation(i, n + 1)} \cup {n + 1}
  <2>1. /\ n + 1 \notin S /\ n + 1 \notin R => New = Old
        /\ n + 1 \notin S /\ n + 1 \in R =>
             New = {i \in Old : ~Matches(op.relParams, n + 1, i, n + 1)}
        /\ n + 1 \in S /\ n + 1 \notin R => New = {i \in Old : ~SameLocation(i, n + 1)} \cup {n + 1}
    BY OpenNext
  <2> HIDE DEF S, R, New, Old
  <2>2. QED
    BY <1>2, <1>3, <2>1
<1>5. /\ \A a \in 1..Len(s) : \E i \in Old : s[a] = history[i].event
      /\ \A i \in Old : \E a \in 1..Len(s) : s[a] = history[i].event
  BY <1>1
<1>6. broken <=> e.func \in op.forbidden \ op.releases /\ \E a \in 1..Len(s) : hit(a)
  <2>1. \A i : Forbidden(l, i, n + 1) <=>
          /\ e.func \in op.forbidden \ op.releases
          /\ op.forbParams = {} \/ checkFuncCallMatch(memory, e.func, op.forbParams, e.params, history[i].event.params)
    BY DEF Forbidden, Matches
  <2> HIDE DEF s, Old
  <2>2. QED
    BY <1>5, <2>1
<1>7. CASE e.func \in op.releases
  <2>1. ~broken
    BY <1>6, <1>7
  <2>2. CASE s # <<>>
    <3>1. h = Result([callsites |-> Select(s, idx), mem |-> SelectMem(op, st.mem, idx)], Unknown)
      BY <1>7, <2>2 DEF ReleaseOnCall
    <3>2. h.verdict = Unknown /\ h.state.callsites = Select(s, idx) /\ h.state.mem = SelectMem(op, st.mem, idx)
      BY <3>1 DEF Result
    <3>3. {history[i].event : i \in New} = {s[a] : a \in K}
      <4>1. \A i : Matches(op.relParams, n + 1, i, n + 1) <=>
              op.relParams = {} \/ checkFuncCallMatch(memory, e.func, op.relParams, e.params, history[i].event.params)
        BY DEF Matches
      <4>2. New = {i \in Old : ~Matches(op.relParams, n + 1, i, n + 1)}
        BY <1>4, <1>7
      <4> HIDE DEF s, Old, New
      <4>3. ASSUME NEW i \in New
            PROVE  history[i].event \in {s[a] : a \in K}
        <5>1. i \in Old /\ ~(op.relParams = {} \/ checkFuncCallMatch(memory, e.func, op.relParams, e.params, history[i].event.params))
          BY <4>1, <4>2
        <5>2. PICK a \in 1..Len(s) : s[a] = history[i].event
          BY <1>5, <5>1
        <5>3. a \in K
          BY <5>1, <5>2
        <5>4. QED
          BY <5>2, <5>3
      <4>4. ASSUME NEW a \in K
            PROVE  s[a] \in {history[i].event : i \in New}
        <5>1. PICK i \in Old : s[a] = history[i].event
          BY <1>5
        <5>2. i \in New
          BY <4>1, <4>2, <5>1
        <5>3. QED
          BY <5>1, <5>2
      <4>5. QED
        BY <4>3, <4>4
    <3>4. Sites(l, h.state, New)
      <4>1. K \in SUBSET (1..Len(st.callsites)) /\ idx = Filter(Indices(st.callsites), K)
        OBVIOUS
      <4>2. {history[i].event : i \in New} = {st.callsites[k] : k \in K}
        BY <3>3
      <4>3. h.state.callsites = Select(st.callsites, idx) /\ h.state.mem = SelectMem(operation[l], st.mem, idx)
        BY <3>2
      <4>4. Events(New) = At(st.callsites, K)
        BY <4>2 DEF Events, At
      <4> HIDE DEF K, idx, New
      <4>5. QED
        BY <4>1, <4>3, <4>4, SitesReleased
    <3>5. QED
      BY <2>1, <3>2, <3>4
  <2>3. CASE s = <<>>
    <3>1. e.func # op.supplier
      BY <1>2, <1>7
    <3>2. h = Result(st, Unknown)
      BY <2>3, <3>1 DEF ReleaseOnCall
    <3>3. h.verdict = Unknown /\ h.state = st
      BY <3>2 DEF Result
    <3>4. Old = {}
      BY <1>1, <1>5, <2>3
    <3>5. New = Old
      BY <1>4, <1>7, <3>4
    <3>6. QED
      BY <2>1, <3>3, <3>5
  <2>4. QED
    BY <2>2, <2>3
<1>8. CASE e.func \notin op.releases /\ broken
  <2>1. s # <<>> /\ e.func \in op.forbidden /\ \E a \in 1..Len(s) : hit(a)
    BY <1>1, <1>6, <1>8
  <2>2. h = Result(st, "VIOLATED")
    BY <1>8, <2>1 DEF ReleaseOnCall
  <2>3. h.verdict = "VIOLATED" /\ h.verdict # Unknown
    BY <2>2 DEF Result, Unknown
  <2> HIDE DEF broken
  <2>4. QED
    BY <1>8, <2>3
<1>9. CASE e.func \notin op.releases /\ ~broken
  <2>1. ~(e.func \in op.forbidden /\ \E a \in 1..Len(s) : hit(a))
    BY <1>6, <1>9
  <2>2. CASE e.func = op.supplier
    <3>1. h = Result(ReleaseRegister(op, st, e), Unknown)
      BY <1>9, <2>1, <2>2 DEF ReleaseOnCall
    <3>2. h.verdict = Unknown /\ h.state = ReleaseRegister(op, st, e)
      BY <3>1 DEF Result
    <3>3. {history[i].event : i \in New} = {c \in Elements(s) : c.location # e.location} \cup {e}
      <4>1. New = {i \in Old : ~SameLocation(i, n + 1)} \cup {n + 1}
        BY <1>4, <2>2
      <4>2. \A i : SameLocation(i, n + 1) <=> history[i].event.location = e.location
        BY DEF SameLocation
      <4>3. Elements(s) = {history[i].event : i \in Old}
        BY DEF Sites
      <4> HIDE DEF s, Old, New
      <4>4. QED
        BY <4>1, <4>2, <4>3
    <3>4. Sites(l, h.state, New)
      BY <3>2, <3>3, SitesRegistered
    <3>5. QED
      BY <1>9, <3>2, <3>4
  <2>3. CASE e.func # op.supplier
    <3>1. h = Result(st, Unknown)
      BY <1>9, <2>1, <2>3 DEF ReleaseOnCall
    <3>2. h.verdict = Unknown /\ h.state = st
      BY <3>1 DEF Result
    <3>3. New = Old
      BY <1>4, <1>9, <2>3
    <3>4. QED
      BY <1>9, <3>2, <3>3
  <2>4. QED
    BY <2>2, <2>3
<1>10. QED
  BY <1>7, <1>8, <1>9

(* An access, handled while the requirement is undecided.                  *)
LEMMA ReleaseAccess ==
  ASSUME NEW l \in Analyses("Release"), NEW n \in Nat, DOMAIN history = 1..n + 1, NEW e, NEW st,
         history[n + 1].event = e, history[n + 1].kind = "access",
         operation[l].forbIsRW, e.isWrite <=> operation[l].isWrite,
         Sites(l, st, OpenTo(l, n)),
         NEW h, h = ReleaseOnAccess(operation[l], st, e.address)
  PROVE  /\ h.verdict = IF \E i \in OpenTo(l, n) : Forbidden(l, i, n + 1) THEN "VIOLATED" ELSE Unknown
         /\ h.verdict = Unknown => Sites(l, h.state, OpenTo(l, n + 1))
<1> DEFINE op  == operation[l]
           s   == st.callsites
           Old == OpenTo(l, n)
           hit == \E a \in 1..Len(st.mem) : st.mem[a] = e.address
           broken == \E i \in Old : Forbidden(l, i, n + 1)
<1> SUFFICES /\ h.verdict = IF broken THEN "VIOLATED" ELSE Unknown
             /\ h.verdict = Unknown => Sites(l, h.state, OpenTo(l, n + 1))
  OBVIOUS
<1>1. OpenTo(l, n + 1) = Old
  BY LatestCall, OpenNext
<1>2. h = Result(st, IF op.rwAcc = "DEREF" /\ hit THEN "VIOLATED" ELSE Unknown)
  BY DEF ReleaseOnAccess
<1>3. h.state = st /\ h.verdict = IF op.rwAcc = "DEREF" /\ hit THEN "VIOLATED" ELSE Unknown
  BY <1>2 DEF Result
<1>4. \A i : Forbidden(l, i, n + 1) <=> op.rwAcc = "DEREF" /\ e.address = history[i].event.params[op.rwIdx]
  BY DEF Forbidden
<1>5. /\ Len(st.mem) = Len(s) /\ \A a \in 1..Len(st.mem) : st.mem[a] = s[a].params[op.rwIdx]
      /\ \A a \in 1..Len(s) : \E i \in Old : s[a] = history[i].event
      /\ \A i \in Old : \E a \in 1..Len(s) : s[a] = history[i].event
  <2>1. {s[a] : a \in 1..Len(s)} = {history[i].event : i \in Old}
    BY DEF Sites, Elements
  <2>2. Len(st.mem) = Len(s) /\ \A a \in 1..Len(st.mem) : st.mem[a] = s[a].params[op.rwIdx]
    BY DEF Sites
  <2> HIDE DEF s, Old
  <2>3. /\ \A a \in 1..Len(s) : \E i \in Old : s[a] = history[i].event
        /\ \A i \in Old : \E a \in 1..Len(s) : s[a] = history[i].event
    BY <2>1
  <2>4. QED
    BY <2>2, <2>3
<1>6. hit <=> \E i \in Old : e.address = history[i].event.params[op.rwIdx]
  <2> HIDE DEF s, Old
  <2>1. ASSUME NEW a \in 1..Len(st.mem), st.mem[a] = e.address
        PROVE  \E i \in Old : e.address = history[i].event.params[op.rwIdx]
    <3>1. a \in 1..Len(s) /\ s[a].params[op.rwIdx] = e.address
      BY <1>5, <2>1
    <3>2. PICK i \in Old : s[a] = history[i].event
      BY <1>5, <3>1
    <3>3. QED
      BY <3>1, <3>2
  <2>2. ASSUME NEW i \in Old, e.address = history[i].event.params[op.rwIdx]
        PROVE  hit
    <3>1. PICK a \in 1..Len(s) : s[a] = history[i].event
      BY <1>5
    <3>2. a \in 1..Len(st.mem) /\ st.mem[a] = e.address
      BY <1>5, <2>2, <3>1
    <3>3. QED
      BY <3>2
  <2>3. QED
    BY <2>1, <2>2
<1>7. Unknown # "VIOLATED"
  BY DEF Unknown
<1>8. broken <=> op.rwAcc = "DEREF" /\ hit
  <2> HIDE DEF hit
  <2>1. QED
    BY <1>4, <1>6
<1> HIDE DEF hit, broken
<1>9. QED
  BY <1>1, <1>3, <1>7, <1>8

(* The handler of the analysis does with the event what its meaning asks   *)
(* for.                                                                    *)
LEMMA ReleaseTurn ==
  ASSUME AInv, StartsReleaseNothing, NEW l \in Analyses("Release"), ReleaseInv(l), TurnTaken(l)
  PROVE  ReleaseInv(l)'
<1> DEFINE n      == Len(history) - 1
           e      == Top.event
           op     == operation[l]
           st     == temporaries[l]
           broken == \E i \in OpenTo(l, n) : Forbidden(l, i, n + 1)
<1>1. /\ l \in Analysed /\ AnalysisOf(l) = "Release" /\ Current = l
      /\ Top.cb \in requiredCallbacks(l)
  BY ReleaseTypes DEF TurnTaken
<1>2. /\ n \in Nat /\ Len(history) = n + 1 /\ DOMAIN history = 1..n + 1
      /\ history[n + 1].event = e /\ history[n + 1].memory = memory
      /\ history[n + 1].kind = IF Top.cb = "funcPreCB" THEN "call" ELSE "access"
      /\ Top.cb # "funcPreCB" => Top.cb = IF e.isWrite THEN "memWCB" ELSE "memRCB"
  BY <1>1, TurnFacts
<1>3. /\ history' = history /\ Seen(l) = n /\ Seen(l)' = n + 1 /\ exit_pos = 0
      /\ temporaries'[l] = Handled.state
      /\ Handled.verdict = Unknown => contract_status'[l] = contract_status[l]
      /\ Handled.verdict # Unknown => ~Decided(l) /\ contract_status'[l] = Handled.verdict
  BY <1>2 DEF TurnTaken
<1>4. Handled = IF Top.cb = "funcPreCB" THEN ReleaseOnCall(op, st, e.func, e, memory)
                ELSE ReleaseOnAccess(op, st, e.address)
  <2>1. Top.cb = "funcPreCB" => Handled = ReleaseOnCall(op, st, e.func, e, memory)
    BY <1>1 DEF Handled
  <2>2. Top.cb # "funcPreCB" => Top.cb \in {"memRCB", "memWCB"}
    BY <1>2
  <2>3. Top.cb \in {"memRCB", "memWCB"} => Handled = ReleaseOnAccess(op, st, e.address)
    BY <1>1 DEF Handled
  <2>4. QED
    BY <2>1, <2>2, <2>3
<1> HIDE DEF n, e, st
<1>5. BrokenTo(l, n + 1) <=> BrokenTo(l, n) \/ broken
  BY <1>2, BrokenNext
<1>6. /\ contract_status[l] = "VIOLATED" <=> BrokenTo(l, n)
      /\ contract_status[l] # Absent => contract_status[l] = "VIOLATED"
      /\ ~Decided(l) => Sites(l, st, OpenTo(l, n))
  BY <1>3 DEF ReleaseInv, st
<1>7. ReleaseInv(l)' <=>
        /\ contract_status'[l] = "VIOLATED" <=> BrokenTo(l, n + 1)
        /\ contract_status'[l] # Absent => contract_status'[l] = "VIOLATED" \/ exit_pos' > 0
        /\ contract_status'[l] = Absent => Sites(l, Handled.state, OpenTo(l, n + 1))
  <2>1. \A k : OpenTo(l, k)' = OpenTo(l, k) /\ BrokenTo(l, k)' = BrokenTo(l, k)
    BY <1>3, Unmoved
  <2>2. Sites(l, temporaries[l], OpenTo(l, Seen(l)))' <=> Sites(l, Handled.state, OpenTo(l, n + 1))
    BY <1>3, <2>1 DEF Sites
  <2>3. QED
    BY <1>3, <2>1, <2>2 DEF ReleaseInv, Decided
<1>8. "VIOLATED" # Absent /\ Unknown # "VIOLATED"
  BY DEF Absent, Unknown
<1>9. CASE Decided(l)
  <2>1. Handled.verdict = Unknown /\ contract_status'[l] = contract_status[l]
    BY <1>3, <1>9
  <2>2. QED
    BY <1>5, <1>6, <1>7, <1>8, <1>9, <2>1 DEF Decided
<1>10. CASE ~Decided(l)
  <2>1. /\ Handled.verdict = IF broken THEN "VIOLATED" ELSE Unknown
        /\ Handled.verdict = Unknown => Sites(l, Handled.state, OpenTo(l, n + 1))
    <3> SUFFICES ASSUME NEW h, h = Handled
                 PROVE  /\ h.verdict = IF broken THEN "VIOLATED" ELSE Unknown
                        /\ h.verdict = Unknown => Sites(l, h.state, OpenTo(l, n + 1))
      OBVIOUS
    <3>1. CASE Top.cb = "funcPreCB"
      <4>1. h = ReleaseOnCall(op, st, e.func, e, memory) /\ history[n + 1].kind = "call"
        BY <1>2, <1>4, <3>1
      <4>2. QED
        BY <1>2, <1>6, <1>10, <4>1, ReleaseCall
    <3>2. CASE Top.cb # "funcPreCB"
      <4>1. h = ReleaseOnAccess(op, st, e.address) /\ history[n + 1].kind = "access"
        BY <1>2, <1>4, <3>2
      <4>2. op.forbIsRW /\ (e.isWrite <=> op.isWrite)
        <5>1. op.forbIsRW /\ Top.cb = IF op.isWrite THEN "memWCB" ELSE "memRCB"
          BY <1>1, <3>2, ReleaseTypes
        <5>2. QED
          BY <1>2, <3>2, <5>1
      <4>3. QED
        BY <1>2, <1>6, <1>10, <4>1, <4>2, ReleaseAccess
    <3>3. QED
      BY <3>1, <3>2
  <2> HIDE DEF broken
  <2>2. contract_status[l] = Absent /\ ~BrokenTo(l, n)
    BY <1>6, <1>8, <1>10 DEF Decided
  <2>3. QED
    BY <1>3, <1>5, <1>7, <1>8, <2>1, <2>2
<1>11. QED
  BY <1>9, <1>10

(* The release analyses follow the history in every execution.             *)
LEMMA ReleaseInvariant ==
  ASSUME StartsReleaseNothing
  PROVE  RuntimeSpec => [](AInv /\ \A l \in Analyses("Release") : ReleaseInv(l))
<1>1. RuntimeInit => \A l \in Analyses("Release") : ReleaseInv(l)
  BY ReleaseInit_
<1>2. AInv /\ (\A l \in Analyses("Release") : ReleaseInv(l)) /\ [RuntimeNext]_allvars
        => (\A l \in Analyses("Release") : ReleaseInv(l))'
  <2>1. ASSUME AInv, \A l \in Analyses("Release") : ReleaseInv(l), [RuntimeNext]_allvars,
               NEW l \in Analyses("Release")
        PROVE  ReleaseInv(l)'
    <3>1. EventOccurs(l) \/ TurnTaken(l) \/ Elsewhere(l)
      BY <2>1, StepKinds, ReleaseTypes
    <3>2. QED
      BY <2>1, <3>1, ReleaseEvent, ReleaseTurn, ReleaseElsewhere
  <2>2. QED
    BY <2>1 DEF Analyses
<1>3. QED
  BY <1>1, <1>2, AInvInit, AInvStep, PTL DEF RuntimeSpec

(* no! ... until!, for every program and every contract database: the      *)
(* verdict is a violation exactly when a forbidden call or access happened *)
(* while some call of the supplier was not yet released, although call     *)
(* sites are dropped from, and replaced in, two vectors side by side.      *)
THEOREM ReleaseMeaning ==
  ASSUME StartsReleaseNothing
  PROVE  RuntimeSpec => []ReleaseExact
<1>1. AInv /\ (\A l \in Analyses("Release") : ReleaseInv(l)) => ReleaseExact
  <2>1. ASSUME AInv, Quiet, NEW l \in Analyses("Release"), ReleaseInv(l)
        PROVE  contract_status[l] = "VIOLATED" <=>
                 \E i, k \in DOMAIN history : Protects(l, i, k) /\ Forbidden(l, i, k)
    <3>1. Seen(l) = Len(history) /\ DOMAIN history = 1..Len(history)
      BY <2>1, QuietSeen
    <3>2. QED
      BY <2>1, <3>1 DEF ReleaseInv, BrokenTo
  <2>2. QED
    BY <2>1 DEF ReleaseExact
<1>2. QED
  BY <1>1, ReleaseInvariant, PTL

-----------------------------------------------------------------------------
(* Alloc.                                                                  *)

(* The call that returned has not yet been shown to l.                     *)
Waiting(l) ==
  /\ it > 0 /\ Top.cb = "funcPostCB"
  /\ \E i \in 1..Len(analyses_with["funcPostCB"]) : i >= it /\ analyses_with["funcPostCB"][i] = l
Known(l) ==
  IF Waiting(l)
  THEN AllocAfterCall(operation[l], temporaries[l], Top.event.func, Top.event, memory).state
  ELSE temporaries[l]
Mirrors(st, blocks) ==
  /\ IsList(st.allocated) /\ Elements(st.allocated) = blocks
  /\ \A a, b \in 1..Len(st.allocated) : st.allocated[a].start = st.allocated[b].start => a = b

Outside(l, i) ==
  \A b \in history[i].heap :
    history[i].event.params[operation[l].idx] \notin b.start..(b.start + b.size - 1)
StrayTo(l, n) == \E i \in CallsOf({operation[l].supplier}) : i <= n /\ Outside(l, i)

HeapInv ==
  /\ \A b \in heap : b.start \in Int /\ b.size \in Nat \ {0}
  /\ it > 0 /\ Top.cb # "funcPostCB" => history[Len(history)].heap = heap
AllocInv(l) ==
  /\ contract_status[l] = "VIOLATED" <=> StrayTo(l, Seen(l))
  /\ contract_status[l] # Absent => contract_status[l] = "VIOLATED" \/ exit_pos > 0
  /\ ~Decided(l) => Mirrors(Known(l), heap)

(* What the constructor of the analysis fixes.                             *)
LEMMA AllocTypes ==
  ASSUME NEW l \in Analyses("Alloc")
  PROVE  /\ l \in Analysed /\ AnalysisOf(l) = "Alloc"
         /\ requiredCallbacks(l) = {"funcPreCB", "funcPostCB"} /\ Deciding(l) = "funcPreCB"
BY DEF Analyses, requiredCallbacks, Deciding

-----------------------------------------------------------------------------
AddressIn(e, where) == IF where = RetSym THEN e.retval ELSE e.params[where]
Starting(s, address) == {i \in 1..Len(s) : s[i].start = address}

(* What the handler makes of its list, in each of its three cases.         *)
LEMMA AllocatorSeen ==
  ASSUME NEW op, NEW st, NEW f, NEW e, NEW m, f \in DOMAIN op.allocators,
         NEW a, a = op.allocators[f],
         NEW start, start = IF a.acc = "DEREF" THEN m[AddressIn(e, a.ptr)] ELSE AddressIn(e, a.ptr)
  PROVE  AllocAfterCall(op, st, f, e, m).state.allocated =
           Append(st.allocated, [start |-> start, size |-> Product(a.factors, e)])
BY Zenon DEF AllocAfterCall, Result, AddressIn

(* After a deallocator, the block that starts at its pointer has left the  *)
(* list; after another function, or if no block starts there, none has.    *)
LEMMA DeallocatorSeen ==
  ASSUME NEW op, NEW st, NEW f, NEW e, NEW m, f \notin DOMAIN op.allocators,
         NEW same, same = Starting(st.allocated, AddressIn(e, op.deallocators[f])),
         NEW t, t = AllocAfterCall(op, st, f, e, m).state.allocated
  PROVE  /\ f \in DOMAIN op.deallocators => \A i \in Int : same = {i} => t = Without(st.allocated, i)
         /\ f \notin DOMAIN op.deallocators \/ same = {} => t = st.allocated
<1> DEFINE first == CHOOSE i \in same : \A j \in same : i <= j
<1>1. t = IF f \in DOMAIN op.deallocators /\ same # {} THEN Without(st.allocated, first) ELSE st.allocated
  BY DEF AllocAfterCall, Result, AddressIn, Starting
<1>2. \A i \in Int : same = {i} => first = i
  OBVIOUS
<1> HIDE DEF first
<1>3. QED
  BY <1>1, <1>2

(* A return of an intercepted function, as the analysis will see it.       *)
LEMMA ReturnMirrored ==
  ASSUME AllocatorsKnown, AInv, NEW l \in Analyses("Alloc"), HeapInv,
         NEW r, FunctionReturns(r), NEW st, Mirrors(st, heap)
  PROVE  Mirrors(AllocAfterCall(operation[l], st, Top'.event.func, Top'.event, memory').state, heap')
<1> DEFINE op == operation[l]
           c  == Top.event
           e  == [c EXCEPT !.retval = r.retval]
           s  == st.allocated
           value(where) == AddressIn(e, where)
<1>1. c \in Call /\ Top'.event = e /\ r \in returns[c.func] /\ DOMAIN memory = DOMAIN InitialMemory
  BY ReturnFacts DEF AInv, RInv, DataInv, FunctionReturns
<1>2. e.func = c.func /\ e.params = c.params /\ e.retval = r.retval
  <2>1. c = [func |-> c.func, location |-> c.location, params |-> c.params,
             retval |-> c.retval, isRef |-> c.isRef]
    BY <1>1, EventsAssumption
  <2> HIDE DEF c
  <2>2. QED
    BY <2>1
<1>3. /\ \A b \in r.allocates, h \in heap : b.start # h.start
      /\ memory' = [x \in DOMAIN memory |->
                      IF \E t \in r.stores : c.params[t.param] = x
                      THEN (CHOOSE t \in r.stores : c.params[t.param] = x).value ELSE memory[x]]
      /\ heap' = {b \in heap : \A i \in r.frees : b.start # c.params[i]} \cup r.allocates
  BY DEF FunctionReturns
<1>4. IsList(s) /\ Elements(s) = heap /\ Len(s) \in Nat
      /\ \A a, b \in 1..Len(s) : s[a].start = s[b].start => a = b
  BY ListFacts DEF Mirrors
<1> DEFINE known == AllocAfterCall(op, st, e.func, e, memory').state
<1>5. CASE c.func \in DOMAIN op.allocators
  <2> DEFINE a == op.allocators[c.func]
             start == IF a.acc = "DEREF" THEN memory'[value(a.ptr)] ELSE value(a.ptr)
  <2>1. PICK b \in r.allocates : r.allocates = {b} /\ r.frees = {} /\ Yields(a, e, r, b)
    BY <1>1, <1>5 DEF AllocatorsKnown
  <2>2. known.allocated = Append(s, [start |-> start, size |-> Product(a.factors, e)])
    BY <1>2, <1>5, AllocatorSeen
  <2>3. start = b.start
    <3>1. CASE a.acc = "DEREF"
      <4>1. /\ value(a.ptr) \in DOMAIN InitialMemory
            /\ \E t \in r.stores : c.params[t.param] = value(a.ptr)
            /\ \A t \in r.stores : c.params[t.param] = value(a.ptr) => t.value = b.start
        BY <1>2, <2>1, <3>1 DEF Yields, AddressIn
      <4> HIDE DEF value
      <4>2. memory'[value(a.ptr)] = (CHOOSE t \in r.stores : c.params[t.param] = value(a.ptr)).value
        BY <1>1, <1>3, <4>1
      <4>3. QED
        BY <3>1, <4>1, <4>2
    <3>2. CASE a.acc # "DEREF"
      BY <1>2, <2>1, <3>2 DEF Yields, AddressIn
    <3>3. QED
      BY <3>1, <3>2
  <2>4. known.allocated = Append(s, b)
    BY <2>1, <2>2, <2>3 DEF Yields
  <2>5. heap' = heap \cup {b}
    BY <1>3, <2>1
  <2> DEFINE t == known.allocated
  <2>6. Extends(t, s, b)
    BY <1>4, <2>4, ListAppend
  <2> HIDE DEF t, s
  <2>7. Elements(t) = heap'
    <3>1. \A n \in 1..Len(t) : t[n] = IF n = Len(t) THEN b ELSE s[n]
      BY <1>4, <2>6 DEF Extends
    <3>2. QED
      BY <1>4, <2>5, <2>6, <3>1 DEF Extends, Elements
  <2>8. \A i, j \in 1..Len(t) : t[i].start = t[j].start => i = j
    <3>1. \A i \in 1..Len(s) : s[i] \in heap /\ s[i].start # b.start
      BY <1>3, <1>4 DEF Elements
    <3>2. QED
      BY <1>4, <2>6, <3>1 DEF Extends
  <2>9. QED
    BY <1>1, <2>6, <2>7, <2>8 DEF Extends, Mirrors, t
<1>6. CASE c.func \notin DOMAIN op.allocators
  <2> DEFINE gone  == value(op.deallocators[c.func])
             same  == Starting(s, gone)
  <2>1. r.allocates = {} /\ {c.params[i] : i \in r.frees} = IF c.func \in DOMAIN op.deallocators THEN {gone} ELSE {}
    BY <1>1, <1>2, <1>6 DEF AllocatorsKnown, AddressIn
  <2>2. heap' = {b \in heap : b.start \notin {c.params[i] : i \in r.frees}}
    BY <1>3, <2>1
  <2>3. /\ c.func \in DOMAIN op.deallocators => \A i \in Int : same = {i} => known.allocated = Without(s, i)
        /\ c.func \notin DOMAIN op.deallocators \/ same = {} => known.allocated = s
    BY <1>2, <1>6, DeallocatorSeen
  <2> HIDE DEF s, gone
  <2>4. CASE c.func \in DOMAIN op.deallocators /\ same # {}
    <3>1. PICK i \in 1..Len(s) : s[i].start = gone
      BY <2>4 DEF Starting
    <3>2. same = {i}
      BY <1>4, <3>1 DEF Starting
    <3>3. known.allocated = Without(s, i)
      BY <1>4, <2>3, <2>4, <3>1, <3>2
    <3> DEFINE t == Without(s, i)
    <3>4. s \in Seq(heap) /\ Distinct(s) /\ i \in 1..Len(s)
      <4>1. \A a, b \in 1..Len(s) : s[a] = s[b] => s[a].start = s[b].start
        OBVIOUS
      <4>2. QED
        BY <1>4, <4>1 DEF IsList, Distinct
    <3>5. /\ t \in Seq(heap) /\ Len(t) = Len(s) - 1 /\ Elements(t) = Elements(s) \ {s[i]}
          /\ \A n \in 1..Len(s) - 1 : t[n] = IF n < i THEN s[n] ELSE s[n + 1]
      BY <3>4, WithoutFacts, WithoutElements
    <3>6. heap' = heap \ {s[i]}
      <4>1. \A n \in 1..Len(s) : s[n].start = gone <=> s[n] = s[i]
        BY <1>4, <3>1
      <4>2. \A b \in heap : \E n \in 1..Len(s) : b = s[n]
        BY <1>4 DEF Elements
      <4>3. \A b \in heap : b.start = gone <=> b = s[i]
        BY <4>1, <4>2
      <4>4. QED
        BY <2>1, <2>2, <2>4, <4>3
    <3> HIDE DEF t
    <3>7. \A a, b \in 1..Len(t) : t[a].start = t[b].start => a = b
      BY <1>4, <3>5
    <3>8. QED
      BY <1>1, <1>4, <3>3, <3>5, <3>6, <3>7, SeqIsList DEF Mirrors, t
  <2>5. CASE ~(c.func \in DOMAIN op.deallocators /\ same # {})
    <3>1. known.allocated = s
      BY <2>3, <2>5
    <3>2. heap' = heap
      <4>1. CASE c.func \in DOMAIN op.deallocators
        <5>1. \A n \in 1..Len(s) : s[n].start # gone
          BY <2>5, <4>1 DEF Starting
        <5>2. \A b \in heap : b.start # gone
          BY <1>4, <5>1 DEF Elements
        <5>3. QED
          BY <2>1, <2>2, <4>1, <5>2
      <4>2. CASE c.func \notin DOMAIN op.deallocators
        BY <2>1, <2>2, <4>2
      <4>3. QED
        BY <4>1, <4>2
    <3>3. QED
      BY <1>1, <1>4, <3>1, <3>2 DEF Mirrors
  <2>6. QED
    BY <2>4, <2>5
<1>7. QED
  BY <1>5, <1>6

-----------------------------------------------------------------------------
(* Blocks are well formed, and an event in progress saw those of now.      *)
LEMMA HeapStep ==
  ASSUME AllocatorsKnown, AInv, HeapInv, [RuntimeNext]_allvars, Analyses("Alloc") # {}
  PROVE  HeapInv'
<1>1. ASSUME NEW kind, NEW cb, NEW e, Record(kind, e), Begin(cb, e)
      PROVE  HeapInv'
  <2>1. heap' = heap /\ history'[Len(history')].heap = heap
    BY <1>1, EventFacts DEF AInv, RInv, Begin
  <2>2. QED
    BY <2>1 DEF HeapInv
<1>2. CASE \E c \in Call : FunctionCallback(c)
  BY <1>1, <1>2 DEF FunctionCallback
<1>3. CASE \E a \in Access : MemCallback(a)
  BY <1>1, <1>3 DEF MemCallback
<1>4. ASSUME NEW r, FunctionReturns(r)
      PROVE  HeapInv'
  <2>1. PICK l \in Analyses("Alloc") : TRUE
    OBVIOUS
  <2>2. Top'.cb = "funcPostCB" /\ Top.event \in Call /\ r \in returns[Top.event.func]
    BY <1>4, ReturnFacts DEF AInv, RInv, FunctionReturns
  <2>3. heap' \subseteq heap \cup r.allocates
    BY <1>4 DEF FunctionReturns
  <2>4. \A b \in r.allocates : b.start \in Int /\ b.size \in Nat \ {0}
    <3>1. CASE Top.event.func \in DOMAIN operation[l].allocators
      <4>1. \E b \in r.allocates : r.allocates = {b} /\
              Yields(operation[l].allocators[Top.event.func], [Top.event EXCEPT !.retval = r.retval], r, b)
        BY <2>2, <3>1 DEF AllocatorsKnown
      <4>2. QED
        BY <4>1 DEF Yields
    <3>2. CASE Top.event.func \notin DOMAIN operation[l].allocators
      BY <2>2, <3>2 DEF AllocatorsKnown
    <3>3. QED
      BY <3>1, <3>2
  <2>5. QED
    BY <2>2, <2>3, <2>4 DEF HeapInv
<1>5. CASE KeepAnalysis \/ SettleAnalysis
  <2>1. it > 0 /\ UNCHANGED <<heap, stack, history>>
    BY <1>5 DEF KeepAnalysis, SettleAnalysis, Asking
  <2>2. QED
    BY <2>1 DEF HeapInv, Top
<1>6. CASE EndOfList
  <2>1. it' = 0 /\ UNCHANGED heap
    BY <1>6 DEF EndOfList
  <2>2. QED
    BY <2>1 DEF HeapInv
<1>7. CASE EngineStep
  <2>1. UNCHANGED <<heap, stack, history, it>>
    BY <1>7, EngineFacts DEF AInv, RInv
  <2>2. QED
    BY <2>1 DEF HeapInv, Top
<1>8. QED
  BY <1>2, <1>3, <1>4, <1>5, <1>6, <1>7, RuntimeCases

(* Every step keeps the list, as the analysis knows it or will, in         *)
(* agreement with the blocks that are allocated.                           *)
LEMMA MirrorStep ==
  ASSUME AllocatorsKnown, AInv, HeapInv, NEW l \in Analyses("Alloc"), AllocInv(l),
         [RuntimeNext]_allvars, ~Decided(l)'
  PROVE  Mirrors(Known(l), heap)'
<1> DEFINE s == analyses_with["funcPostCB"]
<1>0. ~Decided(l) /\ l \in Analysed /\ l \in Formula
  <2>1. [Next]_vars /\ Types
    BY RInvStep DEF AInv, IInv
  <2>2. QED
    BY <2>1, FinalStep, AllocTypes DEF Decided, Analysed, Leaf
<1>a. Mirrors(Known(l), heap)
  BY <1>0 DEF AllocInv
<1>b. s \in Seq(Requiring("funcPostCB")) /\ Len(s) \in Nat /\ Distinct(s)
  BY LenProperties DEF AInv, RInv, ListsInv, Callbacks
<1>1. ASSUME NEW kind, NEW cb, NEW e, Record(kind, e), Begin(cb, e), cb # "funcPostCB"
      PROVE  Mirrors(Known(l), heap)'
  <2>1. it = 0 /\ Top'.cb # "funcPostCB" /\ UNCHANGED <<heap, temporaries>>
    BY <1>1, EventFacts DEF AInv, RInv, Begin
  <2>2. Known(l) = temporaries[l] /\ Known(l)' = temporaries[l]
    BY <2>1 DEF Known, Waiting
  <2>3. QED
    BY <1>a, <2>1, <2>2 DEF Mirrors
<1>2. CASE \E c \in Call : FunctionCallback(c)
  BY <1>1, <1>2 DEF FunctionCallback
<1>3. CASE \E a \in Access : MemCallback(a)
  BY <1>1, <1>3 DEF MemCallback
<1>4. ASSUME NEW r, FunctionReturns(r)
      PROVE  Mirrors(Known(l), heap)'
  <2>1. it = 0 /\ it' = 1 /\ Top'.cb = "funcPostCB" /\ UNCHANGED <<temporaries, analyses_with>>
    BY <1>4, ReturnFacts DEF AInv, RInv, FunctionReturns
  <2>2. Known(l) = temporaries[l]
    BY <2>1 DEF Known, Waiting
  <2>3. l \in Elements(s)
    BY <1>0, UndecidedListed, AllocTypes
  <2>4. Waiting(l)'
    BY <1>b, <2>1, <2>3 DEF Waiting, Elements
  <2>5. Known(l)' = AllocAfterCall(operation[l], temporaries[l], Top'.event.func, Top'.event, memory').state
    BY <2>1, <2>4 DEF Known
  <2>6. Mirrors(AllocAfterCall(operation[l], temporaries[l], Top'.event.func, Top'.event, memory').state, heap')
    BY <1>4, <1>a, <2>2, ReturnMirrored
  <2>7. QED
    BY <2>5, <2>6 DEF Mirrors
<1>5. CASE KeepAnalysis \/ SettleAnalysis
  <2>1. /\ it > 0 /\ Turn /\ UNCHANGED <<heap, memory, stack>> /\ Top' = Top
        /\ temporaries' = [temporaries EXCEPT ![Current] = Handled.state] /\ DOMAIN temporaries = Analysed
    BY <1>5 DEF KeepAnalysis, SettleAnalysis, Asking, Top, AInv, RInv, DataInv
  <2>2. /\ Top.cb \in Callbacks /\ it \in 1..Len(analyses_with[Top.cb])
        /\ Current = analyses_with[Top.cb][it] /\ Current \in Analysed
        /\ Top.cb \in requiredCallbacks(Current)
    BY <2>1, CurrentFacts DEF AInv, RInv, Current
  <2>3. CASE Top.cb = "funcPostCB"
    <3>1. AnalysisOf(Current) = "Alloc" /\ Top.cb # Deciding(Current)
      BY <2>2, <2>3, RequiringFacts DEF Deciding
    <3>2. Handled.verdict = Unknown
      BY <2>1, <3>1, VerdictFacts DEF AInv, RInv
    <3>3. it' = it + 1 /\ UNCHANGED analyses_with
      BY <1>5, <3>2 DEF KeepAnalysis, SettleAnalysis
    <3>4. CASE Current = l
      <4>1. Waiting(l)
        BY <1>b, <2>1, <2>2, <2>3, <3>4 DEF Waiting
      <4>2. ~Waiting(l)'
        BY <1>b, <2>1, <2>2, <2>3, <3>3, <3>4 DEF Waiting, Distinct
      <4>3. temporaries'[l] = Handled.state
        BY <2>1, <2>2, <3>4
      <4>4. Handled = AllocAfterCall(operation[l], temporaries[l], Top.event.func, Top.event, memory)
        BY <2>3, <3>1, <3>4 DEF Handled
      <4>5. Known(l)' = Known(l)
        BY <4>1, <4>2, <4>3, <4>4 DEF Known
      <4>6. QED
        BY <1>a, <2>1, <4>5 DEF Mirrors
    <3>5. CASE Current # l
      <4>1. Waiting(l)' <=> Waiting(l)
        BY <1>b, <2>1, <2>2, <2>3, <3>3, <3>5 DEF Waiting
      <4>2. temporaries'[l] = temporaries[l]
        BY <1>0, <2>1, <3>5
      <4>3. Known(l)' = Known(l)
        BY <2>1, <4>1, <4>2 DEF Known
      <4>4. QED
        BY <1>a, <2>1, <4>3 DEF Mirrors
    <3>6. QED
      BY <3>4, <3>5
  <2>4. CASE Top.cb # "funcPostCB"
    <3>1. Known(l) = temporaries[l] /\ Known(l)' = temporaries'[l]
      BY <2>1, <2>4 DEF Known, Waiting
    <3>2. temporaries'[l] = temporaries[l]
      <4>1. CASE Current = l
        <5>1. Top.cb = "funcPreCB" /\ AnalysisOf(Current) = "Alloc"
          BY <2>2, <2>4, <4>1, AllocTypes
        <5>2. Handled = AllocOnCall(operation[l], temporaries[l], Top.event.func, Top.event)
          BY <4>1, <5>1 DEF Handled
        <5>3. QED
          BY <1>0, <2>1, <4>1, <5>2 DEF AllocOnCall, Result
      <4>2. CASE Current # l
        BY <1>0, <2>1, <4>2
      <4>3. QED
        BY <4>1, <4>2
    <3>3. QED
      BY <1>a, <2>1, <3>1, <3>2 DEF Mirrors
  <2>5. QED
    BY <2>3, <2>4
<1>6. CASE EndOfList
  <2>1. it > 0 /\ ~Turn /\ it' = 0 /\ UNCHANGED <<heap, temporaries>>
    BY <1>6 DEF EndOfList
  <2>2. ~Waiting(l) /\ ~Waiting(l)'
    BY <1>b, <2>1, LenProperties DEF Waiting, Turn, AInv, RInv, StackInv
  <2>3. QED
    BY <1>a, <2>1, <2>2 DEF Known, Mirrors
<1>7. CASE EngineStep
  <2>1. UNCHANGED <<heap, memory, temporaries, analyses_with, stack, it>>
    BY <1>7, EngineFacts DEF AInv, RInv
  <2>2. Known(l)' = Known(l)
    BY <2>1 DEF Known, Waiting, Top
  <2>3. QED
    BY <1>a, <2>1, <2>2 DEF Mirrors
<1>8. QED
  BY <1>2, <1>3, <1>4, <1>5, <1>6, <1>7, RuntimeCases

-----------------------------------------------------------------------------
(* A stray call in the past stays one; an access adds none.                *)
LEMMA StraySoFar ==
  ASSUME HistoryGrows, NEW l, NEW n, n = Len(history), NEW m \in {n, n + 1}
  PROVE  /\ StrayTo(l, n) => StrayTo(l, m)'
         /\ m = n \/ history'[n + 1].kind # "call" => (StrayTo(l, m)' => StrayTo(l, n))
<1> DEFINE S == CallsOf({operation[l].supplier})
<1>1. /\ S \subseteq 1..n /\ \A i \in 1..n : i \in S' <=> i \in S
      /\ S' \subseteq 1..n + 1
      /\ n + 1 \in S' => history'[n + 1].kind = "call"
      /\ n \in Nat
  BY CallsGrow DEF HistoryGrows
<1>2. \A i \in 1..n : Outside(l, i)' <=> Outside(l, i)
  BY DEF Outside, HistoryGrows
<1>3. StrayTo(l, n) <=> \E i \in S : i <= n /\ Outside(l, i)
  BY DEF StrayTo
<1>4. StrayTo(l, m)' <=> \E i \in S' : i <= m /\ Outside(l, i)'
  BY DEF StrayTo
<1> HIDE DEF S
<1>5. ASSUME StrayTo(l, n)
      PROVE  StrayTo(l, m)'
  BY <1>1, <1>2, <1>3, <1>4, <1>5
<1>6. ASSUME StrayTo(l, m)', m = n \/ history'[n + 1].kind # "call"
      PROVE  StrayTo(l, n)
  <2>1. PICK i \in S' : i <= m /\ Outside(l, i)'
    BY <1>4, <1>6
  <2>2. i \in 1..n
    BY <1>1, <1>6, <2>1
  <2>3. QED
    BY <1>1, <1>2, <1>3, <2>1, <2>2
<1>7. QED
  BY <1>5, <1>6

(* The check of a call against the list is the one against the heap.       *)
LEMMA CheckedAgainstHeap ==
  ASSUME HeapInv, NEW op, NEW st, Mirrors(st, heap), NEW f, NEW e,
         f = op.supplier => e.params[op.idx] \in Int,
         NEW h, h = AllocOnCall(op, st, f, e)
  PROVE  h.verdict = IF f = op.supplier /\ \A b \in heap : e.params[op.idx] \notin b.start..(b.start + b.size - 1)
                     THEN "VIOLATED" ELSE Unknown
<1> DEFINE p == e.params[op.idx]
           s == st.allocated
<1>1. h.verdict = IF f = op.supplier /\ ~\E i \in 1..Len(s) : InBlock(p, s[i]) THEN "VIOLATED" ELSE Unknown
  BY DEF AllocOnCall, Result
<1>2. heap = {s[i] : i \in 1..Len(s)}
  BY DEF Mirrors, Elements
<1>3. ASSUME NEW b \in heap, f = op.supplier
      PROVE  InBlock(p, b) <=> p \in b.start..(b.start + b.size - 1)
  <2>1. p \in Int /\ b.start \in Int /\ b.size \in Nat \ {0}
    BY <1>3 DEF HeapInv
  <2> HIDE DEF p
  <2>2. QED
    BY <2>1 DEF InBlock
<1> HIDE DEF p, s
<1>4. f = op.supplier => ((\E i \in 1..Len(s) : InBlock(p, s[i])) <=> \E b \in heap : p \in b.start..(b.start + b.size - 1))
  BY <1>2, <1>3
<1>5. QED
  BY <1>1, <1>4 DEF p

(* Initially nothing is allocated and nothing called.                      *)
LEMMA AllocInit_ ==
  ASSUME RuntimeInit, NEW l \in Analyses("Alloc")
  PROVE  HeapInv /\ AllocInv(l)
<1>1. history = <<>> /\ contract_status[l] = Absent /\ l \in Analysed /\ AnalysisOf(l) = "Alloc"
      /\ heap = {} /\ it = 0
  BY DEF RuntimeInit, Init, Analyses, Analysed, Leaf
<1>2. DOMAIN history = {}
  BY <1>1, ListEmpty
<1>3. temporaries[l].allocated = <<>>
  BY <1>1 DEF RuntimeInit, InitTemporaries, AllocInit
<1>4. \A n : ~StrayTo(l, n)
  BY <1>2 DEF StrayTo, CallsOf, Calls
<1>5. Known(l) = temporaries[l]
  BY <1>1 DEF Known, Waiting
<1>6. Mirrors(Known(l), heap)
  <2>1. ASSUME NEW s, s = <<>>
        PROVE  IsList(s) /\ Elements(s) = {} /\ Len(s) = 0
    BY <2>1, ListEmpty
  <2>2. QED
    BY <1>1, <1>3, <1>5, <2>1 DEF Mirrors
<1>7. QED
  BY <1>1, <1>4, <1>6 DEF HeapInv, AllocInv, Absent

(* An event that the analysis has not handled yet changes nothing for it.  *)
LEMMA AllocEvent ==
  ASSUME NEW l \in Analyses("Alloc"), AllocInv(l), EventOccurs(l), ~Decided(l)' => Mirrors(Known(l), heap)'
  PROVE  AllocInv(l)'
<1> SUFFICES ASSUME NEW m, m = Seen(l)', NEW n, n = Len(history)
             PROVE  AllocInv(l)'
  OBVIOUS
<1>1. /\ HistoryGrows /\ n \in Nat /\ Seen(l) = n /\ exit_pos = 0 /\ m \in {n, n + 1}
      /\ contract_status'[l] = contract_status[l] /\ exit_pos' = exit_pos
      /\ history'[n + 1].kind \in {"call", "access"}
  BY DEF EventOccurs, HistoryGrows
<1>2. /\ contract_status[l] = "VIOLATED" <=> StrayTo(l, n)
      /\ contract_status[l] # Absent => contract_status[l] = "VIOLATED"
  BY <1>1 DEF AllocInv
<1>3. AllocInv(l)' <=>
        /\ contract_status[l] = "VIOLATED" <=> StrayTo(l, m)'
        /\ contract_status[l] # Absent => contract_status[l] = "VIOLATED" \/ exit_pos' > 0
        /\ ~Decided(l)' => Mirrors(Known(l), heap)'
  BY <1>1 DEF AllocInv
<1>4. StrayTo(l, n) => StrayTo(l, m)'
  BY <1>1, StraySoFar
<1>5. ~Decided(l) => m = n \/ history'[n + 1].kind # "call"
  BY <1>1 DEF EventOccurs
<1>6. ~Decided(l) => (StrayTo(l, m)' => StrayTo(l, n))
  BY <1>1, <1>5, StraySoFar
<1>7. QED
  BY <1>2, <1>3, <1>4, <1>6 DEF Decided

(* The turn of another analysis changes nothing for this one.              *)
LEMMA AllocElsewhere ==
  ASSUME NEW l \in Analyses("Alloc"), AllocInv(l), Elsewhere(l), ~Decided(l)' => Mirrors(Known(l), heap)'
  PROVE  AllocInv(l)'
<1>1. /\ Seen(l)' = Seen(l) /\ history' = history
      /\ exit_pos > 0 => exit_pos' > 0
      /\ \/ contract_status'[l] = contract_status[l]
         \/ exit_pos > 0 /\ ~Decided(l) /\ contract_status'[l] = "FULFILLED"
  BY AllocTypes DEF Elsewhere, onProgramExit
<1>2. \A n : StrayTo(l, n)' <=> StrayTo(l, n)
  BY <1>1 DEF StrayTo, Outside, CallsOf, Calls
<1>3. AllocInv(l)' <=>
        /\ contract_status'[l] = "VIOLATED" <=> StrayTo(l, Seen(l))
        /\ contract_status'[l] # Absent => contract_status'[l] = "VIOLATED" \/ exit_pos' > 0
        /\ ~Decided(l)' => Mirrors(Known(l), heap)'
  BY <1>1, <1>2 DEF AllocInv
<1>4. "FULFILLED" # Absent /\ "VIOLATED" # Absent
  BY DEF Absent
<1>5. QED
  BY <1>1, <1>3, <1>4 DEF AllocInv, Decided

(* The handler of the analysis does with the event what its meaning asks   *)
(* for.                                                                    *)
LEMMA AllocTurn ==
  ASSUME AllocatorsKnown, AInv, HeapInv, NEW l \in Analyses("Alloc"), AllocInv(l), TurnTaken(l),
         ~Decided(l)' => Mirrors(Known(l), heap)'
  PROVE  AllocInv(l)'
<1> DEFINE n     == Len(history) - 1
           e     == Top.event
           op    == operation[l]
           stray == e.func = op.supplier /\ \A b \in heap : e.params[op.idx] \notin b.start..(b.start + b.size - 1)
<1>1. /\ l \in Analysed /\ AnalysisOf(l) = "Alloc" /\ Current = l /\ Top.cb = "funcPreCB" /\ it > 0
  BY AllocTypes DEF TurnTaken
<1>2. /\ n \in Nat /\ Len(history) = n + 1 /\ DOMAIN history = 1..n + 1
      /\ history[n + 1].event = e /\ history[n + 1].kind = "call" /\ history[n + 1].heap = heap
  BY <1>1, TurnFacts DEF HeapInv
<1>3. /\ history' = history /\ Seen(l) = n /\ Seen(l)' = n + 1 /\ exit_pos = 0
      /\ Handled.verdict = Unknown => contract_status'[l] = contract_status[l]
      /\ Handled.verdict # Unknown => ~Decided(l) /\ contract_status'[l] = Handled.verdict
  BY <1>2 DEF TurnTaken
<1>4. Handled = AllocOnCall(op, temporaries[l], e.func, e)
  BY <1>1 DEF Handled
<1>5. e \in Call
  BY <1>2 DEF AInv, RInv, HistoryInv
<1>6. StrayTo(l, n + 1) <=> StrayTo(l, n) \/ stray
  <2>1. n + 1 \in CallsOf({op.supplier}) <=> e.func = op.supplier
    BY <1>2 DEF CallsOf, Calls
  <2>2. Outside(l, n + 1) <=> \A b \in heap : e.params[op.idx] \notin b.start..(b.start + b.size - 1)
    BY <1>2 DEF Outside
  <2>3. CallsOf({op.supplier}) \subseteq 1..n + 1
    BY <1>2 DEF CallsOf, Calls
  <2> DEFINE S == CallsOf({op.supplier})
  <2>4. \A m : StrayTo(l, m) <=> \E i \in S : i <= m /\ Outside(l, i)
    BY DEF StrayTo
  <2>5. n \in Nat
    BY <1>2
  <2> HIDE DEF n, e, S, op
  <2>6. \A i \in S : i \in Nat /\ (i <= n + 1 <=> i <= n \/ i = n + 1)
    BY <2>3, <2>5 DEF S
  <2>7. n + 1 \in S /\ Outside(l, n + 1) <=> stray
    BY <2>1, <2>2 DEF S
  <2>8. QED
    BY <2>4, <2>5, <2>6, <2>7
<1>7. ~Decided(l) => Handled.verdict = IF stray THEN "VIOLATED" ELSE Unknown
  <2>1. SUFFICES ASSUME ~Decided(l)
                 PROVE  Handled.verdict = IF stray THEN "VIOLATED" ELSE Unknown
    OBVIOUS
  <2>2. Mirrors(temporaries[l], heap)
    BY <1>1, <2>1 DEF AllocInv, Known, Waiting
  <2>3. e.func = op.supplier => e.params[op.idx] \in Int
    BY <1>5 DEF AllocatorsKnown
  <2> HIDE DEF e, op
  <2>4. QED
    BY <1>4, <2>2, <2>3, CheckedAgainstHeap
<1>8. ~Decided(l)
  <2>1. l \in Elements(analyses_with["funcPreCB"]) /\ Deciding(l) = "funcPreCB"
    BY <1>1, AllocTypes DEF TurnTaken
  <2>2. QED
    BY <1>1, <1>3, <2>1 DEF AInv, RInv, ListedUndecided
<1> HIDE DEF n, e, stray
<1>9. \A k : StrayTo(l, k)' <=> StrayTo(l, k)
  BY <1>3 DEF StrayTo, Outside, CallsOf, Calls
<1>10. AllocInv(l)' <=>
        /\ contract_status'[l] = "VIOLATED" <=> StrayTo(l, n + 1)
        /\ contract_status'[l] # Absent => contract_status'[l] = "VIOLATED" \/ exit_pos' > 0
        /\ ~Decided(l)' => Mirrors(Known(l), heap)'
  BY <1>3, <1>9 DEF AllocInv
<1>11. contract_status[l] = Absent /\ ~StrayTo(l, n)
  BY <1>3, <1>8 DEF AllocInv, Decided, Absent
<1>12. "VIOLATED" # Absent /\ Unknown # "VIOLATED"
  BY DEF Absent, Unknown
<1>13. QED
  BY <1>3, <1>6, <1>7, <1>8, <1>10, <1>11, <1>12

(* The alloc analyses follow the history in every execution.               *)
LEMMA AllocInvariant ==
  ASSUME AllocatorsKnown
  PROVE  RuntimeSpec => [](AInv /\ \A l \in Analyses("Alloc") : HeapInv /\ AllocInv(l))
<1> DEFINE Inv == \A l \in Analyses("Alloc") : HeapInv /\ AllocInv(l)
<1>1. RuntimeInit => Inv
  BY AllocInit_
<1>2. AInv /\ Inv /\ [RuntimeNext]_allvars => Inv'
  <2>1. ASSUME AInv, Inv, [RuntimeNext]_allvars, NEW l \in Analyses("Alloc")
        PROVE  HeapInv' /\ AllocInv(l)'
    <3>1. HeapInv'
      BY <2>1, HeapStep
    <3>2. ~Decided(l)' => Mirrors(Known(l), heap)'
      BY <2>1, MirrorStep
    <3>3. EventOccurs(l) \/ TurnTaken(l) \/ Elsewhere(l)
      BY <2>1, StepKinds, AllocTypes
    <3>4. QED
      BY <2>1, <3>1, <3>2, <3>3, AllocEvent, AllocTurn, AllocElsewhere
  <2>2. QED
    BY <2>1 DEF Analyses
<1>3. QED
  BY <1>1, <1>2, AInvInit, AInvStep, PTL DEF RuntimeSpec

(* alloc!, for every program and every contract database: the verdict is a *)
(* violation exactly when the supplier was called with a pointer outside   *)
(* of all blocks that were allocated at that time, although the analysis   *)
(* learns of a block only after the allocator, and all that ran in it, has *)
(* returned.                                                               *)
THEOREM AllocMeaning ==
  ASSUME AllocatorsKnown
  PROVE  RuntimeSpec => []AllocExact
<1>1. AInv /\ (\A l \in Analyses("Alloc") : HeapInv /\ AllocInv(l)) => AllocExact
  <2>1. ASSUME AInv, Quiet, NEW l \in Analyses("Alloc"), AllocInv(l)
        PROVE  contract_status[l] = "VIOLATED" <=>
                 \E i \in CallsOf({operation[l].supplier}) : Outside(l, i)
    <3>1. Seen(l) = Len(history) /\ Len(history) \in Nat /\ DOMAIN history = 1..Len(history)
      BY <2>1, QuietSeen
    <3>2. \A i \in CallsOf({operation[l].supplier}) : i <= Len(history)
      BY <3>1 DEF CallsOf, Calls
    <3>3. QED
      BY <2>1, <3>1, <3>2 DEF AllocInv, StrayTo
  <2>2. QED
    BY <2>1 DEF AllocExact, Outside
<1>2. QED
  BY <1>1, AllocInvariant, PTL

-----------------------------------------------------------------------------
(* The running analyser, too, reports a contract scope when, and only      *)
(* when, the verdicts observed so far falsify it.                          *)
THEOREM RuntimeMonitored == ASSUME MonitorShape PROVE RuntimeSpec => ImplementsMonitor
<1>1. Spec => ImplementsMonitor
  BY MonitorImplemented
<1>2. RuntimeSpec => Spec
  BY EngineImplemented
<1>3. QED
  BY <1>1, <1>2

-----------------------------------------------------------------------------
(* Ancestors is a recursive function over the tree.  Its least solution    *)
(* shows that it has one, and by nesting all of them go up to the root.    *)
UpClosed(S) == \A f \in S \ Root : formula_parents[f] \in S
From(f, S) == f \in Root \/ formula_parents[f] \in S
Least == [f \in Formula |-> {g \in Formula : \A S \in SUBSET Formula : UpClosed(S) /\ From(f, S) => g \in S}]
AncestorsOf(f, g) == IF f \in Root THEN {} ELSE {formula_parents[f]} \cup g[formula_parents[f]]

(* The least solution solves the equation of Ancestors.                    *)
LEMMA LeastSolves == Least = [f \in Formula |-> AncestorsOf(f, Least)]
<1> SUFFICES ASSUME NEW f \in Formula
             PROVE  Least[f] = AncestorsOf(f, Least)
  BY DEF Least
<1>1. CASE f \in Root
  <2>1. UpClosed({}) /\ From(f, {})
    BY <1>1 DEF UpClosed, From
  <2>2. Least[f] = {}
    BY <2>1 DEF Least
  <2>3. QED
    BY <1>1, <2>2 DEF AncestorsOf
<1>2. CASE f \notin Root
  <2> DEFINE p == formula_parents[f]
  <2>1. p \in Formula
    BY <1>2, TreeFacts
  <2>2. ASSUME NEW S \in SUBSET Formula, UpClosed(S), From(f, S)
        PROVE  p \in S /\ From(p, S)
    BY <1>2, <2>2 DEF UpClosed, From
  <2>3. {p} \cup Least[p] \subseteq Least[f]
    BY <2>1, <2>2 DEF Least
  <2>4. ASSUME NEW g \in Least[f]
        PROVE  g \in {p} \cup Least[p]
    <3> SUFFICES ASSUME g # p, NEW S \in SUBSET Formula, UpClosed(S), From(p, S)
                 PROVE  g \in S
      BY <2>1, <2>4 DEF Least
    <3>1. UpClosed(S \cup {p}) /\ From(f, S \cup {p}) /\ S \cup {p} \in SUBSET Formula
      BY <1>2, <2>1 DEF UpClosed, From
    <3>2. QED
      BY <2>4, <3>1 DEF Least
  <2>5. QED
    BY <1>2, <2>3, <2>4 DEF AncestorsOf
<1>3. QED
  BY <1>1, <1>2

(* So the equation of Ancestors may be used.                               *)
LEMMA AncestorsIs == \A f \in Formula : Ancestors[f] = AncestorsOf(f, Ancestors)
<1>1. Ancestors = CHOOSE g : g = [f \in Formula |-> AncestorsOf(f, g)]
  BY DEF Ancestors, AncestorsOf
<1>2. Ancestors = [f \in Formula |-> AncestorsOf(f, Ancestors)]
  BY <1>1, LeastSolves
<1>3. QED
  BY <1>2

(* Ancestors are inner formulas of the same scope, and closed upwards.     *)
LEMMA AncestorFacts ==
  /\ \A f \in Formula \ Root : formula_parents[f] \in Ancestors[f]
  /\ \A f \in Formula : \A g \in Ancestors[f] :
       /\ g \in Formula \ Leaf /\ isPre[g] = isPre[f]
       /\ g \notin Root => formula_parents[g] \in Ancestors[f]
<1> DEFINE Good(f, g) == /\ g \in Formula \ Leaf /\ isPre[g] = isPre[f]
                         /\ g \notin Root => formula_parents[g] \in Ancestors[f]
           S == {f \in Formula : \E g \in Ancestors[f] : ~Good(f, g)}
<1>1. \A f \in Formula \ Root : Ancestors[f] = {formula_parents[f]} \cup Ancestors[formula_parents[f]]
  BY AncestorsIs DEF AncestorsOf
<1>2. \A f \in Root : Ancestors[f] = {}
  BY TreeFacts, AncestorsIs DEF AncestorsOf
<1>3. ASSUME S # {}
      PROVE  FALSE
  <2>1. PICK f \in S : formula_parents[f] \notin S
    <3>1. S \in SUBSET Formula
      OBVIOUS
    <3> HIDE DEF S
    <3>2. QED
      BY <1>3, <3>1, NestingAssumption
  <2>2. PICK g \in Ancestors[f] : ~Good(f, g)
    OBVIOUS
  <2>3. f \in Formula \ Root
    BY <1>2, <2>2
  <2> DEFINE p == formula_parents[f]
  <2>4. p \in Formula \ Leaf /\ isPre[p] = isPre[f]
    BY <2>3, TreeFacts
  <2>5. \A h \in Ancestors[p] : Good(p, h)
    BY <2>1, <2>4
  <2>6. CASE g = p
    BY <1>1, <2>2, <2>3, <2>4, <2>6
  <2>7. CASE g \in Ancestors[p]
    BY <1>1, <2>2, <2>3, <2>4, <2>5, <2>7
  <2>8. QED
    BY <1>1, <2>2, <2>3, <2>6, <2>7
<1>4. QED
  BY <1>1, <1>3

-----------------------------------------------------------------------------
(* Nothing in a precondition is violated without a call of its supplier.   *)
SupplierCalled(l) == \E k \in 1..Len(history) : history[k].kind = "call" /\ history[k].event.func = operation[l].supplier
Quietly(l) ==
  isPre[l] /\ ~SupplierCalled(l) =>
    /\ contract_status[l] # "VIOLATED"
    /\ AnalysisOf(l) = "PreCall" => contract_status[l] # "FULFILLED"
Caused(p) ==
  isPre[p] /\ contract_status[p] = "VIOLATED" => \E l \in Analysed : p \in Ancestors[l] /\ SupplierCalled(l)
CauseInv ==
  /\ \A l \in Leaf \ Analysed : ~Decided(l)
  /\ \A l \in Analysed : Quietly(l)
  /\ \A p \in Formula \ Leaf : Caused(p)

-----------------------------------------------------------------------------
(* A verdict of an operation in a precondition comes with a call of its    *)
(* supplier, except what the destructor gives to those without a verdict.  *)
LEMMA CalledStays ==
  ASSUME AInv, [RuntimeNext]_allvars, NEW l \in Analysed, SupplierCalled(l)
  PROVE  SupplierCalled(l)'
<1>1. PICK k \in 1..Len(history) : history[k].kind = "call" /\ history[k].event.func = operation[l].supplier
  BY DEF SupplierCalled
<1>2. CASE EventOccurs(l)
  BY <1>1, <1>2 DEF EventOccurs, HistoryGrows, SupplierCalled
<1>3. CASE TurnTaken(l) \/ Elsewhere(l)
  BY <1>1, <1>3 DEF TurnTaken, Elsewhere, SupplierCalled
<1>4. QED
  BY <1>2, <1>3, StepKinds

(* A verdict of an operation of a precondition comes with a call of the    *)
(* supplier.                                                               *)
LEMMA VerdictOnCall ==
  ASSUME AInv, NEW l \in Analysed, isPre[l], TurnTaken(l), Handled.verdict # Unknown
  PROVE  SupplierCalled(l)
<1> DEFINE e  == Top.event
           op == operation[l]
           st == temporaries[l]
<1>1. AnalysisOf(l) \in {"PreCall", "Param", "Alloc"} /\ Top.cb = "funcPreCB" /\ Current = l
  <2>1. AnalysisOf(l) \in {"PreCall", "Param", "Alloc"}
    BY DEF Analysed, AnalysisOf
  <2>2. Top.cb = Deciding(l) /\ Current = l
    BY VerdictFacts DEF TurnTaken, AInv, RInv
  <2>3. QED
    BY <2>1, <2>2 DEF Deciding
<1>2. e.func = op.supplier
  <2>1. CASE AnalysisOf(l) = "PreCall"
    <3>1. Handled = PreCallOnCall(op, st, e.func, e, memory)
      BY <1>1, <2>1 DEF Handled
    <3>2. QED
      BY <3>1 DEF PreCallOnCall, Result
  <2>2. CASE AnalysisOf(l) = "Param"
    <3>1. Handled = ParamOnCall(op, st, e.func, e, memory)
      BY <1>1, <2>2 DEF Handled
    <3>2. QED
      BY <3>1 DEF ParamOnCall, Result
  <2>3. CASE AnalysisOf(l) = "Alloc"
    <3>1. Handled = AllocOnCall(op, st, e.func, e)
      BY <1>1, <2>3 DEF Handled
    <3>2. QED
      BY <3>1 DEF AllocOnCall, Result
  <2>4. QED
    BY <1>1, <2>1, <2>2, <2>3
<1>3. /\ Len(history) \in Nat \ {0}
      /\ history[Len(history)].event = e /\ history[Len(history)].kind = "call"
  BY <1>1, TurnFacts
<1>4. QED
  BY <1>2, <1>3 DEF SupplierCalled

(* Every step keeps an operation quiet as long as its supplier is not      *)
(* called.                                                                 *)
LEMMA QuietlyStep ==
  ASSUME AInv, [RuntimeNext]_allvars, NEW l \in Analysed, Quietly(l)
  PROVE  Quietly(l)'
<1> SUFFICES ASSUME isPre[l], ~SupplierCalled(l)'
             PROVE  /\ contract_status'[l] # "VIOLATED"
                    /\ AnalysisOf(l) = "PreCall" => contract_status'[l] # "FULFILLED"
  BY DEF Quietly
<1>1. ~SupplierCalled(l)
  BY CalledStays
<1>2. \/ contract_status'[l] = contract_status[l]
      \/ contract_status'[l] = onProgramExit(l)
  <2>1. CASE EventOccurs(l)
    BY <2>1 DEF EventOccurs
  <2>2. CASE TurnTaken(l)
    BY <1>1, <2>2, VerdictOnCall DEF TurnTaken
  <2>3. CASE Elsewhere(l)
    BY <2>3 DEF Elsewhere
  <2>4. QED
    BY <2>1, <2>2, <2>3, StepKinds
<1>3. AnalysisOf(l) # "PostCall"
  BY DEF AnalysisOf
<1>4. onProgramExit(l) # "VIOLATED" /\ (AnalysisOf(l) = "PreCall" => onProgramExit(l) # "FULFILLED")
  BY <1>3 DEF onProgramExit
<1>5. QED
  BY <1>1, <1>2, <1>4 DEF Quietly

(* What no analysis watches never gets a verdict.                          *)
LEMMA UnanalysedStep ==
  ASSUME IInv, [Next]_vars, NEW l \in Leaf \ Analysed, ~Decided(l)
  PROVE  ~Decided(l)'
<1> SUFFICES contract_status'[l] = contract_status[l]
  BY DEF Decided
<1>1. l \in Formula /\ Types
  BY DEF IInv, Leaf
<1>2. ASSUME NEW k \in Leaf, NEW v \in Verdict, Conclude(k, v)
      PROVE  contract_status'[l] = contract_status[l]
  BY <1>1, <1>2 DEF Conclude, Types
<1>3. ASSUME NEW v \in Verdict, ExitConclude(v)
      PROVE  contract_status'[l] = contract_status[l]
  <2>1. ExitLeaf \in Analysed
    BY <1>3, ExitLeafFacts, AnalysesAssumption DEF ExitConclude, ExitLeaf, Analysed
  <2>2. QED
    BY <1>1, <1>3, <2>1 DEF ExitConclude, Types
<1>4. CASE ParentAlreadyDecided \/ NothingToPropagate \/ ReportRoot \/ StartExit \/ ExitAdvance
             \/ Terminated \/ UNCHANGED vars
  BY <1>4 DEF ParentAlreadyDecided, NothingToPropagate, ReportRoot, StartExit, ExitAdvance, Terminated, vars
<1>5. CASE Propagate
  BY <1>1, <1>5, PropagateFacts DEF Types
<1>6. QED
  BY <1>2, <1>3, <1>4, <1>5 DEF Next, ValidateState

(* The climb to a violated formula starts from an operation whose supplier *)
(* was called.                                                             *)
LEMMA CausedStep ==
  ASSUME ExclusiveCalls, AInv, CauseInv, [RuntimeNext]_allvars, NEW p \in Formula \ Leaf
  PROVE  Caused(p)'
<1>0. IInv /\ [Next]_vars
  BY RInvStep DEF AInv
<1> SUFFICES ASSUME isPre[p], contract_status'[p] = "VIOLATED"
             PROVE  \E l \in Analysed : p \in Ancestors[l] /\ SupplierCalled(l)'
  BY DEF Caused
<1>1. SUFFICES \E l \in Analysed : p \in Ancestors[l] /\ SupplierCalled(l)
  BY CalledStays
<1>2. CASE contract_status[p] = "VIOLATED"
  BY <1>2 DEF CauseInv, Caused
<1>3. CASE contract_status[p] # "VIOLATED"
  <2>1. Propagate /\ p = Parent
    BY <1>0, <1>3, MarkedByPropagate
  <2>2. /\ frame \in Formula \ Root /\ frame \in children[p] /\ formula_parents[frame] = p
        /\ isPre[frame]
        /\ contract_status[frame] \in {"VIOLATED", "FULFILLED"}
        /\ contract_status[frame] = "FULFILLED" => conn[p] = "XOR"
    BY <1>0, <2>1, PropagateFacts, TreeFacts DEF Parent
  <2>3. Decided(frame)
    BY <2>2 DEF Decided, Absent
  <2>4. CASE frame \in Leaf
    <3>1. frame \in Analysed
      BY <2>3, <2>4 DEF CauseInv
    <3>2. contract_status[frame] = "FULFILLED" => AnalysisOf(frame) = "PreCall"
      BY <2>2 DEF ExclusiveCalls, Analyses
    <3>3. SupplierCalled(frame)
      BY <2>2, <3>1, <3>2 DEF CauseInv, Quietly
    <3>4. p \in Ancestors[frame]
      BY <2>2, AncestorFacts
    <3>5. QED
      BY <3>1, <3>3, <3>4
  <2>5. CASE frame \notin Leaf
    <3>1. contract_status[frame] = "VIOLATED"
      BY <1>0, <2>2, <2>5, TreeFacts DEF IInv, FrameDecided
    <3>2. PICK l \in Analysed : frame \in Ancestors[l] /\ SupplierCalled(l)
      BY <2>2, <2>5, <3>1 DEF CauseInv, Caused
    <3>3. p \in Ancestors[l]
      BY <2>2, <3>2, AncestorFacts DEF Analysed, Leaf
    <3>4. QED
      BY <3>2, <3>3
  <2>6. QED
    BY <2>4, <2>5
<1>4. QED
  BY <1>2, <1>3

(* The three parts of CauseInv hold together, in every execution.          *)
LEMMA CauseInvariant == ASSUME ExclusiveCalls PROVE RuntimeSpec => [](AInv /\ CauseInv)
<1>1. RuntimeInit => CauseInv
  BY DEF RuntimeInit, Init, CauseInv, Quietly, Caused, Decided, Absent, Leaf, Analysed
<1>2. AInv /\ CauseInv /\ [RuntimeNext]_allvars => CauseInv'
  <2> SUFFICES ASSUME AInv, CauseInv, [RuntimeNext]_allvars
               PROVE  CauseInv'
    OBVIOUS
  <2>1. IInv /\ [Next]_vars
    BY RInvStep DEF AInv
  <2>2. \A l \in Leaf \ Analysed : ~Decided(l)'
    BY <2>1, UnanalysedStep DEF CauseInv
  <2>3. \A l \in Analysed : Quietly(l)'
    BY QuietlyStep DEF CauseInv
  <2>4. \A p \in Formula \ Leaf : Caused(p)'
    BY CausedStep
  <2>5. QED
    BY <2>2, <2>3, <2>4 DEF CauseInv
<1>3. QED
  BY <1>1, <1>2, AInvInit, AInvStep, PTL DEF RuntimeSpec

(* A precondition that calls are part of is not violated, at the exit or   *)
(* before it, when its function was never called.                          *)
THEOREM UncalledSilent ==
  ASSUME SuppliersAreNoTargets, ExclusiveCalls
  PROVE  RuntimeSpec => []UncalledContractsSilent
<1>1. AInv /\ CauseInv => UncalledContractsSilent
  <2> SUFFICES ASSUME AInv, CauseInv, NEW l \in Analyses("PreCall"), Supplied(l) = {},
                      NEW r \in Ancestors[l], contract_status[r] = "VIOLATED"
               PROVE  FALSE
    BY DEF UncalledContractsSilent
  <2>1. l \in Analysed /\ l \in Formula /\ isPre[l]
    BY TreeAssumption DEF Analyses, Analysed, Leaf, AnalysisOf
  <2>2. r \in Formula \ Leaf /\ isPre[r]
    BY <2>1, AncestorFacts
  <2>3. PICK g \in Analysed : r \in Ancestors[g] /\ SupplierCalled(g)
    BY <2>2 DEF CauseInv, Caused
  <2>4. operation[g].supplier = operation[l].supplier
    BY <2>1, <2>3, OperationsAssumption
  <2>5. PICK k \in 1..Len(history) : history[k].kind = "call" /\ history[k].event.func = operation[l].supplier
    BY <2>3, <2>4 DEF SupplierCalled
  <2>6. DOMAIN history = 1..Len(history)
    BY ListFacts DEF AInv, RInv, HistoryInv
  <2>7. k \in Supplied(l)
    BY <2>5, <2>6 DEF Supplied, CallsOf, Calls, SuppliersAreNoTargets
  <2>8. QED
    BY <2>7
<1>2. QED
  BY <1>1, CauseInvariant, PTL

-----------------------------------------------------------------------------
(* An exclusive or is violated by two of its operations or by all of them. *)
ExclusiveSound ==
  \A p \in Formula : conn[p] = "XOR" /\ contract_status[p] = "VIOLATED" => Broken(p, {"VIOLATED"})

(* An exclusive or is marked violated only over children that break it.    *)
LEMMA ExclusiveSoundStep ==
  ASSUME ExclusiveOverLeaves, IInv, Timing, ExclusiveSound, [Next]_vars
  PROVE  ExclusiveSound'
<1> SUFFICES ASSUME NEW p \in Formula, conn[p] = "XOR", contract_status'[p] = "VIOLATED"
             PROVE  Broken(p, {"VIOLATED"})'
  BY DEF ExclusiveSound
<1>1. CASE contract_status[p] = "VIOLATED"
  BY <1>1, BrokenStable DEF ExclusiveSound, Verdict
<1>2. CASE contract_status[p] # "VIOLATED"
  <2>0. p \in Formula \ Leaf
    BY DEF Leaf, Operation
  <2>1. Propagate /\ p = Parent /\ Outcome(p) = "VIOLATED"
    BY <1>2, <2>0, MarkedByPropagate
  <2>2. frame \in Leaf
    BY <2>1, PropagateFacts DEF ExclusiveOverLeaves, Parent
  <2>3. Several(Fulfilled(p)) \/ ((\A c \in children[p] : Decided(c)) /\ Fulfilled(p) = {})
    BY <2>1 DEF Outcome, Absent
  <2>4. CASE Several(Fulfilled(p))
    <3>1. Broken(p, {"VIOLATED"})
      BY <2>4 DEF Broken
    <3>2. QED
      BY <3>1, BrokenStable DEF Verdict
  <2>5. CASE (\A c \in children[p] : Decided(c)) /\ Fulfilled(p) = {}
    <3>1. AllIn(p, Failed)
      BY <2>5, TreeFacts DEF IInv, Types, AllIn, Decided, Fulfilled, Verdict, Failed
    <3>2. AllIn(p, {"VIOLATED"})
      BY <2>1, <2>2, <3>1, AlternativesExercised
    <3>3. Broken(p, {"VIOLATED"})
      BY <3>2 DEF Broken
    <3>4. QED
      BY <3>3, BrokenStable DEF Verdict
  <2>6. QED
    BY <2>3, <2>4, <2>5
<1>3. QED
  BY <1>1, <1>2

ExclusiveInv == IInv /\ CompleteInv /\ Timing /\ ExclusiveSound

(* What the engine knows of exclusive ors over operations, in every        *)
(* execution.                                                              *)
LEMMA ExclusiveInvariant == ASSUME ExclusiveOverLeaves PROVE Spec => []ExclusiveInv
<1>1. Init => ExclusiveInv
  BY IInvInit, CompleteInit, TreeFacts, AnalysesAssumption
  DEF Init, Timing, ExclusiveSound, Absent, ExclusiveInv
<1>2. ExclusiveInv /\ [Next]_vars => ExclusiveInv'
  BY IInvStep, CompleteStep, TimingStep, ExclusiveSoundStep DEF ExclusiveInv
<1>3. QED
  BY <1>1, <1>2, PTL DEF Spec

(* What the verdicts of its calls say about an exclusive or.               *)
LEMMA ExclusiveMeaning ==
  ASSUME ExclusiveOverLeaves, HasAlternatives, SuppliersAreNoTargets,
         AInv, ExclusiveInv, PreCallExact
  PROVE  ExclusivePreCalls
<1> DEFINE Called(l)    == Supplied(l) # {}
           Verified(l)  == Called(l) /\ Supported(l, Min(Supplied(l)))
<1> SUFFICES ASSUME Quiet, NEW p \in Formula, conn[p] = "XOR", children[p] \subseteq Analyses("PreCall")
             PROVE  contract_status[p] = "VIOLATED" <=>
                      /\ \A l \in children[p] : Called(l)
                      /\ \/ {l \in children[p] : Verified(l)} = {}
                         \/ Several({l \in children[p] : Verified(l)})
  BY DEF ExclusivePreCalls
<1>1. \A l \in children[p] :
        /\ ~Called(l) => contract_status[l] \in {Absent, "INACTIVE"}
        /\ Called(l) => contract_status[l] = IF Verified(l) THEN "FULFILLED" ELSE "VIOLATED"
  BY DEF PreCallExact
<1>2. \A l, g \in children[p] : Called(l) => Called(g)
  <2> SUFFICES ASSUME NEW l \in children[p], NEW g \in children[p]
               PROVE  Supplied(l) = Supplied(g)
    OBVIOUS
  <2>1. l \in Analysed /\ g \in Analysed
    BY DEF Analyses
  <2>2. p \in Ancestors[l] \cap Ancestors[g]
    BY TreeFacts, AncestorFacts
  <2>3. operation[l].supplier = operation[g].supplier
    BY <2>1, <2>2, OperationsAssumption
  <2>4. QED
    BY <2>3 DEF Supplied, SuppliersAreNoTargets
<1> HIDE DEF Called, Verified
<1>3. {l \in children[p] : Verified(l)} = Fulfilled(p) \/ ~\E l \in children[p] : Called(l)
  BY <1>1, <1>2 DEF Fulfilled, Absent
<1>4. children[p] # {} /\ p \in Formula \ Leaf
  BY DEF HasAlternatives, Leaf, Operation
<1>5. ASSUME contract_status[p] = "VIOLATED"
      PROVE  /\ \A l \in children[p] : Called(l)
             /\ Fulfilled(p) = {} \/ Several(Fulfilled(p))
  <2>1. Several(Fulfilled(p)) \/ AllIn(p, {"VIOLATED"})
    BY <1>5 DEF ExclusiveInv, ExclusiveSound, Broken
  <2>2. \E l \in children[p] : contract_status[l] \in {"FULFILLED", "VIOLATED"}
    BY <1>4, <2>1 DEF Several, Fulfilled, AllIn
  <2>3. \A l \in children[p] : Called(l)
    BY <1>1, <1>2, <2>2 DEF Absent
  <2>4. AllIn(p, {"VIOLATED"}) => Fulfilled(p) = {}
    BY DEF AllIn, Fulfilled
  <2>5. QED
    BY <2>1, <2>3, <2>4
<1>6. ASSUME \A l \in children[p] : Called(l), Fulfilled(p) = {} \/ Several(Fulfilled(p))
      PROVE  contract_status[p] = "VIOLATED"
  <2>1. Fulfilled(p) = {} => AllIn(p, {"VIOLATED"})
    BY <1>1, <1>6 DEF AllIn, Fulfilled
  <2>2. Broken(p, {"VIOLATED"})
    BY <1>6, <2>1 DEF Broken
  <2>3. QED
    BY <1>4, <2>2, TreeFacts DEF Quiet, ExclusiveInv, CompleteInv, Climbing
<1>7. QED
  BY <1>3, <1>4, <1>5, <1>6

(* An exclusive or of calls in a precondition is reported as violated      *)
(* exactly when its function was called with none of them before it, or    *)
(* with several.                                                           *)
THEOREM ExclusiveCallsMeaning ==
  ASSUME ExclusiveOverLeaves, HasAlternatives, SuppliersAreNoTargets
  PROVE  RuntimeSpec => []ExclusivePreCalls
<1>1. RuntimeSpec => []ExclusiveInv
  BY EngineImplemented, ExclusiveInvariant
<1>2. AInv /\ ExclusiveInv /\ PreCallExact => ExclusivePreCalls
  BY ExclusiveMeaning
<1>3. QED
  BY <1>1, <1>2, AInvInvariant, PreCallMeaning, PTL
==============================================================================
