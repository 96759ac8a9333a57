------------------------------ MODULE ListProofs -------------------------------
(***************************************************************************)
(* Induction over numbers and sequences in a form with sets in place of    *)
(* predicates, and what Filter and Without compute for every sequence.     *)
(***************************************************************************)
EXTENDS Lists, SequenceTheorems, WellFoundedInduction, TLAPS

Less == {p \in Nat \X Nat : p[1] < p[2]}

(* There is no infinite descent in the natural numbers.                    *)
LEMMA LessWellFounded == IsWellFoundedOn(Less, Nat)
<1>1. Less = OpToRel(<, Nat)
  BY Zenon DEF OpToRel, Less
<1>2. QED
  BY <1>1, NatLessThanWellFounded, Zenon

(* Every nonempty set of natural numbers has a least element.              *)
LEMMA LeastElement ==
  ASSUME NEW T \in SUBSET Nat, T # {}
  PROVE  \E m \in T : \A n \in T : m <= n
<1>1. ASSUME NEW i \in Nat, NEW j \in Nat
      PROVE  <<i, j>> \in Less <=> i < j
  BY DEF Less
<1>2. PICK m \in T : \A n \in T : <<n, m>> \notin Less
  BY LessWellFounded, WFMin
<1>3. ASSUME NEW n \in T
      PROVE  m <= n
  <2>1. ~(n < m)
    BY <1>1, <1>2
  <2>2. QED
    BY <2>1
<1>4. QED
  BY <1>3

(* Induction: a set that holds 0 and every successor of its numbers holds  *)
(* all natural numbers.                                                    *)
LEMMA InductiveSet ==
  ASSUME NEW S, 0 \in S, \A n \in Nat : n \in S => n + 1 \in S
  PROVE  Nat \subseteq S
<1>1. SUFFICES ASSUME Nat \ S # {}
               PROVE  FALSE
  OBVIOUS
<1>2. PICK m \in Nat \ S : \A n \in Nat \ S : m <= n
  BY <1>1, LeastElement
<1>3. m # 0 /\ m - 1 \in Nat /\ m - 1 \in S
  BY <1>2
<1>4. QED
  BY <1>2, <1>3

(* Induction over sequences: a set that holds the empty one and every      *)
(* extension of its sequences by one element holds all sequences.          *)
LEMMA InductiveSequences ==
  ASSUME NEW E, NEW S, \A s : s = <<>> => s \in S,
         \A s, t \in Seq(E), e \in E : s \in S /\ t = Append(s, e) => t \in S
  PROVE  Seq(E) \subseteq S
<1> DEFINE OfLength == {n \in Nat : \A s \in Seq(E) : Len(s) = n => s \in S}
<1>1. 0 \in OfLength
  BY EmptySeq
<1>2. ASSUME NEW n \in Nat, n \in OfLength
      PROVE  n + 1 \in OfLength
  <2>1. SUFFICES ASSUME NEW t \in Seq(E), Len(t) = n + 1
                 PROVE  t \in S
    OBVIOUS
  <2>2. PICK s \in Seq(E), e \in E : t = Append(s, e)
    BY <2>1, EmptySeq, SequenceEmptyOrAppend
  <2>3. Len(s) = n
    BY <2>1, <2>2, AppendProperties
  <2>4. QED
    BY <1>2, <2>2, <2>3
<1>3. Nat \subseteq OfLength
  <2> HIDE DEF OfLength
  <2>1. QED
    BY <1>1, <1>2, InductiveSet
<1>4. QED
  BY <1>3, LenProperties

-----------------------------------------------------------------------------
(* The recursive function inside Filter exists, so that it is what it says *)
(* to be.                                                                  *)
Step(s, keep, f, n) ==
  IF n = 0 THEN <<>> ELSE IF s[n] \in keep THEN Append(f[n - 1], s[n]) ELSE f[n - 1]
Kept(s, keep) == CHOOSE f : f = [n \in 0..Len(s) |-> Step(s, keep, f, n)]

(* Filter is the last entry of the table Kept.                             *)
LEMMA FilterIsKept == \A s, keep : Filter(s, keep) = Kept(s, keep)[Len(s)]
BY Zenon DEF Filter, Kept, Step

(* The table of the recursion exists up to every length.                   *)
LEMMA KeptUpTo ==
  ASSUME NEW s, NEW keep, NEW m \in Nat
  PROVE  \E f : f = [n \in 0..m |-> Step(s, keep, f, n)]
<1> DEFINE Exist == {k \in Nat : \E f : f = [n \in 0..k |-> Step(s, keep, f, n)]}
<1>1. 0 \in Exist
  <2>1. [n \in 0..0 |-> <<>>] = [n \in 0..0 |-> Step(s, keep, [m0 \in 0..0 |-> <<>>], n)]
    BY DEF Step
  <2>2. QED
    BY <2>1
<1>2. ASSUME NEW k \in Nat, k \in Exist
      PROVE  k + 1 \in Exist
  <2>1. PICK f : f = [n \in 0..k |-> Step(s, keep, f, n)]
    BY <1>2
  <2> DEFINE g == [n \in 0..k + 1 |-> IF n = k + 1 THEN Step(s, keep, f, k + 1) ELSE f[n]]
  <2>2. ASSUME NEW n \in 0..k + 1
        PROVE  g[n] = Step(s, keep, g, n)
    <3>1. CASE n = k + 1
      BY <3>1 DEF Step
    <3>2. CASE n \in 0..k
      <4>1. f[n] = Step(s, keep, f, n)
        BY <2>1, <3>2
      <4>2. n # 0 => g[n - 1] = f[n - 1]
        BY <3>2
      <4>3. QED
        BY <3>2, <4>1, <4>2 DEF Step
    <3>3. QED
      BY <3>1, <3>2
  <2>3. g = [n \in 0..k + 1 |-> Step(s, keep, g, n)]
    BY <2>2
  <2>4. \E h : h = [n \in 0..k + 1 |-> Step(s, keep, h, n)]
    <3> HIDE DEF g
    <3>1. QED
      BY <2>3, Zenon
  <2>5. QED
    BY <2>4
<1>3. Nat \subseteq Exist
  <2> HIDE DEF Exist
  <2>1. QED
    BY <1>1, <1>2, InductiveSet
<1>4. QED
  BY <1>3

(* So the table satisfies its equation.                                    *)
LEMMA KeptIs ==
  ASSUME NEW s, NEW keep, Len(s) \in Nat
  PROVE  \A n \in 0..Len(s) : Kept(s, keep)[n] = Step(s, keep, Kept(s, keep), n)
<1>1. Kept(s, keep) = [n \in 0..Len(s) |-> Step(s, keep, Kept(s, keep), n)]
  <2>1. \E f : f = [n \in 0..Len(s) |-> Step(s, keep, f, n)]
    BY KeptUpTo
  <2>2. QED
    BY <2>1, Zenon DEF Kept
<1>2. ASSUME NEW f, f = [n \in 0..Len(s) |-> Step(s, keep, f, n)], NEW n \in 0..Len(s)
      PROVE  f[n] = Step(s, keep, f, n)
  BY <1>2, Zenon
<1>3. QED
  BY <1>1, <1>2

(* Filter, one element at a time.                                          *)
LEMMA FilterEmpty == \A keep : Filter(<<>>, keep) = <<>>
<1>1. ASSUME NEW keep
      PROVE  Filter(<<>>, keep) = <<>>
  <2>1. SUFFICES ASSUME NEW s, s = <<>>
                 PROVE  Filter(s, keep) = <<>>
    OBVIOUS
  <2>2. Len(s) = 0
    BY <2>1
  <2>3. QED
    BY <2>2, FilterIsKept, KeptIs DEF Step
<1>2. QED
  BY <1>1

(* The table of a list begins like that of its beginning.                  *)
LEMMA KeptPrefix ==
  ASSUME NEW s, NEW t, NEW keep, Len(s) \in Nat, Len(t) \in Nat, Len(s) <= Len(t),
         \A n \in 1..Len(s) : t[n] = s[n]
  PROVE  \A n \in 0..Len(s) : Kept(t, keep)[n] = Kept(s, keep)[n]
<1> DEFINE Same == {n \in Nat : n <= Len(s) => Kept(t, keep)[n] = Kept(s, keep)[n]}
<1>1. \A n \in 0..Len(s) : Kept(s, keep)[n] = Step(s, keep, Kept(s, keep), n)
  BY KeptIs
<1>2. \A n \in 0..Len(t) : Kept(t, keep)[n] = Step(t, keep, Kept(t, keep), n)
  BY KeptIs
<1>3. 0 \in Same
  BY <1>1, <1>2 DEF Step
<1>4. ASSUME NEW n \in Nat, n \in Same
      PROVE  n + 1 \in Same
  BY <1>1, <1>2, <1>4 DEF Step
<1>5. Nat \subseteq Same
  <2> HIDE DEF Same
  <2>1. QED
    BY <1>3, <1>4, InductiveSet
<1>6. QED
  BY <1>5

(* Filtering a list that grows.                                            *)
LEMMA FilterAppend ==
  ASSUME NEW E, NEW s \in Seq(E), NEW e \in E, NEW keep
  PROVE  Filter(Append(s, e), keep) =
           IF e \in keep THEN Append(Filter(s, keep), e) ELSE Filter(s, keep)
<1>1. SUFFICES ASSUME NEW t, t = Append(s, e)
               PROVE  Filter(t, keep) = IF e \in keep THEN Append(Filter(s, keep), e) ELSE Filter(s, keep)
  OBVIOUS
<1>2. /\ Len(s) \in Nat /\ Len(t) \in Nat /\ Len(t) = Len(s) + 1
      /\ t[Len(s) + 1] = e /\ \A n \in 1..Len(s) : t[n] = s[n]
  BY <1>1, AppendProperties, LenProperties
<1>3. \A n \in 0..Len(t) : Kept(t, keep)[n] = Step(t, keep, Kept(t, keep), n)
  BY <1>2, KeptIs
<1>4. Kept(t, keep)[Len(s) + 1] = Step(t, keep, Kept(t, keep), Len(s) + 1)
  BY <1>2, <1>3
<1>5. Kept(t, keep)[Len(s)] = Kept(s, keep)[Len(s)]
  BY <1>2, KeptPrefix
<1>6. Kept(t, keep)[Len(t)] = IF e \in keep THEN Append(Kept(s, keep)[Len(s)], e) ELSE Kept(s, keep)[Len(s)]
  BY <1>2, <1>4, <1>5 DEF Step
<1>7. QED
  BY <1>6, FilterIsKept

(* What Filter returns holds the elements to keep and no others.           *)
LEMMA ElementsAppend ==
  \A E : \A s \in Seq(E), e \in E : Elements(Append(s, e)) = Elements(s) \cup {e}
<1>1. ASSUME NEW E, NEW s \in Seq(E), NEW e \in E
      PROVE  Elements(Append(s, e)) = Elements(s) \cup {e}
  <2> DEFINE t == Append(s, e)
  <2>1. /\ Len(s) \in Nat /\ Len(t) = Len(s) + 1
        /\ t[Len(s) + 1] = e /\ \A n \in 1..Len(s) : t[n] = s[n]
    BY AppendProperties, LenProperties
  <2> HIDE DEF t
  <2>2. Elements(t) = Elements(s) \cup {e}
    BY <2>1 DEF Elements
  <2>3. QED
    BY <2>2 DEF t
<1>2. QED
  BY <1>1

(* The length and the entries of a list that grows.                        *)
LEMMA AppendFacts ==
  ASSUME NEW E, NEW s \in Seq(E), NEW e \in E, NEW t, t = Append(s, e)
  PROVE  /\ t \in Seq(E) /\ Len(s) \in Nat /\ Len(t) = Len(s) + 1
         /\ t[Len(t)] = e /\ \A n \in 1..Len(s) : t[n] = s[n]
BY AppendProperties, LenProperties

(* Filtering keeps exactly the elements asked for.                         *)
LEMMA FilterElements ==
  ASSUME NEW E, NEW s \in Seq(E), NEW keep
  PROVE  /\ Filter(s, keep) \in Seq(E)
         /\ Len(Filter(s, keep)) <= Len(s)
         /\ Elements(Filter(s, keep)) = Elements(s) \cap keep
<1> DEFINE Holds == {t \in Seq(E) : /\ Filter(t, keep) \in Seq(E)
                                    /\ Len(Filter(t, keep)) <= Len(t)
                                    /\ Elements(Filter(t, keep)) = Elements(t) \cap keep}
<1>1. ASSUME NEW t, t = <<>>
      PROVE  t \in Holds
  <2>1. Filter(t, keep) = t /\ t \in Seq(E) /\ Len(t) = 0
    BY <1>1, FilterEmpty, EmptySeq
  <2>2. QED
    BY <2>1 DEF Elements
<1>2. ASSUME NEW t \in Seq(E), NEW u \in Seq(E), NEW e \in E, t \in Holds, u = Append(t, e)
      PROVE  u \in Holds
  <2>0. u = Append(t, e) /\ Filter(t, keep) \in Seq(E)
    BY <1>2
  <2>1. Len(t) \in Nat /\ Len(u) = Len(t) + 1 /\ Elements(u) = Elements(t) \cup {e}
    BY <2>0, ElementsAppend, AppendFacts
  <2>2. CASE e \in keep
    <3>1. Filter(u, keep) = Append(Filter(t, keep), e)
      BY <1>2, <2>2, FilterAppend
    <3>2. /\ Filter(u, keep) \in Seq(E) /\ Len(Filter(t, keep)) \in Nat
          /\ Len(Filter(u, keep)) = Len(Filter(t, keep)) + 1
          /\ Elements(Filter(u, keep)) = Elements(Filter(t, keep)) \cup {e}
      BY <2>0, <3>1, ElementsAppend, AppendFacts
    <3>3. QED
      BY <1>2, <2>1, <2>2, <3>2
  <2>3. CASE e \notin keep
    <3>1. Filter(u, keep) = Filter(t, keep)
      BY <1>2, <2>3, FilterAppend
    <3>2. Len(Filter(t, keep)) \in Nat
      BY <1>2, LenProperties
    <3>3. QED
      BY <1>2, <2>1, <2>3, <3>1, <3>2
  <2>4. QED
    BY <2>2, <2>3
<1>3. Seq(E) \subseteq Holds
  <2> HIDE DEF Holds
  <2>1. QED
    BY <1>1, <1>2, InductiveSequences
<1>4. QED
  BY <1>3

(* Filter keeps a list without repetitions free of them.                   *)
LEMMA FilterDistinct ==
  ASSUME NEW E, NEW s \in Seq(E), NEW keep, Distinct(s)
  PROVE  Distinct(Filter(s, keep))
<1> DEFINE Holds == {t \in Seq(E) : Distinct(t) => Distinct(Filter(t, keep))}
<1>1. ASSUME NEW t, t = <<>>
      PROVE  t \in Holds
  BY <1>1, FilterEmpty, EmptySeq
<1>2. ASSUME NEW t \in Seq(E), NEW u \in Seq(E), NEW e \in E, t \in Holds, u = Append(t, e)
      PROVE  u \in Holds
  <2>1. SUFFICES ASSUME Distinct(u)
                 PROVE  Distinct(Filter(u, keep))
    OBVIOUS
  <2>2. /\ Len(t) \in Nat /\ Len(u) = Len(t) + 1
        /\ u[Len(u)] = e /\ \A n \in 1..Len(t) : u[n] = t[n]
    BY <1>2, AppendFacts
  <2>3. Distinct(t) /\ e \notin Elements(t)
    BY <2>1, <2>2 DEF Distinct, Elements
  <2>4. Distinct(Filter(t, keep)) /\ Filter(t, keep) \in Seq(E) /\ e \notin Elements(Filter(t, keep))
    BY <1>2, <2>3, FilterElements
  <2>5. CASE e \in keep
    <3>1. Filter(u, keep) = Append(Filter(t, keep), e)
      BY <1>2, <2>5, FilterAppend
    <3>2. LET f == Filter(t, keep)
              g == Filter(u, keep)
          IN  /\ Len(f) \in Nat /\ Len(g) = Len(f) + 1
              /\ g[Len(g)] = e /\ \A n \in 1..Len(f) : g[n] = f[n]
      BY <2>4, <3>1, AppendFacts
    <3>3. QED
      BY <2>4, <3>2 DEF Distinct, Elements
  <2>6. CASE e \notin keep
    BY <1>2, <2>4, <2>6, FilterAppend
  <2>7. QED
    BY <2>5, <2>6
<1>3. Seq(E) \subseteq Holds
  <2> HIDE DEF Holds
  <2>1. QED
    BY <1>1, <1>2, InductiveSequences
<1>4. QED
  BY <1>3

(* Filtering twice, and filtering by sets that agree on the list.          *)
LEMMA FilterTwice ==
  ASSUME NEW E, NEW s \in Seq(E), NEW T, NEW U
  PROVE  Filter(Filter(s, T), U) = Filter(s, T \cap U)
<1> DEFINE Holds == {t \in Seq(E) : Filter(Filter(t, T), U) = Filter(t, T \cap U)}
<1>1. ASSUME NEW t, t = <<>>
      PROVE  t \in Holds
  BY <1>1, FilterEmpty, EmptySeq
<1>2. ASSUME NEW t \in Seq(E), NEW u \in Seq(E), NEW e \in E, t \in Holds, u = Append(t, e)
      PROVE  u \in Holds
  <2>1. Filter(t, T) \in Seq(E)
    BY FilterElements
  <2>2. Filter(u, T) = IF e \in T THEN Append(Filter(t, T), e) ELSE Filter(t, T)
    BY <1>2, FilterAppend
  <2>3. Filter(u, T \cap U) = IF e \in T \cap U THEN Append(Filter(t, T \cap U), e) ELSE Filter(t, T \cap U)
    BY <1>2, FilterAppend
  <2>4. Filter(Append(Filter(t, T), e), U) =
          IF e \in U THEN Append(Filter(Filter(t, T), U), e) ELSE Filter(Filter(t, T), U)
    BY <2>1, FilterAppend
  <2>5. QED
    BY <1>2, <2>2, <2>3, <2>4
<1>3. Seq(E) \subseteq Holds
  <2> HIDE DEF Holds
  <2>1. QED
    BY <1>1, <1>2, InductiveSequences
<1>4. QED
  BY <1>3

(* Only the elements of the list matter to what is kept.                   *)
LEMMA FilterAgree ==
  ASSUME NEW E, NEW s \in Seq(E), NEW T, NEW U, Elements(s) \cap T = Elements(s) \cap U
  PROVE  Filter(s, T) = Filter(s, U)
<1> DEFINE Holds == {t \in Seq(E) : Elements(t) \cap T = Elements(t) \cap U => Filter(t, T) = Filter(t, U)}
<1>1. ASSUME NEW t, t = <<>>
      PROVE  t \in Holds
  BY <1>1, FilterEmpty, EmptySeq
<1>2. ASSUME NEW t \in Seq(E), NEW u \in Seq(E), NEW e \in E, t \in Holds, u = Append(t, e)
      PROVE  u \in Holds
  <2>0. u = Append(t, e)
    BY <1>2
  <2>1. Elements(u) = Elements(t) \cup {e}
    BY <2>0, ElementsAppend
  <2>2. /\ Filter(u, T) = IF e \in T THEN Append(Filter(t, T), e) ELSE Filter(t, T)
        /\ Filter(u, U) = IF e \in U THEN Append(Filter(t, U), e) ELSE Filter(t, U)
    BY <1>2, FilterAppend
  <2>3. QED
    BY <1>2, <2>1, <2>2
<1>3. Seq(E) \subseteq Holds
  <2> HIDE DEF Holds
  <2>1. QED
    BY <1>1, <1>2, InductiveSequences
<1>4. QED
  BY <1>3

(* Filter works on the parts of a list one after the other.                *)
LEMMA FilterConcat ==
  ASSUME NEW E, NEW r \in Seq(E), NEW s \in Seq(E), NEW keep
  PROVE  Filter(r \o s, keep) = Filter(r, keep) \o Filter(s, keep)
<1> DEFINE Holds == {t \in Seq(E) : Filter(r \o t, keep) = Filter(r, keep) \o Filter(t, keep)}
<1>0. Filter(r, keep) \in Seq(E)
  BY FilterElements
<1>1. ASSUME NEW t, t = <<>>
      PROVE  t \in Holds
  BY <1>0, <1>1, FilterEmpty, EmptySeq, ConcatEmptySeq
<1>2. ASSUME NEW t \in Seq(E), NEW u \in Seq(E), NEW e \in E, t \in Holds, u = Append(t, e)
      PROVE  u \in Holds
  <2>1. Filter(t, keep) \in Seq(E) /\ r \o t \in Seq(E)
    BY FilterElements, ConcatProperties
  <2>2. \A a, b \in Seq(E) : a \o Append(b, e) = Append(a \o b, e)
    <3>1. TAKE a, b \in Seq(E)
    <3>2. <<e>> \in Seq(E) /\ a \o b \in Seq(E)
      BY ConcatProperties
    <3>3. Append(b, e) = b \o <<e>> /\ Append(a \o b, e) = (a \o b) \o <<e>>
      BY <3>2, AppendIsConcat
    <3>4. QED
      BY <3>2, <3>3, ConcatAssociative
  <2>3. Filter(r \o u, keep) = IF e \in keep THEN Append(Filter(r \o t, keep), e) ELSE Filter(r \o t, keep)
    <3>1. r \o u = Append(r \o t, e)
      BY <1>2, <2>2
    <3>2. Filter(Append(r \o t, e), keep) = IF e \in keep THEN Append(Filter(r \o t, keep), e) ELSE Filter(r \o t, keep)
      BY <2>1, FilterAppend
    <3>3. QED
      BY <3>1, <3>2
  <2>4. Filter(u, keep) = IF e \in keep THEN Append(Filter(t, keep), e) ELSE Filter(t, keep)
    BY <1>2, FilterAppend
  <2>5. QED
    BY <1>0, <1>2, <2>1, <2>2, <2>3, <2>4
<1>3. Seq(E) \subseteq Holds
  <2> HIDE DEF Holds
  <2>1. QED
    BY <1>1, <1>2, InductiveSequences
<1>4. QED
  BY <1>3

-----------------------------------------------------------------------------
(* Without takes out one element and leaves the others in their order.     *)
LEMMA WithoutFacts ==
  ASSUME NEW E, NEW s \in Seq(E), NEW i \in 1..Len(s)
  PROVE  /\ Without(s, i) \in Seq(E)
         /\ Len(s) \in Nat /\ Len(Without(s, i)) = Len(s) - 1
         /\ \A n \in 1..Len(s) - 1 : Without(s, i)[n] = IF n < i THEN s[n] ELSE s[n + 1]
<1> DEFINE r == SubSeq(s, 1, i - 1)
           t == SubSeq(s, i + 1, Len(s))
<1>1. /\ Len(s) \in Nat /\ i \in Int /\ i - 1 \in Int /\ i + 1 \in Int /\ 1 \in Int /\ Len(s) \in Int
      /\ \A n \in 1..i - 1 : s[n] \in E
      /\ \A n \in i + 1..Len(s) : s[n] \in E
  BY LenProperties
<1>2. r \in Seq(E) /\ Len(r) = i - 1 /\ \A n \in 1..i - 1 : r[n] = s[n]
  <2>1. r \in Seq(E) /\ Len(r) = (IF 1 <= i - 1 THEN i - 1 - 1 + 1 ELSE 0)
        /\ \A n \in 1..i - 1 - 1 + 1 : r[n] = s[1 + n - 1]
    BY <1>1, SubSeqProperties
  <2>2. QED
    BY <1>1, <2>1
<1>3. t \in Seq(E) /\ Len(t) = Len(s) - i /\ \A n \in 1..Len(s) - i : t[n] = s[i + n]
  <2>1. t \in Seq(E) /\ Len(t) = (IF i + 1 <= Len(s) THEN Len(s) - (i + 1) + 1 ELSE 0)
        /\ \A n \in 1..Len(s) - (i + 1) + 1 : t[n] = s[i + 1 + n - 1]
    BY <1>1, SubSeqProperties
  <2>2. QED
    BY <1>1, <2>1
<1> HIDE DEF r, t
<1>4. /\ r \o t \in Seq(E)
      /\ Len(r \o t) = Len(r) + Len(t)
      /\ \A n \in 1..Len(r) + Len(t) : (r \o t)[n] = IF n <= Len(r) THEN r[n] ELSE t[n - Len(r)]
  BY <1>2, <1>3, ConcatProperties
<1>5. Without(s, i) = r \o t
  BY DEF Without, r, t
<1>6. ASSUME NEW n \in 1..Len(s) - 1
      PROVE  (r \o t)[n] = IF n < i THEN s[n] ELSE s[n + 1]
  <2>1. CASE n < i
    BY <1>1, <1>2, <1>3, <1>4, <2>1
  <2>2. CASE ~(n < i)
    <3>1. (r \o t)[n] = t[n - (i - 1)] /\ n - (i - 1) \in 1..Len(s) - i
      BY <1>1, <1>2, <1>3, <1>4, <2>2
    <3>2. t[n - (i - 1)] = s[i + (n - (i - 1))] /\ i + (n - (i - 1)) = n + 1
      BY <1>1, <1>3, <3>1
    <3>3. QED
      BY <2>2, <3>1, <3>2
  <2>3. QED
    BY <2>1, <2>2
<1>7. Len(r \o t) = Len(s) - 1
  BY <1>1, <1>2, <1>3, <1>4
<1>8. QED
  BY <1>1, <1>4, <1>5, <1>6, <1>7, Zenon

(* Erasing one position of a list without repetitions removes one element. *)
LEMMA WithoutElements ==
  ASSUME NEW E, NEW s \in Seq(E), NEW i \in 1..Len(s), Distinct(s)
  PROVE  Distinct(Without(s, i)) /\ Elements(Without(s, i)) = Elements(s) \ {s[i]}
<1> DEFINE w == Without(s, i)
<1>1. /\ Len(s) \in Nat /\ Len(w) = Len(s) - 1
      /\ \A n \in 1..Len(s) - 1 : w[n] = IF n < i THEN s[n] ELSE s[n + 1]
  BY WithoutFacts
<1> HIDE DEF w
<1>2. Distinct(w)
  BY <1>1 DEF Distinct
<1>3. Elements(w) \subseteq Elements(s) \ {s[i]}
  BY <1>1 DEF Distinct, Elements
<1>4. ASSUME NEW n \in 1..Len(s), s[n] # s[i]
      PROVE  s[n] \in Elements(w)
  <2>1. CASE n < i
    BY <1>1, <2>1 DEF Elements
  <2>2. CASE n > i
    <3>1. n - 1 \in 1..Len(s) - 1 /\ ~(n - 1 < i) /\ (n - 1) + 1 = n
      BY <1>1, <2>2
    <3>2. w[n - 1] = s[n]
      BY <1>1, <3>1
    <3>3. QED
      BY <1>1, <3>1, <3>2 DEF Elements
  <2>3. QED
    BY <1>1, <1>4, <2>1, <2>2
<1>5. Elements(s) \ {s[i]} \subseteq Elements(w)
  BY <1>4 DEF Elements
<1>6. QED
  BY <1>2, <1>3, <1>5 DEF w

(* Taking out an element that is not kept changes nothing.                 *)
LEMMA FilterWithout ==
  ASSUME NEW E, NEW s \in Seq(E), NEW i \in 1..Len(s), NEW keep, s[i] \notin keep
  PROVE  Filter(Without(s, i), keep) = Filter(s, keep)
<1> DEFINE r == SubSeq(s, 1, i - 1)
           q == SubSeq(s, 1, i)
           t == SubSeq(s, i + 1, Len(s))
<1>1. Len(s) \in Nat /\ s[i] \in E
  BY LenProperties, ElementOfSeq
<1>2. r \in Seq(E) /\ q \in Seq(E) /\ t \in Seq(E)
  BY <1>1, SubSeqProperties, ElementOfSeq
<1>3. q = Append(r, s[i])
  <2>1. 1 \in 1..Len(s) /\ i \in 1..Len(s)
    BY <1>1
  <2>2. q = r \o <<s[i]>>
    BY <2>1, SubSeqRecursiveSecond
  <2>3. QED
    BY <1>1, <1>2, <2>2, AppendIsConcat
<1>4. s = q \o t
  <2>1. 1 \in 1..Len(s) + 1 /\ i \in 1 - 1..Len(s) /\ Len(s) \in i..Len(s)
    BY <1>1
  <2>2. q \o t = SubSeq(s, 1, Len(s))
    BY <2>1, ConcatAdjacentSubSeq
  <2>3. QED
    BY <2>2, SubSeqFull
<1>5. Without(s, i) = r \o t
  BY DEF Without
<1> HIDE DEF r, q, t
<1>6. Filter(q, keep) = Filter(r, keep)
  BY <1>1, <1>2, <1>3, FilterAppend
<1>7. Filter(q \o t, keep) = Filter(q, keep) \o Filter(t, keep)
  BY <1>2, FilterConcat
<1>8. Filter(r \o t, keep) = Filter(r, keep) \o Filter(t, keep)
  BY <1>2, FilterConcat
<1>9. QED
  BY <1>4, <1>5, <1>6, <1>7, <1>8

-----------------------------------------------------------------------------
(* Sequences of whatever elements they have.                               *)
IsList(s) == s \in Seq(Elements(s))

(* Length and domain of a list, of whatever elements.                      *)
LEMMA ListFacts ==
  ASSUME NEW s, IsList(s)
  PROVE  /\ Len(s) \in Nat /\ DOMAIN s = 1..Len(s)
         /\ s # <<>> => Len(s) > 0
         /\ s = <<>> => Len(s) = 0
<1>1. s \in Seq(Elements(s))
  BY DEF IsList
<1>2. Len(s) \in Nat /\ DOMAIN s = 1..Len(s)
  BY <1>1, LenProperties
<1>3. s # <<>> => Len(s) \in Nat \ {0}
  BY <1>1, EmptySeq
<1>4. QED
  BY <1>2, <1>3

(* A sequence over a set is a list.                                        *)
LEMMA SeqIsList ==
  ASSUME NEW E, NEW s \in Seq(E)
  PROVE  IsList(s) /\ Elements(s) \subseteq E
<1>1. Len(s) \in Nat /\ s \in [1..Len(s) -> E]
  BY LenProperties
<1>2. s \in [1..Len(s) -> Elements(s)]
  BY <1>1 DEF Elements
<1>3. s \in Seq(Elements(s))
  BY <1>1, <1>2, SeqDef
<1>4. QED
  BY <1>1, <1>3 DEF IsList, Elements

(* The empty list.                                                         *)
LEMMA ListEmpty ==
  ASSUME NEW s, s = <<>>
  PROVE  IsList(s) /\ Len(s) = 0 /\ DOMAIN s = {} /\ Elements(s) = {}
<1>1. ASSUME NEW E
      PROVE  s \in Seq(E) /\ Len(s) = 0
  BY EmptySeq
<1>2. s \in Seq(Elements(s)) /\ Len(s) = 0
  BY <1>1
<1>3. DOMAIN s = 1..0
  BY <1>2, LenProperties
<1>4. QED
  BY <1>2, <1>3 DEF IsList, Elements

(* t is s with e at its end.                                               *)
Extends(t, s, e) ==
  /\ IsList(t) /\ Len(s) \in Nat /\ Len(t) = Len(s) + 1
  /\ t[Len(t)] = e /\ \A n \in 1..Len(s) : t[n] = s[n]

(* Appending to a list of whatever elements.                               *)
LEMMA ListAppend ==
  ASSUME NEW s, IsList(s), NEW e, NEW t, t = Append(s, e)
  PROVE  Extends(t, s, e)
<1> DEFINE E == Elements(s) \cup {e}
<1>1. s \in Seq(E) /\ e \in E
  BY SeqMonotonic DEF IsList
<1> HIDE DEF E
<1>2. /\ t \in Seq(E) /\ Len(s) \in Nat /\ Len(t) = Len(s) + 1
      /\ t[Len(t)] = e /\ \A n \in 1..Len(s) : t[n] = s[n]
  BY <1>1, AppendFacts
<1>3. QED
  BY <1>2, SeqIsList DEF Extends

(* Taking off the last element.                                            *)
LEMMA ListFront ==
  ASSUME NEW s, IsList(s), Len(s) > 0, NEW t, t = SubSeq(s, 1, Len(s) - 1)
  PROVE  /\ IsList(t) /\ Len(s) \in Nat /\ Len(t) = Len(s) - 1
         /\ \A n \in 1..Len(s) - 1 : t[n] = s[n]
<1> DEFINE E == Elements(s)
           k == Len(s) - 1
<1>1. Len(s) \in Nat /\ 1 \in Int /\ k \in Int /\ \A i \in 1..k : s[i] \in E
  BY ListFacts DEF Elements
<1> HIDE DEF E
<1>2. /\ SubSeq(s, 1, k) \in Seq(E)
      /\ Len(SubSeq(s, 1, k)) = IF 1 <= k THEN k - 1 + 1 ELSE 0
      /\ \A i \in 1..k - 1 + 1 : SubSeq(s, 1, k)[i] = s[1 + i - 1]
  <2> HIDE DEF k
  <2>1. QED
    BY <1>1, SubSeqProperties
<1>3. t \in Seq(E) /\ Len(t) = k /\ \A i \in 1..k : t[i] = s[i]
  <2>1. t = SubSeq(s, 1, k) /\ k >= 0
    BY <1>1
  <2> HIDE DEF k
  <2>2. QED
    BY <1>1, <1>2, <2>1
<1>4. QED
  BY <1>1, <1>3, SeqIsList

Replaces(t, s, i, e) ==
  /\ IsList(t) /\ Len(t) = Len(s)
  /\ \A n \in 1..Len(s) : t[n] = IF n = i THEN e ELSE s[n]

(* Replacing one element.                                                  *)
LEMMA ListExcept ==
  ASSUME NEW s, IsList(s), NEW i \in 1..Len(s), NEW e, NEW t, t = [s EXCEPT ![i] = e]
  PROVE  Replaces(t, s, i, e)
<1> DEFINE E == Elements(s) \cup {e}
<1>1. s \in Seq(E) /\ e \in E
  BY SeqMonotonic DEF IsList
<1> HIDE DEF E
<1>2. /\ [s EXCEPT ![i] = e] \in Seq(E)
      /\ Len([s EXCEPT ![i] = e]) = Len(s)
      /\ \A n \in 1..Len(s) : [s EXCEPT ![i] = e][n] = IF n = i THEN e ELSE s[n]
  BY <1>1, ExceptSeq
<1>3. QED
  BY <1>2, SeqIsList DEF Replaces
================================================================================
