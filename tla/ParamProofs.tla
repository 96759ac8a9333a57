------------------------------- MODULE ParamProofs -------------------------------
(***************************************************************************)
(* What param! means at run time and at compile time, for integers of any  *)
(* width and any number of requirements and call sites: widening does not  *)
(* show, and the static verdict is that of the calls.                      *)
(***************************************************************************)
EXTENDS ParamCheck, ListProofs

Width == NarrowSizes \cup {PointerSize}

(* Powers of two up to the size of a pointer.                              *)
LEMMA Powers ==
  \A k \in 0..PointerSize : 2^k \in Nat \ {0} /\ (k # 0 => 2^k = 2 * 2^(k - 1))
<1> DEFINE Good == {k \in Nat : k <= PointerSize => 2^k \in Nat \ {0}}
<1>1. 0 \in Good
  <2>1. 2^0 = 1
    OBVIOUS
  <2>2. QED
    BY <2>1
<1>2. ASSUME NEW k \in Nat, k \in Good
      PROVE  k + 1 \in Good
  <2>1. SUFFICES ASSUME k + 1 <= PointerSize
                 PROVE  2^(k + 1) \in Nat \ {0}
    OBVIOUS
  <2>2. PointerSize \in Nat /\ 2^k \in Nat \ {0}
    BY <1>2, <2>1, SizesAssumption
  <2>3. k + 1 \in 1..PointerSize /\ (k + 1) - 1 = k
    BY <2>1, <2>2
  <2>4. 2^(k + 1) = 2 * 2^((k + 1) - 1)
    BY <2>3, PowerAssumption
  <2>5. 2^(k + 1) = 2 * 2^k
    BY <2>3, <2>4
  <2>6. QED
    BY <2>2, <2>5
<1>3. Nat \subseteq Good
  <2> HIDE DEF Good
  <2>1. QED
    BY <1>1, <1>2, InductiveSet
<1>4. QED
  BY <1>3, SizesAssumption, PowerAssumption

(* A smaller power divides a greater one.                                  *)
LEMMA PowerDivides ==
  ASSUME NEW a \in Nat, NEW b \in Nat, a <= b, b <= PointerSize
  PROVE  \E m \in Nat : 2^b = m * 2^a
<1> DEFINE Good == {d \in Nat : a + d <= PointerSize => \E m \in Nat : 2^(a + d) = m * 2^a}
<1>1. PointerSize \in Nat /\ 2^a \in Nat
  BY Powers, SizesAssumption
<1>2. 0 \in Good
  <2>1. a + 0 = a /\ 2^a = 1 * 2^a
    BY <1>1
  <2>2. QED
    BY <2>1
<1>3. ASSUME NEW d \in Nat, d \in Good
      PROVE  d + 1 \in Good
  <2>1. SUFFICES ASSUME a + (d + 1) <= PointerSize
                 PROVE  \E m \in Nat : 2^(a + (d + 1)) = m * 2^a
    OBVIOUS
  <2>2. PICK m \in Nat : 2^(a + d) = m * 2^a
    BY <1>1, <1>3, <2>1
  <2>3. a + (d + 1) \in 0..PointerSize /\ a + (d + 1) # 0 /\ (a + (d + 1)) - 1 = a + d
    BY <1>1, <2>1
  <2>4. 2^(a + (d + 1)) = 2 * 2^(a + d)
    BY <2>3, Powers
  <2>5. 2 * (m * 2^a) = (2 * m) * 2^a
    BY <1>1
  <2>6. 2^(a + (d + 1)) = (2 * m) * 2^a
    BY <2>2, <2>4, <2>5
  <2>7. \A e \in Nat : 2^(a + (d + 1)) = e * 2^a => \E f \in Nat : 2^(a + (d + 1)) = f * 2^a
    OBVIOUS
  <2>8. 2 * m \in Nat
    OBVIOUS
  <2>9. QED
    BY <2>6, <2>7, <2>8
<1>4. Nat \subseteq Good
  <2> HIDE DEF Good
  <2>1. QED
    BY <1>2, <1>3, InductiveSet
<1>5. b - a \in Good /\ a + (b - a) = b
  BY <1>4
<1>6. QED
  BY <1>5

(* The remainder of a number that is at most a modulus below zero.         *)
LEMMA Remainder ==
  ASSUME NEW n \in Int, NEW m \in Nat, -m <= n, n < m
  PROVE  n % m = IF n >= 0 THEN n ELSE n + m
OBVIOUS

(* A multiple of the modulus does not change the remainder.                *)
LEMMA RemainderOfMultiple ==
  ASSUME NEW r \in Nat, NEW q \in Nat, NEW m \in Nat, r < m
  PROVE  (r + q * m) % m = r
OBVIOUS


(* A number fits a width that sign_extend knows or that of a pointer.      *)
LEMMA WidthFacts ==
  ASSUME NEW bits \in Width
  PROVE  /\ bits \in 1..PointerSize /\ PointerSize \in Nat /\ PointerSize \in Width
         /\ 2^bits \in Nat /\ 2^(bits - 1) \in Nat /\ 2^bits = 2 * 2^(bits - 1)
         /\ 2^PointerSize \in Nat /\ 2^bits <= 2^PointerSize
         /\ \A n \in Int : Fits(n, bits) => Fits(n, PointerSize) /\ -(2^bits) <= n /\ n < 2^bits
<1>1. bits \in 1..PointerSize /\ PointerSize \in Nat \ {0} /\ PointerSize \in Width
  BY SizesAssumption DEF Width
<1>2. bits \in 0..PointerSize /\ bits # 0 /\ bits - 1 \in 0..PointerSize
      /\ PointerSize \in 0..PointerSize /\ PointerSize # 0 /\ PointerSize - 1 \in 0..PointerSize
      /\ bits - 1 <= PointerSize - 1
  BY <1>1
<1>3. /\ 2^bits \in Nat /\ 2^(bits - 1) \in Nat \ {0} /\ 2^bits = 2 * 2^(bits - 1)
      /\ 2^PointerSize \in Nat /\ 2^(PointerSize - 1) \in Nat \ {0} /\ 2^PointerSize = 2 * 2^(PointerSize - 1)
  BY <1>2, Powers
<1>4. PICK m \in Nat : 2^(PointerSize - 1) = m * 2^(bits - 1)
  <2>1. /\ bits - 1 \in Nat /\ PointerSize - 1 \in Nat /\ bits - 1 <= PointerSize - 1
        /\ PointerSize - 1 <= PointerSize
    BY <1>2
  <2>2. QED
    BY <2>1, PowerDivides, Zenon
<1>5. m # 0
  BY <1>3, <1>4
<1>6. 2^(bits - 1) <= 2^(PointerSize - 1)
  <2>1. \A x \in Nat : x <= m * x
    BY <1>5
  <2>2. QED
    BY <1>3, <1>4, <2>1
<1>7. \A n \in Int : Fits(n, bits) => Fits(n, PointerSize) /\ -(2^bits) <= n /\ n < 2^bits
  BY <1>3, <1>6 DEF Fits
<1>8. QED
  BY <1>1, <1>3, <1>6, <1>7

(* sign_extend reads a number back that was widened, with zeros at the     *)
(* size of the argument or with ones to that of a pointer.                 *)
LEMMA ReadBack ==
  ASSUME NEW bits \in Width, NEW n \in Int, Fits(n, bits)
  PROVE  /\ anyValToPtr(n, bits) \in Nat /\ getIntToPtr(n) \in Nat
         /\ sign_extend(anyValToPtr(n, bits), bits) = n
         /\ sign_extend(getIntToPtr(n), bits) = n
         /\ n >= 0 \/ bits = PointerSize => anyValToPtr(n, bits) = getIntToPtr(n)
<1> DEFINE M == 2^bits
           H == 2^(bits - 1)
           P == 2^PointerSize
           low == IF n >= 0 THEN n ELSE n + M
           wide == IF n >= 0 THEN n ELSE n + P
<1>1. /\ bits \in 1..PointerSize /\ PointerSize \in Nat /\ M \in Nat /\ H \in Nat /\ P \in Nat /\ M = 2 * H
      /\ -M <= n /\ n < M /\ M <= P
  BY WidthFacts
<1>2. -H <= n /\ n < H
  BY DEF Fits
<1>3. IF bits \in NarrowSizes THEN TRUE ELSE bits = PointerSize
  BY DEF Width
<1>4. \A ptr : sign_extend(ptr, bits) = IF ptr % M < H THEN ptr % M ELSE (ptr % M) - M
  BY <1>3 DEF sign_extend
<1>5. PICK m \in Nat : P = m * M
  <2>1. bits \in Nat /\ PointerSize \in Nat /\ bits <= PointerSize /\ PointerSize <= PointerSize
    BY <1>1
  <2>2. QED
    BY <2>1, PowerDivides, Zenon
<1> HIDE DEF M, H, P
<1>6. n % M = low /\ n % P = wide
  <2>1. -P <= n /\ n < P
    BY <1>1
  <2>2. QED
    BY <1>1, <2>1, Remainder, Zenon
<1>7. low \in Nat /\ low < M /\ wide \in Nat
  BY <1>1
<1>8. low % M = low
  <2>1. low % M = IF low >= 0 THEN low ELSE low + M
    <3>1. low \in Int /\ -M <= low
      BY <1>1, <1>7
    <3>2. QED
      BY <1>1, <1>7, <3>1, Remainder, Zenon
  <2>2. QED
    BY <1>7, <2>1
<1>9. wide % M = low
  <2>1. CASE n >= 0
    BY <1>8, <2>1
  <2>2. CASE n < 0
    <3>1. m # 0
      BY <1>1, <1>5, <2>2
    <3>2. m - 1 \in Nat /\ m * M = M + (m - 1) * M
      BY <1>1, <3>1
    <3>3. wide = low + (m - 1) * M
      BY <1>1, <1>5, <2>2, <3>2
    <3>4. (low + (m - 1) * M) % M = low
      BY <1>1, <1>7, <3>2, RemainderOfMultiple
    <3>5. QED
      BY <3>3, <3>4
  <2>3. QED
    BY <2>1, <2>2
<1>10. (IF low < H THEN low ELSE low - M) = n
  BY <1>1, <1>2
<1>11. anyValToPtr(n, bits) = low /\ getIntToPtr(n) = wide
  BY <1>6 DEF anyValToPtr, getIntToPtr, M, P
<1>12. bits = PointerSize => M = P
  BY DEF M, P
<1>13. QED
  BY <1>4, <1>7, <1>8, <1>9, <1>10, <1>11, <1>12


(* The comparison of the pointers is that of the integers, except that a   *)
(* negative number is equal to no argument narrower than a pointer.        *)
LEMMA HoldsMeans ==
  ASSUME NEW bits \in Width, NEW v \in Int, Fits(v, bits), NEW n \in Int, Fits(n, bits), NEW c \in Comparator
  PROVE  /\ ParamHolds(c, anyValToPtr(v, bits), getIntToPtr(n), bits) => Compare(c, v, n)
         /\ Compare(c, v, n) /\ ~(c = "EQ" /\ n < 0 /\ bits # PointerSize) => ParamHolds(c, anyValToPtr(v, bits), getIntToPtr(n), bits)
<1> DEFINE pv == anyValToPtr(v, bits)
           pn == getIntToPtr(n)
<1>1. sign_extend(pv, bits) = v /\ sign_extend(pn, bits) = n
  BY ReadBack
<1>2. pv = pn => v = n
  BY <1>1
<1>3. v = n /\ (n >= 0 \/ bits = PointerSize) => pv = pn
  BY ReadBack
<1> HIDE DEF pv, pn
<1>4. CASE c = "EXEQ"
  BY <1>1, <1>2, <1>4 DEF ParamHolds, Compare, pv, pn
<1>5. CASE c = "EQ"
  BY <1>1, <1>2, <1>3, <1>5 DEF ParamHolds, Compare, pv, pn
<1>6. CASE c = "NEQ"
  BY <1>1, <1>2, <1>6 DEF ParamHolds, Compare, pv, pn
<1>7. CASE c \in {"GTEQ", "GT", "LTEQ", "LT"}
  BY <1>1, <1>7 DEF ParamHolds, Compare, pv, pn
<1>8. QED
  BY <1>4, <1>5, <1>6, <1>7 DEF Comparator

-----------------------------------------------------------------------------
(* FlattenSeq.  The recursive function inside of it exists, so that it is  *)
(* what it says to be.                                                     *)
Longer(s, f, i) == IF i = 1 THEN s[i] ELSE f[i - 1] \o s[i]
Flat(s) == CHOOSE f : f = [i \in 1..Len(s) |-> Longer(s, f, i)]

(* FlattenSeq is the last entry of the table Flat.                         *)
LEMMA FlattenIsFlat == \A s : Len(s) # 0 => FlattenSeq(s) = Flat(s)[Len(s)]
BY Zenon DEF FlattenSeq, Flat, Longer

(* The table of the recursion exists up to every length.                   *)
LEMMA FlatUpTo ==
  ASSUME NEW s, NEW m \in Nat
  PROVE  \E f : f = [i \in 1..m |-> Longer(s, f, i)]
<1> DEFINE Exist == {k \in Nat : \E f : f = [i \in 1..k |-> Longer(s, f, i)]}
<1>1. 0 \in Exist
  <2>1. [i \in 1..0 |-> {}] = [i \in 1..0 |-> Longer(s, [j \in 1..0 |-> {}], i)]
    OBVIOUS
  <2>2. QED
    BY <2>1
<1>2. ASSUME NEW k \in Nat, k \in Exist
      PROVE  k + 1 \in Exist
  <2>1. PICK f : f = [i \in 1..k |-> Longer(s, f, i)]
    BY <1>2
  <2> DEFINE g == [i \in 1..k + 1 |-> IF i = k + 1 THEN Longer(s, f, k + 1) ELSE f[i]]
  <2>2. ASSUME NEW i \in 1..k + 1
        PROVE  g[i] = Longer(s, g, i)
    <3>1. i # 1 => g[i - 1] = f[i - 1]
      OBVIOUS
    <3>2. Longer(s, g, i) = Longer(s, f, i)
      BY <3>1 DEF Longer
    <3>3. i # k + 1 => f[i] = Longer(s, f, i)
      BY <2>1
    <3>4. QED
      BY <3>2, <3>3
  <2>3. g = [i \in 1..k + 1 |-> Longer(s, g, i)]
    BY <2>2
  <2>4. \E h : h = [i \in 1..k + 1 |-> Longer(s, h, i)]
    <3> HIDE DEF g
    <3>1. QED
      BY <2>3, Zenon
  <2>5. QED
    BY <2>4
<1>3. Nat \subseteq Exist
  <2> HIDE DEF Exist
  <2>1. QED
    BY <1>1, <1>2, InductiveSet
<1>4. QED
  BY <1>3

(* So the table satisfies its equation.                                    *)
LEMMA FlatIs ==
  ASSUME NEW s, Len(s) \in Nat
  PROVE  \A i \in 1..Len(s) : Flat(s)[i] = Longer(s, Flat(s), i)
<1>1. Flat(s) = [i \in 1..Len(s) |-> Longer(s, Flat(s), i)]
  <2>1. \E f : f = [i \in 1..Len(s) |-> Longer(s, f, i)]
    BY FlatUpTo
  <2>2. QED
    BY <2>1, Zenon DEF Flat
<1>2. ASSUME NEW f, f = [i \in 1..Len(s) |-> Longer(s, f, i)], NEW i \in 1..Len(s)
      PROVE  f[i] = Longer(s, f, i)
  BY <1>2, Zenon
<1>3. QED
  BY <1>1, <1>2


(* A list of lists, and a flat list that has the elements of the first k   *)
(* of them in their order: each of its elements is owned by one of them.   *)
Owned(X, s, k, flat, owner) ==
  /\ flat \in Seq(X) /\ owner \in [1..Len(flat) -> 1..k]
  /\ \A i \in 1..Len(flat) : \E p \in 1..Len(s[owner[i]]) : flat[i] = s[owner[i]][p]
  /\ \A i, j \in 1..Len(flat) : i <= j => owner[i] <= owner[j]
  /\ \A j \in 1..k : \A p \in 1..Len(s[j]) : \E i \in 1..Len(flat) : owner[i] = j /\ flat[i] = s[j][p]

(* One list more.                                                          *)
LEMMA OneListMore ==
  ASSUME NEW X, NEW s \in Seq(Seq(X)), NEW k \in Nat, k + 1 \in 1..Len(s), NEW flat, NEW owner,
         Owned(X, s, k, flat, owner)
  PROVE  \E o : Owned(X, s, k + 1, flat \o s[k + 1], o)
<1> DEFINE t == s[k + 1]
           new == flat \o t
           o == [i \in 1..Len(new) |-> IF i <= Len(flat) THEN owner[i] ELSE k + 1]
<1>1. flat \in Seq(X) /\ t \in Seq(X) /\ Len(flat) \in Nat /\ Len(t) \in Nat
  BY DEF Owned
<1>2. /\ new \in Seq(X) /\ Len(new) = Len(flat) + Len(t)
      /\ \A i \in 1..Len(flat) : new[i] = flat[i]
      /\ \A i \in 1..Len(t) : new[Len(flat) + i] = t[i]
  <2> HIDE DEF t
  <2>1. new \in Seq(X) /\ Len(new) = Len(flat) + Len(t)
        /\ \A i \in 1..Len(flat) + Len(t) : new[i] = IF i <= Len(flat) THEN flat[i] ELSE t[i - Len(flat)]
    BY <1>1, ConcatProperties
  <2>2. ASSUME NEW i \in 1..Len(t) PROVE new[Len(flat) + i] = t[i]
    <3>1. Len(flat) + i \in 1..Len(flat) + Len(t) /\ ~(Len(flat) + i <= Len(flat)) /\ (Len(flat) + i) - Len(flat) = i
      BY <1>1
    <3>2. new[Len(flat) + i] = t[(Len(flat) + i) - Len(flat)]
      BY <2>1, <3>1
    <3>3. QED
      BY <3>1, <3>2
  <2>3. \A i \in 1..Len(flat) : new[i] = flat[i]
    BY <1>1, <2>1
  <2>4. QED
    BY <2>1, <2>2, <2>3
<1> HIDE DEF new
<1>3. /\ \A i \in 1..Len(flat) : i \in 1..Len(new) /\ o[i] = owner[i] /\ owner[i] \in 1..k
      /\ \A i \in 1..Len(new) : i \notin 1..Len(flat) => o[i] = k + 1 /\ i - Len(flat) \in 1..Len(t)
                                  /\ new[i] = t[i - Len(flat)]
  <2>1. \A i \in 1..Len(flat) : i \in 1..Len(new) /\ o[i] = owner[i] /\ owner[i] \in 1..k
    <3>1. ASSUME NEW i \in 1..Len(flat)
          PROVE  i \in 1..Len(new) /\ i <= Len(flat)
      BY <1>1, <1>2
    <3>2. \A i \in 1..Len(flat) : owner[i] \in 1..k
      BY DEF Owned
    <3>3. QED
      BY <3>1, <3>2
  <2>2. ASSUME NEW i \in 1..Len(new), i \notin 1..Len(flat)
        PROVE  o[i] = k + 1 /\ i - Len(flat) \in 1..Len(t) /\ new[i] = t[i - Len(flat)]
    <3>1. o[i] = k + 1 /\ i - Len(flat) \in 1..Len(t) /\ Len(flat) + (i - Len(flat)) = i
      BY <1>1, <1>2, <2>2
    <3>2. new[Len(flat) + (i - Len(flat))] = t[i - Len(flat)]
      BY <1>2, <3>1
    <3>3. QED
      BY <3>1, <3>2
  <2>3. QED
    BY <2>1, <2>2
<1>4. o \in [1..Len(new) -> 1..k + 1]
  <2>1. \A i \in 1..Len(new) : o[i] \in 1..k + 1
    <3> HIDE DEF o
    <3>1. \A i \in 1..Len(flat) : o[i] \in 1..k + 1
      <4>1. \A x \in 1..k : x \in 1..k + 1
        OBVIOUS
      <4>2. QED
        BY <1>3, <4>1
    <3>2. \A i \in 1..Len(new) : i \notin 1..Len(flat) => o[i] \in 1..k + 1
      BY <1>3
    <3>3. QED
      BY <3>1, <3>2
  <2>2. QED
    BY <2>1
<1> HIDE DEF o
<1>5. \A i \in 1..Len(new) : \E p \in 1..Len(s[o[i]]) : new[i] = s[o[i]][p]
  <2>1. ASSUME NEW i \in 1..Len(flat)
        PROVE  \E p \in 1..Len(s[o[i]]) : new[i] = s[o[i]][p]
    <3>1. \E p \in 1..Len(s[owner[i]]) : flat[i] = s[owner[i]][p]
      BY DEF Owned
    <3>2. QED
      BY <1>2, <1>3, <3>1
  <2>2. ASSUME NEW i \in 1..Len(new), i \notin 1..Len(flat)
        PROVE  \E p \in 1..Len(s[o[i]]) : new[i] = s[o[i]][p]
    BY <1>3, <2>2
  <2>3. QED
    BY <2>1, <2>2
<1>6. \A i, j \in 1..Len(new) : i <= j => o[i] <= o[j]
  <2>1. SUFFICES ASSUME NEW i \in 1..Len(new), NEW j \in 1..Len(new), i <= j
                 PROVE  o[i] <= o[j]
    OBVIOUS
  <2>2. CASE j \in 1..Len(flat)
    <3>1. i \in 1..Len(flat)
      BY <1>1, <2>1, <2>2
    <3>2. QED
      BY <1>3, <2>1, <2>2, <3>1 DEF Owned
  <2>3. CASE j \notin 1..Len(flat)
    <3>1. o[j] = k + 1 /\ o[i] \in 1..k + 1
      BY <1>3, <1>4, <2>3
    <3>2. QED
      BY <3>1
  <2>4. QED
    BY <2>2, <2>3
<1>7. \A j \in 1..k + 1 : \A p \in 1..Len(s[j]) : \E i \in 1..Len(new) : o[i] = j /\ new[i] = s[j][p]
  <2>1. ASSUME NEW j \in 1..k, NEW p \in 1..Len(s[j])
        PROVE  \E i \in 1..Len(new) : o[i] = j /\ new[i] = s[j][p]
    <3>1. PICK i \in 1..Len(flat) : owner[i] = j /\ flat[i] = s[j][p]
      BY DEF Owned
    <3>2. QED
      BY <1>2, <1>3, <3>1
  <2>2. ASSUME NEW p \in 1..Len(t)
        PROVE  \E i \in 1..Len(new) : o[i] = k + 1 /\ new[i] = t[p]
    <3>1. Len(flat) + p \in 1..Len(new) /\ Len(flat) + p \notin 1..Len(flat)
      BY <1>1, <1>2
    <3>2. new[Len(flat) + p] = t[p]
      BY <1>2
    <3>3. o[Len(flat) + p] = k + 1
      BY <1>3, <3>1
    <3>4. QED
      BY <3>1, <3>2, <3>3
  <2>3. ASSUME NEW j \in 1..k + 1, NEW p \in 1..Len(s[j])
        PROVE  \E i \in 1..Len(new) : o[i] = j /\ new[i] = s[j][p]
    <3>1. j \in 1..k \/ j = k + 1
      OBVIOUS
    <3>2. QED
      BY <2>1, <2>2, <3>1
  <2>4. QED
    BY <2>3
<1>8. Owned(X, s, k + 1, new, o)
  BY <1>2, <1>4, <1>5, <1>6, <1>7 DEF Owned
<1>9. QED
  BY <1>8 DEF new

(* FlattenSeq has the elements of all the lists, in their order.           *)
LEMMA FlattenFacts ==
  ASSUME NEW X, NEW s \in Seq(Seq(X))
  PROVE  \E owner : Owned(X, s, Len(s), FlattenSeq(s), owner)
<1>1. Len(s) \in Nat
  OBVIOUS
<1>2. CASE Len(s) = 0
  <2>1. FlattenSeq(s) = s /\ s = <<>>
    BY <1>2, EmptySeq DEF FlattenSeq
  <2>2. Owned(X, s, 0, <<>>, [i \in 1..0 |-> 0])
    BY EmptySeq DEF Owned
  <2>3. QED
    BY <1>2, <2>1, <2>2
<1>3. CASE Len(s) # 0
  <2> DEFINE Good == {k \in Nat : k + 1 <= Len(s) => \E owner : Owned(X, s, k + 1, Flat(s)[k + 1], owner)}
  <2>1. Owned(X, s, 0, <<>>, [i \in 1..0 |-> 0])
    BY EmptySeq DEF Owned
  <2>2. 0 \in Good
    <3>1. 0 + 1 \in 1..Len(s)
      BY <1>1, <1>3
    <3>2. \E o : Owned(X, s, 0 + 1, <<>> \o s[0 + 1], o)
      BY <2>1, <3>1, OneListMore, Zenon
    <3>3. Flat(s)[0 + 1] = s[0 + 1]
      BY <1>1, <3>1, FlatIs DEF Longer
    <3>4. <<>> \o s[0 + 1] = s[0 + 1]
      <4>1. s[0 + 1] \in Seq(X)
        BY <3>1
      <4>2. QED
        BY <4>1, ConcatEmptySeq
    <3>5. QED
      BY <3>2, <3>3, <3>4
  <2>3. ASSUME NEW k \in Nat, k \in Good
        PROVE  k + 1 \in Good
    <3>1. SUFFICES ASSUME (k + 1) + 1 <= Len(s)
                   PROVE  \E owner : Owned(X, s, (k + 1) + 1, Flat(s)[(k + 1) + 1], owner)
      OBVIOUS
    <3>2. PICK owner : Owned(X, s, k + 1, Flat(s)[k + 1], owner)
      BY <1>1, <2>3, <3>1
    <3>3. k + 1 \in Nat /\ (k + 1) + 1 \in 1..Len(s) /\ (k + 1) + 1 # 1 /\ ((k + 1) + 1) - 1 = k + 1
      BY <1>1, <3>1
    <3>4. \E o : Owned(X, s, (k + 1) + 1, Flat(s)[k + 1] \o s[(k + 1) + 1], o)
      BY <3>2, <3>3, OneListMore, Zenon
    <3>5. Flat(s)[(k + 1) + 1] = Flat(s)[k + 1] \o s[(k + 1) + 1]
      BY <1>1, <3>3, FlatIs DEF Longer
    <3>6. QED
      BY <3>4, <3>5
  <2>4. Nat \subseteq Good
    <3> HIDE DEF Good
    <3>1. QED
      BY <2>2, <2>3, InductiveSet
  <2>5. Len(s) - 1 \in Nat /\ (Len(s) - 1) + 1 = Len(s)
    BY <1>1, <1>3
  <2>6. \E owner : Owned(X, s, (Len(s) - 1) + 1, Flat(s)[(Len(s) - 1) + 1], owner)
    <3>1. Len(s) - 1 \in Good
      BY <2>4, <2>5
    <3>2. (Len(s) - 1) + 1 <= Len(s)
      BY <1>1, <2>5
    <3>3. QED
      BY <3>1, <3>2
  <2>7. QED
    BY <1>3, <2>5, <2>6, FlattenIsFlat
<1>4. QED
  BY <1>2, <1>3


-----------------------------------------------------------------------------
(* What a state is: the sites, requirements that fit the parameter, and    *)
(* calls from the sites.                                                   *)
Requirement ==
  {r \in [comparator : Comparator, values : Seq(Constants)] :
     /\ r.values # <<>>
     /\ \A x \in Range(r.values) : /\ Fits(x.value, size)
                                   /\ x.form = "null" => x.value = 0
                                   /\ IF pointer THEN x.form = "global" <=> x.value \in Address ELSE x.form # "global"
     /\ pointer => r.comparator \notin Ordering}
Sites == [form : {"number", "null", "global", "assigned", "computed"}, value : Int, stored : Int]
ParamInv ==
  /\ size \in Width /\ pointer \in BOOLEAN /\ asserts \in BOOLEAN
  /\ \E k \in Nat : DOMAIN sites = 1..k
  /\ \A i \in DOMAIN sites : sites[i] \in Sites /\ Passable(sites[i])
  /\ reqs \in Seq(Requirement) /\ calls \in Seq(DOMAIN sites)

(* The requirements of a state are those a contract may write.             *)
LEMMA ParamInvariant == ParamSpec => []ParamInv
<1>1. ParamInputs => ParamInv
  <2>1. SUFFICES ASSUME ParamInputs
                 PROVE  ParamInv
    OBVIOUS
  <2>2. size \in Width /\ pointer \in BOOLEAN /\ asserts \in BOOLEAN /\ reqs = <<>> /\ calls = <<>>
    BY <2>1, ParamAssumption DEF ParamInputs, Width
  <2>3. PICK k \in 1..MaxSites : sites \in [1..k -> {s \in Argument : Passable(s)}]
    BY <2>1 DEF ParamInputs
  <2>4. k \in Nat /\ DOMAIN sites = 1..k
    BY <2>3, ParamAssumption
  <2>5. Argument \subseteq Sites
    BY ParamAssumption DEF Argument, Sites
  <2>6. \A i \in DOMAIN sites : sites[i] \in Sites /\ Passable(sites[i])
    BY <2>3, <2>5
  <2>7. reqs \in Seq(Requirement) /\ calls \in Seq(DOMAIN sites)
    BY <2>2, EmptySeq
  <2>8. QED
    BY <2>2, <2>4, <2>6, <2>7 DEF ParamInv
<1>2. ParamInv /\ [ParamNext]_pvars => ParamInv'
  <2>1. SUFFICES ASSUME ParamInv, [ParamNext]_pvars
                 PROVE  ParamInv'
    OBVIOUS
  <2>2. CASE UNCHANGED pvars
    BY <2>1, <2>2 DEF ParamInv, pvars, Requirement, Passable
  <2>3. ASSUME NEW c \in Comparator, NEW values \in {<<Number(n)>> : n \in Sample} \cup Named,
               AddRequirement(c, values)
        PROVE  ParamInv'
    <3> DEFINE r == [comparator |-> c, values |-> values]
    <3>1. values \in Seq(Constants) /\ values # <<>>
      <4>1. \A n \in Sample : Number(n) \in Constants
        BY ParamAssumption DEF Number, Constants
      <4>2. \A n \in Sample : <<Number(n)>> \in Seq(Constants) /\ <<Number(n)>> # <<>>
        BY <4>1
      <4>3. QED
        BY <4>2, ParamAssumption
    <3>2. r \in Requirement
      <4>1. /\ \A x \in Range(values) : /\ Fits(x.value, size)
                                        /\ x.form = "null" => x.value = 0
                                        /\ IF pointer THEN x.form = "global" <=> x.value \in Address ELSE x.form # "global"
            /\ pointer => c \notin Ordering
        BY <2>3 DEF AddRequirement
      <4>2. r \in [comparator : Comparator, values : Seq(Constants)] /\ r.values = values /\ r.comparator = c
        BY <3>1
      <4> HIDE DEF r
      <4>3. QED
        BY <3>1, <4>1, <4>2, Zenon DEF Requirement
    <3>3. /\ reqs' = Append(reqs, r) /\ size' = size /\ pointer' = pointer /\ asserts' = asserts
          /\ sites' = sites /\ calls' = calls
      BY <2>3 DEF AddRequirement
    <3>4. Requirement' = Requirement
      BY <3>3 DEF Requirement
    <3> HIDE DEF r
    <3>5. reqs' \in Seq(Requirement)
      BY <2>1, <3>2, <3>3, AppendProperties DEF ParamInv
    <3>6. QED
      BY <2>1, <3>3, <3>4, <3>5 DEF ParamInv, Passable
  <2>4. ASSUME NEW i \in DOMAIN sites, Call(i)
        PROVE  ParamInv'
    <3>1. /\ reqs' = reqs /\ size' = size /\ pointer' = pointer /\ asserts' = asserts
          /\ sites' = sites /\ calls' = Append(calls, i)
      BY <2>4 DEF Call
    <3>2. calls' \in Seq(DOMAIN sites)
      BY <2>1, <3>1, AppendProperties DEF ParamInv
    <3>3. Requirement' = Requirement
      BY <3>1 DEF Requirement
    <3>4. QED
      BY <2>1, <3>1, <3>2, <3>3 DEF ParamInv, Passable
  <2>5. QED
    BY <2>1, <2>2, <2>3, <2>4 DEF ParamNext
<1>3. QED
  BY <1>1, <1>2, PTL DEF ParamSpec

(* The entry of the database for one value of a requirement.               *)
Entry(r, x) ==
  [comparator |-> r.comparator, value |-> getIntToPtr(x.value), isArg |-> FALSE, reqval_need_deref |-> FALSE]
Entries == [comparator : Comparator, value : Nat, isArg : {FALSE}, reqval_need_deref : {FALSE}]

(* The values of a requirement.                                            *)
LEMMA RequirementFacts ==
  ASSUME ParamInv, NEW j \in DOMAIN reqs
  PROVE  /\ reqs[j].comparator \in Comparator /\ reqs[j].values \in Seq(Constants)
         /\ Len(reqs[j].values) \in Nat \ {0} /\ DOMAIN reqs[j].values = 1..Len(reqs[j].values)
         /\ Range(reqs[j].values) = {reqs[j].values[p] : p \in 1..Len(reqs[j].values)}
         /\ \A x \in Range(reqs[j].values) :
              /\ x \in Constants /\ x.value \in Int /\ Fits(x.value, size) /\ getIntToPtr(x.value) \in Nat
              /\ x.form = "null" => x.value = 0
              /\ IF pointer THEN x.form = "global" <=> x.value \in Address ELSE x.form # "global"
         /\ pointer => reqs[j].comparator \in {"EXEQ", "EQ", "NEQ"}
<1>1. reqs[j] \in Requirement
  BY DEF ParamInv
<1>2. /\ reqs[j].comparator \in Comparator /\ reqs[j].values \in Seq(Constants) /\ reqs[j].values # <<>>
      /\ \A x \in Range(reqs[j].values) :
           /\ Fits(x.value, size)
           /\ x.form = "null" => x.value = 0
           /\ IF pointer THEN x.form = "global" <=> x.value \in Address ELSE x.form # "global"
      /\ pointer => reqs[j].comparator \notin Ordering
  BY <1>1 DEF Requirement
<1>3. Len(reqs[j].values) \in Nat \ {0} /\ DOMAIN reqs[j].values = 1..Len(reqs[j].values)
  BY <1>2, EmptySeq, LenProperties
<1>4. Range(reqs[j].values) = {reqs[j].values[p] : p \in 1..Len(reqs[j].values)}
  BY <1>3 DEF Range
<1>5. \A x \in Range(reqs[j].values) : x \in Constants /\ x.value \in Int
  <2>1. \A p \in 1..Len(reqs[j].values) : reqs[j].values[p] \in Constants
    BY <1>2
  <2>2. \A x \in Constants : x.value \in Int
    BY DEF Constants
  <2>3. QED
    BY <1>4, <2>1, <2>2
<1>6. \A x \in Range(reqs[j].values) : getIntToPtr(x.value) \in Nat
  BY <1>2, <1>5, ReadBack DEF ParamInv
<1>7. pointer => reqs[j].comparator \in {"EXEQ", "EQ", "NEQ"}
  BY <1>2 DEF Comparator, Ordering
<1>8. QED
  BY <1>2, <1>3, <1>4, <1>5, <1>6, <1>7

(* Every entry of the database is owned by a requirement, in their order,  *)
(* and every value of a requirement has an entry.                          *)
LEMMA DatabaseFacts ==
  ASSUME ParamInv
  PROVE  /\ Database \in Seq(Entries) /\ Len(Database) \in Nat
         /\ \E owner \in [1..Len(Database) -> DOMAIN reqs] :
              /\ \A i \in 1..Len(Database) :
                   \E x \in Range(reqs[owner[i]].values) : Database[i] = Entry(reqs[owner[i]], x)
              /\ \A i, j \in 1..Len(Database) : i <= j => owner[i] <= owner[j]
              /\ \A j \in DOMAIN reqs : \A x \in Range(reqs[j].values) :
                   \E i \in 1..Len(Database) : owner[i] = j /\ Database[i] = Entry(reqs[j], x)
<1> DEFINE s == [i \in DOMAIN reqs |-> RequirementsOf(reqs[i])]
<1>1. Len(reqs) \in Nat /\ DOMAIN reqs = 1..Len(reqs)
  BY DEF ParamInv
<1>2. ASSUME NEW j \in DOMAIN reqs
      PROVE  /\ s[j] \in Seq(Entries) /\ Len(s[j]) = Len(reqs[j].values)
             /\ \A p \in 1..Len(reqs[j].values) : s[j][p] = Entry(reqs[j], reqs[j].values[p])
  <2> DEFINE m == Len(reqs[j].values)
  <2>1. s[j] = [p \in 1..m |-> Entry(reqs[j], reqs[j].values[p])]
    BY RequirementFacts DEF RequirementsOf, Entry
  <2>2. \A p \in 1..m : Entry(reqs[j], reqs[j].values[p]) \in Entries
    <3>1. \A p \in 1..m : reqs[j].values[p] \in Range(reqs[j].values)
      BY RequirementFacts
    <3>2. QED
      BY <3>1, RequirementFacts DEF Entry, Entries
  <2>3. m \in Nat
    BY RequirementFacts
  <2>4. s[j] \in [1..m -> Entries]
    BY <2>1, <2>2
  <2> HIDE DEF s, m
  <2>5. s[j] \in Seq(Entries)
    BY <2>3, <2>4, SeqDef
  <2>6. Len(s[j]) = m
    BY <2>3, <2>4, <2>5, LenProperties
  <2>7. QED
    BY <2>1, <2>5, <2>6 DEF m
<1>3. s \in [1..Len(reqs) -> Seq(Entries)]
  BY <1>1, <1>2
<1>4. s \in Seq(Seq(Entries)) /\ Len(s) = Len(reqs)
  <2> HIDE DEF s
  <2>1. s \in Seq(Seq(Entries))
    BY <1>1, <1>3, SeqDef
  <2>2. QED
    BY <1>1, <1>3, <2>1, LenProperties
<1>5. PICK owner : Owned(Entries, s, Len(s), FlattenSeq(s), owner)
  BY <1>4, FlattenFacts, Zenon
<1>6. Database = FlattenSeq(s)
  BY DEF Database
<1> HIDE DEF s
<1>7. /\ Database \in Seq(Entries) /\ owner \in [1..Len(Database) -> DOMAIN reqs]
      /\ \A i, j \in 1..Len(Database) : i <= j => owner[i] <= owner[j]
  BY <1>1, <1>4, <1>5, <1>6 DEF Owned
<1>8. Len(Database) \in Nat
  BY <1>7, LenProperties
<1>9. ASSUME NEW i \in 1..Len(Database)
      PROVE  \E x \in Range(reqs[owner[i]].values) : Database[i] = Entry(reqs[owner[i]], x)
  <2>1. PICK p \in 1..Len(s[owner[i]]) : Database[i] = s[owner[i]][p]
    BY <1>5, <1>6 DEF Owned
  <2>2. owner[i] \in DOMAIN reqs
    BY <1>7
  <2>3. p \in 1..Len(reqs[owner[i]].values) /\ Database[i] = Entry(reqs[owner[i]], reqs[owner[i]].values[p])
    BY <1>2, <2>1, <2>2
  <2>4. reqs[owner[i]].values[p] \in Range(reqs[owner[i]].values)
    <3>1. \A j \in DOMAIN reqs : \A q \in 1..Len(reqs[j].values) : reqs[j].values[q] \in Range(reqs[j].values)
      BY RequirementFacts
    <3>2. QED
      BY <2>2, <2>3, <3>1
  <2>5. QED
    BY <2>3, <2>4
<1>10. ASSUME NEW j \in DOMAIN reqs, NEW x \in Range(reqs[j].values)
       PROVE  \E i \in 1..Len(Database) : owner[i] = j /\ Database[i] = Entry(reqs[j], x)
  <2>1. PICK p \in 1..Len(reqs[j].values) : x = reqs[j].values[p]
    <3>1. x \in {reqs[j].values[p] : p \in 1..Len(reqs[j].values)}
      BY RequirementFacts, Zenon
    <3>2. QED
      BY <3>1
  <2>2. j \in 1..Len(s) /\ p \in 1..Len(s[j]) /\ s[j][p] = Entry(reqs[j], x)
    BY <1>1, <1>2, <1>4, <2>1
  <2>3. QED
    BY <1>5, <1>6, <2>2 DEF Owned
<1>11. QED
  BY <1>7, <1>8, <1>9, <1>10


-----------------------------------------------------------------------------
(* Entries of the database: which exempt, which hold of an argument, and   *)
(* which conclude: requirements that do not hold and exemptions that do.   *)
Exempting(e) == Database[e].comparator = "EXEQ"
Holding(e, v) == ParamHolds(Database[e].comparator, anyValToPtr(v, size), Database[e].value, size)
Concluding(v) == {e \in 1..Len(Database) : Exempting(e) <=> Holding(e, v)}
FirstOf(S) == CHOOSE e \in S : \A d \in S : e <= d

(* The first entry that concludes decides the verdict of the analysis.     *)
LEMMA OutcomeIs ==
  ASSUME ParamInv, NEW site
  PROVE  Outcome(site) = IF Concluding(site.value) = {} THEN Unknown
                         ELSE IF Exempting(FirstOf(Concluding(site.value))) THEN "FULFILLED" ELSE "VIOLATED"
<1> DEFINE pv == anyValToPtr(site.value, size)
           op == [supplier |-> "f", idx |-> 1, size |-> size, callval_need_deref |-> FALSE, reqs |-> Database]
           callsite == [params |-> <<pv>>]
           Read(v, deref) == IF deref THEN <<>>[v] ELSE v
           act_callp == Read(callsite.params[op.idx], op.callval_need_deref)
           act_req(r) == Read(IF r.isArg THEN callsite.params[r.value] ELSE r.value, r.reqval_need_deref)
           Holds(i) == ParamHolds(op.reqs[i].comparator, act_callp, act_req(op.reqs[i]), op.size)
           decisive == {i \in 1..Len(op.reqs) : op.reqs[i].comparator = "EXEQ" <=> Holds(i)}
           first == CHOOSE i \in decisive : \A j \in decisive : i <= j
           outcome == IF "f" # op.supplier \/ decisive = {} THEN Unknown
                      ELSE IF op.reqs[first].comparator = "EXEQ" THEN "FULFILLED" ELSE "VIOLATED"
<1>1. ParamOnCall(op, ParamInit, "f", callsite, <<>>) = [state |-> ParamInit, verdict |-> outcome]
  BY Zenon DEF ParamOnCall, Result
<1>2. Outcome(site) = ParamOnCall(op, ParamInit, "f", callsite, <<>>).verdict
  BY DEF Outcome
<1>3. Outcome(site) = outcome
  <2> HIDE DEF outcome, op, callsite
  <2>1. QED
    BY <1>1, <1>2
<1>4. act_callp = pv /\ op.reqs = Database /\ op.size = size /\ op.supplier = "f"
  OBVIOUS
<1>5. ASSUME NEW i \in 1..Len(Database)
      PROVE  Holds(i) <=> Holding(i, site.value)
  <2>1. Database[i] \in Entries
    BY DatabaseFacts
  <2>2. act_req(Database[i]) = Database[i].value
    BY <2>1 DEF Entries
  <2>3. QED
    BY <1>4, <2>2 DEF Holding
<1> HIDE DEF Holds
<1>6. decisive = Concluding(site.value)
  BY <1>4, <1>5 DEF Concluding, Exempting
<1> HIDE DEF decisive
<1>7. first = FirstOf(Concluding(site.value))
  BY <1>6 DEF FirstOf
<1> HIDE DEF first
<1>8. QED
  BY <1>3, <1>4, <1>6, <1>7 DEF Exempting

(* The first of some entries.                                              *)
LEMMA FirstFacts ==
  ASSUME NEW S \in SUBSET Nat, S # {}
  PROVE  FirstOf(S) \in S /\ \A d \in S : FirstOf(S) <= d
<1>1. \E e \in S : \A d \in S : e <= d
  BY LeastElement
<1>2. QED
  BY <1>1, Zenon DEF FirstOf

(* So the call is violated, or exempt, when an entry says so and no entry  *)
(* before it says the opposite.                                            *)
LEMMA OutcomeFacts ==
  ASSUME ParamInv, NEW site
  PROVE  LET v == site.value IN
         /\ Outcome(site) = "VIOLATED" <=>
              \E e \in 1..Len(Database) :
                /\ ~Exempting(e) /\ ~Holding(e, v)
                /\ \A d \in 1..Len(Database) : d < e => ~(Exempting(d) /\ Holding(d, v))
         /\ Outcome(site) = "FULFILLED" <=>
              \E e \in 1..Len(Database) :
                /\ Exempting(e) /\ Holding(e, v)
                /\ \A d \in 1..Len(Database) : d < e => ~(~Exempting(d) /\ ~Holding(d, v))
<1> DEFINE v == site.value
           S == Concluding(v)
           f == FirstOf(S)
<1>1. Outcome(site) = IF S = {} THEN Unknown ELSE IF Exempting(f) THEN "FULFILLED" ELSE "VIOLATED"
  BY OutcomeIs
<1>2. \A e \in 1..Len(Database) : e \in S <=> (Exempting(e) <=> Holding(e, v))
  BY DEF Concluding
<1>3. S \subseteq 1..Len(Database) /\ S \in SUBSET Nat /\ Len(Database) \in Nat
  BY DatabaseFacts DEF Concluding
<1>4. S # {} => f \in S /\ \A d \in S : f <= d
  <2> HIDE DEF S
  <2>1. QED
    BY <1>3, FirstFacts
<1> HIDE DEF S, f
<1>5. S # {} => \A d \in 1..Len(Database) : d < f => d \notin S
  <2>1. ASSUME NEW d \in 1..Len(Database), d \in S
        PROVE  ~(d < f)
    <3>1. f \in S /\ f <= d
      BY <1>4, <2>1
    <3>2. f \in Nat /\ d \in Nat
      BY <1>3, <2>1, <3>1
    <3>3. QED
      BY <3>1, <3>2
  <2>2. QED
    BY <2>1
<1>6. \A e \in S : S # {} /\ (f = e \/ f < e)
  <2>1. ASSUME NEW e \in S
        PROVE  S # {} /\ (f = e \/ f < e)
    <3>1. S # {} /\ f \in S /\ f <= e
      BY <1>4
    <3>2. f \in Nat /\ e \in Nat
      BY <1>3, <3>1
    <3>3. QED
      BY <3>1, <3>2
  <2>2. QED
    BY <2>1
<1>7. Unknown \notin {"FULFILLED", "VIOLATED"}
  BY DEF Unknown
<1>8. Outcome(site) = "VIOLATED" <=>
        \E e \in 1..Len(Database) :
          /\ ~Exempting(e) /\ ~Holding(e, v)
          /\ \A d \in 1..Len(Database) : d < e => ~(Exempting(d) /\ Holding(d, v))
  <2>1. ASSUME Outcome(site) = "VIOLATED"
        PROVE  \E e \in 1..Len(Database) :
                 /\ ~Exempting(e) /\ ~Holding(e, v)
                 /\ \A d \in 1..Len(Database) : d < e => ~(Exempting(d) /\ Holding(d, v))
    BY <1>1, <1>2, <1>3, <1>4, <1>5, <1>7, <2>1
  <2>2. ASSUME NEW e \in 1..Len(Database), ~Exempting(e), ~Holding(e, v),
               \A d \in 1..Len(Database) : d < e => ~(Exempting(d) /\ Holding(d, v))
        PROVE  Outcome(site) = "VIOLATED"
    BY <1>1, <1>2, <1>3, <1>4, <1>6, <2>2
  <2>3. QED
    BY <2>1, <2>2
<1>9. Outcome(site) = "FULFILLED" <=>
        \E e \in 1..Len(Database) :
          /\ Exempting(e) /\ Holding(e, v)
          /\ \A d \in 1..Len(Database) : d < e => ~(~Exempting(d) /\ ~Holding(d, v))
  <2>1. ASSUME Outcome(site) = "FULFILLED"
        PROVE  \E e \in 1..Len(Database) :
                 /\ Exempting(e) /\ Holding(e, v)
                 /\ \A d \in 1..Len(Database) : d < e => ~(~Exempting(d) /\ ~Holding(d, v))
    BY <1>1, <1>2, <1>3, <1>4, <1>5, <1>7, <2>1
  <2>2. ASSUME NEW e \in 1..Len(Database), Exempting(e), Holding(e, v),
               \A d \in 1..Len(Database) : d < e => ~(~Exempting(d) /\ ~Holding(d, v))
        PROVE  Outcome(site) = "FULFILLED"
    BY <1>1, <1>2, <1>3, <1>4, <1>6, <2>2
  <2>3. QED
    BY <2>1, <2>2
<1>10. QED
  BY <1>8, <1>9

(* What an entry says is what the requirement that owns it says.           *)
LEMMA EntryFacts ==
  ASSUME ParamInv, NEW j \in DOMAIN reqs, NEW x \in Range(reqs[j].values),
         NEW e \in 1..Len(Database), Database[e] = Entry(reqs[j], x), NEW v \in Int, Fits(v, size)
  PROVE  /\ Exempting(e) <=> reqs[j].comparator = "EXEQ"
         /\ Exempting(e) /\ Holding(e, v) => Exempts(j, v)
         /\ ~Exempting(e) /\ ~Holding(e, v) /\ ~NegativeEquality => Fails(j, v)
         /\ Exempting(e) /\ v = x.value => Holding(e, v)
         /\ ~Compare(reqs[j].comparator, v, x.value) => ~Holding(e, v)
<1> DEFINE c == reqs[j].comparator
           n == x.value
<1>1. /\ c \in Comparator /\ n \in Int /\ Fits(n, size) /\ size \in Width
      /\ Database[e].comparator = c /\ Database[e].value = getIntToPtr(n)
  <2>1. c \in Comparator /\ n \in Int /\ Fits(n, size)
    BY RequirementFacts, Zenon
  <2>2. size \in Width
    BY DEF ParamInv
  <2>3. QED
    BY <2>1, <2>2 DEF Entry
<1> HIDE DEF c, n
<1>2. Holding(e, v) <=> ParamHolds(c, anyValToPtr(v, size), getIntToPtr(n), size)
  BY <1>1 DEF Holding
<1>3. /\ Holding(e, v) => Compare(c, v, n)
      /\ Compare(c, v, n) /\ ~(c = "EQ" /\ n < 0 /\ size # PointerSize) => Holding(e, v)
  BY <1>1, <1>2, HoldsMeans
<1>4. Exempting(e) <=> c = "EXEQ"
  BY <1>1 DEF Exempting
<1>5. c = "EXEQ" => (Compare(c, v, n) <=> v = n)
  BY DEF Compare
<1>6. NegativeEquality \/ ~(c = "EQ" /\ n < 0 /\ size # PointerSize)
  BY DEF NegativeEquality, c, n
<1>7. c = "EXEQ" => c # "EQ"
  OBVIOUS
<1>8. QED
  BY <1>3, <1>4, <1>5, <1>6, <1>7 DEF Exempts, Fails, c, n

(* The verdict on a call, in terms of the requirements.                    *)
LEMMA VerdictFacts ==
  ASSUME ParamInv, NEW site, site.value \in Int, Fits(site.value, size)
  PROVE  LET v == site.value IN
         /\ Outcome(site) \in {Unknown, "FULFILLED", "VIOLATED"}
         /\ Outcome(site) = Unknown => ~Exempt(v) /\ ~Forbidden(v)
         /\ Outcome(site) = "FULFILLED" => Exempt(v)
         /\ Outcome(site) = "VIOLATED" /\ ~NegativeEquality => Forbidden(v)
         /\ \A j \in DOMAIN reqs :
              Fails(j, v) /\ (\A k \in 1..(j - 1) : ~Exempts(k, v)) => Outcome(site) = "VIOLATED"
<1> DEFINE v == site.value
<1>1. PICK owner \in [1..Len(Database) -> DOMAIN reqs] :
        /\ \A i \in 1..Len(Database) :
             \E x \in Range(reqs[owner[i]].values) : Database[i] = Entry(reqs[owner[i]], x)
        /\ \A i, j \in 1..Len(Database) : i <= j => owner[i] <= owner[j]
        /\ \A j \in DOMAIN reqs : \A x \in Range(reqs[j].values) :
             \E i \in 1..Len(Database) : owner[i] = j /\ Database[i] = Entry(reqs[j], x)
  BY DatabaseFacts
<1>2. v \in Int /\ Fits(v, size)
  OBVIOUS
<1> HIDE DEF v
<1>3. Len(reqs) \in Nat /\ DOMAIN reqs = 1..Len(reqs) /\ Len(Database) \in Nat
  BY DatabaseFacts DEF ParamInv
(* What an entry says, its requirement says.                               *)
<1>4. ASSUME NEW e \in 1..Len(Database)
      PROVE  /\ owner[e] \in DOMAIN reqs
             /\ Exempting(e) <=> reqs[owner[e]].comparator = "EXEQ"
             /\ Exempting(e) /\ Holding(e, v) => Exempts(owner[e], v)
             /\ ~Exempting(e) /\ ~Holding(e, v) /\ ~NegativeEquality => Fails(owner[e], v)
  <2>1. owner[e] \in DOMAIN reqs
    OBVIOUS
  <2>2. PICK x \in Range(reqs[owner[e]].values) : Database[e] = Entry(reqs[owner[e]], x)
    BY <1>1
  <2>3. QED
    BY <1>2, <2>1, <2>2, EntryFacts
(* What a requirement says, one of its entries says.                       *)
<1>5. ASSUME NEW j \in DOMAIN reqs, Exempts(j, v)
      PROVE  \E e \in 1..Len(Database) : owner[e] = j /\ Exempting(e) /\ Holding(e, v)
  <2>1. PICK x \in Range(reqs[j].values) : v = x.value
    BY <1>5 DEF Exempts
  <2>2. PICK e \in 1..Len(Database) : owner[e] = j /\ Database[e] = Entry(reqs[j], x)
    BY <1>1
  <2>3. reqs[j].comparator = "EXEQ"
    BY <1>5 DEF Exempts
  <2>4. Exempting(e) /\ Holding(e, v)
    BY <1>2, <2>1, <2>2, <2>3, EntryFacts
  <2>5. QED
    BY <2>2, <2>4
<1>6. ASSUME NEW j \in DOMAIN reqs, Fails(j, v)
      PROVE  \E e \in 1..Len(Database) : owner[e] = j /\ ~Exempting(e) /\ ~Holding(e, v)
  <2>1. PICK x \in Range(reqs[j].values) : ~Compare(reqs[j].comparator, v, x.value)
    BY <1>6 DEF Fails
  <2>2. PICK e \in 1..Len(Database) : owner[e] = j /\ Database[e] = Entry(reqs[j], x)
    BY <1>1, <2>1
  <2>3. (Exempting(e) <=> reqs[j].comparator = "EXEQ") /\ ~Holding(e, v)
    BY <1>2, <2>1, <2>2, EntryFacts
  <2>4. reqs[j].comparator # "EXEQ"
    BY <1>6 DEF Fails
  <2>5. QED
    BY <2>2, <2>3, <2>4
(* Entries before an entry are owned by requirements that are not later.   *)
<1>7. ASSUME NEW d \in 1..Len(Database), NEW e \in 1..Len(Database)
      PROVE  /\ d < e => owner[d] = owner[e] \/ owner[d] \in 1..(owner[e] - 1)
             /\ owner[d] \in 1..(owner[e] - 1) => d < e
  <2>1. owner[d] \in 1..Len(reqs) /\ owner[e] \in 1..Len(reqs)
    BY <1>3
  <2>2. (d <= e => owner[d] <= owner[e]) /\ (e <= d => owner[e] <= owner[d])
    BY <1>1
  <2>3. QED
    BY <1>3, <2>1, <2>2
<1>8. \A j \in DOMAIN reqs : \A k \in 1..(j - 1) : k \in DOMAIN reqs
  BY <1>3
<1>9. ASSUME NEW j \in DOMAIN reqs, Fails(j, v), \A k \in 1..(j - 1) : ~Exempts(k, v)
      PROVE  Outcome(site) = "VIOLATED"
  <2>1. PICK e \in 1..Len(Database) : owner[e] = j /\ ~Exempting(e) /\ ~Holding(e, v)
    BY <1>6, <1>9
  <2>2. reqs[j].comparator # "EXEQ"
    BY <1>9 DEF Fails
  <2>3. ASSUME NEW d \in 1..Len(Database), d < e
        PROVE  ~(Exempting(d) /\ Holding(d, v))
    <3>1. CASE owner[d] = j
      BY <1>4, <2>2, <3>1
    <3>2. CASE owner[d] \in 1..(j - 1)
      BY <1>4, <1>9, <3>2
    <3>3. QED
      BY <1>7, <2>1, <2>3, <3>1, <3>2
  <2>4. QED
    BY <2>1, <2>3, OutcomeFacts DEF v
<1>10. Outcome(site) \in {Unknown, "FULFILLED", "VIOLATED"}
  BY OutcomeIs
<1>11. ASSUME Outcome(site) = Unknown, NEW e \in 1..Len(Database), Exempting(e) <=> Holding(e, v)
       PROVE  FALSE
  <2>1. e \in Concluding(site.value)
    BY <1>11 DEF Concluding, v
  <2>2. Unknown \notin {"FULFILLED", "VIOLATED"}
    BY DEF Unknown
  <2>3. QED
    BY <1>11, <2>1, <2>2, OutcomeIs
<1>12. Outcome(site) = Unknown => ~Exempt(v) /\ ~Forbidden(v)
  BY <1>5, <1>6, <1>11 DEF Exempt, Forbidden
<1>13. Outcome(site) = "FULFILLED" => Exempt(v)
  <2>1. Outcome(site) = "FULFILLED" => \E e \in 1..Len(Database) : Exempting(e) /\ Holding(e, v)
    BY OutcomeFacts DEF v
  <2>2. QED
    BY <1>4, <2>1 DEF Exempt
<1>14. Outcome(site) = "VIOLATED" /\ ~NegativeEquality => Forbidden(v)
  <2>1. Outcome(site) = "VIOLATED" => \E e \in 1..Len(Database) : ~Exempting(e) /\ ~Holding(e, v)
    BY OutcomeFacts DEF v
  <2>2. QED
    BY <1>4, <2>1 DEF Forbidden
<1>15. QED
  BY <1>9, <1>10, <1>12, <1>13, <1>14 DEF v

-----------------------------------------------------------------------------
(* What the calls leave behind: the outcome of the first one that has one. *)
Outcomes == [i \in DOMAIN sites |-> Outcome(sites[i])]
HistoryInv ==
  /\ verdict = Unknown => \A p \in DOMAIN calls : Outcomes[calls[p]] = Unknown
  /\ verdict # Unknown => \E p \in DOMAIN calls : /\ verdict = Outcomes[calls[p]]
                                                  /\ \A q \in 1..(p - 1) : Outcomes[calls[q]] = Unknown

OutcomesOf(bits, database, places) ==
  [i \in DOMAIN places |->
     ParamOnCall(
       [supplier |-> "f", idx |-> 1, size |-> bits, callval_need_deref |-> FALSE, reqs |-> database],
       ParamInit, "f", [params |-> <<anyValToPtr(places[i].value, bits)>>], <<>>).verdict]

(* The outcomes do not depend on the calls.                                *)
LEMMA CallKeeps ==
  ASSUME UNCHANGED <<size, pointer, asserts, sites, reqs>>
  PROVE  Outcomes' = Outcomes
<1>1. Database' = Database
  BY DEF Database
<1>2. Outcomes = OutcomesOf(size, Database, sites) /\ Outcomes' = OutcomesOf(size', Database', sites')
  BY DEF Outcomes, Outcome, OutcomesOf
<1>3. QED
  BY <1>1, <1>2

(* The verdict is that of the first call that has one.                     *)
LEMMA HistoryInvariant == ParamSpec => [](ParamInv /\ HistoryInv)
<1>1. ParamInputs => HistoryInv
  BY EmptySeq DEF ParamInputs, HistoryInv
<1>2. ParamInv /\ HistoryInv /\ [ParamNext]_pvars => HistoryInv'
  <2>1. SUFFICES ASSUME ParamInv, HistoryInv, [ParamNext]_pvars
                 PROVE  HistoryInv'
    OBVIOUS
  <2>2. CASE UNCHANGED pvars
    <3>1. calls' = calls /\ verdict' = verdict /\ Outcomes' = Outcomes
      BY <2>2, CallKeeps DEF pvars
    <3>2. QED
      BY <2>1, <3>1 DEF HistoryInv
  <2>3. ASSUME NEW c \in Comparator, NEW values, AddRequirement(c, values)
        PROVE  HistoryInv'
    <3>1. calls = <<>> /\ calls' = <<>> /\ verdict' = verdict
      BY <2>3 DEF AddRequirement
    <3>2. verdict = Unknown
      BY <2>1, <3>1 DEF HistoryInv
    <3>3. QED
      BY <3>1, <3>2 DEF HistoryInv
  <2>4. ASSUME NEW i \in DOMAIN sites, Call(i)
        PROVE  HistoryInv'
    <3>1. /\ calls' = Append(calls, i)
          /\ verdict' = IF verdict = Unknown THEN Outcomes[i] ELSE verdict
          /\ Outcomes' = Outcomes
      BY <2>4, CallKeeps DEF Call, Outcomes
    <3> DEFINE n == Len(calls)
    <3>2. n \in Nat /\ DOMAIN calls = 1..n
      BY <2>1 DEF ParamInv
    <3>3. DOMAIN calls' = 1..(n + 1) /\ calls'[n + 1] = i /\ \A p \in 1..n : calls'[p] = calls[p]
      BY <2>1, <3>1 DEF ParamInv
    <3> HIDE DEF n
    <3>4. CASE verdict # Unknown
      <4>1. PICK p \in DOMAIN calls : verdict = Outcomes[calls[p]] /\ \A q \in 1..(p - 1) : Outcomes[calls[q]] = Unknown
        BY <2>1, <3>4 DEF HistoryInv
      <4>2. p \in DOMAIN calls' /\ calls'[p] = calls[p] /\ \A q \in 1..(p - 1) : calls'[q] = calls[q]
        BY <3>2, <3>3
      <4>3. QED
        BY <3>1, <3>4, <4>1, <4>2 DEF HistoryInv
    <3>5. CASE verdict = Unknown
      <4>1. \A p \in 1..n : Outcomes[calls'[p]] = Unknown
        BY <2>1, <3>2, <3>3, <3>5 DEF HistoryInv
      <4>2. verdict' = Outcomes[calls'[n + 1]] /\ n + 1 \in DOMAIN calls'
        BY <3>1, <3>2, <3>3, <3>5
      <4>3. verdict' = Unknown => \A p \in DOMAIN calls' : Outcomes'[calls'[p]] = Unknown
        <5>1. \A p \in 1..(n + 1) : p \in 1..n \/ p = n + 1
          BY <3>2
        <5>2. QED
          BY <3>1, <3>3, <4>1, <4>2, <5>1
      <4>4. verdict' # Unknown => \E p \in DOMAIN calls' : /\ verdict' = Outcomes'[calls'[p]]
                                                           /\ \A q \in 1..(p - 1) : Outcomes'[calls'[q]] = Unknown
        <5>1. (n + 1) - 1 = n
          BY <3>2
        <5>2. QED
          BY <3>1, <4>1, <4>2, <5>1
      <4>5. QED
        BY <3>1, <4>3, <4>4 DEF HistoryInv
    <3>6. QED
      BY <3>4, <3>5
  <2>5. QED
    BY <2>1, <2>2, <2>3, <2>4 DEF ParamNext
<1>3. QED
  BY <1>1, <1>2, ParamInvariant, PTL DEF ParamSpec

(* So without a verdict no call was exempt or forbidden, and with one the  *)
(* first call that was decided it.                                         *)
LEMMA FirstDecides ==
  ASSUME ParamInv, HistoryInv
  PROVE  /\ \A p \in DOMAIN calls : /\ calls[p] \in DOMAIN sites /\ Passed(p) \in Int /\ Fits(Passed(p), size)
                                    /\ \A q \in 1..(p - 1) : q \in DOMAIN calls
         /\ verdict = Unknown => \A p \in DOMAIN calls : ~Exempt(Passed(p)) /\ ~Forbidden(Passed(p))
         /\ verdict # Unknown => \E p \in DOMAIN calls :
              /\ verdict = Outcome(sites[calls[p]])
              /\ \A q \in 1..(p - 1) : ~Exempt(Passed(q)) /\ ~Forbidden(Passed(q))
<1>1. ASSUME NEW p \in DOMAIN calls
      PROVE  /\ calls[p] \in DOMAIN sites /\ Passed(p) \in Int /\ Fits(Passed(p), size)
             /\ \A q \in 1..(p - 1) : q \in DOMAIN calls
             /\ Outcomes[calls[p]] = Outcome(sites[calls[p]])
             /\ Outcomes[calls[p]] = Unknown => ~Exempt(Passed(p)) /\ ~Forbidden(Passed(p))
  <2>1. calls[p] \in DOMAIN sites /\ \A q \in 1..(p - 1) : q \in DOMAIN calls
    BY DEF ParamInv
  <2>2. sites[calls[p]].value \in Int /\ Fits(sites[calls[p]].value, size)
    BY <2>1 DEF ParamInv, Sites, Passable
  <2>3. Outcome(sites[calls[p]]) = Unknown => ~Exempt(sites[calls[p]].value) /\ ~Forbidden(sites[calls[p]].value)
    BY <2>2, VerdictFacts
  <2>4. QED
    BY <2>1, <2>2, <2>3 DEF Passed, Outcomes
<1>2. verdict = Unknown => \A p \in DOMAIN calls : ~Exempt(Passed(p)) /\ ~Forbidden(Passed(p))
  BY <1>1 DEF HistoryInv
<1>3. ASSUME verdict # Unknown
      PROVE  \E p \in DOMAIN calls :
               /\ verdict = Outcome(sites[calls[p]])
               /\ \A q \in 1..(p - 1) : ~Exempt(Passed(q)) /\ ~Forbidden(Passed(q))
  <2>1. PICK p \in DOMAIN calls : verdict = Outcomes[calls[p]] /\ \A q \in 1..(p - 1) : Outcomes[calls[q]] = Unknown
    BY <1>3 DEF HistoryInv
  <2>2. QED
    BY <1>1, <2>1
<1>4. QED
  BY <1>1, <1>2, <1>3

(* Whatever the widths and the calls, a verdict is that of the first call  *)
(* whose argument is exempt or forbidden, compared as the integer it was   *)
(* written as (ParamAnalysis::functionPreCBImpl).                          *)
THEOREM ComparisonMeans == ParamSpec => []ParamMeaning
<1>1. ASSUME ParamInv, HistoryInv, ~NegativeEquality
      PROVE  /\ verdict = Unknown     => \A p \in DOMAIN calls : ~Deciding(p)
             /\ verdict = "VIOLATED"  => \E p \in DOMAIN calls : Deciding(p) /\ Forbidden(Passed(p))
             /\ verdict = "FULFILLED" => \E p \in DOMAIN calls : Deciding(p) /\ Exempt(Passed(p))
  <2>1. verdict = Unknown => \A p \in DOMAIN calls : ~Deciding(p)
    BY <1>1, FirstDecides DEF Deciding
  <2>2. ASSUME verdict \in {"VIOLATED", "FULFILLED"}
        PROVE  \E p \in DOMAIN calls :
                 /\ Deciding(p)
                 /\ verdict = "VIOLATED" => Forbidden(Passed(p))
                 /\ verdict = "FULFILLED" => Exempt(Passed(p))
    <3>1. verdict # Unknown
      BY <2>2 DEF Unknown
    <3>2. PICK p \in DOMAIN calls : /\ verdict = Outcome(sites[calls[p]])
                                    /\ \A q \in 1..(p - 1) : ~Exempt(Passed(q)) /\ ~Forbidden(Passed(q))
      BY <1>1, <3>1, FirstDecides
    <3>3. /\ verdict = "VIOLATED" => Forbidden(Passed(p))
          /\ verdict = "FULFILLED" => Exempt(Passed(p))
      <4>1. Passed(p) \in Int /\ Fits(Passed(p), size) /\ Passed(p) = sites[calls[p]].value
        BY <1>1, FirstDecides DEF Passed
      <4>2. /\ Outcome(sites[calls[p]]) = "FULFILLED" => Exempt(sites[calls[p]].value)
            /\ Outcome(sites[calls[p]]) = "VIOLATED" => Forbidden(sites[calls[p]].value)
        BY <1>1, <4>1, VerdictFacts
      <4>3. QED
        BY <3>2, <4>1, <4>2
    <3>4. QED
      BY <2>2, <3>2, <3>3 DEF Deciding
  <2>3. QED
    BY <2>1, <2>2
<1>2. ParamInv /\ HistoryInv => ParamMeaning
  BY <1>1 DEF ParamMeaning
<1>3. QED
  BY <1>2, HistoryInvariant, PTL

-----------------------------------------------------------------------------
(* The verdict of the compiler on a requirement is its verdict on one of   *)
(* the values, if there is one on any.                                     *)
LEMMA CheckFacts ==
  ASSUME ParamInv, NEW j \in DOMAIN reqs, NEW site
  PROVE  LET f == checkParamReq(reqs[j], site)
             found(x) == checkValue(reqs[j].comparator, Resolved(site), x)
         IN  /\ f # Unknown => \E x \in Range(reqs[j].values) : found(x) = f
             /\ \A x \in Range(reqs[j].values) : found(x) # Unknown => f # Unknown
<1> DEFINE c == reqs[j].comparator
           vs == reqs[j].values
           found(x) == checkValue(c, Resolved(site), x)
           known == {i \in DOMAIN vs : found(vs[i]) # Unknown}
           first == CHOOSE i \in known : \A k \in known : i <= k
           f == checkParamReq(reqs[j], site)
<1>1. f = IF known = {} THEN Unknown ELSE found(vs[first])
  BY DEF checkParamReq
<1>2. known \in SUBSET Nat /\ \A i \in known : vs[i] \in Range(vs) /\ found(vs[i]) # Unknown
  <2>1. Range(vs) = {vs[p] : p \in 1..Len(vs)} /\ DOMAIN vs = 1..Len(vs)
    BY RequirementFacts
  <2> HIDE DEF vs, found
  <2>2. QED
    BY <2>1
<1>3. \A x \in Range(vs) : found(x) # Unknown => known # {}
  <2>1. Range(vs) = {vs[p] : p \in 1..Len(vs)} /\ DOMAIN vs = 1..Len(vs)
    BY RequirementFacts
  <2> HIDE DEF vs, found
  <2>2. QED
    BY <2>1
<1>4. known # {} => first \in known
  <2>1. first = FirstOf(known)
    BY DEF FirstOf
  <2> HIDE DEF known, first
  <2>2. QED
    BY <1>2, <2>1, FirstFacts
<1> HIDE DEF known, first, f, found, vs
<1>5. /\ f # Unknown => \E x \in Range(vs) : found(x) = f
      /\ \A x \in Range(vs) : found(x) # Unknown => f # Unknown
  BY <1>1, <1>2, <1>3, <1>4
<1>6. QED
  BY <1>5 DEF f, found, vs

(* What a verdict on one value means.                                      *)
LEMMA ValueFacts ==
  ASSUME ParamInv, NEW i \in DOMAIN sites, NEW j \in DOMAIN reqs, NEW x \in Range(reqs[j].values)
  PROVE  LET found == checkValue(reqs[j].comparator, Resolved(sites[i]), x)
             v == sites[i].value
             exempts == reqs[j].comparator = "EXEQ"
             Confirmed == /\ sites[i].form # "assigned"
                          /\ pointer /\ sites[i].form # "number" => reqs[j].comparator # "EQ"
         IN  /\ exempts => found \in {Unknown, "FULFILLED"}
             /\ found = "BROKEN" /\ Confirmed => ~Compare(reqs[j].comparator, v, x.value) /\ ~exempts
             /\ found = "BROKEN" /\ Confirmed => sites[i].form # "computed"
             /\ exempts /\ v = x.value /\ ~MixedZeros /\ sites[i].form \notin {"assigned", "computed"}
                  => found = "FULFILLED"
             /\ ~pointer => /\ found # Unknown => sites[i].form = "number"
                            /\ exempts /\ found = "FULFILLED" => v = x.value
                            /\ ~exempts => found # "FULFILLED"
                            /\ ~exempts /\ ~Compare(reqs[j].comparator, v, x.value) /\ ~MixedZeros
                                 /\ sites[i].form = "number" => found # Unknown
<1> DEFINE c == reqs[j].comparator
           site == sites[i]
           v == sites[i].value
           arg == Resolved(sites[i])
           found == checkValue(c, arg, x)
<1>1. /\ c \in Comparator /\ (pointer => c \in {"EXEQ", "EQ", "NEQ"})
      /\ x \in Constants /\ (x.form = "null" => x.value = 0)
      /\ IF pointer THEN x.form = "global" <=> x.value \in Address ELSE x.form # "global"
  BY RequirementFacts, Zenon
<1>2. site \in Sites /\ Passable(site) /\ pointer \in BOOLEAN /\ asserts \in BOOLEAN
  BY DEF ParamInv
<1>3. /\ site.form \in {"number", "null", "global", "assigned", "computed"}
      /\ site.form = "number" => (pointer => v # 0 /\ v \notin Address)
      /\ site.form = "null" => pointer /\ v = 0
      /\ site.form = "global" => pointer /\ v \in Address
      /\ site.form = "assigned" => pointer
  <2>1. site.form \in {"number", "null", "global", "assigned", "computed"}
    BY <1>2 DEF Sites
  <2>2. CASE site.form = "number"
    BY <1>2, <2>2 DEF Passable
  <2>3. CASE site.form = "null"
    BY <1>2, <2>3 DEF Passable
  <2>4. CASE site.form = "global"
    BY <1>2, <2>4 DEF Passable
  <2>5. CASE site.form = "assigned"
    BY <1>2, <2>5 DEF Passable
  <2>6. CASE site.form = "computed"
    BY <2>6
  <2>7. QED
    BY <2>1, <2>2, <2>3, <2>4, <2>5, <2>6
<1>4. /\ site.form = "assigned" => arg.form = "number"
      /\ site.form # "assigned" => arg.form = site.form /\ arg.value = v /\ arg = [form |-> site.form, value |-> v]
  BY DEF Resolved, Number
<1>5. x = [form |-> x.form, value |-> x.value] /\ x.form \in {"number", "null", "global"}
  BY <1>1 DEF Constants
<1>6. ~MixedZeros => x # (IF pointer THEN Number(0) ELSE Null)
  BY DEF MixedZeros
<1>7. /\ ~MixedZeros /\ pointer => ~(x.form = "number" /\ x.value = 0)
      /\ ~MixedZeros /\ ~pointer => x.form = "number"
  BY <1>1, <1>5, <1>6 DEF Number, Null
<1>8. 0 \notin Address
  BY ParamAssumption
<1>9. Unknown \notin {"FULFILLED", "BROKEN", "ABORTED"}
  BY DEF Unknown
<1> HIDE DEF c, site, v, arg
<1>10. c = "EXEQ" => (Compare(c, v, x.value) <=> v = x.value)
  BY DEF Compare
<1>11. CASE pointer /\ arg.form # "number"
  <2>1. found = comparePointers(c, arg, x)
    BY <1>11 DEF checkValue
  <2>2. site.form # "assigned" /\ arg = [form |-> site.form, value |-> v]
    BY <1>4, <1>11
  <2>3. arg = x <=> site.form = x.form /\ v = x.value
    BY <1>5, <2>2
  <2>4. CASE c = "EXEQ"
    <3>1. found = IF arg = x THEN "FULFILLED" ELSE Unknown
      BY <2>1, <2>4 DEF comparePointers
    <3>2. v = x.value /\ ~MixedZeros /\ site.form \notin {"assigned", "computed"} => arg = x
      BY <1>1, <1>3, <1>4, <1>5, <1>7, <1>8, <1>11, <2>3
    <3> HIDE DEF found
    <3>3. QED
      BY <1>9, <1>11, <2>4, <3>1, <3>2 DEF c, site, v, found, arg
  <2>5. CASE c = "NEQ"
    <3>1. found = IF arg = x THEN "BROKEN" ELSE "FULFILLED"
      BY <2>1, <2>5 DEF comparePointers
    <3>2. arg = x => ~Compare(c, v, x.value) /\ site.form # "computed"
      BY <1>5, <2>3, <2>5 DEF Compare
    <3> HIDE DEF found
    <3>3. QED
      BY <1>9, <1>11, <2>5, <3>1, <3>2 DEF c, site, v, found, arg
  <2>6. CASE c = "EQ"
    <3>1. site.form # "number"
      BY <1>4, <1>11, <2>2
    <3>2. QED
      BY <1>11, <2>6, <3>1 DEF c, site
  <2>7. QED
    BY <1>1, <1>11, <2>4, <2>5, <2>6
<1>12. CASE ~(pointer /\ arg.form # "number") /\ arg.form = "number" /\ x.form = "number"
  <2>1. found = compareCI(c, arg.value, x.value)
    BY <1>12 DEF checkValue
  <2>2. site.form \in {"number", "assigned"} /\ (site.form = "number" => arg.value = v)
    BY <1>4, <1>12
  <2>3. CASE c = "EXEQ"
    <3>1. found = IF arg.value = x.value THEN "FULFILLED" ELSE Unknown
      BY <2>1, <2>3 DEF compareCI
    <3> HIDE DEF found
    <3>2. QED
      BY <1>3, <1>9, <2>2, <2>3, <3>1 DEF c, site, v, found, arg
  <2>4. CASE c # "EXEQ"
    <3>1. found = IF asserts /\ c \in Ordering THEN "ABORTED"
                  ELSE IF Compare(c, arg.value, x.value) THEN Unknown ELSE "BROKEN"
      BY <2>1, <2>4 DEF compareCI
    <3> HIDE DEF found
    <3>2. QED
      BY <1>3, <1>9, <2>2, <2>4, <3>1 DEF c, site, v, found, arg
  <2>5. QED
    BY <2>3, <2>4
<1>13. CASE ~(pointer /\ arg.form # "number") /\ ~(arg.form = "number" /\ x.form = "number")
  <2>1. found = Unknown
    BY <1>13 DEF checkValue
  <2>2. pointer => arg.form = "number" /\ x.form # "number"
    BY <1>13
  <2>3. v = x.value /\ site.form \notin {"assigned", "computed"} => MixedZeros
    BY <1>1, <1>3, <1>4, <1>5, <1>7, <1>13
  <2>4. ~pointer /\ site.form = "number" => MixedZeros
    BY <1>3, <1>4, <1>7, <1>13
  <2> HIDE DEF found
  <2>5. QED
    BY <1>9, <2>1, <2>3, <2>4 DEF c, site, v, found, arg
<1>14. QED
  BY <1>11, <1>12, <1>13

(* Pairs of call site and requirement, in the order they are visited.      *)
Before(p, q) == p[1] < q[1] \/ (p[1] = q[1] /\ p[2] <= q[2])

(* Of some pairs, one is visited first.                                    *)
LEMMA FirstPair ==
  ASSUME NEW S \in SUBSET (Nat \X Nat), S # {}
  PROVE  \E p \in S : \A q \in S : Before(p, q)
<1> DEFINE A == {p[1] : p \in S}
<1>1. A \in SUBSET Nat /\ A # {}
  OBVIOUS
<1>2. PICK a \in A : \A b \in A : a <= b
  BY <1>1, LeastElement
<1> DEFINE B == {p[2] : p \in {q \in S : q[1] = a}}
<1>3. B \in SUBSET Nat /\ B # {}
  BY <1>2
<1>4. PICK m \in B : \A n \in B : m <= n
  BY <1>3, LeastElement
<1>5. PICK p \in S : p[1] = a /\ p[2] = m
  BY <1>4
<1>6. ASSUME NEW q \in S
      PROVE  Before(p, q)
  <2>1. a <= q[1] /\ a \in Nat /\ q[1] \in Nat /\ q[2] \in Nat /\ m \in Nat
    BY <1>1, <1>2, <1>3, <1>4
  <2>2. q[1] = a => m <= q[2]
    BY <1>4
  <2>3. QED
    BY <1>5, <2>1, <2>2 DEF Before
<1>7. QED
  BY <1>5, <1>6

(* The first decisive pair has no decisive pair before it.                 *)
LEMMA FirstPairFacts ==
  ASSUME ParamInv, decisivePairs # {}
  PROVE  /\ firstPair[1] \in DOMAIN sites /\ firstPair[2] \in DOMAIN reqs
         /\ Decisive(firstPair[1], firstPair[2])
         /\ \A k \in 1..(firstPair[2] - 1) : k \in DOMAIN reqs /\ ~Decisive(firstPair[1], k)
<1>1. DOMAIN sites \subseteq Nat /\ DOMAIN reqs = 1..Len(reqs) /\ Len(reqs) \in Nat
  BY DEF ParamInv
<1>2. decisivePairs \in SUBSET (Nat \X Nat)
  BY <1>1 DEF decisivePairs
<1>3. \E p \in decisivePairs : \A q \in decisivePairs : p[1] < q[1] \/ (p[1] = q[1] /\ p[2] <= q[2])
  BY <1>2, FirstPair DEF Before
<1>4. firstPair = CHOOSE p \in decisivePairs :
                    \A q \in decisivePairs : p[1] < q[1] \/ (p[1] = q[1] /\ p[2] <= q[2])
  BY Zenon DEF firstPair
<1>5. /\ firstPair \in decisivePairs
      /\ \A q \in decisivePairs : firstPair[1] < q[1] \/ (firstPair[1] = q[1] /\ firstPair[2] <= q[2])
  BY <1>3, <1>4, Zenon
<1>6. firstPair[1] \in DOMAIN sites /\ firstPair[2] \in DOMAIN reqs /\ Decisive(firstPair[1], firstPair[2])
  BY <1>5 DEF decisivePairs
<1>7. ASSUME NEW k \in 1..(firstPair[2] - 1)
      PROVE  k \in DOMAIN reqs /\ ~Decisive(firstPair[1], k)
  <2>1. k \in DOMAIN reqs /\ k \in Nat /\ firstPair[2] \in Nat /\ k < firstPair[2] /\ firstPair[1] \in Nat
    BY <1>1, <1>6
  <2>2. Decisive(firstPair[1], k) => <<firstPair[1], k>> \in decisivePairs
    BY <1>6, <2>1 DEF decisivePairs
  <2>3. <<firstPair[1], k>> \in decisivePairs => FALSE
    BY <1>5, <2>1
  <2>4. QED
    BY <2>1, <2>2, <2>3
<1>8. QED
  BY <1>6, <1>7

(* The verdict of the compiler is that of the first decisive pair.         *)
LEMMA StaticOutcomeFacts ==
  ASSUME ParamInv
  PROVE  LET f == checkParamReq(reqs[firstPair[2]], sites[firstPair[1]])
         IN  /\ StaticOutcome = "BROKEN" => decisivePairs # {} /\ f = "BROKEN"
             /\ StaticOutcome = "FULFILLED" /\ decisivePairs # {} =>
                  f = "FULFILLED" /\ reqs[firstPair[2]].comparator = "EXEQ"
<1> DEFINE f == checkParamReq(reqs[firstPair[2]], sites[firstPair[1]])
<1>1. StaticOutcome = IF decisivePairs # {} /\ f \in {"BROKEN", "ABORTED"} THEN f ELSE "FULFILLED"
  BY Zenon DEF StaticOutcome
<1>2. Decisive(firstPair[1], firstPair[2]) <=>
        f \in {"BROKEN", "ABORTED"} \/ (f = "FULFILLED" /\ reqs[firstPair[2]].comparator = "EXEQ")
  BY Zenon DEF Decisive
<1> HIDE DEF f
<1>3. decisivePairs # {} => Decisive(firstPair[1], firstPair[2])
  BY FirstPairFacts
<1>4. /\ StaticOutcome = "BROKEN" => decisivePairs # {} /\ f = "BROKEN"
      /\ StaticOutcome = "FULFILLED" /\ decisivePairs # {} =>
           f = "FULFILLED" /\ reqs[firstPair[2]].comparator = "EXEQ"
  BY <1>1, <1>2, <1>3
<1>5. QED
  BY <1>4 DEF f

(* The call that is told BROKEN is told VIOLATED, if it is made.           *)
LEMMA AlarmIsViolation ==
  ASSUME ParamInv, StaticOutcome = "BROKEN", ~MixedZeros, sites[firstPair[1]].form # "assigned",
         pointer /\ sites[firstPair[1]].form # "number" => reqs[firstPair[2]].comparator # "EQ"
  PROVE  Outcome(sites[firstPair[1]]) = "VIOLATED"
<1> DEFINE i == firstPair[1]
           j == firstPair[2]
           v == sites[i].value
<1>1. /\ i \in DOMAIN sites /\ j \in DOMAIN reqs /\ checkParamReq(reqs[j], sites[i]) = "BROKEN"
      /\ \A k \in 1..(j - 1) : k \in DOMAIN reqs /\ ~Decisive(i, k)
  BY FirstPairFacts, StaticOutcomeFacts
<1>2. sites[i].form # "assigned" /\ (pointer /\ sites[i].form # "number" => reqs[j].comparator # "EQ")
  OBVIOUS
<1>3. v \in Int /\ Fits(v, size)
  BY <1>1 DEF ParamInv, Sites, Passable
<1> HIDE DEF i, j
<1>4. Unknown \notin {"FULFILLED", "BROKEN", "ABORTED"}
  BY DEF Unknown
<1>5. PICK x \in Range(reqs[j].values) : checkValue(reqs[j].comparator, Resolved(sites[i]), x) = "BROKEN"
  BY <1>1, <1>4, CheckFacts
<1>6. ~Compare(reqs[j].comparator, v, x.value) /\ reqs[j].comparator # "EXEQ" /\ sites[i].form # "computed"
  BY <1>1, <1>2, <1>5, ValueFacts
<1>7. Fails(j, v)
  BY <1>6 DEF Fails
<1>8. ASSUME NEW k \in 1..(j - 1), Exempts(k, v)
      PROVE  FALSE
  <2>1. k \in DOMAIN reqs /\ ~Decisive(i, k)
    BY <1>1
  <2>2. reqs[k].comparator = "EXEQ"
    BY <1>8 DEF Exempts
  <2>3. PICK y \in Range(reqs[k].values) : v = y.value
    BY <1>8 DEF Exempts
  <2>4. checkValue(reqs[k].comparator, Resolved(sites[i]), y) = "FULFILLED"
    BY <1>1, <1>2, <1>6, <2>1, <2>2, <2>3, ValueFacts
  <2>5. checkParamReq(reqs[k], sites[i]) # Unknown
    BY <1>4, <2>1, <2>4, CheckFacts
  <2>6. PICK z \in Range(reqs[k].values) :
          checkValue(reqs[k].comparator, Resolved(sites[i]), z) = checkParamReq(reqs[k], sites[i])
    BY <2>1, <2>5, CheckFacts
  <2>7. checkValue(reqs[k].comparator, Resolved(sites[i]), z) \in {Unknown, "FULFILLED"}
    BY <1>1, <2>1, <2>2, ValueFacts
  <2>8. checkParamReq(reqs[k], sites[i]) = "FULFILLED"
    BY <2>5, <2>6, <2>7
  <2>9. Decisive(i, k)
    BY <2>2, <2>8, Zenon DEF Decisive
  <2>10. QED
    BY <2>1, <2>9
<1>9. QED
  BY <1>1, <1>3, <1>7, <1>8, VerdictFacts DEF i

(* No false alarm of param!: whoever is told BROKEN at compile time is     *)
(* told VIOLATED when the call is made, unless an exempt call was made     *)
(* before (ContractVerifierParam::run, ParamAnalysis::functionPreCBImpl).  *)
THEOREM StaticAlarmsConfirmed == ParamSpec => []StaticAlarmConfirmed
<1>1. ASSUME ParamInv, HistoryInv, NEW p \in DOMAIN calls,
             sites[calls[p]].form # "assigned", ~MixedZeros, Alarmed(calls[p]),
             pointer /\ sites[calls[p]].form # "number" => reqs[firstPair[2]].comparator # "EQ"
      PROVE  verdict = "VIOLATED" \/ \E q \in 1..(p - 1) : Exempt(Passed(q))
  <2>1. StaticOutcome = "BROKEN" /\ firstPair[1] = calls[p]
    BY <1>1 DEF Alarmed
  <2>2. Outcome(sites[calls[p]]) = "VIOLATED"
    BY <1>1, <2>1, AlarmIsViolation
  <2>3. Outcomes[calls[p]] = "VIOLATED" /\ Outcomes[calls[p]] # Unknown
    BY <1>1, <2>2, FirstDecides DEF Outcomes, Unknown
  <2>4. verdict # Unknown
    BY <1>1, <2>3 DEF HistoryInv
  <2>5. PICK q \in DOMAIN calls : /\ verdict = Outcomes[calls[q]]
                                  /\ \A r \in 1..(q - 1) : Outcomes[calls[r]] = Unknown
    BY <1>1, <2>4 DEF HistoryInv
  <2>6. q = p \/ q \in 1..(p - 1)
    <3>1. p \in Nat \ {0} /\ q \in Nat \ {0}
      BY <1>1 DEF ParamInv
    <3>2. p \notin 1..(q - 1)
      BY <2>3, <2>5
    <3>3. QED
      BY <3>1, <3>2
  <2>7. /\ verdict = Outcome(sites[calls[q]]) /\ sites[calls[q]].value = Passed(q)
        /\ Passed(q) \in Int /\ Fits(Passed(q), size)
    BY <1>1, <2>5, FirstDecides DEF Outcomes, Passed
  <2>8. /\ Outcome(sites[calls[q]]) \in {Unknown, "FULFILLED", "VIOLATED"}
        /\ Outcome(sites[calls[q]]) = "FULFILLED" => Exempt(Passed(q))
    BY <1>1, <2>7, VerdictFacts
  <2>9. QED
    BY <2>3, <2>4, <2>5, <2>6, <2>7, <2>8
<1>2. ParamInv /\ HistoryInv => StaticAlarmConfirmed
  BY <1>1 DEF StaticAlarmConfirmed
<1>3. QED
  BY <1>2, HistoryInvariant, PTL

(* A forbidden constant integer is found by the compiler, or the loop over *)
(* the call sites ended before, at another decisive pair.                  *)
LEMMA ConstantIsFound ==
  ASSUME ParamInv, ~pointer, ~MixedZeros, NEW i \in DOMAIN sites, sites[i].form = "number",
         Forbidden(sites[i].value)
  PROVE  \/ StaticOutcome # "FULFILLED"
         \/ \E k \in DOMAIN sites : sites[k].form = "number" /\ Exempt(sites[k].value)
<1> DEFINE v == sites[i].value
<1>1. Unknown \notin {"FULFILLED", "BROKEN", "ABORTED"}
  BY DEF Unknown
<1>2. PICK j \in DOMAIN reqs : Fails(j, v)
  BY DEF Forbidden
<1>3. PICK x \in Range(reqs[j].values) : ~Compare(reqs[j].comparator, v, x.value)
  BY <1>2 DEF Fails
<1>4. reqs[j].comparator # "EXEQ"
  BY <1>2 DEF Fails
<1>5. checkValue(reqs[j].comparator, Resolved(sites[i]), x) # Unknown
  BY <1>3, <1>4, ValueFacts
<1>6. checkParamReq(reqs[j], sites[i]) # Unknown
  BY <1>5, CheckFacts
<1>7. PICK y \in Range(reqs[j].values) :
        checkValue(reqs[j].comparator, Resolved(sites[i]), y) = checkParamReq(reqs[j], sites[i])
  BY <1>6, CheckFacts
<1>8. checkParamReq(reqs[j], sites[i]) \in {Unknown, "FULFILLED", "BROKEN", "ABORTED"}
  <2>1. \A c, n, m : compareCI(c, n, m) \in {Unknown, "FULFILLED", "BROKEN", "ABORTED"}
    BY DEF compareCI
  <2>2. checkValue(reqs[j].comparator, Resolved(sites[i]), y) \in {Unknown, "FULFILLED", "BROKEN", "ABORTED"}
    BY <2>1 DEF checkValue
  <2>3. QED
    BY <1>7, <2>2
<1>9. checkParamReq(reqs[j], sites[i]) \in {"BROKEN", "ABORTED"}
  BY <1>4, <1>6, <1>7, <1>8, ValueFacts
<1>10. decisivePairs # {}
  <2>1. Decisive(i, j)
    BY <1>9, Zenon DEF Decisive
  <2>2. <<i, j>> \in decisivePairs
    BY <2>1 DEF decisivePairs
  <2>3. QED
    BY <2>2
<1>11. ASSUME StaticOutcome = "FULFILLED"
       PROVE  \E k \in DOMAIN sites : sites[k].form = "number" /\ Exempt(sites[k].value)
  <2> DEFINE a == firstPair[1]
             b == firstPair[2]
  <2>1. /\ a \in DOMAIN sites /\ b \in DOMAIN reqs
        /\ checkParamReq(reqs[b], sites[a]) = "FULFILLED" /\ reqs[b].comparator = "EXEQ"
    BY <1>10, <1>11, FirstPairFacts, StaticOutcomeFacts
  <2> HIDE DEF a, b
  <2>2. PICK z \in Range(reqs[b].values) : checkValue(reqs[b].comparator, Resolved(sites[a]), z) = "FULFILLED"
    BY <1>1, <2>1, CheckFacts
  <2>3. sites[a].form = "number" /\ sites[a].value = z.value
    BY <1>1, <2>1, <2>2, ValueFacts
  <2>4. QED
    BY <2>1, <2>3 DEF Exempt, Exempts
<1>12. QED
  BY <1>11

(* No missed constant: a call of a constant integer that is told VIOLATED  *)
(* was announced at compile time, unless an exempt constant elsewhere      *)
(* ended the check (ContractVerifierParam::run).                           *)
THEOREM ConstantsAnnounced == ParamSpec => []ConstantViolationsAnnounced
<1>1. ASSUME ParamInv, HistoryInv, ~pointer, ~MixedZeros, ~NegativeEquality, verdict = "VIOLATED",
             NEW p \in DOMAIN calls, Deciding(p), sites[calls[p]].form = "number"
      PROVE  \/ StaticOutcome # "FULFILLED"
             \/ \E i \in DOMAIN sites : sites[i].form = "number" /\ Exempt(sites[i].value)
  <2>1. CASE Forbidden(Passed(p))
    BY <1>1, <2>1, FirstDecides, ConstantIsFound DEF Passed
  <2>2. CASE ~Forbidden(Passed(p))
    <3>1. Exempt(Passed(p)) /\ calls[p] \in DOMAIN sites
      BY <1>1, <2>2, FirstDecides DEF Deciding
    <3>2. QED
      BY <1>1, <3>1 DEF Passed
  <2>3. QED
    BY <2>1, <2>2
<1>2. ParamInv /\ HistoryInv => ConstantViolationsAnnounced
  BY <1>1 DEF ConstantViolationsAnnounced
<1>3. QED
  BY <1>2, HistoryInvariant, PTL
================================================================================
