----------------------------- MODULE WorklistProofs -----------------------------
(***************************************************************************)
(* What the static data-flow engine guarantees, for all control flow       *)
(* graphs of any size: it analyses every instruction an execution reaches; *)
(* in a program without calls of f, what the verifiers of calls report is  *)
(* broken on an execution; and, if it has no branches either, what an      *)
(* execution breaks is reported.                                           *)
(***************************************************************************)
EXTENDS Worklist, ListProofs, FiniteSetTheorems

(* The program is one of the programs of WInit, whatever the engine does.  *)
ProgramInv ==
  /\ analysis \in DOMAIN BodyOf
  /\ IsFiniteSet(DOMAIN body) /\ DOMAIN successors = DOMAIN body
  /\ {Callee, Entry} \subseteq DOMAIN body /\ Entry # Callee
  /\ successors[Callee] = <<>>
  /\ \A b \in DOMAIN body : successors[b] \in Seq(DOMAIN body \ {Callee, Entry})
  /\ \A b \in DOMAIN body : body[b] \notin {"br", "ret"} /\ (analysis # "Alloc" => body[b] \notin DOMAIN IR)
  /\ body[Callee] # "call"
  /\ Start \in Starts

(* WInit picks a program.                                                  *)
LEMMA ProgramInit == WInit => ProgramInv
<1>1. SUFFICES ASSUME WInit PROVE ProgramInv
  OBVIOUS
<1>2. PICK s \in Shape :
        /\ successors = [b \in DOMAIN s \cup {Callee} |-> IF b = Callee THEN <<>> ELSE s[b]]
        /\ \E o \in [DOMAIN s \ {Entry} -> BodyOf[analysis]], h \in Helper[analysis] :
             body = [b \in DOMAIN successors |-> IF b = Callee THEN h ELSE IF b = Entry THEN EntryOf[analysis] ELSE o[b]]
  BY <1>1, Zenon DEF WInit
<1>3. PICK o \in [DOMAIN s \ {Entry} -> BodyOf[analysis]], h \in Helper[analysis] :
        body = [b \in DOMAIN successors |-> IF b = Callee THEN h ELSE IF b = Entry THEN EntryOf[analysis] ELSE o[b]]
  BY <1>2
<1>4. analysis \in DOMAIN BodyOf /\ Start \in Starts
  BY <1>1 DEF WInit
<1>5. IsFiniteSet(DOMAIN s) /\ Entry \in DOMAIN s /\ Callee \notin DOMAIN s
  BY ShapeAssumption
<1>6. DOMAIN successors = DOMAIN s \cup {Callee} /\ DOMAIN body = DOMAIN s \cup {Callee}
  BY <1>2, <1>3
<1>7. IsFiniteSet(DOMAIN body)
  BY <1>5, <1>6, FS_AddElement
<1>8. ASSUME NEW b \in DOMAIN body
      PROVE  successors[b] \in Seq(DOMAIN body \ {Callee, Entry})
  <2>1. CASE b = Callee
    <3>1. successors[b] = <<>>
      BY <1>2, <1>6, <2>1
    <3>2. QED
      BY <3>1, EmptySeq
  <2>2. CASE b # Callee
    <3>1. b \in DOMAIN s /\ successors[b] = s[b]
      BY <1>2, <1>6, <2>2
    <3>2. s[b] \in Seq(DOMAIN s \ {Entry})
      BY <3>1, ShapeAssumption
    <3>3. DOMAIN s \ {Entry} \subseteq DOMAIN body \ {Callee, Entry}
      BY <1>5, <1>6
    <3>4. QED
      BY <3>1, <3>2, <3>3, SeqMonotonic
  <2>3. QED
    BY <2>1, <2>2
<1>9. ASSUME NEW b \in DOMAIN body
      PROVE  body[b] \in {EntryOf[analysis]} \cup BodyOf[analysis] \cup Helper[analysis]
  <2>1. b # Callee /\ b # Entry => b \in DOMAIN s \ {Entry}
    BY <1>6
  <2>2. QED
    BY <1>3, <1>6, <2>1
<1>10. ASSUME NEW b \in DOMAIN body
       PROVE  body[b] \notin {"br", "ret"} /\ (analysis # "Alloc" => body[b] \notin DOMAIN IR)
  BY <1>4, <1>9, BodyAssumption
<1>11. body[Callee] # "call"
  <2>1. body[Callee] = h
    BY <1>3, <1>6
  <2>2. QED
    BY <1>4, <2>1, BodyAssumption
<1>12. successors[Callee] = <<>>
  BY <1>2
<1>13. QED
  BY <1>4, <1>5, <1>6, <1>7, <1>8, <1>10, <1>11, <1>12 DEF ProgramInv

(* No step changes the program.                                            *)
LEMMA ProgramFrozen == [WNext]_wvars => UNCHANGED program
BY DEF WNext, Take, WalkEnds, Visit, wvars

(* The program stays what it is.                                           *)
LEMMA ProgramStep == ProgramInv /\ UNCHANGED program => ProgramInv'
BY DEF ProgramInv, program, Starts, CallsTo, Op, Instruction, getNextNode

(* What the instructions of a program are.                                 *)
LEMMA InstructionFacts ==
  ASSUME ProgramInv, NEW I \in Instruction
  PROVE  /\ I = <<I[1], I[2]>> /\ I[1] \in DOMAIN body /\ I[2] \in {1, 2} /\ I # Null
         /\ Op(I) \in {"br", "ret"} <=> I[2] = 2
         /\ Op(I) = "br" => InMain(I) /\ successors[I[1]] # <<>>
         /\ Op(I) = "call" => InMain(I) /\ I[2] = 1
         /\ I[2] = 1 => getNextNode(I) = <<I[1], 2>> /\ getNextNode(I) \in Instruction
         /\ I[2] = 2 => getNextNode(I) = Null
<1>1. I = <<I[1], I[2]>> /\ I[1] \in DOMAIN body /\ I[2] \in {1, 2}
  BY DEF Instruction
<1>2. I # Null
  BY <1>1 DEF Null
<1>3. I[2] = 1 => Op(I) = body[I[1]] /\ body[I[1]] \notin {"br", "ret"}
  BY <1>1 DEF Op, ProgramInv
<1>4. I[2] = 2 => Op(I) = IF successors[I[1]] = <<>> THEN "ret" ELSE "br"
  BY <1>1 DEF Op
<1>5. QED
  BY <1>1, <1>2, <1>3, <1>4 DEF InMain, getNextNode, Instruction, ProgramInv, Callee

(* A branch leads to first instructions of blocks of main other than the   *)
(* entry.                                                                  *)
LEMMA BranchTargets ==
  ASSUME ProgramInv, NEW I \in Instruction, NEW i \in DOMAIN successors[I[1]]
  PROVE  /\ successors[I[1]][i] \in DOMAIN body \ {Callee, Entry}
         /\ <<successors[I[1]][i], 1>> \in Instruction
<1>1. successors[I[1]] \in Seq(DOMAIN body \ {Callee, Entry})
  BY InstructionFacts DEF ProgramInv
<1>2. successors[I[1]][i] \in DOMAIN body \ {Callee, Entry}
  BY <1>1
<1>3. QED
  BY <1>2 DEF Instruction

-----------------------------------------------------------------------------
(* The recursive function inside Reached exists, so that it is what it     *)
(* says to be.                                                             *)
First == {<<Start, Null, Memory>>}
Fresh(Barrier, R) == (UNION {After(pos) : pos \in {p \in R.new : Op(p[1]) \notin Barrier}}) \ R.seen
Advance(Barrier, f, k) ==
  IF k = 0 THEN [seen |-> First, new |-> First]
  ELSE [seen |-> f[k - 1].seen \cup Fresh(Barrier, f[k - 1]), new |-> Fresh(Barrier, f[k - 1])]
Horizon == 4 * Cardinality(Instruction)
Waves(Barrier) == CHOOSE f : f = [k \in 0..Horizon |-> Advance(Barrier, f, k)]

(* Reached is the last entry of the table Waves.                           *)
LEMMA ReachedIsWaves == \A Barrier : Reached(Barrier) = Waves(Barrier)[Horizon].seen
BY Zenon DEF Reached, Waves, Advance, Fresh, First, Horizon

(* There are finitely many instructions.                                   *)
LEMMA HorizonIsNat ==
  ASSUME ProgramInv
  PROVE  IsFiniteSet(Instruction) /\ Cardinality(Instruction) \in Nat /\ Horizon \in Nat
<1>1. IsFiniteSet({1, 2}) /\ IsFiniteSet(DOMAIN body)
  <2>1. {1, 2} = 1..2
    OBVIOUS
  <2>2. IsFiniteSet(1..2)
    BY FS_Interval, 1 \in Int, 2 \in Int, Zenon
  <2>3. QED
    BY <2>1, <2>2 DEF ProgramInv
<1>2. IsFiniteSet(Instruction)
  BY <1>1, FS_Product DEF Instruction
<1>3. QED
  BY <1>2, FS_CardinalityType DEF Horizon

(* The table of the recursion exists up to every length.                   *)
LEMMA WavesUpTo ==
  ASSUME NEW Barrier, NEW m \in Nat
  PROVE  \E f : f = [k \in 0..m |-> Advance(Barrier, f, k)]
<1> DEFINE Exist == {n \in Nat : \E f : f = [k \in 0..n |-> Advance(Barrier, f, k)]}
<1>1. 0 \in Exist
  <2>1. [k \in 0..0 |-> [seen |-> First, new |-> First]]
          = [k \in 0..0 |-> Advance(Barrier, [k0 \in 0..0 |-> [seen |-> First, new |-> First]], k)]
    BY DEF Advance
  <2>2. QED
    BY <2>1
<1>2. ASSUME NEW n \in Nat, n \in Exist
      PROVE  n + 1 \in Exist
  <2>1. PICK f : f = [k \in 0..n |-> Advance(Barrier, f, k)]
    BY <1>2
  <2> DEFINE g == [k \in 0..n + 1 |-> IF k = n + 1 THEN Advance(Barrier, f, n + 1) ELSE f[k]]
  <2>2. ASSUME NEW k \in 0..n + 1
        PROVE  g[k] = Advance(Barrier, g, k)
    <3>1. k # 0 => g[k - 1] = f[k - 1]
      OBVIOUS
    <3>2. Advance(Barrier, g, k) = Advance(Barrier, f, k)
      BY <3>1 DEF Advance
    <3>3. k # n + 1 => f[k] = Advance(Barrier, f, k)
      BY <2>1
    <3>4. QED
      BY <3>2, <3>3
  <2>3. g = [k \in 0..n + 1 |-> Advance(Barrier, g, k)]
    BY <2>2
  <2>4. \E h : h = [k \in 0..n + 1 |-> Advance(Barrier, h, k)]
    <3> HIDE DEF g
    <3>1. QED
      BY <2>3, Zenon
  <2>5. QED
    BY <2>4
<1>3. Nat \subseteq Exist
  <2> HIDE DEF Exist
  <2>1. QED
    BY <1>1, <1>2, InductiveSet
<1>4. QED
  BY <1>3

(* So the table satisfies its equation.                                    *)
LEMMA WavesAre ==
  ASSUME ProgramInv, NEW Barrier
  PROVE  \A k \in 0..Horizon : Waves(Barrier)[k] = Advance(Barrier, Waves(Barrier), k)
<1>1. \E f : f = [k \in 0..Horizon |-> Advance(Barrier, f, k)]
  BY WavesUpTo, HorizonIsNat
<1>2. Waves(Barrier) = [k \in 0..Horizon |-> Advance(Barrier, Waves(Barrier), k)]
  BY <1>1, Zenon DEF Waves
<1>3. ASSUME NEW f, f = [k \in 0..Horizon |-> Advance(Barrier, f, k)], NEW k \in 0..Horizon
      PROVE  f[k] = Advance(Barrier, f, k)
  BY <1>3, Zenon
<1>4. QED
  BY <1>2, <1>3

(* The waves, one at a time.                                               *)
LEMMA WaveByWave ==
  ASSUME ProgramInv, NEW Barrier
  PROVE  /\ Waves(Barrier)[0].seen = First /\ Waves(Barrier)[0].new = First
         /\ \A k \in Nat : k + 1 <= Horizon =>
              /\ Waves(Barrier)[k + 1].new = Fresh(Barrier, Waves(Barrier)[k])
              /\ Waves(Barrier)[k + 1].seen = Waves(Barrier)[k].seen \cup Fresh(Barrier, Waves(Barrier)[k])
<1>1. Waves(Barrier)[0] = [seen |-> First, new |-> First]
  <2>1. Waves(Barrier)[0] = Advance(Barrier, Waves(Barrier), 0)
    BY WavesAre, HorizonIsNat
  <2>2. QED
    BY <2>1 DEF Advance
<1>2. ASSUME NEW f, NEW k \in Nat
      PROVE  Advance(Barrier, f, k + 1) =
               [seen |-> f[k].seen \cup Fresh(Barrier, f[k]), new |-> Fresh(Barrier, f[k])]
  <2>1. k + 1 # 0 /\ (k + 1) - 1 = k
    OBVIOUS
  <2>2. QED
    BY <2>1, Zenon DEF Advance
<1>3. ASSUME NEW k \in Nat, k + 1 <= Horizon
      PROVE  Waves(Barrier)[k + 1] = Advance(Barrier, Waves(Barrier), k + 1)
  BY <1>3, WavesAre, HorizonIsNat
<1>4. ASSUME NEW k \in Nat, k + 1 <= Horizon
      PROVE  /\ Waves(Barrier)[k + 1].new = Fresh(Barrier, Waves(Barrier)[k])
             /\ Waves(Barrier)[k + 1].seen = Waves(Barrier)[k].seen \cup Fresh(Barrier, Waves(Barrier)[k])
  <2>1. Waves(Barrier)[k + 1] =
          [seen |-> Waves(Barrier)[k].seen \cup Fresh(Barrier, Waves(Barrier)[k]), new |-> Fresh(Barrier, Waves(Barrier)[k])]
    BY <1>2, <1>3, <1>4
  <2>2. QED
    BY <2>1
<1>5. QED
  BY <1>1, <1>4

(* Induction along the waves: what holds of the start, and of what follows *)
(* the positions it holds of, holds of all that is reached.                *)
LEMMA ReachedInduction ==
  ASSUME ProgramInv, NEW Barrier, NEW S, First \subseteq S,
         \A pos \in S : Op(pos[1]) \notin Barrier => After(pos) \subseteq S
  PROVE  Reached(Barrier) \subseteq S
<1> DEFINE W == Waves(Barrier)
           Good == {k \in Nat : k <= Horizon => W[k].seen \subseteq S /\ W[k].new \subseteq S}
<1>1. /\ W[0].seen = First /\ W[0].new = First
      /\ \A k \in Nat : k + 1 <= Horizon =>
           W[k + 1].new = Fresh(Barrier, W[k]) /\ W[k + 1].seen = W[k].seen \cup Fresh(Barrier, W[k])
  BY WaveByWave
<1> HIDE DEF W
<1>2. 0 \in Good
  BY <1>1
<1>3. ASSUME NEW k \in Nat, k \in Good
      PROVE  k + 1 \in Good
  <2>1. SUFFICES ASSUME k + 1 <= Horizon
                 PROVE  W[k + 1].seen \subseteq S /\ W[k + 1].new \subseteq S
    OBVIOUS
  <2>2. W[k].seen \subseteq S /\ W[k].new \subseteq S
    BY <1>3, <2>1, HorizonIsNat
  <2>3. /\ W[k + 1].seen = W[k].seen \cup Fresh(Barrier, W[k])
        /\ W[k + 1].new = Fresh(Barrier, W[k])
    BY <1>1, <2>1
  <2>4. Fresh(Barrier, W[k]) \subseteq S
    BY <2>2 DEF Fresh
  <2>5. QED
    BY <2>2, <2>3, <2>4
<1>4. Nat \subseteq Good
  <2> HIDE DEF Good
  <2>1. QED
    BY <1>2, <1>3, InductiveSet
<1>5. W[Horizon].seen \subseteq S
  BY <1>4, HorizonIsNat
<1>6. QED
  BY <1>5, ReachedIsWaves DEF W

-----------------------------------------------------------------------------
(* What every step of the engine does to the worklist.                     *)
Goals(I, s) ==
  CASE Op(I) = "br"                             -> {<<successors[I[1]][i], 1>> : i \in DOMAIN successors[I[1]]}
    [] Op(I) = "ret" /\ s = <<>> /\ ~InMain(I) -> {getNextNode(c) : c \in CallsTo("call")}
    [] OTHER                                    -> {}

(* A list that names every element of a finite set once names all of them. *)
LEMMA OrdersOfASet ==
  ASSUME NEW S, IsFiniteSet(S), NEW q \in SetToSeqs(S)
  PROVE  IsList(q) /\ Elements(q) = S
<1> DEFINE n == Cardinality(S)
<1>1. n \in Nat
  BY FS_CardinalityType
<1>2. q \in [1..n -> S] /\ \A i, j \in 1..n : i # j => q[i] # q[j]
  BY DEF SetToSeqs
<1>3. q \in Injection(1..n, S)
  BY <1>2 DEF Injection, IsInjective
<1>4. Cardinality(1..n) = n
  <2> HIDE DEF n
  <2>1. n \in Int /\ 1 \in Int
    BY <1>1
  <2>2. Cardinality(1..n) = IF 1 > n THEN 0 ELSE n - 1 + 1
    BY <2>1, FS_Interval, Zenon
  <2>3. QED
    BY <1>1, <2>2
<1>5. q \in Surjection(1..n, S)
  <2> HIDE DEF n
  <2>1. Cardinality(1..n) = Cardinality(S) <=> q \in Surjection(1..n, S)
    BY <1>3, FS_Injection
  <2>2. QED
    BY <1>4, <2>1 DEF n
<1>6. q \in Seq(S) /\ Len(q) = n
  <2> HIDE DEF n
  <2>1. q \in Seq(S)
    BY <1>1, <1>2, SeqDef
  <2>2. QED
    BY <1>1, <1>2, <2>1, LenProperties
<1>7. \A x \in S : \E i \in 1..n : q[i] = x
  BY <1>5 DEF Surjection
<1>8. QED
  BY <1>2, <1>6, <1>7, SeqIsList DEF Elements

(* What is queued is what Goals says, in some order.                       *)
LEMMA QueuedAreGoals ==
  ASSUME ProgramInv, NEW I \in Instruction, NEW s, NEW q \in Queued(I, s)
  PROVE  IsList(q) /\ Elements(q) = Goals(I, s)
<1>1. CASE Op(I) = "br"
  <2>1. q = Branches(I)
    BY <1>1 DEF Queued
  <2>2. IsList(successors[I[1]])
    BY InstructionFacts, SeqIsList DEF ProgramInv
  <2> DEFINE n == Len(successors[I[1]])
             F == {<<successors[I[1]][i], 1>> : i \in 1..n}
  <2>3. n \in Nat /\ DOMAIN successors[I[1]] = 1..n
    BY <2>2, ListFacts
  <2>4. q \in [1..n -> F]
    BY <2>1, <2>3 DEF Branches
  <2>5. q \in Seq(F) /\ Len(q) = n
    <3> HIDE DEF n, F
    <3>1. q \in Seq(F)
      BY <2>3, <2>4, SeqDef
    <3>2. QED
      BY <2>3, <2>4, <3>1, LenProperties
  <2>6. Elements(q) = F
    BY <2>1, <2>3, <2>5 DEF Elements, Branches
  <2>7. Goals(I, s) = F
    BY <1>1, <2>3 DEF Goals
  <2>8. QED
    BY <2>5, <2>6, <2>7, SeqIsList
<1>2. CASE Op(I) = "ret" /\ s = <<>> /\ ~InMain(I)
  <2> DEFINE S == {getNextNode(c) : c \in CallsTo("call")}
  <2>1. q \in SetToSeqs(S) /\ Goals(I, s) = S
    BY <1>2 DEF Queued, Goals
  <2>2. S \subseteq Instruction
    BY InstructionFacts DEF CallsTo
  <2>3. IsFiniteSet(S)
    BY <2>2, HorizonIsNat, FS_Subset
  <2> HIDE DEF S
  <2>4. QED
    BY <2>1, <2>3, OrdersOfASet
<1>3. CASE Op(I) # "br" /\ ~(Op(I) = "ret" /\ s = <<>> /\ ~InMain(I))
  <2>1. q = <<>> /\ Goals(I, s) = {}
    BY <1>3, Zenon DEF Queued, Goals
  <2>2. QED
    BY <2>1, ListEmpty
<1>4. QED
  BY <1>1, <1>2, <1>3

(* Appending a list.                                                       *)
LEMMA ListConcat ==
  ASSUME NEW s, IsList(s), NEW t, IsList(t), NEW u, u = s \o t
  PROVE  IsList(u) /\ Elements(u) = Elements(s) \cup Elements(t)
<1> DEFINE E == Elements(s) \cup Elements(t)
<1>1. s \in Seq(E) /\ t \in Seq(E)
  BY SeqMonotonic DEF IsList
<1>2. Len(s) \in Nat /\ Len(t) \in Nat
  BY ListFacts
<1>3. /\ u \in Seq(E) /\ Len(u) = Len(s) + Len(t)
      /\ \A i \in 1..Len(s) + Len(t) : u[i] = IF i <= Len(s) THEN s[i] ELSE t[i - Len(s)]
  <2> HIDE DEF E
  <2>1. QED
    BY <1>1, ConcatProperties
<1>4. \A i \in 1..Len(s) : u[i] = s[i]
  BY <1>2, <1>3
<1>5. \A i \in 1..Len(t) : i + Len(s) \in 1..Len(u) /\ u[i + Len(s)] = t[i]
  BY <1>2, <1>3
<1>6. E \subseteq Elements(u)
  <2>1. ASSUME NEW i \in 1..Len(s) PROVE s[i] \in Elements(u)
    <3>1. i \in 1..Len(u)
      BY <1>2, <1>3
    <3>2. QED
      BY <1>4, <3>1 DEF Elements
  <2>2. ASSUME NEW i \in 1..Len(t) PROVE t[i] \in Elements(u)
    BY <1>5 DEF Elements
  <2>3. QED
    BY <2>1, <2>2 DEF Elements
<1>7. QED
  BY <1>3, <1>6, SeqIsList

(* Taking the first element of a list.                                     *)
LEMMA ListHead ==
  ASSUME NEW s, IsList(s), s # <<>>
  PROVE  /\ Head(s) \in Elements(s) /\ IsList(Tail(s))
         /\ Elements(s) = Elements(Tail(s)) \cup {Head(s)}
<1> DEFINE E == Elements(s)
<1>1. s \in Seq(E)
  BY DEF IsList
<1>2. Len(s) \in Nat /\ Len(s) > 0
  BY ListFacts
<1>3. Head(s) = s[1] /\ Tail(s) \in Seq(E) /\ Len(Tail(s)) = Len(s) - 1
      /\ \A i \in 1..Len(s) - 1 : Tail(s)[i] = s[i + 1]
  <2> HIDE DEF E
  <2>1. QED
    BY <1>1, HeadTailProperties
<1>4. Head(s) \in E
  BY <1>2, <1>3 DEF Elements
<1>5. \A i \in 1..Len(s) : i = 1 \/ (i - 1 \in 1..Len(s) - 1 /\ s[i] = Tail(s)[i - 1])
  BY <1>2, <1>3
<1>6. E \subseteq Elements(Tail(s)) \cup {Head(s)}
  <2>1. ASSUME NEW i \in 1..Len(s), i # 1 PROVE s[i] \in Elements(Tail(s))
    <3>1. i - 1 \in 1..Len(Tail(s)) /\ s[i] = Tail(s)[i - 1]
      BY <1>3, <1>5, <2>1
    <3>2. QED
      BY <3>1 DEF Elements
  <2>2. QED
    BY <1>3, <2>1 DEF Elements
<1>7. Elements(Tail(s)) \subseteq E /\ IsList(Tail(s))
  <2> HIDE DEF E
  <2>1. QED
    BY <1>3, SeqIsList
<1>8. QED
  BY <1>4, <1>6, <1>7

(* Types of the engine: a walk is inside of at most one call, of f.        *)
EngineInv ==
  /\ IsList(todoList)
  /\ \A e \in Elements(todoList) : e.start \in Instruction /\ e.stack = <<>>
  /\ next \in Instruction \cup {Null}
  /\ DOMAIN postAccess \subseteq Instruction
  /\ stack = <<>> \/ \E c \in CallsTo("call") : stack = <<c>> /\ Known(c) /\ next # Null /\ next[1] = Callee

(* Visit analyses the instruction at, inside of calls, with after as what  *)
(* it knows behind it.                                                     *)
Before == IF Known(next) THEN Worse(prevInfo, postAccess[next]) ELSE prevInfo
Walks(at, calls) ==
  \/ ~Stops /\ at = next /\ calls = stack
  \/ Stops /\ \E c \in CallsTo("call") : stack = <<c>> /\ at = getNextNode(c) /\ calls = <<>>
Visits(at, calls) ==
  /\ Walks(at, calls)
  /\ DOMAIN postAccess' = DOMAIN postAccess \cup {at}
  /\ postAccess'[at] = Transfer(Before, at)
  /\ \A I \in DOMAIN postAccess \ {at} : postAccess'[I] = postAccess[I]
  /\ prevInfo' = Transfer(Before, at)
  /\ next' = Successor(at, calls) /\ stack' = StackBehind(at, calls)
  /\ IsList(todoList')
  /\ Elements(todoList') = Elements(todoList)
       \cup {[start |-> J, initial |-> Transfer(Before, at), stack |-> calls] : J \in Goals(at, calls)}

(* The last call of a stack of one, and what is left without it.           *)
LEMMA InnermostCall == \A c : Last(<<c>>) = c /\ Front(<<c>>) = <<>>
<1>1. SUFFICES ASSUME NEW c PROVE Last(<<c>>) = c /\ Front(<<c>>) = <<>>
  OBVIOUS
<1>2. Len(<<c>>) = 1
  OBVIOUS
<1>3. Front(<<c>>) = SubSeq(<<c>>, 1, 0)
  BY <1>2 DEF Front
<1>4. SubSeq(<<c>>, 1, 0) = <<>>
  BY SubSeqEmpty, 1 \in Int, 0 \in Int
<1>5. QED
  BY <1>2, <1>3, <1>4 DEF Last

(* Every step of Visit is of that form.                                    *)
LEMMA VisitFacts ==
  ASSUME ProgramInv, EngineInv, Visit
  PROVE  \E at \in Instruction, calls \in {<<>>, stack} : Visits(at, calls)
<1> DEFINE at == IF Stops THEN getNextNode(Last(stack)) ELSE next
           calls == IF Stops THEN Front(stack) ELSE stack
           after == Transfer(Before, at)
<1>1. /\ next # Null /\ ~(Stops /\ stack = <<>>)
      /\ postAccess' = [I \in DOMAIN postAccess \cup {at} |-> IF I = at THEN after ELSE postAccess[I]]
      /\ prevInfo' = after /\ next' = Successor(at, calls) /\ stack' = StackBehind(at, calls)
      /\ \E q \in Queued(at, calls) :
           todoList' = todoList \o [i \in DOMAIN q |-> [start |-> q[i], initial |-> after, stack |-> calls]]
  BY Zenon DEF Visit, Before
<1>2. at \in Instruction /\ Walks(at, calls)
  <2>1. CASE Stops
    <3>1. PICK c \in CallsTo("call") : stack = <<c>>
      BY <1>1, <2>1 DEF EngineInv
    <3>2. at = getNextNode(c) /\ calls = <<>>
      BY <2>1, <3>1, InnermostCall
    <3>3. getNextNode(c) \in Instruction
      BY InstructionFacts DEF CallsTo
    <3>4. QED
      BY <2>1, <3>1, <3>2, <3>3 DEF Walks
  <2>2. CASE ~Stops
    <3>1. next \in Instruction
      BY <1>1 DEF EngineInv
    <3>2. QED
      BY <2>2, <3>1 DEF Walks
  <2>3. QED
    BY <2>1, <2>2
<1> HIDE DEF at, calls
<1>3. PICK q \in Queued(at, calls) :
        todoList' = todoList \o [i \in DOMAIN q |-> [start |-> q[i], initial |-> after, stack |-> calls]]
  BY <1>1
<1>4. IsList(q) /\ Elements(q) = Goals(at, calls)
  BY <1>2, QueuedAreGoals
<1> DEFINE entry(J) == [start |-> J, initial |-> after, stack |-> calls]
           t == [i \in DOMAIN q |-> entry(q[i])]
           E == {entry(J) : J \in Elements(q)}
<1>5. IsList(t) /\ Elements(t) = E
  <2>1. Len(q) \in Nat /\ DOMAIN q = 1..Len(q)
    BY <1>4, ListFacts
  <2>2. t \in [1..Len(q) -> E]
    BY <2>1 DEF Elements
  <2>3. t \in Seq(E) /\ Len(t) = Len(q)
    <3> HIDE DEF t, E
    <3>1. t \in Seq(E)
      BY <2>1, <2>2, SeqDef
    <3>2. QED
      BY <2>1, <2>2, <3>1, LenProperties
  <2>4. Elements(t) = E
    BY <2>1, <2>3 DEF Elements
  <2>5. QED
    <3> HIDE DEF t, E
    <3>1. QED
      BY <2>3, <2>4, SeqIsList
<1>6. IsList(todoList') /\ Elements(todoList') = Elements(todoList) \cup E
  <2>1. IsList(todoList) /\ todoList' = todoList \o t
    BY <1>3 DEF EngineInv
  <2> HIDE DEF t, E
  <2>2. QED
    BY <1>5, <2>1, ListConcat
<1>7. /\ DOMAIN postAccess' = DOMAIN postAccess \cup {at}
      /\ postAccess'[at] = after
      /\ \A I \in DOMAIN postAccess \ {at} : postAccess'[I] = postAccess[I]
  BY <1>1
<1>8. Visits(at, calls)
  BY <1>1, <1>2, <1>4, <1>6, <1>7 DEF Visits
<1>9. calls \in {<<>>, stack}
  BY <1>2 DEF Walks
<1>10. QED
  BY <1>2, <1>8, <1>9

(* Where Visit goes: into f, back from it, to the end of a block, or on.   *)
LEMMA VisitCases ==
  ASSUME ProgramInv, EngineInv, NEW at \in Instruction, NEW calls, Visits(at, calls)
  PROVE  /\ calls = <<>> \/ \E c \in CallsTo("call") : calls = <<c>> /\ stack = <<c>> /\ Known(c) /\ at = next /\ ~InMain(at)
         /\ Op(at) = "call" => calls = <<>> /\ next' = <<Callee, 1>> /\ stack' = <<at>> /\ Goals(at, calls) = {}
         /\ Op(at) \in {"br", "ret"} /\ calls = <<>> => next' = Null /\ stack' = <<>>
         /\ \A c : Op(at) \in {"br", "ret"} /\ calls = <<c>> =>
              Op(at) = "ret" /\ next' = getNextNode(c) /\ stack' = <<>> /\ Goals(at, calls) = {}
         /\ Op(at) \notin {"br", "ret", "call"} =>
              at[2] = 1 /\ next' = getNextNode(at) /\ stack' = calls /\ Goals(at, calls) = {}
<1>1. calls = <<>> \/ \E c \in CallsTo("call") : calls = <<c>> /\ stack = <<c>> /\ Known(c) /\ at = next /\ ~InMain(at)
  BY DEF Visits, Walks, EngineInv, InMain
<1>2. next' = Successor(at, calls) /\ stack' = StackBehind(at, calls)
  BY DEF Visits
<1>3. CASE Op(at) = "call"
  <2>1. calls = <<>>
    BY <1>1, <1>3, InstructionFacts
  <2>2. Append(<<>>, at) = <<at>>
    OBVIOUS
  <2>3. QED
    BY <1>1, <1>2, <1>3, <2>1, <2>2 DEF Successor, StackBehind, Goals
<1>4. CASE Op(at) = "br"
  <2>1. calls = <<>> /\ getNextNode(at) = Null
    BY <1>1, <1>4, InstructionFacts
  <2>2. QED
    BY <1>1, <1>2, <1>4, <2>1 DEF Successor, StackBehind
<1>5. CASE Op(at) = "ret"
  <2>1. CASE calls = <<>>
    BY <1>1, <1>2, <1>5, <2>1 DEF Successor, StackBehind
  <2>2. CASE \E c \in CallsTo("call") : calls = <<c>>
    <3>1. PICK c \in CallsTo("call") : calls = <<c>>
      BY <2>2
    <3>2. <<c>> # <<>> /\ Last(<<c>>) = c /\ Front(<<c>>) = <<>>
      BY InnermostCall
    <3>3. next' = getNextNode(c) /\ stack' = <<>> /\ Goals(at, calls) = {}
      BY <1>2, <1>5, <3>1, <3>2 DEF Successor, StackBehind, Goals
    <3>4. \A d : calls = <<d>> => d = c
      BY <3>1
    <3>5. QED
      BY <1>1, <1>5, <3>1, <3>2, <3>3, <3>4
  <2>3. QED
    BY <1>1, <2>1, <2>2
<1>6. CASE Op(at) \notin {"br", "ret", "call"}
  BY <1>1, <1>2, <1>6, InstructionFacts DEF Successor, StackBehind, Goals
<1>7. QED
  BY <1>3, <1>4, <1>5, <1>6

(* Goals are instructions, and only walks without a call around them queue *)
(* any.                                                                    *)
LEMMA GoalsFacts ==
  ASSUME ProgramInv, NEW at \in Instruction, NEW calls
  PROVE  Goals(at, calls) \subseteq Instruction
<1>1. \A i \in DOMAIN successors[at[1]] : <<successors[at[1]][i], 1>> \in Instruction
  BY BranchTargets
<1>2. \A c \in CallsTo("call") : getNextNode(c) \in Instruction
  BY InstructionFacts DEF CallsTo
<1>3. QED
  BY <1>1, <1>2 DEF Goals

(* Take begins a walk with the first entry.                                *)
Takes(e) ==
  /\ e \in Elements(todoList) /\ IsList(todoList')
  /\ Elements(todoList) = Elements(todoList') \cup {e}
  /\ next = Null /\ todoList # <<>> /\ e = Head(todoList)
  /\ next' = e.start /\ prevInfo' = e.initial /\ stack' = <<>>
  /\ UNCHANGED postAccess

(* Every step of Take is of that form.                                     *)
LEMMA TakeFacts ==
  ASSUME EngineInv, Take
  PROVE  \E e : Takes(e)
<1>1. next = Null /\ todoList # <<>> /\ next' = Head(todoList).start /\ prevInfo' = Head(todoList).initial
      /\ stack' = Head(todoList).stack /\ todoList' = Tail(todoList) /\ UNCHANGED postAccess
  BY DEF Take
<1>2. IsList(todoList) /\ \A e \in Elements(todoList) : e.stack = <<>>
  BY DEF EngineInv
<1>3. Takes(Head(todoList))
  BY <1>1, <1>2, ListHead DEF Takes
<1>4. QED
  BY <1>3

(* The first entry of the worklist.                                        *)
LEMMA EngineInit == WInit => IsList(todoList) /\ Elements(todoList) = {[start |-> Start, initial |-> Initial, stack |-> <<>>]}
<1>1. SUFFICES ASSUME WInit
               PROVE  IsList(todoList) /\ Elements(todoList) = {[start |-> Start, initial |-> Initial, stack |-> <<>>]}
  OBVIOUS
<1> DEFINE e == [start |-> Start, initial |-> Initial, stack |-> <<>>]
<1>2. todoList = <<e>>
  BY <1>1 DEF WInit
<1> HIDE DEF e
<1>3. todoList \in Seq({e}) /\ Len(todoList) = 1 /\ todoList[1] = e
  BY <1>2
<1>4. QED
  BY <1>3, SeqIsList DEF Elements, e

(* The start is an instruction.                                            *)
LEMMA StartFacts ==
  ASSUME ProgramInv
  PROVE  Start \in Instruction /\ (Start[1] = Callee => Op(Start) = "ret" /\ Start[2] = 2)
<1>1. <<Entry, 1>> \in Instruction /\ Entry # Callee
  BY DEF ProgramInv, Instruction
<1>2. \A I \in CallsTo("supplier") : I[2] = 1 /\ getNextNode(I) = <<I[1], 2>> /\ getNextNode(I) \in Instruction
  BY InstructionFacts DEF CallsTo
<1>3. \A I \in Instruction : I[2] = 2 /\ I[1] = Callee => Op(I) = "ret"
  BY InstructionFacts DEF InMain
<1>4. Start = <<Entry, 1>> \/ \E I \in CallsTo("supplier") : Start = getNextNode(I)
  BY DEF ProgramInv, Starts
<1>5. CASE Start = <<Entry, 1>>
  BY <1>1, <1>5
<1>6. CASE \E I \in CallsTo("supplier") : Start = getNextNode(I)
  <2>1. PICK I \in CallsTo("supplier") : Start = getNextNode(I)
    BY <1>6
  <2>2. Start \in Instruction /\ Start[2] = 2
    BY <1>2, <2>1
  <2>3. QED
    BY <1>3, <2>2
<1>7. QED
  BY <1>4, <1>5, <1>6

(* The types of the engine are an invariant.                               *)
LEMMA EngineStep ==
  ASSUME ProgramInv, EngineInv, [WNext]_wvars
  PROVE  EngineInv'
<1>1. Instruction' = Instruction /\ CallsTo("call")' = CallsTo("call")
  BY ProgramFrozen DEF program, Instruction, CallsTo, Op
<1>2. CASE Take
  <2>1. PICK e : Takes(e)
    BY <1>2, TakeFacts
  <2>2. e.start \in Instruction
    BY <2>1 DEF Takes, EngineInv
  <2>3. QED
    BY <1>1, <2>1, <2>2 DEF Takes, EngineInv
<1>3. CASE WalkEnds
  BY <1>1, <1>3 DEF WalkEnds, EngineInv
<1>4. CASE Visit
  <2>1. PICK at \in Instruction, calls \in {<<>>, stack} : Visits(at, calls)
    BY <1>4, VisitFacts
  <2>2. \A e \in Elements(todoList') : e.start \in Instruction' /\ e.stack = <<>>
    <3>1. Goals(at, calls) # {} => calls = <<>>
      <4>1. CASE Op(at) \in {"br", "ret"}
        BY <2>1, <4>1, VisitCases
      <4>2. CASE Op(at) \notin {"br", "ret"}
        BY <2>1, <4>2, VisitCases
      <4>3. QED
        BY <4>1, <4>2
    <3>2. QED
      BY <1>1, <2>1, <3>1, GoalsFacts DEF Visits, EngineInv
  <2>3. DOMAIN postAccess' \subseteq Instruction' /\ IsList(todoList')
    BY <1>1, <2>1 DEF Visits, EngineInv
  <2>4. Known(at)' /\ \A I : Known(I) => Known(I)'
    BY <2>1 DEF Visits, Known
  <2>5. <<Callee, 1>> \in Instruction
    BY DEF Instruction, ProgramInv
  <2>6. /\ next' \in Instruction' \cup {Null}
        /\ stack' = <<>> \/ \E c \in CallsTo("call")' : stack' = <<c>> /\ Known(c)' /\ next' # Null /\ next'[1] = Callee
    <3>1. CASE Op(at) = "call"
      <4>1. next' = <<Callee, 1>> /\ stack' = <<at>> /\ at \in CallsTo("call")
        BY <2>1, <3>1, VisitCases DEF CallsTo
      <4>2. next' # Null /\ next'[1] = Callee
        BY <2>5, <4>1, InstructionFacts
      <4>3. QED
        BY <1>1, <2>4, <2>5, <4>1, <4>2
    <3>2. CASE Op(at) \in {"br", "ret"}
      <4>1. CASE calls = <<>>
        BY <2>1, <3>2, <4>1, VisitCases
      <4>2. CASE calls # <<>>
        <5>1. PICK c \in CallsTo("call") : calls = <<c>>
          BY <2>1, <4>2, VisitCases
        <5>2. next' = getNextNode(c) /\ stack' = <<>>
          BY <2>1, <3>2, <5>1, VisitCases
        <5>3. QED
          BY <1>1, <5>2, InstructionFacts DEF CallsTo
      <4>3. QED
        BY <4>1, <4>2
    <3>3. CASE Op(at) \notin {"br", "ret", "call"}
      <4>1. at[2] = 1 /\ next' = getNextNode(at) /\ stack' = calls
        BY <2>1, <3>3, VisitCases
      <4>2. next' \in Instruction /\ next' # Null /\ next'[1] = at[1]
        BY <4>1, InstructionFacts
      <4>3. CASE calls = <<>>
        BY <1>1, <4>1, <4>2, <4>3
      <4>4. CASE calls # <<>>
        <5>1. PICK c \in CallsTo("call") : calls = <<c>> /\ Known(c) /\ ~InMain(at)
          BY <2>1, <4>4, VisitCases
        <5>2. QED
          BY <1>1, <2>4, <4>1, <4>2, <5>1 DEF InMain
      <4>5. QED
        BY <4>3, <4>4
    <3>4. QED
      BY <3>1, <3>2, <3>3
  <2>7. QED
    BY <2>2, <2>3, <2>6 DEF EngineInv
<1>5. CASE UNCHANGED wvars
  BY <1>1, <1>5 DEF wvars, EngineInv, Known
<1>6. QED
  BY <1>2, <1>3, <1>4, <1>5 DEF WNext

-----------------------------------------------------------------------------
(* Coverage.  An instruction is handled when it is known, about to be      *)
(* visited, or in the worklist: it will be known.                          *)
Pending(J) == J = next \/ \E e \in Elements(todoList) : e.start = J
Handled(J) == Known(J) \/ Pending(J)

(* Nothing is analysed yet.                                                *)
Unstarted ==
  /\ postAccess = <<>> /\ stack = <<>>
  /\ next = Start \/ (next = Null /\ todoList # <<>> /\ Head(todoList).start = Start)

(* What the engine has to analyse behind an instruction: what follows in   *)
(* the block or, for a call, in f, and every branch.                       *)
Follow(I) ==
  CASE Op(I) = "br"                    -> {<<successors[I[1]][i], 1>> : i \in DOMAIN successors[I[1]]}
    [] Op(I) = "call"                  -> {<<Callee, 1>>}
    [] Op(I) = "ret"                   -> {}
    [] Op(I) \notin {"br", "call", "ret"} -> {getNextNode(I)}

(* All that is handled once the instruction is analysed, and what follows  *)
(* a call of f unless the walk is in there.  When the analysis started in  *)
(* f, what follows the calls of f is handled.                              *)
CoverInv ==
  /\ \A I \in DOMAIN postAccess :
       /\ \A J \in Follow(I) : Handled(J)
       /\ Op(I) = "call" => Handled(getNextNode(I)) \/ stack = <<I>>
  /\ Handled(Start)
  /\ Start[1] = Callee => Unstarted \/ \A c \in CallsTo("call") : Handled(getNextNode(c))

WorklistInv == ProgramInv /\ EngineInv /\ CoverInv

(* What is handled stays handled: an entry is taken from the worklist to   *)
(* be visited, and a visit that stops is of an instruction already known.  *)
LEMMA HandledStays ==
  ASSUME ProgramInv, EngineInv, [WNext]_wvars, NEW J \in Instruction, Handled(J)
  PROVE  Handled(J)'
<1>1. J # Null
  BY InstructionFacts
<1>2. CASE Take
  <2>1. PICK e : Takes(e)
    BY <1>2, TakeFacts
  <2>2. QED
    BY <1>1, <2>1 DEF Takes, Handled, Pending, Known
<1>3. CASE WalkEnds
  <2>1. Known(next) /\ UNCHANGED <<todoList, postAccess>>
    BY <1>3 DEF WalkEnds, Stops
  <2>2. QED
    BY <2>1 DEF Handled, Pending, Known
<1>4. CASE Visit
  <2>1. PICK at \in Instruction, calls \in {<<>>, stack} : Visits(at, calls)
    BY <1>4, VisitFacts
  <2>2. at = next \/ Known(next)
    BY <2>1 DEF Visits, Walks, Stops
  <2>3. \A I : Known(I) \/ I = at => Known(I)'
    BY <2>1 DEF Visits, Known
  <2>4. Elements(todoList) \subseteq Elements(todoList')
    BY <2>1 DEF Visits
  <2>5. QED
    BY <2>2, <2>3, <2>4 DEF Handled, Pending
<1>5. CASE UNCHANGED wvars
  BY <1>5 DEF wvars, Handled, Pending, Known
<1>6. QED
  BY <1>2, <1>3, <1>4, <1>5 DEF WNext

(* A new goal is handled, and so is where the walk goes.                   *)
LEMMA GoalsAreHandled ==
  ASSUME NEW at, NEW calls, Visits(at, calls)
  PROVE  /\ \A J \in Goals(at, calls) : Handled(J)'
         /\ Handled(at)' /\ \A J : J = next' => Handled(J)'
<1>1. ASSUME NEW J \in Goals(at, calls)
      PROVE  \E e \in Elements(todoList') : e.start = J
  <2> DEFINE e == [start |-> J, initial |-> Transfer(Before, at), stack |-> calls]
  <2>1. e \in Elements(todoList') /\ e.start = J
    BY <1>1 DEF Visits
  <2>2. QED
    BY <2>1
<1>2. Known(at)'
  BY DEF Visits, Known
<1>3. QED
  BY <1>1, <1>2 DEF Handled, Pending

(* While nothing is analysed, nothing is known.                            *)
LEMMA UnstartedKnowsNothing == Unstarted => DOMAIN postAccess = {}
<1>1. SUFFICES ASSUME Unstarted PROVE DOMAIN postAccess = {}
  OBVIOUS
<1>2. postAccess = <<>>
  BY <1>1 DEF Unstarted
<1>3. QED
  BY <1>2, ListEmpty

(* The coverage holds initially.                                           *)
LEMMA CoverInit == WInit => WorklistInv
<1>1. SUFFICES ASSUME WInit PROVE WorklistInv
  OBVIOUS
<1>2. ProgramInv /\ Start \in Instruction
  BY <1>1, ProgramInit, StartFacts
<1> DEFINE e == [start |-> Start, initial |-> Initial, stack |-> <<>>]
<1>3. IsList(todoList) /\ Elements(todoList) = {e}
  BY <1>1, EngineInit
<1>4. next = Null /\ stack = <<>> /\ postAccess = <<>> /\ todoList = <<e>>
  BY <1>1 DEF WInit
<1>5. DOMAIN postAccess = {}
  BY <1>4, ListEmpty
<1>6. EngineInv
  BY <1>2, <1>3, <1>4, <1>5 DEF EngineInv
<1>7. Handled(Start)
  BY <1>3 DEF Handled, Pending
<1>8. Unstarted
  <2>1. todoList # <<>> /\ Head(todoList) = e
    BY <1>4
  <2>2. QED
    BY <1>4, <2>1 DEF Unstarted
<1>9. QED
  BY <1>2, <1>5, <1>6, <1>7, <1>8 DEF CoverInv, WorklistInv

(* What follows an instruction is an instruction.                          *)
LEMMA FollowFacts ==
  ASSUME ProgramInv, NEW I \in Instruction
  PROVE  Follow(I) \subseteq Instruction
<1>1. CASE Op(I) = "br"
  BY <1>1, BranchTargets DEF Follow
<1>2. CASE Op(I) = "call"
  BY <1>2 DEF Follow, ProgramInv, Instruction
<1>3. CASE Op(I) = "ret"
  BY <1>3 DEF Follow
<1>4. CASE Op(I) \notin {"br", "call", "ret"}
  BY <1>4, InstructionFacts DEF Follow
<1>5. QED
  BY <1>1, <1>2, <1>3, <1>4

(* Every step keeps the coverage.                                          *)
LEMMA CoverStep ==
  ASSUME WorklistInv, [WNext]_wvars
  PROVE  WorklistInv'
<1>1. ProgramInv /\ EngineInv /\ CoverInv
  BY DEF WorklistInv
<1>2. ProgramInv' /\ EngineInv'
  BY <1>1, ProgramFrozen, ProgramStep, EngineStep
<1>3. UNCHANGED program
  BY ProgramFrozen
<1>4. \A I : Op(I)' = Op(I) /\ Follow(I)' = Follow(I) /\ CallsTo("call")' = CallsTo("call")
  BY <1>3 DEF program, Op, CallsTo, Instruction, Follow
<1>5. Start' = Start
  BY <1>3 DEF program
<1>6. Handled(Start)'
  <2>1. Start \in Instruction /\ Handled(Start)
    BY <1>1, StartFacts DEF CoverInv
  <2>2. QED
    BY <1>1, <1>5, <2>1, HandledStays
<1>7. \A I \in DOMAIN postAccess :
        /\ \A J \in Follow(I) : Handled(J)'
        /\ Op(I) = "call" /\ Handled(getNextNode(I)) => Handled(getNextNode(I))'
  <2>1. SUFFICES ASSUME NEW I \in DOMAIN postAccess
                 PROVE  /\ \A J \in Follow(I) : Handled(J)'
                        /\ Op(I) = "call" /\ Handled(getNextNode(I)) => Handled(getNextNode(I))'
    OBVIOUS
  <2>2. I \in Instruction
    BY <1>1, <2>1 DEF EngineInv
  <2>3. ASSUME NEW J \in Instruction, Handled(J) PROVE Handled(J)'
    BY <1>1, <2>3, HandledStays
  <2>4. Follow(I) \subseteq Instruction /\ \A J \in Follow(I) : Handled(J)
    BY <1>1, <2>2, FollowFacts DEF CoverInv
  <2>5. Op(I) = "call" => getNextNode(I) \in Instruction
    BY <1>1, <2>2, InstructionFacts
  <2>6. QED
    BY <2>3, <2>4, <2>5
<1>8. ASSUME NEW c \in CallsTo("call"), Handled(getNextNode(c))
      PROVE  Handled(getNextNode(c))'
  <2>1. getNextNode(c) \in Instruction
    BY <1>1, InstructionFacts DEF CallsTo
  <2>2. QED
    BY <1>1, <1>8, <2>1, HandledStays
<1>9. CASE Take
  <2>1. PICK e : Takes(e)
    BY <1>1, <1>9, TakeFacts
  <2>2. next = Null /\ stack = <<>> /\ postAccess' = postAccess
    BY <1>1, <2>1 DEF Takes, EngineInv
  <2>3. Unstarted => Unstarted'
    <3>1. SUFFICES ASSUME Unstarted PROVE Unstarted'
      OBVIOUS
    <3>2. Start # Null
      BY <1>1, StartFacts, InstructionFacts
    <3>3. next' = Start /\ stack' = <<>> /\ postAccess' = <<>>
      BY <2>1, <2>2, <3>1, <3>2 DEF Unstarted, Takes
    <3>4. QED
      BY <1>5, <3>3 DEF Unstarted
  <2>4. \A I \in DOMAIN postAccess : stack # <<I>>
    BY <2>2
  <2>5. QED
    BY <1>1, <1>2, <1>4, <1>5, <1>6, <1>7, <1>8, <2>2, <2>3, <2>4 DEF CoverInv, WorklistInv
<1>10. CASE WalkEnds
  <2>1. Known(next) /\ stack = <<>> /\ UNCHANGED <<stack, postAccess>>
    BY <1>10 DEF WalkEnds, Stops
  <2>2. ~Unstarted
    BY <2>1, UnstartedKnowsNothing DEF Known
  <2>3. \A I \in DOMAIN postAccess : stack # <<I>>
    BY <2>1
  <2>4. QED
    BY <1>1, <1>2, <1>4, <1>5, <1>6, <1>7, <1>8, <2>1, <2>2, <2>3 DEF CoverInv, WorklistInv
<1>11. CASE Visit
  <2>1. PICK at \in Instruction, calls \in {<<>>, stack} : Visits(at, calls)
    BY <1>1, <1>11, VisitFacts
  <2>2. \A J : J \in Goals(at, calls) \/ J = next' => Handled(J)'
    BY <2>1, GoalsAreHandled
  <2>3. /\ \A J \in Follow(at) : J \in Goals(at, calls) \/ J = next'
        /\ Op(at) = "call" => stack' = <<at>>
    <3>1. CASE Op(at) = "br"
      BY <3>1 DEF Goals, Follow
    <3>2. CASE Op(at) = "call"
      <4>1. next' = <<Callee, 1>> /\ stack' = <<at>>
        BY <1>1, <2>1, <3>2, VisitCases
      <4>2. QED
        BY <3>2, <4>1 DEF Follow
    <3>3. CASE Op(at) = "ret"
      BY <3>3 DEF Follow
    <3>4. CASE Op(at) \notin {"br", "ret", "call"}
      <4>1. next' = getNextNode(at)
        BY <1>1, <2>1, <3>4, VisitCases
      <4>2. QED
        BY <3>4, <4>1 DEF Follow
    <3>5. QED
      BY <3>1, <3>2, <3>3, <3>4
  <2>4. ASSUME NEW I \in DOMAIN postAccess, Op(I) = "call", stack = <<I>>
        PROVE  Handled(getNextNode(I))' \/ stack' = <<I>>
    <3>1. CASE calls = <<>>
      <4>1. at = getNextNode(I) \/ (at = next /\ calls = stack)
        BY <2>1, <2>4 DEF Visits, Walks
      <4>2. at = getNextNode(I)
        BY <2>4, <3>1, <4>1
      <4>3. QED
        BY <2>1, <4>2, GoalsAreHandled
    <3>2. CASE calls # <<>>
      <4>1. calls = <<I>> /\ ~InMain(at)
        BY <1>1, <2>1, <2>4, <3>2, VisitCases
      <4>2. Op(at) # "call"
        BY <1>1, <4>1, InstructionFacts
      <4>3. CASE Op(at) \in {"br", "ret"}
        <5>1. next' = getNextNode(I)
          BY <1>1, <2>1, <4>1, <4>3, VisitCases
        <5>2. QED
          BY <2>2, <5>1
      <4>4. CASE Op(at) \notin {"br", "ret"}
        BY <1>1, <2>1, <4>1, <4>2, <4>4, VisitCases
      <4>5. QED
        BY <4>3, <4>4
    <3>3. QED
      BY <3>1, <3>2
  <2>5. ASSUME Start[1] = Callee, Unstarted, NEW c \in CallsTo("call")
        PROVE  Handled(getNextNode(c))'
    <3>1. next # Null /\ ~Known(next) /\ next = Start /\ stack = <<>>
      <4>1. next # Null
        BY <1>11 DEF Visit
      <4>2. QED
        BY <2>5, <4>1, UnstartedKnowsNothing DEF Unstarted, Known
    <3>2. at = Start /\ calls = <<>>
      BY <2>1, <3>1 DEF Visits, Walks, Stops
    <3>3. Op(at) = "ret" /\ ~InMain(at)
      BY <1>1, <2>5, <3>2, StartFacts DEF InMain
    <3>4. getNextNode(c) \in Goals(at, calls)
      BY <3>2, <3>3 DEF Goals
    <3>5. QED
      BY <2>2, <3>4
  <2>6. DOMAIN postAccess' = DOMAIN postAccess \cup {at}
    BY <2>1 DEF Visits
  <2>7. ASSUME NEW I \in DOMAIN postAccess'
        PROVE  /\ \A J \in Follow(I) : Handled(J)'
               /\ Op(I) = "call" => Handled(getNextNode(I))' \/ stack' = <<I>>
    <3>1. CASE I = at
      BY <2>2, <2>3, <3>1
    <3>2. CASE I \in DOMAIN postAccess
      <4>1. Op(I) = "call" => Handled(getNextNode(I)) \/ stack = <<I>>
        BY <1>1, <3>2 DEF CoverInv
      <4>2. QED
        BY <1>7, <2>4, <3>2, <4>1
    <3>3. QED
      BY <2>6, <3>1, <3>2
  <2>8. Start[1] = Callee => \A c \in CallsTo("call") : Handled(getNextNode(c))'
    BY <1>1, <1>8, <2>5 DEF CoverInv
  <2>9. CoverInv'
    BY <1>4, <1>5, <1>6, <2>7, <2>8 DEF CoverInv
  <2>10. QED
    BY <1>2, <2>9 DEF WorklistInv
<1>12. CASE UNCHANGED wvars
  BY <1>1, <1>2, <1>4, <1>5, <1>6, <1>7, <1>8, <1>12 DEF CoverInv, WorklistInv, wvars, Unstarted
<1>13. QED
  BY <1>9, <1>10, <1>11, <1>12 DEF WNext

(* The worklist invariant is one.                                          *)
LEMMA WorklistInvariant == WSpec => []WorklistInv
BY CoverInit, CoverStep, PTL DEF WSpec

(* The addresses that values of the program may hold.                      *)
MemoryType == [block : SUBSET IRValue, other : SUBSET IRValue]

(* An operation moves addresses between values of the program.             *)
LEMMA ExecuteType ==
  ASSUME NEW op, NEW mem \in MemoryType
  PROVE  Execute(op, mem) \in MemoryType
<1> DEFINE I == IR[op]
           Copied(held) == IF I.from \in held THEN held \cup {I.value} ELSE held \ {I.value}
<1>1. CASE op \in DOMAIN IR \ Uses
  <2>1. I.value \in IRValue
    BY <1>1 DEF IRValue
  <2>2. mem.block \subseteq IRValue /\ mem.other \subseteq IRValue
    BY DEF MemoryType
  <2>3. Copied(mem.block) \subseteq IRValue /\ Copied(mem.other) \subseteq IRValue
    BY <2>1, <2>2
  <2>4. [mem EXCEPT !.block = {I.value}] \in MemoryType /\ [mem EXCEPT !.block = {}] \in MemoryType
    BY <2>1, <2>2 DEF MemoryType
  <2>5. [block |-> mem.block \ {I.value}, other |-> mem.other \cup {I.value}] \in MemoryType
    BY <2>1, <2>2 DEF MemoryType
  <2>6. [block |-> Copied(mem.block), other |-> Copied(mem.other)] \in MemoryType
    BY <2>3 DEF MemoryType
  <2>7. Execute(op, mem) =
          CASE I.kind = "alloc" -> [mem EXCEPT !.block = {I.value}]
            [] I.kind = "free"  -> IF I.value \in mem.block THEN [mem EXCEPT !.block = {}] ELSE mem
            [] I.kind = "load" /\ I.from \in mem.block \cup mem.other ->
                 [block |-> mem.block \ {I.value}, other |-> mem.other \cup {I.value}]
            [] OTHER -> [block |-> Copied(mem.block), other |-> Copied(mem.other)]
    BY <1>1, Zenon DEF Execute
  <2> HIDE DEF Copied
  <2>8. QED
    BY <2>4, <2>5, <2>6, <2>7
<1>2. CASE op \notin DOMAIN IR \ Uses
  BY <1>2, Zenon DEF Execute
<1>3. QED
  BY <1>1, <1>2

(* A position is in an instruction and, inside of f, in the call it came   *)
(* from, if the execution did not start there.                             *)
Place == Instruction \X (CallsTo("call") \cup {Null}) \X MemoryType

(* Where an execution goes from a position.                                *)
LEMMA AfterFacts ==
  ASSUME ProgramInv, NEW pos \in Place
  PROVE  \E mem \in MemoryType :
           /\ Op(pos[1]) = "call" => After(pos) = {<<<<Callee, 1>>, pos[1], mem>>}
           /\ Op(pos[1]) = "ret" /\ InMain(pos[1]) => After(pos) = {}
           /\ Op(pos[1]) = "ret" /\ ~InMain(pos[1]) =>
                After(pos) = {<<getNextNode(c), Null, mem>> : c \in IF pos[2] # Null THEN {pos[2]} ELSE CallsTo("call")}
           /\ Op(pos[1]) = "br" => After(pos) = {<<J, pos[2], mem>> : J \in Follow(pos[1])}
           /\ Op(pos[1]) \notin {"br", "call", "ret"} => After(pos) = {<<J, pos[2], mem>> : J \in Follow(pos[1])}
<1> DEFINE I == pos[1]
           mem == Execute(Op(I), pos[3])
<1>1. I \in Instruction /\ mem \in MemoryType
  BY ExecuteType DEF Place
<1>2. Op(I) = "call" => After(pos) = {<<<<Callee, 1>>, I, mem>>}
  BY DEF After
<1>3. Op(I) = "ret" /\ InMain(I) => After(pos) = {}
  BY DEF After
<1>4. Op(I) = "ret" /\ ~InMain(I) =>
        After(pos) = {<<getNextNode(c), Null, mem>> : c \in IF pos[2] # Null THEN {pos[2]} ELSE CallsTo("call")}
  BY DEF After
<1>5. Op(I) = "br" => After(pos) = {<<J, pos[2], mem>> : J \in Follow(I)}
  <2>1. SUFFICES ASSUME Op(I) = "br" PROVE After(pos) = {<<J, pos[2], mem>> : J \in Follow(I)}
    OBVIOUS
  <2>2. After(pos) = {<<<<successors[I[1]][i], 1>>, pos[2], mem>> : i \in DOMAIN successors[I[1]]}
    BY <2>1, Zenon DEF After
  <2>3. Follow(I) = {<<successors[I[1]][i], 1>> : i \in DOMAIN successors[I[1]]}
    BY <2>1, Zenon DEF Follow
  <2> HIDE DEF mem
  <2>4. QED
    BY <2>2, <2>3
<1>6. Op(I) \notin {"br", "call", "ret"} => After(pos) = {<<J, pos[2], mem>> : J \in Follow(I)}
  BY DEF After, Follow
<1> HIDE DEF mem
<1>7. QED
  BY <1>1, <1>2, <1>3, <1>4, <1>5, <1>6

(* GenericWorklist: every instruction an execution reaches is analysed, in *)
(* every program, with loops, joins and calls of f from several places.    *)
THEOREM AllReachedAnalysed == WSpec => []Covers
<1>1. WorklistInv => Covers
  <2>1. SUFFICES ASSUME WorklistInv, WDone
                 PROVE  \A pos \in Reached({}) : Known(pos[1])
    BY DEF Covers
  <2>2. ProgramInv /\ EngineInv /\ CoverInv
    BY <2>1 DEF WorklistInv
  <2>3. next = Null /\ stack = <<>> /\ todoList = <<>> /\ Elements(todoList) = {}
    BY <2>1, <2>2, ListEmpty DEF WDone, EngineInv
  <2>4. ASSUME NEW J \in Instruction, Handled(J) PROVE Known(J)
    BY <2>2, <2>3, <2>4, InstructionFacts DEF Handled, Pending
  <2>5. ~Unstarted
    BY <2>2, <2>3, StartFacts, InstructionFacts DEF Unstarted
  <2> DEFINE S == {pos \in Place : /\ Known(pos[1])
                                   /\ pos[2] = Null /\ ~InMain(pos[1]) => Start[1] = Callee
                                   /\ pos[2] # Null => Known(pos[2]) /\ ~InMain(pos[1])}
  <2>6. First \subseteq S
    <3>1. Start \in Instruction /\ Handled(Start)
      BY <2>2, StartFacts DEF CoverInv
    <3>2. Known(Start)
      BY <2>4, <3>1
    <3>3. Memory \in MemoryType
      BY DEF Memory, MemoryType
    <3>4. QED
      BY <3>1, <3>2, <3>3 DEF First, Place, InMain
  <2>7. ASSUME NEW pos \in S
        PROVE  After(pos) \subseteq S
    <3> DEFINE I == pos[1]
    <3>1. I \in Instruction /\ pos \in Place /\ Known(I)
      BY DEF Place
    <3>2. PICK mem \in MemoryType :
           /\ Op(I) = "call" => After(pos) = {<<<<Callee, 1>>, I, mem>>}
           /\ Op(I) = "ret" /\ InMain(I) => After(pos) = {}
           /\ Op(I) = "ret" /\ ~InMain(I) =>
                After(pos) = {<<getNextNode(c), Null, mem>> : c \in IF pos[2] # Null THEN {pos[2]} ELSE CallsTo("call")}
           /\ Op(I) = "br" => After(pos) = {<<J, pos[2], mem>> : J \in Follow(I)}
           /\ Op(I) \notin {"br", "call", "ret"} => After(pos) = {<<J, pos[2], mem>> : J \in Follow(I)}
      BY <2>2, <3>1, AfterFacts
    <3>3. \A J \in Follow(I) : J \in Instruction /\ Known(J)
      BY <2>2, <2>4, <3>1, FollowFacts DEF CoverInv, Known
    <3>4. \A c \in CallsTo("call") : Known(c) \/ Start[1] = Callee => Known(getNextNode(c))
      <4>1. SUFFICES ASSUME NEW c \in CallsTo("call"), Known(c) \/ Start[1] = Callee
                     PROVE  Known(getNextNode(c))
        OBVIOUS
      <4>2. c \in Instruction /\ getNextNode(c) \in Instruction
        BY <2>2, InstructionFacts DEF CallsTo
      <4>3. Handled(getNextNode(c))
        BY <2>2, <2>3, <2>5, <4>1 DEF CoverInv, Known, CallsTo
      <4>4. QED
        BY <2>4, <4>2, <4>3
    <3>5. CASE Op(I) = "call"
      <4>1. <<Callee, 1>> \in Follow(I) /\ I \in CallsTo("call") /\ I # Null
        BY <2>2, <3>1, <3>5, InstructionFacts DEF Follow, CallsTo
      <4>2. <<<<Callee, 1>>, I, mem>> \in S
        BY <3>1, <3>3, <4>1 DEF Place, InMain
      <4>3. QED
        BY <3>2, <3>5, <4>2
    <3>6. CASE Op(I) = "ret" /\ ~InMain(I)
      <4>1. SUFFICES ASSUME NEW c \in IF pos[2] # Null THEN {pos[2]} ELSE CallsTo("call")
                     PROVE  <<getNextNode(c), Null, mem>> \in S
        BY <3>2, <3>6
      <4>2. c \in CallsTo("call") /\ (Known(c) \/ Start[1] = Callee)
        BY <3>1, <3>6, <4>1 DEF Place
      <4>3. getNextNode(c) \in Instruction /\ InMain(getNextNode(c))
        <5>1. c \in Instruction /\ InMain(c) /\ getNextNode(c) = <<c[1], 2>> /\ getNextNode(c) \in Instruction
          BY <2>2, <4>2, InstructionFacts DEF CallsTo
        <5>2. QED
          BY <5>1 DEF InMain
      <4>4. Known(getNextNode(c))
        BY <3>4, <4>2
      <4>5. QED
        BY <4>3, <4>4 DEF Place
    <3>7. CASE Op(I) = "br"
      <4>1. SUFFICES ASSUME NEW J \in Follow(I) PROVE <<J, pos[2], mem>> \in S
        BY <3>2, <3>7
      <4>2. InMain(I) /\ InMain(J)
        BY <2>2, <3>1, <3>7, InstructionFacts, BranchTargets DEF Follow, InMain
      <4>3. QED
        BY <3>1, <3>3, <4>2 DEF Place
    <3>8. CASE Op(I) \notin {"br", "call", "ret"}
      <4>1. SUFFICES ASSUME NEW J \in Follow(I) PROVE <<J, pos[2], mem>> \in S
        BY <3>2, <3>8
      <4>2. J[1] = I[1]
        BY <2>2, <3>1, <3>8, InstructionFacts DEF Follow
      <4>3. QED
        BY <3>1, <3>3, <4>2 DEF Place, InMain
    <3>9. QED
      BY <3>2, <3>5, <3>6, <3>7, <3>8
  <2> HIDE DEF S
  <2>8. Reached({}) \subseteq S
    BY <2>2, <2>6, <2>7, ReachedInduction
  <2>9. QED
    BY <2>8 DEF S
<1>2. QED
  BY <1>1, WorklistInvariant, PTL

-----------------------------------------------------------------------------
(* What a wave adds: all that follows the last one and is not seen yet.    *)
LEMMA FreshFacts ==
  ASSUME NEW Barrier, NEW R
  PROVE  /\ \A pos \in R.new : Op(pos[1]) \notin Barrier => After(pos) \subseteq R.seen \cup Fresh(Barrier, R)
         /\ \A x \in Fresh(Barrier, R) : x \notin R.seen
         /\ R.new = {} => Fresh(Barrier, R) = {}
<1> DEFINE N == {p \in R.new : Op(p[1]) \notin Barrier}
           A == {After(pos) : pos \in N}
<1>1. Fresh(Barrier, R) = (UNION A) \ R.seen
  BY DEF Fresh
<1>2. ASSUME NEW pos \in N
      PROVE  After(pos) \subseteq UNION A
  <2>1. After(pos) \in A
    OBVIOUS
  <2> HIDE DEF A
  <2>2. QED
    BY <2>1
<1>3. R.new = {} => UNION A = {}
  <2>1. R.new = {} => N = {}
    OBVIOUS
  <2> HIDE DEF N
  <2>2. QED
    BY <2>1
<1> HIDE DEF A
<1>4. QED
  BY <1>1, <1>2, <1>3

(* No false alarms.  Reached is closed: it has enough waves to reach every *)
(* position of a set of at most Horizon.                                   *)
LEMMA ReachedIsClosed ==
  ASSUME ProgramInv, NEW Barrier, NEW P, IsFiniteSet(P), Cardinality(P) <= Horizon, First \subseteq P,
         \A pos \in P : Op(pos[1]) \notin Barrier => After(pos) \subseteq P
  PROVE  /\ First \subseteq Reached(Barrier)
         /\ \A pos \in Reached(Barrier) : Op(pos[1]) \notin Barrier => After(pos) \subseteq Reached(Barrier)
<1> DEFINE W == Waves(Barrier)
<1>1. /\ W[0].seen = First /\ W[0].new = First
      /\ \A k \in Nat : k + 1 <= Horizon =>
           W[k + 1].new = Fresh(Barrier, W[k]) /\ W[k + 1].seen = W[k].seen \cup Fresh(Barrier, W[k])
  BY WaveByWave
<1>2. Reached(Barrier) = W[Horizon].seen /\ Horizon \in Nat
  BY ReachedIsWaves, HorizonIsNat
<1> HIDE DEF W
<1> DEFINE Inside(k) == First \subseteq W[k].seen /\ W[k].new \subseteq W[k].seen /\ W[k].seen \subseteq P
           Done(k) == \A pos \in W[k].seen \ W[k].new : Op(pos[1]) \notin Barrier => After(pos) \subseteq W[k].seen
           Grown(k) == W[k].new # {} => Cardinality(W[k].seen) >= k + 1
           Good == {k \in Nat : k <= Horizon => Inside(k) /\ Done(k) /\ Grown(k)}
<1>3. 0 \in Good
  <2>1. Inside(0) /\ Done(0)
    BY <1>1
  <2>2. IsFiniteSet(First) /\ Cardinality(First) = 1
    BY FS_Singleton DEF First
  <2>3. Grown(0)
    BY <1>1, <2>2
  <2>4. QED
    BY <2>1, <2>3
<1>4. ASSUME NEW k \in Nat, k \in Good
      PROVE  k + 1 \in Good
  <2>1. SUFFICES ASSUME k + 1 <= Horizon PROVE Inside(k + 1) /\ Done(k + 1) /\ Grown(k + 1)
    OBVIOUS
  <2>2. Inside(k) /\ Done(k) /\ Grown(k)
    BY <1>2, <1>4, <2>1
  <2>3. W[k + 1].new = Fresh(Barrier, W[k]) /\ W[k + 1].seen = W[k].seen \cup Fresh(Barrier, W[k])
    BY <1>1, <2>1
  <2>4. Fresh(Barrier, W[k]) \subseteq P
    BY <2>2 DEF Fresh
  <2>5. Inside(k + 1)
    BY <2>2, <2>3, <2>4
  <2>6. \A pos \in W[k].new : Op(pos[1]) \notin Barrier => After(pos) \subseteq W[k + 1].seen
    BY <2>3, FreshFacts
  <2>7. Done(k + 1)
    BY <2>2, <2>3, <2>6
  <2>8. Grown(k + 1)
    <3>1. SUFFICES ASSUME W[k + 1].new # {} PROVE Cardinality(W[k + 1].seen) >= k + 1 + 1
      OBVIOUS
    <3>2. PICK x \in W[k + 1].new : x \notin W[k].seen
      BY <2>3, <3>1, FreshFacts
    <3>3. W[k].new # {}
      BY <2>3, <3>1, FreshFacts
    <3>4. IsFiniteSet(W[k].seen) /\ IsFiniteSet(W[k + 1].seen)
      BY <2>2, <2>5, FS_Subset
    <3>5. Cardinality(W[k].seen \cup {x}) = Cardinality(W[k].seen) + 1
      BY <3>2, <3>4, FS_AddElement
    <3>6. W[k].seen \cup {x} \in SUBSET W[k + 1].seen
      BY <2>3, <3>2
    <3>7. Cardinality(W[k].seen \cup {x}) <= Cardinality(W[k + 1].seen)
      BY <3>4, <3>6, FS_Subset
    <3>8. Cardinality(W[k].seen) \in Nat /\ Cardinality(W[k + 1].seen) \in Nat
      BY <3>4, FS_CardinalityType
    <3>9. QED
      BY <2>2, <3>3, <3>5, <3>7, <3>8
  <2>9. QED
    BY <2>5, <2>7, <2>8
<1>5. Nat \subseteq Good
  <2> HIDE DEF Good
  <2>1. QED
    BY <1>3, <1>4, InductiveSet
<1>6. Inside(Horizon) /\ Done(Horizon) /\ Grown(Horizon)
  BY <1>2, <1>5
<1>7. W[Horizon].new = {}
  <2>1. Cardinality(W[Horizon].seen) <= Cardinality(P)
    BY <1>6, FS_Subset
  <2>2. IsFiniteSet(W[Horizon].seen)
    BY <1>6, FS_Subset
  <2>3. Cardinality(W[Horizon].seen) \in Nat /\ Cardinality(P) \in Nat
    BY <2>2, FS_CardinalityType
  <2>4. QED
    BY <1>2, <1>6, <2>1, <2>3
<1>8. QED
  BY <1>2, <1>6, <1>7

(* The instructions an execution may reach before the target call, in a    *)
(* program without calls of f: all that a set closed under Follow has to   *)
(* contain.                                                                *)
Closed(S) == Start \in S /\ \A I \in S : Op(I) # "target" => Follow(I) \subseteq S
OnPath(I) == \A S \in SUBSET Instruction : Closed(S) => I \in S

(* The start is on a path, and so is what follows an instruction on one.   *)
LEMMA OnPathFacts ==
  /\ OnPath(Start)
  /\ \A I : OnPath(I) /\ Op(I) # "target" => \A J \in Follow(I) : OnPath(J)
BY DEF OnPath, Closed

(* What is on a path is reached.                                           *)
LEMMA OnPathIsReached ==
  ASSUME ProgramInv, CallFree, analysis # "Alloc", NEW I, OnPath(I)
  PROVE  I \in Instruction /\ \E pos \in Reached({"target"}) : pos[1] = I
<1> DEFINE at(J) == <<J, Null, Memory>>
           P == {at(J) : J \in Instruction}
           S == {J \in Instruction : at(J) \in Reached({"target"})}
<1>1. \A J \in Instruction : Follow(J) \subseteq Instruction
  BY FollowFacts
<1>2. ASSUME NEW J \in Instruction
      PROVE  After(at(J)) = {at(K) : K \in Follow(J)}
  <2>1. Execute(Op(J), Memory) = Memory
    <3>1. Op(J) \notin DOMAIN IR
      <4>1. J[2] = 1 => Op(J) = body[J[1]]
        BY DEF Op
      <4>2. J[1] \in DOMAIN body /\ (Op(J) \in {"br", "ret"} <=> J[2] = 2) /\ J[2] \in {1, 2}
        BY InstructionFacts
      <4>3. QED
        BY <4>1, <4>2, BodyAssumption DEF ProgramInv
    <3>2. QED
      BY <3>1, Zenon DEF Execute
  <2>2. Op(J) # "call"
    BY DEF CallFree, CallsTo
  <2>3. CallsTo("call") = {}
    BY DEF CallFree
  <2>4. at(J)[1] = J /\ at(J)[2] = Null /\ at(J)[3] = Memory
    OBVIOUS
  <2> HIDE DEF at
  <2>5. CASE Op(J) = "br"
    <3>1. After(at(J)) = {<<<<successors[J[1]][i], 1>>, Null, Memory>> : i \in DOMAIN successors[J[1]]}
      BY <2>1, <2>4, <2>5, Zenon DEF After
    <3>2. Follow(J) = {<<successors[J[1]][i], 1>> : i \in DOMAIN successors[J[1]]}
      BY <2>5, Zenon DEF Follow
    <3>3. QED
      BY <3>1, <3>2 DEF at
  <2>6. CASE Op(J) = "ret"
    <3>1. Follow(J) = {}
      BY <2>6 DEF Follow
    <3>2. After(at(J)) = {}
      BY <2>3, <2>4, <2>6 DEF After
    <3>3. QED
      BY <3>1, <3>2
  <2>7. CASE Op(J) \notin {"br", "ret", "call"}
    <3>1. After(at(J)) = {<<getNextNode(J), Null, Memory>>}
      BY <2>1, <2>4, <2>7 DEF After
    <3>2. Follow(J) = {getNextNode(J)}
      BY <2>7 DEF Follow
    <3>3. QED
      BY <3>1, <3>2 DEF at
  <2>8. QED
    BY <2>2, <2>5, <2>6, <2>7
<1>3. IsFiniteSet(P) /\ Cardinality(P) <= Horizon
  <2>1. P = {<<J, Null, Memory>> : J \in Instruction}
    OBVIOUS
  <2> DEFINE f == [pos \in P |-> pos[1]]
  <2>2. f \in Injection(P, Instruction)
    BY DEF Injection, IsInjective
  <2>3. IsFiniteSet(P) /\ Cardinality(P) <= Cardinality(Instruction)
    <3> HIDE DEF P, f
    <3>1. QED
      BY <2>2, HorizonIsNat, FS_Injection
  <2>4. Cardinality(P) \in Nat
    BY <2>3, FS_CardinalityType
  <2>5. QED
    BY <2>3, <2>4, HorizonIsNat DEF Horizon
<1>4. First \subseteq P
  BY StartFacts DEF First
<1>5. \A pos \in P : After(pos) \subseteq P
  BY <1>1, <1>2
<1>6. /\ First \subseteq Reached({"target"})
      /\ \A pos \in Reached({"target"}) : Op(pos[1]) \notin {"target"} => After(pos) \subseteq Reached({"target"})
  <2> HIDE DEF P
  <2>1. QED
    BY <1>3, <1>4, <1>5, ReachedIsClosed
<1>7. Closed(S)
  <2>1. Start \in S
    BY <1>6, StartFacts DEF First
  <2>2. ASSUME NEW J \in S, Op(J) # "target", NEW K \in Follow(J)
        PROVE  K \in S
    <3>1. at(J) \in Reached({"target"}) /\ at(J)[1] = J
      OBVIOUS
    <3>2. After(at(J)) \subseteq Reached({"target"})
      BY <1>6, <2>2, <3>1
    <3>3. at(K) \in After(at(J)) /\ K \in Instruction
      BY <1>1, <1>2, <2>2
    <3>4. QED
      BY <3>2, <3>3
  <2>3. QED
    BY <2>1, <2>2 DEF Closed
<1>8. I \in S
  BY <1>7 DEF OnPath
<1>9. at(I) \in Reached({"target"}) /\ at(I)[1] = I
  BY <1>8
<1>10. QED
  BY <1>8, <1>9

(* An execution breaks the contract: the formal goal of the analyses of    *)
(* calls, in a program without calls of f.                                 *)
Alarm == \E I \in Instruction : OnPath(I) /\ Critical(I)

(* An alarm is a bad path.                                                 *)
LEMMA AlarmIsBadPath == ProgramInv /\ CallFree /\ analysis # "Alloc" /\ Alarm => BadPath
<1>1. SUFFICES ASSUME ProgramInv, CallFree, analysis # "Alloc", Alarm PROVE BadPath
  OBVIOUS
<1>2. PICK I \in Instruction : OnPath(I) /\ Critical(I)
  BY <1>1 DEF Alarm
<1>3. \E pos \in Reached({"target"}) : pos[1] = I
  BY <1>1, <1>2, OnPathIsReached
<1>4. QED
  BY <1>1, <1>2, <1>3 DEF BadPath

(* Information that reaches I is sound if it is open only on a path, and   *)
(* worse than open only when there is an alarm; behind I, not even I is    *)
(* the target call.                                                        *)
Sound(I, info) ==
  /\ info.val \in 0..3
  /\ info.val = Level.open => OnPath(I)
  /\ info.val > Level.open => Alarm
  /\ analysis = "PreCall" => info.val # 1
SoundBehind(I, info) == Sound(I, info) /\ (info.val = Level.open => Op(I) # "target")

(* The levels of the verifiers.                                            *)
LEMMA LevelFacts ==
  /\ analysis \in {"PreCall", "PreCallParams"} =>
       Level.good = 0 /\ Level.paramcheck = 1 /\ Level.open = 2 /\ Level.error = 3
  /\ analysis = "PostCall" => Level.good = 0 /\ Level.open = 1
  /\ analysis = "Release" => Level.good = 0 /\ Level.open = 1 /\ Level.unfulfilled = 2 /\ Level.error = 3
BY DEF Level

(* The transfer functions keep information sound.                          *)
LEMMA TransferIsSound ==
  ASSUME analysis \in {"PreCall", "PostCall", "Release"}, NEW I \in Instruction, NEW cur, Sound(I, cur)
  PROVE  SoundBehind(I, Transfer(cur, I))
<1>1. CASE analysis = "PreCall"
  <2>1. Level.good = 0 /\ Level.paramcheck = 1 /\ Level.open = 2 /\ Level.error = 3
    BY <1>1, LevelFacts
  <2>2. Transfer(cur, I) = transferPreCallStat(cur, I)
    BY <1>1 DEF Transfer
  <2>3. cur.val \in {0, 2, 3}
    BY <1>1 DEF Sound
  <2>4. CASE cur.val \in {0, 3}
    <3>1. transferPreCallStat(cur, I) = cur
      BY <2>1, <2>4, Zenon DEF transferPreCallStat
    <3>2. QED
      BY <2>1, <2>2, <2>4, <3>1 DEF SoundBehind
  <2>5. CASE cur.val = 2 /\ Op(I) \in {"target", "mismatch"}
    <3>1. transferPreCallStat(cur, I).val = 0
      BY <1>1, <2>1, <2>5 DEF transferPreCallStat, Info
    <3>2. QED
      BY <1>1, <2>1, <2>2, <3>1 DEF SoundBehind, Sound
  <2>6. CASE cur.val = 2 /\ Op(I) = "supplier"
    <3>1. transferPreCallStat(cur, I).val = 3
      BY <1>1, <2>1, <2>6 DEF transferPreCallStat, Info
    <3>2. OnPath(I) /\ Critical(I)
      BY <1>1, <2>1, <2>6 DEF Sound, Critical
    <3>3. QED
      BY <1>1, <2>1, <2>2, <3>1, <3>2 DEF SoundBehind, Sound, Alarm
  <2>7. CASE cur.val = 2 /\ Op(I) \notin {"target", "mismatch", "supplier"}
    <3>1. transferPreCallStat(cur, I) = cur
      BY <1>1, <2>1, <2>7 DEF transferPreCallStat, Info
    <3>2. QED
      BY <2>2, <2>7, <3>1 DEF SoundBehind
  <2>8. QED
    BY <2>3, <2>4, <2>5, <2>6, <2>7
<1>2. CASE analysis = "PostCall"
  <2>1. Level.good = 0 /\ Level.open = 1
    BY <1>2, LevelFacts
  <2>2. Transfer(cur, I) = IF Op(I) = "target" THEN Info(0, {}) ELSE cur
    BY <1>2, <2>1 DEF Transfer, transferPostCallStat
  <2>3. CASE Op(I) = "target"
    <3>1. Transfer(cur, I).val = 0
      BY <2>2, <2>3 DEF Info
    <3>2. QED
      BY <1>2, <2>1, <3>1 DEF SoundBehind, Sound
  <2>4. CASE Op(I) # "target"
    BY <2>2, <2>4 DEF SoundBehind
  <2>5. QED
    BY <2>3, <2>4
<1>3. CASE analysis = "Release"
  <2>1. Level.good = 0 /\ Level.open = 1 /\ Level.unfulfilled = 2
    BY <1>3, LevelFacts
  <2>2. Transfer(cur, I) = transferRelease(cur, I)
    BY <1>3 DEF Transfer
  <2>3. CASE cur.val # 1
    <3>1. cur.val # Level.open
      BY <2>1, <2>3
    <3>2. transferRelease(cur, I) = cur
      BY <3>1, Zenon DEF transferRelease
    <3>3. QED
      BY <2>1, <2>2, <2>3, <3>2 DEF SoundBehind
  <2>4. CASE cur.val = 1 /\ Op(I) = "target"
    <3>1. transferRelease(cur, I).val = 0
      BY <2>1, <2>4 DEF transferRelease, Info
    <3>2. QED
      BY <1>3, <2>1, <2>2, <3>1 DEF SoundBehind, Sound
  <2>5. CASE cur.val = 1 /\ Op(I) = "forbid"
    <3>1. transferRelease(cur, I).val = 2
      BY <2>1, <2>5 DEF transferRelease, Info
    <3>2. OnPath(I) /\ Critical(I)
      BY <1>3, <2>1, <2>5 DEF Sound, Critical
    <3>3. QED
      BY <1>3, <2>1, <2>2, <3>1, <3>2 DEF SoundBehind, Sound, Alarm
  <2>6. CASE cur.val = 1 /\ Op(I) \notin {"target", "forbid"}
    <3>1. transferRelease(cur, I) = cur
      BY <2>1, <2>6, Zenon DEF transferRelease
    <3>2. QED
      BY <2>2, <2>6, <3>1 DEF SoundBehind
  <2>7. QED
    BY <2>3, <2>4, <2>5, <2>6
<1>4. QED
  BY <1>1, <1>2, <1>3

(* So does merging.                                                        *)
LEMMA WorseIsSound ==
  ASSUME NEW I, NEW prev, NEW cur, Sound(I, prev), Sound(I, cur)
  PROVE  Sound(I, Worse(prev, cur))
<1>1. Worse(prev, cur).val = IF prev.val > cur.val THEN prev.val ELSE cur.val
  BY DEF Worse, Info
<1>2. Worse(prev, cur).val = prev.val \/ Worse(prev, cur).val = cur.val
  BY <1>1
<1>3. QED
  BY <1>2 DEF Sound

(* Sound information stays sound on the way to what follows.               *)
LEMMA SoundOnwards ==
  ASSUME NEW I, NEW info, SoundBehind(I, info), NEW J \in Follow(I)
  PROVE  Sound(J, info)
BY OnPathFacts DEF SoundBehind, Sound

(* All information of the engine is sound.                                 *)
SoundInv ==
  analysis \in {"PreCall", "PostCall", "Release"} /\ CallFree =>
    /\ \A e \in Elements(todoList) : Sound(e.start, e.initial)
    /\ next # Null => Sound(next, prevInfo)
    /\ \A I \in DOMAIN postAccess : SoundBehind(I, postAccess[I])

(* In a program without calls of f a walk visits what it is at, goes on to *)
(* what follows, and queues what follows.                                  *)
LEMMA CallFreeVisits ==
  ASSUME ProgramInv, EngineInv, CallFree, NEW at \in Instruction, NEW calls, Visits(at, calls)
  PROVE  /\ ~Stops /\ at = next /\ calls = <<>>
         /\ next' # Null => next' \in Follow(at)
         /\ Goals(at, calls) \subseteq Follow(at)
<1>1. stack = <<>> /\ CallsTo("call") = {}
  BY DEF EngineInv, CallFree
<1>2. ~Stops /\ at = next /\ calls = <<>>
  BY <1>1 DEF Visits, Walks
<1>3. Op(at) # "call"
  BY <1>1 DEF CallsTo
<1>4. Op(at) \in {"br", "ret"} => next' = Null
  BY <1>2, VisitCases
<1>5. Op(at) \notin {"br", "ret", "call"} => next' = getNextNode(at) /\ Goals(at, calls) = {}
  BY VisitCases
<1>6. Op(at) = "ret" => Goals(at, calls) = {}
  BY <1>1 DEF Goals
<1>7. Op(at) = "br" => Goals(at, calls) = Follow(at)
  BY DEF Goals, Follow
<1>8. Op(at) \notin {"br", "ret", "call"} => Follow(at) = {getNextNode(at)}
  BY DEF Follow
<1>9. QED
  BY <1>2, <1>3, <1>4, <1>5, <1>6, <1>7, <1>8


(* What is said of the program stays as it is.                             *)
LEMMA AlarmFrozen ==
  ASSUME UNCHANGED program
  PROVE  /\ analysis' = analysis /\ Instruction' = Instruction /\ (Alarm' <=> Alarm) /\ (CallFree' <=> CallFree)
         /\ \A I, info : Sound(I, info)' <=> Sound(I, info)
         /\ \A I, info : SoundBehind(I, info)' <=> SoundBehind(I, info)
<1>1. analysis' = analysis /\ successors' = successors /\ body' = body /\ Start' = Start
  BY DEF program
<1>2. Instruction' = Instruction /\ Level' = Level /\ \A I : Op(I)' = Op(I)
  BY <1>1 DEF Instruction, Level, Op
<1>3. \A I : Follow(I)' = Follow(I)
  BY <1>1, <1>2 DEF Follow
<1>4. \A I : OnPath(I)' <=> OnPath(I)
  BY <1>1, <1>2, <1>3 DEF OnPath, Closed
<1>5. \A I : Critical(I)' <=> Critical(I)
  BY <1>1, <1>2 DEF Critical, InMain
<1>6. Alarm' <=> Alarm
  BY <1>2, <1>4, <1>5 DEF Alarm
<1>7. CallFree' <=> CallFree
  BY <1>2 DEF CallFree, CallsTo
<1>8. \A I, info : Sound(I, info)' <=> Sound(I, info)
  BY <1>1, <1>2, <1>4, <1>6 DEF Sound
<1>9. \A I, info : SoundBehind(I, info)' <=> SoundBehind(I, info)
  BY <1>2, <1>8 DEF SoundBehind
<1>10. QED
  BY <1>1, <1>2, <1>6, <1>7, <1>8, <1>9

(* The first information is sound at the start.                            *)
LEMMA SoundInit == WInit => SoundInv
<1>1. SUFFICES ASSUME WInit, analysis \in {"PreCall", "PostCall", "Release"}
               PROVE  /\ \A e \in Elements(todoList) : Sound(e.start, e.initial)
                      /\ next # Null => Sound(next, prevInfo)
                      /\ \A I \in DOMAIN postAccess : SoundBehind(I, postAccess[I])
  BY DEF SoundInv
<1>2. next = Null /\ postAccess = <<>>
  BY <1>1 DEF WInit
<1>3. Initial.val = Level.open
  BY <1>1 DEF Initial, Info
<1>4. Level.open \in {1, 2} /\ (analysis = "PreCall" => Level.open = 2)
  BY <1>1, LevelFacts
<1>5. Sound(Start, Initial)
  BY <1>3, <1>4, OnPathFacts DEF Sound
<1>6. DOMAIN postAccess = {}
  BY <1>2, ListEmpty
<1>7. QED
  BY <1>1, <1>2, <1>5, <1>6, EngineInit

(* Every step keeps the information sound.                                 *)
LEMMA SoundStep ==
  ASSUME ProgramInv, EngineInv, SoundInv, [WNext]_wvars
  PROVE  SoundInv'
<1>1. SUFFICES ASSUME analysis \in {"PreCall", "PostCall", "Release"}, CallFree
               PROVE  /\ \A e \in Elements(todoList') : Sound(e.start, e.initial)
                      /\ \A I : I = next' /\ I # Null => \A info : info = prevInfo' => Sound(I, info)
                      /\ \A I \in DOMAIN postAccess' : \A info : info = postAccess'[I] => SoundBehind(I, info)
  <2>1. UNCHANGED program
    BY ProgramFrozen
  <2>2. QED
    BY <1>1, <2>1, AlarmFrozen DEF SoundInv
<1>2. /\ \A e \in Elements(todoList) : Sound(e.start, e.initial)
      /\ next # Null => Sound(next, prevInfo)
      /\ \A I \in DOMAIN postAccess : SoundBehind(I, postAccess[I])
  BY <1>1 DEF SoundInv
<1>3. CASE Take
  <2>1. PICK e : Takes(e)
    BY <1>3, TakeFacts
  <2>2. QED
    BY <1>2, <2>1 DEF Takes
<1>4. CASE WalkEnds
  BY <1>2, <1>4 DEF WalkEnds
<1>5. CASE Visit
  <2>1. PICK at \in Instruction, calls \in {<<>>, stack} : Visits(at, calls)
    BY <1>5, VisitFacts
  <2>2. /\ ~Stops /\ at = next
        /\ next' # Null => next' \in Follow(at)
        /\ Goals(at, calls) \subseteq Follow(at)
    BY <1>1, <2>1, CallFreeVisits
  <2>3. at # Null
    BY InstructionFacts
  <2>4. Sound(at, Before)
    <3>1. Sound(at, prevInfo)
      BY <1>2, <2>2, <2>3
    <3>2. Known(at) => Sound(at, postAccess[at])
      BY <1>2 DEF Known, SoundBehind
    <3>3. QED
      BY <2>2, <3>1, <3>2, WorseIsSound DEF Before
  <2> DEFINE after == Transfer(Before, at)
  <2>5. SoundBehind(at, after)
    BY <1>1, <2>4, TransferIsSound
  <2> HIDE DEF after
  <2>6. \A J \in Follow(at) : Sound(J, after)
    BY <2>5, SoundOnwards
  <2>7. /\ DOMAIN postAccess' = DOMAIN postAccess \cup {at} /\ postAccess'[at] = after
        /\ \A I \in DOMAIN postAccess \ {at} : postAccess'[I] = postAccess[I]
        /\ prevInfo' = after
        /\ Elements(todoList') = Elements(todoList)
             \cup {[start |-> J, initial |-> after, stack |-> calls] : J \in Goals(at, calls)}
    BY <2>1 DEF Visits, after
  <2>8. QED
    BY <1>2, <2>2, <2>5, <2>6, <2>7
<1>6. CASE UNCHANGED wvars
  BY <1>2, <1>6 DEF wvars
<1>7. QED
  BY <1>3, <1>4, <1>5, <1>6 DEF WNext

-----------------------------------------------------------------------------
(* PreCallParams.  Its level is no order of severity alone: a call whose   *)
(* parameters do not match is remembered, to be judged at the supplier.    *)
(* Merging forgets candidates, so a remembered level is strict, true of    *)
(* some path, only where a walk comes for the first time; a walk that      *)
(* comes again keeps the level and ends at the terminator of the block.    *)
Matching(info) == \E c \in info.candidate : Op(c) = "target"
Strict(I, info) ==
  /\ info.val \in 0..3
  /\ info.val = 2 \/ (info.val = 1 /\ ~Matching(info)) => OnPath(I)
  /\ info.val = 3 => Alarm
Settled(I, info) ==
  /\ info.val \in 0..3
  /\ info.val = 3 => Alarm
  /\ Op(I) = "supplier" => info.val \in {0, 3}
  /\ Op(I) \in {"target", "mismatch"} => info.val # 2

(* The information of PreCallParams, along the worklist and in each block. *)
BlockInv(b) ==
  /\ Known(<<b, 1>>) => \/ Known(<<b, 2>>) /\ postAccess[<<b, 2>>].val = postAccess[<<b, 1>>].val
                        \/ next = <<b, 2>> /\ ~Known(<<b, 2>>)
  /\ Known(<<b, 2>>) => Known(<<b, 1>>)
  /\ next = <<b, 2>> => Known(<<b, 1>>) /\ prevInfo.val = postAccess[<<b, 1>>].val
ParamsInv ==
  analysis = "PreCallParams" /\ CallFree =>
    /\ \A e \in Elements(todoList) : e.start[2] = 1 /\ Strict(e.start, e.initial)
    /\ next # Null => prevInfo.val \in 0..3 /\ (~Known(next) => Strict(next, prevInfo))
    /\ \A I \in DOMAIN postAccess : Settled(I, postAccess[I])
    /\ \A b \in DOMAIN body : BlockInv(b)

(* Its transfer function keeps strict information strict.                  *)
LEMMA TransferIsStrict ==
  ASSUME analysis = "PreCallParams", NEW I \in Instruction, NEW cur, Strict(I, cur)
  PROVE  /\ Settled(I, Transfer(cur, I))
         /\ \A J \in Follow(I) : Strict(J, Transfer(cur, I))
<1>1. Level.good = 0 /\ Level.paramcheck = 1 /\ Level.open = 2 /\ Level.error = 3
  BY LevelFacts
<1> DEFINE after == transferPreCallStat(cur, I)
           found == Op(I) \in {"target", "mismatch"}
<1>2. Transfer(cur, I) = after
  BY DEF Transfer
<1>3. OnPath(I) /\ Op(I) # "target" => \A J \in Follow(I) : OnPath(J)
  BY OnPathFacts
<1>4. cur.val \in 0..3 /\ (cur.val = 3 => Alarm) /\ (cur.val = 2 \/ (cur.val = 1 /\ ~Matching(cur)) => OnPath(I))
  BY DEF Strict
<1>5. CASE cur.val \in {0, 3}
  <2>1. after = cur
    BY <1>1, <1>5, Zenon DEF transferPreCallStat
  <2>2. QED
    BY <1>2, <1>4, <1>5, <2>1 DEF Settled, Strict
<1>6. CASE cur.val \in {1, 2} /\ found
  <2>1. after = Info(1, cur.candidate \cup {I})
    <3>1. cur.val \notin {Level.good, Level.error}
      BY <1>1, <1>6
    <3>2. QED
      BY <1>1, <1>6, <3>1, Zenon DEF transferPreCallStat
  <2>2. after.val = 1 /\ after.candidate = cur.candidate \cup {I}
    BY <2>1 DEF Info
  <2> HIDE DEF after
  <2>3. ~Matching(after) => Op(I) # "target" /\ ~Matching(cur)
    BY <2>2 DEF Matching
  <2>4. ~Matching(after) => \A J \in Follow(I) : OnPath(J)
    BY <1>3, <1>4, <1>6, <2>3
  <2>5. Settled(I, after)
    BY <1>6, <2>2 DEF Settled
  <2>6. \A J \in Follow(I) : Strict(J, after)
    BY <2>2, <2>4 DEF Strict
  <2>7. QED
    BY <1>2, <2>5, <2>6
<1>7. CASE cur.val \in {1, 2} /\ Op(I) = "supplier"
  <2>1. cur.val \notin {Level.good, Level.error} /\ ~found
    BY <1>1, <1>7
  <2>2. CASE cur.val = 1 /\ Matching(cur)
    <3>1. after.val = 0
      BY <1>1, <1>7, <2>1, <2>2 DEF transferPreCallStat, Matching, Info
    <3>2. QED
      BY <1>2, <1>7, <3>1 DEF Settled, Strict
  <2>3. CASE cur.val = 2 \/ ~Matching(cur)
    <3>1. after.val = 3
      BY <1>1, <1>7, <2>1, <2>3 DEF transferPreCallStat, Matching, Info
    <3>2. OnPath(I) /\ Critical(I)
      BY <1>4, <1>7, <2>3 DEF Critical
    <3>3. Alarm
      BY <3>2 DEF Alarm
    <3>4. QED
      BY <1>2, <1>7, <3>1, <3>3 DEF Settled, Strict
  <2>4. QED
    BY <1>7, <2>2, <2>3
<1>8. CASE cur.val \in {1, 2} /\ ~found /\ Op(I) # "supplier"
  <2>1. after = cur
    <3>1. cur.val \notin {Level.good, Level.error}
      BY <1>1, <1>8
    <3>2. QED
      BY <1>8, <3>1, Zenon DEF transferPreCallStat
  <2>2. QED
    BY <1>2, <1>3, <1>4, <1>8, <2>1 DEF Settled, Strict
<1>9. QED
  BY <1>4, <1>5, <1>6, <1>7, <1>8


(* Settled information whose level is not good keeps its level.            *)
LEMMA SettledStays ==
  ASSUME analysis = "PreCallParams", NEW I \in Instruction, NEW cur, Settled(I, cur), cur.val # 0
  PROVE  Transfer(cur, I).val = cur.val
<1>1. Level.good = 0 /\ Level.paramcheck = 1 /\ Level.open = 2 /\ Level.error = 3
  BY LevelFacts
<1>2. Transfer(cur, I) = transferPreCallStat(cur, I)
  BY DEF Transfer
<1>3. cur.val \in {1, 2, 3}
  BY DEF Settled
<1>4. CASE cur.val = 3
  <2>1. transferPreCallStat(cur, I) = cur
    BY <1>1, <1>4, Zenon DEF transferPreCallStat
  <2>2. QED
    BY <1>2, <2>1
<1>5. CASE cur.val \in {1, 2} /\ Op(I) \in {"target", "mismatch"}
  <2>1. cur.val = 1
    BY <1>5 DEF Settled
  <2>2. transferPreCallStat(cur, I) = Info(1, cur.candidate \cup {I})
    <3>1. cur.val \notin {Level.good, Level.error}
      BY <1>1, <2>1
    <3>2. QED
      BY <1>1, <1>5, <3>1, Zenon DEF transferPreCallStat
  <2>3. QED
    BY <1>2, <2>1, <2>2 DEF Info
<1>6. CASE cur.val \in {1, 2} /\ Op(I) \notin {"target", "mismatch"}
  <2>1. Op(I) # "supplier"
    BY <1>6 DEF Settled
  <2>2. transferPreCallStat(cur, I) = cur
    <3>1. cur.val \notin {Level.good, Level.error}
      BY <1>1, <1>6
    <3>2. QED
      BY <1>6, <2>1, <3>1, Zenon DEF transferPreCallStat
  <2>3. QED
    BY <1>2, <2>2
<1>7. QED
  BY <1>3, <1>4, <1>5, <1>6

(* A terminator changes nothing, and is no operation of the analysis.      *)
LEMMA TerminatorKeeps ==
  ASSUME ProgramInv, analysis = "PreCallParams", NEW I \in Instruction, I[2] = 2, NEW cur
  PROVE  Transfer(cur, I) = cur
<1>1. Op(I) \in {"br", "ret"}
  BY DEF Op
<1>2. transferPreCallStat(cur, I) = cur
  BY <1>1, Zenon DEF transferPreCallStat
<1>3. QED
  BY <1>2 DEF Transfer

(* More of what is said of the program stays as it is.                     *)
LEMMA StrictFrozen ==
  ASSUME UNCHANGED program
  PROVE  /\ \A I, info : Strict(I, info)' <=> Strict(I, info)
         /\ \A I, info : Settled(I, info)' <=> Settled(I, info)
<1>1. successors' = successors /\ body' = body
  BY DEF program
<1>2. \A I : Op(I)' = Op(I)
  BY <1>1 DEF Op
<1>3. \A I : OnPath(I)' <=> OnPath(I)
  <2>1. Instruction' = Instruction /\ Start' = Start /\ \A I : Follow(I)' = Follow(I)
    BY <1>1, <1>2 DEF Instruction, Follow, program
  <2>2. QED
    BY <1>2, <2>1 DEF OnPath, Closed
<1>4. \A info : Matching(info)' <=> Matching(info)
  BY <1>2 DEF Matching
<1>5. Alarm' <=> Alarm
  BY AlarmFrozen
<1>6. \A I, info : Strict(I, info)' <=> Strict(I, info)
  BY <1>3, <1>4, <1>5 DEF Strict
<1>7. \A I, info : Settled(I, info)' <=> Settled(I, info)
  BY <1>2, <1>5 DEF Settled
<1>8. QED
  BY <1>6, <1>7

(* The first information of PreCallParams.                                 *)
LEMMA ParamsInit == WInit => ParamsInv
<1>1. SUFFICES ASSUME WInit, analysis = "PreCallParams"
               PROVE  /\ \A e \in Elements(todoList) : e.start[2] = 1 /\ Strict(e.start, e.initial)
                      /\ next # Null => prevInfo.val \in 0..3 /\ (~Known(next) => Strict(next, prevInfo))
                      /\ \A I \in DOMAIN postAccess : Settled(I, postAccess[I])
                      /\ \A b \in DOMAIN body : BlockInv(b)
  BY DEF ParamsInv
<1>2. next = Null /\ postAccess = <<>>
  BY <1>1 DEF WInit
<1>3. Initial.val = 2
  BY <1>1, LevelFacts DEF Initial, Info
<1>4. Strict(Start, Initial)
  BY <1>3, OnPathFacts DEF Strict
<1>5. Start[2] = 1
  <2>1. Start = <<Entry, 1>>
    BY <1>1, ProgramInit DEF ProgramInv, Starts
  <2>2. QED
    BY <2>1
<1>6. DOMAIN postAccess = {}
  BY <1>2, ListEmpty
<1>7. \A b : <<b, 2>> # Null
  BY DEF Null
<1>8. \A b \in DOMAIN body : BlockInv(b)
  BY <1>2, <1>6, <1>7 DEF BlockInv, Known
<1>9. QED
  BY <1>1, <1>2, <1>4, <1>5, <1>6, <1>8, EngineInit


(* Every step keeps the information of PreCallParams as it has to be.      *)
LEMMA ParamsStep ==
  ASSUME ProgramInv, EngineInv, ParamsInv, [WNext]_wvars
  PROVE  ParamsInv'
<1>1. UNCHANGED program /\ body' = body /\ analysis' = analysis /\ (CallFree' <=> CallFree)
  BY ProgramFrozen, AlarmFrozen DEF program
<1>2. SUFFICES ASSUME analysis = "PreCallParams", CallFree
               PROVE  /\ \A e \in Elements(todoList') : e.start[2] = 1 /\ Strict(e.start, e.initial)
                      /\ \A I : I = next' /\ I # Null => prevInfo'.val \in 0..3
                           /\ (I \notin DOMAIN postAccess' => \A info : info = prevInfo' => Strict(I, info))
                      /\ \A I \in DOMAIN postAccess' : \A info : info = postAccess'[I] => Settled(I, info)
                      /\ \A b \in DOMAIN body : BlockInv(b)'
  BY <1>1, StrictFrozen DEF ParamsInv, Known
<1>3. /\ \A e \in Elements(todoList) : e.start[2] = 1 /\ Strict(e.start, e.initial)
      /\ next # Null => prevInfo.val \in 0..3 /\ (~Known(next) => Strict(next, prevInfo))
      /\ \A I \in DOMAIN postAccess : Settled(I, postAccess[I])
      /\ \A b \in DOMAIN body : BlockInv(b)
  BY <1>2 DEF ParamsInv
<1>4. \A b : <<b, 1>> # Null /\ <<b, 2>> # Null /\ <<b, 1>> # <<b, 2>>
  BY DEF Null
<1>5. CASE Take
  <2>1. PICK e : Takes(e)
    BY <1>5, TakeFacts
  <2>2. next = Null /\ next' = e.start /\ prevInfo' = e.initial /\ UNCHANGED postAccess
        /\ e \in Elements(todoList) /\ Elements(todoList') \subseteq Elements(todoList)
    BY <2>1 DEF Takes
  <2>3. e.start[2] = 1 /\ Strict(e.start, e.initial)
    BY <1>3, <2>2
  <2>4. ASSUME NEW b \in DOMAIN body PROVE BlockInv(b)'
    <3>1. BlockInv(b)
      BY <1>3
    <3>2. e.start # <<b, 2>>
      BY <2>3
    <3>3. QED
      BY <1>4, <2>2, <3>1, <3>2 DEF BlockInv, Known
  <2>5. prevInfo'.val \in 0..3
    BY <2>2, <2>3 DEF Strict
  <2>6. QED
    BY <1>3, <2>2, <2>3, <2>4, <2>5
<1>6. CASE WalkEnds
  <2>1. next' = Null /\ Known(next) /\ UNCHANGED <<todoList, prevInfo, postAccess>>
    BY <1>6 DEF WalkEnds, Stops
  <2>2. ASSUME NEW b \in DOMAIN body PROVE BlockInv(b)'
    <3>1. BlockInv(b)
      BY <1>3
    <3>2. QED
      BY <1>4, <2>1, <3>1 DEF BlockInv, Known
  <2>3. QED
    BY <1>3, <2>1, <2>2
<1>7. CASE Visit
  <2>1. PICK at \in Instruction, calls \in {<<>>, stack} : Visits(at, calls)
    BY <1>7, VisitFacts
  <2>2. /\ ~Stops /\ at = next /\ calls = <<>>
        /\ next' # Null => next' \in Follow(at)
        /\ Goals(at, calls) \subseteq Follow(at)
    BY <1>2, <2>1, CallFreeVisits
  <2>3. at # Null /\ at[1] \in DOMAIN body /\ at = <<at[1], at[2]>> /\ at[2] \in {1, 2}
    BY InstructionFacts DEF Instruction
  <2> DEFINE after == Transfer(Before, at)
  <2>4. /\ DOMAIN postAccess' = DOMAIN postAccess \cup {at} /\ postAccess'[at] = after
        /\ \A I \in DOMAIN postAccess \ {at} : postAccess'[I] = postAccess[I]
        /\ prevInfo' = after
        /\ Elements(todoList') = Elements(todoList)
             \cup {[start |-> J, initial |-> after, stack |-> calls] : J \in Goals(at, calls)}
    BY <2>1 DEF Visits
  <2>5. Op(at) # "call"
    BY <1>2 DEF CallFree, CallsTo
  <2>6. at[2] = 1 => next' = <<at[1], 2>> /\ Goals(at, calls) = {}
    <3>1. at[2] = 1 => Op(at) \notin {"br", "ret"} /\ getNextNode(at) = <<at[1], 2>>
      BY <2>3, InstructionFacts DEF getNextNode
    <3>2. QED
      BY <2>1, <2>5, <3>1, VisitCases
  <2>7. at[2] = 2 => next' = Null
    <3>1. at[2] = 2 => Op(at) \in {"br", "ret"}
      BY DEF Op
    <3>2. QED
      BY <2>1, <2>2, <3>1, VisitCases
  <2>8. \A J \in Goals(at, calls) : J[2] = 1
    <3>1. at[2] = 2 => Follow(at) \subseteq {<<b, 1>> : b \in DOMAIN body}
      <4>1. CASE at[2] = 2 /\ Op(at) = "br"
        <5>1. \A i \in DOMAIN successors[at[1]] : <<successors[at[1]][i], 1>> \in Instruction
          BY BranchTargets
        <5>2. \A i \in DOMAIN successors[at[1]] : successors[at[1]][i] \in DOMAIN body
          BY <5>1 DEF Instruction
        <5>3. QED
          BY <4>1, <5>2 DEF Follow
      <4>2. CASE at[2] = 2 /\ Op(at) # "br"
        BY <4>2 DEF Follow, Op
      <4>3. QED
        BY <4>1, <4>2
    <3>2. QED
      BY <2>2, <2>3, <2>6, <3>1
  <2>9. Known(at) => at[2] = 1 /\ after.val = postAccess[at].val /\ postAccess[at].val # 0
        /\ postAccess[at].val \in 0..3
    <3>1. SUFFICES ASSUME Known(at)
                   PROVE  at[2] = 1 /\ after.val = postAccess[at].val /\ postAccess[at].val # 0
                          /\ postAccess[at].val \in 0..3
      OBVIOUS
    <3>2. Before = Worse(prevInfo, postAccess[at]) /\ Before.val > prevInfo.val
      BY <2>2, <3>1 DEF Before, Stops, GoesOn
    <3>3. prevInfo.val \in 0..3 /\ Settled(at, postAccess[at])
      BY <1>3, <2>2, <2>3, <3>1 DEF Known
    <3>4. postAccess[at].val \in 0..3
      BY <3>3 DEF Settled
    <3>5. Before.val = IF prevInfo.val > postAccess[at].val THEN prevInfo.val ELSE postAccess[at].val
      BY <3>2 DEF Worse, Info
    <3>6. Before.val = postAccess[at].val /\ postAccess[at].val > prevInfo.val
      BY <3>2, <3>3, <3>4, <3>5
    <3>7. Settled(at, Before) /\ Before.val # 0
      BY <3>3, <3>4, <3>6 DEF Settled
    <3>8. after.val = Before.val
      BY <1>2, <3>7, SettledStays
    <3>9. at[2] # 2
      <4>1. SUFFICES ASSUME at[2] = 2 PROVE FALSE
        OBVIOUS
      <4>2. BlockInv(at[1]) /\ next = <<at[1], 2>>
        BY <1>3, <2>2, <2>3, <4>1
      <4>3. prevInfo.val = postAccess[at].val
        BY <2>2, <3>1, <4>2 DEF BlockInv
      <4>4. QED
        BY <3>3, <3>6, <4>3
    <3>10. QED
      BY <2>3, <3>4, <3>6, <3>7, <3>8, <3>9
  <2>10. ~Known(at) => Settled(at, after) /\ \A J \in Follow(at) : Strict(J, after)
    <3>1. ~Known(at) => Before = prevInfo /\ Strict(at, prevInfo)
      BY <1>3, <2>2, <2>3 DEF Before
    <3>2. QED
      BY <1>2, <3>1, TransferIsStrict
  <2>11. Settled(at, after)
    <3>1. CASE Known(at)
      <4>1. Settled(at, postAccess[at])
        BY <1>3, <3>1 DEF Known
      <4>2. QED
        BY <2>9, <3>1, <4>1 DEF Settled
    <3>2. QED
      BY <2>10, <3>1
  <2>12. at[2] = 2 => after = prevInfo
    BY <1>2, <2>2, <2>9, TerminatorKeeps DEF Before
  <2> HIDE DEF after
  <2>13. \A e \in Elements(todoList') : e.start[2] = 1 /\ Strict(e.start, e.initial)
    <3>1. ASSUME NEW J \in Goals(at, calls) PROVE J[2] = 1 /\ Strict(J, after)
      BY <2>2, <2>3, <2>6, <2>8, <2>9, <2>10
    <3>2. QED
      BY <1>3, <2>4, <3>1
  <2>14. \A I \in DOMAIN postAccess' : \A info : info = postAccess'[I] => Settled(I, info)
    BY <1>3, <2>4, <2>11
  <2>15. ASSUME NEW b \in DOMAIN body PROVE BlockInv(b)'
    <3>1. BlockInv(b) /\ BlockInv(at[1])
      BY <1>3, <2>3
    <3>2. \A I \in DOMAIN postAccess : I # at => I \in DOMAIN postAccess' /\ postAccess'[I] = postAccess[I]
      BY <2>4
    <3>3. at \in DOMAIN postAccess' /\ \A I \in DOMAIN postAccess' : I = at \/ I \in DOMAIN postAccess
      BY <2>4
    <3>4. CASE b # at[1]
      <4>1. next' # <<b, 2>> /\ at # <<b, 1>> /\ at # <<b, 2>>
        BY <1>4, <2>3, <2>6, <2>7, <3>4
      <4>2. next # <<b, 2>>
        BY <2>2, <4>1
      <4>3. QED
        BY <3>1, <3>2, <3>3, <4>1, <4>2 DEF BlockInv, Known
    <3>5. CASE b = at[1] /\ at[2] = 1
      <4>1. at = <<b, 1>> /\ next' = <<b, 2>> /\ next # <<b, 2>> /\ at # <<b, 2>>
        BY <1>4, <2>2, <2>3, <2>6, <3>5
      <4>2. prevInfo' = postAccess'[<<b, 1>>]
        BY <2>4, <4>1
      <4>3. <<b, 2>> \in DOMAIN postAccess' => <<b, 2>> \in DOMAIN postAccess /\ postAccess'[<<b, 2>>] = postAccess[<<b, 2>>]
        BY <3>2, <3>3, <4>1
      <4>4. <<b, 2>> \in DOMAIN postAccess => postAccess'[<<b, 1>>].val = postAccess[<<b, 2>>].val
        BY <2>4, <2>9, <3>1, <4>1 DEF BlockInv, Known
      <4>5. QED
        BY <3>3, <4>1, <4>2, <4>3, <4>4 DEF BlockInv, Known
    <3>6. CASE b = at[1] /\ at[2] = 2
      <4>1. at = <<b, 2>> /\ next = <<b, 2>> /\ next' = Null /\ at # <<b, 1>>
        BY <1>4, <2>2, <2>3, <2>7, <3>6
      <4>2. <<b, 1>> \in DOMAIN postAccess /\ prevInfo.val = postAccess[<<b, 1>>].val
        BY <3>1, <4>1 DEF BlockInv, Known
      <4>3. postAccess'[<<b, 2>>].val = postAccess'[<<b, 1>>].val
        BY <2>4, <2>12, <3>2, <3>6, <4>1, <4>2
      <4>4. QED
        BY <1>4, <3>2, <3>3, <4>1, <4>2, <4>3 DEF BlockInv, Known
    <3>7. QED
      BY <2>3, <3>4, <3>5, <3>6
  <2>16. ASSUME next' # Null
         PROVE  prevInfo'.val \in 0..3 /\ \A I : I = next' /\ I \notin DOMAIN postAccess' => Strict(I, after)
    <3>1. next' \in Follow(at) /\ at[2] = 1 /\ next' = <<at[1], 2>>
      BY <2>2, <2>3, <2>6, <2>7, <2>16
    <3>2. after.val \in 0..3
      BY <2>11 DEF Settled
    <3>3. Known(at) => next' \in DOMAIN postAccess'
      <4>1. Known(at) => <<at[1], 2>> \in DOMAIN postAccess
        <5>1. BlockInv(at[1])
          BY <1>3, <2>3
        <5>2. next # <<at[1], 2>> /\ at = <<at[1], 1>>
          BY <1>4, <2>2, <2>3, <3>1
        <5>3. QED
          BY <5>1, <5>2 DEF BlockInv, Known
      <4>2. QED
        BY <2>4, <3>1, <4>1
    <3>4. QED
      BY <2>4, <2>10, <3>1, <3>2, <3>3
  <2>17. QED
    BY <2>4, <2>13, <2>14, <2>15, <2>16
<1>8. CASE UNCHANGED wvars
  <2>1. UNCHANGED <<todoList, next, prevInfo, postAccess>>
    BY <1>8 DEF wvars
  <2>2. \A b \in DOMAIN body : BlockInv(b)'
    BY <1>3, <2>1 DEF BlockInv, Known
  <2>3. QED
    BY <1>3, <2>1, <2>2 DEF Known
<1>9. QED
  BY <1>5, <1>6, <1>7, <1>8 DEF WNext


(* The verifiers of calls: what the engine knows is sound, always.         *)
LEMMA AlarmInvariant == WSpec => [](WorklistInv /\ SoundInv /\ ParamsInv)
<1>1. WInit => WorklistInv /\ SoundInv /\ ParamsInv
  BY CoverInit, SoundInit, ParamsInit
<1>2. (WorklistInv /\ SoundInv /\ ParamsInv) /\ [WNext]_wvars => (WorklistInv /\ SoundInv /\ ParamsInv)'
  <2>1. SUFFICES ASSUME WorklistInv, SoundInv, ParamsInv, [WNext]_wvars
                 PROVE  (WorklistInv /\ SoundInv /\ ParamsInv)'
    OBVIOUS
  <2>2. ProgramInv /\ EngineInv
    BY <2>1 DEF WorklistInv
  <2>3. WorklistInv'
    BY <2>1, CoverStep
  <2>4. SoundInv' /\ ParamsInv'
    BY <2>1, <2>2, SoundStep, ParamsStep
  <2>5. QED
    BY <2>3, <2>4
<1>3. QED
  BY <1>1, <1>2, PTL DEF WSpec

(* No false alarm: in a program without calls of f, what a verifier of     *)
(* calls concludes from its information (checkPreCall, checkPostCall,      *)
(* checkRelease) is so on an execution, when the analysis is done.         *)
THEOREM NoFalseAlarmOfCalls == WSpec => [](analysis # "Alloc" => NoFalseAlarm)
<1>1. WorklistInv /\ SoundInv /\ ParamsInv => (analysis # "Alloc" => NoFalseAlarm)
  <2>1. SUFFICES ASSUME WorklistInv, SoundInv, ParamsInv, analysis # "Alloc", CallFree, Broken
                 PROVE  BadPath
    BY DEF NoFalseAlarm
  <2>2. ProgramInv /\ analysis \in {"PreCall", "PreCallParams", "PostCall", "Release"}
    BY <2>1, BodyAssumption DEF WorklistInv, ProgramInv
  <2>3. DOMAIN postAccess \subseteq Instruction
    BY <2>1 DEF WorklistInv, EngineInv
  <2>4. Alarm
    <3>1. CASE analysis = "PreCall"
      <4>1. PICK I \in CallsTo("supplier") : Known(I) /\ postAccess[I].val = Level.error
        BY <2>1, <3>1 DEF Broken, checkPreCall
      <4>2. Sound(I, postAccess[I])
        BY <2>1, <3>1, <4>1 DEF SoundInv, SoundBehind, Known
      <4>3. QED
        BY <3>1, <4>1, <4>2, LevelFacts DEF Sound
    <3>2. CASE analysis = "PreCallParams"
      <4>1. PICK I \in CallsTo("supplier") : Known(I) /\ postAccess[I].val = Level.error
        BY <2>1, <3>2 DEF Broken, checkPreCall
      <4>2. Settled(I, postAccess[I])
        BY <2>1, <3>2, <4>1 DEF ParamsInv, Known
      <4>3. QED
        BY <3>2, <4>1, <4>2, LevelFacts DEF Settled
    <3>3. CASE analysis = "PostCall"
      <4>1. PICK I \in CallsTo("ret") : InMain(I) /\ Known(I) /\ postAccess[I].val = Level.open
        BY <2>1, <3>3 DEF Broken, checkPostCall
      <4>2. Sound(I, postAccess[I])
        BY <2>1, <3>3, <4>1 DEF SoundInv, SoundBehind, Known
      <4>3. OnPath(I) /\ I \in Instruction /\ Op(I) = "ret"
        BY <4>1, <4>2 DEF Sound, CallsTo
      <4>4. QED
        BY <3>3, <4>1, <4>3 DEF Alarm, Critical
    <3>4. CASE analysis = "Release"
      <4>1. PICK I \in Instruction : Known(I) /\ postAccess[I].val >= Level.unfulfilled
        BY <2>1, <3>4 DEF Broken, checkRelease
      <4>2. Sound(I, postAccess[I])
        BY <2>1, <3>4, <4>1 DEF SoundInv, SoundBehind, Known
      <4>3. postAccess[I].val > Level.open
        BY <3>4, <4>1, <4>2, LevelFacts DEF Sound
      <4>4. QED
        BY <4>2, <4>3 DEF Sound
    <3>5. QED
      BY <2>2, <3>1, <3>2, <3>3, <3>4
  <2>5. QED
    BY <2>1, <2>2, <2>4, AlarmIsBadPath
<1>2. QED
  BY <1>1, AlarmInvariant, PTL

-----------------------------------------------------------------------------
(* The other half, for programs without branches and calls of f: what an   *)
(* execution breaks is found.  Only joins lose information, and here the   *)
(* one join is that of a loop, which is reached from outside first.        *)
CallsMatch == analysis = "PreCall" => CallsTo("mismatch") = {}   \* no parameters to compare
Line == analysis # "Alloc" /\ CallFree /\ StraightLine /\ CallsMatch
PreCalls == {"PreCall", "PreCallParams"}

(* Information says that the target call is missing; behind a critical     *)
(* instruction, that the contract is broken.                               *)
Ranged(info) == info.val \in IF analysis = "PostCall" THEN 0..1 ELSE 0..3
Missing(info) == info.val # 0 /\ (analysis \in PreCalls => info.val = 3 \/ ~Matching(info))
Caught(I, info) ==
  /\ Missing(info)
  /\ Critical(I) /\ analysis = "Release" => info.val >= 2
  /\ Critical(I) /\ analysis \in PreCalls => info.val = 3

(* Information on a path without the target call, where it comes first to  *)
(* an instruction not known yet, and where it leaves one.                  *)
Arrives(I, info, known) == Ranged(info) /\ (OnPath(I) /\ I \notin known => Missing(info))
Leaves(I, info) == Ranged(info) /\ (OnPath(I) /\ Op(I) # "target" => Caught(I, info))
LineInv ==
  Line =>
    /\ todoList = <<>> \/ (next = Null /\ \E e : todoList = <<e>>)
    /\ \A e \in Elements(todoList) : Arrives(e.start, e.initial, DOMAIN postAccess)
    /\ next # Null => Arrives(next, prevInfo, DOMAIN postAccess)
    /\ \A I \in DOMAIN postAccess : Leaves(I, postAccess[I])

(* The verifiers of calls are four.                                        *)
LEMMA FourVerifiers ==
  ASSUME ProgramInv, analysis # "Alloc"
  PROVE  analysis \in PreCalls \cup {"PostCall", "Release"}
BY BodyAssumption DEF ProgramInv, PreCalls

(* No transfer function but that of the target call finds a match.         *)
LEMMA TransferCatches ==
  ASSUME ProgramInv, Line, NEW I \in Instruction, NEW cur, Ranged(cur)
  PROVE  Ranged(Transfer(cur, I)) /\ (Missing(cur) /\ Op(I) # "target" => Caught(I, Transfer(cur, I)))
<1>1. CASE analysis \in PreCalls
  <2>1. Level.good = 0 /\ Level.paramcheck = 1 /\ Level.open = 2 /\ Level.error = 3
    BY <1>1, LevelFacts DEF PreCalls
  <2>2. Transfer(cur, I) = transferPreCallStat(cur, I)
    BY <1>1 DEF Transfer, PreCalls
  <2>3. cur.val \in 0..3 /\ (Critical(I) <=> Op(I) = "supplier")
    BY <1>1 DEF Ranged, Critical, PreCalls
  <2>4. CASE cur.val \in {0, 3}
    <3>1. transferPreCallStat(cur, I) = cur
      BY <2>1, <2>4, Zenon DEF transferPreCallStat
    <3>2. QED
      BY <1>1, <2>2, <2>4, <3>1 DEF Caught, Missing, PreCalls
  <2>5. CASE cur.val \in {1, 2} /\ Op(I) \in {"target", "mismatch"}
    <3>1. CASE analysis = "PreCall"
      <4>1. transferPreCallStat(cur, I).val = 0
        BY <2>1, <2>5, <3>1 DEF transferPreCallStat, Info
      <4>2. Op(I) # "mismatch"
        BY <3>1 DEF Line, CallsMatch, CallsTo
      <4>3. QED
        BY <2>2, <2>5, <3>1, <4>1, <4>2 DEF Ranged
    <3>2. CASE analysis = "PreCallParams"
      <4>1. transferPreCallStat(cur, I) = Info(1, cur.candidate \cup {I})
        BY <2>1, <2>5, <3>2 DEF transferPreCallStat
      <4>2. transferPreCallStat(cur, I).val = 1 /\ transferPreCallStat(cur, I).candidate = cur.candidate \cup {I}
        BY <4>1 DEF Info
      <4>3. Missing(cur) /\ Op(I) # "target" => ~Matching(transferPreCallStat(cur, I))
        BY <1>1, <2>5, <4>2 DEF Missing, Matching
      <4>4. QED
        BY <2>2, <2>3, <2>5, <3>2, <4>2, <4>3 DEF Ranged, Caught, Missing
    <3>3. QED
      BY <1>1, <3>1, <3>2 DEF PreCalls
  <2>6. CASE cur.val \in {1, 2} /\ Op(I) = "supplier"
    <3>1. transferPreCallStat(cur, I).val \in {0, 3}
      BY <2>1, <2>6 DEF transferPreCallStat, Info
    <3>2. Missing(cur) => transferPreCallStat(cur, I).val = 3
      BY <1>1, <2>1, <2>6 DEF transferPreCallStat, Info, Missing, Matching
    <3>3. QED
      BY <1>1, <2>2, <3>1, <3>2 DEF Ranged, Caught, Missing, PreCalls
  <2>7. CASE Op(I) \notin {"target", "mismatch", "supplier"}
    <3>1. transferPreCallStat(cur, I) = cur
      BY <2>7, Zenon DEF transferPreCallStat
    <3>2. QED
      BY <1>1, <2>2, <2>3, <2>7, <3>1 DEF Caught, PreCalls
  <2>8. QED
    BY <2>3, <2>4, <2>5, <2>6, <2>7
<1>2. CASE analysis = "PostCall"
  <2>1. Level.good = 0 /\ Level.open = 1
    BY <1>2, LevelFacts
  <2>2. Transfer(cur, I) = IF Op(I) = "target" THEN Info(0, {}) ELSE cur
    BY <1>2, <2>1 DEF Transfer, transferPostCallStat
  <2>3. Op(I) = "target" => Transfer(cur, I).val = 0
    BY <2>2 DEF Info
  <2>4. Op(I) # "target" => Transfer(cur, I) = cur
    BY <2>2
  <2>5. QED
    BY <1>2, <2>3, <2>4 DEF Ranged, Caught, PreCalls
<1>3. CASE analysis = "Release"
  <2>1. Level.good = 0 /\ Level.open = 1 /\ Level.unfulfilled = 2
    BY <1>3, LevelFacts
  <2>2. Transfer(cur, I) = transferRelease(cur, I)
    BY <1>3 DEF Transfer
  <2>3. cur.val \in 0..3 /\ (Critical(I) <=> Op(I) = "forbid")
    BY <1>3 DEF Ranged, Critical
  <2>4. CASE cur.val # 1
    <3>1. cur.val # Level.open
      BY <2>1, <2>4
    <3>2. transferRelease(cur, I) = cur
      BY <3>1, Zenon DEF transferRelease
    <3>3. QED
      BY <1>3, <2>2, <2>3, <2>4, <3>2 DEF Caught, Missing, PreCalls
  <2>5. CASE cur.val = 1 /\ Op(I) = "target"
    <3>1. transferRelease(cur, I).val = 0
      BY <2>1, <2>5 DEF transferRelease, Info
    <3>2. QED
      BY <1>3, <2>2, <2>5, <3>1 DEF Ranged
  <2>6. CASE cur.val = 1 /\ Op(I) = "forbid"
    <3>1. transferRelease(cur, I).val = 2
      BY <2>1, <2>6 DEF transferRelease, Info
    <3>2. QED
      BY <1>3, <2>2, <3>1 DEF Ranged, Caught, Missing, PreCalls
  <2>7. CASE cur.val = 1 /\ Op(I) \notin {"target", "forbid"}
    <3>1. transferRelease(cur, I) = cur
      BY <2>1, <2>7, Zenon DEF transferRelease
    <3>2. QED
      BY <1>3, <2>2, <2>3, <2>7, <3>1 DEF Caught, PreCalls
  <2>8. QED
    BY <2>4, <2>5, <2>6, <2>7
<1>4. QED
  BY <1>1, <1>2, <1>3, FourVerifiers DEF Line

(* What arrives a second time makes no missing call good.                  *)
LEMMA WorseCatches ==
  ASSUME ProgramInv, Line, NEW prev, NEW cur, Ranged(prev), Ranged(cur)
  PROVE  Ranged(Worse(prev, cur)) /\ (Missing(cur) => Missing(Worse(prev, cur)))
<1>1. /\ Worse(prev, cur).val = IF prev.val > cur.val THEN prev.val ELSE cur.val
      /\ Worse(prev, cur).candidate = prev.candidate \cap cur.candidate
  BY DEF Worse, Info, Line
<1>2. prev.val \in 0..3 /\ cur.val \in 0..3
  BY DEF Ranged
<1>3. Ranged(Worse(prev, cur))
  BY <1>1 DEF Ranged
<1>4. cur.val # 0 => Worse(prev, cur).val # 0
  BY <1>1, <1>2
<1>5. cur.val = 3 => Worse(prev, cur).val = 3
  BY <1>1, <1>2
<1>6. ~Matching(cur) => ~Matching(Worse(prev, cur))
  BY <1>1 DEF Matching
<1>7. QED
  BY <1>3, <1>4, <1>5, <1>6 DEF Missing

(* Whatever a path leads to is known or pending, unless the path is left   *)
(* at an instruction that is pending itself.                               *)
LEMMA PathsAreKnown ==
  ASSUME ProgramInv, EngineInv, CoverInv, CallFree, NEW X \in SUBSET Instruction,
         DOMAIN postAccess \subseteq X, \A J \in Instruction : Pending(J) => J \in X,
         \A K \in X : Known(K) \/ ~OnPath(K) \/ Op(K) = "target",
         NEW J, OnPath(J)
  PROVE  J \in X
<1> DEFINE S == {K \in X : OnPath(K)}
<1>1. \A K \in Instruction : Handled(K) => K \in X
  BY DEF Handled, Known
<1>2. Start \in S
  BY <1>1, StartFacts, OnPathFacts DEF CoverInv
<1>3. ASSUME NEW K \in S, Op(K) # "target", NEW F \in Follow(K)
      PROVE  F \in S
  <2>1. Known(K) /\ K \in Instruction
    BY <1>3
  <2>2. Handled(F) /\ F \in Instruction
    BY <1>3, <2>1, FollowFacts DEF CoverInv, Known
  <2>3. QED
    BY <1>1, <1>3, <2>2, OnPathFacts
<1>4. Closed(S)
  BY <1>2, <1>3 DEF Closed
<1>5. QED
  BY <1>4 DEF OnPath

(* A visit in such a program leaves at most one entry in the worklist.     *)
LEMMA OneEntry ==
  ASSUME ProgramInv, EngineInv, Line, Visit, todoList = <<>>
  PROVE  todoList' = <<>> \/ (next' = Null /\ \E e : todoList' = <<e>>)
<1>1. PICK at \in Instruction, calls \in {<<>>, stack} : Visits(at, calls)
  BY VisitFacts
<1>2. ~Stops /\ at = next /\ calls = <<>> /\ stack = <<>> /\ CallsTo("call") = {}
  BY <1>1, CallFreeVisits DEF Line, EngineInv, CallFree
<1> DEFINE after == Transfer(Before, next)
<1>3. PICK q \in Queued(next, stack) :
        todoList' = todoList \o [i \in DOMAIN q |-> [start |-> q[i], initial |-> after, stack |-> stack]]
  BY <1>2 DEF Visit, Before
<1>4. CASE Op(next) = "br"
  <2>1. next' = Null
    BY <1>1, <1>2, <1>4, VisitCases
  <2>2. successors[next[1]] \in Seq(DOMAIN body \ {Callee, Entry}) /\ Len(successors[next[1]]) <= 1
    BY <1>2, InstructionFacts DEF Line, StraightLine, ProgramInv
  <2>3. successors[next[1]] # <<>>
    BY <1>2, <1>4, InstructionFacts
  <2>4. DOMAIN successors[next[1]] = 1..1
    BY <2>2, <2>3
  <2>5. q = [i \in 1..1 |-> <<successors[next[1]][i], 1>>]
    BY <1>4, <2>4 DEF Queued, Branches
  <2> DEFINE e == [start |-> <<successors[next[1]][1], 1>>, initial |-> after, stack |-> stack]
  <2>6. [i \in DOMAIN q |-> [start |-> q[i], initial |-> after, stack |-> stack]] = [i \in 1..1 |-> e]
    <3>1. DOMAIN q = 1..1 /\ \A i \in 1..1 : q[i] = <<successors[next[1]][1], 1>>
      BY <2>5
    <3> HIDE DEF after
    <3>2. QED
      BY <3>1
  <2> HIDE DEF e
  <2>7. [i \in 1..1 |-> e] = <<e>>
    OBVIOUS
  <2>8. todoList' = <<>> \o <<e>>
    BY <1>3, <2>6, <2>7
  <2>9. <<>> \o <<e>> = <<e>>
    OBVIOUS
  <2>10. QED
    BY <2>1, <2>8, <2>9
<1>5. CASE Op(next) # "br"
  <2>1. q = <<>>
    <3>1. Goals(next, stack) = {} /\ IsList(q) /\ Elements(q) = Goals(next, stack)
      BY <1>2, <1>5, QueuedAreGoals DEF Goals
    <3>2. q # <<>> => Head(q) \in Elements(q)
      BY <3>1, ListHead
    <3>3. QED
      BY <3>1, <3>2
  <2>2. [i \in DOMAIN q |-> [start |-> q[i], initial |-> after, stack |-> stack]] = <<>>
    BY <2>1
  <2>3. <<>> \o <<>> = <<>>
    OBVIOUS
  <2>4. QED
    BY <1>3, <2>2, <2>3
<1>6. QED
  BY <1>4, <1>5

(* What is said of the program stays as it is.                             *)
LEMMA LineFrozen ==
  ASSUME UNCHANGED program
  PROVE  /\ Line' <=> Line
         /\ \A I, info, known : Arrives(I, info, known)' <=> Arrives(I, info, known)
         /\ \A I, info : Leaves(I, info)' <=> Leaves(I, info)
<1>1. analysis' = analysis /\ successors' = successors /\ body' = body /\ Start' = Start
  BY DEF program
<1>2. Instruction' = Instruction /\ \A I : Op(I)' = Op(I)
  BY <1>1 DEF Instruction, Op
<1>3. \A I : Follow(I)' = Follow(I)
  BY <1>1, <1>2 DEF Follow
<1>4. \A I : OnPath(I)' <=> OnPath(I)
  BY <1>1, <1>2, <1>3 DEF OnPath, Closed
<1>5. \A I : Critical(I)' <=> Critical(I)
  BY <1>1, <1>2 DEF Critical, InMain
<1>6. Line' <=> Line
  BY <1>1, <1>2 DEF Line, CallFree, CallsTo, StraightLine, CallsMatch
<1>7. \A info : (Ranged(info)' <=> Ranged(info)) /\ (Missing(info)' <=> Missing(info))
  BY <1>1, <1>2 DEF Ranged, Missing, Matching
<1>8. \A I, info, known : Arrives(I, info, known)' <=> Arrives(I, info, known)
  BY <1>4, <1>7 DEF Arrives
<1>9. \A I, info : Caught(I, info)' <=> Caught(I, info)
  BY <1>1, <1>5, <1>7 DEF Caught
<1>10. \A I, info : Leaves(I, info)' <=> Leaves(I, info)
  BY <1>2, <1>4, <1>7, <1>9 DEF Leaves
<1>11. QED
  BY <1>6, <1>8, <1>10

(* The first information misses the target call.                           *)
LEMMA LineInit == WInit => LineInv
<1>1. SUFFICES ASSUME WInit, Line
               PROVE  /\ todoList = <<>> \/ (next = Null /\ \E e : todoList = <<e>>)
                      /\ \A e \in Elements(todoList) : Arrives(e.start, e.initial, DOMAIN postAccess)
                      /\ next # Null => Arrives(next, prevInfo, DOMAIN postAccess)
                      /\ \A I \in DOMAIN postAccess : Leaves(I, postAccess[I])
  BY DEF LineInv
<1>2. next = Null /\ postAccess = <<>> /\ \E e : todoList = <<e>>
  BY <1>1, Zenon DEF WInit
<1>3. Initial = Info(Level.open, {})
  BY <1>1 DEF Initial, Line
<1>4. Initial.val = Level.open /\ Initial.candidate = {}
  BY <1>3 DEF Info
<1>5. analysis \in PreCalls \cup {"PostCall", "Release"}
  BY <1>1, ProgramInit, FourVerifiers DEF Line
<1>6. Level.open = IF analysis \in PreCalls THEN 2 ELSE 1
  BY <1>5, LevelFacts DEF PreCalls
<1>7. Ranged(Initial) /\ Missing(Initial)
  BY <1>4, <1>6 DEF Ranged, Missing, Matching, PreCalls
<1>8. \A e \in Elements(todoList) : Arrives(e.start, e.initial, DOMAIN postAccess)
  BY <1>1, <1>7, EngineInit DEF Arrives
<1>9. DOMAIN postAccess = {}
  BY <1>2, ListEmpty
<1>10. QED
  BY <1>2, <1>8, <1>9

(* Every step keeps the invariant: on the only way through the program the *)
(* information comes first along a path without the target call, if there  *)
(* is one.                                                                 *)
LEMMA LineStep ==
  ASSUME WorklistInv, LineInv, [WNext]_wvars
  PROVE  LineInv'
<1>1. SUFFICES ASSUME Line
               PROVE  /\ todoList' = <<>> \/ (next' = Null /\ \E e : todoList' = <<e>>)
                      /\ \A e \in Elements(todoList') : Arrives(e.start, e.initial, DOMAIN postAccess')
                      /\ \A I : I = next' /\ I # Null =>
                           \A info : info = prevInfo' => Arrives(I, info, DOMAIN postAccess')
                      /\ \A I \in DOMAIN postAccess' : \A info : info = postAccess'[I] => Leaves(I, info)
  <2>1. UNCHANGED program
    BY ProgramFrozen
  <2>2. QED
    BY <1>1, <2>1, LineFrozen DEF LineInv
<1>2. /\ todoList = <<>> \/ (next = Null /\ \E e : todoList = <<e>>)
      /\ \A e \in Elements(todoList) : Arrives(e.start, e.initial, DOMAIN postAccess)
      /\ next # Null => Arrives(next, prevInfo, DOMAIN postAccess)
      /\ \A I \in DOMAIN postAccess : Leaves(I, postAccess[I])
  BY <1>1 DEF LineInv
<1>3. ProgramInv /\ EngineInv /\ CoverInv /\ CallFree
  BY <1>1 DEF WorklistInv, Line
<1>4. CASE Take
  <2>1. PICK e : Takes(e)
    BY <1>3, <1>4, TakeFacts
  <2>2. todoList' = Tail(todoList) /\ todoList # <<>>
    BY <1>4 DEF Take
  <2>3. PICK d : todoList = <<d>>
    BY <1>2, <2>2
  <2>4. Tail(<<d>>) = <<>>
    OBVIOUS
  <2>5. todoList' = <<>>
    BY <2>2, <2>3, <2>4
  <2>6. QED
    BY <1>2, <2>1, <2>5 DEF Takes
<1>5. CASE WalkEnds
  BY <1>2, <1>5 DEF WalkEnds
<1>6. CASE Visit
  <2>1. PICK at \in Instruction, calls \in {<<>>, stack} : Visits(at, calls)
    BY <1>3, <1>6, VisitFacts
  <2>2. /\ ~Stops /\ at = next
        /\ next' # Null => next' \in Follow(at)
        /\ Goals(at, calls) \subseteq Follow(at)
    BY <1>3, <2>1, CallFreeVisits
  <2>3. at # Null
    BY <1>3, InstructionFacts
  <2>4. todoList = <<>>
    BY <1>2, <2>2, <2>3
  <2>5. todoList' = <<>> \/ (next' = Null /\ \E e : todoList' = <<e>>)
    BY <1>1, <1>3, <1>6, <2>4, OneEntry
  <2> DEFINE after == Transfer(Before, at)
             known == DOMAIN postAccess \cup {at}
  <2>6. Ranged(Before) /\ (OnPath(at) /\ Op(at) # "target" => Missing(Before))
    <3>1. Arrives(at, prevInfo, DOMAIN postAccess)
      BY <1>2, <2>2, <2>3
    <3>2. CASE Known(at)
      <4>1. Leaves(at, postAccess[at]) /\ Before = Worse(prevInfo, postAccess[at])
        BY <1>2, <2>2, <3>2 DEF Known, Before
      <4>2. Ranged(prevInfo) /\ Ranged(postAccess[at])
        BY <3>1, <4>1 DEF Arrives, Leaves
      <4>3. Ranged(Before) /\ (Missing(postAccess[at]) => Missing(Before))
        BY <1>1, <1>3, <4>1, <4>2, WorseCatches
      <4>4. QED
        BY <4>1, <4>3 DEF Leaves, Caught
    <3>3. CASE ~Known(at)
      BY <2>2, <3>1, <3>3 DEF Known, Before, Arrives
    <3>4. QED
      BY <3>2, <3>3
  <2>7. Ranged(after) /\ (OnPath(at) /\ Op(at) # "target" => Caught(at, after))
    BY <1>1, <1>3, <2>6, TransferCatches
  <2>8. ASSUME NEW J \in Follow(at)
        PROVE  Arrives(J, after, known)
    <3>1. CASE OnPath(at) /\ Op(at) # "target"
      BY <2>7, <3>1 DEF Arrives, Caught
    <3>2. CASE ~(OnPath(at) /\ Op(at) # "target")
      <4>1. known \in SUBSET Instruction
        BY <1>3 DEF EngineInv
      <4>2. \A K \in Instruction : Pending(K) => K \in known
        BY <2>2, <2>4, ListEmpty DEF Pending
      <4>3. \A K \in known : Known(K) \/ ~OnPath(K) \/ Op(K) = "target"
        BY <3>2 DEF Known
      <4>4. OnPath(J) => J \in known
        <5> HIDE DEF known
        <5>1. DOMAIN postAccess \subseteq known
          BY DEF known
        <5>2. QED
          BY <1>3, <4>1, <4>2, <4>3, <5>1, PathsAreKnown
      <4>5. QED
        BY <2>7, <4>4 DEF Arrives
    <3>3. QED
      BY <3>1, <3>2
  <2> HIDE DEF after
  <2>9. Leaves(at, after)
    BY <2>7 DEF Leaves
  <2>10. /\ DOMAIN postAccess' = known /\ postAccess'[at] = after
         /\ \A I \in DOMAIN postAccess \ {at} : postAccess'[I] = postAccess[I]
         /\ prevInfo' = after
         /\ Elements(todoList') = Elements(todoList)
              \cup {[start |-> J, initial |-> after, stack |-> calls] : J \in Goals(at, calls)}
    BY <2>1 DEF Visits, after
  <2>11. Elements(todoList) = {}
    BY <2>4, ListEmpty
  <2>12. \A e \in Elements(todoList') : Arrives(e.start, e.initial, known)
    <3>1. ASSUME NEW e \in Elements(todoList')
          PROVE  Arrives(e.start, e.initial, known)
      <4>1. PICK J \in Goals(at, calls) : e = [start |-> J, initial |-> after, stack |-> calls]
        BY <2>10, <2>11, <3>1
      <4>2. J \in Follow(at) /\ e.start = J /\ e.initial = after
        BY <2>2, <4>1
      <4>3. QED
        BY <2>8, <4>2
    <3>2. QED
      BY <3>1
  <2>13. \A I \in known : \A info : info = postAccess'[I] => Leaves(I, info)
    BY <1>2, <2>9, <2>10
  <2> HIDE DEF known
  <2>14. QED
    BY <2>2, <2>5, <2>8, <2>10, <2>12, <2>13
<1>7. CASE UNCHANGED wvars
  BY <1>2, <1>7 DEF wvars
<1>8. QED
  BY <1>4, <1>5, <1>6, <1>7 DEF WNext

(* What is reached before a target call is on a path.                      *)
LEMMA ReachedIsOnPath ==
  ASSUME ProgramInv, CallFree, NEW pos \in Reached({"target"})
  PROVE  pos[1] \in Instruction /\ OnPath(pos[1])
<1> DEFINE S == {p \in Place : OnPath(p[1]) /\ p[2] = Null}
<1>1. First \subseteq S
  <2>1. Memory \in MemoryType
    BY DEF Memory, MemoryType
  <2>2. QED
    BY <2>1, StartFacts, OnPathFacts DEF First, Place
<1>2. ASSUME NEW p \in S, Op(p[1]) \notin {"target"}
      PROVE  After(p) \subseteq S
  <2>1. p \in Place /\ p[1] \in Instruction /\ p[2] = Null /\ OnPath(p[1]) /\ Op(p[1]) # "target"
    BY <1>2 DEF Place
  <2>2. PICK mem \in MemoryType :
           /\ Op(p[1]) = "ret" /\ InMain(p[1]) => After(p) = {}
           /\ Op(p[1]) = "ret" /\ ~InMain(p[1]) =>
                After(p) = {<<getNextNode(c), Null, mem>> : c \in IF p[2] # Null THEN {p[2]} ELSE CallsTo("call")}
           /\ Op(p[1]) = "br" => After(p) = {<<J, p[2], mem>> : J \in Follow(p[1])}
           /\ Op(p[1]) \notin {"br", "call", "ret"} => After(p) = {<<J, p[2], mem>> : J \in Follow(p[1])}
    BY <2>1, AfterFacts
  <2>3. CallsTo("call") = {} /\ Op(p[1]) # "call"
    BY <2>1 DEF CallFree, CallsTo
  <2>4. \A J \in Follow(p[1]) : J \in Instruction /\ OnPath(J)
    BY <2>1, FollowFacts, OnPathFacts
  <2>5. {<<J, p[2], mem>> : J \in Follow(p[1])} \subseteq S
    BY <2>1, <2>4 DEF Place
  <2>6. Op(p[1]) = "ret" => After(p) = {}
    BY <2>1, <2>2, <2>3
  <2>7. QED
    BY <2>2, <2>3, <2>5, <2>6
<1>3. Reached({"target"}) \subseteq S
  <2> HIDE DEF S
  <2>1. QED
    BY <1>1, <1>2, ReachedInduction
<1>4. QED
  BY <1>3 DEF Place

(* The invariant of programs without branches holds in every analysis.     *)
LEMMA LineInvariant == WSpec => [](WorklistInv /\ LineInv)
<1>1. WInit => WorklistInv /\ LineInv
  BY CoverInit, LineInit
<1>2. (WorklistInv /\ LineInv) /\ [WNext]_wvars => (WorklistInv /\ LineInv)'
  BY CoverStep, LineStep
<1>3. QED
  BY <1>1, <1>2, PTL DEF WSpec

(* Without branches and without calls of f, the verdict of the verifiers   *)
(* of calls is that of the only execution: they raise no false alarm and   *)
(* miss no violation, in front of, in and behind a loop.                   *)
THEOREM ExactWithoutBranches ==
  WSpec => [](analysis # "Alloc" /\ CallFree /\ CallsMatch => StraightLineExact)
<1>1. ASSUME WorklistInv, LineInv, Line, WDone, BadPath
      PROVE  Broken
  <2>1. ProgramInv /\ EngineInv /\ CoverInv /\ CallFree /\ analysis # "Alloc"
    BY <1>1 DEF WorklistInv, Line
  <2>2. PICK pos \in Reached({"target"}) : Critical(pos[1])
    BY <1>1, <2>1 DEF BadPath
  <2> DEFINE I == pos[1]
  <2>3. I \in Instruction /\ OnPath(I)
    BY <2>1, ReachedIsOnPath
  <2> HIDE DEF I
  <2>4. I \in DOMAIN postAccess
    <3>1. DOMAIN postAccess \in SUBSET Instruction
      BY <2>1 DEF EngineInv
    <3>2. \A J \in Instruction : Pending(J) => J \in DOMAIN postAccess
      BY <1>1, <2>1, ListEmpty, InstructionFacts DEF WDone, Pending
    <3>3. \A K \in DOMAIN postAccess : Known(K)
      BY DEF Known
    <3>4. QED
      BY <2>1, <2>3, <3>1, <3>2, <3>3, PathsAreKnown
  <2>5. analysis \in PreCalls \cup {"PostCall", "Release"}
    BY <2>1, FourVerifiers
  <2>6. Critical(I)
    BY <2>2 DEF I
  <2>7. Op(I) # "target"
    BY <2>5, <2>6 DEF Critical, PreCalls
  <2>8. Ranged(postAccess[I]) /\ Caught(I, postAccess[I])
    BY <1>1, <2>3, <2>4, <2>7 DEF LineInv, Leaves
  <2>9. CASE analysis \in PreCalls
    <3>1. I \in CallsTo("supplier") /\ Known(I) /\ postAccess[I].val = Level.error
      BY <2>3, <2>4, <2>6, <2>8, <2>9, LevelFacts DEF Critical, PreCalls, CallsTo, Known, Caught
    <3>2. QED
      BY <2>9, <3>1 DEF Broken, checkPreCall, PreCalls
  <2>10. CASE analysis = "PostCall"
    <3>1. I \in CallsTo("ret") /\ InMain(I) /\ Known(I)
      BY <2>3, <2>4, <2>6, <2>10 DEF Critical, CallsTo, Known
    <3>2. postAccess[I].val = Level.open
      BY <2>8, <2>10, LevelFacts DEF Caught, Missing, Ranged
    <3>3. QED
      BY <2>10, <3>1, <3>2 DEF Broken, checkPostCall
  <2>11. CASE analysis = "Release"
    <3>1. Known(I) /\ postAccess[I].val >= Level.unfulfilled
      BY <2>4, <2>6, <2>8, <2>11, LevelFacts DEF Known, Caught
    <3>2. QED
      BY <2>3, <2>11, <3>1 DEF Broken, checkRelease
  <2>12. QED
    BY <2>5, <2>9, <2>10, <2>11
<1>2. (WorklistInv /\ LineInv) /\ (analysis # "Alloc" => NoFalseAlarm)
        => (analysis # "Alloc" /\ CallFree /\ CallsMatch => StraightLineExact)
  <2>1. SUFFICES ASSUME WorklistInv, LineInv, analysis # "Alloc", NoFalseAlarm, CallFree, CallsMatch,
                        WDone, StraightLine
                 PROVE  Broken <=> BadPath
    BY DEF StraightLineExact
  <2>2. QED
    BY <1>1, <2>1 DEF NoFalseAlarm, StackLoads, Line
<1>3. QED
  BY <1>2, LineInvariant, NoFalseAlarmOfCalls, PTL
================================================================================
