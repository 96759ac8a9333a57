-------------------------------- MODULE Worklist --------------------------------
(***************************************************************************)
(* The static data-flow engine (GenericWorklist) with the four verifiers   *)
(* that run on it: PreCall, PostCall, Release and Alloc.                   *)
(*                                                                         *)
(* A program is a control flow graph of blocks, each of them one call or   *)
(* store and a terminator; an instruction is <<block, 1>> or <<block, 2>>. *)
(* One function besides main, f, consists of one block of its own.         *)
(* "target" and "mismatch" are calls of the function a contract names,     *)
(* with and without a matching parameter, "forbid" is the operation a      *)
(* release forbids.  For Alloc an operation is an instruction of IR.       *)
(***************************************************************************)
EXTENDS AllocStatus, SequencesExt

CONSTANTS
  Shape,      \* the control flow graphs of main: block -> its successors, in order
  EntryOf,    \* analysis -> what the first block of main holds
  BodyOf,     \* analysis -> what its other blocks may hold
  Helper,     \* analysis -> what the block of f may hold
  Entry       \* the first block of main

Null == <<>>
Callee == 0   \* the block of f

(* Nothing branches to the entry.  A terminator is no operation, f makes   *)
(* no call, and only for Alloc an operation is an instruction of IR.       *)
ASSUME ShapeAssumption ==
  \A s \in Shape :
    /\ IsFiniteSet(DOMAIN s) /\ Entry \in DOMAIN s /\ Callee \notin DOMAIN s
    /\ \A b \in DOMAIN s : s[b] \in Seq(DOMAIN s \ {Entry})
ASSUME BodyAssumption ==
  /\ DOMAIN BodyOf \subseteq {"PreCall", "PreCallParams", "PostCall", "Release", "Alloc"}
  /\ \A a \in DOMAIN BodyOf :
       /\ {"br", "ret"} \cap ({EntryOf[a]} \cup BodyOf[a] \cup Helper[a] \cup DOMAIN IR) = {}
       /\ "call" \notin Helper[a]
       /\ a # "Alloc" => ({EntryOf[a]} \cup BodyOf[a] \cup Helper[a]) \cap DOMAIN IR = {}

VARIABLES
  analysis,    \* the verifier: PreCall, PreCallParams, PostCall, Release or Alloc
  successors,  \* the program: block -> its successors
  body,        \* the program: block -> its operation
  Start,       \* the instruction the analysis starts at
  todoList,    \* entries [start, initial, stack]
  next,        \* the instruction to visit, or Null
  prevInfo,    \* the information that reaches it
  stack,       \* the calls the current walk is inside of, the innermost last
  postAccess   \* instruction -> information after it, where it was visited

program == <<analysis, successors, body, Start>>
wvars == <<program, todoList, next, prevInfo, stack, postAccess>>

Instruction == (DOMAIN body) \X {1, 2}
Op(I) == IF I[2] = 1 THEN body[I[1]] ELSE IF successors[I[1]] = <<>> THEN "ret" ELSE "br"
getNextNode(I) == IF I[2] = 1 THEN <<I[1], 2>> ELSE Null
CallsTo(op) == {I \in Instruction : Op(I) = op}
InMain(I) == I[1] # Callee

-----------------------------------------------------------------------------
(* The information of the analyses is a level, worse ones higher, and, for *)
(* PreCall, the target calls that may still match; for Alloc the allocated *)
(* values.                                                                 *)
Level ==
  CASE analysis \in {"PreCall", "PreCallParams"} ->
         [good |-> 0, paramcheck |-> 1, open |-> 2, error |-> 3]
    [] analysis = "PostCall" -> [good |-> 0, open |-> 1]
    [] analysis = "Release"  -> [good |-> 0, open |-> 1, unfulfilled |-> 2, error |-> 3]
    [] analysis = "Alloc"    -> [good |-> ALLOC, open |-> UNDEF, error |-> ERROR]
Info(level, candidate) == [val |-> level, candidate |-> candidate]

transferPreCallStat(cur, I) ==
  LET found == Op(I) \in {"target", "mismatch"}
  IN  IF cur.val \in {Level.good, Level.error} THEN cur
      ELSE IF found THEN IF analysis = "PreCall" THEN Info(Level.good, cur.candidate)
                         ELSE Info(Level.paramcheck, cur.candidate \cup {I})
      ELSE IF Op(I) = "supplier"
      THEN Info(IF cur.val = Level.paramcheck /\ \E c \in cur.candidate : Op(c) = "target"
                THEN Level.good ELSE Level.error, cur.candidate)
      ELSE cur

transferPostCallStat(cur, I) ==
  IF Op(I) = "target" THEN Info(Level.good, {}) ELSE cur

(* A forbidden operation after the release counts.                         *)
transferRelease_always(cur, I) ==
  IF cur.val = Level.unfulfilled THEN cur
  ELSE CASE Op(I) = "target" -> Info(Level.good, {})
         [] Op(I) = "forbid" -> Info(Level.unfulfilled, {})
         [] OTHER            -> cur

(* With printMultiReports off an unfulfilled release stays as it is.       *)
transferRelease(cur, I) ==
  IF cur.val # Level.open THEN cur
  ELSE CASE Op(I) = "target" -> Info(Level.good, {})
         [] Op(I) = "forbid" -> Info(Level.unfulfilled, {})
         [] OTHER            -> cur

Transfer(cur, I) ==
  CASE analysis \in {"PreCall", "PreCallParams"} -> transferPreCallStat(cur, I)
    [] analysis = "PostCall"                     -> transferPostCallStat(cur, I)
    [] analysis = "Release"                      -> transferRelease(cur, I)
    [] analysis = "Alloc"  -> IF Op(I) \in DOMAIN IR THEN transferAllocStat(cur, Op(I)) ELSE cur

(* The merge functions: the worse level; go on if that is worse than *)
(* what arrives.                                                           *)
Worse(prev, cur) ==
  Info(IF prev.val > cur.val THEN prev.val ELSE cur.val,
       IF analysis = "Alloc" THEN intersect(cur.candidate, prev.candidate)
       ELSE prev.candidate \cap cur.candidate)
Initial == Info(Level.open, IF analysis = "Alloc" THEN NoCandidates ELSE {})
GoesOn_always(prev, cur) == TRUE   \* a visited instruction is always analysed again
GoesOn(prev, cur) == Worse(prev, cur).val > prev.val

-----------------------------------------------------------------------------
Uses == {n \in DOMAIN IR : IR[n].kind = "use"}

(* The executions of the program, without the engine: positions            *)
(* <<instruction, call of f it is in, memory>>.  Memory says which values  *)
(* hold the address of the allocated block, while it lives, and which that *)
(* of another live block; the block itself holds only such addresses, and  *)
(* what is loaded from a dead one is no address.                           *)
Memory == [block |-> {}, other |-> {}]
Execute(op, mem) ==
  LET I == IR[op]
      Copied(held) == IF I.from \in held THEN held \cup {I.value} ELSE held \ {I.value}
  IN  IF op \notin DOMAIN IR \ Uses THEN mem
      ELSE CASE I.kind = "alloc" -> [mem EXCEPT !.block = {I.value}]
             [] I.kind = "free"  -> IF I.value \in mem.block THEN [mem EXCEPT !.block = {}] ELSE mem
             [] I.kind = "load" /\ I.from \in mem.block \cup mem.other ->
                  [block |-> mem.block \ {I.value}, other |-> mem.other \cup {I.value}]
             [] OTHER -> [block |-> Copied(mem.block), other |-> Copied(mem.other)]

After(pos) ==
  LET I   == pos[1]
      mem == Execute(Op(I), pos[3])
  IN  CASE Op(I) = "br"   -> {<<<<successors[I[1]][i], 1>>, pos[2], mem>> : i \in DOMAIN successors[I[1]]}
        [] Op(I) = "call" -> {<<<<Callee, 1>>, I, mem>>}
        [] Op(I) = "ret"  ->
             IF InMain(I) THEN {}
             ELSE {<<getNextNode(c), Null, mem>> : c \in IF pos[2] # Null THEN {pos[2]} ELSE CallsTo("call")}
        [] OTHER          -> {<<getNextNode(I), pos[2], mem>>}

(* What is reached from Start without executing an operation of Barrier.   *)
Reached(Barrier) ==
  LET first == {<<Start, Null, Memory>>}
      reach[k \in 0..4 * Cardinality(Instruction)] ==
        IF k = 0 THEN [seen |-> first, new |-> first]
        ELSE LET R   == reach[k - 1]
                 new == (UNION {After(pos) : pos \in {p \in R.new : Op(p[1]) \notin Barrier}}) \ R.seen
             IN  [seen |-> R.seen \cup new, new |-> new]
  IN  reach[4 * Cardinality(Instruction)].seen

(* Every value is defined once, and on every path to its use.              *)
Defines(op, v) == op \in DOMAIN IR /\ IR[op].value = v /\ IR[op].kind \in {"alloc", "load", "copy"}
Needs(I) == IF I.kind \in {"use", "free"} THEN I.value ELSE I.from
WellFormed ==
  \A n \in Range(body) \cap DOMAIN IR :
    LET definitions == {op \in DOMAIN IR : Defines(op, Needs(IR[n]))}
    IN  /\ Defines(n, IR[n].value) => Cardinality({b \in DOMAIN body : body[b] = n}) = 1
        /\ definitions # {} => \A pos \in Reached(definitions) : Op(pos[1]) # n

-----------------------------------------------------------------------------
(* checkPreCall and checkAllocReq start at the entry of main, checkPostCall *)
(* and checkRelease behind each call of the supplier.                      *)
Starts ==
  IF analysis \in {"PreCall", "PreCallParams", "Alloc"} THEN {<<Entry, 1>>}
  ELSE {getNextNode(I) : I \in CallsTo("supplier")}

WInit ==
  /\ analysis \in DOMAIN BodyOf
  /\ \E s \in Shape :
       /\ successors = [b \in DOMAIN s \cup {Callee} |-> IF b = Callee THEN <<>> ELSE s[b]]
       /\ \E o \in [DOMAIN s \ {Entry} -> BodyOf[analysis]], h \in Helper[analysis] :
            body = [b \in DOMAIN successors |-> IF b = Callee THEN h ELSE IF b = Entry THEN EntryOf[analysis] ELSE o[b]]
  /\ Start \in Starts
  /\ analysis = "Alloc" => WellFormed
  /\ todoList = <<[start |-> Start, initial |-> Initial, stack |-> <<>>]>>
  /\ next = Null
  /\ prevInfo = Initial
  /\ stack = <<>>
  /\ postAccess = <<>>

Take ==
  /\ next = Null
  /\ todoList # <<>>
  /\ next' = Head(todoList).start
  /\ prevInfo' = Head(todoList).initial
  /\ stack' = Head(todoList).stack
  /\ todoList' = Tail(todoList)
  /\ UNCHANGED <<program, postAccess>>

Known(I) == I \in DOMAIN postAccess
Stops == Known(next) /\ ~GoesOn(prevInfo, postAccess[next])

(* Nothing new, and no call to return from: the walk ends.                 *)
WalkEnds ==
  /\ next # Null
  /\ Stops /\ stack = <<>>
  /\ next' = Null
  /\ UNCHANGED <<program, todoList, prevInfo, stack, postAccess>>

(* Where a walk goes behind instruction I with the calls s around it: into *)
(* f, back behind the innermost call, to the next instruction, or nowhere. *)
Successor(I, s) ==
  CASE Op(I) = "call"              -> <<Callee, 1>>
    [] Op(I) = "ret" /\ s # <<>>   -> getNextNode(Last(s))
    [] Op(I) = "ret" /\ s = <<>>   -> Null
    [] OTHER                       -> getNextNode(I)
StackBehind(I, s) ==
  CASE Op(I) = "call"            -> Append(s, I)
    [] Op(I) = "ret" /\ s # <<>> -> Front(s)
    [] OTHER                     -> s

(* The instructions that become worklist entries: the successors of a      *)
(* branch and, when a walk that began inside of f leaves it, what follows  *)
(* each of its calls, in any order.                                        *)
Branches(I) == [i \in DOMAIN successors[I[1]] |-> <<successors[I[1]][i], 1>>]
Queued_branches(I, s) == {IF Op(I) = "br" THEN Branches(I) ELSE <<>>}   \* f's callers forgotten
Queued(I, s) ==
  CASE Op(I) = "br"                             -> {Branches(I)}
    [] Op(I) = "ret" /\ s = <<>> /\ ~InMain(I) -> SetToSeqs({getNextNode(c) : c \in CallsTo("call")})
    [] OTHER                                    -> {<<>>}

(* Nothing new inside a call: the walk goes on behind the call, with the   *)
(* merged information of the instruction it leaves and without a merge     *)
(* there.  Otherwise the merged, or the first, information goes on here.   *)
Visit ==
  /\ next # Null
  /\ ~(Stops /\ stack = <<>>)
  /\ LET at     == IF Stops THEN getNextNode(Last(stack)) ELSE next
         calls  == IF Stops THEN Front(stack) ELSE stack
         before == IF Known(next) THEN Worse(prevInfo, postAccess[next]) ELSE prevInfo
         after  == Transfer(before, at)
     IN  /\ postAccess' = [I \in DOMAIN postAccess \cup {at} |-> IF I = at THEN after ELSE postAccess[I]]
         /\ prevInfo' = after
         /\ next' = Successor(at, calls)
         /\ stack' = StackBehind(at, calls)
         /\ \E q \in Queued(at, calls) :
              todoList' = todoList \o [i \in DOMAIN q |-> [start |-> q[i], initial |-> after, stack |-> calls]]
  /\ UNCHANGED program

WDone == next = Null /\ todoList = <<>>

WNext == Take \/ WalkEnds \/ Visit \/ (WDone /\ UNCHANGED wvars)
WSpec == WInit /\ [][WNext]_wvars
WFairSpec == WSpec /\ WF_wvars(WNext)

(* What the verifiers conclude from the information.                       *)
checkPreCall  == \E I \in CallsTo("supplier") : Known(I) /\ postAccess[I].val = Level.error
checkPostCall == \E I \in CallsTo("ret") : InMain(I) /\ Known(I) /\ postAccess[I].val = Level.open
checkRelease  == \E I \in Instruction : Known(I) /\ postAccess[I].val >= Level.unfulfilled
checkAllocReq == \E I \in Instruction : Op(I) \in Uses /\ Known(I) /\ postAccess[I].val = Level.error
Broken ==
  CASE analysis \in {"PreCall", "PreCallParams"} -> checkPreCall
    [] analysis = "PostCall"                     -> checkPostCall
    [] analysis = "Release"                      -> checkRelease
    [] analysis = "Alloc"                        -> checkAllocReq

(* Where a contract is broken unless a matching call came before; for      *)
(* Alloc, where the first use on a path gets no live block.                *)
Critical(I) ==
  CASE analysis \in {"PreCall", "PreCallParams"} -> Op(I) = "supplier"
    [] analysis = "PostCall"                     -> Op(I) = "ret" /\ InMain(I)
    [] analysis = "Release"                      -> Op(I) = "forbid"
Dangling(pos) == /\ Op(pos[1]) \in Uses
                 /\ IR[Op(pos[1])].value \notin pos[3].block \cup pos[3].other \cup Stack
BadPath ==
  IF analysis = "Alloc" THEN \E pos \in Reached(Uses) : Dangling(pos)
  ELSE \E pos \in Reached({"target"}) : Critical(pos[1])

LoadFree == \A n \in Range(body) \cap DOMAIN IR : IR[n].kind # "load"
StackLoads ==
  analysis = "Alloc" => \A n \in Range(body) \cap DOMAIN IR : IR[n].kind = "load" => IR[n].from \in Stack
CallFree == CallsTo("call") = {}
CalledOnce == Cardinality(CallsTo("call")) <= 1
StraightLine == \A b \in DOMAIN successors : Len(successors[b]) <= 1

(* The engine terminates on every graph, with loops, joins and calls: it   *)
(* walks on through a visited instruction only while its merge makes the   *)
(* arriving information worse (GenericWorklist's two loops).               *)
Terminates == <>WDone

(* In a program without calls of f, a contract the verifier calls broken   *)
(* is broken on an execution (checkPreCall, checkPostCall, checkRelease,   *)
(* checkAllocReq).  What is loaded from a heap block is left out: Alloc    *)
(* takes it for a copy of the block's address, which dies with the block.  *)
NoFalseAlarm == WDone /\ CallFree /\ StackLoads /\ Broken => BadPath

(* Without branches, and with f called at most once, the verdict is that   *)
(* of the only execution, through f and back to the right place, be it     *)
(* endless; a use of memory too, unless its address was loaded.            *)
StraightLineExact == WDone /\ StraightLine /\ CalledOnce /\ LoadFree => (Broken <=> BadPath)

(* Every instruction an execution reaches is analysed, behind a return     *)
(* from the function the walk began in too.                                *)
Covers == WDone => \A pos \in Reached({}) : Known(pos[1])

(* ContractPassUtility.hpp, of an access held at a visited instruction:    *)
(* "Otherwise, remove it if present (=> "must" analysis, node reached with *)
(* info, jumped here without)".  What an execution breaks is found.        *)
MustOnAllPaths == WDone /\ BadPath => Broken
=============================================================================
