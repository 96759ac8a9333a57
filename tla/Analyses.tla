------------------------------- MODULE Analyses -------------------------------
(***************************************************************************)
(* The five runtime analyses (Dynamic/Analyses): what one callback does to *)
(* the temporaries of one analysis, and which verdict it returns.          *)
(*                                                                         *)
(* An analysis is an operator from its operation "op", its temporaries     *)
(* "st" and the event to a record with the new temporaries and a verdict.  *)
(* Values of parameters, addresses and contents of memory are numbers;     *)
(* memory is a function from the addresses that hold one.  A list of       *)
(* parameters to match is a set of records: contrP is the position in the  *)
(* supplier's call, acc the access, and pos maps a function to the         *)
(* positions in its own call, several when it carries the tag repeatedly.  *)
(***************************************************************************)
EXTENDS Integers, Sequences, Lists

CONSTANTS
  PointerSize,  \* bits of a pointer
  NarrowSizes   \* the sizes of integers sign_extend knows

ASSUME SizesAssumption ==
  PointerSize \in Nat \ {0} /\ NarrowSizes \subseteq 1..PointerSize

Result(st, verdict) == [state |-> st, verdict |-> verdict]
Unknown == "UNKNOWN"

(* DynamicUtils::checkParamMatch: a dereferenced pointer is read when the  *)
(* match is tried, also when its call happened long ago.                   *)
checkParamMatch(memory, acc, contrP, callP) ==
  CASE acc = "NORMAL" -> contrP = callP
    [] acc = "DEREF"  -> memory[contrP] = callP
    [] acc = "ADDROF" -> memory[callP] = contrP

(* DynamicUtils::checkFuncCallMatch: one matching parameter is enough.     *)
checkFuncCallMatch(memory, callF, params, callParams, contrParams) ==
  \E p \in params : \E i \in p.pos[callF] :
    checkParamMatch(memory, p.acc, contrParams[p.contrP], callParams[i])

-----------------------------------------------------------------------------
(* PreCall: the calls of target functions are collected; the first call of *)
(* the supplier settles the requirement.                                   *)
PreCallInit == [possible_matches |-> {}]

Collect_latest(matches, m) == {m}
Collect(matches, m) == matches \cup {m}
PreCallVerdict_lenient(matches, met) ==
  IF met THEN "FULFILLED" ELSE IF matches = {} THEN Unknown ELSE "VIOLATED"
PreCallVerdict(matches, met) == IF met THEN "FULFILLED" ELSE "VIOLATED"

PreCallOnCall(op, st, func, callsite, memory) ==
  LET met == \E m \in st.possible_matches :
               op.params = {} \/ checkFuncCallMatch(memory, m.func, op.params, m.params, callsite.params)
  IN  IF func \in op.targets
      THEN Result([possible_matches |-> Collect(st.possible_matches, [func |-> func, params |-> callsite.params])],
                  Unknown)
      ELSE IF func # op.supplier THEN Result(st, Unknown)
      ELSE Result(st, PreCallVerdict(st.possible_matches, met))

(* PostCall: the supplier's calls that still wait for a target call.  A    *)
(* call from a location that is already waiting replaces the older one.    *)
PostCallInit == [unchecked |-> {}]

Unanswered_none(unchecked, answered) == IF answered = {} THEN unchecked ELSE {}
Unanswered(unchecked, answered) == unchecked \ answered

PostCallOnCall(op, st, func, callsite, memory) ==
  LET matched(c) == op.params = {} \/ checkFuncCallMatch(memory, func, op.params, callsite.params, c.params)
      replaced   == {c \in st.unchecked : c.location = callsite.location}
      unchecked  == IF func \in op.targets THEN Unanswered(st.unchecked, {c \in st.unchecked : matched(c)})
                    ELSE IF func = op.supplier THEN (st.unchecked \ replaced) \cup {callsite}
                    ELSE st.unchecked
  IN  Result([unchecked |-> unchecked], Unknown)

PostCallOnExit(st) == IF st.unchecked = {} THEN "FULFILLED" ELSE "VIOLATED"

-----------------------------------------------------------------------------
(* Release: the supplier's calls after which the operation is forbidden,   *)
(* and, for a read or write, a second vector with the address each of them *)
(* protects, kept in step by index.                                        *)
ReleaseInit == [callsites |-> <<>>, mem |-> <<>>]

Indices(s) == [i \in 1..Len(s) |-> i]
Select(s, idx) == [k \in 1..Len(idx) |-> s[idx[k]]]

SelectMem_prefix(op, mem, kept) == SubSeq(mem, 1, Len(kept))
SelectMem(op, mem, kept) == IF op.forbIsRW THEN Select(mem, kept) ELSE mem

ReleaseRegister(op, st, callsite) ==
  LET same == {i \in 1..Len(st.callsites) : st.callsites[i].location = callsite.location}
      at   == IF same = {} THEN Len(st.callsites) + 1
              ELSE CHOOSE i \in same : \A j \in same : i <= j
      Put(s, v) == IF same = {} THEN Append(s, v) ELSE [s EXCEPT ![at] = v]
  IN  [callsites |-> Put(st.callsites, callsite),
       mem |-> IF op.forbIsRW THEN Put(st.mem, callsite.params[op.rwIdx]) ELSE st.mem]

ReleaseOnCall_supplierFirst(op, st, func, callsite, memory) ==
  LET now      == IF func = op.supplier THEN ReleaseRegister(op, st, callsite) ELSE st
      freed(i) == op.relParams = {} \/ checkFuncCallMatch(memory, func, op.relParams, callsite.params, now.callsites[i].params)
      kept     == Filter(Indices(now.callsites), {i \in 1..Len(now.callsites) : ~freed(i)})
      hit(i)   == op.forbParams = {} \/ checkFuncCallMatch(memory, func, op.forbParams, callsite.params, now.callsites[i].params)
  IN  IF func \in op.releases
      THEN Result([callsites |-> Select(now.callsites, kept),
                   mem |-> SelectMem(op, now.mem, kept)], Unknown)
      ELSE Result(now, IF func \in op.forbidden /\ \E i \in 1..Len(now.callsites) : hit(i)
                       THEN "VIOLATED" ELSE Unknown)
ReleaseOnCall(op, st, func, callsite, memory) ==
  LET active   == st.callsites # <<>>
      freed(i) == op.relParams = {} \/ checkFuncCallMatch(memory, func, op.relParams, callsite.params, st.callsites[i].params)
      kept     == Filter(Indices(st.callsites), {i \in 1..Len(st.callsites) : ~freed(i)})
      hit(i)   == op.forbParams = {} \/ checkFuncCallMatch(memory, func, op.forbParams, callsite.params, st.callsites[i].params)
  IN  IF active /\ func \in op.releases
      THEN Result([callsites |-> Select(st.callsites, kept),
                   mem |-> SelectMem(op, st.mem, kept)], Unknown)
      ELSE IF active /\ func \in op.forbidden /\ \E i \in 1..Len(st.callsites) : hit(i)
      THEN Result(st, "VIOLATED")
      ELSE IF func = op.supplier THEN Result(ReleaseRegister(op, st, callsite), Unknown)
      ELSE Result(st, Unknown)

(* The vector's entry itself is what a dereference reads.                  *)
ReleaseOnAccess(op, st, address) ==
  Result(st, IF op.rwAcc = "DEREF" /\ \E i \in 1..Len(st.mem) : st.mem[i] = address
             THEN "VIOLATED" ELSE Unknown)

-----------------------------------------------------------------------------
(* Param: the requirements are taken in order; the first that is decisive  *)
(* ends the check.  Values travel in pointers: an argument of the call was *)
(* widened with zeros, a negative constant with ones, and sign_extend      *)
(* reads both back at the size of the argument.                            *)
ParamInit == [checked |-> {}]

sign_extend(ptr, size) ==
  LET bits == IF size \in NarrowSizes THEN size ELSE PointerSize
      low  == ptr % 2^bits
  IN  IF low < 2^(bits - 1) THEN low ELSE low - 2^bits

ParamHolds(comparator, act_callp, act_req, size) ==
  LET int_callp == sign_extend(act_callp, size)
      int_req   == sign_extend(act_req, size)
  IN  CASE comparator = "EXEQ" -> act_callp = act_req \/ int_callp = int_req
        [] comparator = "EQ"   -> act_callp = act_req /\ int_callp = int_req
        [] comparator = "NEQ"  -> act_callp # act_req /\ int_callp # int_req
        [] comparator = "GTEQ" -> int_callp >= int_req
        [] comparator = "GT"   -> int_callp > int_req
        [] comparator = "LTEQ" -> int_callp <= int_req
        [] comparator = "LT"   -> int_callp < int_req

ParamOnCall(op, st, func, callsite, memory) ==
  LET Read(v, deref) == IF deref THEN memory[v] ELSE v
      act_callp   == Read(callsite.params[op.idx], op.callval_need_deref)
      act_req(r)  == Read(IF r.isArg THEN callsite.params[r.value] ELSE r.value, r.reqval_need_deref)
      Holds(i)    == ParamHolds(op.reqs[i].comparator, act_callp, act_req(op.reqs[i]), op.size)
      Exempts(i)  == op.reqs[i].comparator = "EXEQ"
      decisive    == {i \in 1..Len(op.reqs) : Exempts(i) <=> Holds(i)}
      first       == CHOOSE i \in decisive : \A j \in decisive : i <= j
  IN  Result(st, IF func # op.supplier \/ decisive = {} THEN Unknown
                 ELSE IF Exempts(first) THEN "FULFILLED" ELSE "VIOLATED")

-----------------------------------------------------------------------------
(* Alloc: the blocks that allocators returned and no deallocator took      *)
(* back, checked before a call of the supplier and updated after any call. *)
(* An allocator is [ptr, acc, factors]: the position of the block's address *)
(* (RetSym for the returned value) and the product that is its size.       *)
RetSym == 99
AllocInit == [allocated |-> <<>>]

InBlock_closed(ptr, b) == b.start <= ptr /\ ptr <= b.start + b.size
InBlock(ptr, b) == b.start = ptr \/ (ptr >= b.start /\ ptr < b.start + b.size)

AllocOnCall(op, st, func, callsite) ==
  LET known == \E i \in 1..Len(st.allocated) : InBlock(callsite.params[op.idx], st.allocated[i])
  IN  Result(st, IF func = op.supplier /\ ~known THEN "VIOLATED" ELSE Unknown)

Operand(x, callsite) == IF x.isArgValue THEN callsite.params[x.value] ELSE x.value
Product(factors, callsite) ==
  LET prod[n \in 0..Len(factors)] ==
        IF n = 0 THEN 1 ELSE prod[n - 1] * Operand(factors[n], callsite)
  IN  prod[Len(factors)]

AllocAfterCall(op, st, func, callsite, memory) ==
  LET value(where) == IF where = RetSym THEN callsite.retval ELSE callsite.params[where]
      a     == op.allocators[func]
      start == IF a.acc = "DEREF" THEN memory[value(a.ptr)] ELSE value(a.ptr)
      gone  == value(op.deallocators[func])
      same  == {i \in 1..Len(st.allocated) : st.allocated[i].start = gone}
      first == CHOOSE i \in same : \A j \in same : i <= j
  IN  Result([allocated |->
        IF func \in DOMAIN op.allocators
        THEN Append(st.allocated, [start |-> start, size |-> Product(a.factors, callsite)])
        ELSE IF func \in DOMAIN op.deallocators /\ same # {}
        THEN Without(st.allocated, first)
        ELSE st.allocated], Unknown)
=============================================================================
