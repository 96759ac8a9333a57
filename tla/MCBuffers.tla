------------------------------- MODULE MCBuffers -------------------------------
(***************************************************************************)
(* Allocation tracking and local data races, after the contracts for MPI:  *)
(*   Isend: PRE { alloc!(0) }                                              *)
(*          POST { no!(write!(0)) until!(call!(Wait)),                     *)
(*                 no!(read!( *0)) until!(call!(Wait,0:0)) }               *)
(* with the buffer as the only parameter, and user functions whose own     *)
(* bodies are instrumented.  Addresses 10 and 20 start blocks of two; an   *)
(* allocation that fails returns null, 0, which counts as such a block,    *)
(* too, for the runtime does not look at what malloc returned.             *)
(***************************************************************************)
EXTENDS Runtime, TLC

BufFormula == {"pre", "alloc", "post", "write", "read"}
BufParents ==
  [f \in {"pre", "post"} |-> "null"] @@ ("alloc" :> "pre") @@ [f \in {"write", "read"} |-> "post"]
BufConn ==
  [f \in {"pre", "post"} |-> "AND"] @@ ("alloc" :> "ALLOC")
    @@ [f \in {"write", "read"} |-> "RELEASE"]
BufIsPre == [f \in BufFormula |-> f \in {"pre", "alloc"}]
BufAnalyses == <<"alloc", "write", "read">>

Race(isWrite, relParams) ==
  [supplier |-> "Isend", forbIsRW |-> TRUE, isWrite |-> isWrite, rwIdx |-> 1, rwAcc |-> "DEREF",
   releases |-> {"Wait"}, relParams |-> relParams, forbidden |-> {}, forbParams |-> {}]
BufOperation ==
  ("alloc" :> [supplier |-> "Isend", idx |-> 1,
     allocators   |-> ("malloc" :> [ptr |-> RetSym, acc |-> "NORMAL",
                                    factors |-> <<[isArgValue |-> TRUE, value |-> 1]>>]),
     deallocators |-> ("free" :> 1)])
  @@ ("write" :> Race(TRUE, {}))
  @@ ("read" :> Race(FALSE, {[contrP |-> 1, acc |-> "NORMAL", pos |-> ("Wait" :> {1})]}))

At(f, l, p) == [func |-> f, location |-> l, params |-> <<p>>, retval |-> 0, isRef |-> f # "free"]
BufCall ==
  {At("malloc", "L1", 2), At("free", "L2", 10), At("Isend", "L3", 10), At("Isend", "L3", 12),
   At("Isend", "L4", 21), At("Isend", "L4", 0), At("Wait", "L5", 21), At("user", "L6", 0)}
Touch(a, l, w) == [address |-> a, value |-> 0, location |-> l, isWrite |-> w, isRef |-> w]
BufAccess == {Touch(10, "L7", TRUE), Touch(21, "L8", FALSE)}

Effect(v, blocks, frees) == [retval |-> v, stores |-> {}, allocates |-> blocks, frees |-> frees]
BufReturns ==
  [f \in {"Isend", "Wait", "user"} |-> {Effect(0, {}, {})}]
  @@ ("malloc" :> {Effect(a, {[start |-> a, size |-> 2]}, {}) : a \in {0, 10, 20}})
  @@ ("free" :> {Effect(0, {}, {1})})
BufMemory == [a \in {10, 11, 20, 21} |-> 0]

(* The conditions of the theorems hold of this database.                   *)
ASSUME Conditions ==
  /\ MonitorShape /\ SuppliersAreNoTargets /\ ExclusiveCalls
  /\ StartsReleaseNothing /\ AllocatorsKnown
=============================================================================
