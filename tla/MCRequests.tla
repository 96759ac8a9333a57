------------------------------ MODULE MCRequests ------------------------------
(***************************************************************************)
(* Nonblocking communication, after the predefined contracts for MPI:      *)
(*   Isend: PRE { call!(Init) }                                            *)
(*          POST { (call!(Wait,0:0) | call!(Test,0:0)),                    *)
(*                 no!(call_tag!(request_gen,$:0)) until!(call!(Wait,0:0)) } *)
(* with the request as the only parameter.                                 *)
(***************************************************************************)
EXTENDS Runtime, TLC

ReqFormula == {"pre", "init", "post", "done", "wait", "test", "reuse"}
ReqParents ==
  [f \in {"pre", "post"} |-> "null"] @@ ("init" :> "pre")
    @@ [f \in {"done", "reuse"} |-> "post"] @@ [f \in {"wait", "test"} |-> "done"]
ReqConn ==
  [f \in {"pre", "post"} |-> "AND"] @@ ("done" :> "OR") @@ ("reuse" :> "RELEASE")
    @@ [f \in {"init", "wait", "test"} |-> "CALL"]
ReqIsPre == [f \in ReqFormula |-> f \in {"pre", "init"}]
ReqAnalyses == <<"init", "wait", "test", "reuse">>

Same(f) == {[contrP |-> 1, acc |-> "NORMAL", pos |-> (f :> {1})]}
CallOp(target, params) == [supplier |-> "Isend", targets |-> {target}, params |-> params]
ReqOperation ==
  ("init" :> CallOp("Init", {})) @@ ("wait" :> CallOp("Wait", Same("Wait")))
    @@ ("test" :> CallOp("Test", Same("Test")))
    @@ ("reuse" :> [supplier |-> "Isend", forbIsRW |-> FALSE, releases |-> {"Wait"},
                    relParams |-> Same("Wait"), forbidden |-> {"Isend"}, forbParams |-> Same("Isend")])

At(f, l, p) == [func |-> f, location |-> l, params |-> <<p>>, retval |-> 0, isRef |-> f = "Isend"]
ReqCall ==
  {At("Init", "L0", 0), At("Isend", "L1", 1), At("Isend", "L1", 2), At("Isend", "L2", 1),
   At("Wait", "L3", 1), At("Wait", "L3", 2), At("Test", "L4", 2)}
ReqReturns ==
  [f \in {"Init", "Isend", "Wait", "Test"} |->
     {[retval |-> 0, stores |-> {}, allocates |-> {}, frees |-> {}]}]
ReqMemory == 0 :> 0

(* The conditions of the theorems hold of this database.                   *)
ASSUME Conditions ==
  /\ MonitorShape /\ SuppliersAreNoTargets /\ ExclusiveCalls
  /\ StartsReleaseNothing /\ AllocatorsKnown
=============================================================================
