------------------------------- MODULE MCEpochs -------------------------------
(***************************************************************************)
(* One-sided communication, after the predefined contracts for MPI:        *)
(*   Put: PRE { (call!(Fence,0:0) ^ call!(Lock,0:0)),                      *)
(*              call_tag!(createwin,$:&0), param!(1:^=-1,>=0) }            *)
(* with a window handle and a rank.  Create stores the handle of the new   *)
(* window at the address it is given.  Integers of 4 bits travel in        *)
(* pointers of 6, so that 15 and 14 are the ranks -1 and -2, and 63 is the *)
(* constant -1.                                                            *)
(***************************************************************************)
EXTENDS Runtime, TLC

EpoFormula == {"pre", "epoch", "fence", "lock", "create", "rank"}
EpoParents ==
  ("pre" :> "null") @@ [f \in {"epoch", "create", "rank"} |-> "pre"]
    @@ [f \in {"fence", "lock"} |-> "epoch"]
EpoConn ==
  ("pre" :> "AND") @@ ("epoch" :> "XOR") @@ ("rank" :> "PARAM")
    @@ [f \in {"fence", "lock", "create"} |-> "CALL"]
EpoIsPre == [f \in EpoFormula |-> TRUE]
EpoAnalyses == <<"fence", "lock", "create", "rank">>

CallOp(target, acc) ==
  [supplier |-> "Put", targets |-> {target},
   params |-> {[contrP |-> 1, acc |-> acc, pos |-> (target :> {1})]}]
Req(comparator, value) ==
  [comparator |-> comparator, value |-> value, isArg |-> FALSE, reqval_need_deref |-> FALSE]
EpoOperation ==
  ("fence" :> CallOp("Fence", "NORMAL")) @@ ("lock" :> CallOp("Lock", "NORMAL"))
    @@ ("create" :> CallOp("Create", "ADDROF"))
    @@ ("rank" :> [supplier |-> "Put", idx |-> 2, size |-> 4, callval_need_deref |-> FALSE,
                   reqs |-> <<Req("EXEQ", 63), Req("GTEQ", 0)>>])

At(f, l, p) == [func |-> f, location |-> l, params |-> p, retval |-> 0, isRef |-> f = "Put"]
EpoCall ==
  {At("Create", "L1", <<1>>), At("Fence", "L2", <<7>>), At("Lock", "L3", <<7>>),
   At("Lock", "L4", <<8>>), At("Put", "L5", <<7, 15>>), At("Put", "L6", <<8, 14>>)}
Effect(stores) == [retval |-> 0, stores |-> stores, allocates |-> {}, frees |-> {}]
EpoReturns ==
  [f \in {"Fence", "Lock", "Put"} |-> {Effect({})}]
    @@ ("Create" :> {Effect({[param |-> 1, value |-> w]}) : w \in {7, 8}})
EpoMemory == 1 :> 0

(* The conditions of the theorems hold of this database.                   *)
ASSUME Conditions ==
  /\ MonitorShape /\ SuppliersAreNoTargets /\ ExclusiveCalls
  /\ StartsReleaseNothing /\ AllocatorsKnown
=============================================================================
