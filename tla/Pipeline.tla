------------------------------- MODULE Pipeline -------------------------------
(***************************************************************************)
(* From the contracts to the coverage check: the passes of one build       *)
(* (order of Scripts/CoVerWrapper.cpp), the processes that run the         *)
(* instrumented program and write their coverage files, and the check that *)
(* reads those files back (Dynamic/Hooks.cpp).                             *)
(*                                                                         *)
(* The program is a function Program from its sites, the instructions that *)
(* may get a callback, to records: a call has a callee; every site has a   *)
(* line and a column, which are all that a code reference keeps of it.     *)
(* What the optimiser leaves of a site is a set of instances, which may    *)
(* have another location.                                                  *)
(***************************************************************************)
EXTENDS StaticResolution, Coverage

CONSTANTS
  Program,    \* the sites of the program
  Elsewhere,  \* the locations an instruction may get that is moved or copied
  MaxTouched, \* bound: the sites one optimisation changes
  Databases   \* the sets of contracts to build with

(* Contracts have formulas, and a release is of an access or of calls,     *)
(* until calls.                                                            *)
ASSUME DatabasesAssumption ==
  /\ \A database \in Databases : \A c \in database : c.Pre \in Seq(DOMAIN Formula) /\ c.Post \in Seq(DOMAIN Formula)
  /\ \A f \in Leaf : Formula[f].kind = "RELEASE" =>
       Formula[f].forbidden.kind \in {"CALL", "CALLTAG", "READ", "WRITE"} /\ Formula[f].until.kind \in {"CALL", "CALLTAG"}

VARIABLES
  contracts,  \* the contract database
  mode,       \* the kind of instrumentation
  leafs,      \* status and error references of every operation
  code        \* the instances of the sites in the program

vars == <<contracts, mode, passes, leafs, err_msgs, code, callback, exited, visitedLocs, files, report>>

Site  == DOMAIN Program
Modes == {"full", "filtered", "funconly"}
PassList == <<"PreCall", "PostCall", "Release", "Param", "Alloc", "PostProcess", "Optimise", "Instrument">>

Reference(s)     == [line |-> Program[s].line, column |-> Program[s].column]
CallsOf(f)       == {s \in Site : Program[s].instr = "call" /\ Program[s].callee = f}
Accesses         == {s \in Site : Program[s].instr # "call"}
Leafs(scope)     == UNION {[func : {c.func}, leaf : Linearized(c[scope])] : c \in contracts}
AllLeafs         == {l.leaf : l \in Leafs("Pre") \cup Leafs("Post")}
ContractFuncs    == {c.func : c \in contracts}
Tagged(tag)      == {c.func : c \in {c \in contracts : tag \in c.tags}}

-----------------------------------------------------------------------------
(* Errors a verifier may report for an operation of function f: a call     *)
(* without the required one, or a forbidden operation and the call it      *)
(* belongs to.                                                             *)
Targets(op) ==
  CASE op.kind = "CALL"    -> CallsOf(op.target)
    [] op.kind = "CALLTAG" -> UNION {CallsOf(f) : f \in Tagged(op.target)}
    [] op.kind = "READ"    -> {s \in Site : Program[s].instr = "load"}
    [] op.kind = "WRITE"   -> {s \in Site : Program[s].instr = "store"}

Errors(f, leaf) ==
  IF Formula[leaf].kind = "RELEASE"
  THEN {{Reference(forbidden), Reference(call)} : forbidden \in Targets(Formula[leaf].forbidden), call \in CallsOf(f)}
  ELSE {{Reference(call)} : call \in CallsOf(f)}

Verdicts(f, leaf) == {Result("FULFILLED", {})} \cup {Result("BROKEN", refs) : refs \in Errors(f, leaf)}

Next1(pass) == passes # <<>> /\ Head(passes) = pass /\ passes' = Tail(passes)

(* One verifier: every operation of its kind in its scope gets a verdict.  *)
Verify(pass) ==
  /\ Next1(pass)
  /\ LET mine   == {l \in Leafs("Pre")  : Decides(pass, "Pre",  Formula[l.leaf].kind)}
                   \cup {l \in Leafs("Post") : Decides(pass, "Post", Formula[l.leaf].kind)}
         todo   == {l \in mine : leafs[l.leaf].status = "UNKNOWN"}
         kept   == IF pass # "Alloc" THEN {} ELSE {l \in Leafs("Post") : Promised("Post", Formula[l.leaf].kind)}
         all    == UNION {Verdicts(l.func, l.leaf) : l \in todo}
     IN  \E verdict \in [{l.leaf : l \in todo} -> all] :
           /\ \A l \in todo : verdict[l.leaf] \in Verdicts(l.func, l.leaf)
           /\ leafs' = [id \in DOMAIN leafs |->
                          IF id \in {l.leaf : l \in kept} THEN Result("FULFILLED", {})
                          ELSE IF id \in DOMAIN verdict THEN verdict[id] ELSE leafs[id]]
  /\ UNCHANGED <<contracts, mode, err_msgs, code, callback>> /\ Unchanged_run

PostProcess ==
  /\ Next1("PostProcess")
  /\ err_msgs' = Reported(contracts, leafs)
  /\ UNCHANGED <<contracts, mode, leafs, code, callback>> /\ Unchanged_run

(* The pipeline of the optimisation level runs between the reports and the *)
(* instrumentation.  It may drop an instruction or inline a call away,     *)
(* leave copies of it elsewhere, move it, or merge two into one; what it   *)
(* moves gets the location of something else, or none (line 0).            *)
Optimise ==
  /\ Next1("Optimise")
  /\ \E touched \in SUBSET Site :
       /\ Cardinality(touched) <= MaxTouched
       /\ \E dropped \in SUBSET touched, copies \in SUBSET [site : touched, loc : Elsewhere] :
            code' = {i \in code : i.site \notin dropped} \cup copies
  /\ UNCHANGED <<contracts, mode, leafs, err_msgs, callback>> /\ Unchanged_run

-----------------------------------------------------------------------------
(* Instrumentation.  Functions are mentioned by the call operations of the *)
(* emitted contracts, also below a release.                                *)
Mentioned_shallow(op) == IF op.kind = "CALL" THEN {op.target} ELSE {}
Mentioned(op) ==
  CASE op.kind = "CALL"    -> {op.target}
    [] op.kind = "RELEASE" -> {o.target : o \in {o \in {op.forbidden, op.until} : o.kind = "CALL"}}
    [] OTHER               -> {}

mentioned_funcs == UNION {Mentioned(Formula[leaf]) : leaf \in AllLeafs}

Intercepted == ContractFuncs \cup mentioned_funcs

isRelevant_before(i) == Reference(i.site) \in err_msgs
isRelevant(i) == i.loc \in err_msgs

HasCallback_filtered(i) ==
  /\ mode = "filtered" => isRelevant(i)
  /\ IF Program[i.site].instr = "call" THEN Program[i.site].callee \in Intercepted ELSE mode # "funconly"

(* insertCBIfNeeded: only accesses are filtered.                           *)
HasCallback(i) ==
  IF Program[i.site].instr = "call" THEN Program[i.site].callee \in Intercepted
  ELSE mode # "funconly" /\ (mode = "filtered" => isRelevant(i))

Callback(i) == IF ~HasCallback(i) THEN "none" ELSE IF isRelevant(i) THEN "relevant" ELSE "plain"

Instrument ==
  /\ Next1("Instrument")
  /\ callback' = [i \in code |-> Callback(i)]
  /\ UNCHANGED <<contracts, mode, leafs, err_msgs, code>> /\ Unchanged_run

-----------------------------------------------------------------------------
Init ==
  /\ contracts \in Databases
  /\ mode \in Modes
  /\ passes = PassList
  /\ leafs = [id \in AllLeafs |-> Result("UNKNOWN", {})]
  /\ err_msgs = {} /\ callback = <<>>
  /\ code = {[site |-> s, loc |-> Reference(s)] : s \in Site}
  /\ CoverageInit

PipelineConstant == UNCHANGED <<contracts, mode, leafs, code>>

Next ==
  \/ \E pass \in {"PreCall", "PostCall", "Release", "Param", "Alloc"} : Verify(pass)
  \/ PostProcess \/ Optimise \/ Instrument
  \/ (\E p \in Processes : printCoverageFile(p)) /\ PipelineConstant
  \/ CheckCoverage /\ PipelineConstant

PipelineSpec == Init /\ [][Next]_vars

-----------------------------------------------------------------------------
Forms(c) == Range(c.Pre) \cup Range(c.Post)

(* A static verdict says what the verdicts on the operations imply, and    *)
(* nothing that an undetermined operation could still change, whatever the *)
(* order of the children (resolveFormula).                                 *)
StaticVerdict ==
  passes # <<>> /\ Head(passes) = "PostProcess" =>
    \A c \in contracts : \A form \in Forms(c) : Agrees(form, leafs)

(* The instructions an error of an operation is about: calls of the        *)
(* function of the contract, and what the operation forbids.               *)
About(f, leaf) == CallsOf(f) \cup (IF Formula[leaf].kind = "RELEASE" THEN Targets(Formula[leaf].forbidden) ELSE {})
Culprits == UNION {About(l.func, l.leaf) : l \in Leafs("Pre") \cup Leafs("Post")}

(* What the build came to; no run changes any of it.                       *)
BuildEnded == Built /\ exited = {} /\ report = <<>>

(* Accesses are instrumented in two of the three modes only.               *)
Instrumented(i) == i.site \in Accesses => mode # "funconly"

(* An error that by itself breaks a reported contract is watched at run    *)
(* time: through resolveFormula, the report, the optimiser and the         *)
(* comparison of locations, every instance of an instruction the error is  *)
(* about that is now at one of its locations gets a relevant callback.     *)
FlatXOR[f \in DOMAIN Formula] ==
  \A c \in Below(f) : FlatXOR[c] /\ (Formula[f].kind = "XOR" => c \in Leaf)

FaultsAreWatched ==
  BuildEnded => \A i \in code : Instrumented(i) /\ callback[i] # "relevant" =>
    \A c \in contracts : \A form \in Forms(c) : \A leaf \in linearizeContractFormula[form] :
      /\ i.loc \in leafs[leaf].references /\ i.site \in About(c.func, leaf)
      /\ c.xres = "UNKNOWN" /\ FlatXOR[form]
      => ~ToBlame(form, leaf, leafs)

(* The coverage check asks for nothing that no run can pass: every         *)
(* reference of the report is where an instruction was that an error is    *)
(* about, and such instructions as are there after the optimisation have a *)
(* relevant callback, unless accesses are not instrumented.                *)
CoverageAttainable ==
  BuildEnded =>
    /\ err_msgs \subseteq {Reference(s) : s \in Culprits}
    /\ \A i \in code : isRelevant(i) /\ Instrumented(i) /\ callback[i] # "relevant" => i.site \notin Culprits

(* No analysis is deaf: every call the optimiser left of a function that   *)
(* an operation of a contract waits for is intercepted, in every mode.     *)
Listened(op) ==
  CASE op.kind = "CALL"    -> {op.target}
    [] op.kind = "CALLTAG" -> Tagged(op.target)
    [] op.kind = "ALLOC"   -> {l.func : l \in {l \in Leafs("Post") : Formula[l.leaf].kind \in {"ALLOC", "FREE"}}}
    [] OTHER               -> {}
Waited(op) == IF op.kind = "RELEASE" THEN Listened(op.forbidden) \cup Listened(op.until) ELSE Listened(op)

Heard ==
  BuildEnded => \A i \in code : Program[i.site].instr = "call" /\ callback[i] = "none" =>
    Program[i.site].callee \notin ContractFuncs \cup UNION {Waited(Formula[leaf]) : leaf \in AllLeafs}
=============================================================================
