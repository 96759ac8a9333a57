-------------------------------- MODULE Runtime --------------------------------
(***************************************************************************)
(* The running dynamic analyser (Dynamic/Hooks.cpp and Hooks.hpp): the     *)
(* instrumented program raises an event before, and after, each call it    *)
(* intercepts and before each load or store; the analyses registered for   *)
(* that event handle it one by one, and the verdict of one is propagated   *)
(* by Resolution before the next one is asked.                             *)
(*                                                                         *)
(* The program is the environment: it makes any sequence of the calls and  *)
(* accesses given as constants, may make some from inside a call that is   *)
(* being intercepted, and may exit wherever its own code runs.             *)
(***************************************************************************)
EXTENDS Resolution, Analyses

CONSTANTS
  operation,      \* analysed leaf -> the configuration of its analysis
  Call,           \* the calls the program makes: [func, location, params, retval, isRef]
  Access,         \* its accesses: [address, value, location, isWrite, isRef]
  returns,        \* func -> what it may do: [retval, stores, allocates, frees]
  Nesting,        \* the functions whose bodies are instrumented, too
  InitialMemory,  \* address -> its first content
  MaxEvents,      \* bound: calls and accesses of one execution
  MaxDepth        \* bound: calls that are intercepted at the same time

ASSUME EventsAssumption ==
  /\ DOMAIN operation = Analysed
  /\ MaxEvents \in Nat /\ MaxDepth \in Nat
  /\ \A c \in Call : c = [func |-> c.func, location |-> c.location, params |-> c.params,
                          retval |-> c.retval, isRef |-> c.isRef]
(* The constructor of ReleaseAnalysis fills in either a read or a write or *)
(* the forbidden functions; recurseCreateAnalyses hands the function of    *)
(* the contract down to all of its operations.                             *)
ASSUME OperationsAssumption ==
  /\ \A l \in Analysed : AnalysisOf(l) = "Release" /\ operation[l].forbIsRW => operation[l].forbidden = {}
  /\ \A l, g \in Analysed :
       Ancestors[l] \cap Ancestors[g] # {} => operation[l].supplier = operation[g].supplier

VARIABLES
  memory,         \* address -> content
  heap,           \* what its allocators returned and it did not free (environment)
  temporaries,    \* leaf -> what its analysis remembers
  analyses_with,  \* callback -> the analyses still registered for it
  stack,          \* the callbacks on the call stack, the running one last
  it,             \* position of the iterator of HANDLE_CALLBACK, or 0
  visitedLocs,    \* the relevant locations seen so far
  coverage_file,  \* what the destructor wrote
  history         \* every event so far, with the memory it saw (history variable)

rvars == <<memory, heap, temporaries, analyses_with, stack, it, visitedLocs,
           coverage_file, history>>
allvars == <<vars, rvars>>

Callbacks == {"funcPreCB", "funcPostCB", "memRCB", "memWCB"}

requiredCallbacks(l) ==
  CASE AnalysisOf(l) = "Alloc" -> {"funcPreCB", "funcPostCB"}
    [] AnalysisOf(l) = "Release" /\ operation[l].forbIsRW ->
         {"funcPreCB", IF operation[l].isWrite THEN "memWCB" ELSE "memRCB"}
    [] OTHER -> {"funcPreCB"}

Requiring(cb) == {l \in Analysed : cb \in requiredCallbacks(l)}

InitTemporaries(a) ==
  CASE a = "PreCall"  -> PreCallInit
    [] a = "PostCall" -> PostCallInit
    [] a = "Release"  -> ReleaseInit
    [] a = "Alloc"    -> AllocInit
    [] a = "Param"    -> ParamInit

(* PPDCV_Initialize: addAnalysis for every operation of every contract.    *)
RuntimeInit ==
  /\ Init
  /\ memory = InitialMemory
  /\ heap = {}
  /\ temporaries = [l \in Analysed |-> InitTemporaries(AnalysisOf(l))]
  /\ analyses_with = [cb \in Callbacks |-> Filter(all_analyses, Requiring(cb))]
  /\ stack = <<>>
  /\ it = 0
  /\ visitedLocs = {}
  /\ coverage_file = {}
  /\ history = <<>>

Top == stack[Len(stack)]
Popped_never == stack
Popped == SubSeq(stack, 1, Len(stack) - 1)

(* The program's own code is running.                                      *)
UserCode == exit_pos = 0 /\ it = 0
Calls(h) == {i \in DOMAIN h : h[i].kind = "call"}
Visit_callsOnly(e) ==
  visitedLocs' = IF e.isRef /\ "func" \in DOMAIN e THEN visitedLocs \cup {e.location} ELSE visitedLocs
Visit(e) == visitedLocs' = IF e.isRef THEN visitedLocs \cup {e.location} ELSE visitedLocs
Record(kind, e) ==
  history' = Append(history, [kind |-> kind, event |-> e, memory |-> memory, heap |-> heap])

-----------------------------------------------------------------------------
(* Start of HANDLE_CALLBACK: before an intercepted call, before a load or  *)
(* a store, and once the intercepted function has returned.                *)
Begin(cb, e) ==
  /\ UserCode
  /\ stack # <<>> => Top.event.func \in Nesting
  /\ Len(history) < MaxEvents
  /\ stack' = Append(stack, [cb |-> cb, event |-> e])
  /\ it' = 1
  /\ Visit(e)
  /\ UNCHANGED <<vars, memory, heap, temporaries, analyses_with, coverage_file>>

FunctionCallback(c) ==
  /\ Len(stack) < MaxDepth
  /\ Record("call", c)
  /\ Begin("funcPreCB", c)

MemCallback(a) ==
  /\ Record("access", a)
  /\ Begin(IF a.isWrite THEN "memWCB" ELSE "memRCB", a)

(* An allocator returns nothing that is allocated; null counts as a block, *)
(* so that one failed allocation at a time is outstanding.                 *)
FunctionReturns(r) ==
  /\ UserCode
  /\ stack # <<>>
  /\ r \in returns[Top.event.func]
  /\ \A b \in r.allocates, h \in heap : b.start # h.start
  /\ LET p     == Top.event.params
         after == [Top.event EXCEPT !.retval = r.retval]
     IN  /\ memory' = [a \in DOMAIN memory |->
                         IF \E s \in r.stores : p[s.param] = a
                         THEN (CHOOSE s \in r.stores : p[s.param] = a).value ELSE memory[a]]
         /\ heap' = {b \in heap : \A i \in r.frees : b.start # p[i]} \cup r.allocates
         /\ stack' = Append(Popped, [cb |-> "funcPostCB", event |-> after])
         /\ it' = 1
         /\ Visit(after)
  /\ UNCHANGED <<vars, temporaries, analyses_with, coverage_file, history>>

(* One round of the loop.  The analysis whose turn it is handles the       *)
(* event; with a verdict it leaves this list, and only this one.           *)
Turn == it \in DOMAIN analyses_with[Top.cb]
Asking_eagerly == it > 0 /\ Turn
Asking == frame = NoFormula /\ it > 0 /\ Turn
Erased_not(list) == list
Erased_next(list) == SubSeq(list, 1, it) \o SubSeq(list, it + 2, Len(list))
Erased(list) == Without(list, it)
Current == analyses_with[Top.cb][it]
Handled ==
  LET op == operation[Current]
      st == temporaries[Current]
      a  == AnalysisOf(Current)
      e  == Top.event
  IN  CASE Top.cb = "funcPreCB" /\ a = "PreCall"  -> PreCallOnCall(op, st, e.func, e, memory)
        [] Top.cb = "funcPreCB" /\ a = "PostCall" -> PostCallOnCall(op, st, e.func, e, memory)
        [] Top.cb = "funcPreCB" /\ a = "Release"  -> ReleaseOnCall(op, st, e.func, e, memory)
        [] Top.cb = "funcPreCB" /\ a = "Param"    -> ParamOnCall(op, st, e.func, e, memory)
        [] Top.cb = "funcPreCB" /\ a = "Alloc"    -> AllocOnCall(op, st, e.func, e)
        [] Top.cb = "funcPostCB" /\ a = "Alloc"   -> AllocAfterCall(op, st, e.func, e, memory)
        [] OTHER                                  -> ReleaseOnAccess(op, st, e.address)

KeepAnalysis ==
  /\ Asking
  /\ Handled.verdict = Unknown
  /\ temporaries' = [temporaries EXCEPT ![Current] = Handled.state]
  /\ it' = it + 1
  /\ UNCHANGED <<vars, memory, heap, analyses_with, stack, visitedLocs, coverage_file, history>>

SettleAnalysis ==
  /\ Asking
  /\ Handled.verdict # Unknown
  /\ temporaries' = [temporaries EXCEPT ![Current] = Handled.state]
  /\ contract_status' = IF Decided(Current) THEN contract_status
                        ELSE [contract_status EXCEPT ![Current] = Handled.verdict]
  /\ analysis_references' = analysis_references \cup {Current}
  /\ frame' = Current
  /\ analyses_with' = [analyses_with EXCEPT ![Top.cb] = Erased(@)]
  /\ UNCHANGED <<exit_pos, reported, noted, bare, memory, heap, stack, it, visitedLocs,
                 coverage_file, history>>

(* The loop is through: the intercepted function runs, the access happens, *)
(* or the callback returns to the program.                                 *)
EndOfList ==
  /\ frame = NoFormula
  /\ it > 0 /\ ~Turn
  /\ it' = 0
  /\ stack' = IF Top.cb = "funcPreCB" THEN stack ELSE Popped
  /\ memory' = IF Top.cb = "memWCB" THEN [memory EXCEPT ![Top.event.address] = Top.event.value]
               ELSE memory
  /\ UNCHANGED <<vars, heap, temporaries, analyses_with, visitedLocs, coverage_file, history>>

Resolve == ValidateState /\ UNCHANGED rvars

-----------------------------------------------------------------------------
(* exit runs the destructor, also from inside an intercepted call, whose   *)
(* second callback then never happens.                                     *)
ProgramExits == UserCode /\ StartExit /\ UNCHANGED rvars

onProgramExit(l) ==
  CASE AnalysisOf(l) = "PreCall"  -> "INACTIVE"
    [] AnalysisOf(l) = "PostCall" -> PostCallOnExit(temporaries[l])
    [] OTHER                      -> "FULFILLED"

DestructorConcludes == ExitConclude(onProgramExit(ExitLeaf)) /\ UNCHANGED rvars
DestructorAdvances  == ExitAdvance /\ UNCHANGED rvars

printCoverageFile ==
  /\ Done
  /\ visitedLocs # {} /\ coverage_file = {}
  /\ coverage_file' = visitedLocs
  /\ UNCHANGED <<vars, memory, heap, temporaries, analyses_with, stack, it, visitedLocs, history>>

Finished == Done /\ coverage_file = visitedLocs

RuntimeNext ==
  \/ \E c \in Call : FunctionCallback(c)
  \/ \E a \in Access : MemCallback(a)
  \/ \E r \in UNION {returns[f] : f \in DOMAIN returns} : FunctionReturns(r)
  \/ KeepAnalysis
  \/ SettleAnalysis
  \/ EndOfList
  \/ Resolve
  \/ ProgramExits
  \/ DestructorConcludes
  \/ DestructorAdvances
  \/ printCoverageFile
  \/ Finished /\ UNCHANGED allvars

RuntimeSpec == RuntimeInit /\ [][RuntimeNext]_allvars
-----------------------------------------------------------------------------
RuntimeTypeOK ==
  /\ TypeOK
  /\ DOMAIN memory = DOMAIN InitialMemory
  /\ DOMAIN temporaries = Analysed
  /\ \A cb \in Callbacks : \A i \in DOMAIN analyses_with[cb] : analyses_with[cb][i] \in Analysed
  /\ \A i \in DOMAIN stack : stack[i].cb \in Callbacks /\ (i > MaxDepth => stack[i].cb \in {"memRCB", "memWCB"})
  /\ it \in 0..(Len(all_analyses) + 1)
  /\ coverage_file \subseteq visitedLocs
  /\ Len(history) <= MaxEvents

(* Between two callbacks, and between two steps of the destructor.         *)
Quiet == it = 0 /\ frame = NoFormula

Analyses(a) == {l \in Analysed : AnalysisOf(l) = a}
Min(S) == CHOOSE i \in S : \A j \in S : i <= j

(* Conditions on the contracts that some of the theorems have.  A call!    *)
(* that names its own supplier as a target waits for ever; an exclusive or *)
(* of other operations than calls is broken at the exit by those that were *)
(* never called; and where the call that starts a no! until! is also one   *)
(* that releases it, the code takes a call that released another one for a *)
(* release only, and does not start the operation anew.                    *)
SuppliersAreNoTargets ==
  \A l \in Analyses("PreCall") : operation[l].supplier \notin operation[l].targets
ExclusiveCalls ==
  \A p \in Formula : conn[p] = "XOR" /\ isPre[p] => children[p] \subseteq Analyses("PreCall")
StartsReleaseNothing ==
  \A l \in Analyses("Release") : operation[l].supplier \notin operation[l].releases
(* The allocators that an alloc! names are those of the program: each call *)
(* returns one block, of the computed size and found where the operation   *)
(* says; a deallocator takes back what it was given; no other function     *)
(* does either, nor both.  And buffers are numbers.                        *)
Yields(a, e, r, b) ==
  LET where == IF a.ptr = RetSym THEN e.retval ELSE e.params[a.ptr]
  IN  /\ b = [start |-> b.start, size |-> Product(a.factors, e)]
      /\ b.start \in Int /\ b.size \in Nat \ {0}
      /\ IF a.acc = "DEREF"
         THEN /\ where \in DOMAIN InitialMemory
              /\ \E s \in r.stores : e.params[s.param] = where
              /\ \A s \in r.stores : e.params[s.param] = where => s.value = b.start
         ELSE where = b.start
AllocatorsKnown ==
  \A l \in Analyses("Alloc"), c \in Call :
    LET op == operation[l]
        gone(r) == IF op.deallocators[c.func] = RetSym THEN r.retval
                   ELSE c.params[op.deallocators[c.func]]
    IN  /\ c.func = op.supplier => c.params[op.idx] \in Int
        /\ \A r \in returns[c.func] :
             IF c.func \in DOMAIN op.allocators
             THEN /\ r.frees = {}
                  /\ \E b \in r.allocates : r.allocates = {b} /\
                       Yields(op.allocators[c.func], [c EXCEPT !.retval = r.retval], r, b)
             ELSE /\ r.allocates = {}
                  /\ {c.params[i] : i \in r.frees} =
                       IF c.func \in DOMAIN op.deallocators THEN {gone(r)} ELSE {}

(* The trace semantics of the operations: positions in the history at      *)
(* which the supplier was called, and whether the call at "target" carries *)
(* a matching parameter of the one at "supplied", as memory is at "now".   *)
CallsOf(funcs) == {i \in Calls(history) : history[i].event.func \in funcs}
Supplied(l) == CallsOf({operation[l].supplier} \ operation[l].targets)
Matches(params, target, supplied, now) ==
  \/ params = {}
  \/ checkFuncCallMatch(history[now].memory, history[target].event.func, params,
                        history[target].event.params, history[supplied].event.params)
SameLocation(i, j) == history[i].event.location = history[j].event.location

Supported(l, i) ==
  \E k \in CallsOf(operation[l].targets) : k < i /\ Matches(operation[l].params, k, i, i)

(* call! in a precondition is decided by the supplier's first call, before *)
(* it runs, and demands a matching call before that one; a supplier that   *)
(* was never called leaves it undecided, or inactive after the exit.       *)
PreCallExact ==
  Quiet => \A l \in Analyses("PreCall") :
    IF Supplied(l) = {} THEN contract_status[l] \in {Absent, "INACTIVE"}
    ELSE contract_status[l] = IF Supported(l, Min(Supplied(l))) THEN "FULFILLED" ELSE "VIOLATED"

Answered(l, i) ==
  \E k \in CallsOf(operation[l].targets) : k > i /\ Matches(operation[l].params, k, i, k)
Outstanding(l) ==
  {i \in Supplied(l) : /\ ~Answered(l, i)
                       /\ ~\E j \in Supplied(l) : j > i /\ SameLocation(i, j)}

(* call! in a postcondition: what the analysis still waits for is, at any  *)
(* time, the latest call of the supplier from each location that no later  *)
(* target call answered, and the verdict at the exit follows from it.      *)
PostCallExact ==
  Quiet => \A l \in Analyses("PostCall") :
    /\ temporaries[l].unchecked = {history[i].event : i \in Outstanding(l)}
    /\ Decided(l) => contract_status[l] = IF Outstanding(l) = {} THEN "FULFILLED" ELSE "VIOLATED"

(* What the call of the supplier at i forbids is still forbidden at k.     *)
Protects(l, i, k) ==
  LET op == operation[l]
      starts == CallsOf({op.supplier})
  IN  /\ i \in starts /\ i < k
      /\ ~\E j \in starts : i < j /\ j < k /\ SameLocation(i, j)
      /\ ~\E m \in CallsOf(op.releases) : i < m /\ m < k /\ Matches(op.relParams, m, i, m)
Forbidden(l, i, k) ==
  LET op == operation[l]
      e  == history[k].event
  IN  IF history[k].kind = "access"
      THEN /\ op.forbIsRW /\ op.rwAcc = "DEREF"
           /\ e.isWrite <=> op.isWrite
           /\ e.address = history[i].event.params[op.rwIdx]
      ELSE e.func \in op.forbidden \ op.releases /\ Matches(op.forbParams, k, i, k)

(* no! ... until!: violated as soon as a forbidden call or access happens  *)
(* while some call of the supplier is unreleased, and never otherwise: the *)
(* call sites and the addresses they protect stay in step.  A call that    *)
(* releases violates nothing, even where it is forbidden, too.             *)
ReleaseExact ==
  Quiet => \A l \in Analyses("Release") :
    contract_status[l] = "VIOLATED" <=>
      \E i, k \in DOMAIN history : Protects(l, i, k) /\ Forbidden(l, i, k)

(* alloc!: violated exactly when the supplier was called with a pointer    *)
(* outside of every block that was allocated and not yet freed, whatever   *)
(* allocations and frees ran in between, and inside which calls; null is   *)
(* such a block once an allocation has failed.                             *)
AllocExact ==
  Quiet => \A l \in Analyses("Alloc") :
    contract_status[l] = "VIOLATED" <=>
      \E i \in CallsOf({operation[l].supplier}) :
        \A b \in history[i].heap :
          history[i].event.params[operation[l].idx] \notin b.start..(b.start + b.size - 1)

(* An exclusive or of calls in a precondition: violated exactly when the   *)
(* supplier's first call had none of the alternatives, or several.         *)
ExclusivePreCalls ==
  Quiet => \A p \in Formula : conn[p] = "XOR" /\ children[p] \subseteq Analyses("PreCall") =>
    LET supported == {l \in children[p] : Supplied(l) # {} /\ Supported(l, Min(Supplied(l)))}
    IN  contract_status[p] = "VIOLATED" <=>
          /\ \A l \in children[p] : Supplied(l) # {}
          /\ supported = {} \/ Several(supported)

(* A precondition of calls is not reported before, at the exit or after it *)
(* when the supplier was never called.                                     *)
UncalledContractsSilent ==
  \A l \in Analyses("PreCall") :
    Supplied(l) = {} => \A r \in Ancestors[l] : contract_status[r] # "VIOLATED"

(* Removing an analysis from the list that is being iterated loses no      *)
(* other one: the undecided ones stay registered once, in creation order.  *)
UndecidedStayRegistered ==
  LET undecided == {l \in Analysed : ~Decided(l)}
  IN  \A cb \in Callbacks :
        Filter(analyses_with[cb], undecided) = Filter(all_analyses, Requiring(cb) \cap undecided)

(* The coverage file names every relevant location the program reached,    *)
(* also those it reached when no analysis was left to handle the event.    *)
CoverageComplete ==
  Finished => coverage_file =
    {history[i].event.location : i \in {k \in DOMAIN history : history[k].event.isRef}}
=============================================================================
