---------------------------- MODULE RuntimeProofs ----------------------------
(***************************************************************************)
(* Theorems about the running dynamic analyser, for every program and      *)
(* every contract database.                                                *)
(*                                                                         *)
(* RInv is the inductive invariant of the callbacks: the stack, the lists  *)
(* of registered analyses and what has been recorded.  With it every step  *)
(* of the analyser is a step of the verdict engine, or leaves it alone, so *)
(* that what ResolutionProofs shows of the engine holds of the analyser.   *)
(*                                                                         *)
(* The second half shows that the verdicts of PreCall and PostCall are     *)
(* what their operations mean on the history of the program.  While the    *)
(* loop of a callback runs, the analyses it has passed know the latest     *)
(* event and those it has not yet reached do not.  So what an analysis     *)
(* remembers is described by the part of the history it has seen.          *)
(***************************************************************************)
EXTENDS Runtime, ResolutionProofs, ListProofs

(* The callback in which the analysis at l may come to a verdict.          *)
Deciding(l) ==
  IF AnalysisOf(l) = "Release" /\ operation[l].forbIsRW
  THEN IF operation[l].isWrite THEN "memWCB" ELSE "memRCB"
  ELSE "funcPreCB"

(* Below the running callback are the intercepted calls the program has    *)
(* not returned from, and all of them are in the history.                  *)
StackInv ==
  /\ IsList(stack)
  /\ it \in Nat
  /\ it > 0 => exit_pos = 0 /\ Len(stack) > 0
  /\ \A i \in 1..Len(stack) :
       /\ stack[i].cb \in Callbacks
       /\ stack[i].cb # "funcPreCB" => it > 0 /\ i = Len(stack)
       /\ stack[i].cb = "funcPreCB" =>
            \E k \in 1..Len(history) : history[k].kind = "call" /\ history[k].event = stack[i].event
  /\ \/ Len(stack) <= MaxDepth
     \/ Len(stack) = MaxDepth + 1 /\ it > 0 /\ Top.cb \in {"memRCB", "memWCB"}

(* The latest event is the one that is being handled, except while an      *)
(* intercepted function returns.                                           *)
HistoryInv ==
  /\ IsList(history) /\ Len(history) <= MaxEvents
  /\ \A k \in 1..Len(history) : /\ history[k].kind \in {"call", "access"}
                                /\ history[k].kind = "call" => history[k].event \in Call
  /\ it > 0 /\ Top.cb # "funcPostCB" =>
       /\ Len(history) > 0
       /\ history[Len(history)].event = Top.event
       /\ history[Len(history)].memory = memory
       /\ history[Len(history)].kind = IF Top.cb = "funcPreCB" THEN "call" ELSE "access"
       /\ Top.cb # "funcPreCB" => Top.cb = IF Top.event.isWrite THEN "memWCB" ELSE "memRCB"

ListsInv ==
  /\ DOMAIN analyses_with = Callbacks
  /\ \A cb \in Callbacks :
       /\ analyses_with[cb] \in Seq(Requiring(cb))
       /\ Distinct(analyses_with[cb])
       /\ Len(analyses_with[cb]) <= Len(all_analyses)
  /\ it <= Len(all_analyses) + 1

(* An analysis that may still come to a verdict has none yet.              *)
ListedUndecided ==
  exit_pos = 0 => \A l \in Analysed : l \in Elements(analyses_with[Deciding(l)]) => ~Decided(l)

LocationsOf(h) == {h[i].event.location : i \in {k \in DOMAIN h : h[k].event.isRef}}
DataInv ==
  /\ DOMAIN memory = DOMAIN InitialMemory
  /\ DOMAIN temporaries = Analysed
  /\ visitedLocs = LocationsOf(history)
  /\ coverage_file \subseteq visitedLocs

RInv == StackInv /\ HistoryInv /\ ListsInv /\ ListedUndecided /\ DataInv

-----------------------------------------------------------------------------
(* The analysis whose turn it is, and what it may conclude.                *)
LEMMA RequiringFacts ==
  ASSUME NEW l \in Analysed, NEW cb, cb \in requiredCallbacks(l)
  PROVE  /\ AnalysisOf(l) \in {"PreCall", "PostCall", "Release", "Param", "Alloc"}
         /\ cb \in Callbacks
         /\ cb = "funcPostCB" => AnalysisOf(l) = "Alloc"
         /\ cb \in {"memRCB", "memWCB"} => /\ AnalysisOf(l) = "Release" /\ operation[l].forbIsRW
                                          /\ cb = Deciding(l)
         /\ AnalysisOf(l) # "Release" => Deciding(l) = "funcPreCB"
<1>1. AnalysisOf(l) \in {"PreCall", "PostCall", "Release", "Param", "Alloc"}
  BY DEF Analysed, AnalysisOf
<1>2. cb \in Callbacks
  BY DEF requiredCallbacks, Callbacks
<1>3. QED
  BY <1>1, <1>2 DEF requiredCallbacks, Deciding

(* The analysis whose turn it is.                                          *)
LEMMA CurrentFacts ==
  ASSUME StackInv, ListsInv, it > 0, Turn
  PROVE  /\ exit_pos = 0 /\ Len(stack) > 0
         /\ Top.cb \in Callbacks
         /\ analyses_with[Top.cb] \in Seq(Requiring(Top.cb))
         /\ Len(analyses_with[Top.cb]) \in Nat
         /\ it \in 1..Len(analyses_with[Top.cb])
         /\ Current \in Analysed /\ Top.cb \in requiredCallbacks(Current)
         /\ Current \in Elements(analyses_with[Top.cb])
<1>1. exit_pos = 0 /\ Len(stack) \in Nat /\ Len(stack) > 0
  BY ListFacts DEF StackInv
<1>2. Top.cb \in Callbacks
  BY <1>1 DEF StackInv, Top
<1>3. analyses_with[Top.cb] \in Seq(Requiring(Top.cb))
  BY <1>2 DEF ListsInv
<1>4. Len(analyses_with[Top.cb]) \in Nat /\ it \in 1..Len(analyses_with[Top.cb])
  BY <1>3, LenProperties DEF Turn
<1>5. Current \in Requiring(Top.cb)
  BY <1>3, <1>4, ElementOfSeq DEF Current
<1>6. QED
  BY <1>1, <1>2, <1>3, <1>4, <1>5 DEF Requiring, Elements, Current

(* A verdict comes in the deciding callback, and is one the analysis may   *)
(* give.                                                                   *)
LEMMA VerdictFacts ==
  ASSUME StackInv, ListsInv, it > 0, Turn, Handled.verdict # Unknown
  PROVE  Top.cb = Deciding(Current) /\ Handled.verdict \in RunVerdicts(AnalysisOf(Current))
<1> DEFINE l  == Current
           a  == AnalysisOf(l)
           op == operation[l]
           st == temporaries[l]
           e  == Top.event
<1>1. l \in Analysed /\ Top.cb \in Callbacks /\ Top.cb \in requiredCallbacks(l)
  BY CurrentFacts
<1>2. /\ a \in {"PreCall", "PostCall", "Release", "Param", "Alloc"}
      /\ Top.cb = "funcPostCB" => a = "Alloc"
      /\ Top.cb \in {"memRCB", "memWCB"} => a = "Release" /\ op.forbIsRW /\ Top.cb = Deciding(l)
      /\ a # "Release" => Deciding(l) = "funcPreCB"
  BY <1>1, RequiringFacts
<1>3. CASE Top.cb = "funcPreCB"
  <2>1. CASE a = "PreCall"
    <3>1. Handled = PreCallOnCall(op, st, e.func, e, memory)
      BY <1>3, <2>1 DEF Handled
    <3>2. QED
      BY <1>2, <1>3, <2>1, <3>1 DEF PreCallOnCall, PreCallVerdict, Result, RunVerdicts, Unknown
  <2>2. CASE a = "PostCall"
    <3>1. Handled = PostCallOnCall(op, st, e.func, e, memory)
      BY <1>3, <2>2 DEF Handled
    <3>2. QED
      BY <3>1 DEF PostCallOnCall, Result
  <2>3. CASE a = "Release"
    <3>1. Handled = ReleaseOnCall(op, st, e.func, e, memory)
      BY <1>3, <2>3 DEF Handled
    <3>2. Handled.verdict = "VIOLATED" /\ op.forbidden # {}
      BY <3>1 DEF ReleaseOnCall, Result
    <3>3. ~op.forbIsRW
      BY <1>1, <2>3, <3>2, OperationsAssumption
    <3>4. QED
      BY <1>3, <2>3, <3>2, <3>3 DEF RunVerdicts, Deciding
  <2>4. CASE a = "Param"
    <3>1. Handled = ParamOnCall(op, st, e.func, e, memory)
      BY <1>3, <2>4 DEF Handled
    <3>2. Handled.verdict \in {Unknown, "FULFILLED", "VIOLATED"}
      BY <3>1 DEF ParamOnCall, Result
    <3>3. QED
      BY <1>2, <1>3, <2>4, <3>2 DEF RunVerdicts
  <2>5. CASE a = "Alloc"
    <3>1. Handled = AllocOnCall(op, st, e.func, e)
      BY <1>3, <2>5 DEF Handled
    <3>2. QED
      BY <1>2, <1>3, <2>5, <3>1 DEF AllocOnCall, Result, RunVerdicts
  <2>6. QED
    BY <1>2, <2>1, <2>2, <2>3, <2>4, <2>5
<1>4. CASE Top.cb = "funcPostCB"
  <2>1. Handled = AllocAfterCall(op, st, e.func, e, memory)
    BY <1>2, <1>4 DEF Handled
  <2>2. QED
    BY <2>1 DEF AllocAfterCall, Result
<1>5. CASE Top.cb \in {"memRCB", "memWCB"}
  <2>1. Handled = ReleaseOnAccess(op, st, e.address)
    BY <1>2, <1>5 DEF Handled
  <2>2. QED
    BY <1>2, <1>5, <2>1 DEF ReleaseOnAccess, Result, RunVerdicts
<1>6. QED
  BY <1>1, <1>3, <1>4, <1>5 DEF Callbacks

-----------------------------------------------------------------------------
(* What the actions do to the stack and to the history.                    *)
LEMMA EventFacts ==
  ASSUME StackInv, HistoryInv, NEW kind, NEW cb, NEW e, Record(kind, e), Begin(cb, e)
  PROVE  /\ exit_pos = 0 /\ it = 0 /\ it' = 1
         /\ IsList(stack') /\ Len(stack) \in Nat /\ Len(stack') = Len(stack) + 1
         /\ \A i \in 1..Len(stack) : stack'[i] = stack[i] /\ stack[i].cb = "funcPreCB"
         /\ stack'[Len(stack')] = Top' /\ Top'.cb = cb /\ Top'.event = e
         /\ IsList(history') /\ Len(history) \in Nat /\ Len(history') = Len(history) + 1
         /\ Len(history') <= MaxEvents
         /\ \A k \in 1..Len(history) : history'[k] = history[k]
         /\ history'[Len(history')].kind = kind
         /\ history'[Len(history')].event = e
         /\ history'[Len(history')].memory = memory
         /\ history'[Len(history')].heap = heap
<1>1. exit_pos = 0 /\ it = 0 /\ it' = 1 /\ Len(history) < MaxEvents
  BY DEF Begin, UserCode
<1> DEFINE f == [cb |-> cb, event |-> e]
           r == [kind |-> kind, event |-> e, memory |-> memory, heap |-> heap]
<1>2. stack' = Append(stack, f) /\ history' = Append(history, r)
  BY DEF Begin, Record
<1>3. IsList(stack) /\ IsList(history)
  BY DEF StackInv, HistoryInv
<1>4. f.cb = cb /\ f.event = e /\ r.kind = kind /\ r.event = e /\ r.memory = memory /\ r.heap = heap
  OBVIOUS
<1> HIDE DEF f, r
<1>5. /\ IsList(stack') /\ Len(stack) \in Nat /\ Len(stack') = Len(stack) + 1
      /\ stack'[Len(stack')] = f /\ \A i \in 1..Len(stack) : stack'[i] = stack[i]
  <2>1. Extends(stack', stack, f)
    BY <1>2, <1>3, ListAppend
  <2>2. QED
    BY <2>1 DEF Extends
<1>6. /\ IsList(history') /\ Len(history) \in Nat /\ Len(history') = Len(history) + 1
      /\ history'[Len(history')] = r /\ \A i \in 1..Len(history) : history'[i] = history[i]
  <2>1. Extends(history', history, r)
    BY <1>2, <1>3, ListAppend
  <2>2. QED
    BY <2>1 DEF Extends
<1>7. Top' = f /\ stack'[Len(stack')] = Top'
  BY <1>5 DEF Top
<1>8. \A i \in 1..Len(stack) : stack[i].cb = "funcPreCB"
  BY <1>1 DEF StackInv
<1>9. Len(history') <= MaxEvents
  BY <1>1, <1>6, EventsAssumption
<1>10. QED
  BY <1>1, <1>4, <1>5, <1>6, <1>7, <1>8, <1>9

(* What the return of an intercepted function does to the stack.           *)
LEMMA ReturnFacts ==
  ASSUME StackInv, HistoryInv, NEW r, FunctionReturns(r)
  PROVE  /\ exit_pos = 0 /\ it = 0 /\ it' = 1
         /\ IsList(stack') /\ Len(stack) \in Nat /\ Len(stack) > 0 /\ Len(stack') = Len(stack)
         /\ \A i \in 1..Len(stack) - 1 : stack'[i] = stack[i]
         /\ \A i \in 1..Len(stack) : stack[i].cb = "funcPreCB"
         /\ stack'[Len(stack')] = Top' /\ Top'.cb = "funcPostCB"
         /\ Top'.event = [Top.event EXCEPT !.retval = r.retval]
         /\ Visit(Top'.event)
         /\ Top.event \in Call
         /\ \E k \in 1..Len(history) : history[k].event = Top.event
<1> DEFINE f == [cb |-> "funcPostCB", event |-> [Top.event EXCEPT !.retval = r.retval]]
<1>1. exit_pos = 0 /\ it = 0 /\ it' = 1 /\ stack # <<>>
  BY DEF FunctionReturns, UserCode
<1>2. IsList(stack) /\ Len(stack) > 0
  BY <1>1, ListFacts DEF StackInv
<1>3. stack' = Append(Popped, f) /\ Visit(f.event)
  BY DEF FunctionReturns
<1>4. f.cb = "funcPostCB" /\ f.event = [Top.event EXCEPT !.retval = r.retval]
  OBVIOUS
<1> HIDE DEF f
<1>5. /\ IsList(Popped) /\ Len(stack) \in Nat /\ Len(Popped) = Len(stack) - 1
      /\ \A n \in 1..Len(stack) - 1 : Popped[n] = stack[n]
  BY <1>2, ListFront DEF Popped
<1>6. /\ IsList(stack') /\ Len(stack') = Len(Popped) + 1
      /\ stack'[Len(stack')] = f /\ \A i \in 1..Len(Popped) : stack'[i] = Popped[i]
  <2>1. Extends(stack', Popped, f)
    BY <1>3, <1>5, ListAppend
  <2>2. QED
    BY <2>1 DEF Extends
<1>7. Top' = f /\ stack'[Len(stack')] = Top'
  BY <1>6 DEF Top
<1>8. \A i \in 1..Len(stack) : stack[i].cb = "funcPreCB"
  BY <1>1 DEF StackInv
<1>9. \E k \in 1..Len(history) : history[k].kind = "call" /\ history[k].event = Top.event
  BY <1>2, <1>5, <1>8 DEF StackInv, Top
<1>10. Top.event \in Call
  BY <1>9 DEF HistoryInv
<1>11. QED
  BY <1>1, <1>2, <1>3, <1>4, <1>5, <1>6, <1>7, <1>8, <1>9, <1>10

(* What the end of a callback does to the stack.                           *)
LEMMA EndFacts ==
  ASSUME StackInv, EndOfList
  PROVE  /\ exit_pos = 0 /\ it > 0 /\ it' = 0
         /\ IsList(stack') /\ Len(stack) \in Nat /\ Len(stack) > 0
         /\ Len(stack') = IF Top.cb = "funcPreCB" THEN Len(stack) ELSE Len(stack) - 1
         /\ \A i \in 1..Len(stack') : stack'[i] = stack[i] /\ stack[i].cb = "funcPreCB"
         /\ Top = stack[Len(stack)] /\ Top.cb \in Callbacks
<1>1. exit_pos = 0 /\ it > 0 /\ it' = 0 /\ IsList(stack) /\ Len(stack) > 0 /\ Len(stack) \in Nat
  BY ListFacts DEF EndOfList, StackInv
<1>2. /\ IsList(Popped) /\ Len(Popped) = Len(stack) - 1
      /\ \A n \in 1..Len(stack) - 1 : Popped[n] = stack[n]
  BY <1>1, ListFront DEF Popped
<1>3. Top = stack[Len(stack)] /\ Top.cb \in Callbacks
  BY <1>1 DEF Top, StackInv
<1>4. \A i \in 1..Len(stack) - 1 : stack[i].cb = "funcPreCB"
  BY <1>1 DEF StackInv
<1>5. CASE Top.cb = "funcPreCB"
  BY <1>1, <1>3, <1>4, <1>5 DEF EndOfList
<1>6. CASE Top.cb # "funcPreCB"
  <2>1. stack' = Popped
    BY <1>6 DEF EndOfList
  <2>2. QED
    BY <1>1, <1>2, <1>3, <1>4, <1>6, <2>1
<1>7. QED
  BY <1>5, <1>6

(* The verdict engine or the destructor is at work.                        *)
EngineStep ==
  /\ Resolve \/ ProgramExits \/ DestructorConcludes \/ DestructorAdvances
       \/ printCoverageFile \/ UNCHANGED allvars

(* What validateState and the destructor leave alone.                      *)
LEMMA EngineFacts ==
  ASSUME StackInv, EngineStep
  PROVE  /\ UNCHANGED <<memory, heap, temporaries, analyses_with, stack, it, visitedLocs, history>>
         /\ coverage_file' \in {coverage_file, visitedLocs}
         /\ it > 0 => exit_pos' = exit_pos
         /\ exit_pos' = 0 => exit_pos = 0
<1> USE DEF StackInv
<1>1. CASE Resolve
  BY <1>1 DEF Resolve, ValidateState, ParentAlreadyDecided, NothingToPropagate, ReportRoot,
              Propagate, rvars
<1>2. CASE ProgramExits
  BY <1>2 DEF ProgramExits, StartExit, UserCode, rvars
<1>3. CASE DestructorConcludes
  BY <1>3 DEF DestructorConcludes, ExitConclude, rvars
<1>4. CASE DestructorAdvances
  <2>1. exit_pos \in 1..Len(all_analyses) /\ exit_pos' = exit_pos + 1 /\ UNCHANGED rvars
    BY <1>4 DEF DestructorAdvances, ExitAdvance
  <2>2. exit_pos # 0 /\ exit_pos' # 0
    BY <2>1
  <2>3. QED
    BY <2>1, <2>2 DEF rvars
<1>5. CASE printCoverageFile
  BY <1>5 DEF printCoverageFile, vars
<1>6. CASE UNCHANGED allvars
  BY <1>6 DEF allvars, vars, rvars
<1>7. QED
  BY <1>1, <1>2, <1>3, <1>4, <1>5, <1>6 DEF EngineStep

(* The kinds of steps of the running analyser.                             *)
LEMMA RuntimeCases ==
  ASSUME [RuntimeNext]_allvars
  PROVE  \/ \E c \in Call : FunctionCallback(c)
         \/ \E a \in Access : MemCallback(a)
         \/ \E r : FunctionReturns(r)
         \/ KeepAnalysis \/ SettleAnalysis \/ EndOfList \/ EngineStep
<1>1. CASE RuntimeNext
  BY <1>1 DEF RuntimeNext, EngineStep
<1>2. CASE UNCHANGED allvars
  BY <1>2 DEF EngineStep
<1>3. QED
  BY <1>1, <1>2

(* The beginning of an event keeps the stack in order.                     *)
LEMMA EventStack ==
  ASSUME StackInv, HistoryInv, NEW kind, NEW cb \in {"funcPreCB", "memRCB", "memWCB"}, NEW e,
         Record(kind, e), Begin(cb, e),
         cb = "funcPreCB" => kind = "call" /\ Len(stack) < MaxDepth
  PROVE  StackInv'
<1>1. /\ exit_pos' = 0 /\ it' = 1
      /\ IsList(stack') /\ Len(stack) \in Nat /\ Len(stack') = Len(stack) + 1
      /\ \A i \in 1..Len(stack) : stack'[i] = stack[i] /\ stack[i].cb = "funcPreCB"
      /\ stack'[Len(stack')] = Top' /\ Top'.cb = cb /\ Top'.event = e
  BY EventFacts DEF Begin, vars
<1>2. /\ Len(history) \in Nat /\ Len(history') = Len(history) + 1
      /\ \A k \in 1..Len(history) : history'[k] = history[k]
      /\ history'[Len(history')].kind = kind /\ history'[Len(history')].event = e
  BY EventFacts
<1>3. ASSUME NEW i \in 1..Len(stack')
      PROVE  /\ stack'[i].cb \in Callbacks
             /\ stack'[i].cb # "funcPreCB" => it' > 0 /\ i = Len(stack')
             /\ stack'[i].cb = "funcPreCB" =>
                  \E k \in 1..Len(history') : history'[k].kind = "call" /\ history'[k].event = stack'[i].event
  <2>1. CASE i \in 1..Len(stack)
    <3>1. stack'[i] = stack[i] /\ stack[i].cb = "funcPreCB"
      BY <1>1, <2>1
    <3>2. PICK k \in 1..Len(history) : history[k].kind = "call" /\ history[k].event = stack[i].event
      BY <2>1, <3>1 DEF StackInv
    <3>3. k \in 1..Len(history') /\ history'[k] = history[k]
      BY <1>2, <3>2
    <3>4. QED
      BY <3>1, <3>2, <3>3 DEF Callbacks
  <2>2. CASE i = Len(stack')
    <3>1. Len(history') \in 1..Len(history')
      BY <1>2
    <3>2. QED
      BY <1>1, <1>2, <2>2, <3>1 DEF Callbacks
  <2>3. QED
    BY <1>1, <2>1, <2>2
<1>4. \/ Len(stack') <= MaxDepth
      \/ Len(stack') = MaxDepth + 1 /\ it' > 0 /\ Top'.cb \in {"memRCB", "memWCB"}
  <2>1. Len(stack) <= MaxDepth /\ MaxDepth \in Nat
    BY EventsAssumption DEF StackInv, Begin, UserCode
  <2>2. QED
    BY <1>1, <2>1
<1>5. QED
  BY <1>1, <1>3, <1>4 DEF StackInv

(* Every step keeps the stack in order.                                    *)
LEMMA StackStep ==
  ASSUME StackInv, HistoryInv, [RuntimeNext]_allvars
  PROVE  StackInv'
<1>1. ASSUME NEW c \in Call, FunctionCallback(c)
      PROVE  StackInv'
  <2>1. Record("call", c) /\ Begin("funcPreCB", c) /\ Len(stack) < MaxDepth
    BY <1>1 DEF FunctionCallback
  <2>2. QED
    BY <2>1, EventStack
<1>2. ASSUME NEW a \in Access, MemCallback(a)
      PROVE  StackInv'
  <2> DEFINE cb == IF a.isWrite THEN "memWCB" ELSE "memRCB"
  <2>1. Record("access", a) /\ Begin(cb, a)
    BY <1>2 DEF MemCallback
  <2>2. cb \in {"memRCB", "memWCB"}
    OBVIOUS
  <2> HIDE DEF cb
  <2>3. QED
    BY <2>1, <2>2, EventStack
<1>3. ASSUME NEW r, FunctionReturns(r)
      PROVE  StackInv'
  <2>1. UNCHANGED <<exit_pos, history>>
    BY <1>3 DEF FunctionReturns, vars
  <2>2. /\ exit_pos' = 0 /\ it = 0 /\ it' = 1
        /\ IsList(stack') /\ Len(stack) \in Nat /\ Len(stack) > 0 /\ Len(stack') = Len(stack)
        /\ \A i \in 1..Len(stack) - 1 : stack'[i] = stack[i]
        /\ \A i \in 1..Len(stack) : stack[i].cb = "funcPreCB"
        /\ stack'[Len(stack')].cb = "funcPostCB"
    BY <1>3, <2>1, ReturnFacts
  <2>3. \A i \in 1..Len(stack') : \/ i = Len(stack') /\ stack'[i].cb = "funcPostCB"
                                  \/ stack'[i] = stack[i] /\ stack'[i].cb = "funcPreCB"
    BY <2>2
  <2>4. Len(stack') <= MaxDepth
    BY <2>2, EventsAssumption DEF StackInv
  <2>5. QED
    BY <2>1, <2>2, <2>3, <2>4 DEF StackInv, Callbacks
<1>4. CASE KeepAnalysis
  BY <1>4 DEF KeepAnalysis, Asking, vars, StackInv, Top
<1>5. CASE SettleAnalysis
  BY <1>5 DEF SettleAnalysis, StackInv, Top
<1>6. CASE EndOfList
  <2>1. UNCHANGED <<exit_pos, history>>
    BY <1>6 DEF EndOfList, vars
  <2>2. Len(stack') <= MaxDepth
    <3>1. CASE Top.cb \in {"memRCB", "memWCB"}
      BY <1>6, <3>1, EndFacts, EventsAssumption DEF StackInv
    <3>2. CASE Top.cb \notin {"memRCB", "memWCB"}
      BY <1>6, <3>2, EndFacts, EventsAssumption DEF StackInv
    <3>3. QED
      BY <3>1, <3>2
  <2>3. QED
    BY <1>6, <2>1, <2>2, EndFacts DEF StackInv
<1>7. CASE EngineStep
  BY <1>7, EngineFacts DEF StackInv, Top
<1>8. QED
  BY <1>1, <1>2, <1>3, <1>4, <1>5, <1>6, <1>7, RuntimeCases

(* Every step keeps the running event the last one of the history.         *)
LEMMA HistoryStep ==
  ASSUME StackInv, HistoryInv, [RuntimeNext]_allvars
  PROVE  HistoryInv'
<1>1. ASSUME NEW c \in Call, FunctionCallback(c)
      PROVE  HistoryInv'
  <2>1. Record("call", c) /\ Begin("funcPreCB", c) /\ UNCHANGED memory
    BY <1>1 DEF FunctionCallback, Begin
  <2>2. QED
    BY <2>1, EventFacts DEF HistoryInv
<1>2. ASSUME NEW a \in Access, MemCallback(a)
      PROVE  HistoryInv'
  <2> DEFINE cb == IF a.isWrite THEN "memWCB" ELSE "memRCB"
  <2>1. Record("access", a) /\ Begin(cb, a) /\ UNCHANGED memory
    BY <1>2 DEF MemCallback, Begin
  <2>2. cb # "funcPreCB" /\ cb = IF a.isWrite THEN "memWCB" ELSE "memRCB"
    OBVIOUS
  <2> HIDE DEF cb
  <2>3. /\ it' = 1 /\ Top'.cb = cb /\ Top'.event = a
        /\ IsList(history') /\ Len(history) \in Nat /\ Len(history') = Len(history) + 1
        /\ Len(history') <= MaxEvents
        /\ \A k \in 1..Len(history) : history'[k] = history[k]
        /\ history'[Len(history')].kind = "access"
        /\ history'[Len(history')].event = a
        /\ history'[Len(history')].memory = memory
    BY <2>1, EventFacts
  <2>4. \A k \in 1..Len(history') : /\ history'[k].kind \in {"call", "access"}
                                   /\ history'[k].kind = "call" => history'[k].event \in Call
    BY <2>3 DEF HistoryInv
  <2>5. QED
    BY <2>1, <2>2, <2>3, <2>4 DEF HistoryInv
<1>3. ASSUME NEW r, FunctionReturns(r)
      PROVE  HistoryInv'
  <2>1. UNCHANGED history
    BY <1>3 DEF FunctionReturns
  <2>2. QED
    BY <1>3, <2>1, ReturnFacts DEF HistoryInv
<1>4. CASE KeepAnalysis
  BY <1>4 DEF KeepAnalysis, Asking, HistoryInv, Top
<1>5. CASE SettleAnalysis
  BY <1>5 DEF SettleAnalysis, HistoryInv, Top
<1>6. CASE EndOfList
  BY <1>6 DEF EndOfList, HistoryInv
<1>7. CASE EngineStep
  BY <1>7, EngineFacts DEF HistoryInv, Top
<1>8. QED
  BY <1>1, <1>2, <1>3, <1>4, <1>5, <1>6, <1>7, RuntimeCases

-----------------------------------------------------------------------------
(* The lists of registered analyses.                                       *)
LEMMA SettleLists ==
  ASSUME StackInv, ListsInv, SettleAnalysis
  PROVE  /\ DOMAIN analyses_with' = Callbacks
         /\ \A cb \in Callbacks \ {Top.cb} : analyses_with'[cb] = analyses_with[cb]
         /\ analyses_with'[Top.cb] = Without(analyses_with[Top.cb], it)
         /\ analyses_with'[Top.cb] \in Seq(Requiring(Top.cb))
         /\ Distinct(analyses_with'[Top.cb])
         /\ Len(analyses_with'[Top.cb]) = Len(analyses_with[Top.cb]) - 1
         /\ Elements(analyses_with'[Top.cb]) = Elements(analyses_with[Top.cb]) \ {Current}
<1> DEFINE list == analyses_with[Top.cb]
<1>1. it > 0 /\ Turn
  BY DEF SettleAnalysis, Asking
<1>2. /\ Top.cb \in Callbacks /\ list \in Seq(Requiring(Top.cb)) /\ it \in 1..Len(list)
      /\ Distinct(list)
  BY <1>1, CurrentFacts DEF ListsInv
<1>3. analyses_with' = [analyses_with EXCEPT ![Top.cb] = Without(@, it)]
  BY DEF SettleAnalysis, Erased
<1>4. /\ DOMAIN analyses_with' = Callbacks
      /\ \A cb \in Callbacks \ {Top.cb} : analyses_with'[cb] = analyses_with[cb]
      /\ analyses_with'[Top.cb] = Without(list, it)
  BY <1>2, <1>3 DEF ListsInv
<1>5. Current = list[it]
  BY DEF Current
<1> HIDE DEF list
<1>6. Without(list, it) \in Seq(Requiring(Top.cb)) /\ Len(Without(list, it)) = Len(list) - 1
  BY <1>2, WithoutFacts
<1>7. Distinct(Without(list, it)) /\ Elements(Without(list, it)) = Elements(list) \ {list[it]}
  BY <1>2, WithoutElements
<1>8. QED
  BY <1>4, <1>5, <1>6, <1>7 DEF list

(* Every step keeps the lists within what requires their callback.         *)
LEMMA ListsStep ==
  ASSUME StackInv, ListsInv, [RuntimeNext]_allvars
  PROVE  ListsInv'
<1>0. Len(all_analyses) \in Nat
  BY AnalysesAssumption, LenProperties
<1>1. CASE \/ \E c \in Call : FunctionCallback(c)
           \/ \E a \in Access : MemCallback(a)
           \/ \E r : FunctionReturns(r)
  <2>1. UNCHANGED analyses_with /\ it' = 1
    BY <1>1 DEF FunctionCallback, MemCallback, Begin, FunctionReturns
  <2>2. QED
    BY <1>0, <2>1 DEF ListsInv
<1>2. CASE KeepAnalysis
  <2>1. UNCHANGED analyses_with /\ it' = it + 1 /\ it > 0 /\ Turn
    BY <1>2 DEF KeepAnalysis, Asking
  <2>2. it \in 1..Len(analyses_with[Top.cb]) /\ Len(analyses_with[Top.cb]) \in Nat /\ Top.cb \in Callbacks
    BY <2>1, CurrentFacts
  <2>3. it' <= Len(all_analyses) + 1
    BY <1>0, <2>1, <2>2 DEF ListsInv
  <2>4. QED
    BY <2>1, <2>3 DEF ListsInv
<1>3. CASE SettleAnalysis
  <2>1. UNCHANGED it /\ it > 0 /\ Turn
    BY <1>3 DEF SettleAnalysis, Asking
  <2>2. Len(analyses_with[Top.cb]) \in Nat /\ Top.cb \in Callbacks
    BY <2>1, CurrentFacts
  <2>3. ASSUME NEW cb \in Callbacks
        PROVE  /\ analyses_with'[cb] \in Seq(Requiring(cb))
               /\ Distinct(analyses_with'[cb])
               /\ Len(analyses_with'[cb]) <= Len(all_analyses)
    <3>1. CASE cb = Top.cb
      <4>1. Len(analyses_with'[cb]) = Len(analyses_with[cb]) - 1
        BY <1>3, <3>1, SettleLists
      <4>2. Len(analyses_with[cb]) <= Len(all_analyses)
        BY DEF ListsInv
      <4>3. QED
        BY <1>0, <1>3, <2>2, <3>1, <4>1, <4>2, SettleLists
    <3>2. CASE cb # Top.cb
      BY <1>3, <3>2, SettleLists DEF ListsInv
    <3>3. QED
      BY <3>1, <3>2
  <2>4. QED
    BY <1>3, <2>1, <2>3, SettleLists DEF ListsInv
<1>4. CASE EndOfList
  BY <1>0, <1>4 DEF EndOfList, ListsInv
<1>5. CASE EngineStep
  BY <1>5, EngineFacts DEF ListsInv
<1>6. QED
  BY <1>1, <1>2, <1>3, <1>4, <1>5, RuntimeCases

(* While the program runs, the engine decides no leaf by itself.           *)
LEMMA EngineLeaves ==
  ASSUME Types, StackInv, EngineStep, exit_pos' = 0
  PROVE  \A l \in Leaf : contract_status'[l] = contract_status[l]
<1>1. CASE Resolve
  <2>1. CASE Propagate
    <3>1. Parent \in Formula \ Leaf /\ contract_status' = [contract_status EXCEPT ![Parent] = Outcome(Parent)]
      BY <2>1, TreeFacts DEF Propagate, Parent
    <3>2. QED
      BY <3>1 DEF Types, Leaf
  <2>2. CASE ParentAlreadyDecided \/ NothingToPropagate \/ ReportRoot
    BY <2>2 DEF ParentAlreadyDecided, NothingToPropagate, ReportRoot
  <2>3. QED
    BY <1>1, <2>1, <2>2 DEF Resolve, ValidateState
<1>2. CASE ProgramExits \/ DestructorAdvances
  BY <1>2 DEF ProgramExits, StartExit, DestructorAdvances, ExitAdvance
<1>3. CASE DestructorConcludes
  BY <1>3 DEF DestructorConcludes, ExitConclude
<1>4. CASE printCoverageFile \/ UNCHANGED allvars
  BY <1>4 DEF printCoverageFile, allvars, vars
<1>5. QED
  BY <1>1, <1>2, <1>3, <1>4 DEF EngineStep

(* Every step keeps those undecided that may still come to a verdict.      *)
LEMMA ListedStep ==
  ASSUME Types, StackInv, ListsInv, ListedUndecided, [RuntimeNext]_allvars
  PROVE  ListedUndecided'
<1>1. CASE \/ \E c \in Call : FunctionCallback(c)
           \/ \E a \in Access : MemCallback(a)
           \/ \E r : FunctionReturns(r)
  <2>1. UNCHANGED <<exit_pos, contract_status, analyses_with>>
    BY <1>1 DEF FunctionCallback, MemCallback, Begin, FunctionReturns, vars
  <2>2. QED
    BY <2>1 DEF ListedUndecided, Decided
<1>2. CASE KeepAnalysis \/ EndOfList
  <2>1. UNCHANGED <<exit_pos, contract_status, analyses_with>>
    BY <1>2 DEF KeepAnalysis, EndOfList, vars
  <2>2. QED
    BY <2>1 DEF ListedUndecided, Decided
<1>3. CASE SettleAnalysis
  <2>1. it > 0 /\ Turn /\ Handled.verdict # Unknown
    BY <1>3 DEF SettleAnalysis, Asking
  <2>2. Top.cb = Deciding(Current) /\ Current \in Analysed /\ exit_pos = 0
    BY <2>1, VerdictFacts, CurrentFacts
  <2>3. ASSUME NEW l \in Analysed, l \in Elements(analyses_with'[Deciding(l)])
        PROVE  ~Decided(l)'
    <3>1. l # Current
      BY <1>3, <2>2, <2>3, SettleLists
    <3>2. contract_status'[l] = contract_status[l]
      BY <1>3, <2>2, <3>1 DEF SettleAnalysis, Types, Analysed, Leaf
    <3>3. Deciding(l) \in Callbacks
      BY DEF Deciding, Callbacks
    <3>4. l \in Elements(analyses_with[Deciding(l)])
      BY <1>3, <2>3, <3>3, SettleLists
    <3>5. QED
      BY <2>2, <3>2, <3>4 DEF ListedUndecided, Decided
  <2>4. QED
    BY <2>3 DEF ListedUndecided, Deciding
<1>4. CASE EngineStep
  BY <1>4, EngineFacts, EngineLeaves DEF ListedUndecided, Decided, Analysed
<1>5. QED
  BY <1>1, <1>2, <1>3, <1>4, RuntimeCases

-----------------------------------------------------------------------------
(* What was visited and what is stored.                                    *)
LEMMA LocationsAppend ==
  ASSUME NEW h, IsList(h), NEW t, NEW r, Extends(t, h, r)
  PROVE  LocationsOf(t) = IF r.event.isRef THEN LocationsOf(h) \cup {r.event.location}
                          ELSE LocationsOf(h)
<1>1. /\ Len(h) \in Nat /\ DOMAIN h = 1..Len(h) /\ DOMAIN t = 1..Len(t) /\ Len(t) = Len(h) + 1
      /\ t[Len(t)] = r /\ \A n \in 1..Len(h) : t[n] = h[n]
  BY ListFacts DEF Extends
<1>2. QED
  BY <1>1 DEF LocationsOf

(* An event adds its location to those seen.                               *)
LEMMA EventLocations ==
  ASSUME HistoryInv, DataInv, NEW kind, NEW cb, NEW e, Record(kind, e), Begin(cb, e)
  PROVE  DataInv'
<1> DEFINE r == [kind |-> kind, event |-> e, memory |-> memory, heap |-> heap]
<1>1. history' = Append(history, r) /\ IsList(history)
  BY DEF Record, HistoryInv
<1>2. r.event = e
  OBVIOUS
<1> HIDE DEF r
<1>3. Extends(history', history, r)
  BY <1>1, ListAppend
<1>4. LocationsOf(history') = IF e.isRef THEN LocationsOf(history) \cup {e.location}
                              ELSE LocationsOf(history)
  BY <1>1, <1>2, <1>3, LocationsAppend
<1>5. /\ UNCHANGED <<memory, temporaries, coverage_file>>
      /\ visitedLocs' = IF e.isRef THEN visitedLocs \cup {e.location} ELSE visitedLocs
  BY DEF Begin, Visit
<1>6. visitedLocs' = LocationsOf(history)'
  BY <1>4, <1>5 DEF DataInv, LocationsOf
<1>7. QED
  BY <1>5, <1>6 DEF DataInv

(* Every step keeps what was recorded in agreement with the history.       *)
LEMMA DataStep ==
  ASSUME StackInv, HistoryInv, DataInv, [RuntimeNext]_allvars
  PROVE  DataInv'
<1>1. CASE \/ \E c \in Call : FunctionCallback(c)
           \/ \E a \in Access : MemCallback(a)
  <2>1. \E kind, cb, e : Record(kind, e) /\ Begin(cb, e)
    BY <1>1 DEF FunctionCallback, MemCallback
  <2>2. QED
    BY <2>1, EventLocations
<1>2. ASSUME NEW r, FunctionReturns(r)
      PROVE  DataInv'
  <2>1. /\ UNCHANGED <<temporaries, coverage_file, history>>
        /\ DOMAIN memory' = DOMAIN memory
    BY <1>2 DEF FunctionReturns
  <2>2. /\ Top.event \in Call /\ Visit(Top'.event)
        /\ Top'.event = [Top.event EXCEPT !.retval = r.retval]
        /\ \E k \in 1..Len(history) : history[k].event = Top.event
    BY <1>2, ReturnFacts
  <2>3. Top'.event.isRef = Top.event.isRef /\ Top'.event.location = Top.event.location
    <3> DEFINE c == Top.event
    <3>1. c = [func |-> c.func, location |-> c.location, params |-> c.params,
               retval |-> c.retval, isRef |-> c.isRef]
      BY <2>2, EventsAssumption
    <3>2. Top'.event = [c EXCEPT !.retval = r.retval]
      BY <2>2
    <3> HIDE DEF c
    <3>3. "isRef" \in DOMAIN c /\ "location" \in DOMAIN c
      BY <3>1
    <3>4. Top'.event.isRef = c.isRef /\ Top'.event.location = c.location
      BY <3>2, <3>3
    <3>5. QED
      BY <3>4 DEF c
  <2>4. visitedLocs' = visitedLocs
    <3>1. PICK k \in 1..Len(history) : history[k].event = Top.event
      BY <2>2
    <3>2. DOMAIN history = 1..Len(history)
      BY ListFacts DEF HistoryInv
    <3>3. Top.event.isRef => Top.event.location \in visitedLocs
      BY <3>1, <3>2 DEF DataInv, LocationsOf
    <3>4. visitedLocs' = IF Top.event.isRef THEN visitedLocs \cup {Top.event.location} ELSE visitedLocs
      BY <2>2, <2>3 DEF Visit
    <3>5. QED
      BY <3>3, <3>4
  <2>5. QED
    BY <2>1, <2>4 DEF DataInv, LocationsOf
<1>3. CASE KeepAnalysis \/ SettleAnalysis
  BY <1>3 DEF KeepAnalysis, SettleAnalysis, DataInv, LocationsOf
<1>4. CASE EndOfList
  <2>1. DOMAIN memory' = DOMAIN memory /\ UNCHANGED <<temporaries, visitedLocs, coverage_file, history>>
    BY <1>4 DEF EndOfList
  <2>2. QED
    BY <2>1 DEF DataInv, LocationsOf
<1>5. CASE EngineStep
  BY <1>5, EngineFacts DEF DataInv, LocationsOf
<1>6. QED
  BY <1>1, <1>2, <1>3, <1>4, <1>5, RuntimeCases

-----------------------------------------------------------------------------
(* The analyser runs the verdict engine.                                   *)
LEMMA EngineRefined ==
  ASSUME StackInv, ListsInv, ListedUndecided, [RuntimeNext]_allvars
  PROVE  [Next]_vars
<1>1. CASE \/ \E c \in Call : FunctionCallback(c)
           \/ \E a \in Access : MemCallback(a)
           \/ \E r : FunctionReturns(r)
           \/ KeepAnalysis \/ EndOfList
  BY <1>1 DEF FunctionCallback, MemCallback, Begin, FunctionReturns, KeepAnalysis, EndOfList
<1>2. CASE SettleAnalysis
  <2>1. it > 0 /\ Turn /\ frame = NoFormula /\ Handled.verdict # Unknown
    BY <1>2 DEF SettleAnalysis, Asking
  <2>2. /\ Top.cb = Deciding(Current) /\ Current \in Analysed /\ exit_pos = 0
        /\ Current \in Elements(analyses_with[Top.cb])
        /\ Handled.verdict \in RunVerdicts(AnalysisOf(Current))
    BY <2>1, VerdictFacts, CurrentFacts
  <2>3. ~Decided(Current)
    BY <2>2 DEF ListedUndecided
  <2>4. Conclude(Current, Handled.verdict)
    BY <1>2, <2>1, <2>2, <2>3 DEF SettleAnalysis, Conclude
  <2>5. Current \in Leaf /\ Handled.verdict \in Verdict
    BY <2>2 DEF Analysed, RunVerdicts, Verdict
  <2>6. QED
    BY <2>4, <2>5 DEF Next
<1>3. CASE EngineStep
  <2>1. CASE Resolve
    BY <2>1 DEF Resolve, Next
  <2>2. CASE ProgramExits
    BY <2>2 DEF ProgramExits, Next
  <2>3. CASE DestructorConcludes
    <3>1. ExitConclude(onProgramExit(ExitLeaf)) /\ onProgramExit(ExitLeaf) \in Verdict
      BY <2>3 DEF DestructorConcludes, onProgramExit, PostCallOnExit, Verdict
    <3>2. QED
      BY <3>1 DEF Next
  <2>4. CASE DestructorAdvances
    BY <2>4 DEF DestructorAdvances, Next
  <2>5. CASE printCoverageFile \/ UNCHANGED allvars
    BY <2>5 DEF printCoverageFile, allvars
  <2>6. QED
    BY <1>3, <2>1, <2>2, <2>3, <2>4, <2>5 DEF EngineStep
<1>4. QED
  BY <1>1, <1>2, <1>3, RuntimeCases

(* The list of all analyses has each of them once.                         *)
LEMMA AnalysesFacts ==
  all_analyses \in Seq(Analysed) /\ Distinct(all_analyses) /\ Elements(all_analyses) = Analysed
<1>1. Len(all_analyses) \in Nat /\ all_analyses \in [1..Len(all_analyses) -> Formula]
  BY AnalysesAssumption, LenProperties
<1>2. \A i \in 1..Len(all_analyses) : all_analyses[i] \in Analysed
  BY <1>1, AnalysesAssumption DEF Analysed, Leaf
<1>3. all_analyses \in Seq(Analysed)
  <2>1. all_analyses \in [1..Len(all_analyses) -> Analysed]
    BY <1>1, <1>2
  <2>2. QED
    BY <1>1, <2>1, SeqDef
<1>4. Elements(all_analyses) = Analysed
  BY <1>2, AnalysesAssumption DEF Elements, Analysed, Leaf
<1>5. QED
  BY <1>3, <1>4, AnalysesAssumption DEF Distinct

(* The inductive invariant of the callbacks holds initially.               *)
LEMMA RInvInit == RuntimeInit => RInv /\ IInv
<1> SUFFICES ASSUME RuntimeInit
             PROVE  RInv /\ IInv
  OBVIOUS
<1>0. Len(all_analyses) \in Nat
  BY AnalysesAssumption, LenProperties
<1>1. ASSUME NEW s, s = <<>>
      PROVE  IsList(s) /\ Len(s) = 0 /\ DOMAIN s = {}
  BY <1>1, ListEmpty
<1>2. stack = <<>> /\ history = <<>> /\ it = 0 /\ exit_pos = 0
  BY DEF RuntimeInit, Init
<1>3. StackInv
  BY <1>1, <1>2, EventsAssumption DEF StackInv
<1>4. HistoryInv
  BY <1>1, <1>2, EventsAssumption DEF HistoryInv
<1>5. all_analyses \in Seq(Analysed) /\ Distinct(all_analyses)
  BY AnalysesFacts
<1>6. ASSUME NEW cb \in Callbacks
      PROVE  /\ analyses_with[cb] \in Seq(Requiring(cb))
             /\ Distinct(analyses_with[cb])
             /\ Len(analyses_with[cb]) <= Len(all_analyses)
  <2>1. analyses_with[cb] = Filter(all_analyses, Requiring(cb))
    BY DEF RuntimeInit
  <2> DEFINE f == Filter(all_analyses, Requiring(cb))
  <2>2. f \in Seq(Analysed) /\ Len(f) <= Len(all_analyses) /\ Elements(f) = Elements(all_analyses) \cap Requiring(cb)
    BY <1>5, FilterElements
  <2>3. Distinct(f)
    BY <1>5, FilterDistinct
  <2> HIDE DEF f
  <2>4. f \in Seq(Elements(f)) /\ Elements(f) \subseteq Requiring(cb)
    BY <2>2, SeqIsList DEF IsList
  <2>5. f \in Seq(Requiring(cb))
    BY <2>4, SeqMonotonic
  <2>6. QED
    BY <2>1, <2>2, <2>3, <2>5 DEF f
<1>7. ListsInv
  BY <1>0, <1>6 DEF RuntimeInit, ListsInv
<1>8. ListedUndecided
  BY DEF RuntimeInit, Init, ListedUndecided, Decided, Analysed, Leaf
<1>9. DataInv
  BY <1>1 DEF RuntimeInit, DataInv, LocationsOf
<1>10. IInv
  BY IInvInit DEF RuntimeInit
<1>11. QED
  BY <1>3, <1>4, <1>7, <1>8, <1>9, <1>10 DEF RInv

(* Every step keeps it, and is a step of the engine or leaves the engine   *)
(* alone.                                                                  *)
LEMMA RInvStep == RInv /\ IInv /\ [RuntimeNext]_allvars => RInv' /\ IInv' /\ [Next]_vars
<1> SUFFICES ASSUME RInv, IInv, [RuntimeNext]_allvars
             PROVE  RInv' /\ IInv' /\ [Next]_vars
  OBVIOUS
<1> USE DEF RInv
<1>1. [Next]_vars
  BY EngineRefined
<1>2. IInv'
  BY <1>1, IInvStep
<1>3. Types
  BY DEF IInv
<1>4. StackInv' /\ HistoryInv' /\ ListsInv' /\ ListedUndecided' /\ DataInv'
  BY <1>3, StackStep, HistoryStep, ListsStep, ListedStep, DataStep
<1>5. QED
  BY <1>1, <1>2, <1>4

(* The inductive invariant of the callbacks holds in every execution.      *)
LEMMA RInvInvariant == RuntimeSpec => [](RInv /\ IInv)
BY RInvInit, RInvStep, PTL DEF RuntimeSpec

(* The running analyser implements the verdict engine: whatever the        *)
(* program calls, an analysis comes to at most one verdict, and what       *)
(* happens to the verdicts is what Resolution describes.  So every theorem *)
(* of ResolutionProofs holds of the running analyser.                      *)
THEOREM EngineImplemented == RuntimeSpec => Spec
<1>1. RuntimeInit => Init
  BY DEF RuntimeInit
<1>2. RInv /\ IInv /\ [RuntimeNext]_allvars => [Next]_vars
  BY RInvStep
<1>3. QED
  BY <1>1, <1>2, RInvInvariant, PTL DEF RuntimeSpec, Spec

(* Type correctness of the running analyser.                               *)
THEOREM RuntimeTypeCorrect == RuntimeSpec => []RuntimeTypeOK
<1>1. RInv /\ TypeOK => RuntimeTypeOK
  <2> SUFFICES ASSUME RInv, TypeOK
               PROVE  RuntimeTypeOK
    OBVIOUS
  <2>1. ASSUME NEW cb \in Callbacks, NEW i \in DOMAIN analyses_with[cb]
        PROVE  analyses_with[cb][i] \in Analysed
    <3>1. analyses_with[cb] \in Seq(Requiring(cb))
      BY DEF RInv, ListsInv
    <3>2. analyses_with[cb][i] \in Requiring(cb)
      BY <3>1, LenProperties, ElementOfSeq
    <3>3. QED
      BY <3>2 DEF Requiring
  <2>2. ASSUME NEW i \in DOMAIN stack
        PROVE  stack[i].cb \in Callbacks /\ (i > MaxDepth => stack[i].cb \in {"memRCB", "memWCB"})
    <3>1. Len(stack) \in Nat /\ DOMAIN stack = 1..Len(stack)
      BY ListFacts DEF RInv, StackInv
    <3>2. i > MaxDepth => i = Len(stack) /\ Top.cb \in {"memRCB", "memWCB"}
      BY <3>1, EventsAssumption DEF RInv, StackInv
    <3>3. QED
      BY <3>1, <3>2 DEF RInv, StackInv, Top
  <2>3. it \in 0..(Len(all_analyses) + 1)
    BY AnalysesAssumption, LenProperties DEF RInv, StackInv, ListsInv
  <2>4. QED
    BY <2>1, <2>2, <2>3 DEF RuntimeTypeOK, RInv, DataInv, HistoryInv
<1>2. QED
  BY <1>1, RInvInvariant, TypeCorrect, EngineImplemented, PTL

(* The coverage file names exactly the relevant locations that the program *)
(* passed, whichever analyses were left at the time.                       *)
THEOREM CoverageFileComplete == RuntimeSpec => []CoverageComplete
<1>1. RInv => CoverageComplete
  BY DEF RInv, DataInv, CoverageComplete, Finished, LocationsOf
<1>2. QED
  BY <1>1, RInvInvariant, PTL

-----------------------------------------------------------------------------
(* The lists lose decided analyses only.                                   *)
Undecided == {l \in Analysed : ~Decided(l)}
Registered(cb) == Filter(analyses_with[cb], Undecided) = Filter(all_analyses, Requiring(cb) \cap Undecided)

(* Initially every analysis is registered where it requires to be.         *)
LEMMA RegisteredInit ==
  ASSUME RuntimeInit, NEW cb \in Callbacks
  PROVE  Registered(cb)
<1>1. analyses_with[cb] = Filter(all_analyses, Requiring(cb))
  BY DEF RuntimeInit
<1>2. QED
  BY <1>1, AnalysesFacts, FilterTwice DEF Registered

(* Every step keeps the undecided analyses registered.                     *)
LEMMA RegisteredStep ==
  ASSUME RInv, IInv, [RuntimeNext]_allvars, NEW cb \in Callbacks, Registered(cb)
  PROVE  Registered(cb)'
<1> DEFINE R == Requiring(cb)
           U == Undecided
           V == Undecided'
           s == analyses_with[cb]
           t == analyses_with'[cb]
<1>1. V \subseteq U
  <2>1. [Next]_vars /\ Types
    BY RInvStep DEF IInv
  <2>2. \A f \in Formula : Decided(f) => contract_status'[f] = contract_status[f]
    BY <2>1, FinalStep
  <2>3. QED
    BY <2>2 DEF Undecided, Decided, Analysed, Leaf
<1>2. s \in Seq(R) /\ all_analyses \in Seq(Analysed)
  BY AnalysesFacts DEF RInv, ListsInv
<1>3. Filter(t, V) = Filter(s, V)
  <2>1. CASE SettleAnalysis /\ cb = Top.cb
    <3>1. it > 0 /\ Turn
      BY <2>1 DEF SettleAnalysis, Asking
    <3>2. it \in 1..Len(s) /\ Current = s[it] /\ Current \in Analysed
      BY <2>1, <3>1, CurrentFacts DEF RInv, Current
    <3>3. Current \notin V
      <4>1. contract_status'[Current] # Absent
        <5>1. Handled.verdict \in RunVerdicts(AnalysisOf(Current))
          BY <2>1, <3>1, VerdictFacts DEF RInv, SettleAnalysis
        <5>2. Handled.verdict # Absent
          BY <5>1 DEF RunVerdicts, Absent
        <5>3. Current \in Formula /\ contract_status \in [Formula -> Verdict \cup {Absent}]
          BY <3>2 DEF Analysed, Leaf, IInv, Types
        <5>4. QED
          BY <2>1, <5>2, <5>3 DEF SettleAnalysis, Decided
      <4>2. QED
        BY <4>1 DEF Undecided, Decided
    <3>4. t = Without(s, it)
      BY <2>1, SettleLists DEF RInv
    <3> HIDE DEF s, t, V, R
    <3>5. QED
      BY <1>2, <3>2, <3>3, <3>4, FilterWithout
  <2>2. CASE SettleAnalysis /\ cb # Top.cb
    BY <2>2, SettleLists DEF RInv
  <2>3. CASE ~SettleAnalysis
    <3>1. UNCHANGED analyses_with
      BY <2>3, RuntimeCases, EngineFacts
         DEF RInv, FunctionCallback, MemCallback, Begin, FunctionReturns, KeepAnalysis, EndOfList
    <3>2. QED
      BY <3>1
  <2>4. QED
    BY <2>1, <2>2, <2>3
<1>4. Filter(s, U) = Filter(all_analyses, R \cap U)
  BY DEF Registered
<1>5. Registered(cb)' <=> Filter(t, V) = Filter(all_analyses, R \cap V)
  BY DEF Registered, Requiring, requiredCallbacks
<1> HIDE DEF R, U, V, s, t
<1>6. U \cap V = V /\ (R \cap U) \cap V = R \cap V
  BY <1>1
<1>7. Filter(Filter(s, U), V) = Filter(s, U \cap V)
  BY <1>2, FilterTwice
<1>8. Filter(Filter(all_analyses, R \cap U), V) = Filter(all_analyses, (R \cap U) \cap V)
  BY <1>2, FilterTwice
<1>9. QED
  BY <1>3, <1>4, <1>5, <1>6, <1>7, <1>8

AInv == RInv /\ IInv /\ \A cb \in Callbacks : Registered(cb)

(* The invariant with the registrations holds initially.                   *)
LEMMA AInvInit == RuntimeInit => AInv
BY RInvInit, RegisteredInit DEF AInv

(* Every step keeps the invariant with the registrations.                  *)
LEMMA AInvStep == AInv /\ [RuntimeNext]_allvars => AInv'
BY RInvStep, RegisteredStep DEF AInv

(* The invariant with the registrations holds in every execution.          *)
LEMMA AInvInvariant == RuntimeSpec => []AInv
BY AInvInit, AInvStep, PTL DEF RuntimeSpec

(* The loop that erases analyses from the list it iterates over loses none *)
(* that is still undecided: in every callback the undecided ones that      *)
(* require it are registered, once and in the order of their creation.     *)
THEOREM UndecidedRegistered == RuntimeSpec => []UndecidedStayRegistered
<1>1. AInv => UndecidedStayRegistered
  BY DEF AInv, Registered, Undecided, UndecidedStayRegistered
<1>2. QED
  BY <1>1, AInvInvariant, PTL

-----------------------------------------------------------------------------
(* The loop of the callback that is running has yet to reach l.            *)
Pending(l) ==
  /\ it > 0 /\ Top.cb # "funcPostCB"
  /\ \E i \in 1..Len(analyses_with[Top.cb]) : i >= it /\ analyses_with[Top.cb][i] = l
Seen(l) == IF Pending(l) THEN Len(history) - 1 ELSE Len(history)

Collected(l, n) ==
  {[func |-> history[k].event.func, params |-> history[k].event.params] :
     k \in {j \in CallsOf(operation[l].targets) : j <= n}}
SuppliedTo(l, n) == {i \in Supplied(l) : i <= n}
PreCallInv(l) ==
  LET n == Seen(l)
  IN  /\ SuppliedTo(l, n) = {} =>
           /\ contract_status[l] = Absent \/ (contract_status[l] = "INACTIVE" /\ exit_pos > 0)
           /\ temporaries[l].possible_matches = Collected(l, n)
      /\ SuppliedTo(l, n) # {} =>
           contract_status[l] = IF Supported(l, Min(SuppliedTo(l, n))) THEN "FULFILLED" ELSE "VIOLATED"

OutstandingTo(l, n) ==
  {i \in SuppliedTo(l, n) :
     /\ ~\E k \in CallsOf(operation[l].targets) :
           k > i /\ k <= n /\ Matches(operation[l].params, k, i, k)
     /\ ~\E j \in SuppliedTo(l, n) : j > i /\ SameLocation(i, j)}
PostCallInv(l) ==
  LET n == Seen(l)
  IN  /\ temporaries[l].unchecked = {history[i].event : i \in OutstandingTo(l, n)}
      /\ \/ contract_status[l] = Absent
         \/ exit_pos > 0 /\ contract_status[l] = IF OutstandingTo(l, n) = {} THEN "FULFILLED" ELSE "VIOLATED"

OpenTo(l, n) ==
  LET starts == {i \in CallsOf({operation[l].supplier}) : i <= n}
  IN  {i \in starts :
         /\ ~\E j \in starts : i < j /\ SameLocation(i, j)
         /\ ~\E m \in CallsOf(operation[l].releases) :
               i < m /\ m <= n /\ Matches(operation[l].relParams, m, i, m)}
BrokenTo(l, n) == \E i, k \in 1..n : Protects(l, i, k) /\ Forbidden(l, i, k)
(* The call sites stand for the calls at O, one from each location, and    *)
(* the addresses they protect are in step with them.                       *)
Sites(l, st, O) ==
  /\ IsList(st.callsites) /\ Elements(st.callsites) = {history[i].event : i \in O}
  /\ \A a, b \in 1..Len(st.callsites) :
       st.callsites[a].location = st.callsites[b].location => a = b
  /\ operation[l].forbIsRW =>
       /\ IsList(st.mem) /\ Len(st.mem) = Len(st.callsites)
       /\ \A a \in 1..Len(st.mem) : st.mem[a] = st.callsites[a].params[operation[l].rwIdx]
ReleaseInv(l) ==
  LET n == Seen(l)
  IN  /\ contract_status[l] = "VIOLATED" <=> BrokenTo(l, n)
      /\ contract_status[l] # Absent => contract_status[l] = "VIOLATED" \/ exit_pos > 0
      /\ ~Decided(l) => Sites(l, temporaries[l], OpenTo(l, n))

-----------------------------------------------------------------------------
(* A step, seen from one analysis: the program raises an event, or it is   *)
(* the turn of this analysis, or it is not.                                *)
HistoryGrows ==
  /\ Len(history) \in Nat /\ Len(history') = Len(history) + 1
  /\ DOMAIN history = 1..Len(history) /\ DOMAIN history' = 1..Len(history) + 1
  /\ \A k \in 1..Len(history) : history'[k] = history[k]

EventOccurs(l) ==
  /\ HistoryGrows
  /\ UNCHANGED <<contract_status, exit_pos, temporaries>>
  /\ exit_pos = 0
  /\ Seen(l) = Len(history)
  /\ LET e == history'[Len(history) + 1]
     IN  /\ e.kind \in {"call", "access"}
         /\ \/ Seen(l)' = Len(history)
            \/ /\ Seen(l)' = Len(history) + 1
               /\ IF e.kind = "call" THEN Decided(l)
                  ELSE Decided(l) \/ (IF e.event.isWrite THEN "memWCB" ELSE "memRCB") \notin requiredCallbacks(l)

TurnTaken(l) ==
  /\ it > 0 /\ Turn /\ Current = l /\ Top.cb # "funcPostCB" /\ Top.cb \in requiredCallbacks(l)
  /\ l \in Elements(analyses_with[Top.cb])
  /\ UNCHANGED <<history, exit_pos>> /\ exit_pos = 0
  /\ Len(history) \in Nat \ {0} /\ DOMAIN history = 1..Len(history)
  /\ Seen(l) = Len(history) - 1 /\ Seen(l)' = Len(history)
  /\ temporaries'[l] = Handled.state
  /\ Handled.verdict = Unknown => contract_status'[l] = contract_status[l]
  /\ Handled.verdict # Unknown => ~Decided(l) /\ contract_status'[l] = Handled.verdict

Elsewhere(l) ==
  /\ UNCHANGED history /\ Seen(l)' = Seen(l)
  /\ DOMAIN history = 1..Len(history) /\ Len(history) \in Nat
  /\ AnalysisOf(l) # "Alloc" => temporaries'[l] = temporaries[l]
  /\ exit_pos > 0 => exit_pos' > 0
  /\ \/ contract_status'[l] = contract_status[l]
     \/ exit_pos > 0 /\ ~Decided(l) /\ contract_status'[l] = onProgramExit(l)

(* An undecided analysis is in the list of each callback it requires.      *)
LEMMA UndecidedListed ==
  ASSUME AInv, NEW l \in Analysed, ~Decided(l), NEW cb \in requiredCallbacks(l)
  PROVE  cb \in Callbacks /\ l \in Elements(analyses_with[cb])
<1>1. cb \in Callbacks
  BY RequiringFacts
<1>2. /\ analyses_with[cb] \in Seq(Requiring(cb)) /\ all_analyses \in Seq(Analysed)
      /\ Elements(all_analyses) = Analysed
  BY <1>1, AnalysesFacts DEF AInv, RInv, ListsInv
<1>3. Filter(analyses_with[cb], Undecided) = Filter(all_analyses, Requiring(cb) \cap Undecided)
  BY <1>1 DEF AInv, Registered
<1>4. Elements(Filter(analyses_with[cb], Undecided)) = Elements(analyses_with[cb]) \cap Undecided
  BY <1>2, FilterElements
<1>5. Elements(Filter(all_analyses, Requiring(cb) \cap Undecided)) = Analysed \cap (Requiring(cb) \cap Undecided)
  BY <1>2, FilterElements
<1>6. l \in Requiring(cb) /\ l \in Undecided
  BY DEF Requiring, Undecided
<1>7. QED
  BY <1>1, <1>3, <1>4, <1>5, <1>6

(* The beginning of an event, for an analysis that is still to handle it.  *)
LEMMA EventSeen ==
  ASSUME AInv, AInv', NEW l \in Analysed, NEW kind, NEW cb, NEW e, Record(kind, e), Begin(cb, e),
         \/ kind = "call" /\ cb = "funcPreCB"
         \/ kind = "access" /\ cb = IF e.isWrite THEN "memWCB" ELSE "memRCB"
  PROVE  EventOccurs(l)
<1> USE DEF AInv, RInv
<1>1. /\ exit_pos = 0 /\ it = 0 /\ it' = 1 /\ Top'.cb = cb
      /\ Len(history) \in Nat /\ Len(history') = Len(history) + 1
      /\ \A k \in 1..Len(history) : history'[k] = history[k]
      /\ history'[Len(history')].kind = kind /\ history'[Len(history')].event = e
      /\ IsList(history) /\ IsList(history')
  BY EventFacts DEF HistoryInv
<1>2. HistoryGrows
  BY <1>1, ListFacts DEF HistoryGrows
<1>3. UNCHANGED <<contract_status, exit_pos, temporaries, analyses_with>>
  BY DEF Begin, vars
<1>4. Seen(l) = Len(history)
  BY <1>1 DEF Seen, Pending
<1>5. cb \in Callbacks /\ cb # "funcPostCB" /\ kind \in {"call", "access"}
  BY DEF Callbacks
<1>6. Seen(l)' = Len(history) \/ (Seen(l)' = Len(history) + 1 /\ l \notin Elements(analyses_with[cb]))
  <2>1. Pending(l)' <=> l \in Elements(analyses_with[cb])
    <3>1. Pending(l)' <=> \E i \in 1..Len(analyses_with[cb]) : i >= 1 /\ analyses_with[cb][i] = l
      BY <1>1, <1>3, <1>5 DEF Pending
    <3>2. Len(analyses_with[cb]) \in Nat
      BY <1>5, LenProperties DEF ListsInv
    <3>3. QED
      BY <3>1, <3>2 DEF Elements
  <2>2. QED
    BY <1>1, <2>1 DEF Seen
<1>7. l \notin Elements(analyses_with[cb]) => Decided(l) \/ cb \notin requiredCallbacks(l)
  BY UndecidedListed
<1>8. "funcPreCB" \in requiredCallbacks(l)
  BY DEF requiredCallbacks
<1>9. QED
  BY <1>1, <1>2, <1>3, <1>4, <1>5, <1>6, <1>7, <1>8 DEF EventOccurs

(* A round of the loop, for the analysis whose turn it is and for the      *)
(* others.                                                                 *)
LEMMA LoopSeen ==
  ASSUME AInv, NEW l \in Analysed, KeepAnalysis \/ SettleAnalysis
  PROVE  IF Current = l /\ Top.cb # "funcPostCB" THEN TurnTaken(l) ELSE Elsewhere(l)
<1> USE DEF AInv, RInv
<1> DEFINE s == analyses_with[Top.cb]
           t == analyses_with'[Top.cb]
<1>1. /\ it > 0 /\ Turn /\ UNCHANGED <<history, exit_pos, stack>> /\ Top' = Top
      /\ temporaries' = [temporaries EXCEPT ![Current] = Handled.state]
  BY DEF KeepAnalysis, SettleAnalysis, Asking, vars, Top
<1>2. /\ exit_pos = 0 /\ Top.cb \in Callbacks /\ s \in Seq(Requiring(Top.cb)) /\ Len(s) \in Nat
      /\ it \in 1..Len(s) /\ Current = s[it] /\ Current \in Elements(s) /\ Current \in Analysed
      /\ Top.cb \in requiredCallbacks(Current)
      /\ Distinct(s)
  BY <1>1, CurrentFacts DEF ListsInv, Current
<1>3. /\ Len(history) \in Nat /\ DOMAIN history = 1..Len(history)
      /\ Top.cb # "funcPostCB" => Len(history) > 0
  BY <1>1, ListFacts DEF HistoryInv
<1>4. ASSUME KeepAnalysis
      PROVE  Pending(l)' <=> Pending(l) /\ l # Current
  <2>1. it' = it + 1 /\ UNCHANGED analyses_with
    BY <1>4 DEF KeepAnalysis
  <2>2. Pending(l)' <=> /\ Top.cb # "funcPostCB"
                        /\ \E i \in 1..Len(s) : i >= it + 1 /\ s[i] = l
    BY <1>1, <1>2, <2>1 DEF Pending
  <2>3. Pending(l) <=> /\ Top.cb # "funcPostCB"
                       /\ \E i \in 1..Len(s) : i >= it /\ s[i] = l
    BY <1>1 DEF Pending
  <2> HIDE DEF s
  <2>4. QED
    BY <1>2, <2>2, <2>3 DEF Distinct
<1>5. ASSUME SettleAnalysis
      PROVE  Pending(l)' <=> Pending(l) /\ l # Current
  <2>1. it' = it /\ t = Without(s, it)
    BY <1>5, SettleLists DEF SettleAnalysis
  <2>2. Pending(l)' <=> /\ Top.cb # "funcPostCB"
                        /\ \E i \in 1..Len(t) : i >= it /\ t[i] = l
    BY <1>1, <2>1 DEF Pending
  <2>3. Pending(l) <=> /\ Top.cb # "funcPostCB"
                       /\ \E i \in 1..Len(s) : i >= it /\ s[i] = l
    BY <1>1 DEF Pending
  <2> HIDE DEF s, t
  <2>4. Len(t) = Len(s) - 1 /\ \A n \in 1..Len(s) - 1 : t[n] = IF n < it THEN s[n] ELSE s[n + 1]
    BY <1>2, <2>1, WithoutFacts
  <2>5. ASSUME NEW i \in 1..Len(t), i >= it, t[i] = l
        PROVE  i + 1 \in 1..Len(s) /\ i + 1 >= it /\ s[i + 1] = l /\ l # Current
    BY <1>2, <2>4, <2>5 DEF Distinct
  <2>6. ASSUME NEW i \in 1..Len(s), i >= it, s[i] = l, l # Current
        PROVE  i - 1 \in 1..Len(t) /\ i - 1 >= it /\ t[i - 1] = l
    <3>1. i # it
      BY <1>2, <2>6
    <3>2. i - 1 \in 1..Len(s) - 1 /\ ~(i - 1 < it) /\ (i - 1) + 1 = i
      BY <1>2, <2>6, <3>1
    <3>3. t[i - 1] = IF i - 1 < it THEN s[i - 1] ELSE s[(i - 1) + 1]
      BY <2>4, <3>2
    <3>4. QED
      BY <1>2, <2>4, <2>6, <3>2, <3>3
  <2>7. QED
    BY <2>2, <2>3, <2>5, <2>6
<1>6. Pending(l)' <=> Pending(l) /\ l # Current
  BY <1>4, <1>5
<1>7. /\ Handled.verdict = Unknown => contract_status'[l] = contract_status[l]
      /\ Handled.verdict # Unknown => Top.cb = Deciding(Current) /\ ~Decided(Current)
      /\ Handled.verdict # Unknown /\ l # Current => contract_status'[l] = contract_status[l]
      /\ Handled.verdict # Unknown /\ l = Current => contract_status'[l] = Handled.verdict
  <2>1. contract_status \in [Formula -> Verdict \cup {Absent}] /\ l \in Formula
    BY DEF IInv, Types, Analysed, Leaf
  <2>2. CASE KeepAnalysis
    BY <2>2 DEF KeepAnalysis, vars
  <2>3. CASE SettleAnalysis
    <3>1. Handled.verdict # Unknown
      BY <2>3 DEF SettleAnalysis
    <3>2. Top.cb = Deciding(Current)
      BY <1>1, <3>1, VerdictFacts
    <3>3. ~Decided(Current)
      BY <1>2, <3>2 DEF ListedUndecided
    <3>4. contract_status' = [contract_status EXCEPT ![Current] = Handled.verdict]
      BY <2>3, <3>3 DEF SettleAnalysis
    <3>5. QED
      BY <2>1, <3>1, <3>2, <3>3, <3>4
  <2>4. QED
    BY <2>2, <2>3
<1>8. CASE Current = l /\ Top.cb # "funcPostCB"
  <2>1. Pending(l) /\ ~Pending(l)'
    <3>1. \E i \in 1..Len(s) : i >= it /\ s[i] = l
      <4>1. it \in 1..Len(s) /\ it >= it /\ s[it] = l
        BY <1>2, <1>8
      <4> HIDE DEF s
      <4>2. QED
        BY <4>1
    <3>2. Pending(l)
      BY <1>1, <1>8, <3>1 DEF Pending
    <3>3. QED
      BY <1>6, <1>8, <3>2
  <2>2. Seen(l) = Len(history) - 1 /\ Seen(l)' = Len(history)
    BY <1>1, <2>1 DEF Seen
  <2>3. temporaries'[l] = Handled.state
    BY <1>1, <1>2, <1>8 DEF DataInv
  <2>4. QED
    BY <1>1, <1>2, <1>3, <1>7, <1>8, <2>2, <2>3 DEF TurnTaken
<1>9. CASE ~(Current = l /\ Top.cb # "funcPostCB")
  <2>1. Pending(l)' <=> Pending(l)
    BY <1>6, <1>9 DEF Pending
  <2>2. Seen(l)' = Seen(l)
    BY <1>1, <2>1 DEF Seen
  <2>3. contract_status'[l] = contract_status[l]
    <3>1. CASE Current = l
      <4>1. AnalysisOf(l) # "Release" /\ Deciding(l) = "funcPreCB"
        BY <1>2, <1>9, <3>1, RequiringFacts
      <4>2. QED
        BY <1>7, <1>9, <3>1, <4>1
    <3>2. CASE Current # l
      BY <1>7, <3>2
    <3>3. QED
      BY <3>1, <3>2
  <2>4. AnalysisOf(l) # "Alloc" => temporaries'[l] = temporaries[l]
    <3>1. CASE Current = l
      BY <1>2, <1>9, <3>1, RequiringFacts
    <3>2. CASE Current # l
      BY <1>1, <3>2 DEF DataInv
    <3>3. QED
      BY <3>1, <3>2
  <2>5. QED
    BY <1>1, <1>2, <1>3, <1>9, <2>2, <2>3, <2>4 DEF Elsewhere
<1>10. QED
  BY <1>8, <1>9

(* Every step is of one of the three kinds.                                *)
LEMMA StepKinds ==
  ASSUME AInv, [RuntimeNext]_allvars, NEW l \in Analysed
  PROVE  EventOccurs(l) \/ TurnTaken(l) \/ Elsewhere(l)
<1>0. AInv' /\ Len(history) \in Nat /\ DOMAIN history = 1..Len(history)
  BY AInvStep, ListFacts DEF AInv, RInv, HistoryInv
<1>1. ASSUME NEW c \in Call, FunctionCallback(c)
      PROVE  EventOccurs(l)
  <2>1. Record("call", c) /\ Begin("funcPreCB", c)
    BY <1>1 DEF FunctionCallback
  <2>2. QED
    BY <1>0, <2>1, EventSeen
<1>2. ASSUME NEW a \in Access, MemCallback(a)
      PROVE  EventOccurs(l)
  <2> DEFINE cb == IF a.isWrite THEN "memWCB" ELSE "memRCB"
  <2>1. Record("access", a) /\ Begin(cb, a)
    BY <1>2 DEF MemCallback
  <2>2. cb = IF a.isWrite THEN "memWCB" ELSE "memRCB"
    OBVIOUS
  <2> HIDE DEF cb
  <2>3. QED
    BY <1>0, <2>1, <2>2, EventSeen
<1>3. ASSUME NEW r, FunctionReturns(r)
      PROVE  Elsewhere(l)
  <2>1. UNCHANGED <<history, temporaries, contract_status, exit_pos>>
    BY <1>3 DEF FunctionReturns, vars
  <2>2. it = 0 /\ Top'.cb = "funcPostCB"
    BY <1>3, ReturnFacts DEF AInv, RInv
  <2>3. Seen(l) = Len(history) /\ Seen(l)' = Len(history)
    BY <2>1, <2>2 DEF Seen, Pending
  <2>4. QED
    BY <1>0, <2>1, <2>3 DEF Elsewhere
<1>4. CASE KeepAnalysis \/ SettleAnalysis
  BY <1>4, LoopSeen
<1>5. CASE EndOfList
  <2>1. UNCHANGED <<history, temporaries, contract_status, exit_pos>> /\ it > 0 /\ ~Turn /\ it' = 0
    BY <1>5 DEF EndOfList, vars
  <2>2. Len(analyses_with[Top.cb]) \in Nat /\ DOMAIN analyses_with[Top.cb] = 1..Len(analyses_with[Top.cb])
    <3>1. Top.cb \in Callbacks
      BY <1>5, EndFacts DEF AInv, RInv
    <3>2. QED
      BY <3>1, LenProperties DEF AInv, RInv, ListsInv
  <2>3. ~Pending(l) /\ ~Pending(l)'
    BY <2>1, <2>2 DEF Pending, Turn, AInv, RInv, StackInv
  <2>4. QED
    BY <1>0, <2>1, <2>3 DEF Elsewhere, Seen
<1>6. CASE EngineStep
  <2>1. UNCHANGED <<history, temporaries, it, stack, analyses_with>>
    BY <1>6, EngineFacts DEF AInv, RInv
  <2>2. Seen(l)' = Seen(l)
    BY <2>1 DEF Seen, Pending, Top
  <2>3. exit_pos > 0 => exit_pos' > 0
    <3>1. exit_pos \in Nat /\ exit_pos' \in Nat
      BY <1>0, AnalysesAssumption, LenProperties DEF AInv, IInv, Types
    <3>2. QED
      BY <1>6, <3>1, EngineFacts DEF AInv, RInv
  <2>4. \/ contract_status'[l] = contract_status[l]
        \/ exit_pos > 0 /\ ~Decided(l) /\ contract_status'[l] = onProgramExit(l)
    <3>1. CASE DestructorConcludes
      <4>1. ExitConclude(onProgramExit(ExitLeaf))
        BY <3>1 DEF DestructorConcludes
      <4>2. exit_pos > 0 /\ ~Decided(ExitLeaf)
            /\ contract_status' = [contract_status EXCEPT ![ExitLeaf] = onProgramExit(ExitLeaf)]
        BY <4>1, AnalysesAssumption, LenProperties DEF ExitConclude
      <4>3. QED
        BY <4>2 DEF AInv, IInv, Types, Analysed, Leaf
    <3>2. CASE Resolve
      <4>1. CASE Propagate
        <5>1. Parent \in Formula \ Leaf /\ contract_status' = [contract_status EXCEPT ![Parent] = Outcome(Parent)]
          BY <4>1, TreeFacts DEF Propagate, Parent
        <5>2. QED
          BY <5>1 DEF AInv, IInv, Types, Analysed
      <4>2. CASE ParentAlreadyDecided \/ NothingToPropagate \/ ReportRoot
        BY <4>2 DEF ParentAlreadyDecided, NothingToPropagate, ReportRoot
      <4>3. QED
        BY <3>2, <4>1, <4>2 DEF Resolve, ValidateState
    <3>3. CASE ProgramExits \/ DestructorAdvances \/ printCoverageFile \/ UNCHANGED allvars
      BY <3>3 DEF ProgramExits, StartExit, DestructorAdvances, ExitAdvance, printCoverageFile, allvars, vars
    <3>4. QED
      BY <1>6, <3>1, <3>2, <3>3 DEF EngineStep
  <2>5. QED
    BY <1>0, <2>1, <2>2, <2>3, <2>4 DEF Elsewhere
<1>7. QED
  BY <1>1, <1>2, <1>3, <1>4, <1>5, <1>6, RuntimeCases

-----------------------------------------------------------------------------
(* What is known of the past does not change.                              *)
LEMMA CallsGrow ==
  ASSUME HistoryGrows, NEW funcs
  PROVE  /\ CallsOf(funcs) \subseteq 1..Len(history)
         /\ \A i \in 1..Len(history) : i \in CallsOf(funcs)' <=> i \in CallsOf(funcs)
         /\ CallsOf(funcs)' \subseteq 1..Len(history) + 1
         /\ Len(history) + 1 \in CallsOf(funcs)' <=>
              /\ history'[Len(history) + 1].kind = "call"
              /\ history'[Len(history) + 1].event.func \in funcs
BY DEF HistoryGrows, CallsOf, Calls

(* Later events do not change what matched.                                *)
LEMMA MatchesStable ==
  ASSUME HistoryGrows, NEW params, NEW target \in 1..Len(history), NEW supplied \in 1..Len(history),
         NEW now \in 1..Len(history)
  PROVE  Matches(params, target, supplied, now)' <=> Matches(params, target, supplied, now)
<1>1. history'[target] = history[target] /\ history'[supplied] = history[supplied] /\ history'[now] = history[now]
  BY DEF HistoryGrows
<1>2. QED
  BY <1>1 DEF Matches

(* Later events do not change which call of the supplier was supported.    *)
LEMMA SupportedStable ==
  ASSUME HistoryGrows, NEW l, NEW i \in 1..Len(history)
  PROVE  Supported(l, i)' <=> Supported(l, i)
<1> DEFINE T == CallsOf(operation[l].targets)
<1>1. /\ T \subseteq 1..Len(history)
      /\ \A k \in 1..Len(history) : k \in T' <=> k \in T
      /\ T' \subseteq 1..Len(history) + 1
      /\ Len(history) \in Nat
  BY CallsGrow DEF HistoryGrows
<1>2. \A k \in 1..Len(history) : Matches(operation[l].params, k, i, i)' <=> Matches(operation[l].params, k, i, i)
  BY MatchesStable
<1>3. Supported(l, i) <=> \E k \in T : k < i /\ Matches(operation[l].params, k, i, i)
  BY DEF Supported
<1>4. Supported(l, i)' <=> \E k \in T' : k < i /\ Matches(operation[l].params, k, i, i)'
  BY DEF Supported
<1> HIDE DEF T
<1>5. \A k \in T' : k < i => k \in T
  BY <1>1
<1>6. \A k \in T : k \in T' /\ k \in 1..Len(history)
  BY <1>1
<1>7. QED
  BY <1>2, <1>3, <1>4, <1>5, <1>6

(* The least element of a set of numbers.                                  *)
LEMMA MinFacts ==
  ASSUME NEW S \in SUBSET Nat
  PROVE  /\ S # {} => Min(S) \in S /\ \A j \in S : Min(S) <= j
         /\ \A m \in S : (\A j \in S : m <= j) => Min(S) = m
<1>1. ASSUME NEW m \in S, \A j \in S : m <= j
      PROVE  Min(S) \in S /\ \A j \in S : Min(S) <= j
  BY <1>1 DEF Min
<1>2. ASSUME NEW m \in S, \A j \in S : m <= j
      PROVE  Min(S) = m
  <2>1. Min(S) \in S /\ \A j \in S : Min(S) <= j
    BY <1>1, <1>2
  <2> DEFINE k == Min(S)
  <2>2. k \in S /\ (\A j \in S : k <= j) /\ S \subseteq Nat
    BY <2>1
  <2> HIDE DEF k
  <2>3. k <= m /\ m <= k /\ k \in Nat /\ m \in Nat
    BY <1>2, <2>2
  <2>4. k = m
    BY <2>3
  <2>5. QED
    BY <2>4 DEF k
<1>3. S # {} => \E m \in S : \A j \in S : m <= j
  BY LeastElement
<1>4. QED
  BY <1>1, <1>2, <1>3

-----------------------------------------------------------------------------
(* PreCall.                                                                *)
LEMMA PreCallInit_ ==
  ASSUME RuntimeInit, NEW l \in Analyses("PreCall")
  PROVE  PreCallInv(l)
<1>1. history = <<>> /\ it = 0 /\ contract_status[l] = Absent /\ l \in Analysed /\ AnalysisOf(l) = "PreCall"
  BY DEF RuntimeInit, Init, Analyses, Analysed, Leaf
<1>2. DOMAIN history = {}
  BY <1>1, ListEmpty
<1>3. temporaries[l].possible_matches = {}
  BY <1>1 DEF RuntimeInit, InitTemporaries, PreCallInit
<1>4. \A n : SuppliedTo(l, n) = {} /\ Collected(l, n) = {}
  BY <1>2 DEF SuppliedTo, Supplied, CallsOf, Calls, Collected
<1>5. QED
  BY <1>1, <1>3, <1>4 DEF PreCallInv

(* What the constructor of the analysis fixes.                             *)
LEMMA PreCallTypes ==
  ASSUME NEW l \in Analyses("PreCall")
  PROVE  /\ l \in Analysed /\ AnalysisOf(l) = "PreCall" /\ requiredCallbacks(l) = {"funcPreCB"}
         /\ Deciding(l) = "funcPreCB"
BY DEF Analyses, requiredCallbacks, Deciding

(* An event that the analysis has not handled yet changes nothing for it.  *)
LEMMA PreCallEvent ==
  ASSUME NEW l \in Analyses("PreCall"), PreCallInv(l), EventOccurs(l)
  PROVE  PreCallInv(l)'
<1> DEFINE n == Len(history)
           S == SuppliedTo(l, n)
           T == CallsOf(operation[l].targets)
<1>1. /\ HistoryGrows /\ n \in Nat /\ Seen(l) = n /\ exit_pos = 0
      /\ contract_status'[l] = contract_status[l] /\ exit_pos' = exit_pos /\ temporaries' = temporaries
  BY DEF EventOccurs, HistoryGrows
<1>2. Supplied(l) \subseteq 1..n /\ S = Supplied(l) /\ S \in SUBSET Nat
  BY <1>1, CallsGrow DEF SuppliedTo, Supplied
<1>3. \A i \in 1..n : i \in Supplied(l)' <=> i \in Supplied(l)
  BY <1>1, CallsGrow DEF Supplied
<1>4. Supplied(l)' \subseteq 1..n + 1
  BY <1>1, CallsGrow DEF Supplied
<1>5. ASSUME NEW m \in {n, n + 1}, m = n \/ n + 1 \notin T'
      PROVE  Collected(l, m)' = Collected(l, n)
  <2>1. {j \in T' : j <= m} = {j \in T : j <= n}
    BY <1>1, <1>5, CallsGrow
  <2>2. \A j \in {i \in T : i <= n} : history'[j] = history[j]
    BY <1>1, CallsGrow DEF HistoryGrows
  <2>3. QED
    BY <2>1, <2>2 DEF Collected
<1>6. ASSUME NEW m \in {n, n + 1}, S # {}
      PROVE  SuppliedTo(l, m)' # {} /\ Min(SuppliedTo(l, m)') = Min(S) /\ Min(S) \in 1..n
  <2>1. Min(S) \in S /\ \A j \in S : Min(S) <= j
    BY <1>2, <1>6, MinFacts
  <2>2. SuppliedTo(l, m)' = {i \in Supplied(l)' : i <= m}
    BY DEF SuppliedTo
  <2> DEFINE U == {i \in Supplied(l)' : i <= m}
  <2>3. U \in SUBSET Nat /\ Min(S) \in U
    BY <1>1, <1>2, <1>3, <1>4, <2>1
  <2>4. \A j \in U : Min(S) <= j
    BY <1>1, <1>2, <1>3, <1>4, <2>1
  <2> HIDE DEF U, S
  <2>5. Min(U) = Min(S)
    BY <2>3, <2>4, MinFacts
  <2>6. QED
    BY <1>2, <2>1, <2>2, <2>3, <2>5 DEF U
<1>7. ASSUME NEW m \in {n, n + 1}, m = n \/ (n + 1 \notin T' /\ n + 1 \notin Supplied(l)'), S = {}
      PROVE  SuppliedTo(l, m)' = {}
  BY <1>1, <1>2, <1>3, <1>4, <1>7 DEF SuppliedTo
<1>8. \A i \in 1..n : Supported(l, i)' <=> Supported(l, i)
  BY <1>1, SupportedStable
<1>9. \/ Seen(l)' = n
      \/ Seen(l)' = n + 1 /\ Decided(l)
      \/ Seen(l)' = n + 1 /\ n + 1 \notin T' /\ n + 1 \notin Supplied(l)'
  <2>1. history'[n + 1].kind = "access" => n + 1 \notin T' /\ n + 1 \notin Supplied(l)'
    BY <1>1, CallsGrow DEF Supplied
  <2>2. QED
    BY <2>1 DEF EventOccurs
<1>10. Decided(l) => S # {}
  BY <1>1 DEF PreCallInv, Decided
<1> SUFFICES ASSUME NEW m, m = Seen(l)'
             PROVE  PreCallInv(l)'
  OBVIOUS
<1>11. m \in {n, n + 1}
  BY <1>9
<1>12. PreCallInv(l)' <=>
         /\ SuppliedTo(l, m)' = {} =>
              /\ contract_status'[l] = Absent \/ (contract_status'[l] = "INACTIVE" /\ exit_pos' > 0)
              /\ temporaries'[l].possible_matches = Collected(l, m)'
         /\ SuppliedTo(l, m)' # {} =>
              contract_status'[l] = IF Supported(l, Min(SuppliedTo(l, m)))' THEN "FULFILLED" ELSE "VIOLATED"
  BY DEF PreCallInv
<1>13. QED
  BY <1>1, <1>5, <1>6, <1>7, <1>8, <1>9, <1>10, <1>11, <1>12 DEF PreCallInv

(* What the analysis has been told before its turn, and what it is told.   *)
LEMMA TurnFacts ==
  ASSUME AInv, NEW l \in Analysed, TurnTaken(l)
  PROVE  /\ Len(history) \in Nat \ {0} /\ DOMAIN history = 1..Len(history)
         /\ history[Len(history)].event = Top.event /\ history[Len(history)].memory = memory
         /\ history[Len(history)].kind = IF Top.cb = "funcPreCB" THEN "call" ELSE "access"
         /\ Top.cb # "funcPreCB" => Top.cb = IF Top.event.isWrite THEN "memWCB" ELSE "memRCB"
         /\ Top.cb = Deciding(l) => ~Decided(l)
BY DEF TurnTaken, AInv, RInv, HistoryInv, ListedUndecided

(* What an event means does not depend on anything but the history.        *)
LEMMA Unmoved ==
  ASSUME UNCHANGED history, NEW l
  PROVE  /\ \A n : SuppliedTo(l, n)' = SuppliedTo(l, n)
         /\ \A n : Collected(l, n)' = Collected(l, n)
         /\ \A n : OutstandingTo(l, n)' = OutstandingTo(l, n)
         /\ \A n : OpenTo(l, n)' = OpenTo(l, n)
         /\ \A n : BrokenTo(l, n)' = BrokenTo(l, n)
         /\ \A i : Supported(l, i)' = Supported(l, i)
BY DEF SuppliedTo, Collected, OutstandingTo, OpenTo, BrokenTo, Supported, Supplied,
       CallsOf, Calls, Matches, SameLocation, Protects, Forbidden

(* The turn of another analysis changes nothing for this one.              *)
LEMMA PreCallElsewhere ==
  ASSUME NEW l \in Analyses("PreCall"), PreCallInv(l), Elsewhere(l)
  PROVE  PreCallInv(l)'
<1>1. /\ Seen(l)' = Seen(l) /\ temporaries'[l] = temporaries[l] /\ history' = history
      /\ exit_pos > 0 => exit_pos' > 0
      /\ \/ contract_status'[l] = contract_status[l]
         \/ exit_pos > 0 /\ ~Decided(l) /\ contract_status'[l] = "INACTIVE"
  BY PreCallTypes DEF Elsewhere, onProgramExit
<1>2. /\ \A n : SuppliedTo(l, n)' = SuppliedTo(l, n)
      /\ \A n : Collected(l, n)' = Collected(l, n)
      /\ \A i : Supported(l, i)' = Supported(l, i)
  BY <1>1, Unmoved
<1> DEFINE n == Seen(l)
<1>3. PreCallInv(l)' <=>
         /\ SuppliedTo(l, n) = {} =>
              /\ contract_status'[l] = Absent \/ (contract_status'[l] = "INACTIVE" /\ exit_pos' > 0)
              /\ temporaries'[l].possible_matches = Collected(l, n)
         /\ SuppliedTo(l, n) # {} =>
              contract_status'[l] = IF Supported(l, Min(SuppliedTo(l, n))) THEN "FULFILLED" ELSE "VIOLATED"
  BY <1>1, <1>2 DEF PreCallInv
<1>4. Decided(l) <=> contract_status[l] # Absent
  BY DEF Decided
<1>5. "FULFILLED" # Absent /\ "VIOLATED" # Absent
  BY DEF Absent
<1>6. QED
  BY <1>1, <1>3, <1>4, <1>5 DEF PreCallInv

(* The latest event, as the sets of calls see it.                          *)
LEMMA LatestCall ==
  ASSUME NEW n \in Nat, DOMAIN history = 1..n + 1, NEW funcs
  PROVE  /\ CallsOf(funcs) \subseteq 1..n + 1
         /\ n + 1 \in CallsOf(funcs) <=> history[n + 1].kind = "call" /\ history[n + 1].event.func \in funcs
         /\ {i \in CallsOf(funcs) : i <= n + 1} = CallsOf(funcs)
         /\ {i \in CallsOf(funcs) : i <= n} = CallsOf(funcs) \ {n + 1}
BY DEF CallsOf, Calls

(* The handler of the analysis does with the event what its meaning asks   *)
(* for.                                                                    *)
LEMMA PreCallTurn ==
  ASSUME AInv, NEW l \in Analyses("PreCall"), PreCallInv(l), TurnTaken(l)
  PROVE  PreCallInv(l)'
<1> DEFINE n    == Len(history) - 1
           T    == CallsOf(operation[l].targets)
           e    == Top.event
           op   == operation[l]
           st   == temporaries[l]
           last == [func |-> e.func, params |-> e.params]
           met  == \E m \in st.possible_matches :
                     op.params = {} \/ checkFuncCallMatch(memory, m.func, op.params, m.params, e.params)
<1>1. /\ l \in Analysed /\ AnalysisOf(l) = "PreCall" /\ Top.cb = "funcPreCB" /\ Deciding(l) = "funcPreCB"
      /\ Current = l
  BY PreCallTypes DEF TurnTaken
<1>2. /\ n \in Nat /\ Len(history) = n + 1 /\ DOMAIN history = 1..n + 1
      /\ history[n + 1].event = e /\ history[n + 1].memory = memory /\ history[n + 1].kind = "call"
      /\ contract_status[l] = Absent
  BY <1>1, TurnFacts DEF Decided
<1>3. /\ history' = history /\ Seen(l) = n /\ Seen(l)' = n + 1
      /\ temporaries'[l] = Handled.state
      /\ contract_status'[l] = IF Handled.verdict = Unknown THEN Absent ELSE Handled.verdict
  BY <1>2 DEF TurnTaken
<1>4. Handled = PreCallOnCall(op, st, e.func, e, memory)
  BY <1>1 DEF Handled
<1> HIDE DEF n, e
<1>5. /\ T \subseteq 1..n + 1 /\ Supplied(l) \subseteq 1..n + 1
      /\ n + 1 \in T <=> e.func \in op.targets
      /\ n + 1 \in Supplied(l) <=> e.func = op.supplier /\ e.func \notin op.targets
      /\ {i \in T : i <= n + 1} = T /\ {i \in T : i <= n} = T \ {n + 1}
      /\ SuppliedTo(l, n + 1) = Supplied(l) /\ SuppliedTo(l, n) = Supplied(l) \ {n + 1}
  <2> DEFINE S == CallsOf({op.supplier} \ op.targets)
  <2>1. /\ S \subseteq 1..n + 1 /\ T \subseteq 1..n + 1
        /\ n + 1 \in T <=> history[n + 1].event.func \in op.targets
        /\ n + 1 \in S <=> history[n + 1].event.func \in {op.supplier} \ op.targets
        /\ {i \in T : i <= n + 1} = T /\ {i \in T : i <= n} = T \ {n + 1}
        /\ {i \in S : i <= n + 1} = S /\ {i \in S : i <= n} = S \ {n + 1}
    BY <1>2, LatestCall
  <2>2. \A m : SuppliedTo(l, m) = {i \in S : i <= m}
    BY DEF SuppliedTo, Supplied
  <2>3. Supplied(l) = S
    BY DEF Supplied
  <2> HIDE DEF S, T
  <2>4. QED
    BY <1>2, <2>1, <2>2, <2>3
<1>6. SuppliedTo(l, n) = {} /\ st.possible_matches = Collected(l, n)
  BY <1>2, <1>3 DEF PreCallInv, Absent
<1>7. Collected(l, n + 1) = IF e.func \in op.targets THEN Collected(l, n) \cup {last} ELSE Collected(l, n)
  BY <1>2, <1>5 DEF Collected
<1>8. Supported(l, n + 1) <=> met
  <2>1. Supported(l, n + 1) <=> \E k \in T \ {n + 1} : Matches(op.params, k, n + 1, n + 1)
    BY <1>2, <1>5 DEF Supported
  <2>2. \A k : Matches(op.params, k, n + 1, n + 1) <=>
                 op.params = {} \/ checkFuncCallMatch(memory, history[k].event.func, op.params,
                                                      history[k].event.params, e.params)
    BY <1>2 DEF Matches
  <2>3. Collected(l, n) = {[func |-> history[k].event.func, params |-> history[k].event.params] : k \in T \ {n + 1}}
    BY <1>5 DEF Collected
  <2> HIDE DEF T
  <2>4. met <=> \E k \in T \ {n + 1} :
                  op.params = {} \/ checkFuncCallMatch(memory, history[k].event.func, op.params,
                                                      history[k].event.params, e.params)
    <3> DEFINE Fits(f, p) == op.params = {} \/ checkFuncCallMatch(memory, f, op.params, p, e.params)
    <3>1. met <=> \E m \in Collected(l, n) : Fits(m.func, m.params)
      BY <1>6
    <3> HIDE DEF Fits, met
    <3>2. met <=> \E k \in T \ {n + 1} : Fits(history[k].event.func, history[k].event.params)
      <4>1. ASSUME NEW m \in Collected(l, n), Fits(m.func, m.params)
            PROVE  \E k \in T \ {n + 1} : Fits(history[k].event.func, history[k].event.params)
        <5>1. PICK k \in T \ {n + 1} : m = [func |-> history[k].event.func, params |-> history[k].event.params]
          BY <2>3
        <5>2. m.func = history[k].event.func /\ m.params = history[k].event.params
          BY <5>1
        <5>3. QED
          BY <4>1, <5>2
      <4>2. ASSUME NEW k \in T \ {n + 1}, Fits(history[k].event.func, history[k].event.params)
            PROVE  \E m \in Collected(l, n) : Fits(m.func, m.params)
        <5>1. PICK m : m = [func |-> history[k].event.func, params |-> history[k].event.params]
          OBVIOUS
        <5>2. m \in Collected(l, n) /\ m.func = history[k].event.func /\ m.params = history[k].event.params
          BY <2>3, <5>1
        <5>3. QED
          BY <4>2, <5>2
      <4>3. QED
        BY <3>1, <4>1, <4>2
    <3>3. QED
      BY <3>2 DEF Fits
  <2>5. QED
    BY <2>1, <2>2, <2>4
<1>9. PreCallInv(l)' <=>
         /\ SuppliedTo(l, n + 1) = {} =>
              /\ contract_status'[l] = Absent \/ (contract_status'[l] = "INACTIVE" /\ exit_pos' > 0)
              /\ temporaries'[l].possible_matches = Collected(l, n + 1)
         /\ SuppliedTo(l, n + 1) # {} =>
              contract_status'[l] = IF Supported(l, Min(SuppliedTo(l, n + 1))) THEN "FULFILLED" ELSE "VIOLATED"
  <2>1. /\ \A m : SuppliedTo(l, m)' = SuppliedTo(l, m)
        /\ \A m : Collected(l, m)' = Collected(l, m)
        /\ \A i : Supported(l, i)' = Supported(l, i)
    BY <1>3, Unmoved
  <2>2. QED
    BY <1>3, <2>1 DEF PreCallInv
<1>10. CASE e.func \in op.targets
  <2>1. Handled.verdict = Unknown /\ Handled.state.possible_matches = Collected(l, n) \cup {last}
    BY <1>4, <1>6, <1>10 DEF PreCallOnCall, Result, Collect
  <2>2. SuppliedTo(l, n + 1) = {}
    BY <1>5, <1>6, <1>10
  <2>3. QED
    BY <1>3, <1>7, <1>9, <1>10, <2>1, <2>2
<1>11. CASE e.func \notin op.targets /\ e.func # op.supplier
  <2>1. Handled.verdict = Unknown /\ Handled.state = st
    BY <1>4, <1>11 DEF PreCallOnCall, Result
  <2>2. SuppliedTo(l, n + 1) = {}
    BY <1>5, <1>6, <1>11
  <2>3. QED
    BY <1>3, <1>6, <1>7, <1>9, <1>11, <2>1, <2>2
<1>12. CASE e.func \notin op.targets /\ e.func = op.supplier
  <2>1. Handled.verdict = IF met THEN "FULFILLED" ELSE "VIOLATED"
    BY <1>4, <1>12 DEF PreCallOnCall, Result, PreCallVerdict
  <2>2. SuppliedTo(l, n + 1) = {n + 1}
    BY <1>5, <1>6, <1>12
  <2>3. Min({n + 1}) = n + 1
    BY <1>2 DEF Min
  <2>4. contract_status'[l] = IF met THEN "FULFILLED" ELSE "VIOLATED"
    BY <1>3, <2>1 DEF Unknown
  <2> HIDE DEF met
  <2>5. QED
    BY <1>8, <1>9, <2>2, <2>3, <2>4
<1>13. QED
  BY <1>10, <1>11, <1>12

(* The precall analyses follow the history in every execution.             *)
LEMMA PreCallInvariant == RuntimeSpec => [](AInv /\ \A l \in Analyses("PreCall") : PreCallInv(l))
<1>1. RuntimeInit => \A l \in Analyses("PreCall") : PreCallInv(l)
  BY PreCallInit_
<1>2. AInv /\ (\A l \in Analyses("PreCall") : PreCallInv(l)) /\ [RuntimeNext]_allvars
        => (\A l \in Analyses("PreCall") : PreCallInv(l))'
  <2>1. ASSUME AInv, \A l \in Analyses("PreCall") : PreCallInv(l), [RuntimeNext]_allvars,
               NEW l \in Analyses("PreCall")
        PROVE  PreCallInv(l)'
    <3>1. EventOccurs(l) \/ TurnTaken(l) \/ Elsewhere(l)
      BY <2>1, StepKinds, PreCallTypes
    <3>2. QED
      BY <2>1, <3>1, PreCallEvent, PreCallTurn, PreCallElsewhere
  <2>2. QED
    BY <2>1 DEF Analyses
<1>3. QED
  BY <1>1, <1>2, AInvInit, AInvStep, PTL DEF RuntimeSpec

(* Between two callbacks every analysis has seen the whole history.        *)
LEMMA QuietSeen ==
  ASSUME AInv, Quiet, NEW l
  PROVE  Seen(l) = Len(history) /\ Len(history) \in Nat /\ DOMAIN history = 1..Len(history)
BY ListFacts DEF Quiet, Seen, Pending, AInv, RInv, HistoryInv

(* call! in a precondition, for every program and every contract database: *)
(* the verdict is decided by the supplier's first call and demands a       *)
(* matching call before that one.                                          *)
THEOREM PreCallMeaning == RuntimeSpec => []PreCallExact
<1>1. AInv /\ (\A l \in Analyses("PreCall") : PreCallInv(l)) => PreCallExact
  <2>1. ASSUME AInv, Quiet, NEW l \in Analyses("PreCall"), PreCallInv(l)
        PROVE  IF Supplied(l) = {} THEN contract_status[l] \in {Absent, "INACTIVE"}
               ELSE contract_status[l] = IF Supported(l, Min(Supplied(l))) THEN "FULFILLED" ELSE "VIOLATED"
    <3>1. Seen(l) = Len(history) /\ Len(history) \in Nat /\ DOMAIN history = 1..Len(history)
      BY <2>1, QuietSeen
    <3>2. SuppliedTo(l, Len(history)) = Supplied(l)
      BY <3>1 DEF SuppliedTo, Supplied, CallsOf, Calls
    <3>3. QED
      BY <2>1, <3>1, <3>2 DEF PreCallInv
  <2>2. QED
    BY <2>1 DEF PreCallExact
<1>2. QED
  BY <1>1, PreCallInvariant, PTL

-----------------------------------------------------------------------------
(* PostCall.                                                               *)
LEMMA PostCallInit_ ==
  ASSUME RuntimeInit, NEW l \in Analyses("PostCall")
  PROVE  PostCallInv(l)
<1>1. history = <<>> /\ contract_status[l] = Absent /\ l \in Analysed /\ AnalysisOf(l) = "PostCall"
  BY DEF RuntimeInit, Init, Analyses, Analysed, Leaf
<1>2. DOMAIN history = {}
  BY <1>1, ListEmpty
<1>3. temporaries[l].unchecked = {}
  BY <1>1 DEF RuntimeInit, InitTemporaries, PostCallInit
<1>4. \A n : OutstandingTo(l, n) = {}
  BY <1>2 DEF SuppliedTo, Supplied, CallsOf, Calls, OutstandingTo
<1>5. QED
  BY <1>1, <1>3, <1>4 DEF PostCallInv

(* What the constructor of the analysis fixes.                             *)
LEMMA PostCallTypes ==
  ASSUME NEW l \in Analyses("PostCall")
  PROVE  /\ l \in Analysed /\ AnalysisOf(l) = "PostCall" /\ requiredCallbacks(l) = {"funcPreCB"}
         /\ Deciding(l) = "funcPreCB"
BY DEF Analyses, requiredCallbacks, Deciding

(* An access starts and answers no call, and the past does not change.     *)
LEMMA OutstandingStable ==
  ASSUME HistoryGrows, NEW l, NEW m \in {Len(history), Len(history) + 1},
         m = Len(history) \/ history'[Len(history) + 1].kind # "call"
  PROVE  /\ OutstandingTo(l, m)' = OutstandingTo(l, Len(history))
         /\ OutstandingTo(l, Len(history)) \subseteq 1..Len(history)
<1> DEFINE n == Len(history)
           S == Supplied(l)
           T == CallsOf(operation[l].targets)
           P == operation[l].params
<1>1. n \in Nat
  BY DEF HistoryGrows
<1>2. /\ S \subseteq 1..n /\ T \subseteq 1..n
      /\ \A i \in 1..n : (i \in S' <=> i \in S) /\ (i \in T' <=> i \in T)
      /\ S' \subseteq 1..n + 1 /\ T' \subseteq 1..n + 1
      /\ m = n + 1 => n + 1 \notin S' /\ n + 1 \notin T'
  <2>1. S = CallsOf({operation[l].supplier} \ operation[l].targets)
    BY DEF Supplied
  <2>2. S' = CallsOf({operation[l].supplier} \ operation[l].targets)'
    BY DEF Supplied
  <2>3. QED
    BY <1>1, <2>1, <2>2, CallsGrow
<1>3. \A i, k \in 1..n : Matches(P, k, i, k)' <=> Matches(P, k, i, k)
  BY MatchesStable
<1>4. \A i, j \in 1..n : SameLocation(i, j)' <=> SameLocation(i, j)
  BY DEF SameLocation, HistoryGrows
<1>5. OutstandingTo(l, n) =
        {i \in {j \in S : j <= n} : /\ ~\E k \in T : k > i /\ k <= n /\ Matches(P, k, i, k)
                                    /\ ~\E j \in {j \in S : j <= n} : j > i /\ SameLocation(i, j)}
  BY DEF OutstandingTo, SuppliedTo
<1>6. OutstandingTo(l, m)' =
        {i \in {j \in S' : j <= m} : /\ ~\E k \in T' : k > i /\ k <= m /\ Matches(P, k, i, k)'
                                     /\ ~\E j \in {j \in S' : j <= m} : j > i /\ SameLocation(i, j)'}
  BY DEF OutstandingTo, SuppliedTo
<1> HIDE DEF n, S, T, P
<1>0. m \in {n, n + 1}
  BY DEF n
<1>7. {j \in S : j <= n} = S
  <2>1. \A j \in S : j <= n
    BY <1>1, <1>2
  <2>2. QED
    BY <2>1
<1>8. {j \in S' : j <= m} = S
  <2>1. \A j \in S : j \in S' /\ j <= m
    BY <1>0, <1>1, <1>2
  <2>2. \A j \in S' : j <= m => j \in S
    BY <1>0, <1>1, <1>2
  <2>3. QED
    BY <2>1, <2>2
<1>9. \A i : (i \in T /\ i <= n) <=> i \in T' /\ i <= m
  <2>1. \A i \in T : i <= n /\ i \in T' /\ i <= m
    BY <1>0, <1>1, <1>2
  <2>2. \A i \in T' : i <= m => i \in T
    BY <1>0, <1>1, <1>2
  <2>3. QED
    BY <2>1, <2>2
<1>10. ASSUME NEW i \in S
       PROVE  (\E k \in T' : k > i /\ k <= m /\ Matches(P, k, i, k)')
                <=> \E k \in T : k > i /\ k <= n /\ Matches(P, k, i, k)
  BY <1>2, <1>3, <1>9
<1>11. ASSUME NEW i \in S
       PROVE  (\E j \in S : j > i /\ SameLocation(i, j)') <=> \E j \in S : j > i /\ SameLocation(i, j)
  BY <1>2, <1>4
<1>12. OutstandingTo(l, m)' = OutstandingTo(l, n)
  BY <1>5, <1>6, <1>7, <1>8, <1>10, <1>11
<1>13. QED
  BY <1>2, <1>5, <1>12 DEF n

(* An event that the analysis has not handled yet changes nothing for it.  *)
LEMMA PostCallEvent ==
  ASSUME NEW l \in Analyses("PostCall"), PostCallInv(l), EventOccurs(l)
  PROVE  PostCallInv(l)'
<1> DEFINE n == Len(history)
<1>1. /\ HistoryGrows /\ n \in Nat /\ Seen(l) = n /\ exit_pos = 0
      /\ contract_status'[l] = contract_status[l] /\ exit_pos' = exit_pos /\ temporaries' = temporaries
  BY DEF EventOccurs, HistoryGrows
<1>2. contract_status[l] = Absent
  BY <1>1 DEF PostCallInv
<1>3. Seen(l)' \in {n, n + 1} /\ (Seen(l)' = n \/ history'[n + 1].kind # "call")
  BY <1>1, <1>2 DEF EventOccurs, Decided
<1> SUFFICES ASSUME NEW m, m = Seen(l)'
             PROVE  PostCallInv(l)'
  OBVIOUS
<1>4. OutstandingTo(l, m)' = OutstandingTo(l, n) /\ OutstandingTo(l, n) \subseteq 1..n
  BY <1>1, <1>3, OutstandingStable
<1>5. \A i \in OutstandingTo(l, n) : history'[i] = history[i]
  BY <1>1, <1>4 DEF HistoryGrows
<1>6. {history'[i].event : i \in OutstandingTo(l, n)} = {history[i].event : i \in OutstandingTo(l, n)}
  BY <1>5
<1>7. PostCallInv(l)' <=>
        /\ temporaries'[l].unchecked = {history'[i].event : i \in OutstandingTo(l, m)'}
        /\ \/ contract_status'[l] = Absent
           \/ exit_pos' > 0 /\ contract_status'[l] = IF OutstandingTo(l, m)' = {} THEN "FULFILLED" ELSE "VIOLATED"
  BY DEF PostCallInv
<1>8. temporaries[l].unchecked = {history[i].event : i \in OutstandingTo(l, n)}
  BY <1>1 DEF PostCallInv
<1>9. QED
  BY <1>1, <1>2, <1>4, <1>6, <1>7, <1>8

(* The turn of another analysis changes nothing for this one.              *)
LEMMA PostCallElsewhere ==
  ASSUME NEW l \in Analyses("PostCall"), PostCallInv(l), Elsewhere(l)
  PROVE  PostCallInv(l)'
<1>1. /\ Seen(l)' = Seen(l) /\ temporaries'[l] = temporaries[l] /\ history' = history
      /\ exit_pos > 0 => exit_pos' > 0
  BY PostCallTypes DEF Elsewhere
<1>2. \/ contract_status'[l] = contract_status[l]
      \/ /\ exit_pos > 0
         /\ contract_status'[l] = IF temporaries[l].unchecked = {} THEN "FULFILLED" ELSE "VIOLATED"
  <2>1. onProgramExit(l) = IF temporaries[l].unchecked = {} THEN "FULFILLED" ELSE "VIOLATED"
    BY PostCallTypes DEF onProgramExit, PostCallOnExit
  <2>2. QED
    BY <2>1 DEF Elsewhere
<1>3. \A n : OutstandingTo(l, n)' = OutstandingTo(l, n)
  BY <1>1, Unmoved
<1> DEFINE n == Seen(l)
<1>4. PostCallInv(l)' <=>
         /\ temporaries[l].unchecked = {history[i].event : i \in OutstandingTo(l, n)}
         /\ \/ contract_status'[l] = Absent
            \/ exit_pos' > 0 /\ contract_status'[l] = IF OutstandingTo(l, n) = {} THEN "FULFILLED" ELSE "VIOLATED"
  BY <1>1, <1>3 DEF PostCallInv
<1>5. temporaries[l].unchecked = {} <=> OutstandingTo(l, n) = {}
  BY DEF PostCallInv
<1>6. QED
  BY <1>1, <1>2, <1>4, <1>5 DEF PostCallInv

(* The handler of the analysis does with the event what its meaning asks   *)
(* for.                                                                    *)
LEMMA PostCallTurn ==
  ASSUME AInv, NEW l \in Analyses("PostCall"), PostCallInv(l), TurnTaken(l)
  PROVE  PostCallInv(l)'
<1> DEFINE n    == Len(history) - 1
           e    == Top.event
           op   == operation[l]
           st   == temporaries[l]
           T    == CallsOf(op.targets)
           S    == CallsOf({op.supplier} \ op.targets)
           Out  == OutstandingTo(l, n)
           Rest == OutstandingTo(l, n + 1)
           matched(c) == op.params = {} \/ checkFuncCallMatch(memory, e.func, op.params, e.params, c.params)
<1>1. /\ l \in Analysed /\ AnalysisOf(l) = "PostCall" /\ Top.cb = "funcPreCB" /\ Deciding(l) = "funcPreCB"
      /\ Current = l
  BY PostCallTypes DEF TurnTaken
<1>2. /\ n \in Nat /\ Len(history) = n + 1 /\ DOMAIN history = 1..n + 1
      /\ history[n + 1].event = e /\ history[n + 1].memory = memory /\ history[n + 1].kind = "call"
      /\ contract_status[l] = Absent
  BY <1>1, TurnFacts DEF Decided
<1>3. /\ history' = history /\ Seen(l) = n /\ Seen(l)' = n + 1
      /\ temporaries'[l] = Handled.state
      /\ Handled.verdict = Unknown => contract_status'[l] = Absent
  BY <1>2 DEF TurnTaken
<1>4. Handled = PostCallOnCall(op, st, e.func, e, memory)
  BY <1>1 DEF Handled
<1> HIDE DEF n, e
<1>5. st.unchecked = {history[i].event : i \in Out}
  BY <1>3 DEF PostCallInv
<1>6. Handled.verdict = Unknown
  BY <1>4 DEF PostCallOnCall, Result
<1>7. PostCallInv(l)' <=> Handled.state.unchecked = {history[i].event : i \in Rest}
  <2>1. \A m : OutstandingTo(l, m)' = OutstandingTo(l, m)
    BY <1>3, Unmoved
  <2>2. QED
    BY <1>3, <1>6, <2>1 DEF PostCallInv
<1>8. /\ S \subseteq 1..n + 1 /\ T \subseteq 1..n + 1
      /\ n + 1 \in T <=> e.func \in op.targets
      /\ n + 1 \in S <=> e.func = op.supplier /\ e.func \notin op.targets
      /\ {i \in S : i <= n + 1} = S /\ {i \in S : i <= n} = S \ {n + 1}
  BY <1>2, LatestCall
<1>9. Out = {i \in S \ {n + 1} : /\ ~\E k \in T : k > i /\ k <= n /\ Matches(op.params, k, i, k)
                                 /\ ~\E j \in S \ {n + 1} : j > i /\ SameLocation(i, j)}
  BY <1>8 DEF OutstandingTo, SuppliedTo, Supplied
<1>10. Rest = {i \in S : /\ ~\E k \in T : k > i /\ k <= n + 1 /\ Matches(op.params, k, i, k)
                         /\ ~\E j \in S : j > i /\ SameLocation(i, j)}
  BY <1>8 DEF OutstandingTo, SuppliedTo, Supplied
<1>11. \A i : Matches(op.params, n + 1, i, n + 1) <=> matched(history[i].event)
  BY <1>2 DEF Matches
<1>12. \A i : SameLocation(i, n + 1) <=> history[i].event.location = e.location
  BY <1>2 DEF SameLocation
<1> HIDE DEF S, T, Out, Rest, matched
<1>13. CASE e.func \in op.targets
  <2>1. Handled.state.unchecked = {c \in st.unchecked : ~matched(c)}
    BY <1>4, <1>13 DEF PostCallOnCall, Result, Unanswered, matched
  <2>2. \A i : i \in Rest <=> i \in Out /\ ~matched(history[i].event)
    <3>1. \A i \in S : i \in 1..n /\ i # n + 1
      BY <1>2, <1>8, <1>13
    <3>2. \A k \in T : k <= n + 1 /\ k \in Nat /\ (k <= n <=> k # n + 1)
      BY <1>2, <1>8
    <3>3. n + 1 \in T
      BY <1>8, <1>13
    <3>4. \A i \in S : (\E k \in T : k > i /\ k <= n + 1 /\ Matches(op.params, k, i, k))
                         <=> \/ \E k \in T : k > i /\ k <= n /\ Matches(op.params, k, i, k)
                             \/ matched(history[i].event)
      <4>1. \A i \in S : n + 1 > i /\ n + 1 <= n + 1
        BY <1>2, <3>1
      <4>2. QED
        BY <1>11, <3>1, <3>2, <3>3, <4>1
    <3>5. S \ {n + 1} = S
      BY <3>1
    <3>6. QED
      BY <1>9, <1>10, <3>4, <3>5
  <2>3. QED
    BY <1>5, <1>7, <2>1, <2>2
<1>14. CASE e.func \notin op.targets /\ e.func # op.supplier
  <2>1. Handled.state.unchecked = st.unchecked
    BY <1>4, <1>14 DEF PostCallOnCall, Result
  <2>2. n + 1 \notin T /\ S \ {n + 1} = S
    BY <1>8, <1>14
  <2>3. \A k \in T : k <= n + 1 <=> k <= n
    BY <1>2, <1>8, <2>2
  <2>4. Rest = Out
    BY <1>9, <1>10, <2>2, <2>3
  <2>5. QED
    BY <1>5, <1>7, <2>1, <2>4
<1>15. CASE e.func \notin op.targets /\ e.func = op.supplier
  <2>1. Handled.state.unchecked = {c \in st.unchecked : c.location # e.location} \cup {e}
    BY <1>4, <1>15 DEF PostCallOnCall, Result
  <2>2. n + 1 \notin T /\ n + 1 \in S
    BY <1>8, <1>15
  <2>3. \A k \in T : k <= n + 1 /\ k <= n /\ ~(k > n + 1)
    BY <1>2, <1>8, <2>2
  <2>4. \A j \in S : j # n + 1 => n + 1 > j /\ ~(j > n + 1)
    BY <1>2, <1>8
  <2>5. n + 1 \in Rest
    <3>1. ~(n + 1 > n + 1)
      BY <1>2
    <3>2. QED
      BY <1>10, <2>2, <2>3, <2>4, <3>1
  <2>6. \A i : i # n + 1 => (i \in Rest <=> i \in Out /\ history[i].event.location # e.location)
    <3>1. \A i \in S \ {n + 1} : (\E j \in S : j > i /\ SameLocation(i, j))
             <=> \/ \E j \in S \ {n + 1} : j > i /\ SameLocation(i, j)
                 \/ history[i].event.location = e.location
      BY <1>12, <2>2, <2>4
    <3>2. QED
      BY <1>9, <1>10, <2>3, <3>1
  <2>7. history[n + 1].event = e /\ n + 1 \notin Out
    BY <1>2, <1>9
  <2>8. QED
    BY <1>5, <1>7, <2>1, <2>5, <2>6, <2>7
<1>16. QED
  BY <1>13, <1>14, <1>15

(* The postcall analyses follow the history in every execution.            *)
LEMMA PostCallInvariant == RuntimeSpec => [](AInv /\ \A l \in Analyses("PostCall") : PostCallInv(l))
<1>1. RuntimeInit => \A l \in Analyses("PostCall") : PostCallInv(l)
  BY PostCallInit_
<1>2. AInv /\ (\A l \in Analyses("PostCall") : PostCallInv(l)) /\ [RuntimeNext]_allvars
        => (\A l \in Analyses("PostCall") : PostCallInv(l))'
  <2>1. ASSUME AInv, \A l \in Analyses("PostCall") : PostCallInv(l), [RuntimeNext]_allvars,
               NEW l \in Analyses("PostCall")
        PROVE  PostCallInv(l)'
    <3>1. EventOccurs(l) \/ TurnTaken(l) \/ Elsewhere(l)
      BY <2>1, StepKinds, PostCallTypes
    <3>2. QED
      BY <2>1, <3>1, PostCallEvent, PostCallTurn, PostCallElsewhere
  <2>2. QED
    BY <2>1 DEF Analyses
<1>3. QED
  BY <1>1, <1>2, AInvInit, AInvStep, PTL DEF RuntimeSpec

(* call! in a postcondition, for every program and every contract          *)
(* database: the analysis waits, at any time, for an answer to the latest  *)
(* call of the supplier from each location that no later target call       *)
(* answered, and its verdict at the exit follows from those calls.         *)
THEOREM PostCallMeaning == RuntimeSpec => []PostCallExact
<1>1. AInv /\ (\A l \in Analyses("PostCall") : PostCallInv(l)) => PostCallExact
  <2>1. ASSUME AInv, Quiet, NEW l \in Analyses("PostCall"), PostCallInv(l)
        PROVE  /\ temporaries[l].unchecked = {history[i].event : i \in Outstanding(l)}
               /\ Decided(l) => contract_status[l] = IF Outstanding(l) = {} THEN "FULFILLED" ELSE "VIOLATED"
    <3>1. Seen(l) = Len(history) /\ Len(history) \in Nat /\ DOMAIN history = 1..Len(history)
      BY <2>1, QuietSeen
    <3>2. SuppliedTo(l, Len(history)) = Supplied(l)
      BY <3>1 DEF SuppliedTo, Supplied, CallsOf, Calls
    <3>3. \A k \in CallsOf(operation[l].targets) : k <= Len(history)
      BY <3>1 DEF CallsOf, Calls
    <3>4. OutstandingTo(l, Len(history)) = Outstanding(l)
      BY <3>2, <3>3 DEF OutstandingTo, Outstanding, Answered
    <3>5. QED
      BY <2>1, <3>1, <3>4 DEF PostCallInv, Decided
  <2>2. QED
    BY <2>1 DEF PostCallExact
<1>2. QED
  BY <1>1, PostCallInvariant, PTL
==============================================================================
