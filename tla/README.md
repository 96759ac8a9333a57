# Verification of CoVer in TLA+

CoVer checks contracts that are attached to API functions (MPI, OpenSHMEM):
statically, by a data-flow analysis over LLVM IR, and dynamically, by a runtime
library that the instrumented program calls.  This directory models both, and
the way from one to the other, model-checks them with TLC on small instances and
proves with TLAPS, for every contract database and every program, that the
runtime's verdict engine implements an abstract monitor, that the running
analyser implements the engine, and what its analyses mean on the history of
the program; for every control flow graph what the static engine covers and
that its alarms are true; what a contract keeps on its way through the passes;
and, for any number of invocations, what the compiler wrapper leaves in its
directory.

## The system

| Component | State | Operations | Model |
|---|---|---|---|
| Verdict engine, `Dynamic/Hooks.hpp` | `contract_status`, `formula_parents`, `analysis_references` | `validateState`, error reports, `PPDCV_destructor` | `Resolution`, abstractly `ContractMonitor` |
| Callbacks and life cycle, `Dynamic/Hooks.cpp`, `Hooks.hpp` | four lists of analyses, `visitedLocs`, the call stack, the coverage folder | `PPDCV_Initialize`, `PPDCV_FunctionCallback`, `PPDCV_MemR/WCallback`, coverage file and check | `Runtime`, `Coverage`, `Pipeline` |
| Analyses, `Dynamic/Analyses/` | calls to be matched, allocated blocks | one handler per event | `Analyses`, `ParamCheck` |
| Matching, `Dynamic/DynamicUtils.cpp` | tag tables | `checkParamMatch`, `checkFuncCallMatch` | `Analyses` |
| Static engine, `Include/ContractPassUtility.hpp` | worklist, information per instruction | `GenericWorklist` | `Worklist` |
| Verifiers PreCall, PostCall, Release, Alloc, `Passes/` | the lattice of each | transfer, merge, check | `Worklist`, `AllocStatus` |
| Verifier Param, `Passes/` | none | comparison of constants at all call sites | `ParamCheck` |
| Matching in IR, `Utils/ContractPassUtility.cpp` | none | `checkParamMatch`, `isTrivialAlloc`, `checkCalledApplies` | `AllocStatus`, `Pipeline` |
| Resolution of formulas, `Passes/ContractPostProcess.cpp` | status of each formula, the report | `resolveFormula`, `checkExpressions` | `StaticResolution` |
| Contract manager, `Passes/ContractManager.cpp` | the database | `addContract`, `linearizeContractFormula` | `StaticResolution`, `Pipeline` |
| Instrumentation, `Passes/Instrument.cpp` | emitted database, mentioned functions | which instructions get a callback | `Pipeline`, `ParamCheck` |
| Compiler wrapper, `Scripts/CoVerWrapper.cpp` | files in the working and temporary directories | a chain of tools | `CompilerWrapper`; the order of the passes in `Pipeline` |
| Contract language, intrinsics, registration, generators | | | not modelled, see the end |

How they interact.  The wrapper compiles the sources to bitcode, links it and
runs the passes in one fixed order.  The contract manager parses the annotations
into trees of formulas, one list per scope (`PRE`, `POST`), and flattens each into
its operations.  Each static verifier decides its kind of operation,
and `ContractPostProcess` combines the verdicts and reports what is broken or
unknown, with the code references.  The optimiser runs.  The instrumentation
pass emits the trees as constants and puts callbacks to calls, loads and
stores; a callback is relevant if the report names its location.  At run time
each operation has an analysis; every event is handed to the analyses
registered for it, one after the other; an analysis that reaches a verdict is
taken off that list, and `validateState` climbs from its formula towards the
root, which it reports once it is violated.  At the exit the destructor asks the
remaining analyses and writes the relevant locations that were passed to a
coverage file, from which a later run of the same executable tells which
reported errors were never exercised.

What is hard here.  The order in which verdicts arrive at a formula is the
program's choice, and `validateState` looks at a snapshot of the siblings with
several early returns.  Lists shrink while they are iterated.  Intercepted
functions run instrumented code themselves, so that events nest, and may exit
in between.  Stored calls are matched later, against the memory of that later
time.  The static engine merges information in the order of its worklist and
leaves functions by two different ways.  Code references tie the report, the
instrumentation and the coverage check together, although the code changes in
between.  Invocations of the wrapper share a directory, processes share the
coverage folder, and any tool may fail.  `PROJECT.json` lists each of these
hazards at its line with the properties that watch it.

## Modules

`Resolution` is the verdict engine alone.  `Conclude(l, v)` is a callback of the
analysis at leaf `l` that returned `v`; which verdicts are possible is read off
the analyses (`RunVerdicts`, `ExitVerdicts`).  `validateState` is tail recursive,
so its pending call is one variable, `frame`, and each way a call can end is an
action: `ParentAlreadyDecided`, `NothingToPropagate`, `ReportRoot`, `Propagate`.
`Outcome` is the `switch` over the connective with its fall-through.
`ExitConclude` and `ExitAdvance` are the destructor's loop, `exit_pos` its index.
`reported`, `noted` and `bare` record the output that the properties speak of.

`ContractMonitor` says what the engine promises: the verdicts are observed one
at a time, and a scope is reported when, and only when, the observed verdicts
falsify it under the three-valued reading of `AND`, `OR` and `XOR`, before the
next verdict is observed.  `Monitor` in `Resolution` is the instance of it:
its verdicts are the leaves' entries in `contract_status`, its violated scopes
the reported ones, and it is closed once the destructor has finished.

`Analyses` holds the five analyses as pure operators from configuration, state
and event to the new state and a verdict.  `Runtime` extends `Resolution` and
`Analyses`.  `FunctionCallback` and `MemCallback` begin an event,
`KeepAnalysis` and `SettleAnalysis` are the two ways a round of
`HANDLE_CALLBACK` ends, `Resolve` is a step of `validateState` between them,
`EndOfList` lets the intercepted function run or the access happen, and
`FunctionReturns` begins the second callback of a call.  The program is the
environment: any sequence of the calls and accesses of an instance, nested in
the functions of `Nesting`, with an exit wherever program code runs.  `history`
is a history variable: the events, with the memory and heap they saw.  The
properties of `Runtime` compare the verdicts with this history.

`ParamCheck` is `param!` on integers and pointers.  A value of the program or of
the contract is what it is in the IR: a constant number, a null pointer, the
address of a global variable, a pointer to memory where a number was stored just
before, or something computed.  The static verifier compares these forms at
the call sites, in the order of LLVM's list of users (`checkParamReq`,
`StaticOutcome`); a build of LLVM with assertions may abort.  Then the calls are
made, from any site, in any order and repeatedly (`Call`), and the runtime
analysis compares the pointers that everything was converted to.  The comparison
of numbers is the judge of both.

`AllocStatus` is the information of the static verifier for `alloc!`: the
allocated values with their parents and children, `addCopy`, `freeValue` with
its cascade, `intersect`, and the alias test by climbing two chains of operands.

`Worklist` is `GenericWorklist` with the transfer and merge functions of four
verifiers.  A program is a graph of blocks, each an operation and a terminator,
and one helper function.  `Take` begins a walk from an entry of the list,
`WalkEnds` ends it, `Visit` is one round of the inner loop.  `Reached` computes
the executions of the program directly, with the addresses its variables hold,
and does not use the engine.

`StaticResolution` says which verifier decides which operation in which scope,
and how `resolveFormula` and the report combine the results.  The formulas of
all contracts are numbered, children before their parent, so that whatever
descends a tree is a recursive function on these numbers.  `Holds` is the
two-valued meaning of a formula that the results are compared with.

`Coverage` is the folder of coverage files: processes that run to their exit
and write their file (`printCoverageFile`), and the check that reads what it
finds (`CheckCoverage`).  What the build produced is arbitrary in it.

`Pipeline` composes the two to the whole way of a contract: one action per pass
(`Verify`, `PostProcess`, `Optimise`, `Instrument`), then the steps of
`Coverage`.  The program is a set of sites; `code` is what there is of them, a set
of instances with a location each.  Static verdicts are any that the verifiers
may give.  `Optimise` is the pipeline of the optimisation level: it may drop any
instruction, inline a call away, leave copies of it at other locations, move it
or merge it with another one, and what is moved may lose its location (line 0).
Which of this happens, and what a process passes, is the environment's choice.
A build is an instance of `Coverage` (`PipelineImplementsCoverage`), so what is
proved of `Coverage` holds for it.

`CompilerWrapper` is one action per step of `main` in the wrapper, for several
invocations in one directory: `SanityCheck`, `Compile`, `Rename`,
`CopyToTemporary`, `RemoveSource`, `LinkBitcode`, `Tools`.  Every tool may fail,
the compiler after any of its output files.

`Lists` is erasure from a list during its iteration, shared by `Runtime`,
`Analyses` and the wrapper, as the positions that are kept.

The proofs are in modules of their own, each on top of the one it uses:

| Module | About |
|---|---|
| `ListProofs` | the operators of `Lists`; sets of numbers and sequences |
| `ResolutionProofs` | the verdict engine, and that it implements the monitor |
| `RuntimeProofs` | the running analyser: its callbacks, lists, coverage file; it implements the engine; what `call!` means on the history, before and after |
| `VectorProofs` | what `no! until!` and `alloc!` mean on the history; analyses and connectives together |
| `ParamProofs` | what `param!` means, at run time and at compile time |
| `WorklistProofs` | the static engine: what it covers, and that its alarms are true |
| `PipelineProofs` | verdicts along a formula, what the passes preserve, what the report of the coverage check says of the runs |
| `WrapperProofs` | the compiler wrapper |

### Abstractions

* Messages, their layout and the symbol lookup are left out, but not which
  formulas get one (`Silent`, `Printed`); at run time a reference to the code is reduced to whether it was recorded when it was
  printed, in `Pipeline` it is a line and a column.
* Functions, locations and formulas are names, values and addresses are small
  numbers.  Parameters fit the width they are passed with, so that the masks of
  `TruncateBits` in `checkParamMatch` keep them; the widths that matter for the
  comparison of integers are modelled in `ParamCheck`.
* A list of parameters to match becomes a set: one match suffices, in any order.
* A switch statement of the analysed program is a block with more successors.
* For the three verifiers of calls, which call matches which is given by the
  operation's name (`target` or `mismatch`); for Alloc it is computed.
* An error of a static verifier is any reference its code can give, one at a
  time; the properties speak of single references.
* Whether the callback of a call replaces the call, which depends on the type it
  returns, is not modelled; an instance that is copied to its own location is the
  same instance.
* The content of a bitcode file that the compiler wrote is its source, that of
  the linked one the sequence of the sources in it.

## Runs

| Run | Question | Instance |
|---|---|---|
| `MCResolution` | Does the engine mark, report and note exactly what the verdicts say, once, in every order, and finish? | two scopes, 11 operations of all kinds, every connective over operations, and a conjunction inside a disjunction |
| `MCRequests` | Do `call!` before and after, and `no! until!`, decide what the history says? Does the runtime refine `Resolution`? | the contracts of a nonblocking send, 7 calls, 5 events |
| `MCBuffers` | Allocation, which may fail, local races, coverage, under nesting and exit from anywhere | two blocks, 8 calls, 2 accesses, 4 events, calls two deep |
| `MCEpochs` | Exclusive or, matches through memory, parameters, contracts never used | two windows, 6 calls, 5 events |
| `MCParamCheck` | Does the comparison through pointers mean that of integers, and does the static verdict agree with the runs? | widths 3 and 6 and pointers, constants of every form, names for two values, two requirements, two call sites, two calls |
| `MCWorklist` | Does the engine end, and are its alarms those of the executions? | four blocks in seven shapes of control flow with every content, a helper function, a heap block with a copy and a stack variable |
| `MCPipeline` | Does what a contract needs survive resolution, report, optimisation and instrumentation, and can the coverage check be trusted? | a supplier called twice, seven sites, seven databases with nested `or` and `xor`, three modes, any one site dropped, copied or moved to another location, two processes, two file names |
| `MCCompilerWrapper` | Does parallel, failing and repeated compilation yield the right program and exit status? | three invocations with any of nine command lines |

`MCRequests`, `MCBuffers` and `MCEpochs` also assert `Conditions`, the
hypotheses of the theorems below, of their databases; the databases of
`MCResolution` satisfy all of the engine's, that of `MCResolution_or` lacks
`BinaryDisjunctions`.

Bounds.  `MaxEvents` is the longest sequence of events.  Every violation of a
runtime property needs at most a start, two calls of the supplier from one or
two locations, and a target or forbidden event for each, which is five; the
buffers need allocation, use, free and use, which is four.  `MaxDepth` 2 lets a
call be intercepted inside another.  `MaxRequirements` 2 has one requirement
before and one behind an exemption, `MaxSites` 2 one site before and one behind
an exempt one in the list of users, `MaxCalls` 2 one call before and one after
an exempt one, in either order of the sites.  `MaxTouched` 1 changes one site: the
two properties about locations speak of one instance at a time, and a merge of two
calls of one function is the move of one to the location of the other, which is
among those of `Elsewhere`.  The formula trees have every connective
with fulfilled, violated, inactive and open children at the same time.  The
shapes of `MCWorklist` have a join, both kinds of loop, an endless one, and an early exit; its
helper function can be called from several blocks; four blocks hold an
allocation's copy, its free and its use on different paths.  In `MCPipeline` two
sites share a line, two processes can draw one file name, and the trees put an
undetermined operation before, between and behind decided ones.  In
`MCCompilerWrapper` three invocations are enough for an earlier one that failed,
the one observed and another beside it.

Deadlock is not checked where the system stops: `MCParamCheck` ends at the bound
of its calls, `MCPipeline` with the check, `MCCompilerWrapper` with the last
exit.  All the others check for deadlock and stutter explicitly at the end.
`MCPipeline` and `MCCompilerWrapper` use symmetry over processes and file names;
none of them appears in a property in a way that tells them apart.

Fairness.  `FairSpec` assumes weak fairness for the steps of `validateState` and
of the destructor: they are sequential code that waits for nothing.  It assumes
nothing about the program, which may run forever; `ExitCompletes` starts from
the exit.  `WFairSpec` assumes the same of the engine's loop.  `Coverage`,
`Pipeline` and `CompilerWrapper` state no fairness: a process may be killed and
never write its file, an invocation may stop between any two steps.

### What the passing runs show

* `Sound`, `Complete`, `ReportedExactlyOnce`, `SecondaryNoted`,
  `VerdictsAreFinal`, `ExitCompletes` and the refinement of the monitor hold for
  disjunctions of two alternatives and exclusive ors over operations.
  `OnlyExitMissesReferences`: a report made while the program runs has the
  references of every verdict it is about.
* `PreCallExact`, `PostCallExact`, `ReleaseExact` and `AllocExact` give each
  analysis its meaning in terms of the history, the peculiarities below
  included.  `Spec` as a property of the runtime shows that the callbacks drive
  the engine only in ways that `Resolution` allows.
* `UndecidedStayRegistered` and `CoverageComplete` hold under nesting, erasure
  and exit.
* `ParamMeaning`: the first call whose argument is exempt or forbidden decides,
  and later calls change nothing; equality with a negative constant is left
  out.
* `StaticAlarmConfirmed`: the call the static verifier calls broken is violated
  when it is made, unless an exempt call came first and removed the analysis.
  Left out are alarms on a number stored behind the pointer, on a constant that
  is another one than the pointer required, and on a zero of the other kind (a
  number for a pointer or null for an integer), which the compiler and the run
  judge differently.  `ConstantViolationsAnnounced`: a constant integer that is
  violated at run time was announced, by an alarm or an abort, unless some call
  site passes an exempt constant.
* The worklist always ends and, in programs without helper functions, alarms
  only what an execution breaks; without branches the verdict is exact, with
  the cascade of frees included.
* `StaticVerdict`: a decided formula stays decided whatever its undetermined
  operations turn out to be.  `FaultsAreWatched`: an instance of an instruction
  that an error to blame is about, and that is at one of its locations after the
  optimisation, gets a relevant callback.  `CoverageAttainable`: every reference
  of the report is where such an instruction was, and what the optimiser left or
  put there can be covered.  `Heard`: filtering never silences a call an analysis
  waits for, wherever the optimiser moved it.
* `CoverageSound`: what the check does not list was passed, even if files were
  overwritten: an instruction that was moved away from its location is listed,
  and never taken for covered, unless another relevant one is on the line.
  `CoverageExact`: if every file is there, what it lists was not passed.
* `RightProgram`, `LeavesNothing` and `StatusMeaning` hold for invocations that
  share no stem with another one, over failures of any earlier invocation.

### What the failing runs show

Each is a disagreement between the code and its documentation or comments.

* `MCResolution_or`: the case for `OR` in `validateState` runs on into `XOR`
  (`Hooks.hpp:124`).  With three alternatives, two fulfilled ones are reported
  as a violation.
* `MCWorklist_must`: a path without the required call that reaches a join second
  is dropped (the merge functions, `ContractVerifierRelease.cpp:172`).
* `MCParamCheck_exception`: an exception "overrides other forbidden values"
  (`ParamAnalysis.cpp:34`) only if it is listed before them.
* `MCParamCheck_callsites`: the check is performed "on each callsite"
  (`ContractVerifierParam.cpp:57`) only up to the first that passes an exempt
  constant (line 92), so that a forbidden constant behind it is not announced.

### Observed on the way, without a run of its own

At run time:

* An exempt value (`^=`) removes the parameter analysis for all later calls.
  Equality with a negative constant fails for narrow arguments, since pointers
  are compared too (`ParamAnalysis.cpp:38`).
* A disjunction inside an exclusive or is never counted, since a parent marked
  `FULFILLED` does not climb.  A disjunction combines verdicts over all calls of
  the supplier, not per call (`Hooks.hpp:130`).
* Only the first call of a supplier is checked for a required earlier call
  (`PreCallAnalysis.cpp:34`); a supplier called twice from one location is
  tracked for the last call only (`PostCallAnalysis.cpp:50`).
* A failed allocation makes null an allocated block of the requested size
  (`AllocAnalysis.cpp:34`); `AllocExact` is stated accordingly.  As the allocator
  of the model returns no address that is taken, one failed allocation at a time
  is outstanding.
* Reports at the exit are printed one line before the references of the analysis
  they are about are recorded (`Hooks.hpp:263`), so they never show its location.
* `Docs/Usage.md` names the flag `--cover-check-coverage`, the code reads
  `--cover:check-coverage`.  Without a coverage folder the check ends with an
  exception.

In the static passes:

* When a walk of the worklist stops inside a helper function it continues
  behind the call with the information from the middle of the helper, which can
  raise a false alarm when the helper is called twice, or once behind a join.
* Alloc: a pointer loaded from an allocated block counts as a copy of the block's
  address (`ContractVerifierAlloc.cpp:95`), so that using the next element of a
  list after freeing the first is a false alarm, which `StackLoads` leaves out of
  `NoFalseAlarm`; only the first use on a path is checked; what is loaded from a stack
  slot counts as allocated; a second parent is not linked to its child; freeing
  a copy does not free what it was copied from.
* Param: a name that is defined for 0, the example of `Contracts.h:26`, stands for
  the null pointer and is never compared with an integer; looking behind the
  pointer that is passed is said to be "for Fortran" (line 169) and done for C,
  so that a pointer to a forbidden value is reported; a pointer that is no
  constant is taken for one that differs; a null pointer matches a name for null
  and not the number 0 (lines 67 and 220); of a name's several pointers only the first decides; the orderings of integers
  assert equal widths, which an LLVM with assertions checks (line 137).
* `resolveFormula` reads `contrF->Message->text` of messages that may be absent
  (`ContractPostProcess.cpp:170`).  An undetermined child of an exclusive or
  hides the references of the others.  An empty report has `null` for its
  messages, which `filtered=<file>` rejects (`Instrument.cpp:71`).
* A program without `main` makes the verifiers for preconditions answer broken.
* An intercepted call that returns a structure is made twice, by the callback
  and by itself (`Instrument.cpp:637`).
* The optimiser runs between report and instrumentation: a memory access it moved
  has no callback at all under `filtered`, and a call, whose `NoInline` the
  contract manager removes (`ContractManager.cpp:99`), may be inlined before it
  is intercepted.  This and `funconly`, which leaves out accesses, can make full
  coverage unattainable.  Relevance uses the column, the check only the line.

In the wrapper:

* The wait status of a failed tool goes to `exit`, which keeps its low byte: a
  tool that exits with a code makes the wrapper report success (line 102).
* A dry run renames and creates files.  Temporary files are never removed.
  Invocations of a parallel build with equal stems mix up their bitcode.

## Proofs

Every theorem holds for all values of the constants that satisfy the named
assumptions, which say what the code produces and TLC evaluates on every run:

| Assumption | Says | Because |
|---|---|---|
| `TreeAssumption` | each scope is a conjunction at the root, connectives stay within one scope | `createScopeGlobal`, `createFormulaGlobal` |
| `AnalysesAssumption` | each operation of a known kind has one analysis | `recurseCreateAnalyses` |
| `NestingAssumption` | formulas are nested finitely deep | they are emitted from a parse tree |
| `EventsAssumption` | the shape of calls, the bounds are numbers | |
| `OperationsAssumption` | a release forbids an access or functions; the operations of one scope have one supplier | the constructor of `ReleaseAnalysis`; `recurseCreateAnalyses` hands the function down |
| `SizesAssumption` | an integer is no wider than the pointer it is passed with | `sign_extend` |
| `ProcessesAssumption` | finitely many processes | |
| `FormulaAssumption` | children have smaller numbers than their parent; inner formulas are `OR` or `XOR` | the visitor of the contract language completes children first; `Grammars/ContractParser.g4` has these two |
| `DatabasesAssumption` | contracts have formulas; a release forbids an access or calls, until calls | `visitReleaseOp` |
| `ShapeAssumption` | graphs are finite, and nothing branches to the entry block | LLVM's rule for functions |
| `BodyAssumption` | operations are no terminators; the helper function makes no call; instructions on memory occur for Alloc only | what the other verifiers do not look at |
| `ParamAssumption` | an argument has the size of an integer type, or of a pointer; no variable is at address 0; a name has at least one value | `sign_extend`; the loader; `ContractVariableData` |
| `PowerAssumption` | doubling, for the powers of two up to the size of a pointer | arithmetic, which the provers lack |
| `JobsAssumption` | the shape of command lines; the compiler refuses one name for several results; no result has the name of a bitcode file | |
| `SourceOfAssumption` | an object file that is linked belongs to one source | a build has one rule per object file |

| Theorem | States | Hypotheses of its own |
|---|---|---|
| `TypeCorrect` | `Spec => []TypeOK` | |
| `VerdictsFinal` | `Spec => VerdictsAreFinal` | |
| `ReportsExact` | `Spec => []ReportedExactlyOnce` | |
| `SecondariesNoted` | `Spec => []SecondaryNoted` | |
| `Soundness` | `Spec => []Sound` | `BinaryDisjunctions` |
| `Completeness` | `Spec => []Complete` | `ExclusiveOverLeaves` |
| `MonitorImplemented` | `Spec => ImplementsMonitor` | `MonitorShape` |
| `EngineImplemented` | `RuntimeSpec => Spec` | |
| `RuntimeMonitored` | `RuntimeSpec => ImplementsMonitor` | `MonitorShape` |
| `RuntimeTypeCorrect` | `RuntimeSpec => []RuntimeTypeOK` | |
| `UndecidedRegistered` | `RuntimeSpec => []UndecidedStayRegistered` | |
| `CoverageFileComplete` | `RuntimeSpec => []CoverageComplete` | |
| `PreCallMeaning` | `RuntimeSpec => []PreCallExact` | |
| `PostCallMeaning` | `RuntimeSpec => []PostCallExact` | |
| `ReleaseMeaning` | `RuntimeSpec => []ReleaseExact` | `StartsReleaseNothing` |
| `AllocMeaning` | `RuntimeSpec => []AllocExact` | `AllocatorsKnown` |
| `UncalledSilent` | `RuntimeSpec => []UncalledContractsSilent` | `SuppliersAreNoTargets`, `ExclusiveCalls` |
| `ExclusiveCallsMeaning` | `RuntimeSpec => []ExclusivePreCalls` | `ExclusiveOverLeaves`, `HasAlternatives`, `SuppliersAreNoTargets` |
| `ComparisonMeans` | `ParamSpec => []ParamMeaning` | |
| `StaticAlarmsConfirmed` | `ParamSpec => []StaticAlarmConfirmed` | |
| `ConstantsAnnounced` | `ParamSpec => []ConstantViolationsAnnounced` | |
| `AllReachedAnalysed` | `WSpec => []Covers` | |
| `NoFalseAlarmOfCalls` | `WSpec => [](analysis # "Alloc" => NoFalseAlarm)` | |
| `ExactWithoutBranches` | `WSpec => [](analysis # "Alloc" /\ CallFree /\ CallsMatch => StraightLineExact)` | |
| `VerdictsAreRight` | `PipelineSpec => []StaticVerdict` | |
| `FaultsWatched` | `PipelineSpec => []FaultsAreWatched` | |
| `CoverageInReach` | `PipelineSpec => []CoverageAttainable` | |
| `NoDeafAnalysis` | `PipelineSpec => []Heard` | |
| `ReportSound` | `CoverageSpec => []CoverageSound` | |
| `ReportExact` | `CoverageSpec => []CoverageExact` | |
| `WrapperIsRight` | `WrapperSpec => []RightProgram` | |
| `StatusIsRight` | `WrapperSpec => []StatusMeaning` | |
| `WrapperLeavesNothing` | `WrapperSpec => LeavesNothing` | |

`MonitorShape` is `BinaryDisjunctions`, `ExclusiveOverLeaves`, `HasAlternatives`
and `CallsAmongLeaves` together.  None of the hypotheses is there for the sake
of a proof; each excludes databases for which the code does something else:

* `BinaryDisjunctions`: three alternatives meet the missing `break`
  (`MCResolution_or`).
* `ExclusiveOverLeaves`: a disjunction below an exclusive or is not counted,
  since a parent marked `FULFILLED` does not climb.
* `HasAlternatives`: a connective of nothing is false at once for the monitor,
  but there is no child from which the engine would climb to it.
* `CallsAmongLeaves`: in a precondition, a call that the exit closed counts as a
  failed alternative beside a connective, which may become violated at the exit.
* `SuppliersAreNoTargets`: a `call!` that names its own function as the call it
  demands looks at the targets first and never decides.
* `ExclusiveCalls`: an exclusive or of two `param!` is violated at the exit,
  where both are fulfilled, although the function was never called.
* `StartsReleaseNothing`: a call that starts an operation and releases another
  one is taken for a release only.
* `AllocatorsKnown`: the analysis believes the contract about which functions
  allocate, how much, and which free.  A function that allocates and that no
  contract names leaves the list of blocks behind the program, and one that
  takes back a block and returns another (`realloc`) is treated as the allocator
  or as the deallocator, never as both.
* `CallsMatch`, in the formula of `ExactWithoutBranches`: without parameters to
  compare, every call of the required function matches.

### The arguments

The engine.  None of its invariants is inductive by itself: whether a report is
still due depends on where `validateState` is.  `IInv` adds that the formula in
`frame` is decided, that a conjunction with a violated child is itself violated
unless that child is in `frame`, and counts: a violated root has been reported
once unless it is in `frame`, and below a violated root all violated children
but one, the cause, have been noted, unless they are in `frame`.  `IInvStep`
shows that each action preserves it.  `Soundness` and `Completeness` use that
verdicts are final: a formula that its children break stays broken
(`BrokenStable`), and the only step that can break it is the one that puts the
child into `frame`.

The monitor.  Its `Value` is a recursive function over trees.  That there is
such a function, and that it agrees with what the engine marks, is shown without
induction over data: `NestingAssumption` gives an innermost formula of any set
of counterexamples, and that one contradicts its equation.  `MonitorInv` adds to
`IInv` and completeness when a verdict was given (`Timing`: after the exit no
operation of a precondition becomes violated, before it none is inactive), from
which follows that the engine never breaks a disjunction over an inactive
alternative (`StrictlySound`).  Each step of `Resolution` then is an `Observe`, a
`Report`, a `Close`, or a stutter.

The running analyser.  `RInv` describes the stack (only the running callback is
not an intercepted call), the history (the running event is its last entry), the
lists (no analysis twice, and only those that require the callback) and that an
analysis which is still listed where it can conclude has no verdict.  Hence each
`SettleAnalysis` is a `Conclude` of the engine, and `EngineImplemented` carries
all theorems about `Resolution` over.  `AInv` adds that every list, restricted
to the undecided analyses, equals the order of creation restricted to them:
erasure during iteration loses nobody.

The meaning of the operations.  A property of the form "what the analysis
remembers is what the history says" fails in the middle of an event: the
analyses the loop has passed know the latest event, the others do not.  So
`PreCallInv`, `PostCallInv` and `ReleaseInv` are stated up to `Seen(l)`, the
part of the history that analysis `l` has handled.  A step either lets the
program raise an event (`Seen` stays), or is the turn of `l` (`Seen` grows by
one, with the handler's effect), or is somebody else's.  `Sites` keeps the two
vectors of the release analysis in step through registering, replacing and
releasing.

For `alloc!` the list of blocks lags behind the program: between the return of
an allocator and the turn of the analysis it lacks the new block.  So `AllocInv`
speaks of `Known(l)`, what the handler will have made of the list, and demands
that it `Mirrors` the blocks that are allocated, each once; with two entries for
one address the handler could erase the wrong one.  That no address occurs twice
is what an allocator promises, in the guard of `FunctionReturns`.

Analyses and connectives.  `CauseInv` traces every violated formula of a
precondition down to an operation whose function was called; the ancestors of
an operation are a recursive function again, whose existence comes from a least
solution (`LeastSolves`).  `ExclusiveInv` says when an exclusive or is violated,
and `PreCallMeaning` what its operands are.

Parameters.  An argument is widened with zeros and a number of the contract with
ones, and `sign_extend` brings both back: `ReadBack`, from which `HoldsMeans`
says of each comparison what it decides on the integers.  The emitted database
is a flattening of lists, and a fold is a recursive function over pairs of
sequences; `FlattenFacts` turns it into a monotone owner function from entries
to requirements.  So the first entry that concludes belongs to the first
requirement that does (`VerdictFacts`).  `ParamInv` types the inputs and
`HistoryInv` says that the verdict is the outcome of the first call that has
one, whatever the order.  The static verifier stops at the first deciding pair of
call site and requirement (`StaticOutcomeFacts`); a requirement that exempts
ahead of it would have been decisive itself, so the run of that site violates
it, and only a call of another site can have come before.  Conversely, at a site
with a constant that fails, the failing requirement is decisive or stands behind
one that is; so the loop stops there at the latest, or at an exempt constant.

The static engine.  `CoverInv` says that an analysed instruction's successors are
analysed, or in the list, or next; with the list empty the analysed set is closed
under the steps of an execution.  That executions are a closure computed in
waves is where the induction goes: `ReachedInduction` for what every reached
position has, `ReachedIsClosed` for the bound on the number of waves, as each
adds an instruction.  For the alarms, `SoundInv` says that information which is
still `open` sits on an execution without the required call (`OnPath`, the least
closed set, because walks go around loops), and that a verdict of error has been
earned on one (`Alarm`).  The verifier that compares parameters keeps the calls
that may match and forgets some of them at a join; `ParamsInv` shows that this
never loses a match that all paths share: an information that was merged is
`Settled`, one that was not is `Strict`.  `LineInv` is about the other direction,
which joins of branches would break: information says that the target call is
`Missing` wherever a path without it comes first.  With one instruction pending,
the known ones on such paths are closed but for the pending one
(`PathsAreKnown`), so a walk that has met the target call and comes to an
instruction on a path without it, comes there for the second time, and merging
keeps what is missing (`WorseCatches`).

Verdicts along a formula.  The values of the recursive functions are those of
their equations because the numbers below a formula are smaller; induction over
formulas is a least counterexample (`InductiveFormulas`).  `RightVerdict` is the
statement that goes through: a status, its meaning under any outcome that fits
the operations' results, and an undetermined operation behind `UNKNOWN`.
`BlamedIsReported` compares a formula before and after the repair of one
operation; at an exclusive or two fulfilled children ahead of every undetermined
one stay that, so what is repaired must have been reported.

The passes.  `PipelineInv` follows the results of the operations through the
verifiers: an error names `Culprits` (`ErrorsNameCulprits`), and these are
`Watchable`, accesses or calls of functions that the instrumentation intercepts,
because `Mentioned` descends into a release as the verifiers do
(`SubjectsAreWatchable`).  Once the reports are written (`Late`) they are those of
the results, and once the build is done the callbacks are those of the reports
and of the code the optimiser left.  It may change locations at will, but makes
no instruction into another.  Hence what is at a reported location and is
watchable has a relevant callback (`WatchedIsRelevant`), and a fault that breaks
a contract is one of the report.

The coverage check.  A file may hold what any of several processes passed, and
counting files is all the check's user can do.  `CoverageInv` gives each process
that passed something the file it wrote (an owner function, onto the folder), in
which the last to write it left its sites.  If there are as many files as such
processes, an onto function between finite sets of one size is one to one, so
nothing was overwritten (`NothingOverwritten`).

The wrapper.  Whatever other invocations do to a file, they do to a file with
the stem of one of their own sources.  So `OwnFiles` is preserved by the steps
of the others as long as the stems are disjoint, which `Meeting` gives: two
invocations that are active together have met, and an undisturbed one has met
nobody with a stem of its own.  What an earlier one left under the stem holds
some other source (`Contents`), so the proof also shows that it is replaced
before it is linked.  When two sources have the same stem, the second copy finds
no file, and `Linked` holds because nothing is linked.

### Model-checked only, and why

* Everything with fairness (`ExitCompletes`, `Terminates`), as the prover has
  neither `ENABLED` nor liveness.
* `StraightLineExact` with a call of the helper function, or of Alloc: the first
  needs paths with a call around them, which the engine can leave in the middle
  of the helper with information of there.
* `NoFalseAlarm` of Alloc, for programs that load from the stack: the information is a lattice of copies, changed by a
  recursive cascade.
* `OnlyExitMissesReferences`: what is printed is selected by recursion over the
  formulas.
* The violations found by the failing runs: a counterexample needs no proof.

## Plan

Done, with proofs: the verdict engine with its monitor; the running analyser
with its five analyses; `param!` at run time and at compile time; the static
engine, its coverage and the verdicts of the verifiers of calls; static
resolution, report, instrumentation and coverage as one pipeline; the coverage
check and the compiler wrapper.

Models to come: widths in `checkParamMatch`, deallocators with indirect
parameters, `resolveFunctionDifference` between call frames; then programs with
calls in `NoFalseAlarmOfCalls` and `ExactWithoutBranches`, for the walks that
leave a function the way they entered it.

## Not modelled, and why

* What only Fortran needs: descriptors, metadata, the alias analysis, the
  intrinsics that turn its contract declarations into annotations.  It is
  pattern matching on IR without state that lasts.
* `param!` with another argument as the value, and addresses inside of global
  variables, which `checkParamMatch` compares by their operands.
* The contract language: its result, the trees, are constants and inputs here.
* The pass registration is a table, the generators write text.
* Several threads: the runtime has no synchronisation, so every two concurrent
  callbacks are a data race (listed as a hazard).
* The call through libffi and its cache of call frames; invoke instructions; how
  a callback takes the place of the call.
* A crash of the program: nothing is persistent before the exit handler, so
  there is nothing to recover; in `Pipeline` it is a process that never exits.
