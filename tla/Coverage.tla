-------------------------------- MODULE Coverage --------------------------------
(***************************************************************************)
(* The coverage check (Dynamic/Hooks.hpp, Hooks.cpp): the processes that   *)
(* run the instrumented program, the files they leave behind, and the run  *)
(* that reads those files back.  What the build produced is taken as it    *)
(* is; Pipeline composes this module with the passes that produce it.      *)
(***************************************************************************)
EXTENDS FiniteSets, Functions

CONSTANTS
  Processes,  \* the processes that run the program
  Names       \* what the name of a coverage file may draw

ASSUME ProcessesAssumption == IsFiniteSet(Processes)

VARIABLES
  passes,     \* the passes still to run
  err_msgs,   \* the code references of the reports
  callback,   \* the callback of every instruction, each with its location loc
  exited,     \* the processes that have run to their exit
  visitedLocs,\* the relevant instructions every process has passed
  files,      \* the coverage folder
  report      \* what the check reported, once it has run

cvars == <<passes, err_msgs, callback, exited, visitedLocs, files, report>>

(* Running the program.  What a process has passed stays its own until its *)
(* exit handler runs, so a process that is killed, or still runs when the  *)
(* check starts, is one that never exits here.  Only relevant callbacks    *)
(* leave a trace.                                                          *)
Unchanged_build == UNCHANGED <<passes, err_msgs, callback>>
Unchanged_run   == UNCHANGED <<exited, visitedLocs, files, report>>
Built == passes = <<>>

(* printCoverageFile: nothing for a process that passed nothing; a name    *)
(* that is taken is overwritten.                                           *)
Written(folder, name, locs) == IF locs = {} THEN folder ELSE [n \in DOMAIN folder \cup {name} |-> IF n = name THEN locs ELSE folder[n]]

Relevant == {i \in DOMAIN callback : callback[i] = "relevant"}

printCoverageFile(p) ==
  /\ Built /\ p \notin exited /\ report = <<>>
  /\ exited' = exited \cup {p}
  /\ \E locs \in SUBSET Relevant, name \in Names :
       /\ visitedLocs' = [visitedLocs EXCEPT ![p] = locs]
       /\ files' = Written(files, name, locs)
  /\ Unchanged_build /\ UNCHANGED report

(* The check runs the same executable, reads every file there is and       *)
(* strikes out references by file and line.                                *)
LinesOf(locs) == {i.loc.line : i \in locs}
Unvisited_someFile(refs, folder) ==
  {ref \in refs : \E n \in DOMAIN folder : ref.line \notin LinesOf(folder[n])} \cup (IF folder = <<>> THEN refs ELSE {})
Unvisited_anyLine(refs, folder) == IF folder = <<>> THEN refs ELSE {}
Unvisited(refs, folder) == {ref \in refs : ref.line \notin LinesOf(UNION Range(folder))}

CheckCoverage ==
  /\ Built /\ report = <<>>
  /\ report' = <<Unvisited(err_msgs, files)>>
  /\ Unchanged_build /\ UNCHANGED <<exited, visitedLocs, files>>

(* The passes leave the runs alone, and end before the first of them.      *)
Building == ~Built /\ Unchanged_run

CoverageInit ==
  /\ exited = {}
  /\ visitedLocs = [p \in Processes |-> {}]
  /\ files = <<>> /\ report = <<>>

CoverageNext ==
  \/ Building
  \/ \E p \in Processes : printCoverageFile(p)
  \/ CheckCoverage

CoverageSpec == CoverageInit /\ [][CoverageNext]_cvars

-----------------------------------------------------------------------------
(* What the check leaves out of its report has been passed by a process,   *)
(* however many coverage files were overwritten or never written.          *)
Passed(ref) == \E p \in Processes : ref.line \in LinesOf(visitedLocs[p])
CoverageSound ==
  report # <<>> => \A ref \in err_msgs \ report[1] : Passed(ref)

(* When every process has exited and no two drew the same name, what the   *)
(* check reports has indeed not been passed.                               *)
AllFilesThere ==
  /\ exited = Processes
  /\ Cardinality(DOMAIN files) = Cardinality({p \in Processes : visitedLocs[p] # {}})
CoverageExact ==
  report # <<>> /\ AllFilesThere => \A ref \in report[1] : ~Passed(ref)
=============================================================================
