---------------------------- MODULE CompilerWrapper ----------------------------
(***************************************************************************)
(* The compile wrapper (Scripts/CoVerWrapper.cpp): one invocation runs a   *)
(* chain of tools, and passes bitcode between them through files.  The     *)
(* compiler leaves <stem>.bc in the working directory, which invocations   *)
(* of a parallel build share; from there the files are moved to names of   *)
(* their own.                                                              *)
(*                                                                         *)
(* A job is what the command line of one invocation says.  The content of  *)
(* a bitcode file is its source, that of an executable the sequence of the *)
(* sources in it.  Which tool fails, and how, is the environment's choice. *)
(***************************************************************************)
EXTENDS Integers, Sequences

CONSTANTS
  Invocation,  \* the processes of the wrapper
  Jobs,        \* the command lines
  SourceOf,    \* the source every object file is meant to hold
  NoFile

Bitcode(stem) == <<stem, ".bc">>
Object(stem)  == <<stem, ".o">>

(* Every command line says what kind it is, names sources and objects in   *)
(* order and, if it names a result, not one of the bitcode files that the  *)
(* compiler leaves; the compiler refuses one name for several results.     *)
(* Predefined are the sources of contracts that are added when linking.    *)
ASSUME JobsAssumption ==
  \A j \in Jobs :
    /\ j.kind \in {"LINK", "ONLY_COMPILE", "ONLY_PREPROCESS"} /\ j.dry \in BOOLEAN
    /\ Len(j.sources) \in Nat /\ DOMAIN j.sources = 1..Len(j.sources)
    /\ Len(j.objects) \in Nat /\ DOMAIN j.objects = 1..Len(j.objects)
    /\ j.predefined \in Seq(STRING)
    /\ j.kind = "ONLY_COMPILE" /\ j.dest # NoFile => Len(j.sources) <= 1
    /\ \A g \in Jobs : \A n \in DOMAIN g.sources : j.dest # Bitcode(g.sources[n].stem)
(* An object file that is linked belongs to one source, whoever writes it. *)
ASSUME SourceOfAssumption ==
  /\ \A j \in Jobs : \A n \in DOMAIN j.objects : j.objects[n] \in DOMAIN SourceOf
  /\ \A o \in DOMAIN SourceOf : \A j \in Jobs : \A n \in DOMAIN j.sources :
       /\ o # Bitcode(j.sources[n].stem)
       /\ o = Object(j.sources[n].stem) \/ (j.kind = "ONLY_COMPILE" /\ o = j.dest)
            => j.sources[n].name = SourceOf[o]

VARIABLES
  job,     \* the command line of every invocation
  step,    \* what it does next
  k,       \* the source file its loop has reached
  cwd,     \* the working directory: the content of the files there
  tmp,     \* the temporary files
  built,   \* the executable it has written
  status,  \* its exit status
  met,     \* the invocations that were active together with it
  failed   \* how its last tool ended

vars == <<job, step, k, cwd, tmp, built, status, met, failed>>

Temporary_same(i, n) == <<i, 1>>
Temporary(i, n) == <<i, n>>

Put(folder, name, content) == [f \in DOMAIN folder \cup {name} |-> IF f = name THEN content ELSE folder[f]]
Drop(folder, name) == [f \in DOMAIN folder \ {name} |-> folder[f]]

Count(i) == Len(job[i].sources)
Stem(i, n) == job[i].sources[n].stem
Name(i, n) == job[i].sources[n].name
Stems(i) == {Stem(i, n) : n \in 1..Count(i)}
NeedsCompiler(i) == Count(i) > 0

Init ==
  /\ job \in [Invocation -> Jobs]
  /\ step = [i \in Invocation |-> "sanity"]
  /\ k = [i \in Invocation |-> 1]
  /\ cwd = <<>> /\ tmp = <<>>
  /\ built = [i \in Invocation |-> <<>>]
  /\ status = [i \in Invocation |-> -1]
  /\ met = [i \in Invocation |-> {}]
  /\ failed = [i \in Invocation |-> "none"]

Active(i) == status[i] = -1 /\ step[i] # "sanity"
Goto(i, s) == step' = [step EXCEPT ![i] = s]
Quiet == UNCHANGED <<job, met>>
Running(i, s) == step[i] = s /\ status[i] = -1
Goes(i) == UNCHANGED <<status, failed>>

Exit(i, code, how) ==
  /\ status' = [status EXCEPT ![i] = code]
  /\ failed' = [failed EXCEPT ![i] = how]

(* exec hands the wait status of std::system to exit, which keeps its low  *)
(* byte: of a tool that exits with a code nothing is left there.           *)
WaitStatus == [code |-> 256, signal |-> 2]
ToolFails(i) == \E how \in {"code", "signal"} : Exit(i, WaitStatus[how] % 256, how)

(* A file that is not there: the exception of std::filesystem is not       *)
(* caught.                                                                 *)
Aborts(i) == Exit(i, 134, "exception")

-----------------------------------------------------------------------------
Finish(i, s) == IF s = "done" THEN Exit(i, 0, "none") ELSE Goes(i)

(* sanityCheckCompiler, and the overlap with what is running already.      *)
AfterSanity(i) ==
  IF NeedsCompiler(i) THEN "compile" ELSE IF job[i].kind = "LINK" THEN "link" ELSE "done"

SanityCheck(i) ==
  /\ Running(i, "sanity")
  /\ \/ Exit(i, 255, "exception") /\ UNCHANGED <<step, met>>
     \/ /\ Goto(i, AfterSanity(i)) /\ Finish(i, AfterSanity(i))
        /\ LET others == {j \in Invocation \ {i} : Active(j)}
           IN  met' = [j \in Invocation |-> IF j = i THEN others ELSE IF j \in others THEN met[j] \cup {i} ELSE met[j]]
  /\ UNCHANGED <<job, k, cwd, tmp, built>>

(* The compiler writes its files in the order of the sources, so that of   *)
(* two with the same stem the second stays; it may fail after any of them. *)
Output(i, n) ==
  IF job[i].kind = "ONLY_COMPILE" /\ job[i].dest # NoFile THEN job[i].dest ELSE Bitcode(Stem(i, n))
Outputs(i) == IF job[i].kind = "ONLY_PREPROCESS" THEN 0 ELSE Count(i)

Latest(i, n, f) == CHOOSE m \in 1..n : Output(i, m) = f /\ \A l \in 1..n : Output(i, l) = f => l <= m
WrittenBy(i, n) ==
  LET written == {Output(i, m) : m \in 1..n}
  IN  [f \in DOMAIN cwd \cup written |-> IF f \in written THEN Name(i, Latest(i, n, f)) ELSE cwd[f]]

AfterCompile_plain(i) == IF job[i].kind = "LINK" THEN "copy" ELSE "done"
AfterCompile(i) ==
  CASE job[i].kind = "LINK" -> "copy"
    [] job[i].kind = "ONLY_COMPILE" /\ job[i].dest = NoFile -> "rename"
    [] OTHER -> "done"

Compile(i) ==
  /\ Running(i, "compile")
  /\ \/ /\ cwd' = IF job[i].dry THEN cwd ELSE WrittenBy(i, Outputs(i))
        /\ Goto(i, AfterCompile(i)) /\ Finish(i, AfterCompile(i))
     \/ /\ ~job[i].dry /\ ToolFails(i)
        /\ \E n \in 0..Outputs(i) : cwd' = WrittenBy(i, n)
        /\ UNCHANGED step
  /\ Quiet /\ UNCHANGED <<k, tmp, built>>

Following(i, s, then) == IF k[i] < Count(i) THEN s ELSE then
Advance(i, s, then) ==
  /\ Goto(i, Following(i, s, then))
  /\ k' = [k EXCEPT ![i] = @ + 1]
  /\ Finish(i, Following(i, s, then))

(* The loops over the source files; a dry run renames as well.             *)
Rename(i) ==
  /\ Running(i, "rename")
  /\ LET stem == Stem(i, k[i])
     IN  IF Bitcode(stem) \in DOMAIN cwd
         THEN /\ cwd' = Drop(Put(cwd, Object(stem), cwd[Bitcode(stem)]), Bitcode(stem))
              /\ Advance(i, "rename", "done")
         ELSE Aborts(i) /\ UNCHANGED <<step, k, cwd>>
  /\ Quiet /\ UNCHANGED <<tmp, built>>

CopyToTemporary(i) ==
  /\ Running(i, "copy")
  /\ LET source == Bitcode(Stem(i, k[i]))
     IN  IF job[i].dry THEN Advance(i, "copy", "link") /\ UNCHANGED tmp
         ELSE IF source \in DOMAIN cwd
         THEN tmp' = Put(tmp, Temporary(i, k[i]), cwd[source]) /\ Goto(i, "remove") /\ Goes(i) /\ UNCHANGED k
         ELSE Aborts(i) /\ UNCHANGED <<step, k, tmp>>
  /\ Quiet /\ UNCHANGED <<cwd, built>>

(* std::filesystem::remove does not mind a file that is gone.              *)
RemovedFrom_not(folder, name) == folder
RemovedFrom(folder, name) == Drop(folder, name)

RemoveSource(i) ==
  /\ Running(i, "remove")
  /\ cwd' = RemovedFrom(cwd, Bitcode(Stem(i, k[i])))
  /\ Advance(i, "copy", "link")
  /\ Quiet /\ UNCHANGED <<tmp, built>>

-----------------------------------------------------------------------------
(* The predefined contracts are compiled to temporary files of their own,  *)
(* which no other invocation sees, nor those of a compiler that fails.     *)
(* llvm-link puts the objects of the command line before the moved files   *)
(* and these last; its output and all later files have names of their own. *)
(* It refuses to link nothing, or a file that is not there.                *)
Inputs(i) ==
  [n \in DOMAIN job[i].objects |-> cwd[job[i].objects[n]]] \o [n \in 1..Count(i) |-> tmp[Temporary(i, n)]]
    \o job[i].predefined

LinkBitcode(i) ==
  /\ Running(i, "link")
  /\ \/ job[i].dry /\ Goto(i, "tools") /\ Goes(i) /\ UNCHANGED tmp
     \/ /\ ~job[i].dry /\ Count(i) + Len(job[i].objects) + Len(job[i].predefined) > 0
        /\ \A n \in DOMAIN job[i].objects : job[i].objects[n] \in DOMAIN cwd
        /\ tmp' = Put(tmp, <<i, 0>>, Inputs(i)) /\ Goto(i, "tools") /\ Goes(i)
     \/ ~job[i].dry /\ ToolFails(i) /\ UNCHANGED <<step, tmp>>
  /\ Quiet /\ UNCHANGED <<k, cwd, built>>

(* opt, llc and the final call of the compiler, which writes the result.   *)
Tools(i) ==
  /\ Running(i, "tools")
  /\ \/ /\ built' = IF job[i].dry THEN built ELSE [built EXCEPT ![i] = tmp[<<i, 0>>]]
        /\ Goto(i, "done") /\ Exit(i, 0, "none")
     \/ ~job[i].dry /\ ToolFails(i) /\ UNCHANGED <<step, built>>
  /\ Quiet /\ UNCHANGED <<k, cwd, tmp>>

Next == \E i \in Invocation :
  SanityCheck(i) \/ Compile(i) \/ Rename(i) \/ CopyToTemporary(i) \/ RemoveSource(i) \/ LinkBitcode(i) \/ Tools(i)

WrapperSpec == Init /\ [][Next]_vars

-----------------------------------------------------------------------------
(* No other invocation with a source of the same stem was active.          *)
Undisturbed(i) == \A j \in met[i] : Stems(i) \cap Stems(j) = {}
SourcesOf(i) ==
  [n \in DOMAIN job[i].objects |-> SourceOf[job[i].objects[n]]] \o [n \in 1..Count(i) |-> Name(i, n)]
    \o job[i].predefined

(* Whatever runs in the same directory, the executable of an undisturbed   *)
(* invocation consists of its own sources, objects and contracts, each     *)
(* once, also when two sources have the same stem (lines 262-291).         *)
RightProgram == \A i \in Invocation : built[i] # <<>> /\ Undisturbed(i) => built[i] = SourcesOf(i)

(* When an undisturbed link ends, none of its bitcode is left in the       *)
(* working directory, where a later invocation could take it for its own   *)
(* (line 273), also not what an earlier one that failed had left there.    *)
LeavesNothing ==
  [][\A i \in Invocation : built[i] = <<>> /\ built'[i] # <<>> /\ Undisturbed(i) =>
       \A stem \in Stems(i) : Bitcode(stem) \notin DOMAIN cwd]_vars

(* A status other than 0 means that there is no executable; a status of 0  *)
(* that there is one, or the object files, unless a tool has failed with   *)
(* an exit code, which the wrapper turns into 0 (line 102).                *)
StatusMeaning ==
  \A i \in Invocation : status[i] # -1 =>
    /\ status[i] # 0 => built[i] = <<>>
    /\ status[i] = 0 /\ failed[i] = "none" /\ Undisturbed(i) /\ ~job[i].dry =>
         CASE job[i].kind = "LINK"         -> built[i] # <<>>
           [] job[i].kind = "ONLY_COMPILE" ->
                \A n \in 1..Count(i) :
                  (IF job[i].dest = NoFile THEN Object(Stem(i, n)) ELSE job[i].dest) \in DOMAIN cwd
           [] OTHER -> TRUE
=============================================================================
