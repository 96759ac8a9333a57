----------------------------- MODULE WrapperProofs -----------------------------
(***************************************************************************)
(* Theorems about the compiler wrapper, for any number of invocations in   *)
(* one directory and for all command lines.                                *)
(*                                                                         *)
(* What an invocation finds under a name of its own is its own as long as  *)
(* no other one that is active has a source of the same stem; OwnFiles     *)
(* says so for each step, and the other parts of WInv what it rests on.    *)
(***************************************************************************)
EXTENDS CompilerWrapper, ListProofs

Chain == {"sanity", "compile", "rename", "copy", "remove", "link", "tools", "done"}

Ends  == {"none", "code", "signal", "exception"}

Shape ==
  /\ job \in [Invocation -> Jobs]
  /\ step \in [Invocation -> Chain]
  /\ k \in [Invocation -> Nat \ {0}]
  /\ status \in [Invocation -> Int]
  /\ met \in [Invocation -> SUBSET Invocation]
  /\ failed \in [Invocation -> Ends]
  /\ DOMAIN built = Invocation

(* Where a running invocation can be with its command line.                *)
Place(i) ==
  status[i] = -1 =>
    /\ built[i] = <<>> /\ step[i] # "done"
    /\ step[i] \in {"sanity", "compile"} => k[i] = 1
    /\ step[i] \in {"copy", "remove", "link", "tools"} => job[i].kind = "LINK"
    /\ step[i] = "rename" => job[i].kind = "ONLY_COMPILE" /\ job[i].dest = NoFile
    /\ step[i] \in {"compile", "copy", "remove", "rename"} => k[i] <= Count(i)
    /\ step[i] = "remove" => ~job[i].dry

(* Invocations that are active together have met.                          *)
Meeting == \A i, j \in Invocation : i # j /\ Active(i) /\ Active(j) => j \in met[i]

(* A bitcode file holds a source of its stem, an object file its source.   *)
Contents ==
  /\ \A o \in DOMAIN SourceOf : o \in DOMAIN cwd => cwd[o] = SourceOf[o]
  /\ \A j \in Jobs : \A n \in DOMAIN j.sources :
       LET f == Bitcode(j.sources[n].stem)
       IN  f \in DOMAIN cwd =>
             \E g \in Jobs : \E m \in DOMAIN g.sources :
               g.sources[m].stem = j.sources[n].stem /\ cwd[f] = g.sources[m].name

(* The sources whose bitcode it has copied, and removed.                   *)
Copied(i) ==
  CASE step[i] = "copy"              -> 1..k[i] - 1
    [] step[i] = "remove"            -> 1..k[i]
    [] step[i] \in {"link", "tools"} -> 1..Count(i)
    [] OTHER                         -> {}
Moved(i) == IF step[i] = "remove" THEN 1..k[i] - 1 ELSE Copied(i)
(* Is the content one that the n-th source may have left under its name?   *)
Own(i, n, content) == \E m \in 1..Count(i) : Stem(i, m) = Stem(i, n) /\ content = Name(i, m)

OwnFiles(i) ==
  status[i] = -1 /\ ~job[i].dry /\ Undisturbed(i) /\ step[i] \in {"copy", "remove", "link", "tools"} =>
    /\ \A n \in Copied(i) : Temporary(i, n) \in DOMAIN tmp /\ Own(i, n, tmp[Temporary(i, n)])
    /\ \A n \in Moved(i) : Bitcode(Stem(i, n)) \notin DOMAIN cwd
    /\ \A n \in 1..Count(i) : Bitcode(Stem(i, n)) \in DOMAIN cwd => Own(i, n, cwd[Bitcode(Stem(i, n))])
    /\ \A n, m \in Copied(i) : Stem(i, n) = Stem(i, m) => n = m

(* The linked bitcode, and the executable made from it.                    *)
Linked(i) ==
  /\ status[i] = -1 /\ step[i] = "tools" /\ ~job[i].dry =>
       <<i, 0>> \in DOMAIN tmp /\ tmp[<<i, 0>>] # <<>> /\ (Undisturbed(i) => tmp[<<i, 0>>] = SourcesOf(i))
  /\ built[i] # <<>> => status[i] = 0 /\ (Undisturbed(i) => built[i] = SourcesOf(i))

(* What an invocation leaves behind when nothing has failed.               *)
Result(i, n) == IF job[i].dest = NoFile THEN Object(Stem(i, n)) ELSE job[i].dest
Results(i) ==
  /\ status[i] = -1 /\ step[i] = "rename" => \A n \in 1..k[i] - 1 : Object(Stem(i, n)) \in DOMAIN cwd
  /\ status[i] = 0 /\ failed[i] = "none" /\ ~job[i].dry =>
       /\ job[i].kind = "LINK" => built[i] # <<>>
       /\ job[i].kind = "ONLY_COMPILE" => \A n \in 1..Count(i) : Result(i, n) \in DOMAIN cwd

WInv ==
  /\ Shape /\ Meeting /\ Contents
  /\ \A i \in Invocation : Place(i) /\ OwnFiles(i) /\ Linked(i) /\ Results(i)

-----------------------------------------------------------------------------
StepOf(i) ==
  \/ SanityCheck(i) \/ Compile(i) \/ Rename(i) \/ CopyToTemporary(i)
  \/ RemoveSource(i) \/ LinkBitcode(i) \/ Tools(i)

(* Files of different kinds or stems have different names.                 *)
LEMMA NamesDiffer ==
  \A s, t : /\ Bitcode(s) # Object(t)
            /\ Bitcode(s) = Bitcode(t) => s = t
            /\ Object(s) = Object(t) => s = t
BY DEF Bitcode, Object

(* What the command line of an invocation says.                            *)
LEMMA JobFacts ==
  ASSUME Shape, NEW i \in Invocation
  PROVE  /\ job[i] \in Jobs /\ job[i].dry \in BOOLEAN
         /\ job[i].kind \in {"LINK", "ONLY_COMPILE", "ONLY_PREPROCESS"}
         /\ Count(i) \in Nat /\ DOMAIN job[i].sources = 1..Count(i)
         /\ Len(job[i].objects) \in Nat /\ DOMAIN job[i].objects = 1..Len(job[i].objects)
         /\ job[i].predefined \in Seq(STRING)
         /\ job[i].kind = "ONLY_COMPILE" /\ job[i].dest # NoFile => Count(i) <= 1
         /\ \A j \in Invocation : \A n \in 1..Count(j) : job[i].dest # Bitcode(Stem(j, n))
         /\ k[i] \in Nat \ {0} /\ step[i] \in Chain /\ status[i] \in Int
<1>1. \A j \in Invocation :
        /\ job[j] \in Jobs
        /\ Count(j) \in Nat /\ DOMAIN job[j].sources = 1..Count(j)
  BY JobsAssumption DEF Shape, Count
<1>2. \A j \in Invocation : \A n \in 1..Count(j) : job[i].dest # Bitcode(Stem(j, n))
  BY <1>1, JobsAssumption DEF Stem
<1>3. QED
  BY <1>1, <1>2, JobsAssumption DEF Shape, Count

(* What the compiler writes: under each name one of the sources that would *)
(* leave their bitcode there.                                              *)
LEMMA LatestFacts ==
  ASSUME NEW i, NEW n \in Nat, NEW m \in 1..n
  PROVE  Latest(i, n, Output(i, m)) \in 1..n /\ Output(i, Latest(i, n, Output(i, m))) = Output(i, m)
<1> DEFINE f == Output(i, m)
           T == {n - l : l \in {l \in 1..n : Output(i, l) = f}}
<1>1. T \in SUBSET Nat /\ n - m \in T
  OBVIOUS
<1>2. PICK t \in T : \A u \in T : t <= u
  <2> HIDE DEF T
  <2>1. QED
    BY <1>1, LeastElement
<1>3. PICK l \in 1..n : Output(i, l) = f /\ t = n - l
  BY <1>2
<1>4. \A u \in 1..n : Output(i, u) = f => u <= l
  <2> SUFFICES ASSUME NEW u \in 1..n, Output(i, u) = f
               PROVE  u <= l
    OBVIOUS
  <2>1. n - u \in T
    OBVIOUS
  <2> HIDE DEF T
  <2>2. QED
    BY <1>2, <1>3, <2>1
<1> HIDE DEF f, T
<1>5. Latest(i, n, f) \in 1..n /\ Output(i, Latest(i, n, f)) = f
  BY <1>3, <1>4 DEF Latest
<1>6. QED
  BY <1>5 DEF f

(* What the compiler leaves in the directory.                              *)
LEMMA WrittenFacts ==
  ASSUME NEW i, NEW n \in Nat, cwd' = WrittenBy(i, n)
  PROVE  /\ DOMAIN cwd' = DOMAIN cwd \cup {Output(i, m) : m \in 1..n}
         /\ \A f \in DOMAIN cwd : f \notin {Output(i, m) : m \in 1..n} => cwd'[f] = cwd[f]
         /\ \A f : f \in {Output(i, m) : m \in 1..n} =>
              \E l \in 1..n : Output(i, l) = f /\ cwd'[f] = Name(i, l)
<1> DEFINE W == {Output(i, m) : m \in 1..n}
<1>1. cwd' = [f \in DOMAIN cwd \cup W |-> IF f \in W THEN Name(i, Latest(i, n, f)) ELSE cwd[f]]
  BY DEF WrittenBy
<1>2. \A f \in W : Latest(i, n, f) \in 1..n /\ Output(i, Latest(i, n, f)) = f
  BY LatestFacts
<1> HIDE DEF W
<1>3. DOMAIN cwd' = DOMAIN cwd \cup W
  BY <1>1
<1>4. \A f \in DOMAIN cwd : f \notin W => cwd'[f] = cwd[f]
  BY <1>1
<1>5. \A f \in W : cwd'[f] = Name(i, Latest(i, n, f))
  BY <1>1
<1>6. QED
  BY <1>2, <1>3, <1>4, <1>5 DEF W

(* A folder after a file was written.                                      *)
LEMMA PutFacts ==
  ASSUME NEW folder, NEW name, NEW content
  PROVE  /\ DOMAIN Put(folder, name, content) = DOMAIN folder \cup {name}
         /\ Put(folder, name, content)[name] = content
         /\ \A f \in DOMAIN folder : f # name => Put(folder, name, content)[f] = folder[f]
BY DEF Put

(* A folder after a file was removed.                                      *)
LEMMA DropFacts ==
  ASSUME NEW folder, NEW name
  PROVE  /\ DOMAIN Drop(folder, name) = DOMAIN folder \ {name}
         /\ \A f \in DOMAIN folder \ {name} : Drop(folder, name)[f] = folder[f]
BY DEF Drop

-----------------------------------------------------------------------------

(* Only an active invocation takes a step, or one that becomes active.     *)
LEMMA RunningFacts ==
  ASSUME NEW i \in Invocation, StepOf(i)
  PROVE  status[i] = -1 /\ (Active(i) \/ SanityCheck(i))
BY DEF StepOf, SanityCheck, Compile, Rename, CopyToTemporary, RemoveSource, LinkBitcode, Tools, Running, Active

(* The control state of the other invocations stays, and that of this one  *)
(* keeps its type.                                                         *)
Steers(i) ==
  /\ step' \in [Invocation -> Chain] /\ k' \in [Invocation -> Nat \ {0}]
  /\ \A j \in Invocation \ {i} : step'[j] = step[j] /\ k'[j] = k[j]
Ending(i) ==
  /\ status' \in [Invocation -> Int] /\ failed' \in [Invocation -> Ends]
  /\ \A j \in Invocation \ {i} : status'[j] = status[j] /\ failed'[j] = failed[j]
ControlOf(i) ==
  /\ job' = job /\ Steers(i) /\ Ending(i)
  /\ DOMAIN built' = Invocation
  /\ \A j \in Invocation \ {i} : built'[j] = built[j]

(* An exit ends one invocation and no other.                               *)
LEMMA ExitFacts ==
  ASSUME Shape, NEW i \in Invocation, NEW code \in Int, NEW how \in Ends, Exit(i, code, how)
  PROVE  Ending(i) /\ status'[i] = code /\ failed'[i] = how
BY DEF Exit, Shape, Ending

(* A tool that fails leaves the wrapper with the status 0 or 2.            *)
LEMMA FailFacts ==
  ASSUME Shape, NEW i \in Invocation, ToolFails(i)
  PROVE  Ending(i) /\ status'[i] \in {0, 2} /\ failed'[i] # "none"
<1>1. PICK how \in {"code", "signal"} : Exit(i, WaitStatus[how] % 256, how)
  BY DEF ToolFails
<1>2. WaitStatus[how] % 256 \in {0, 2}
  BY DEF WaitStatus
<1>3. WaitStatus[how] % 256 \in Int /\ how \in Ends
  BY <1>2 DEF Ends
<1>4. Ending(i) /\ status'[i] = WaitStatus[how] % 256 /\ failed'[i] = how
  BY <1>1, <1>3, ExitFacts
<1>5. QED
  BY <1>2, <1>4

(* An exception ends one invocation and no other.                          *)
LEMMA AbortFacts ==
  ASSUME Shape, NEW i \in Invocation, Aborts(i)
  PROVE  Ending(i) /\ status'[i] = 134 /\ failed'[i] = "exception"
<1>1. 134 \in Int /\ "exception" \in Ends
  BY DEF Ends
<1>2. QED
  BY <1>1, ExitFacts DEF Aborts

(* An invocation that goes on does not end.                                *)
LEMMA GoesFacts ==
  ASSUME Shape, NEW i \in Invocation, Goes(i)
  PROVE  Ending(i) /\ status'[i] = status[i] /\ failed'[i] = failed[i]
BY DEF Goes, Shape, Ending

(* The last step of the chain ends with success.                           *)
LEMMA FinishFacts ==
  ASSUME Shape, NEW i \in Invocation, NEW s, Finish(i, s)
  PROVE  /\ Ending(i)
         /\ s = "done" => status'[i] = 0 /\ failed'[i] = "none"
         /\ s # "done" => status'[i] = status[i] /\ failed'[i] = failed[i]
<1>1. 0 \in Int /\ "none" \in Ends
  BY DEF Ends
<1>2. CASE s = "done"
  <2>1. Exit(i, 0, "none")
    BY <1>2 DEF Finish
  <2>2. QED
    BY <1>1, <1>2, <2>1, ExitFacts
<1>3. CASE s # "done"
  <2>1. Goes(i)
    BY <1>3 DEF Finish
  <2>2. QED
    BY <1>3, <2>1, GoesFacts
<1>4. QED
  BY <1>2, <1>3

(* A step to another one keeps the counter.                                *)
LEMMA GotoFacts ==
  ASSUME Shape, NEW i \in Invocation, NEW s \in Chain, Goto(i, s), UNCHANGED k
  PROVE  Steers(i) /\ step'[i] = s /\ k'[i] = k[i]
BY DEF Goto, Shape, Steers

(* A step that ends the invocation moves nothing.                          *)
LEMMA StayFacts ==
  ASSUME Shape, NEW i \in Invocation, UNCHANGED <<step, k>>
  PROVE  Steers(i) /\ step'[i] = step[i] /\ k'[i] = k[i]
BY DEF Shape, Steers

(* A step of a loop counts, and goes on behind the last file.              *)
LEMMA AdvanceFacts ==
  ASSUME Shape, NEW i \in Invocation, NEW s \in Chain, NEW then \in Chain, Advance(i, s, then)
  PROVE  /\ Steers(i) /\ Ending(i)
         /\ step'[i] = Following(i, s, then) /\ k'[i] = k[i] + 1
         /\ step'[i] = "done" => status'[i] = 0 /\ failed'[i] = "none"
         /\ step'[i] # "done" => status'[i] = status[i] /\ failed'[i] = failed[i]
<1>1. Following(i, s, then) \in Chain
  BY DEF Following
<1>2. /\ step' = [step EXCEPT ![i] = Following(i, s, then)]
      /\ k' = [k EXCEPT ![i] = k[i] + 1]
      /\ Finish(i, Following(i, s, then))
  BY DEF Advance, Goto
<1>3. Steers(i) /\ step'[i] = Following(i, s, then) /\ k'[i] = k[i] + 1
  BY <1>1, <1>2 DEF Shape, Steers
<1>4. QED
  BY <1>2, <1>3, FinishFacts

(* The steps by name.                                                      *)
LEMMA ChainFacts == \A s \in {"sanity", "compile", "rename", "copy", "remove", "link", "tools", "done"} : s \in Chain
BY DEF Chain

(* What every step does to the control of its invocation and of the        *)
(* others.                                                                 *)
LEMMA Control ==
  ASSUME Shape, NEW i \in Invocation, StepOf(i)
  PROVE  ControlOf(i)
<1>1. Steers(i)
  <2>1. CASE SanityCheck(i)
    <3>1. AfterSanity(i) \in Chain /\ UNCHANGED k
      BY <2>1, ChainFacts DEF AfterSanity, SanityCheck
    <3>2. UNCHANGED step \/ Goto(i, AfterSanity(i))
      BY <2>1 DEF SanityCheck
    <3>3. QED
      BY <3>1, <3>2, GotoFacts, StayFacts
  <2>2. CASE Compile(i)
    <3>1. AfterCompile(i) \in Chain /\ UNCHANGED k
      BY <2>2, ChainFacts DEF AfterCompile, Compile
    <3>2. UNCHANGED step \/ Goto(i, AfterCompile(i))
      BY <2>2 DEF Compile
    <3>3. QED
      BY <3>1, <3>2, GotoFacts, StayFacts
  <2>3. CASE Rename(i)
    <3>1. UNCHANGED <<step, k>> \/ Advance(i, "rename", "done")
      BY <2>3 DEF Rename
    <3>2. QED
      BY <3>1, ChainFacts, AdvanceFacts, StayFacts
  <2>4. CASE CopyToTemporary(i)
    <3>1. UNCHANGED <<step, k>> \/ Advance(i, "copy", "link") \/ (Goto(i, "remove") /\ UNCHANGED k)
      BY <2>4 DEF CopyToTemporary
    <3>2. QED
      BY <3>1, ChainFacts, AdvanceFacts, StayFacts, GotoFacts
  <2>5. CASE RemoveSource(i)
    <3>1. Advance(i, "copy", "link")
      BY <2>5 DEF RemoveSource
    <3>2. QED
      BY <3>1, ChainFacts, AdvanceFacts
  <2>6. CASE LinkBitcode(i)
    <3>1. UNCHANGED k /\ (UNCHANGED step \/ Goto(i, "tools"))
      BY <2>6 DEF LinkBitcode
    <3>2. QED
      BY <3>1, ChainFacts, GotoFacts, StayFacts
  <2>7. CASE Tools(i)
    <3>1. UNCHANGED k /\ (UNCHANGED step \/ Goto(i, "done"))
      BY <2>7 DEF Tools
    <3>2. QED
      BY <3>1, ChainFacts, GotoFacts, StayFacts
  <2>8. QED
    BY <2>1, <2>2, <2>3, <2>4, <2>5, <2>6, <2>7 DEF StepOf
<1>2. Ending(i)
  <2>0. 255 \in Int /\ "exception" \in Ends /\ 0 \in Int /\ "none" \in Ends
    BY DEF Ends
  <2>1. CASE SanityCheck(i)
    <3>1. Exit(i, 255, "exception") \/ Finish(i, AfterSanity(i))
      BY <2>1 DEF SanityCheck
    <3>2. QED
      BY <2>0, <3>1, ExitFacts, FinishFacts
  <2>2. CASE Compile(i)
    <3>1. ToolFails(i) \/ Finish(i, AfterCompile(i))
      BY <2>2 DEF Compile
    <3>2. QED
      BY <3>1, FailFacts, FinishFacts
  <2>3. CASE Rename(i)
    <3>1. Aborts(i) \/ Advance(i, "rename", "done")
      BY <2>3 DEF Rename
    <3>2. QED
      BY <3>1, ChainFacts, AdvanceFacts, AbortFacts
  <2>4. CASE CopyToTemporary(i)
    <3>1. Aborts(i) \/ Advance(i, "copy", "link") \/ Goes(i)
      BY <2>4 DEF CopyToTemporary
    <3>2. QED
      BY <3>1, ChainFacts, AdvanceFacts, AbortFacts, GoesFacts
  <2>5. CASE RemoveSource(i)
    <3>1. Advance(i, "copy", "link")
      BY <2>5 DEF RemoveSource
    <3>2. QED
      BY <3>1, ChainFacts, AdvanceFacts
  <2>6. CASE LinkBitcode(i)
    <3>1. ToolFails(i) \/ Goes(i)
      BY <2>6 DEF LinkBitcode
    <3>2. QED
      BY <3>1, FailFacts, GoesFacts
  <2>7. CASE Tools(i)
    <3>1. ToolFails(i) \/ Exit(i, 0, "none")
      BY <2>7 DEF Tools
    <3>2. QED
      BY <2>0, <3>1, FailFacts, ExitFacts
  <2>8. QED
    BY <2>1, <2>2, <2>3, <2>4, <2>5, <2>6, <2>7 DEF StepOf
<1>3. job' = job /\ (built' = built \/ built' = [built EXCEPT ![i] = tmp[<<i, 0>>]])
  BY DEF StepOf, SanityCheck, Compile, Rename, CopyToTemporary, RemoveSource, LinkBitcode, Tools, Quiet
<1>4. DOMAIN built' = Invocation /\ \A j \in Invocation \ {i} : built'[j] = built[j]
  BY <1>3 DEF Shape
<1>5. QED
  BY <1>1, <1>2, <1>3, <1>4 DEF ControlOf

(* Invocations meet in their first step only.                              *)
LEMMA Kinds ==
  ASSUME NEW i, StepOf(i)
  PROVE  SanityCheck(i) \/ (met' = met /\ step[i] # "sanity")
BY DEF StepOf, Compile, Rename, CopyToTemporary, RemoveSource, LinkBitcode, Tools, Quiet, Running

(* Every step keeps the shape; invocations never forget whom they met.     *)
LEMMA ShapeStep ==
  ASSUME Shape, NEW i \in Invocation, StepOf(i)
  PROVE  Shape' /\ \A j \in Invocation : j # i \/ step[i] # "sanity" => met[j] \subseteq met'[j]
<1>1. /\ met' \in [Invocation -> SUBSET Invocation]
      /\ \A j \in Invocation : j # i \/ step[i] # "sanity" => met[j] \subseteq met'[j]
  <2>1. CASE met' = met
    BY <2>1 DEF Shape
  <2>2. CASE SanityCheck(i) /\ met' # met
    <3> DEFINE others == {j \in Invocation \ {i} : Active(j)}
    <3>1. met' = [j \in Invocation |-> IF j = i THEN others ELSE IF j \in others THEN met[j] \cup {i} ELSE met[j]]
      BY <2>2 DEF SanityCheck
    <3>2. step[i] = "sanity" /\ met \in [Invocation -> SUBSET Invocation] /\ others \subseteq Invocation
      BY <2>2 DEF SanityCheck, Running, Shape
    <3> HIDE DEF others
    <3>3. QED
      BY <3>1, <3>2
  <2>3. QED
    BY <2>1, <2>2, Kinds
<1>2. QED
  BY <1>1, Control DEF Shape, ControlOf, Steers, Ending

(* An invocation that becomes active meets all that are.                   *)
LEMMA MeetingStep ==
  ASSUME Shape, Meeting, NEW i \in Invocation, StepOf(i)
  PROVE  Meeting'
<1>0. ControlOf(i) /\ Shape' /\ \A j \in Invocation : j # i \/ step[i] # "sanity" => met[j] \subseteq met'[j]
  BY Control, ShapeStep
<1>1. SUFFICES ASSUME NEW j \in Invocation, NEW l \in Invocation, j # l, Active(j)', Active(l)'
               PROVE  l \in met'[j]
  BY DEF Meeting
<1>2. ASSUME NEW h \in Invocation, h # i, Active(h)'
      PROVE  Active(h)
  BY <1>0, <1>2 DEF ControlOf, Steers, Ending, Active
<1>3. CASE Active(i)
  <2>1. Active(j) /\ Active(l) /\ step[i] # "sanity"
    BY <1>1, <1>2, <1>3 DEF Active
  <2>2. QED
    BY <1>0, <1>1, <2>1 DEF Meeting
<1>4. CASE ~Active(i) /\ i # j /\ i # l
  BY <1>0, <1>1, <1>2, <1>4 DEF Meeting
<1>5. CASE ~Active(i) /\ (i = j \/ i = l)
  <2>1. SanityCheck(i) /\ step[i] = "sanity"
    BY <1>5, RunningFacts DEF SanityCheck, Running
  <2>2. step'[i] # step[i]
    BY <1>1, <1>5, <2>1 DEF Active
  <2> DEFINE others == {h \in Invocation \ {i} : Active(h)}
  <2>3. met' = [h \in Invocation |-> IF h = i THEN others ELSE IF h \in others THEN met[h] \cup {i} ELSE met[h]]
    BY <2>1, <2>2 DEF SanityCheck
  <2>4. (j # i => j \in others) /\ (l # i => l \in others)
    BY <1>1, <1>2
  <2> HIDE DEF others
  <2>5. QED
    BY <1>1, <1>5, <2>3, <2>4
<1>6. QED
  BY <1>3, <1>4, <1>5

-----------------------------------------------------------------------------
(* The bitcode and objects of its sources, and what its command line       *)
(* names, are the files an invocation writes; of those in the working      *)
(* directory it takes away only bitcode.                                   *)
Names(i) ==
  {Bitcode(Stem(i, n)) : n \in 1..Count(i)} \cup {Object(Stem(i, n)) : n \in 1..Count(i)} \cup {job[i].dest}
Spared(i) ==
  /\ \A f : f \notin Names(i) => (f \in DOMAIN cwd' <=> f \in DOMAIN cwd)
  /\ \A f \in DOMAIN cwd : f \notin Names(i) => cwd'[f] = cwd[f]
  /\ \A f \in DOMAIN cwd : f \in DOMAIN cwd' \/ \E n \in 1..Count(i) : f = Bitcode(Stem(i, n))
(* The temporary files of the others stay.                                 *)
Private(i) ==
  \A j \in Invocation \ {i} : \A n : <<j, n>> \in DOMAIN tmp => <<j, n>> \in DOMAIN tmp' /\ tmp'[<<j, n>>] = tmp[<<j, n>>]

(* The files a compiler that got to its n-th source has written.           *)
LEMMA OutputFacts ==
  ASSUME Shape, NEW i \in Invocation, NEW n \in 0..Outputs(i)
  PROVE  /\ n \in Nat /\ n <= Count(i) /\ 1..n \subseteq 1..Count(i)
         /\ \A m \in 1..n :
              \/ job[i].kind = "ONLY_COMPILE" /\ job[i].dest # NoFile /\ Output(i, m) = job[i].dest
              \/ ~(job[i].kind = "ONLY_COMPILE" /\ job[i].dest # NoFile) /\ Output(i, m) = Bitcode(Stem(i, m))
<1>1. Count(i) \in Nat
  BY JobFacts
<1>2. n \in Nat /\ n <= Count(i)
  BY <1>1 DEF Outputs
<1>3. QED
  BY <1>1, <1>2 DEF Output

(* What the compiler leaves.                                               *)
LEMMA CompileFacts ==
  ASSUME Shape, NEW i \in Invocation, Compile(i)
  PROVE  \/ cwd' = cwd
         \/ ~job[i].dry /\ \E n \in 0..Outputs(i) : cwd' = WrittenBy(i, n) /\ (failed'[i] = "none" => n = Outputs(i))
<1>1. Outputs(i) \in Nat
  BY JobFacts DEF Outputs
<1>2. CASE ~job[i].dry /\ ToolFails(i) /\ \E n \in 0..Outputs(i) : cwd' = WrittenBy(i, n)
  <2>1. failed'[i] # "none"
    BY <1>2, FailFacts
  <2>2. QED
    BY <1>2, <2>1
<1>3. CASE cwd' = IF job[i].dry THEN cwd ELSE WrittenBy(i, Outputs(i))
  <2>1. cwd' = IF job[i].dry THEN cwd ELSE WrittenBy(i, Outputs(i))
    BY <1>3
  <2>2. Outputs(i) \in 0..Outputs(i)
    BY <1>1
  <2>3. QED
    BY <2>1, <2>2
<1>4. QED
  BY <1>2, <1>3 DEF Compile

(* A step leaves alone what is not named after a source of its invocation. *)
LEMMA SparedStep ==
  ASSUME Shape, NEW i \in Invocation, Place(i), StepOf(i)
  PROVE  Spared(i) /\ Private(i)
<1>1. CASE SanityCheck(i) \/ LinkBitcode(i) \/ Tools(i) \/ CopyToTemporary(i)
  <2>1. cwd' = cwd
    BY <1>1 DEF SanityCheck, LinkBitcode, Tools, CopyToTemporary
  <2>2. tmp' = tmp \/ (\E n, content : tmp' = Put(tmp, <<i, n>>, content))
    <3>1. SanityCheck(i) \/ Tools(i) => tmp' = tmp
      BY DEF SanityCheck, Tools
    <3>2. LinkBitcode(i) => tmp' = tmp \/ tmp' = Put(tmp, <<i, 0>>, Inputs(i))
      BY DEF LinkBitcode
    <3>3. CopyToTemporary(i) => tmp' = tmp \/ tmp' = Put(tmp, <<i, k[i]>>, cwd[Bitcode(Stem(i, k[i]))])
      BY DEF CopyToTemporary, Temporary
    <3>4. QED
      BY <1>1, <3>1, <3>2, <3>3
  <2>3. ASSUME NEW n, NEW content, tmp' = Put(tmp, <<i, n>>, content)
        PROVE  Private(i)
    <3>1. /\ DOMAIN tmp' = DOMAIN tmp \cup {<<i, n>>}
          /\ \A f \in DOMAIN tmp : f # <<i, n>> => tmp'[f] = tmp[f]
      BY <2>3 DEF Put
    <3>2. QED
      BY <3>1 DEF Private
  <2>4. Private(i)
    BY <2>2, <2>3 DEF Private
  <2>5. QED
    BY <2>1, <2>4 DEF Spared
<1>2. CASE Compile(i) /\ cwd' # cwd
  <2>1. PICK n \in 0..Outputs(i) : cwd' = WrittenBy(i, n)
    BY <1>2, CompileFacts
  <2> DEFINE W == {Output(i, m) : m \in 1..n}
  <2>2. DOMAIN cwd' = DOMAIN cwd \cup W /\ \A f \in DOMAIN cwd : f \notin W => cwd'[f] = cwd[f]
    BY <2>1, OutputFacts, WrittenFacts
  <2>3. W \subseteq Names(i)
    BY OutputFacts DEF Names
  <2> HIDE DEF W
  <2>4. Spared(i)
    BY <2>2, <2>3 DEF Spared
  <2>5. tmp' = tmp
    BY <1>2 DEF Compile
  <2>6. QED
    BY <2>4, <2>5 DEF Private
<1>3. CASE Rename(i) /\ cwd' # cwd
  <2> DEFINE b == Bitcode(Stem(i, k[i]))
             o == Object(Stem(i, k[i]))
  <2>1. cwd' = Drop(Put(cwd, o, cwd[b]), b) /\ tmp' = tmp
    BY <1>3 DEF Rename
  <2>2. k[i] \in 1..Count(i)
    BY <1>3, JobFacts DEF Rename, Running, Place
  <2>3. b \in Names(i) /\ o \in Names(i) /\ \E n \in 1..Count(i) : b = Bitcode(Stem(i, n))
    BY <2>2 DEF Names
  <2> DEFINE p == Put(cwd, o, cwd[b])
  <2> HIDE DEF b, o
  <2>a. DOMAIN p = DOMAIN cwd \cup {o} /\ \A f \in DOMAIN cwd : f # o => p[f] = cwd[f]
    BY DEF Put
  <2> HIDE DEF p
  <2>b. DOMAIN Drop(p, b) = DOMAIN p \ {b} /\ \A f \in DOMAIN p \ {b} : Drop(p, b)[f] = p[f]
    BY DropFacts
  <2>c. cwd' = Drop(p, b)
    BY <2>1 DEF p
  <2>4. /\ DOMAIN cwd' = (DOMAIN cwd \cup {o}) \ {b}
        /\ \A f \in DOMAIN cwd : f # o /\ f # b => cwd'[f] = cwd[f]
    BY <2>a, <2>b, <2>c
  <2>5. Spared(i)
    BY <2>3, <2>4 DEF Spared
  <2>6. QED
    BY <2>1, <2>5 DEF Private
<1>4. CASE RemoveSource(i)
  <2> DEFINE b == Bitcode(Stem(i, k[i]))
  <2>1. cwd' = Drop(cwd, b) /\ tmp' = tmp
    BY <1>4 DEF RemoveSource, RemovedFrom
  <2>2. k[i] \in 1..Count(i)
    BY <1>4, JobFacts DEF RemoveSource, Running, Place
  <2>3. b \in Names(i) /\ \E n \in 1..Count(i) : b = Bitcode(Stem(i, n))
    BY <2>2 DEF Names
  <2> HIDE DEF b
  <2>a. DOMAIN Drop(cwd, b) = DOMAIN cwd \ {b} /\ \A f \in DOMAIN cwd \ {b} : Drop(cwd, b)[f] = cwd[f]
    BY DropFacts
  <2>4. Spared(i)
    BY <2>1, <2>3, <2>a DEF Spared
  <2>5. QED
    BY <2>1, <2>4 DEF Private
<1>5. CASE (Compile(i) \/ Rename(i)) /\ cwd' = cwd
  <2>1. tmp' = tmp
    BY <1>5 DEF Compile, Rename
  <2>2. QED
    BY <1>5, <2>1 DEF Spared, Private
<1>6. QED
  BY <1>1, <1>2, <1>3, <1>4, <1>5 DEF StepOf

(* An undisturbed invocation finds its bitcode as it was, whatever another *)
(* one does.                                                               *)
LEMMA Distance ==
  ASSUME Shape, Meeting, NEW i \in Invocation, Place(i), StepOf(i), NEW j \in Invocation, j # i, Active(j), Undisturbed(j),
         NEW n \in 1..Count(j)
  PROVE  LET f == Bitcode(Stem(j, n))
         IN  (f \in DOMAIN cwd' <=> f \in DOMAIN cwd) /\ (f \in DOMAIN cwd => cwd'[f] = cwd[f])
<1>1. CASE SanityCheck(i)
  BY <1>1 DEF SanityCheck
<1>2. CASE Active(i)
  <2>1. Stems(j) \cap Stems(i) = {}
    BY <1>2 DEF Meeting, Undisturbed
  <2>2. \A m \in 1..Count(i) : Stem(j, n) # Stem(i, m)
    BY <2>1 DEF Stems
  <2>3. job[i].dest # Bitcode(Stem(j, n))
    BY JobFacts
  <2>4. Bitcode(Stem(j, n)) \notin Names(i)
    BY <2>2, <2>3, NamesDiffer DEF Names
  <2>5. QED
    BY <2>4, SparedStep DEF Spared
<1>3. QED
  BY <1>1, <1>2, RunningFacts

-----------------------------------------------------------------------------
(* The outcomes of each step for the invocation that takes it.             *)
LEMMA SanityOwn ==
  ASSUME Shape, NEW i \in Invocation, SanityCheck(i)
  PROVE  /\ step[i] = "sanity" /\ k'[i] = k[i] /\ UNCHANGED <<cwd, tmp, built>>
         /\ \/ status'[i] = 255
            \/ status'[i] = -1 /\ step'[i] = "compile" /\ Count(i) > 0
            \/ status'[i] = -1 /\ step'[i] = "link" /\ Count(i) = 0 /\ job[i].kind = "LINK"
            \/ status'[i] = 0 /\ Count(i) = 0 /\ job[i].kind # "LINK"
<1>1. /\ step[i] = "sanity" /\ status[i] = -1 /\ UNCHANGED <<k, cwd, tmp, built>>
      /\ Exit(i, 255, "exception") \/ (Goto(i, AfterSanity(i)) /\ Finish(i, AfterSanity(i)))
  BY DEF SanityCheck, Running
<1>2. CASE Exit(i, 255, "exception")
  <2>1. 255 \in Int /\ "exception" \in Ends
    BY DEF Ends
  <2>2. QED
    BY <1>1, <1>2, <2>1, ExitFacts
<1>3. CASE Goto(i, AfterSanity(i)) /\ Finish(i, AfterSanity(i))
  <2>1. step'[i] = AfterSanity(i) /\ AfterSanity(i) \in Chain
    BY <1>3, ChainFacts DEF Goto, Shape, AfterSanity
  <2>2. (step'[i] = "done" => status'[i] = 0) /\ (step'[i] # "done" => status'[i] = -1)
    BY <1>1, <1>3, <2>1, FinishFacts
  <2>3. Count(i) \in Nat
    BY JobFacts
  <2>4. QED
    BY <1>1, <2>1, <2>2, <2>3 DEF AfterSanity, NeedsCompiler
<1>4. QED
  BY <1>1, <1>2, <1>3

(* What the compiler does to the files of its own invocation.              *)
LEMMA CompileOwn ==
  ASSUME Shape, NEW i \in Invocation, Compile(i)
  PROVE  /\ step[i] = "compile" /\ k'[i] = k[i] /\ UNCHANGED <<tmp, built>>
         /\ \/ status'[i] \in {0, 2} /\ failed'[i] # "none"
            \/ /\ cwd' = IF job[i].dry THEN cwd ELSE WrittenBy(i, Outputs(i))
               /\ step'[i] = AfterCompile(i)
               /\ status'[i] = IF AfterCompile(i) = "done" THEN 0 ELSE -1
<1>1. step[i] = "compile" /\ status[i] = -1 /\ UNCHANGED <<k, tmp, built>>
  BY DEF Compile, Running
<1>2. CASE ToolFails(i)
  BY <1>1, <1>2, FailFacts
<1>3. CASE /\ cwd' = IF job[i].dry THEN cwd ELSE WrittenBy(i, Outputs(i))
           /\ Goto(i, AfterCompile(i)) /\ Finish(i, AfterCompile(i))
  <2>1. step'[i] = AfterCompile(i)
    BY <1>3 DEF Goto, Shape
  <2>2. status'[i] = IF AfterCompile(i) = "done" THEN 0 ELSE -1
    BY <1>1, <1>3, FinishFacts
  <2>3. QED
    BY <1>1, <1>3, <2>1, <2>2
<1>4. QED
  BY <1>2, <1>3 DEF Compile

(* What a renaming does to them.                                           *)
LEMMA RenameOwn ==
  ASSUME Shape, NEW i \in Invocation, Rename(i)
  PROVE  LET b == Bitcode(Stem(i, k[i]))
             o == Object(Stem(i, k[i]))
         IN  /\ step[i] = "rename" /\ UNCHANGED <<tmp, built>>
             /\ \/ status'[i] = 134 /\ cwd' = cwd
                \/ /\ b \in DOMAIN cwd /\ cwd' = Drop(Put(cwd, o, cwd[b]), b) /\ k'[i] = k[i] + 1
                   /\ step'[i] = (IF k[i] < Count(i) THEN "rename" ELSE "done")
                   /\ status'[i] = IF k[i] < Count(i) THEN -1 ELSE 0
<1>1. step[i] = "rename" /\ status[i] = -1 /\ UNCHANGED <<tmp, built>>
  BY DEF Rename, Running
<1>2. CASE Aborts(i) /\ UNCHANGED <<step, k, cwd>>
  BY <1>1, <1>2, AbortFacts
<1>3. CASE Advance(i, "rename", "done")
  <2>1. step'[i] = Following(i, "rename", "done") /\ k'[i] = k[i] + 1
        /\ status'[i] = IF k[i] < Count(i) THEN -1 ELSE 0
    BY <1>1, <1>3, ChainFacts, AdvanceFacts DEF Following
  <2>2. step'[i] = IF k[i] < Count(i) THEN "rename" ELSE "done"
    BY <2>1 DEF Following
  <2>3. ~Aborts(i)
    BY <2>1, AbortFacts
  <2>4. QED
    BY <1>1, <2>1, <2>2, <2>3 DEF Rename
<1>4. QED
  BY <1>2, <1>3 DEF Rename

(* What a copy does to them.                                               *)
LEMMA CopyOwn ==
  ASSUME Shape, NEW i \in Invocation, CopyToTemporary(i)
  PROVE  LET b == Bitcode(Stem(i, k[i]))
         IN  /\ step[i] = "copy" /\ UNCHANGED <<cwd, built>>
             /\ \/ status'[i] = 134
                \/ /\ job[i].dry /\ k'[i] = k[i] + 1 /\ status'[i] = -1
                   /\ step'[i] = IF k[i] < Count(i) THEN "copy" ELSE "link"
                \/ /\ ~job[i].dry /\ b \in DOMAIN cwd /\ tmp' = Put(tmp, Temporary(i, k[i]), cwd[b])
                   /\ step'[i] = "remove" /\ k'[i] = k[i] /\ status'[i] = -1
<1>1. step[i] = "copy" /\ status[i] = -1 /\ UNCHANGED <<cwd, built>>
  BY DEF CopyToTemporary, Running
<1>2. CASE Aborts(i)
  BY <1>1, <1>2, AbortFacts
<1>3. CASE job[i].dry /\ Advance(i, "copy", "link")
  <2>1. step'[i] = Following(i, "copy", "link") /\ k'[i] = k[i] + 1 /\ status'[i] = -1
    BY <1>1, <1>3, ChainFacts, AdvanceFacts DEF Following
  <2>2. QED
    BY <1>1, <1>3, <2>1 DEF Following
<1>4. CASE /\ ~job[i].dry /\ Bitcode(Stem(i, k[i])) \in DOMAIN cwd /\ Goto(i, "remove") /\ Goes(i) /\ UNCHANGED k
           /\ tmp' = Put(tmp, Temporary(i, k[i]), cwd[Bitcode(Stem(i, k[i]))])
  BY <1>1, <1>4 DEF Goto, Goes, Shape
<1>5. QED
  BY <1>2, <1>3, <1>4 DEF CopyToTemporary

(* What a removal does to them.                                            *)
LEMMA RemoveOwn ==
  ASSUME Shape, NEW i \in Invocation, RemoveSource(i)
  PROVE  /\ step[i] = "remove" /\ UNCHANGED <<tmp, built>>
         /\ cwd' = Drop(cwd, Bitcode(Stem(i, k[i])))
         /\ k'[i] = k[i] + 1 /\ status'[i] = -1
         /\ step'[i] = IF k[i] < Count(i) THEN "copy" ELSE "link"
<1>1. /\ step[i] = "remove" /\ status[i] = -1 /\ UNCHANGED <<tmp, built>>
      /\ cwd' = Drop(cwd, Bitcode(Stem(i, k[i]))) /\ Advance(i, "copy", "link")
  BY DEF RemoveSource, Running, RemovedFrom
<1>2. step'[i] = Following(i, "copy", "link") /\ k'[i] = k[i] + 1 /\ status'[i] = -1
  BY <1>1, ChainFacts, AdvanceFacts DEF Following
<1>3. QED
  BY <1>1, <1>2 DEF Following

(* What the linker does to them.                                           *)
LEMMA LinkOwn ==
  ASSUME Shape, NEW i \in Invocation, LinkBitcode(i)
  PROVE  /\ step[i] = "link" /\ UNCHANGED <<cwd, built>> /\ k'[i] = k[i]
         /\ \/ status'[i] \in {0, 2} /\ failed'[i] # "none"
            \/ job[i].dry /\ step'[i] = "tools" /\ status'[i] = -1
            \/ /\ ~job[i].dry /\ step'[i] = "tools" /\ status'[i] = -1
               /\ Count(i) + Len(job[i].objects) + Len(job[i].predefined) > 0
               /\ \A n \in DOMAIN job[i].objects : job[i].objects[n] \in DOMAIN cwd
               /\ tmp' = Put(tmp, <<i, 0>>, Inputs(i))
<1>1. step[i] = "link" /\ status[i] = -1 /\ UNCHANGED <<cwd, built, k>>
  BY DEF LinkBitcode, Running
<1>2. CASE ToolFails(i)
  BY <1>1, <1>2, FailFacts
<1>3. CASE Goto(i, "tools") /\ Goes(i)
  <2>1. step'[i] = "tools" /\ status'[i] = -1 /\ ~ToolFails(i)
    <3>1. step'[i] = "tools" /\ status'[i] = -1
      BY <1>1, <1>3 DEF Goto, Goes, Shape
    <3>2. QED
      BY <3>1, FailFacts
  <2>2. QED
    BY <1>1, <2>1 DEF LinkBitcode
<1>4. QED
  BY <1>2, <1>3 DEF LinkBitcode

(* What the tools at the end of the chain do to them.                      *)
LEMMA ToolsOwn ==
  ASSUME Shape, NEW i \in Invocation, Tools(i)
  PROVE  /\ step[i] = "tools" /\ UNCHANGED <<cwd, tmp>>
         /\ \/ status'[i] \in {0, 2} /\ failed'[i] # "none" /\ built' = built
            \/ status'[i] = 0 /\ built'[i] = IF job[i].dry THEN built[i] ELSE tmp[<<i, 0>>]
<1>1. step[i] = "tools" /\ UNCHANGED <<cwd, tmp>>
  BY DEF Tools, Running
<1>2. CASE ToolFails(i) /\ UNCHANGED built
  BY <1>1, <1>2, FailFacts
<1>3. CASE Exit(i, 0, "none") /\ built' = IF job[i].dry THEN built ELSE [built EXCEPT ![i] = tmp[<<i, 0>>]]
  <2>1. status'[i] = 0
    BY <1>3 DEF Exit, Shape
  <2>2. built'[i] = IF job[i].dry THEN built[i] ELSE tmp[<<i, 0>>]
    BY <1>3 DEF Shape
  <2>3. QED
    BY <1>1, <2>1, <2>2
<1>4. QED
  BY <1>2, <1>3 DEF Tools

(* Every step of an invocation keeps its place in the chain.               *)
LEMMA PlaceStep ==
  ASSUME Shape, NEW i \in Invocation, Place(i), StepOf(i)
  PROVE  Place(i)'
<1>0. /\ status[i] = -1 /\ job' = job
      /\ Count(i) \in Nat /\ k[i] \in Nat \ {0} /\ Count(i)' = Count(i)
      /\ built[i] = <<>>
  BY RunningFacts, JobFacts, Control DEF ControlOf, Count, Place
<1>1. CASE SanityCheck(i)
  BY <1>0, <1>1, SanityOwn DEF Place
<1>2. CASE Compile(i)
  <2>1. CASE status'[i] \in {0, 2}
    BY <2>1 DEF Place
  <2>2. CASE status'[i] = IF AfterCompile(i) = "done" THEN 0 ELSE -1
    <3>1. SUFFICES ASSUME AfterCompile(i) # "done"
                   PROVE  Place(i)'
      BY <2>2 DEF Place
    <3>2. step[i] = "compile" /\ k'[i] = 1 /\ built'[i] = <<>> /\ step'[i] = AfterCompile(i)
      BY <1>0, <1>2, <2>2, <3>1, CompileOwn DEF Place
    <3>3. Count(i) > 0
      BY <1>0, <3>2 DEF Place
    <3>4. QED
      BY <1>0, <3>1, <3>2, <3>3 DEF Place, AfterCompile
  <2>3. QED
    BY <1>2, <2>1, <2>2, CompileOwn
<1>3. CASE Rename(i)
  BY <1>0, <1>3, RenameOwn DEF Place
<1>4. CASE CopyToTemporary(i)
  BY <1>0, <1>4, CopyOwn DEF Place
<1>5. CASE RemoveSource(i)
  BY <1>0, <1>5, RemoveOwn DEF Place
<1>6. CASE LinkBitcode(i)
  <2>1. /\ step[i] = "link" /\ built'[i] = <<>>
        /\ status'[i] \in {0, 2} \/ (step'[i] = "tools" /\ status'[i] = -1)
    BY <1>0, <1>6, LinkOwn
  <2>2. QED
    BY <1>0, <2>1 DEF Place
<1>7. CASE Tools(i)
  <2>1. status'[i] \in {0, 2} \/ status'[i] = 0
    BY <1>7, ToolsOwn, Zenon
  <2>2. QED
    BY <2>1 DEF Place
<1>8. QED
  BY <1>1, <1>2, <1>3, <1>4, <1>5, <1>6, <1>7 DEF StepOf

-----------------------------------------------------------------------------
(* A file that is given another name.                                     *)
LEMMA RenamedFacts ==
  ASSUME NEW b, NEW o, b # o, b \in DOMAIN cwd, cwd' = Drop(Put(cwd, o, cwd[b]), b)
  PROVE  /\ DOMAIN cwd' = (DOMAIN cwd \cup {o}) \ {b}
         /\ cwd'[o] = cwd[b]
         /\ \A f \in DOMAIN cwd \ {o, b} : cwd'[f] = cwd[f]
<1> DEFINE p == Put(cwd, o, cwd[b])
<1>1. DOMAIN p = DOMAIN cwd \cup {o} /\ p[o] = cwd[b] /\ \A f \in DOMAIN cwd : f # o => p[f] = cwd[f]
  BY DEF Put
<1> HIDE DEF p
<1>2. DOMAIN Drop(p, b) = DOMAIN p \ {b} /\ \A f \in DOMAIN p \ {b} : Drop(p, b)[f] = p[f]
  BY DropFacts
<1>3. cwd' = Drop(p, b)
  BY DEF p
<1>4. QED
  BY <1>1, <1>2, <1>3

(* Every step keeps files what their names say.                            *)
LEMMA ContentsStep ==
  ASSUME Shape, Contents, NEW i \in Invocation, Place(i), StepOf(i)
  PROVE  Contents'
<1> DEFINE Object1(o) == o \in DOMAIN cwd => cwd[o] = SourceOf[o]
           Stems1(f, s) == f \in DOMAIN cwd =>
             \E g \in Jobs : \E m \in DOMAIN g.sources : g.sources[m].stem = s /\ cwd[f] = g.sources[m].name
<1>0. /\ \A o \in DOMAIN SourceOf : Object1(o)
      /\ \A j \in Jobs : \A n \in DOMAIN j.sources : Stems1(Bitcode(j.sources[n].stem), j.sources[n].stem)
  BY DEF Contents
<1>f. /\ job[i] \in Jobs
      /\ Count(i) \in Nat /\ DOMAIN job[i].sources = 1..Count(i)
      /\ \A m \in 1..Count(i) : Stem(i, m) = job[i].sources[m].stem /\ Name(i, m) = job[i].sources[m].name
  BY JobFacts DEF Stem, Name
<1>1. CASE UNCHANGED cwd
  BY <1>1 DEF Contents
<1>2. CASE Compile(i) /\ cwd' # cwd
  <2>1. PICK n \in 0..Outputs(i) : cwd' = WrittenBy(i, n)
    BY <1>2, CompileFacts
  <2>2. /\ n \in Nat /\ 1..n \subseteq 1..Count(i)
        /\ \A m \in 1..n : (job[i].kind = "ONLY_COMPILE" /\ Output(i, m) = job[i].dest) \/ Output(i, m) = Bitcode(Stem(i, m))
    BY OutputFacts
  <2> DEFINE W == {Output(i, m) : m \in 1..n}
  <2>3. /\ DOMAIN cwd' = DOMAIN cwd \cup W
        /\ \A f \in DOMAIN cwd : f \notin W => cwd'[f] = cwd[f]
        /\ \A f : f \in W => \E l \in 1..n : Output(i, l) = f /\ cwd'[f] = Name(i, l)
    BY <2>1, <2>2, WrittenFacts
  <2> HIDE DEF W
  <2>4. ASSUME NEW o \in DOMAIN SourceOf, o \in DOMAIN cwd'
        PROVE  cwd'[o] = SourceOf[o]
    <3>1. CASE o \notin W
      BY <1>0, <2>3, <2>4, <3>1
    <3>2. CASE o \in W
      <4>1. PICK l \in 1..n : Output(i, l) = o /\ cwd'[o] = Name(i, l)
        BY <2>3, <3>2
      <4>2. l \in DOMAIN job[i].sources /\ Stem(i, l) = job[i].sources[l].stem /\ Name(i, l) = job[i].sources[l].name
        BY <1>f, <2>2
      <4>3. /\ o # Bitcode(job[i].sources[l].stem)
            /\ job[i].kind = "ONLY_COMPILE" /\ o = job[i].dest => job[i].sources[l].name = SourceOf[o]
        BY <1>f, <4>2, SourceOfAssumption
      <4>4. QED
        BY <2>2, <4>1, <4>2, <4>3
    <3>3. QED
      BY <3>1, <3>2
  <2>5. ASSUME NEW j \in Jobs, NEW q \in DOMAIN j.sources, Bitcode(j.sources[q].stem) \in DOMAIN cwd'
        PROVE  \E g \in Jobs : \E m \in DOMAIN g.sources :
                 g.sources[m].stem = j.sources[q].stem /\ cwd'[Bitcode(j.sources[q].stem)] = g.sources[m].name
    <3> DEFINE s == j.sources[q].stem
               f == Bitcode(s)
    <3>1. CASE f \notin W
      BY <1>0, <2>3, <2>5, <3>1
    <3>2. CASE f \in W
      <4>1. PICK l \in 1..n : Output(i, l) = f /\ cwd'[f] = Name(i, l)
        BY <2>3, <3>2
      <4>2. l \in DOMAIN job[i].sources /\ Stem(i, l) = job[i].sources[l].stem /\ Name(i, l) = job[i].sources[l].name
        BY <1>f, <2>2
      <4>3. job[i].dest # f
        BY <1>f, JobsAssumption
      <4>4. Stem(i, l) = s
        BY <2>2, <4>1, <4>3, NamesDiffer
      <4>5. QED
        BY <1>f, <4>1, <4>2, <4>4
    <3>3. QED
      BY <3>1, <3>2
  <2>6. QED
    BY <2>4, <2>5 DEF Contents
<1>3. CASE Rename(i) /\ cwd' # cwd
  <2> DEFINE s == Stem(i, k[i])
             b == Bitcode(s)
             o == Object(s)
  <2>1. b \in DOMAIN cwd /\ cwd' = Drop(Put(cwd, o, cwd[b]), b)
    BY <1>3, RenameOwn
  <2>2. /\ DOMAIN cwd' = (DOMAIN cwd \cup {o}) \ {b}
        /\ cwd'[o] = cwd[b]
        /\ \A f \in DOMAIN cwd \ {o, b} : cwd'[f] = cwd[f]
    BY <2>1, NamesDiffer, RenamedFacts
  <2>3. k[i] \in DOMAIN job[i].sources
    BY <1>3, <1>f, JobFacts DEF Rename, Running, Place
  <2>a. PICK g \in Jobs : \E m \in DOMAIN g.sources : g.sources[m].stem = s /\ cwd[b] = g.sources[m].name
    BY <1>0, <1>f, <2>1, <2>3
  <2>4. PICK m \in DOMAIN g.sources : g.sources[m].stem = s /\ cwd[b] = g.sources[m].name
    BY <2>a
  <2>5. o \in DOMAIN SourceOf => cwd[b] = SourceOf[o]
    BY <2>4, SourceOfAssumption
  <2>6. \A t : Bitcode(t) # o
    BY NamesDiffer
  <2> HIDE DEF b, o
  <2>7. \A p \in DOMAIN SourceOf : p \in DOMAIN cwd' => cwd'[p] = SourceOf[p]
    BY <1>0, <2>2, <2>5
  <2>8. \A j \in Jobs : \A q \in DOMAIN j.sources :
          LET f == Bitcode(j.sources[q].stem)
          IN  f \in DOMAIN cwd' => f \in DOMAIN cwd /\ cwd'[f] = cwd[f]
    BY <2>2, <2>6
  <2>9. QED
    BY <1>0, <2>7, <2>8 DEF Contents
<1>4. CASE RemoveSource(i)
  <2>1. PICK b : cwd' = Drop(cwd, b)
    BY <1>4, RemoveOwn
  <2>2. DOMAIN cwd' \subseteq DOMAIN cwd /\ \A f \in DOMAIN cwd' : cwd'[f] = cwd[f]
    BY <2>1, DropFacts
  <2>3. QED
    BY <2>2 DEF Contents
<1>5. QED
  BY <1>1, <1>2, <1>3, <1>4 DEF StepOf, SanityCheck, CopyToTemporary, LinkBitcode, Tools

-----------------------------------------------------------------------------
(* Facts about another invocation that a step of this one leaves as they   *)
(* are.                                                                    *)
LEMMA OthersStep ==
  ASSUME Shape, Meeting, NEW i \in Invocation, Place(i), StepOf(i), NEW j \in Invocation, j # i,
         Place(j) /\ OwnFiles(j) /\ Linked(j) /\ Results(j)
  PROVE  (Place(j) /\ OwnFiles(j) /\ Linked(j) /\ Results(j))'
<1>1. /\ job' = job /\ step'[j] = step[j] /\ k'[j] = k[j] /\ status'[j] = status[j]
      /\ built'[j] = built[j] /\ failed'[j] = failed[j]
  BY Control DEF ControlOf, Steers, Ending
<1>2. Undisturbed(j)' => Undisturbed(j)
  <2>1. \A l : Stems(l)' = Stems(l)
    BY <1>1 DEF Stems, Stem, Count
  <2>2. met[j] \subseteq met'[j]
    BY ShapeStep
  <2>3. QED
    BY <2>1, <2>2 DEF Undisturbed
<1>3. Spared(i) /\ Private(i)
  BY SparedStep
<1>4. Count(j)' = Count(j) /\ \A n : Stem(j, n)' = Stem(j, n) /\ Name(j, n)' = Name(j, n)
  BY <1>1 DEF Count, Stem, Name
<1>5. SourcesOf(j)' = SourcesOf(j)
  BY <1>1 DEF SourcesOf, Count, Name
<1>6. Place(j)'
  BY <1>1, <1>4 DEF Place
<1>7. OwnFiles(j)'
  <2>1. SUFFICES ASSUME status[j] = -1, ~job[j].dry, Undisturbed(j), step[j] \in {"copy", "remove", "link", "tools"}
                 PROVE  OwnFiles(j)'
    BY <1>1, <1>2 DEF OwnFiles
  <2>2. Active(j)
    BY <2>1 DEF Active
  <2>3. Copied(j)' = Copied(j) /\ Moved(j)' = Moved(j)
    BY <1>1, <1>4 DEF Copied, Moved
  <2>4. \A n : \A c : Own(j, n, c)' = Own(j, n, c)
    BY <1>4 DEF Own
  <2>5. \A n \in 1..Count(j) :
          LET f == Bitcode(Stem(j, n))
          IN  (f \in DOMAIN cwd' <=> f \in DOMAIN cwd) /\ (f \in DOMAIN cwd => cwd'[f] = cwd[f])
    BY <2>1, <2>2, Distance
  <2>6. Moved(j) \subseteq 1..Count(j)
    BY <2>1, JobFacts DEF Moved, Copied, Place
  <2>7. QED
    BY <1>3, <1>4, <2>1, <2>3, <2>4, <2>5, <2>6 DEF OwnFiles, Private, Temporary, Own
<1>8. Linked(j)'
  BY <1>1, <1>2, <1>3, <1>5 DEF Linked, Private
<1>9. Results(j)'
  <2>1. ASSUME NEW f \in DOMAIN cwd, \A t : f # Bitcode(t)
        PROVE  f \in DOMAIN cwd'
    BY <1>3, <2>1 DEF Spared
  <2>2. \A n : Object(Stem(j, n)) \in DOMAIN cwd => Object(Stem(j, n)) \in DOMAIN cwd'
    BY <2>1, NamesDiffer
  <2>3. job[j].dest \in DOMAIN cwd => job[j].dest \in DOMAIN cwd'
    BY <1>3, JobFacts DEF Spared
  <2>4. QED
    BY <1>1, <1>4, <2>2, <2>3 DEF Results, Result
<1>10. QED
  BY <1>6, <1>7, <1>8, <1>9

-----------------------------------------------------------------------------
(* The command line of an invocation never changes.                        *)
LEMMA SameJob ==
  ASSUME Shape, NEW i \in Invocation, StepOf(i)
  PROVE  /\ job' = job /\ Count(i)' = Count(i) /\ SourcesOf(i)' = SourcesOf(i)
         /\ \A n : Stem(i, n)' = Stem(i, n) /\ Name(i, n)' = Name(i, n)
         /\ step[i] # "sanity" => (Undisturbed(i)' => Undisturbed(i))
<1>1. job' = job
  BY Control DEF ControlOf
<1>2. \A l : Stems(l)' = Stems(l)
  BY <1>1 DEF Stems, Stem, Count
<1>3. step[i] # "sanity" => met[i] \subseteq met'[i]
  BY ShapeStep
<1>4. QED
  BY <1>1, <1>2, <1>3 DEF Count, SourcesOf, Stem, Name, Undisturbed

(* Every step of an invocation keeps its own files its own.                *)
LEMMA OwnFilesStep ==
  ASSUME Shape, NEW i \in Invocation, Place(i), OwnFiles(i), StepOf(i)
  PROVE  OwnFiles(i)'
<1>0. /\ job' = job /\ Count(i)' = Count(i)
      /\ \A n : Stem(i, n)' = Stem(i, n)
      /\ \A n, c : Own(i, n, c)' = Own(i, n, c)
      /\ Count(i) \in Nat /\ k[i] \in Nat \ {0}
  BY SameJob, JobFacts DEF Own
<1>1. SUFFICES ASSUME status'[i] = -1, ~job[i].dry, Undisturbed(i)', step'[i] \in {"copy", "remove", "link", "tools"}
               PROVE  /\ \A n \in Copied(i)' : Temporary(i, n) \in DOMAIN tmp' /\ Own(i, n, tmp'[Temporary(i, n)])
                      /\ \A n \in Moved(i)' : Bitcode(Stem(i, n)) \notin DOMAIN cwd'
                      /\ \A n \in 1..Count(i) : Bitcode(Stem(i, n)) \in DOMAIN cwd' =>
                           Own(i, n, cwd'[Bitcode(Stem(i, n))])
                      /\ \A n, m \in Copied(i)' : Stem(i, n) = Stem(i, m) => n = m
  BY <1>0 DEF OwnFiles, Temporary
<1>u. step[i] # "sanity" => Undisturbed(i)
  BY <1>1, SameJob
<1>s. status[i] = -1
  BY RunningFacts
<1>2. CASE SanityCheck(i)
  <2>1. step'[i] = "link" /\ Count(i) = 0
    BY <1>1, <1>2, SanityOwn
  <2>2. Copied(i)' = {} /\ Moved(i)' = {}
    BY <1>0, <2>1 DEF Copied, Moved
  <2>3. QED
    BY <2>1, <2>2
<1>3. CASE Compile(i)
  <2>1. cwd' = WrittenBy(i, Outputs(i)) /\ step'[i] = "copy" /\ job[i].kind = "LINK" /\ k'[i] = 1
    <3>1. status'[i] \notin {0, 2}
      BY <1>1
    <3>2. cwd' = WrittenBy(i, Outputs(i)) /\ step'[i] = AfterCompile(i) /\ k'[i] = k[i] /\ step[i] = "compile"
      BY <1>1, <1>3, <3>1, CompileOwn
    <3>3. k[i] = 1
      BY <1>s, <3>2 DEF Place
    <3>4. QED
      BY <1>1, <3>2, <3>3 DEF AfterCompile
  <2>2. Copied(i)' = {} /\ Moved(i)' = {}
    BY <1>0, <2>1 DEF Copied, Moved
  <2>3. Outputs(i) = Count(i) /\ \A m \in 1..Count(i) : Output(i, m) = Bitcode(Stem(i, m))
    BY <2>1 DEF Outputs, Output
  <2>4. ASSUME NEW n \in 1..Count(i)
        PROVE  Own(i, n, cwd'[Bitcode(Stem(i, n))])
    <3>1. Bitcode(Stem(i, n)) \in {Output(i, m) : m \in 1..Count(i)}
      BY <2>3
    <3>a. cwd' = WrittenBy(i, Count(i))
      BY <2>1, <2>3
    <3>2. PICK l \in 1..Count(i) : Output(i, l) = Bitcode(Stem(i, n)) /\ cwd'[Bitcode(Stem(i, n))] = Name(i, l)
      BY <1>0, <3>a, <3>1, WrittenFacts
    <3>3. Stem(i, l) = Stem(i, n)
      BY <2>3, <3>2, NamesDiffer
    <3>4. QED
      BY <3>2, <3>3 DEF Own
  <2>5. QED
    BY <2>2, <2>4
<1>4. CASE Rename(i)
  <2>1. status'[i] \in {134, 0} \/ step'[i] \in {"rename", "done"}
    BY <1>4, RenameOwn
  <2>2. QED
    BY <1>1, <2>1
<1>5. CASE CopyToTemporary(i)
  <2> DEFINE b == Bitcode(Stem(i, k[i]))
  <2>1. /\ step[i] = "copy" /\ cwd' = cwd /\ b \in DOMAIN cwd
        /\ tmp' = Put(tmp, Temporary(i, k[i]), cwd[b]) /\ step'[i] = "remove" /\ k'[i] = k[i]
    <3>1. status'[i] # 134
      BY <1>1
    <3>2. QED
      BY <1>1, <1>5, <3>1, CopyOwn
  <2>2. k[i] <= Count(i) /\ k[i] \in 1..Count(i)
    BY <1>0, <1>s, <2>1 DEF Place
  <2>3. Copied(i) = 1..k[i] - 1 /\ Moved(i) = 1..k[i] - 1
    BY <2>1 DEF Copied, Moved
  <2>4. Copied(i)' = 1..k[i] /\ Moved(i)' = 1..k[i] - 1
    BY <2>1 DEF Copied, Moved
  <2>5. /\ \A n \in 1..k[i] - 1 : Temporary(i, n) \in DOMAIN tmp /\ Own(i, n, tmp[Temporary(i, n)])
        /\ \A n \in 1..k[i] - 1 : Bitcode(Stem(i, n)) \notin DOMAIN cwd
        /\ \A n \in 1..Count(i) : Bitcode(Stem(i, n)) \in DOMAIN cwd => Own(i, n, cwd[Bitcode(Stem(i, n))])
        /\ \A n, m \in 1..k[i] - 1 : Stem(i, n) = Stem(i, m) => n = m
    BY <1>1, <1>s, <1>u, <2>1, <2>3 DEF OwnFiles
  <2>6. \A n \in 1..k[i] - 1 : Stem(i, n) # Stem(i, k[i])
    BY <2>1, <2>5
  <2>7. DOMAIN tmp' = DOMAIN tmp \cup {Temporary(i, k[i])} /\ tmp'[Temporary(i, k[i])] = cwd[b]
        /\ \A f \in DOMAIN tmp : f # Temporary(i, k[i]) => tmp'[f] = tmp[f]
    BY <2>1 DEF Put
  <2>8. ASSUME NEW n \in 1..k[i]
        PROVE  Temporary(i, n) \in DOMAIN tmp' /\ Own(i, n, tmp'[Temporary(i, n)])
    <3>1. CASE n = k[i]
      BY <2>1, <2>2, <2>5, <2>7, <3>1
    <3>2. CASE n # k[i]
      <4>1. n \in 1..k[i] - 1 /\ Temporary(i, n) # Temporary(i, k[i])
        BY <1>0, <3>2 DEF Temporary
      <4>2. QED
        BY <2>5, <2>7, <4>1
    <3>3. QED
      BY <3>1, <3>2
  <2>9. \A n, m \in 1..k[i] : Stem(i, n) = Stem(i, m) => n = m
    <3>1. TAKE n, m \in 1..k[i]
    <3>2. n \in 1..k[i] - 1 \/ n = k[i]
      BY <1>0
    <3>3. m \in 1..k[i] - 1 \/ m = k[i]
      BY <1>0
    <3>4. QED
      BY <2>5, <2>6, <3>2, <3>3
  <2>10. QED
    BY <2>1, <2>4, <2>5, <2>8, <2>9
<1>6. CASE RemoveSource(i)
  <2> DEFINE b == Bitcode(Stem(i, k[i]))
  <2>1. /\ step[i] = "remove" /\ cwd' = Drop(cwd, b) /\ tmp' = tmp /\ k'[i] = k[i] + 1
        /\ step'[i] = IF k[i] < Count(i) THEN "copy" ELSE "link"
    BY <1>6, RemoveOwn
  <2>2. k[i] <= Count(i)
    BY <1>s, <2>1 DEF Place
  <2>3. Copied(i) = 1..k[i] /\ Moved(i) = 1..k[i] - 1
    BY <2>1 DEF Copied, Moved
  <2>4. Copied(i)' = 1..k[i] /\ Moved(i)' = 1..k[i]
    <3>1. CASE k[i] < Count(i)
      BY <1>0, <2>1, <3>1 DEF Copied, Moved
    <3>2. CASE k[i] = Count(i)
      BY <1>0, <2>1, <3>2 DEF Copied, Moved
    <3>3. QED
      BY <1>0, <2>2, <3>1, <3>2
  <2>5. /\ \A n \in 1..k[i] : Temporary(i, n) \in DOMAIN tmp /\ Own(i, n, tmp[Temporary(i, n)])
        /\ \A n \in 1..k[i] - 1 : Bitcode(Stem(i, n)) \notin DOMAIN cwd
        /\ \A n \in 1..Count(i) : Bitcode(Stem(i, n)) \in DOMAIN cwd => Own(i, n, cwd[Bitcode(Stem(i, n))])
        /\ \A n, m \in 1..k[i] : Stem(i, n) = Stem(i, m) => n = m
    BY <1>1, <1>s, <1>u, <2>1, <2>3 DEF OwnFiles
  <2>6. DOMAIN cwd' = DOMAIN cwd \ {b} /\ \A f \in DOMAIN cwd \ {b} : cwd'[f] = cwd[f]
    BY <2>1, DropFacts
  <2>7. \A n \in 1..k[i] : n \in 1..k[i] - 1 \/ n = k[i]
    BY <1>0
  <2>8. \A n \in 1..k[i] : Bitcode(Stem(i, n)) \notin DOMAIN cwd'
    BY <2>5, <2>6, <2>7
  <2> HIDE DEF b
  <2>9. \A n \in 1..Count(i) : Bitcode(Stem(i, n)) \in DOMAIN cwd' => Own(i, n, cwd'[Bitcode(Stem(i, n))])
    BY <2>5, <2>6
  <2>10. QED
    BY <2>1, <2>4, <2>5, <2>8, <2>9
<1>7. CASE LinkBitcode(i)
  <2>1. step[i] = "link" /\ cwd' = cwd /\ step'[i] = "tools" /\ tmp' = Put(tmp, <<i, 0>>, Inputs(i))
    <3>1. status'[i] \notin {0, 2}
      BY <1>1
    <3>2. QED
      BY <1>1, <1>7, <3>1, LinkOwn
  <2>2. Copied(i) = 1..Count(i) /\ Moved(i) = 1..Count(i)
    BY <2>1 DEF Copied, Moved
  <2>3. Copied(i)' = 1..Count(i) /\ Moved(i)' = 1..Count(i)
    BY <1>0, <2>1 DEF Copied, Moved
  <2>4. DOMAIN tmp' = DOMAIN tmp \cup {<<i, 0>>} /\ \A f \in DOMAIN tmp : f # <<i, 0>> => tmp'[f] = tmp[f]
    BY <2>1 DEF Put
  <2>5. \A n \in 1..Count(i) : Temporary(i, n) # <<i, 0>>
    BY <1>0 DEF Temporary
  <2>6. /\ \A n \in 1..Count(i) : Temporary(i, n) \in DOMAIN tmp /\ Own(i, n, tmp[Temporary(i, n)])
        /\ \A n \in 1..Count(i) : Bitcode(Stem(i, n)) \notin DOMAIN cwd
        /\ \A n, m \in 1..Count(i) : Stem(i, n) = Stem(i, m) => n = m
    BY <1>1, <1>s, <1>u, <2>1, <2>2 DEF OwnFiles
  <2>7. QED
    BY <2>1, <2>3, <2>4, <2>5, <2>6
<1>8. CASE Tools(i)
  <2>1. status'[i] \in {0, 2} \/ status'[i] = 0
    BY <1>8, ToolsOwn, Zenon
  <2>2. QED
    BY <1>1, <2>1
<1>9. QED
  BY <1>2, <1>3, <1>4, <1>5, <1>6, <1>7, <1>8 DEF StepOf

(* What llvm-link puts together for an undisturbed invocation.             *)
LEMMA InputsFacts ==
  ASSUME Shape, Contents, NEW i \in Invocation, OwnFiles(i), status[i] = -1, step[i] = "link", ~job[i].dry,
         \A n \in DOMAIN job[i].objects : job[i].objects[n] \in DOMAIN cwd
  PROVE  /\ Count(i) + Len(job[i].objects) + Len(job[i].predefined) > 0 => Inputs(i) # <<>>
         /\ Undisturbed(i) => Inputs(i) = SourcesOf(i)
<1> DEFINE a == [n \in DOMAIN job[i].objects |-> cwd[job[i].objects[n]]]
           b == [n \in 1..Count(i) |-> tmp[Temporary(i, n)]]
           c == job[i].predefined
           o == Len(job[i].objects)
<1>0. Count(i) \in Nat /\ o \in Nat /\ DOMAIN job[i].objects = 1..o /\ job[i] \in Jobs
  BY JobFacts
<1>1. o + Count(i) + Len(c) > 0 => Inputs(i) # <<>>
  <2> DEFINE E == {a[n] : n \in 1..o} \cup {b[n] : n \in 1..Count(i)} \cup {c[n] : n \in 1..Len(c)}
  <2>1. \A m, n \in Nat : 1..m = 1..n => m = n
    <3>1. SUFFICES ASSUME NEW m \in Nat, NEW n \in Nat, 1..m = 1..n
                   PROVE  m = n
      OBVIOUS
    <3>2. (m > 0 => m \in 1..n) /\ (n > 0 => n \in 1..m)
      BY <3>1
    <3>3. QED
      BY <3>2
  <2>2. a \in [1..o -> E] /\ b \in [1..Count(i) -> E]
    BY <1>0
  <2>3. a \in Seq(E) /\ b \in Seq(E) /\ Len(a) = o /\ Len(b) = Count(i)
    <3> HIDE DEF a, b, E, o
    <3>1. a \in Seq(E) /\ b \in Seq(E)
      BY <1>0, <2>2, SeqDef
    <3>2. DOMAIN a = 1..Len(a) /\ Len(a) \in Nat /\ DOMAIN b = 1..Len(b) /\ Len(b) \in Nat
      BY <3>1, LenProperties
    <3>3. DOMAIN a = 1..o /\ DOMAIN b = 1..Count(i)
      BY <2>2
    <3>4. QED
      BY <1>0, <2>1, <3>1, <3>2, <3>3
  <2>4. c \in Seq(STRING) /\ Len(c) \in Nat /\ DOMAIN c = 1..Len(c)
    BY JobFacts, LenProperties
  <2>5. c \in Seq(E)
    <3>1. \A n \in 1..Len(c) : c[n] \in E
      OBVIOUS
    <3> HIDE DEF a, b, c, E, o
    <3>2. c \in [1..Len(c) -> E]
      <4>1. c \in [1..Len(c) -> STRING]
        BY <2>4
      <4>2. QED
        BY <3>1, <4>1
    <3>3. QED
      BY <2>4, <3>2, SeqDef
  <2> HIDE DEF a, b, c, E, o
  <2>6. a \o b \in Seq(E) /\ Len(a \o b) = o + Count(i)
    BY <2>3, ConcatProperties
  <2>7. (a \o b) \o c \in Seq(E) /\ Len((a \o b) \o c) = o + Count(i) + Len(c)
    BY <2>5, <2>6, ConcatProperties
  <2>8. o + Count(i) + Len(c) > 0 => (a \o b) \o c # <<>>
    BY <1>0, <2>4, <2>7, EmptySeq
  <2>9. Inputs(i) = (a \o b) \o c
    BY DEF Inputs, a, b, c
  <2>10. QED
    BY <2>8, <2>9
<1>2. ASSUME Undisturbed(i)
      PROVE  Inputs(i) = SourcesOf(i)
  <2>1. \A n \in DOMAIN job[i].objects : cwd[job[i].objects[n]] = SourceOf[job[i].objects[n]]
    BY <1>0, SourceOfAssumption DEF Contents
  <2>2. Copied(i) = 1..Count(i)
    BY DEF Copied
  <2>3. ASSUME NEW n \in 1..Count(i)
        PROVE  tmp[Temporary(i, n)] = Name(i, n)
    <3>1. PICK m \in 1..Count(i) : Stem(i, m) = Stem(i, n) /\ tmp[Temporary(i, n)] = Name(i, m)
      BY <1>2, <2>2 DEF OwnFiles, Own
    <3>2. m = n
      BY <1>2, <2>2, <3>1 DEF OwnFiles
    <3>3. QED
      BY <3>1, <3>2
  <2>4. a = [n \in DOMAIN job[i].objects |-> SourceOf[job[i].objects[n]]]
    BY <2>1
  <2>5. b = [n \in 1..Count(i) |-> Name(i, n)]
    BY <2>3
  <2>6. QED
    BY <2>4, <2>5 DEF Inputs, SourcesOf
<1>3. QED
  BY <1>0, <1>1, <1>2

(* Every step of an invocation keeps the linked bitcode that of its        *)
(* sources.                                                                *)
LEMMA LinkedStep ==
  ASSUME Shape, Contents, NEW i \in Invocation, Place(i), OwnFiles(i), Linked(i), StepOf(i)
  PROVE  Linked(i)'
<1>0. /\ job' = job /\ SourcesOf(i)' = SourcesOf(i) /\ status[i] = -1 /\ built[i] = <<>>
      /\ step[i] # "sanity" => (Undisturbed(i)' => Undisturbed(i))
  BY SameJob, RunningFacts DEF Place
<1>1. CASE LinkBitcode(i)
  <2>1. built'[i] = <<>> /\ step[i] = "link"
    BY <1>0, <1>1, LinkOwn
  <2>2. ASSUME status'[i] = -1, ~job[i].dry
        PROVE  /\ tmp' = Put(tmp, <<i, 0>>, Inputs(i)) /\ Count(i) + Len(job[i].objects) + Len(job[i].predefined) > 0
               /\ \A n \in DOMAIN job[i].objects : job[i].objects[n] \in DOMAIN cwd
    <3>1. status'[i] \notin {0, 2}
      BY <2>2
    <3>2. QED
      BY <1>1, <2>2, <3>1, LinkOwn
  <2>3. ASSUME status'[i] = -1, ~job[i].dry
        PROVE  <<i, 0>> \in DOMAIN tmp' /\ tmp'[<<i, 0>>] # <<>> /\ (Undisturbed(i) => tmp'[<<i, 0>>] = SourcesOf(i))
    <3>1. <<i, 0>> \in DOMAIN tmp' /\ tmp'[<<i, 0>>] = Inputs(i)
      BY <2>2, <2>3 DEF Put
    <3>2. QED
      BY <1>0, <2>1, <2>2, <2>3, <3>1, InputsFacts
  <2>4. QED
    BY <1>0, <2>1, <2>3 DEF Linked
<1>2. CASE Tools(i)
  <2>1. CASE status'[i] \in {0, 2} /\ built' = built
    BY <1>0, <2>1 DEF Linked
  <2>2. CASE status'[i] = 0 /\ built'[i] = IF job[i].dry THEN built[i] ELSE tmp[<<i, 0>>]
    <3>1. step[i] = "tools"
      BY <1>2, ToolsOwn
    <3>2. QED
      BY <1>0, <2>2, <3>1 DEF Linked
  <2>3. QED
    BY <1>2, <2>1, <2>2, ToolsOwn
<1>3. CASE ~LinkBitcode(i) /\ ~Tools(i)
  <2>1. built'[i] = <<>>
    BY <1>0, <1>3 DEF StepOf, SanityCheck, Compile, Rename, CopyToTemporary, RemoveSource
  <2>2. status'[i] = -1 => step'[i] # "tools"
    <3>1. CASE SanityCheck(i)
      BY <3>1, SanityOwn
    <3>2. CASE Compile(i)
      <4>1. status'[i] \in {0, 2} \/ step'[i] = AfterCompile(i)
        BY <3>2, CompileOwn
      <4>2. QED
        BY <4>1 DEF AfterCompile
    <3>3. CASE Rename(i)
      BY <3>3, RenameOwn
    <3>4. CASE CopyToTemporary(i)
      BY <3>4, CopyOwn
    <3>5. CASE RemoveSource(i)
      BY <3>5, RemoveOwn
    <3>6. QED
      BY <1>3, <3>1, <3>2, <3>3, <3>4, <3>5 DEF StepOf
  <2>3. QED
    BY <2>1, <2>2 DEF Linked
<1>4. QED
  BY <1>1, <1>2, <1>3

(* Every step of an invocation keeps what it has left behind.              *)
LEMMA ResultsStep ==
  ASSUME Shape, NEW i \in Invocation, Place(i), OwnFiles(i), Linked(i), Results(i), StepOf(i)
  PROVE  Results(i)'
<1>0. /\ job' = job /\ Count(i)' = Count(i) /\ status[i] = -1 /\ built[i] = <<>>
      /\ \A n : Stem(i, n)' = Stem(i, n)
      /\ \A n : Result(i, n)' = Result(i, n)
      /\ Count(i) \in Nat /\ k[i] \in Nat \ {0}
  BY SameJob, RunningFacts, JobFacts DEF Place, Result
<1>r. SUFFICES /\ status'[i] = -1 /\ step'[i] = "rename" => \A n \in 1..k'[i] - 1 : Object(Stem(i, n)) \in DOMAIN cwd'
               /\ status'[i] = 0 /\ failed'[i] = "none" /\ ~job[i].dry =>
                    /\ job[i].kind = "LINK" => built'[i] # <<>>
                    /\ job[i].kind = "ONLY_COMPILE" => \A n \in 1..Count(i) : Result(i, n) \in DOMAIN cwd'
  BY <1>0 DEF Results
<1>1. CASE SanityCheck(i)
  BY <1>0, <1>1, SanityOwn
<1>2. CASE Compile(i)
  <2>1. SUFFICES ASSUME ~(status'[i] \in {0, 2} /\ failed'[i] # "none")
                 PROVE  /\ status'[i] = -1 /\ step'[i] = "rename" => \A n \in 1..k'[i] - 1 : Object(Stem(i, n)) \in DOMAIN cwd'
                        /\ status'[i] = 0 /\ failed'[i] = "none" /\ ~job[i].dry =>
                             /\ job[i].kind = "LINK" => built'[i] # <<>>
                             /\ job[i].kind = "ONLY_COMPILE" => \A n \in 1..Count(i) : Result(i, n) \in DOMAIN cwd'
    BY DEF Result
  <2>2. /\ step[i] = "compile" /\ k'[i] = k[i] /\ step'[i] = AfterCompile(i)
        /\ cwd' = IF job[i].dry THEN cwd ELSE WrittenBy(i, Outputs(i))
        /\ status'[i] = IF AfterCompile(i) = "done" THEN 0 ELSE -1
    BY <1>2, <2>1, CompileOwn
  <2>3. k'[i] = 1
    BY <1>0, <2>2 DEF Place
  <2>4. ASSUME status'[i] = 0, ~job[i].dry, job[i].kind = "LINK"
        PROVE  FALSE
    BY <2>2, <2>4 DEF AfterCompile
  <2>5. ASSUME status'[i] = 0, ~job[i].dry, job[i].kind = "ONLY_COMPILE", NEW n \in 1..Count(i)
        PROVE  Result(i, n) \in DOMAIN cwd'
    <3>1. job[i].dest # NoFile
      BY <2>2, <2>5 DEF AfterCompile
    <3>2. Outputs(i) = Count(i) /\ \A m \in 1..Count(i) : Output(i, m) = job[i].dest
      BY <2>5, <3>1 DEF Outputs, Output
    <3>3. cwd' = WrittenBy(i, Count(i))
      BY <2>2, <2>5, <3>2
    <3>4. DOMAIN cwd' = DOMAIN cwd \cup {Output(i, m) : m \in 1..Count(i)}
      <4>1. Count(i) \in Nat
        BY <1>0
      <4>2. QED
        BY <3>3, <4>1, WrittenFacts, Zenon
    <3>5. QED
      BY <3>1, <3>2, <3>4 DEF Result
  <2>6. QED
    BY <2>3, <2>4, <2>5
<1>3. CASE Rename(i)
  <2> DEFINE b == Bitcode(Stem(i, k[i]))
             o == Object(Stem(i, k[i]))
  <2>1. SUFFICES ASSUME status'[i] \in {-1, 0}
                 PROVE  /\ status'[i] = -1 /\ step'[i] = "rename" => \A n \in 1..k'[i] - 1 : Object(Stem(i, n)) \in DOMAIN cwd'
                        /\ status'[i] = 0 /\ failed'[i] = "none" /\ ~job[i].dry =>
                             /\ job[i].kind = "LINK" => built'[i] # <<>>
                             /\ job[i].kind = "ONLY_COMPILE" => \A n \in 1..Count(i) : Result(i, n) \in DOMAIN cwd'
    OBVIOUS
  <2>2. /\ step[i] = "rename" /\ b \in DOMAIN cwd /\ cwd' = Drop(Put(cwd, o, cwd[b]), b) /\ k'[i] = k[i] + 1
        /\ status'[i] = IF k[i] < Count(i) THEN -1 ELSE 0
    <3>1. status'[i] # 134
      BY <2>1
    <3>2. QED
      BY <1>3, <3>1, RenameOwn
  <2>3. job[i].kind = "ONLY_COMPILE" /\ job[i].dest = NoFile /\ k[i] <= Count(i)
    BY <1>0, <2>2 DEF Place
  <2>4. \A n \in 1..k[i] - 1 : Object(Stem(i, n)) \in DOMAIN cwd
    BY <1>0, <2>2 DEF Results
  <2>5. DOMAIN cwd' = (DOMAIN cwd \cup {o}) \ {b}
    BY <2>2, NamesDiffer, RenamedFacts
  <2>6. \A n : Object(Stem(i, n)) # b
    BY NamesDiffer
  <2> HIDE DEF b
  <2>7. ASSUME NEW n \in 1..k[i]
        PROVE  Object(Stem(i, n)) \in DOMAIN cwd'
    <3>1. n \in 1..k[i] - 1 \/ n = k[i]
      BY <1>0
    <3>2. QED
      BY <2>4, <2>5, <2>6, <3>1
  <2>8. k'[i] - 1 = k[i] /\ (status'[i] = 0 => Count(i) = k[i])
    BY <1>0, <2>2, <2>3
  <2>9. QED
    BY <2>3, <2>7, <2>8 DEF Result
<1>4. CASE CopyToTemporary(i)
  <2>1. status'[i] # 0 /\ (status'[i] = -1 => step'[i] # "rename")
    BY <1>4, CopyOwn
  <2>2. QED
    BY <2>1
<1>5. CASE RemoveSource(i)
  <2>1. status'[i] = -1 /\ step'[i] # "rename"
    BY <1>5, RemoveOwn
  <2>2. QED
    BY <2>1
<1>6. CASE LinkBitcode(i)
  <2>1. (status'[i] \in {0, 2} /\ failed'[i] # "none") \/ (status'[i] = -1 /\ step'[i] = "tools")
    BY <1>6, LinkOwn
  <2>2. QED
    BY <2>1
<1>7. CASE Tools(i)
  <2>1. step[i] = "tools" /\ job[i].kind = "LINK"
    BY <1>0, <1>7, ToolsOwn DEF Place
  <2>2. \/ status'[i] \in {0, 2} /\ failed'[i] # "none"
        \/ status'[i] = 0 /\ built'[i] = IF job[i].dry THEN built[i] ELSE tmp[<<i, 0>>]
    BY <1>7, ToolsOwn, Zenon
  <2>3. ~job[i].dry => tmp[<<i, 0>>] # <<>>
    BY <1>0, <2>1 DEF Linked
  <2>4. QED
    BY <2>1, <2>2, <2>3
<1>8. QED
  BY <1>1, <1>2, <1>3, <1>4, <1>5, <1>6, <1>7 DEF StepOf

-----------------------------------------------------------------------------
(* The inductive invariant of the wrapper holds initially.                 *)
LEMMA WInvInit == Init => WInv
<1>1. SUFFICES ASSUME Init
               PROVE  WInv
  OBVIOUS
<1>2. Shape
  BY <1>1 DEF Init, Shape, Chain, Ends
<1>3. Meeting
  BY <1>1 DEF Init, Meeting, Active
<1>4. Contents
  <2>1. DOMAIN cwd = {}
    BY <1>1 DEF Init
  <2>2. QED
    BY <2>1 DEF Contents
<1>5. ASSUME NEW i \in Invocation
      PROVE  Place(i) /\ OwnFiles(i) /\ Linked(i) /\ Results(i)
  <2>1. step[i] = "sanity" /\ status[i] = -1 /\ built[i] = <<>> /\ k[i] = 1
    BY <1>1 DEF Init
  <2>2. QED
    BY <2>1 DEF Place, OwnFiles, Linked, Results
<1>6. QED
  BY <1>2, <1>3, <1>4, <1>5 DEF WInv

(* Every step of any invocation keeps the invariant, for all of them.      *)
LEMMA WInvStep == WInv /\ [Next]_vars => WInv'
<1>1. SUFFICES ASSUME WInv, [Next]_vars
               PROVE  WInv'
  OBVIOUS
<1>2. ASSUME NEW i \in Invocation, StepOf(i)
      PROVE  WInv'
  <2>1. Shape' /\ Meeting' /\ Contents'
    BY <1>1, <1>2, ShapeStep, MeetingStep, ContentsStep DEF WInv
  <2>2. ASSUME NEW j \in Invocation
        PROVE  (Place(j) /\ OwnFiles(j) /\ Linked(j) /\ Results(j))'
    <3>1. CASE j = i
      BY <1>1, <1>2, <3>1, PlaceStep, OwnFilesStep, LinkedStep, ResultsStep DEF WInv
    <3>2. CASE j # i
      BY <1>1, <1>2, <3>2, OthersStep DEF WInv
    <3>3. QED
      BY <3>1, <3>2
  <2>3. QED
    BY <2>1, <2>2 DEF WInv
<1>3. CASE UNCHANGED vars
  <2>1. job' = job /\ step' = step /\ k' = k /\ cwd' = cwd /\ tmp' = tmp /\ built' = built /\ status' = status
        /\ met' = met /\ failed' = failed
    BY <1>3 DEF vars
  <2>2. Shape' = Shape /\ Meeting' = Meeting /\ Contents' = Contents
    BY <2>1 DEF Shape, Meeting, Active, Contents
  <2>3. ASSUME NEW i \in Invocation
        PROVE  (Place(i) /\ OwnFiles(i) /\ Linked(i) /\ Results(i))'
    <3>1. /\ Count(i)' = Count(i) /\ SourcesOf(i)' = SourcesOf(i)
          /\ Copied(i)' = Copied(i) /\ Moved(i)' = Moved(i)
          /\ Undisturbed(i)' = Undisturbed(i)
          /\ \A n : Stem(i, n)' = Stem(i, n) /\ Name(i, n)' = Name(i, n) /\ Result(i, n)' = Result(i, n)
      BY <2>1 DEF Count, SourcesOf, Copied, Moved, Undisturbed, Stems, Stem, Name, Result
    <3>2. Place(i)' = Place(i)
      BY <2>1, <3>1 DEF Place
    <3>3. OwnFiles(i)' = OwnFiles(i)
      <4>1. \A n, c : Own(i, n, c)' = Own(i, n, c)
        BY <3>1 DEF Own
      <4>2. QED
        BY <2>1, <3>1, <4>1 DEF OwnFiles, Temporary
    <3>4. Linked(i)' = Linked(i) /\ Results(i)' = Results(i)
      BY <2>1, <3>1 DEF Linked, Results
    <3>5. QED
      BY <1>1, <3>2, <3>3, <3>4 DEF WInv
  <2>4. QED
    BY <1>1, <2>2, <2>3 DEF WInv
<1>4. QED
  BY <1>1, <1>2, <1>3 DEF Next, StepOf

(* The inductive invariant of the wrapper holds in every execution.        *)
LEMMA WInvariant == WrapperSpec => []WInv
<1>1. QED
  BY WInvInit, WInvStep, PTL DEF WrapperSpec

(* The executable of an undisturbed invocation holds its own sources and   *)
(* objects, in their order, whatever else runs in the directory, and also  *)
(* when two of its sources have the same stem, since then it has none.     *)
THEOREM WrapperIsRight == WrapperSpec => []RightProgram
<1>1. WInv => RightProgram
  BY DEF WInv, Linked, RightProgram
<1>2. QED
  BY <1>1, WInvariant, PTL

(* What the exit status of the wrapper says about the files it leaves.     *)
THEOREM StatusIsRight == WrapperSpec => []StatusMeaning
<1>1. ASSUME WInv
      PROVE  StatusMeaning
  <2>1. SUFFICES ASSUME NEW i \in Invocation, status[i] # -1
                 PROVE  /\ status[i] # 0 => built[i] = <<>>
                        /\ status[i] = 0 /\ failed[i] = "none" /\ Undisturbed(i) /\ ~job[i].dry =>
                             CASE job[i].kind = "LINK"         -> built[i] # <<>>
                               [] job[i].kind = "ONLY_COMPILE" ->
                                    \A n \in 1..Count(i) :
                                      (IF job[i].dest = NoFile THEN Object(Stem(i, n)) ELSE job[i].dest) \in DOMAIN cwd
                               [] OTHER -> TRUE
    BY DEF StatusMeaning
  <2>2. status[i] # 0 => built[i] = <<>>
    BY <1>1 DEF WInv, Linked
  <2>3. status[i] = 0 /\ failed[i] = "none" /\ ~job[i].dry =>
          /\ job[i].kind = "LINK" => built[i] # <<>>
          /\ job[i].kind = "ONLY_COMPILE" => \A n \in 1..Count(i) : Result(i, n) \in DOMAIN cwd
    BY <1>1 DEF WInv, Results
  <2>4. QED
    BY <2>2, <2>3 DEF Result
<1>2. QED
  BY <1>1, WInvariant, PTL

(* The step in which an undisturbed invocation writes its executable finds *)
(* none of its bitcode in the working directory.                           *)
THEOREM WrapperLeavesNothing == WrapperSpec => LeavesNothing
<1> DEFINE Left == \A i \in Invocation : built[i] = <<>> /\ built'[i] # <<>> /\ Undisturbed(i) =>
                     \A stem \in Stems(i) : Bitcode(stem) \notin DOMAIN cwd
<1>1. ASSUME WInv, [Next]_vars
      PROVE  [Left]_vars
  <2>1. SUFFICES ASSUME NEW i \in Invocation, built[i] = <<>>, built'[i] # <<>>, Undisturbed(i)
                 PROVE  \A n \in 1..Count(i) : Bitcode(Stem(i, n)) \notin DOMAIN cwd
    BY DEF Stems
  <2>2. PICK j \in Invocation : StepOf(j)
    BY <1>1, <2>1 DEF Next, StepOf, vars
  <2>3. j = i
    BY <1>1, <2>1, <2>2, Control DEF WInv, ControlOf
  <2>4. Tools(i) /\ ~job[i].dry /\ status[i] = -1 /\ step[i] = "tools"
    BY <2>1, <2>2, <2>3 DEF StepOf, SanityCheck, Compile, Rename, CopyToTemporary, RemoveSource, LinkBitcode, Tools, Running
  <2>5. Moved(i) = 1..Count(i)
    BY <2>4 DEF Moved, Copied
  <2>6. QED
    BY <1>1, <2>1, <2>4, <2>5 DEF WInv, OwnFiles
<1>2. QED
  BY <1>1, WInvariant, PTL DEF WrapperSpec, LeavesNothing
=============================================================================
