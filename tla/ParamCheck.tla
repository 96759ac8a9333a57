------------------------------ MODULE ParamCheck ------------------------------
(***************************************************************************)
(* What param! means: the values a contract writes and a call passes, the  *)
(* verdict of ContractVerifierParam on what it finds of them in the IR,    *)
(* and that of ParamAnalysis on the pointers they travel in.  A behaviour  *)
(* writes one contract on the parameter of a function, whose call sites    *)
(* are in the order of LLVM's list of users; once it is written, the calls *)
(* are made, from any site and in any order.                               *)
(***************************************************************************)
EXTENDS Analyses, SequencesExt

CONSTANTS
  Size,             \* the sizes of the arguments tried
  Sample,           \* the numbers tried, where they fit the size
  Address,          \* those of them that are addresses of global variables
  Named,            \* what the names of the contracts stand for
  MaxRequirements,  \* bound: requirements of one operation
  MaxSites,         \* bound: call sites
  MaxCalls          \* bound: calls made

(* What the compiler knows of a value is a constant of the IR: a number, a *)
(* null pointer or a global variable.  CONTRACT_VALUE_PAIR casts a number  *)
(* to a pointer; ContractManager undoes it, except that 0 has become null. *)
Number(n)  == [form |-> "number", value |-> n]
Null       == [form |-> "null", value |-> 0]
Global(n)  == [form |-> "global", value |-> n]
Constants  == [form : {"number", "null", "global"}, value : Int]

(* Arguments have a size sign_extend knows, or that of a pointer; a name   *)
(* stands for a set of values, in the order in which it is visited;        *)
(* doubling is what a power of two does.                                   *)
ASSUME ParamAssumption ==
  /\ Size \subseteq NarrowSizes \cup {PointerSize} /\ Sample \subseteq Int /\ 0 \notin Address
  /\ \A name \in Named : name \in Seq(Constants) /\ name # <<>>
  /\ MaxRequirements \in Nat /\ MaxSites \in Nat /\ MaxCalls \in Nat
ASSUME PowerAssumption == \A bits \in 1..PointerSize : 2^bits = 2 * 2^(bits - 1)

VARIABLES
  size, pointer,    \* of the parameter: its width, and whether it is a pointer
  asserts,          \* whether LLVM was built with assertions
  sites,            \* what the calls pass
  reqs,             \* the requirements
  calls,            \* the sites the calls so far were made from
  verdict           \* of the analysis at run time
pvars == <<size, pointer, asserts, sites, reqs, calls, verdict>>

Comparator == {"EXEQ", "EQ", "NEQ", "GTEQ", "GT", "LTEQ", "LT"}
Ordering   == {"GTEQ", "GT", "LTEQ", "LT"}
Fits(n, bits) == -(2^(bits - 1)) <= n /\ n < 2^(bits - 1)

(* An argument is converted to a pointer by zero extension, a constant of  *)
(* the contract as an integer of 64 bits.                                  *)
anyValToPtr(n, bits) == n % 2^bits
getIntToPtr(n) == n % 2^PointerSize

(* What the argument at a call site may be: a constant number, cast to a   *)
(* pointer where one is expected; null; the address of a global variable;  *)
(* that of memory to which a constant number was stored just before; or    *)
(* anything else the program computes.                                     *)
Passable(s) ==
  /\ Fits(s.value, size)
  /\ s.form # "assigned" => s.stored = s.value
  /\ CASE s.form = "number"   -> pointer => s.value # 0 /\ s.value \notin Address
       [] s.form = "null"     -> pointer /\ s.value = 0
       [] s.form = "global"   -> pointer /\ s.value \in Address
       [] s.form = "assigned" -> pointer /\ s.value # 0
       [] s.form = "computed" -> TRUE
Argument == [form : {"number", "null", "global", "assigned", "computed"}, value : Sample, stored : Sample]

ParamInputs ==
  /\ size \in Size
  /\ pointer \in {FALSE, size = PointerSize} /\ asserts \in {FALSE, size # PointerSize}
  /\ \E k \in 1..MaxSites : sites \in [1..k -> {s \in Argument : Passable(s)}]
  /\ reqs = <<>> /\ calls = <<>> /\ verdict = Unknown

(* A value is a number or a name; pointers are not ordered, and a global   *)
(* variable is where its address is.                                       *)
AddRequirement(comparator, values) ==
  /\ calls = <<>> /\ Len(reqs) < MaxRequirements
  /\ \A x \in Range(values) : /\ Fits(x.value, size)
                              /\ x.form = "null" => x.value = 0
                              /\ IF pointer THEN x.form = "global" <=> x.value \in Address ELSE x.form # "global"
  /\ pointer => comparator \notin Ordering
  /\ reqs' = Append(reqs, [comparator |-> comparator, values |-> values])
  /\ UNCHANGED <<size, pointer, asserts, sites, calls, verdict>>

-----------------------------------------------------------------------------
(* The static verdict.  Constant casts to a pointer are undone, and so is  *)
(* passing by reference: the last number stored to an address is taken for *)
(* the argument.                                                           *)
Resolved(site) ==
  IF site.form = "assigned" THEN Number(site.stored) ELSE [form |-> site.form, value |-> site.value]

(* The comparisons on the integers themselves.                             *)
Compare(comparator, value, n) ==
  CASE comparator \in {"EQ", "EXEQ"} -> value = n
    [] comparator = "NEQ"  -> value # n
    [] comparator = "GTEQ" -> value >= n
    [] comparator = "GT"   -> value > n
    [] comparator = "LTEQ" -> value <= n
    [] comparator = "LT"   -> value < n

(* Two numbers.  Contracts write integers of 64 bits, and LLVM asserts     *)
(* that integers it orders are of one width.                               *)
compareCI_inclusive(comparator, value, n) ==   \* greater and less allow equality
  IF comparator = "EXEQ" THEN IF value = n THEN "FULFILLED" ELSE Unknown
  ELSE IF asserts /\ comparator \in Ordering THEN "ABORTED"
  ELSE IF Compare(comparator, value, n) \/ (comparator \in {"GT", "LT"} /\ value = n) THEN Unknown ELSE "BROKEN"
compareCI(comparator, value, n) ==
  IF comparator = "EXEQ" THEN IF value = n THEN "FULFILLED" ELSE Unknown
  ELSE IF asserts /\ comparator \in Ordering THEN "ABORTED"
  ELSE IF Compare(comparator, value, n) THEN Unknown ELSE "BROKEN"

(* A pointer matches what is the same constant of the IR.                  *)
comparePointers(comparator, arg, x) ==
  CASE comparator = "EXEQ" -> IF arg = x THEN "FULFILLED" ELSE Unknown
    [] comparator = "NEQ"  -> IF arg = x THEN "BROKEN" ELSE "FULFILLED"
    [] comparator = "EQ"   -> IF arg = x THEN "FULFILLED" ELSE "BROKEN"

(* One value: pointers against anything, numbers against numbers only.     *)
checkValue(comparator, arg, x) ==
  IF pointer /\ arg.form # "number" THEN comparePointers(comparator, arg, x)
  ELSE IF arg.form = "number" /\ x.form = "number" THEN compareCI(comparator, arg.value, x.value)
  ELSE Unknown

(* The first value that is not undetermined decides.                       *)
checkParamReq(r, site) ==
  LET found(i) == checkValue(r.comparator, Resolved(site), r.values[i])
      known    == {i \in DOMAIN r.values : found(i) # Unknown}
      first    == CHOOSE i \in known : \A j \in known : i <= j
  IN  IF known = {} THEN Unknown ELSE found(first)

(* The pairs of call site and requirement are visited in order, up to the  *)
(* first that is broken or exempt; only a requirement that exempts goes on *)
(* to the next one when it is not met.                                     *)
Decisive_broken(i, j) == checkParamReq(reqs[j], sites[i]) \in {"BROKEN", "ABORTED"}   \* exemptions have no effect
Decisive(i, j) ==
  LET f == checkParamReq(reqs[j], sites[i])
  IN  f \in {"BROKEN", "ABORTED"} \/ (f = "FULFILLED" /\ reqs[j].comparator = "EXEQ")

decisivePairs == {p \in (DOMAIN sites) \X (DOMAIN reqs) : Decisive(p[1], p[2])}
firstPair ==
  LET pairs == decisivePairs
  IN  CHOOSE p \in pairs : \A q \in pairs : p[1] < q[1] \/ (p[1] = q[1] /\ p[2] <= q[2])
StaticOutcome ==
  LET first == firstPair
      f     == checkParamReq(reqs[first[2]], sites[first[1]])
  IN  IF decisivePairs # {} /\ f \in {"BROKEN", "ABORTED"} THEN f ELSE "FULFILLED"

-----------------------------------------------------------------------------
(* The run.  The database has one requirement for each value.              *)
RequirementsOf(r) ==
  [i \in DOMAIN r.values |-> [comparator |-> r.comparator, value |-> getIntToPtr(r.values[i].value),
                             isArg |-> FALSE, reqval_need_deref |-> FALSE]]
Database == FlattenSeq([i \in DOMAIN reqs |-> RequirementsOf(reqs[i])])

(* The verdict of the analysis on the call from one site.                  *)
Outcome(site) ==
  ParamOnCall(
    [supplier |-> "f", idx |-> 1, size |-> size, callval_need_deref |-> FALSE, reqs |-> Database],
    ParamInit, "f", [params |-> <<anyValToPtr(site.value, size)>>], <<>>).verdict

(* A verdict removes the analysis, so that no later call is looked at.     *)
Call_again(i) ==
  /\ StaticOutcome # "ABORTED" /\ Len(calls) < MaxCalls
  /\ calls' = Append(calls, i) /\ verdict' = Outcome(sites[i])
  /\ UNCHANGED <<size, pointer, asserts, sites, reqs>>
Call(i) ==
  /\ StaticOutcome # "ABORTED" /\ Len(calls) < MaxCalls
  /\ calls' = Append(calls, i)
  /\ verdict' = IF verdict = Unknown THEN Outcome(sites[i]) ELSE verdict
  /\ UNCHANGED <<size, pointer, asserts, sites, reqs>>

ParamNext ==
  \/ \E comparator \in Comparator, values \in {<<Number(n)>> : n \in Sample} \cup Named :
       AddRequirement(comparator, values)
  \/ \E i \in DOMAIN sites : Call(i)
ParamSpec == ParamInputs /\ [][ParamNext]_pvars

-----------------------------------------------------------------------------
(* The same on the integers: what a requirement exempts or forbids.        *)
Exempts(j, v) == reqs[j].comparator = "EXEQ" /\ \E x \in Range(reqs[j].values) : v = x.value
Fails(j, v) == /\ reqs[j].comparator # "EXEQ"
               /\ \E x \in Range(reqs[j].values) : ~Compare(reqs[j].comparator, v, x.value)
Exempt(v)    == \E j \in DOMAIN reqs : Exempts(j, v)
Forbidden(v) == \E j \in DOMAIN reqs : Fails(j, v)
Passed(p)    == sites[calls[p]].value

(* The first call whose argument is exempt or forbidden.                   *)
Deciding(p) == /\ Exempt(Passed(p)) \/ Forbidden(Passed(p))
               /\ \A q \in 1..(p - 1) : ~Exempt(Passed(q)) /\ ~Forbidden(Passed(q))

(* Zeros of the other kind: null for an integer, 0 for a pointer.          *)
MixedZeros ==
  \E j \in DOMAIN reqs : \E x \in Range(reqs[j].values) : x = IF pointer THEN Number(0) ELSE Null
NegativeEquality ==
  size # PointerSize /\ \E j \in DOMAIN reqs : reqs[j].comparator = "EQ" /\ \E x \in Range(reqs[j].values) : x.value < 0

(* Over all orders of the calls, the first one whose argument is forbidden *)
(* or exempt decides: it is violated if the argument is forbidden only,    *)
(* dropped if it is exempt only, and either of them if it is both; later   *)
(* calls change nothing.  So widening an argument with zeros and a         *)
(* constant with ones does not show.  Equality with a negative number is   *)
(* left out: EQ compares the pointers, too, and a narrow -1 is not the     *)
(* pointer that the constant -1 is.                                        *)
ParamMeaning ==
  ~NegativeEquality =>
    /\ verdict = Unknown     => \A p \in DOMAIN calls : ~Deciding(p)
    /\ verdict = "VIOLATED"  => \E p \in DOMAIN calls : Deciding(p) /\ Forbidden(Passed(p))
    /\ verdict = "FULFILLED" => \E p \in DOMAIN calls : Deciding(p) /\ Exempt(Passed(p))

(* Who is told BROKEN at compile time is told VIOLATED when the call is    *)
(* made (ContractVerifierParam::run), unless an exempt call was made       *)
(* before, which dropped the analysis.  Three alarms are left out: on a    *)
(* number that was only stored behind the pointer, on a pointer that is    *)
(* another constant than the required one, and on a zero, exempt in the    *)
(* form that the compiler does not take for one.                           *)
Alarmed(i) == StaticOutcome = "BROKEN" /\ firstPair[1] = i
StaticAlarmConfirmed ==
  \A p \in DOMAIN calls : LET site == sites[calls[p]] IN
    /\ site.form # "assigned" /\ ~MixedZeros /\ Alarmed(calls[p])
    /\ pointer /\ site.form # "number" => reqs[firstPair[2]].comparator # "EQ"
    => verdict = "VIOLATED" \/ \E q \in 1..(p - 1) : Exempt(Passed(q))

(* Conversely, a call that passes a constant integer and is told VIOLATED  *)
(* was announced at compile time, unless some call site passes an exempt   *)
(* constant: that one ends the loop over the call sites, wherever it is in *)
(* LLVM's list and in the run.                                             *)
ConstantViolationsAnnounced ==
  ~pointer /\ ~MixedZeros /\ ~NegativeEquality /\ verdict = "VIOLATED" =>
    \A p \in DOMAIN calls :
      Deciding(p) /\ sites[calls[p]].form = "number" =>
        \/ StaticOutcome # "FULFILLED"
        \/ \E i \in DOMAIN sites : sites[i].form = "number" /\ Exempt(sites[i].value)

-----------------------------------------------------------------------------
(* What the comments say and the code does not do.  The exception          *)
(* overrides forbidden values (ParamAnalysis.cpp:34): no violation without *)
(* an argument that is forbidden and not exempt.                           *)
ExceptionOverrides ==
  ~NegativeEquality /\ verdict = "VIOLATED" =>
    \E p \in DOMAIN calls : Forbidden(Passed(p)) /\ ~Exempt(Passed(p))

(* The check is performed on each call site (ContractVerifierParam.cpp:57) *)
(* so that a constant integer that is forbidden, and told VIOLATED when it *)
(* is passed, was announced.                                               *)
EachCallsiteChecked ==
  ~pointer /\ ~MixedZeros /\ ~NegativeEquality /\ verdict = "VIOLATED" =>
    \A p \in DOMAIN calls :
      Deciding(p) /\ sites[calls[p]].form = "number" => StaticOutcome # "FULFILLED"
=============================================================================
