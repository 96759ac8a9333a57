---------------------------- MODULE ContractMonitor ----------------------------
(***************************************************************************)
(* What the dynamic analyser promises about contracts, without saying how: *)
(* verdicts of operations are observed one at a time, and a contract scope *)
(* is reported if, and as soon as, the verdicts observed so far falsify    *)
(* it under the three-valued reading of its connectives.                   *)
(***************************************************************************)
EXTENDS Naturals

CONSTANTS Formula, NoFormula, formula_parents, conn, Observable

VARIABLES verdict, violated, closed
mvars == <<verdict, violated, closed>>

Roots     == {f \in Formula : formula_parents[f] = NoFormula}
Below     == [f \in Formula |-> {c \in Formula : formula_parents[c] = f}]

(* The value of a formula: "VIOLATED", "FULFILLED", or anything else while *)
(* it is open.  An operation that was never exercised stays open.          *)
Value[f \in Formula] ==
  LET ful == {c \in Below[f] : Value[c] = "FULFILLED"}
      vio == {c \in Below[f] : Value[c] = "VIOLATED"}
      Pick(v, w) == IF v THEN "VIOLATED" ELSE IF w THEN "FULFILLED" ELSE "OPEN"
  IN  CASE conn[f] = "AND" -> Pick(vio # {}, ful = Below[f])
        [] conn[f] = "OR"  -> Pick(vio = Below[f], ful # {})
        [] conn[f] = "XOR" -> Pick(vio = Below[f] \/ \E a, b \in ful : a # b,
                                   ful # {} /\ ful \cup vio = Below[f])
        [] OTHER           -> verdict[f]

Falsified == {r \in Roots : Value[r] = "VIOLATED"}

MInit ==
  /\ verdict = [l \in Observable |-> "ABSENT"]
  /\ violated = {}
  /\ closed = FALSE

Observe(l, v) ==
  /\ ~closed
  /\ verdict[l] = "ABSENT"
  /\ verdict' = [verdict EXCEPT ![l] = v]
  /\ UNCHANGED <<violated, closed>>
  /\ Falsified = violated

Report(r) ==
  /\ ~closed
  /\ violated' = violated \cup {r}
  /\ UNCHANGED <<verdict, closed>>
  /\ r \in Falsified \ violated

Close ==
  /\ ~closed
  /\ closed' = TRUE
  /\ UNCHANGED <<verdict, violated>>
  /\ Falsified = violated

MNext ==
  \/ \E l \in Observable, v \in {"FULFILLED", "VIOLATED", "INACTIVE"} : Observe(l, v)
  \/ \E r \in Roots : Report(r)
  \/ Close

MSpec == MInit /\ [][MNext]_mvars
=============================================================================
