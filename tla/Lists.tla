--------------------------------- MODULE Lists ---------------------------------
(***************************************************************************)
(* What the lists and vectors of the dynamic analyser are put through: a   *)
(* loop that pushes back some of the elements it passes.  Filter takes the *)
(* set of the elements to keep, where SelectSeq takes a predicate, and is  *)
(* a recursive function: so there is something to prove about it.          *)
(***************************************************************************)
EXTENDS Integers, Sequences

Filter(s, keep) ==
  LET kept[n \in 0..Len(s)] ==
        IF n = 0 THEN <<>>
        ELSE IF s[n] \in keep THEN Append(kept[n - 1], s[n]) ELSE kept[n - 1]
  IN  kept[Len(s)]

Elements(s) == {s[i] : i \in 1..Len(s)}
Distinct(s) == \A i, j \in 1..Len(s) : s[i] = s[j] => i = j

(* All elements but the one at position i.                                 *)
Without(s, i) == SubSeq(s, 1, i - 1) \o SubSeq(s, i + 1, Len(s))
================================================================================
