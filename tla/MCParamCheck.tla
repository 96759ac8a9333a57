----------------------------- MODULE MCParamCheck -----------------------------
(***************************************************************************)
(* Integers of 3 and 6 bits in pointers of 6: zero and its neighbours, a   *)
(* global variable and names for two values.                               *)
(***************************************************************************)
EXTENDS ParamCheck

Few        == {-1, 0, 3}
FewAddress == {-1}
FewNames   == {<<Number(0), Number(3)>>, <<Global(-1), Null>>}
=============================================================================
