---------------------------- MODULE MCRouteState ----------------------------
(***************************************************************************)
(* Small instances of RouteState for TLC.                                  *)
(***************************************************************************)
EXTENDS RouteState, TLC

Symmetry == Permutations(Sessions)
FewTimes == 1..2
=============================================================================
