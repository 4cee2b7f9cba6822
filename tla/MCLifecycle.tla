---------------------------- MODULE MCLifecycle ----------------------------
(***************************************************************************)
(* Two strings of one network, one string that is no network, the worker   *)
(* network and 0.0.0.0/0.                                                  *)
(***************************************************************************)
EXTENDS Lifecycle, TLC
CONSTANTS c1, c2, bad, worker, any

MCParseCIDR == (c1 :> 1) @@ (c2 :> 1) @@ (bad :> Invalid)
               @@ (worker :> 2) @@ (any :> 3)
Public == [private |-> FALSE, allow |-> NoList]
Private == [private |-> TRUE, allow |-> {c1, c2}]
MCSpecs == {Public, Private}
MCSpecsInvalid == {Public, Private, [private |-> TRUE, allow |-> {c1, bad}]}
Symmetry == Permutations(LBs) \union Permutations(Ports)
============================================================================
