--------------------------- MODULE MCHealthCheck ---------------------------
(***************************************************************************)
(* One spec that is served and one that is refused.                        *)
(***************************************************************************)
EXTENDS HealthCheck, TLC
CONSTANTS worker, any, bad

MCParseCIDR == (worker :> 1) @@ (any :> 2) @@ (bad :> Invalid)
MCSpecs == {[private |-> FALSE, allow |-> NoList],
            [private |-> TRUE, allow |-> {bad}]}
============================================================================
