--------------------------- MODULE MCFloatingIPs ---------------------------
(***************************************************************************)
(* Two subnets: f1 and f2 are in one, the other addresses in the other.    *)
(***************************************************************************)
EXTENDS FloatingIPs, TLC

CONSTANTS f1, f2, n1, n2

MCSubnetOf == [f \in FIPs |-> IF f \in {f1, f2} THEN n1 ELSE n2]

Symmetry == Permutations(Shoots)

============================================================================
