---------------------------- MODULE IPNetsProofs ----------------------------
(***************************************************************************)
(* What the operations on sets of IP networks compute.                     *)
(***************************************************************************)
EXTENDS IPNets, TLAPS

\* ParseIPNets of at least one string returns no network exactly if one of the
\* strings is none: Lifecycle takes the empty set for the error.
THEOREM EmptyMeansInvalid ==
  ASSUME NEW specs \in SUBSET Strings, specs # {}
  PROVE  ParseIPNets(specs) = {} <=> \E s \in specs : ParseCIDR[s] = Invalid
<1>1. CASE \E s \in specs : ParseCIDR[s] = Invalid
  BY <1>1 DEF ParseIPNets
<1>2. CASE ~\E s \in specs : ParseCIDR[s] = Invalid
  <2>1. PICK s \in specs : TRUE
    OBVIOUS
  <2>2. ParseCIDR[s] \in ParseIPNets(specs)
    BY <1>2 DEF ParseIPNets
  <2> QED BY <1>2, <2>2
<1> QED BY <1>1, <1>2

============================================================================
