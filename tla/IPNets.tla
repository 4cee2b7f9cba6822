------------------------------- MODULE IPNets -------------------------------
(***************************************************************************)
(* The set of IP networks of ipnet.go.  The code keeps a Go map from the   *)
(* canonical string of a network to the network; two strings of one        *)
(* network have the same canonical string, so here it is a set of networks.*)
(***************************************************************************)
EXTENDS Integers, FiniteSets, Functions

CONSTANTS Strings,    \* what users and the shoot's configuration can say
          Nets,       \* IP networks
          Invalid,    \* no network
          ParseCIDR   \* strings.TrimSpace and net.ParseCIDR

ASSUME ParseAssumption == ParseCIDR \in [Strings -> Nets \union {Invalid}]
ASSUME StringsAssumption == IsFiniteSet(Strings)

\* The networks of a list of strings.  One bad string is an error, and then
\* the result is nil.
ParseIPNets(specs) ==
  IF \E s \in specs : ParseCIDR[s] = Invalid
  THEN {}
  ELSE {ParseCIDR[s] : s \in specs}

\* The slices that iterating over the Go map can produce.
StringSlice(ipnets) ==
  {s \in [1 .. Cardinality(ipnets) -> ipnets] : Range(s) = ipnets}

============================================================================
