------------------------- MODULE SubnetMatchProofs -------------------------
(***************************************************************************)
(* What the matchers and the options of the query choose, for every set of *)
(* names, tags, patterns, lists of tags and subnets.                       *)
(***************************************************************************)
EXTENDS SubnetMatch, WellFoundedInduction, TLAPS

\* The first of some indices is one of them.
LEMMA FirstIsMember ==
  ASSUME NEW S \in SUBSET Nat, S # {}
  PROVE  Min(S) \in S
<1> DEFINE R == OpToRel(<, Nat)
<1>1. IsWellFoundedOn(R, Nat)
  BY NatLessThanWellFounded
<1>2. \A x, y \in Nat : x < y => <<x, y>> \in R
  BY DEF OpToRel
<1> HIDE DEF R
<1>3. PICK x \in S : \A y \in S : ~(<<y, x>> \in R)
  BY <1>1, WFMin
<1>4. \A y \in S : x <= y
  <2> SUFFICES ASSUME NEW y \in S, ~(x <= y) PROVE FALSE
    OBVIOUS
  <2>1. x \in Nat /\ y \in Nat
    OBVIOUS
  <2>2. y < x
    BY <2>1
  <2> QED BY <1>2, <1>3, <2>1, <2>2
<1> QED BY <1>4 DEF Min

(***************************************************************************)
(* The matchers and the query.                                             *)
(***************************************************************************)

\* The subnets that the tags of the specification describe.
Tagged == {s \in Subnets : TagsFit(s)}

\* subnetNameMatcher takes the subnets whose name the pattern matches or, if it
\* is negated, does not match, apart from those without a name.
LEMMA NameMatcher ==
  ASSUME NEW p \in [not : BOOLEAN, pat : Patterns], NEW s \in Subnets,
         s.name # Empty
  PROVE  s \in subnetNameMatcher(p) <=> (s.name \in p.pat) # p.not
<1>1. p.not \in BOOLEAN
  OBVIOUS
<1>2. s \in regexpNameMatcher(p.pat) <=> s.name \in p.pat
  BY DEF regexpNameMatcher, FindString
<1>3. s \in subnetNameMatcher(p) <=>
        IF p.not THEN ~(s.name \in p.pat) ELSE s.name \in p.pat
  BY <1>2 DEF subnetNameMatcher, negate
<1> QED BY <1>1, <1>3

\* The loop over the tags, which ends at the first one that decides, computes
\* whether all, or any, of the tags are there.
LEMMA TagMatcher ==
  ASSUME spec \in Specs, spec.tags # None
  PROVE  subnetTagMatcher(spec.tags) = Tagged
<1> DEFINE t == spec.tags
<1>0. t \in [not : BOOLEAN, all : BOOLEAN, list : TagLists]
  BY DEF Specs
<1>1. t.not \in BOOLEAN /\ t.all \in BOOLEAN /\ t.list \in Seq(Tags)
  BY <1>0, TagListsAssumption
<1> SUFFICES ASSUME NEW s \in Subnets
             PROVE  s \in subnetTagMatcher(t) <=> TagsFit(s)
  BY DEF subnetTagMatcher, Tagged
<1> DEFINE found(i) == t.list[i] \in s.tags
           decided == {i \in DOMAIN t.list : found(i) # t.all}
           Says == CASE decided = {} -> tagsExhausted(t)
                     [] decided # {} /\ found(Min(decided)) -> ~t.not
                     [] OTHER -> t.not
           Fit == IF t.all THEN Range(t.list) \subseteq s.tags
                  ELSE Range(t.list) \intersect s.tags # {}
<1>2. s \in subnetTagMatcher(t) <=> Says
  BY DEF subnetTagMatcher
<1>3. TagsFit(s) <=> Fit # t.not
  BY DEF TagsFit
<1>4. Range(t.list) = {t.list[i] : i \in DOMAIN t.list}
  BY DEF Range
<1>5. CASE decided = {}
  <2>1. \A i \in DOMAIN t.list : found(i) <=> t.all
    BY <1>1, <1>5
  <2>2. Fit <=> t.all
    BY <1>4, <2>1
  <2>3. Says <=> (t.not # t.all)
    BY <1>5 DEF tagsExhausted
  <2> QED BY <1>1, <1>2, <1>3, <2>2, <2>3
<1>6. CASE decided # {}
  <2>1. Min(decided) \in decided
    <3>1. decided \in SUBSET Nat
      BY <1>1
    <3> HIDE DEF decided
    <3> QED BY <1>6, <3>1, FirstIsMember
  <2>2. PICK i \in DOMAIN t.list : i = Min(decided) /\ found(i) # t.all
    BY <2>1
  <2>3. found(i) <=> ~t.all
    BY <1>1, <2>2
  <2>4. Says <=> IF t.all THEN t.not ELSE ~t.not
    BY <1>6, <2>2, <2>3
  <2>5. Fit <=> ~t.all
    BY <1>4, <2>3
  <2> HIDE DEF Says, Fit
  <2> QED BY <1>1, <1>2, <1>3, <2>4, <2>5
<1> QED BY <1>5, <1>6

\* Neutron's answer to the options of tweakListOpts is what the tags describe,
\* unless several tags are negated.
LEMMA QueryByTags ==
  ASSUME spec \in Specs, have \subseteq Subnets, Plain
  PROVE  Listed = have \intersect Tagged
<1>1. CASE spec.tags = None
  BY <1>1 DEF Listed, Tagged, TagsFit
<1>2. CASE spec.tags # None
  <2> DEFINE t == spec.tags
             tags == Range(t.list)
             all == {s \in have : tags \subseteq s.tags}
             any == {s \in have : tags \intersect s.tags # {}}
  <2>1. t \in [not : BOOLEAN, all : BOOLEAN, list : TagLists]
    BY <1>2 DEF Specs
  <2>2. t.not \in BOOLEAN /\ t.all \in BOOLEAN /\ t.list \in Seq(Tags)
    BY <2>1, TagListsAssumption
  <2>3. Listed = IF t.all THEN IF t.not THEN have \ any ELSE all
                 ELSE IF t.not THEN have \ all ELSE any
    BY <1>2, <2>2 DEF Listed, tweakListOpts
  <2>4. t.not => any = all
    <3> SUFFICES ASSUME t.not PROVE any = all
      OBVIOUS
    <3>1. Len(t.list) = 1
      BY <1>2 DEF Plain
    <3>2. tags = {t.list[1]}
      BY <2>2, <3>1 DEF Range
    <3> QED BY <3>2
  <2>5. have \intersect Tagged =
          {s \in have : (IF t.all THEN tags \subseteq s.tags
                         ELSE tags \intersect s.tags # {}) # t.not}
    BY <1>2 DEF Tagged, TagsFit
  <2> HIDE DEF t, tags
  <2> QED BY <2>2, <2>3, <2>4, <2>5
<1> QED BY <1>1, <1>2

(***************************************************************************)
(* ListSubnetsForNetwork.                                                  *)
(***************************************************************************)

\* What the function returns for a specification and a network.
Chosen == IF MatcherFails \/ Listed = {} THEN {}
          ELSE IF Matcher(FALSE) = None THEN Listed
          ELSE Listed \intersect Matcher(FALSE)

ListInv == /\ spec \in Specs /\ have \subseteq Subnets
           /\ list # None => list = Chosen

\* ListInv is inductive.
LEMMA ListInvHolds == Spec => []ListInv
<1>1. Init => ListInv
  BY DEF Init, ListInv, kSubset
<1>2. ListInv /\ [Next]_vars => ListInv'
  <2> SUFFICES ASSUME ListInv, [Next]_vars PROVE ListInv'
    OBVIOUS
  <2>1. UNCHANGED <<spec, have>> => Chosen' = Chosen
    BY DEF Chosen, MatcherFails, MatcherConfigured, Listed, Matcher
  <2>2. CASE ListSubnetsForNetwork
    <3>1. list' = Chosen /\ UNCHANGED <<spec, have>>
      BY <2>2 DEF ListSubnetsForNetwork, Chosen
    <3> QED BY <2>1, <3>1 DEF ListInv
  <2>3. CASE UNCHANGED vars
    BY <2>1, <2>3 DEF vars, ListInv
  <2> QED BY <2>2, <2>3 DEF Next
<1> QED BY <1>1, <1>2, PTL DEF Spec

\* The matchers for the name and for the tags are not nil.
LEMMA Matchers ==
  /\ Subnets # None /\ Tagged # None
  /\ \A p : subnetNameMatcher(p) \subseteq Subnets
            /\ subnetNameMatcher(p) # None
  /\ \A a, b : a \subseteq Subnets => a \intersect b # None
BY NilMatcherAssumption
   DEF Tagged, subnetNameMatcher, regexpNameMatcher, negate

\* What is applied in memory to the answer of the query: the name only.
LEMMA MatcherByName ==
  ASSUME MatcherConfigured
  PROVE  Matcher(FALSE) = IF spec.subnet = None THEN Subnets
                          ELSE subnetNameMatcher(spec.subnet)
BY Matchers DEF Matcher, andMatcher

\* What would be applied in memory without the query: the name and the tags.
LEMMA MatcherByBoth ==
  ASSUME MatcherConfigured, spec \in Specs
  PROVE  Matcher(TRUE) = Matcher(FALSE) \intersect Tagged
<1>1. Tagged \subseteq Subnets /\ Matcher(FALSE) \subseteq Subnets
  BY Matchers, MatcherByName DEF Tagged
<1>2. CASE spec.tags = None
  <2>1. Tagged = Subnets
    BY <1>2 DEF Tagged, TagsFit
  <2>2. Matcher(TRUE) = Matcher(FALSE)
    BY <1>2 DEF Matcher
  <2> QED BY <1>1, <2>1, <2>2
<1>3. CASE spec.tags # None
  <2>1. subnetTagMatcher(spec.tags) = Tagged
    BY <1>3, TagMatcher
  <2>2. CASE spec.subnet = None
    BY <1>1, <1>3, <2>1, <2>2, Matchers, MatcherByName DEF Matcher, andMatcher
  <2>3. CASE spec.subnet # None
    BY <1>3, <2>1, <2>3, Matchers, MatcherByName DEF Matcher, andMatcher
  <2> QED BY <2>2, <2>3
<1> QED BY <1>2, <1>3

\* A specification that is not an id and has no matcher wants every subnet.
LEMMA NotConfigured ==
  ASSUME Plain, ~MatcherConfigured
  PROVE  spec.subnet = None /\ spec.tags = None /\ Matcher(FALSE) = None
BY DEF Plain, MatcherConfigured, Matcher

\* Filtering by the tags in the query of ListSubnetsForNetwork gives exactly
\* what filtering by them in memory would, for lists of any length; of several
\* negated tags, which Neutron reads the other way round, nothing is said.
THEOREM QueryAgreesWithMatcherHolds == Spec => []QueryAgreesWithMatcher
<1>1. ListInv => QueryAgreesWithMatcher
  <2> SUFFICES ASSUME ListInv, list # None, Plain, ~MatcherFails,
                      MatcherConfigured
               PROVE  list = have \intersect Matcher(TRUE)
    BY DEF QueryAgreesWithMatcher
  <2>1. Listed = have \intersect Tagged
    BY QueryByTags DEF ListInv
  <2>2. Matcher(TRUE) = Matcher(FALSE) \intersect Tagged
    BY MatcherByBoth DEF ListInv
  <2>3. Matcher(FALSE) # None
    BY MatcherByName, Matchers
  <2>4. list = Listed \intersect Matcher(FALSE)
    BY <2>3 DEF ListInv, Chosen
  <2> QED BY <2>1, <2>2, <2>4
<1> QED BY <1>1, ListInvHolds, PTL

\* ListSubnetsForNetwork returns exactly the named subnets that the
\* specification describes, and nothing for one that is invalid.
THEOREM ListedAsSpecifiedHolds == Spec => []ListedAsSpecified
<1>1. ListInv => ListedAsSpecified
  <2> SUFFICES ASSUME ListInv, list # None, Plain
               PROVE  {s \in list : s.name # Empty} =
                        IF MatcherFails THEN {}
                        ELSE {s \in have : s.name # Empty /\ NameFits(s)
                                           /\ TagsFit(s)}
    BY DEF ListedAsSpecified
  <2>1. have \subseteq Subnets /\ spec \in Specs /\ list = Chosen
    BY DEF ListInv
  <2>2. CASE MatcherFails
    BY <2>1, <2>2 DEF Chosen
  <2>3. CASE ~MatcherFails
    <3>1. Listed = have \intersect Tagged
      BY <2>1, QueryByTags
    <3>2. CASE ~MatcherConfigured
      <4>1. spec.subnet = None /\ spec.tags = None /\ Matcher(FALSE) = None
        BY <3>2, NotConfigured
      <4>2. list = Listed
        BY <2>1, <2>3, <4>1 DEF Chosen
      <4> QED BY <2>1, <2>3, <3>1, <4>1, <4>2 DEF NameFits, Tagged
    <3>3. CASE MatcherConfigured
      <4>1. Matcher(FALSE) # None
        BY <3>3, MatcherByName, Matchers
      <4>2. list = Listed \intersect Matcher(FALSE)
        BY <2>1, <2>3, <4>1 DEF Chosen
      <4>3. ASSUME NEW s \in Subnets, s.name # Empty
            PROVE  s \in Matcher(FALSE) <=> NameFits(s)
        <5>1. CASE spec.subnet = None
          BY <3>3, <5>1, MatcherByName DEF NameFits
        <5>2. CASE spec.subnet # None
          <6>1. spec.subnet \in [not : BOOLEAN, pat : Patterns]
            BY <2>1, <5>2 DEF Specs
          <6> QED BY <3>3, <4>3, <5>2, <6>1, MatcherByName, NameMatcher
              DEF NameFits
        <5> QED BY <5>1, <5>2
      <4> QED BY <2>1, <2>3, <3>1, <4>2, <4>3 DEF Tagged
    <3> QED BY <3>2, <3>3
  <2> QED BY <2>2, <2>3
<1> QED BY <1>1, ListInvHolds, PTL

============================================================================
