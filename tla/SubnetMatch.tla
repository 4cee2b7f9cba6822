---------------------------- MODULE SubnetMatch ----------------------------
(***************************************************************************)
(* The choice of subnets by floatingSubnetSpec.  A matcher is the set of   *)
(* subnets it is true of; None is the nil matcher.  A pattern is the set   *)
(* of names that it matches as a whole, or Invalid if it does not compile. *)
(* Patterns with alternatives of which one begins another are left out.    *)
(*                                                                         *)
(* AttachFloatingIP asks with an empty specification only.                 *)
(***************************************************************************)
EXTENDS Integers, Sequences, FiniteSets, FiniteSetsExt, Functions

CONSTANTS Names, Empty,     \* names of subnets, and the empty string
          Tags,
          Patterns, Invalid,
          TagLists,         \* lists of tags that a specification can give
          MaxSubnets,       \* bound on the subnets of the network
          None

ASSUME NamesAssumption == Empty \notin Names
ASSUME PatternsAssumption == Patterns \subseteq (SUBSET Names) \union {Invalid}
ASSUME TagListsAssumption == TagLists \subseteq Seq(Tags) \ {<< >>}

VARIABLES spec,     \* the floatingSubnetSpec
          have,     \* the subnets of the network
          list      \* what ListSubnetsForNetwork returned

vars == <<spec, have, list>>

Subnets == [name : Names \union {Empty}, tags : SUBSET Tags]

ASSUME NilMatcherAssumption == \A m \in SUBSET Subnets : m # None

Specs ==
  [id : BOOLEAN,
   subnet : [not : BOOLEAN, pat : Patterns] \union {None},
   tags : [not : BOOLEAN, all : BOOLEAN, list : TagLists] \union {None}]

----------------------------------------------------------------------------

andMatcher(a, b) ==
  IF a = None THEN b ELSE IF b = None THEN a ELSE a \intersect b

\* regexp.FindString: the first match, and "" if there is none.
FindString(r, name) == IF name \in r THEN name ELSE Empty

regexpNameMatcher(r) == {s \in Subnets : FindString(r, s.name) = s.name}

\* Mutant: as it is.
negate_Not(m) == m

negate(m) == Subnets \ m

subnetNameMatcher(p) ==
  IF p.not THEN negate(regexpNameMatcher(p.pat)) ELSE regexpNameMatcher(p.pat)

\* Mutant: the end of the loop is a match, unless it is negated.
tagsExhausted_Match(t) == ~t.not

\* No tag of the list decided.
tagsExhausted(t) == t.not # t.all

\* The loop ends at the first tag that decides: one that is found if any tag
\* is enough, one that is not if all are required.
subnetTagMatcher(t) ==
  {s \in Subnets :
     LET found(i) == t.list[i] \in s.tags
         decided == {i \in DOMAIN t.list : found(i) # t.all}
     IN  CASE decided = {} -> tagsExhausted(t)
           [] decided # {} /\ found(Min(decided)) -> ~t.not
           [] OTHER -> t.not}

MatcherConfigured == ~spec.id /\ (spec.subnet # None \/ spec.tags # None)

\* The pattern of the name does not compile.
MatcherFails ==
  MatcherConfigured /\ spec.subnet # None /\ spec.subnet.pat = Invalid

Matcher(tag) ==
  LET byName == IF spec.subnet = None THEN None
                                      ELSE subnetNameMatcher(spec.subnet)
      byTags == IF tag /\ spec.tags # None THEN subnetTagMatcher(spec.tags)
                                           ELSE None
      match == andMatcher(byName, byTags)
  IN  IF ~MatcherConfigured THEN None
      ELSE IF match = None THEN Subnets ELSE match

\* The option of the list call that carries the tags.
tweakListOpts(t) ==
  IF t.all THEN IF t.not THEN "not-tags-any" ELSE "tags"
           ELSE IF t.not THEN "not-tags" ELSE "tags-any"

\* Neutron's answer (external).  "not-tags" excludes the subnets with all of
\* the tags, "not-tags-any" those with any.
Listed ==
  IF spec.tags = None THEN have
  ELSE LET tags == Range(spec.tags.list)
           opt == tweakListOpts(spec.tags)
           all == {s \in have : tags \subseteq s.tags}
           any == {s \in have : tags \intersect s.tags # {}}
       IN  CASE opt = "tags" -> all
             [] opt = "tags-any" -> any
             [] opt = "not-tags" -> have \ all
             [] opt = "not-tags-any" -> have \ any

\* No subnet at all is an error of the list call; none that matches is an empty
\* list, which AttachFloatingIP answers with an error.
ListSubnetsForNetwork ==
  /\ list = None
  /\ list' = IF MatcherFails \/ Listed = {} THEN {}
             ELSE IF Matcher(FALSE) = None THEN Listed
             ELSE Listed \intersect Matcher(FALSE)
  /\ UNCHANGED <<spec, have>>

Init ==
  /\ spec \in Specs
  /\ \E n \in 0 .. MaxSubnets : have \in kSubset(n, Subnets)
  /\ list = None

Next == ListSubnetsForNetwork

Spec == Init /\ [][Next]_vars

----------------------------------------------------------------------------
(* Properties.                                                             *)

\* A specification by an id is left to the caller.  Neutron reads the options
\* for several negated tags the other way round than tweakListOpts.
Plain ==
  ~spec.id /\ (spec.tags # None /\ spec.tags.not => Len(spec.tags.list) = 1)

\* What the comments of the code say that a specification stands for.
NameFits(s) ==
  spec.subnet = None \/ (s.name \in spec.subnet.pat) # spec.subnet.not
TagsFit(s) ==
  \/ spec.tags = None
  \/ (IF spec.tags.all THEN Range(spec.tags.list) \subseteq s.tags
      ELSE Range(spec.tags.list) \intersect s.tags # {}) # spec.tags.not

\* The name filter in memory and the tag filter in the query together choose
\* exactly the subnets that the specification describes, and none at all if it
\* is invalid.  A subnet without a name is left aside: FindString returns ""
\* for no match, so every pattern takes it for one.
ListedAsSpecified ==
  list # None /\ Plain =>
    {s \in list : s.name # Empty} =
      IF MatcherFails THEN {}
      ELSE {s \in have : s.name # Empty /\ NameFits(s) /\ TagsFit(s)}

\* Filtering by the tags in the query gives what filtering by them in memory
\* would give: tweakListOpts "can be used to optimize a subnet list query".
QueryAgreesWithMatcher ==
  list # None /\ Plain /\ ~MatcherFails /\ MatcherConfigured =>
    list = have \intersect Matcher(TRUE)

============================================================================
