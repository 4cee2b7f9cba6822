# Verification of gardener-extension-private-network

The extension gives a shoot cluster its own OpenStack load balancer in front of
the istio ingress of the seed: with a floating IP for a public cluster, without
one for a private cluster, and with listeners that admit only the source ranges
of the user. This directory has TLA+ models of the controller that manages the
load balancer, the TLC runs that check them, and proofs checked by TLAPS.

## The system

| Component | State | Operations | Correct when |
| --- | --- | --- | --- |
| Lifecycle actuator (`pkg/controller/lifecycle/actuator.go`) | the state in the Extension's status: cluster type, internal and external address | Reconcile, Delete, Restore (= Reconcile), Migrate (= Delete) | a reported success is true; nothing is left behind; every request is answered |
| Extension reconciler (vendored Gardener: `extensions/pkg/controller`, `pkg/controllerutils`) | finalizer, operation annotation, last operation, observed generation, work queue | the annotation wrapper, the choice of the operation, Processing / Success / Error, finalizers, event predicates | no operation is dropped but on account of the Cluster; the finalizer is held while anything exists |
| Load balancer helper (`pkg/helper/openstack.go`) | none of its own: it finds the load balancer by name | list by name, create, check listeners, delete, two waits | one load balancer per name; deleted before it is forgotten |
| Floating IP helper (`AttachFloatingIP`) | none of its own: the floating IPs of the project | find, detach, list free ones, attach, create in a subnet | a private VIP has no floating IP; the reported address is attached; the pool stays bounded |
| Source ranges (`config.go`, `ipnet.go`) | - | the set of ranges for a spec, its slice | the listeners admit exactly that set |
| Global configuration (`config.go`, `cluster.go`) | - | reads the secret, the Cluster, the shoot's worker network | - |
| Subnet matchers (`openstack.go` 39-267) | - | list of the subnets of a network that fit a specification by name, pattern and tags | the filter in memory and the filter in the query together choose what was specified |
| Health check (`pkg/controller/healthcheck`, and the vendored reconciler around it) | a condition of the Extension | Check every 45 s, update of the status | the condition follows the load balancer; nothing else of the status changes |
| Manager (`cmd`, `add.go`) | - | flags, leader election, number of workers | - |
| Octavia, Neutron, gardenlet | external | provision, fail, fail over, monitor; associate; create, change, migrate and delete Extensions | - |

The gardenlet writes the Extension, which puts its key into the controller's
work queue. A worker takes the key, removes the `reconcile` annotation, chooses
the operation, adds the finalizer, patches the last operation to Processing and
calls the actuator. Every event and every run depend on the Cluster of the
shoot: while it cannot be read or says that the shoot has failed, events are
dropped; a run is retried in the first case and dropped in the second. The
actuator talks to Octavia and Neutron in some ten calls
and polls for up to minutes between them; it writes the state and the
reconciler patches the last operation to Succeeded or Error. An error is
retried with backoff. Several workers run different keys at a time, one process
leads, and its successor starts from what is in the API server.

The health check controller of the same process lists the same load balancer
every 45 seconds and writes the result into the same status, with an update of
the whole object instead of a patch.

What is hard here: every call can fail, be served without an answer, or be the
last one before a crash; load balancers are found by name and in some statuses
not at all; Octavia works in the background and can fail long after it
accepted a call; the spec may change while a run works from its copy; and the
floating IPs are shared by all shoots without any lock. `PROJECT.json` lists
each of these hazards at its line.

## Modules

| Module | What it has |
| --- | --- |
| `Lifecycle` | one Extension: reconciler, actuator, its load balancers, failures, Octavia, gardenlet; properties |
| `IPNets` | the sets of IP networks of `ipnet.go`; extended by `Lifecycle` |
| `HealthCheck` | the health check controller; extends `Lifecycle` and composes with it |
| `FloatingIPs` | several shoots in `AttachFloatingIP`, call by call; properties |
| `VipContract` | the abstract specification of `AttachFloatingIP`, which `FloatingIPs` implements |
| `SubnetMatch` | the choice of subnets by a `floatingSubnetSpec` |
| `LifecycleProofs` | theorems about `Lifecycle`: types, no orphan, one load balancer |
| `LifecycleConfigProofs` | what a reported success of `Lifecycle` means |
| `LifecycleQueueProofs` | no operation of `Lifecycle` is forgotten |
| `FloatingIPsProofs`, `SubnetMatchProofs`, `IPNetsProofs`, `HealthCheckProofs` | theorems about the modules of these names |
| `MCLifecycle`, `MCHealthCheck`, `MCFloatingIPs`, `MCSubnetMatch` | the instances TLC checks |

A definition `X_Variant` in front of `X` is `X` with a plausible mistake; it is
used only to see that the properties notice.

### Lifecycle

One Extension is enough: the name of a load balancer comes from the Extension's
namespace and the work queue never runs one key twice at a time, so Extensions
meet only in the floating IPs.

State and code:

- `ex` is the Extension in the API server. `there`, `deleting` and `finalizer`
  are its metadata, `op` the `gardener.cloud/operation` annotation, `gen` and
  `obs` the generation and the observed generation, `lastOp` and `state` the
  status. `acked` stands for the timestamp annotation: the last operation is
  not older than the last request.
- `pc` is the next API call of the worker and `run` its local variables: the
  operation type, the spec and the generation of the object in hand, the load
  balancer, the slice `listenerAllowedCIDRs` (`want`), the listeners of the
  loop still to do (`todo`), and the operating status of the last Get.
- `lbs` is what Octavia has under the name. The VIP is identified with the load
  balancer's id. `oper` is ONLINE or anything that counts as unhealthy; `old`
  says that 15 minutes have passed since the creation; `fip` that the VIP has a
  floating IP; `acl` is the slice of allowed CIDRs of each listener. The order
  in it matters: the code compares slices.
- `late` holds create calls in flight whose sender is gone.
- `cluster` is what `GetCluster` and `IsFailed` say: `ok`, `failed` or
  `unreadable`. `missed` is a history variable that no action reads: since the
  key was last taken, an event or a run was dropped because of it.

Each call to an API server is one action, with the local computation around it.
The actions in the order of a Reconcile: `PickUp`, `Start`, `Processing`,
`GetLoadbalancerByName`, `CreateLoadBalancer`, `WaitCreated`, per listener
`CheckListener` and `WaitListener`, `AttachFloatingIP`, `UpdateStatus`,
`Success`; of a Delete: ..., `GetLoadbalancerByName`, `DeleteLoadbalancer`,
`WaitLoadbalancerDeleted`, `Success`, `RemoveFinalizers`; a Migrate adds
`RemoveAnnotation`, and so does a Restore. `Fail` is the way out of all of
them. The failures are `CallFails` (also a wait that times out), `AnswerLost`,
`PatchFails`, `ErrorPatchFails` and `Crash`. A panic is a `Crash`: the manager
does not recover panics.

The controller's two predicates are `Admit`: `UpdateFunc` or `CreateFunc` say
which events it wants, and `ShootNotFailedPredicate` (`ShootNotFailed`) drops
what it wants while the shoot has failed or its Cluster cannot be read. `Start`
asks for the Cluster again: an error of `GetCluster` is retried
(`ClusterError`), a failed shoot ends the run without one (`SkipFailed`). So an
Extension can be left with open work and no key; the lifecycle controller does
not watch the Cluster, and what brings the key back is the gardenlet
(`RequestAgain`), once the shoot is retried, or the next restart.

An Extension that is to be restored is created with the annotation
`wait-for-state`, which the wrapper leaves alone; the gardenlet writes the state
and replaces the annotation by `restore` (`RequestRestore`).

Four constants switch parts of the environment on: `DeletesMayFail` (Octavia
may end a deletion in ERROR), `LateCreates` (a POST may be served after its
sender crashed), `Impatient` (the gardenlet may change the spec during a run),
`ShootMayFail` (the shoot may fail, or its Cluster be unreadable).

Abstractions:

- Reads of the Extension are not stale. A conflict of an optimistic lock is a
  `PatchFails`.
- The calls at the start of Reconcile that only read (secret, istio services,
  flavor, networks, client set-up) may fail, which is `CallFails` at the next
  call.
- Of the calls in flight when the process dies only a POST can be served later.
  A DELETE or a PUT is served before the next leader lists anything, which is an
  `AnswerLost` before the crash, or never. A DELETE that is served after the
  next leader reported a success would break `AdvertisedIsLive`.
- A new load balancer has an id nothing remembers; when the finite set of ids
  is used up the create call is refused, like one that is over quota.
- An Extension is created again only when no worker has its key.
- `FloatingIPTaken` stands for all that other shoots can do.
- `AttachFloatingIP` is one step, as `VipContract` says; an attempt that
  attached and then failed is an `AnswerLost`.
- `StatusWritten` is a status that somebody else writes without changing what
  the lifecycle controller knows of it. `HealthCheck` shows that the health
  check does no more.

`IPNets` has the sets of ranges. A range comes from a string of the user or of
the shoot's worker network; `ParseCIDR` is a constant function from strings to
networks, where several strings can be one network (`10.0.0.1/8` and
`10.0.0.0/8`) and some are none. One that is none makes Reconcile fail before
it asks Octavia for anything (`RangesInvalid`), and does not stop Delete or
Migrate. `StringSlice` returns any order, as iterating over a Go map does.

### HealthCheck

The composition: every step of `Lifecycle` but `Crash` and `StatusWritten` is at
the same time an `Observe` of the health check, which says what of it is an event for the second
controller (a new generation, a deletion timestamp, creation) and whether it
makes the copy of the Extension that a check has in hand out of date. A change
of the Cluster is an event too; a Cluster that cannot be read is an error of
`Reconcile`, while a failed shoot is checked like any other. A crash
is a `Restart` of both controllers, and `StatusWritten` is what the update of
the condition implements. `Reconcile` reads the Extension and, unless
it is gone, deleted, migrated or hibernated, `PerformHealthCheck` lists the
load balancer; `UpdateExtensionConditions` writes the status as it was read
with a new condition, and is refused (`Conflict`) if the copy is not fresh.
`hread.fresh` stands for an equal resourceVersion. Time is left out: a key that
waits 45 seconds is in the queue.

Two things the model shows and no property complains about: "Progressing" comes
without a threshold and so is reported as False, so that an update of a
listener can turn the condition False for a period; and the key of an Extension
that is gone is put back for as long as the process lives.

### FloatingIPs

`fip` says of each address of the floating network whether it is not allocated,
free or on a shoot's VIP port. The code takes an address for available if it is
DOWN and has no port; Neutron sets the status some time after the port is gone.
With `StatusLags` an address that lost its port can be `leaving`, without a port
and not DOWN, until `Settle`. `run[s]` are the local variables of
`AttachFloatingIP`: `got` is `floatIP`, `seen` the rest of `availableIPs`,
`left` the subnets still to try. A PUT moves an address from whatever port has
it; a second floating IP on a port is refused; both are Neutron's behaviour.
The list of port forwardings of an address and its PUT are one step, since port
forwardings are fixed (`Forwarded`). The load balancers come and go by
`DeleteLoadbalancer` and `CreateLoadBalancer`, which stand for the rest of the
actuator. `ok` is the last operation. `Begin` takes the key and is at the call of
`AttachFloatingIP` at once; a crash between the removal of the annotation and
Processing, after which only the gardenlet asks again, is in `Lifecycle` and not
visible here.

`VipContract` is what the caller relies on: of each shoot only whether its VIP
has a floating IP, for what its worker was asked, and what was reported. One
step does what the spec asks, or the call fails. The refinement mapping
(`Vip`, `Calls`, `Said`) takes the locals of the call to "before" and "after"
(`Stage`): the call is over in the abstract
sense as soon as `floatIP` is set, although the loop over the free addresses
goes on and can still fail on the next one, since it has no break; and a
detach that is repeated is a step that does nothing. With several workers a
call may take the floating IP of another shoot (`MayLose`), with one it may
not.

The code detaches with an update that has no port in its body. gophercloud's
documentation asks for an empty string instead
(`floatingips/requests.go` line 140); Neutron takes a missing port as a
dissociation too, and this is what `Detached` does.

### SubnetMatch

A matcher is the set of subnets it is true of and a pattern the set of names
that it matches as a whole. A state is a specification and a network, and the
one step is `ListSubnetsForNetwork`. The reference (`NameFits`, `TagsFit`) is
written from the comments at the options and from the syntax of the lists.
`AttachFloatingIP` passes an empty specification, so this code has no effect
today. Three things a caller who changes that should know: a `subnetID` in the
specification is ignored here; a subnet without a name fits every pattern,
because `FindString` returns the empty string for no match; and for several
negated tags the options are swapped with respect to what Neutron documents
(`not-tags` excludes what has all of them, `not-tags-any` what has any). The
properties are restricted to the rest.

## Runs

| Run | Result | What it shows |
| --- | --- | --- |
| `lifecycle_safe` | pass | `TypeInv`, `NoOrphan`, `OneLoadBalancer`, `HealthyMeansConfigured`, `NothingForgotten` with a shoot that may fail and the other switches off |
| `lifecycle_faulty` | pass | `AdvertisedIsLive`, `PrivateNotExposed`, `NothingForgotten`, `SuccessMeansConfigured` with the other three switches on |
| `lifecycle_live` | pass | deletions, migrations and reconciliations complete, also after the shoot had failed |
| `fips_concurrent` | pass | `PrivateNotExposed`, `PoolBounded`, `RequestAnswered` and the refinement `ImplementsContract` with two workers |
| `fips_serial` | pass | `ReportedIsAttached` and `ImplementsContract` with one worker and `StatusLags` |
| `health` | pass | the refinement `ImplementsLifecycle`; `BrokenIsNoticed` and `RecoveredIsNoticed` |
| `subnets` | pass | `ListedAsSpecified`, `QueryAgreesWithMatcher` |
| `released_before_gone` | violated | a retried Delete releases the finalizer before the load balancer is gone |
| `two_load_balancers` | violated | with deletions that can fail, a second load balancer of the name blocks the Extension |
| `healthy_too_early` | violated | a spec that changes during a run is taken for observed |
| `spurious_update` | violated | listeners are rewritten because a map iterates in another order |
| `stolen_address` | violated | two workers attach the same floating IP |

The five violations are described with the lines they contradict under
`findings` in `PROJECT.json`.

Bounds. `lifecycle_safe` and `lifecycle_faulty`: two load balancer ids (enough
for an old one and its replacement; `OneLoadBalancer` is about two), two ports
(enough for a partial update; the third behaves alike), two specs (public with
the default range; private with a list of two strings of one network, whose
slice with the worker network has two orders), in `lifecycle_safe` a third one
with a range that is none, two failures and three requests (create, change and
delete, or create, migrate and restore). `lifecycle_faulty` leaves
`ShootMayFail` to `lifecycle_safe` to stay within minutes (with it: 7.5 million
states, no error). `lifecycle_live` has one port and two
requests, since liveness checking is slower. `two_load_balancers` needs a third
failure. `health`: one load balancer id and one port, since neither a second
one nor a partial update is anything else to the health check than an update;
one request, one failure of the lifecycle controller and two events (failed
calls of the health check, hibernation and wake-up). That the gardenlet deletes
or changes the Extension during a check is not in this instance; it is covered
by the theorem for `ImplementsLifecycle`, and by hand with two requests and
fewer events. `fips_concurrent`: two shoots, four addresses in two subnets, one
with port forwardings, two failures and three changes; `fips_serial` the same
with one worker, and with `StatusLags`. With two workers `StatusLags` breaks
`PoolBounded`, as it should: an address that is not DOWN yet is not offered, and
another one is allocated; the other properties of `fips_concurrent` hold
(1.1 million states, five minutes). `subnets`: names, patterns (one that does not compile) and
lists of tags for every branch, and all networks of up to two subnets.

States: 1.5 million in `lifecycle_safe`, 4.2 million in `lifecycle_faulty`,
490,000 in `lifecycle_live`, 630,000 in `health`, 210,000 and 120,000 in the
`fips` runs, 29,000 in `subnets`. Ports, load balancers and shoots are symmetric and are
declared so where only safety is checked. Every run says `CHECK_DEADLOCK FALSE`:
the gardenlet may have nothing more to ask for, and a list of subnets is one
call.

Fairness. `Lifecycle`: weak fairness of the worker (its goroutine runs, and
each wait ends), of `Provision` and `GoesOnline` for each load balancer
(Octavia's workers finish what they accepted, its health monitor sees working
members, also during an update), of `RequestRestore` (the gardenlet finishes a
restore) and of `RequestAgain` (the gardenlet's own retry of an Extension that
is not healthy, which it stops while the shoot has failed). Failures are bounded
and never fair, so the properties say: once failures stop. Nothing is assumed of
`ClusterRecovers`: the properties end in "or the shoot has failed, or its
Cluster cannot be read", and say after a recovery that the operation completes,
although its events were dropped. `HealthCheck`: in addition
weak fairness of its worker and strong fairness of the check and the update
with a copy that is current: a check takes seconds and is repeated for ever,
while the lifecycle controller, which alone can make the copy old, either stops
or backs off further after every error, so it cannot spoil all of them. The
properties are about a state of the load balancer that stays. `FloatingIPs`:
weak fairness of a running worker, and strong fairness of `Begin`, since a key
competes for workers but the work queue is first in, first out; and weak
fairness of `Settle`. `RequestAnswered` asks for a success that has the kind of
the current spec with no request left, and not only for a success, which may be
from before the request.

## Proofs

Every safety property that a passing run checks is proved for all values of the
constants, from the assumptions named in the modules: `None` is neither a load
balancer nor a spec nor a last operation, an address nor a matcher; specs, lists
of tags and the subnets of addresses have their types; shoots are not called
`"free"`, `"leaving"` or `"unallocated"`, the other values of an address; the sets
of CIDRs, of shoots and of addresses are finite; bounds are natural numbers.
Where a theorem needs more, it says so: a switch, or one worker. For
`~DeletesMayFail`, `~Impatient` and one worker a run shows that the property
fails without it (`two_load_balancers`, `healthy_too_early`, `stolen_address`).

Each invariant has one lemma per group of actions (`Reconciler`, `Actuator`,
`Failures`, `OpenStack`, `Gardenlet`, `Shoot`) or per component, with one step per
action. The inductive invariants below were checked by TLC on the instances of
the runs before they were proved.

**`LifecycleProofs`.**

- `TypeInvHolds`: `Spec => []TypeInv`. `TypeOK` is not inductive, because a step
  may use a local variable only after the call that sets it; `RunOK` says from
  which step on `run.type`, `run.spec` and `run.lb` are set, so that no step
  follows the nil pointer of a load balancer that was not found. `StartCases`
  has what `Start` can do: leave the Extension alone, or `Operate`.
- `NoOrphanHolds` and `OneLoadBalancerHolds`, for `~DeletesMayFail` and
  `~LateCreates`. The inductive invariant `SafeInv` adds what the worker knows:
  a run that may create holds the finalizer; at the create call the list is
  still empty, because nobody else creates; at the delete call only the listed
  load balancer is valid; and a run that will release the finalizer has seen
  that nothing is left. The two conditions are needed: `two_load_balancers` is
  the counterexample without the first, and a late create makes both false.

**`LifecycleConfigProofs`**, with all switches free:

- `SuccessMeansConfiguredHolds`, `AdvertisedIsLiveHolds` and
  `PrivateNotExposedHolds`. The invariant is `ConfigInv`. Its part `StepInv`
  follows the run: the listeners that the loop of `CheckLoadBalancer` is done
  with admit the ranges of the spec, after the loop all of them do, after
  `AttachFloatingIP` a private VIP has no floating IP, and after `UpdateStatus`
  the state names this load balancer. Its part `ReportInv` says that no success
  is on record while the worker changes load balancers, so that a success that
  is on record stays true. The lemma behind it is `LbsStep`: Octavia by itself,
  and every step but the listener updates, the attachment and the deletion of
  the run's own load balancer, leaves a valid load balancer valid, its listeners
  as they are, and never gives it a floating IP.
- `HealthyMeansConfiguredHolds`, for `~Impatient`. `AckInv` adds that the spec
  of the run is that of the Extension, and that a success is acknowledged only
  for the current spec.

**`LifecycleQueueProofs`**, with all switches free: `NothingForgottenHolds`. An
Extension with no key and open work is only possible if an event or a run was
dropped because of the Cluster since the key was last taken (`missed`). The
invariant `QueueInv` has three parts. The object carries the reason for an
operation that is not over: the annotation of a migration or a restore stays
until after its success, and a deletion timestamp as long as the finalizer
(`ObjectInv`). The worker still finds there the reason for which it chose its
operation (`ReasonInv`). What was asked for since it took the key is in the
queue or was kept out by the Cluster (`PendingInv`, with `Covered`).

**`FloatingIPsProofs`**, for any number of shoots, addresses, subnets and
workers:

- `TypeCorrect` and `PrivateNotExposedHolds`. `RunOK(s)` is what a run of `s`
  knows whatever the other workers do. They can take an address from its port
  and never give it one, so what it knows of the absence of addresses is stable
  (`OthersStep`, `RunOKKept`); and a port has one address at most.
- `ReportedIsAttachedHolds`, for one worker. `SerialInv`: only one run is busy,
  and what it read is still so when it is used.
- `PoolBoundedHolds`, for `~StatusLags`. `PoolInv` counts a run that will allocate an address from
  the moment it saw that none is free (`Creators`): the addresses and these runs
  together are never more than the bound. At that moment every address is on a
  port, each on another one, and none on that of a run that is counted
  (`AllAttached`), so the sum is at most the number of shoots; when the run
  allocates, it stops being counted (`OwnedStep`). That a run which allocated an
  address and did not learn of it is not counted again needs `Fresh`: no other
  worker has this address in its list or is about to detach it, since it was not
  allocated when they read (`Known`).
- `ContractImplemented`: `Spec => ImplementsContract`, the refinement of
  `VipContract`. `ContractStep` has one step per action: what changes an address
  is the abstract call (`ServesStep`), what changes only the locals is none, an
  error is `Fails`. With one worker `SerialInv` gives that other shoots keep
  their addresses (`OthersKeepStep`).

**`SubnetMatchProofs`**: `ListedAsSpecifiedHolds` and
`QueryAgreesWithMatcherHolds`, for specifications without an id and with at most
one negated tag (`Plain`). What carries them are the lemmas about the
operators: the loop that ends at the first tag that decides computes whether
all, or any, of the tags are there (`TagMatcher`); so does the query
(`QueryByTags`); and a name matcher takes the named subnets that the pattern
takes (`NameMatcher`).

**`HealthCheckProofs`**: `HealthCheckImplementsLifecycle`, `HSpec => Spec`.
Every step of the composition maps to a step of `Lifecycle` by dropping the
health check's variables; all that needs an argument is the update of the whole
status, which has to be a `StatusWritten`. It is because of the invariant
`FreshIsCurrent`: a copy whose resourceVersion is the current one has the
current status. `NoOrphanBesideHealthCheck`, `SafeBesideHealthCheck` and
`HealthyBesideHealthCheck` carry the theorems about `Lifecycle` over to the
composition.

**`IPNetsProofs`**: `ParseIPNets` of at least one string is empty exactly if one
of them is invalid (`EmptyMeansInvalid`), which is why `Lifecycle` can take the
empty set for the error.

Model-checked only are the liveness properties `DeletionCompletes`,
`MigrationCompletes`, `ReconciliationCompletes`, `RequestAnswered`,
`BrokenIsNoticed` and `RecoveredIsNoticed`: fairness is outside the prover's
reach.

## Not modelled

- The reading of the secret and of `cloud.conf` (`config.go`), client set-up and the look-ups of flavors, networks and istio's
  services: they read, keep nothing, and are calls that may fail.
- `Insert`, `Delete`, `Has`, `HasAll`, `Difference`, `IsSuperset`, `Equal` and
  `Len` of `ipnet.go`, and `infrastructure.go`: not called by the controller.
- `net.ParseCIDR`, globs and regular expressions: constants and sets.
- Members of the pools: they are set from istio's addresses at creation, and no
  code changes them later.
- Command line, charts, logging, error texts.

## Plan

1. Done: `Lifecycle`, `FloatingIPs`, their runs, type correctness and the two
   load balancer invariants.
2. Done: `IPNets`, `HealthCheck` with its proof, `VipContract` and its
   refinement, `SubnetMatch`.
3. Done: proofs of all safety properties of the runs and of the refinement of
   `VipContract`.
4. A theorem that `Lifecycle`, which takes `AttachFloatingIP` as one step and
   other shoots as `FloatingIPTaken`, uses no more of it than `VipContract`
   promises; action properties of the health check (what an update of the
   condition never does).
