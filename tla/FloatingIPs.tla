---------------------------- MODULE FloatingIPs ----------------------------
(***************************************************************************)
(* AttachFloatingIP, call by call, for several shoots that are reconciled  *)
(* by concurrent workers of one controller and share the floating IPs of   *)
(* one project.  A run here is the part of Reconcile from CheckLoadBalancer*)
(* (done) to updateStatus; the rest of Reconcile is module Lifecycle.      *)
(***************************************************************************)
EXTENDS Integers, FiniteSets

CONSTANTS Shoots,
          FIPs,        \* the addresses of the floating network
          Subnets,     \* its subnets
          SubnetOf,    \* the subnet of each address
          Pool,        \* addresses that are allocated and free at first
          Forwarded,   \* those of them with port forwardings
          Workers,     \* MaxConcurrentReconciles
          None,
          StatusLags,  \* an address is not DOWN as soon as it has no port
          MaxFaults,   \* bound on failed calls, lost answers and crashes
          MaxChanges   \* bound on changes of specs and on deletions

ASSUME SubnetAssumption == SubnetOf \in [FIPs -> Subnets]
ASSUME PoolAssumption == Pool \subseteq FIPs /\ Forwarded \subseteq Pool
ASSUME FipNoneAssumption == None \notin FIPs
ASSUME FiniteAssumption == IsFiniteSet(Shoots) /\ IsFiniteSet(FIPs)
ASSUME ShootsAssumption ==
  {"unallocated", "free", "leaving"} \intersect Shoots = {}
ASSUME LagAssumption == StatusLags \in BOOLEAN
ASSUME FipBoundsAssumption ==
  Workers \in Nat /\ MaxFaults \in Nat /\ MaxChanges \in Nat

VARIABLES fip,      \* of each address: not allocated, free (DOWN and without a
                    \* port), leaving (not DOWN yet) or a shoot's port
          private,  \* the privateCluster of each spec
          lb,       \* the shoot's load balancer exists
          queued,   \* the shoot's key is in the work queue
          ok,       \* the last run of the shoot succeeded
          ext,      \* externalAddressLoadBalancer of the state
          run,      \* the worker of the shoot
          faults,
          changes

vars == <<fip, private, lb, queued, ok, ext, run, faults, changes>>

\* What Neutron makes of an address that loses its port.
Released == IF StatusLags THEN {"free", "leaving"} ELSE {"free"}

\* got: the variable floatIP.  seen: the rest of availableIPs.  left: the
\* subnets not tried yet.
Runs == [pc : {"idle", "find", "detach", "list", "attach", "create", "report"},
         private : BOOLEAN, got : FIPs \union {None}, seen : SUBSET FIPs,
         left : SUBSET Subnets]

Idle == [pc |-> "idle", private |-> FALSE, got |-> None, seen |-> {},
         left |-> {}]

\* Every variable has its type, in particular the external address of a state is
\* a floating IP or nothing.
TypeOK ==
  /\ fip \in [FIPs -> {"unallocated"} \union Released \union Shoots]
  /\ private \in [Shoots -> BOOLEAN]
  /\ lb \in [Shoots -> BOOLEAN]
  /\ queued \in [Shoots -> BOOLEAN]
  /\ ok \in [Shoots -> BOOLEAN]
  /\ ext \in [Shoots -> FIPs \union {None}]
  /\ run \in [Shoots -> Runs]
  /\ faults \in 0 .. MaxFaults
  /\ changes \in 0 .. MaxChanges

----------------------------------------------------------------------------

SetRun(s, r) == run' = [run EXCEPT ![s] = r]
Step(s, pc) == SetRun(s, [run[s] EXCEPT !.pc = pc])

Busy == {s \in Shoots : run[s].pc # "idle"}

Fault == faults < MaxFaults /\ faults' = faults + 1

\* Mutant: an error is not retried.
Fail_NoRetry(s) == SetRun(s, Idle) /\ UNCHANGED queued

\* An error of AttachFloatingIP is the error of the run, and is retried.
Fail(s) ==
  /\ SetRun(s, Idle)
  /\ queued' = [queued EXCEPT ![s] = TRUE]

\* The worker reaches AttachFloatingIP with the spec it read at Processing.
\* (A crash between taking the key and Processing is in Lifecycle.)
Begin(s) ==
  /\ run[s].pc = "idle" /\ queued[s] /\ lb[s]
  /\ Cardinality(Busy) < Workers
  /\ SetRun(s, [Idle EXCEPT !.pc = "find", !.private = private[s]])
  /\ queued' = [queued EXCEPT ![s] = FALSE]
  /\ ok' = [ok EXCEPT ![s] = FALSE]
  /\ UNCHANGED <<fip, private, lb, ext, faults, changes>>

\* Mutant: the list is not restricted to the port.
OfPort_Any(s) == {f \in FIPs : fip[f] \in Shoots}

OfPort(s) == {f \in FIPs : fip[f] = s}

\* The floating IP of the VIP port, if there is one.
GetFloatingIPByPortID(s) ==
  /\ run[s].pc = "find"
  /\ \E f \in IF OfPort(s) = {} THEN {None} ELSE OfPort(s) :
       SetRun(s, [run[s] EXCEPT !.got = f,
             !.pc = IF run[s].private
                    THEN IF f = None THEN "report" ELSE "detach"
                    ELSE IF f = None THEN "list" ELSE "report"])
  /\ UNCHANGED <<fip, private, lb, queued, ok, ext, faults, changes>>

\* Mutant: nothing is detached.
Detached_Not(s) == UNCHANGED fip

\* A PUT whose port is nil, and so left out of the body: Neutron takes that as
\* a dissociation.  It takes the address from whatever port has it by now.
Detached(s) == \E v \in Released : fip' = [fip EXCEPT ![run[s].got] = v]

Detach(s) ==
  /\ run[s].pc = "detach"
  /\ Detached(s)
  /\ Step(s, "report")
  /\ UNCHANGED <<private, lb, queued, ok, ext, faults, changes>>

\* Mutant: only what was allocated and never used is available.
Available_Pool == {f \in Pool : fip[f] = "free"}

\* getFloatingIPs: what is DOWN and has no port at this moment.  (What is
\* leaving has no port either, but is not DOWN.)
Available == {f \in FIPs : fip[f] = "free"}

ListAvailable(s) ==
  /\ run[s].pc = "list"
  /\ SetRun(s, [run[s] EXCEPT !.seen = Available, !.left = Subnets,
                   !.pc = IF Available = {} THEN "create" ELSE "attach"])
  /\ UNCHANGED <<fip, private, lb, queued, ok, ext, faults, changes>>

\* A PUT with a port takes the address from any port that has it.
Attached(s, f) == fip' = [fip EXCEPT ![f] = s]

HasAddress(s) == \E f \in FIPs : fip[f] = s

\* Mutant: floatIP ends as the last element, also if that is skipped.
AfterElement_TakesLast(s, f, got) ==
  LET rest == run[s].seen \ {f}
  IN  SetRun(s, [run[s] EXCEPT !.got = IF got = None THEN None ELSE f,
                    !.seen = rest,
                    !.pc = IF rest # {} THEN "attach"
                           ELSE IF got = None THEN "create" ELSE "report"])

\* After an element of availableIPs.  The loop goes on after a success.
AfterElement(s, f, got) ==
  LET rest == run[s].seen \ {f}
  IN  SetRun(s, [run[s] EXCEPT !.got = got, !.seen = rest,
                    !.pc = IF rest # {} THEN "attach"
                           ELSE IF got = None THEN "create" ELSE "report"])

\* One turn of the loop over availableIPs.  Neutron refuses a second floating
\* IP on a port.
UpdateFloatingIP(s, f) ==
  /\ run[s].pc = "attach" /\ f \in run[s].seen
  /\ \/ /\ f \in Forwarded
        /\ AfterElement(s, f, run[s].got)
        /\ UNCHANGED <<fip, queued>>
     \/ /\ f \notin Forwarded /\ ~HasAddress(s)
        /\ Attached(s, f)
        /\ AfterElement(s, f, f)
        /\ UNCHANGED queued
     \/ /\ f \notin Forwarded /\ HasAddress(s)
        /\ Fail(s)
        /\ UNCHANGED fip
  /\ UNCHANGED <<private, lb, ok, ext, faults, changes>>

\* The error of one subnet is only logged, that of the last one is returned.
NextSubnet(s, subnet) ==
  IF run[s].left = {subnet}
  THEN Fail(s)
  ELSE /\ SetRun(s, [run[s] EXCEPT !.left = @ \ {subnet}])
       /\ UNCHANGED queued

\* One turn of the loop over the subnets.
CreateFloatingIP(s, subnet) ==
  /\ run[s].pc = "create" /\ subnet \in run[s].left
  /\ \/ \E f \in FIPs :
          /\ SubnetOf[f] = subnet /\ fip[f] = "unallocated" /\ ~HasAddress(s)
          /\ Attached(s, f)
          /\ SetRun(s, [run[s] EXCEPT !.got = f, !.pc = "report"])
          /\ UNCHANGED queued
     \/ /\ \/ HasAddress(s)
           \/ \A f \in FIPs : SubnetOf[f] = subnet => fip[f] # "unallocated"
        /\ NextSubnet(s, subnet)
        /\ UNCHANGED fip
  /\ UNCHANGED <<private, lb, ok, ext, faults, changes>>

\* Mutant: the state holds the VIP that AttachFloatingIP returns for a private
\* cluster.
Address_Vip(s) == IF run[s].private THEN s ELSE run[s].got

\* Mutant: the spec of the moment instead of the one the run began with.
Address_Current(s) == IF private[s] THEN None ELSE run[s].got

\* externalAddressLoadBalancer.
Address(s) == IF run[s].private THEN None ELSE run[s].got

\* updateStatus and Success.
UpdateStatus(s) ==
  /\ run[s].pc = "report"
  /\ ext' = [ext EXCEPT ![s] = Address(s)]
  /\ ok' = [ok EXCEPT ![s] = TRUE]
  /\ SetRun(s, Idle)
  /\ UNCHANGED <<fip, private, lb, queued, faults, changes>>

----------------------------------------------------------------------------
(* Failures.                                                               *)

CallFails(s) ==
  /\ run[s].pc # "idle" /\ Fault
  /\ \/ Fail(s)
     \/ run[s].pc = "create" /\ \E n \in run[s].left : NextSubnet(s, n)
  /\ UNCHANGED <<fip, private, lb, ok, ext, changes>>

\* Neutron did what it was asked and the answer is lost.
AnswerLost(s) ==
  /\ Fault
  /\ \/ run[s].pc = "detach" /\ Detached(s) /\ Fail(s)
     \/ /\ run[s].pc = "attach" /\ ~HasAddress(s)
        /\ \E f \in run[s].seen \ Forwarded : Attached(s, f)
        /\ Fail(s)
     \/ /\ run[s].pc = "create" /\ ~HasAddress(s)
        /\ \E n \in run[s].left :
             /\ \E f \in FIPs : /\ SubnetOf[f] = n /\ fip[f] = "unallocated"
                               /\ Attached(s, f)
             /\ NextSubnet(s, n)
  /\ UNCHANGED <<private, lb, ok, ext, changes>>

\* All workers are in one process.  A list of floating IPs that fails is a
\* panic.  The new leader queues what has not succeeded.
Crash ==
  /\ Fault
  /\ run' = [s \in Shoots |-> Idle]
  /\ queued' = [s \in Shoots |-> lb[s] /\ (queued[s] \/ ~ok[s])]
  /\ UNCHANGED <<fip, private, lb, ok, ext, changes>>

----------------------------------------------------------------------------
(* The other parts of the system.                                          *)

Change == changes < MaxChanges /\ changes' = changes + 1

\* The gardenlet writes a spec with the other privateCluster.
ChangeSpec(s) ==
  /\ lb[s] /\ Change
  /\ private' = [private EXCEPT ![s] = ~@]
  /\ queued' = [queued EXCEPT ![s] = TRUE]
  /\ UNCHANGED <<fip, lb, ok, ext, run, faults>>

\* Neutron notices that an address has no port.
Settle(f) ==
  /\ fip[f] = "leaving"
  /\ fip' = [fip EXCEPT ![f] = "free"]
  /\ UNCHANGED <<private, lb, queued, ok, ext, run, faults, changes>>

\* The actuator deletes the load balancer: its port goes, the floating IP
\* stays allocated.
DeleteLoadbalancer(s) ==
  /\ lb[s] /\ run[s].pc = "idle" /\ Change
  /\ lb' = [lb EXCEPT ![s] = FALSE]
  /\ \E v \in Released :
       fip' = [f \in FIPs |-> IF fip[f] = s THEN v ELSE fip[f]]
  /\ queued' = [queued EXCEPT ![s] = FALSE]
  /\ ok' = [ok EXCEPT ![s] = FALSE]
  /\ UNCHANGED <<private, ext, run, faults>>

\* The actuator creates a load balancer again.
CreateLoadBalancer(s) ==
  /\ ~lb[s]
  /\ lb' = [lb EXCEPT ![s] = TRUE]
  /\ queued' = [queued EXCEPT ![s] = TRUE]
  /\ UNCHANGED <<fip, private, ok, ext, run, faults, changes>>

----------------------------------------------------------------------------

Init ==
  /\ fip = [f \in FIPs |-> IF f \in Pool THEN "free" ELSE "unallocated"]
  /\ private \in [Shoots -> BOOLEAN]
  /\ lb = [s \in Shoots |-> TRUE]
  /\ queued = [s \in Shoots |-> TRUE]
  /\ ok = [s \in Shoots |-> FALSE]
  /\ ext = [s \in Shoots |-> None]
  /\ run = [s \in Shoots |-> Idle]
  /\ faults = 0 /\ changes = 0

Attach(s) == GetFloatingIPByPortID(s) \/ Detach(s) \/ ListAvailable(s)
             \/ (\E f \in FIPs : UpdateFloatingIP(s, f))
             \/ (\E n \in Subnets : CreateFloatingIP(s, n))
             \/ UpdateStatus(s)

Next == \/ \E s \in Shoots : \/ Begin(s) \/ Attach(s)
                             \/ CallFails(s) \/ AnswerLost(s)
                             \/ ChangeSpec(s) \/ DeleteLoadbalancer(s)
                             \/ CreateLoadBalancer(s)
        \/ \E f \in FIPs : Settle(f)
        \/ Crash

Spec == Init /\ [][Next]_vars

\* A worker that runs takes its next step; the work queue hands out keys in
\* the order they came, so a key that waits is taken; Neutron brings the status
\* of an address up to date.
Fairness ==
  /\ \A s \in Shoots : WF_vars(Attach(s)) /\ SF_vars(Begin(s))
  /\ \A f \in FIPs : WF_vars(Settle(f))

FairSpec == Spec /\ Fairness

----------------------------------------------------------------------------
(* Properties.                                                             *)

\* The VIP of a shoot that was reported as private has no floating IP.
PrivateNotExposed ==
  \A s \in Shoots : ok[s] /\ ext[s] = None => ~HasAddress(s)

\* The external address of a shoot that was reported as public is attached to
\* its load balancer.  Only with Workers = 1.
ReportedIsAttached ==
  \A s \in Shoots : ok[s] /\ ext[s] # None => fip[ext[s]] = s

\* Floating IPs are never given back, and yet there are never more of them
\* than shoots, or than there were at first: a new one is only allocated when
\* none is free, although the list may be stale.  Only with ~StatusLags.
PoolBounded ==
  LET owned == {f \in FIPs \ Forwarded : fip[f] # "unallocated"}
      first == Cardinality(Pool \ Forwarded)
  IN  Cardinality(owned) <=
        IF first > Cardinality(Shoots) THEN first ELSE Cardinality(Shoots)

\* A shoot that waits for its reconciliation gets it, unless it is deleted: in
\* the end nothing is asked for any more and a success is on record that has the
\* kind of the current spec, through failures, crashes, addresses taken by other
\* workers and changes of the spec while a run works from the old one.
RequestAnswered ==
  \A s \in Shoots :
    queued[s] ~> \/ ~lb[s]
                 \/ ~queued[s] /\ ok[s] /\ (ext[s] = None <=> private[s])

----------------------------------------------------------------------------
(* The abstract view of AttachFloatingIP.                                  *)

\* The call is over once floatIP is set: what the loop over availableIPs does
\* afterwards does not change what the caller gets.
Stage(r) ==
  CASE r.pc = "idle" -> "idle"
    [] r.pc = "report" -> "report"
    [] r.pc = "attach" /\ r.got # None -> "report"
    [] OTHER -> "attach"

\* The refinement mapping.
Vip == [s \in Shoots |-> HasAddress(s)]
Call(r) == [stage |-> Stage(r), private |-> r.private]
Calls == [s \in Shoots |-> Call(run[s])]
Said == [s \in Shoots |-> IF ~ok[s] THEN "nothing"
                          ELSE IF ext[s] = None THEN "Private" ELSE "Public"]

Contract == INSTANCE VipContract
  WITH addr <- Vip, run <- Calls, said <- Said, MayLose <- Workers > 1

\* AttachFloatingIP makes up to a dozen calls, any of which can fail or have
\* been overtaken by those of another worker; to its caller it is one step that
\* either does what the spec asks or fails, and with a single worker it never
\* touches the floating IP of another shoot.
ImplementsContract == Contract!Spec

============================================================================
