----------------------------- MODULE Lifecycle -----------------------------
(***************************************************************************)
(* The lifecycle controller of one Extension of type private-network: the  *)
(* work queue entry of the Extension, the extension reconciler that wraps  *)
(* the actuator, the actuator's Reconcile, Delete, Restore and Migrate,    *)
(* and the OpenStack load balancer they manage.                            *)
(*                                                                         *)
(* A load balancer's name is derived from the Extension's namespace and    *)
(* the work queue never runs one key twice at a time, so Extensions only   *)
(* meet in the pool of floating IPs: module FloatingIPs has that part in   *)
(* detail, here AttachFloatingIP is one step with its outcomes.            *)
(*                                                                         *)
(* Every call to an API server is a step of its own.  Octavia, the         *)
(* gardenlet and failures move between any two of them.                    *)
(***************************************************************************)
EXTENDS Integers, FiniteSets, Sequences, Functions, IPNets

CONSTANTS LBs,            \* ids a load balancer can have
          Ports,          \* the listeners: 443, 8443 and 8132
          WorkerCIDR,     \* the range of the shoot's worker network
          DefaultCIDR,    \* 0.0.0.0/0
          NoList,         \* an ExtensionSpec without allowCIDRs
          Specs,          \* the ExtensionSpecs users ask for
          None,
          MaxFaults,      \* bound on failures of every kind together
          MaxRequests,    \* bound on what the gardenlet asks for
          DeletesMayFail, \* Octavia may turn PENDING_DELETE into ERROR
          LateCreates,    \* a POST may be served after its sender crashed
          Impatient,      \* the gardenlet may change the spec during a run
          ShootMayFail    \* the shoot may fail, or its Cluster be unreadable

ASSUME SpecsAssumption ==
  Specs \subseteq [private : BOOLEAN, allow : (SUBSET Strings) \union {NoList}]
ASSUME RangesAssumption == {WorkerCIDR, DefaultCIDR} \subseteq Strings
ASSUME NoneAssumption == None \notin LBs /\ None \notin Specs
ASSUME BoundsAssumption == MaxFaults \in Nat /\ MaxRequests \in Nat
ASSUME SwitchesAssumption ==
  /\ DeletesMayFail \in BOOLEAN
  /\ LateCreates \in BOOLEAN
  /\ Impatient \in BOOLEAN
  /\ ShootMayFail \in BOOLEAN

VARIABLES ex,       \* the Extension in the seed's API server
          queued,   \* its key is in the controller's work queue
          missed,   \* history: since the key was last taken, the Cluster made
                    \* the controller drop an event or a run
          cluster,  \* what GetCluster finds out about the shoot
          pc,       \* the next call of the worker that runs the key
          run,      \* the local variables of that worker
          lbs,      \* the load balancers of this name in Octavia
          late,     \* the specs of create calls that outlived their sender
          faults,   \* failures so far
          requests  \* requests of the gardenlet so far

vars == <<ex, queued, missed, cluster, pc, run, lbs, late, faults, requests>>

OpTypes == {"Create", "Reconcile", "Delete", "Restore", "Migrate"}
Building == {"Create", "Reconcile", "Restore"}
LastOps == [type : OpTypes, state : {"Processing", "Succeeded", "Error"}]
           \union {None}
ASSUME NoLastOpAssumption ==
  None \notin [type : OpTypes, state : {"Processing", "Succeeded", "Error"}]

States == [type : {"", "Public", "Private"},
           internal : LBs \union {None},
           external : LBs \union {None}]
NoState == [type |-> "", internal |-> None, external |-> None]

Extensions ==
  [there : BOOLEAN, deleting : BOOLEAN, finalizer : BOOLEAN,
   op : {"", "reconcile", "restore", "migrate", "wait-for-state"},
   spec : Specs \union {None}, gen : Nat, obs : Nat, acked : BOOLEAN,
   lastOp : LastOps, state : States]

LoadBalancers ==
  [prov : {"DELETED", "PENDING_CREATE", "ACTIVE", "PENDING_UPDATE", "ERROR",
           "PENDING_DELETE"},
   oper : {"ONLINE", "OFFLINE"}, old : BOOLEAN, fip : BOOLEAN,
   acl : [Ports -> Seq(Nets)]]

Steps == {"idle", "start", "processing", "get", "create", "waitCreated",
          "check", "waitListener", "attach", "report", "delete",
          "waitDeleted", "success", "finalize", "annotate"}

Runs == [type : OpTypes \union {None}, spec : Specs \union {None}, gen : Nat,
         lb : LBs \union {None}, want : Seq(Nets), todo : SUBSET Ports,
         oper : {"ONLINE", "OFFLINE"}]

NoRun == [type |-> None, spec |-> None, gen |-> 0, lb |-> None,
          want |-> << >>, todo |-> {}, oper |-> "OFFLINE"]

TypeOK ==
  /\ ex \in Extensions
  /\ queued \in BOOLEAN
  /\ missed \in BOOLEAN
  /\ cluster \in {"ok", "failed", "unreadable"}
  /\ pc \in Steps
  /\ run \in Runs
  /\ lbs \in [LBs -> LoadBalancers]
  /\ late \in SUBSET Specs
  /\ faults \in 0 .. MaxFaults
  /\ requests \in 0 .. MaxRequests

\* Steps that use the load balancer of the run.
LBSteps == {"waitCreated", "check", "waitListener", "attach", "report",
            "delete", "waitDeleted"}

RunOK ==
  /\ ex.there => ex.spec \in Specs
  /\ pc \notin {"idle", "start"} => run.type \in OpTypes
  /\ pc \notin {"idle", "start", "processing"} => run.spec \in Specs
  /\ pc \in LBSteps => run.lb \in LBs

\* Every variable has its type, and no step of a run uses a load balancer, a
\* spec or an operation type that the run has not determined before: the
\* actuator never follows the nil pointer of a load balancer it did not find.
TypeInv == TypeOK /\ RunOK

----------------------------------------------------------------------------
(* Pure helpers of the controller.                                         *)

\* The source ranges the load balancer of a spec must admit; nil, and an
\* error, if the spec or the worker network has a string that is no network.
GetLoadBalancerSourceRanges(spec) ==
  ParseIPNets(IF spec.allow = NoList THEN {DefaultCIDR}
                                     ELSE spec.allow \union {WorkerCIDR})

\* Mutant: a load balancer in ERROR does not count.
ValidLBs_NoError ==
  {l \in LBs : lbs[l].prov \notin {"DELETED", "PENDING_DELETE", "ERROR"}}

\* What getLoadbalancerByName keeps of the list Octavia returns.
ValidLBs == {l \in LBs : lbs[l].prov \notin {"DELETED", "PENDING_DELETE"}}

\* Mutant: the migrate annotation is not an operation.
ComputeOperationType_NoMigrate ==
  IF ex.deleting THEN "Delete"
  ELSE IF ex.op = "restore" THEN "Restore" ELSE "Reconcile"

\* What to do about the Extension, from its annotation and last operation.
ComputeOperationType ==
  IF ex.op = "migrate" THEN "Migrate"
  ELSE IF ex.deleting THEN "Delete"
  ELSE IF ex.op = "restore" THEN "Restore"
  ELSE IF ex.lastOp = None THEN "Create"
  ELSE IF /\ ex.lastOp.type \in {"Create", "Migrate", "Restore"}
          /\ ex.lastOp.state # "Succeeded"
       THEN ex.lastOp.type
       ELSE "Reconcile"

IsMigrated == ex.lastOp = [type |-> "Migrate", state |-> "Succeeded"]

ShouldSkipOperation(t) == t \notin {"Migrate", "Restore"} /\ IsMigrated

\* The gardenlet takes the Extension for reconciled.
CheckExtensionObject ==
  /\ ex.lastOp # None
  /\ ex.lastOp.state = "Succeeded"
  /\ ex.obs = ex.gen
  /\ ex.op = ""
  /\ ex.acked

----------------------------------------------------------------------------
(* Writing the Extension, and the events that writing it causes.           *)

\* GetCluster succeeds and IsFailed is false: both the precondition of every
\* event and the first condition of a run.
ShootNotFailed == cluster = "ok"

hasOperationAnnotation(e) == e.op \in {"reconcile", "restore", "migrate"}

\* Mutant: the deletion timestamp is not an event.
UpdateFunc_NoDeletion(e, statusEqual) == hasOperationAnnotation(e)

\* The predicate on update events: an operation annotation, or a change of
\* something other than the status of an Extension that is being deleted.
UpdateFunc(e, statusEqual) ==
  hasOperationAnnotation(e) \/ (e.deleting /\ statusEqual)

\* Mutant: a restart does not look at the last operation.
CreateFunc_NoLastOp(e) == e.there /\ (hasOperationAnnotation(e) \/ e.deleting)

\* The predicate on the create events of a controller that starts.
CreateFunc(e) ==
  /\ e.there
  /\ \/ hasOperationAnnotation(e)
     \/ e.deleting
     \/ e.lastOp = None
     \/ e.lastOp.state # "Succeeded"

\* An event that the predicate above wants, or not: ShootNotFailedPredicate
\* drops it for good if the shoot has failed or its Cluster cannot be read.
Admit(wanted) ==
  /\ queued' = (queued \/ (wanted /\ ShootNotFailed))
  /\ missed' = (missed \/ (wanted /\ ~ShootNotFailed))

PatchMeta(e) == ex' = e /\ Admit(UpdateFunc(e, TRUE))
PatchStatus(e) == ex' = e /\ Admit(UpdateFunc(e, FALSE))

LastOperation(t, s) == [type |-> t, state |-> s]

\* The Extension once the API server dropped it.  The state is kept: it is
\* what the ShootState holds for a later restore.
Gone == [there |-> FALSE, deleting |-> FALSE, finalizer |-> FALSE, op |-> "",
         spec |-> None, gen |-> 0, obs |-> 0, acked |-> TRUE,
         lastOp |-> None, state |-> ex.state]

Fault == faults < MaxFaults /\ faults' = faults + 1

\* The run ends in an error the controller answers with a rate-limited retry.
Requeue == pc' = "idle" /\ run' = NoRun /\ queued' = TRUE /\ UNCHANGED missed

Goto(step) == pc' = step /\ UNCHANGED run

Done == pc' = "idle" /\ run' = NoRun

\* statusUpdater.Error, then the retry.  The error of the patch is dropped.
Fail ==
  /\ Requeue
  /\ ex' = IF ex.there
           THEN [ex EXCEPT !.lastOp = LastOperation(run.type, "Error"),
                           !.obs = run.gen, !.acked = TRUE]
           ELSE ex

----------------------------------------------------------------------------
(* The extension reconciler.                                               *)

\* The worker takes the key; the annotation wrapper removes "reconcile", and
\* leaves an Extension alone that waits for its state.
PickUp ==
  /\ pc = "idle" /\ queued
  /\ run' = NoRun
  /\ IF ex.there /\ ex.op = "reconcile"
     THEN /\ ex' = [ex EXCEPT !.op = ""]
          /\ queued' = (UpdateFunc(ex', TRUE) /\ ShootNotFailed)
          /\ missed' = (UpdateFunc(ex', TRUE) /\ ~ShootNotFailed)
     ELSE UNCHANGED ex /\ queued' = FALSE /\ missed' = FALSE
  /\ pc' = IF ex.there /\ ex.op # "wait-for-state" THEN "start" ELSE "idle"
  /\ UNCHANGED <<lbs, late, faults, requests, cluster>>

\* Mutant: the finalizer is not added.
NeedsFinalizer_Never(t) == FALSE

NeedsFinalizer(t) == t \in Building /\ ~ex.finalizer

\* Mutant: the error of GetCluster is not returned.
ClusterError_Dropped == Done /\ UNCHANGED <<queued, missed>>

\* The run for a shoot whose Cluster cannot be read is retried.
ClusterError == Requeue

\* The run for a failed shoot ends without an error, and the key is dropped.
SkipFailed == Done /\ missed' = TRUE /\ UNCHANGED queued

\* Choose the operation; a run that may create things adds the finalizer.
Operate(t) ==
  /\ run' = [NoRun EXCEPT !.type = t]
  /\ pc' = "processing"
  /\ IF NeedsFinalizer(t)
     THEN PatchMeta([ex EXCEPT !.finalizer = TRUE])
     ELSE UNCHANGED <<ex, queued, missed>>

\* Look at the Extension, then at the Cluster, then at what there is to do.
Start ==
  /\ pc = "start"
  /\ CASE ~ex.there -> Done /\ UNCHANGED <<ex, queued, missed>>
       [] ex.there /\ cluster = "unreadable" -> ClusterError /\ UNCHANGED ex
       [] ex.there /\ cluster = "failed" -> SkipFailed /\ UNCHANGED ex
       [] OTHER ->
          LET t == ComputeOperationType
          IN  IF ShouldSkipOperation(t) \/ (t = "Delete" /\ ~ex.finalizer)
              THEN Done /\ UNCHANGED <<ex, queued, missed>>
              ELSE Operate(t)
  /\ UNCHANGED <<lbs, late, faults, requests, cluster>>

\* Mutant: the last operation is only written at the end of a run.
ReportProcessing_Not == UNCHANGED <<ex, queued, missed>>

ReportProcessing ==
  PatchStatus([ex EXCEPT !.lastOp = LastOperation(run.type, "Processing"),
                         !.acked = TRUE])

\* statusUpdater.Processing.  The answer to the patch is the object, with its
\* spec and generation, that the actuator works from.
Processing ==
  /\ pc = "processing" /\ ex.there
  /\ ReportProcessing
  /\ run' = [run EXCEPT !.spec = ex.spec, !.gen = ex.gen]
  /\ pc' = "get"
  /\ UNCHANGED <<lbs, late, faults, requests, cluster>>

\* statusUpdater.Success.
Success ==
  /\ pc = "success" /\ ex.there
  /\ PatchStatus([ex EXCEPT !.lastOp = LastOperation(run.type, "Succeeded"),
                            !.obs = run.gen, !.acked = TRUE])
  /\ CASE run.type \in {"Create", "Reconcile"} -> Done
       [] run.type = "Restore" -> Goto("annotate")
       [] OTHER -> Goto("finalize")
  /\ UNCHANGED <<lbs, late, faults, requests, cluster>>

\* RemoveFinalizers and RemoveAllFinalizers.  An Extension that is being
\* deleted is gone with its last finalizer.
RemoveFinalizers ==
  /\ pc = "finalize" /\ ex.there
  /\ IF ex.deleting
     THEN ex' = Gone /\ UNCHANGED <<queued, missed>>
     ELSE PatchMeta([ex EXCEPT !.finalizer = FALSE])
  /\ IF run.type = "Migrate" THEN Goto("annotate") ELSE Done
  /\ UNCHANGED <<lbs, late, faults, requests, cluster>>

RemoveAnnotation ==
  /\ pc = "annotate" /\ ex.there
  /\ PatchMeta([ex EXCEPT !.op = ""])
  /\ Done
  /\ UNCHANGED <<lbs, late, faults, requests, cluster>>

\* The Extension is gone when the reconciler wants to write it.
ObjectGone ==
  /\ pc \in {"processing", "success", "finalize", "annotate"} /\ ~ex.there
  /\ Requeue
  /\ UNCHANGED <<ex, lbs, late, faults, requests, cluster>>

----------------------------------------------------------------------------
(* Octavia's side of the calls.                                            *)

NoLB == [prov |-> "DELETED", oper |-> "OFFLINE", old |-> FALSE, fip |-> FALSE,
         acl |-> [p \in Ports |-> << >>]]

SetLB(l, lb) == lbs' = [lbs EXCEPT ![l] = lb]
SetProv(l, prov) == SetLB(l, [lbs[l] EXCEPT !.prov = prov])

\* An id is free when no load balancer has it and nothing remembers it.
FreeIds == {l \in LBs : lbs[l].prov = "DELETED"}
           \ {run.lb, ex.state.internal, ex.state.external}

\* POST: a load balancer with a listener for each port.  Each listener has a
\* slice of its own, in an order of its own.
Posted(l, spec) ==
  \E acl \in [Ports -> StringSlice(GetLoadBalancerSourceRanges(spec))] :
    SetLB(l, [NoLB EXCEPT !.prov = "PENDING_CREATE", !.acl = acl])

\* reflect.DeepEqual of two slices.
DeepEqual(s, t) == s = t

\* PUT: the listener has the slice of this run.
ListenerPut(p) ==
  SetLB(run.lb, [lbs[run.lb] EXCEPT !.prov = "PENDING_UPDATE",
                                    !.acl[p] = run.want])

\* Mutant: a cluster that turns private keeps its floating IP.
FloatingIPSet_NoDetach ==
  SetLB(run.lb, [lbs[run.lb] EXCEPT !.fip = @ \/ ~run.spec.private])

\* The floating IP of the VIP port as the spec wants it.
FloatingIPSet == SetLB(run.lb, [lbs[run.lb] EXCEPT !.fip = ~run.spec.private])

Deletable == lbs[run.lb].prov \in {"ACTIVE", "ERROR"}

----------------------------------------------------------------------------
(* The actuator.                                                           *)

\* CheckLoadBalancer begins: the slice is made once and compared with every
\* listener's.
StartCheck(r) ==
  /\ pc' = "check"
  /\ \E s \in StringSlice(GetLoadBalancerSourceRanges(r.spec)) :
       run' = [r EXCEPT !.want = s, !.todo = Ports]

\* Mutant: only a load balancer that works can be deleted.
Mutable_ActiveOnly == {"ACTIVE"}

\* The statuses in which DeleteLoadbalancer sends the DELETE.
Mutable == {"ACTIVE", "ERROR"}

\* What Reconcile and Delete do with the load balancer they found, given the
\* provisioning status it was listed with.
Found(l) ==
  IF run.type \in Building /\ lbs[l].prov = "ACTIVE"
  THEN StartCheck([run EXCEPT !.lb = l]) /\ UNCHANGED <<ex, queued, missed>>
  ELSE IF lbs[l].prov \in Mutable
  THEN /\ pc' = "delete"
       /\ run' = [run EXCEPT !.lb = l]
       /\ UNCHANGED <<ex, queued, missed>>
  ELSE Fail

\* Mutant: Delete goes on with the load balancer that it did not find.
NotFound_Ignored ==
  /\ Goto(IF run.type \in Building THEN "create" ELSE "delete")
  /\ UNCHANGED <<ex, queued, missed>>

\* What Reconcile and Delete do about ErrNotFound.
NotFound ==
  /\ Goto(IF run.type \in Building THEN "create" ELSE "success")
  /\ UNCHANGED <<ex, queued, missed>>

RangesInvalid ==
  run.type \in Building /\ GetLoadBalancerSourceRanges(run.spec) = {}

\* Reconcile and Delete give up before they ask Octavia for anything.
Unprepared == cluster = "unreadable" \/ RangesInvalid

\* The list by name: none, one or several.
GetLoadbalancerByName ==
  /\ pc = "get"
  /\ \/ Unprepared /\ Fail
     \/ ~Unprepared /\ ValidLBs = {} /\ NotFound
     \/ ~Unprepared /\ \E l \in ValidLBs : ValidLBs = {l} /\ Found(l)
     \/ \E l, m \in ValidLBs : l # m /\ Fail    \* ErrMultipleResults
  /\ UNCHANGED <<lbs, late, faults, requests, cluster>>

CreateLoadBalancer ==
  /\ pc = "create"
  /\ IF FreeIds = {}
     THEN Fail /\ UNCHANGED lbs                 \* over quota
     ELSE /\ \E l \in FreeIds : /\ Posted(l, run.spec)
                               /\ run' = [run EXCEPT !.lb = l]
          /\ pc' = "waitCreated"
          /\ UNCHANGED <<ex, queued, missed>>
  /\ UNCHANGED <<late, faults, requests, cluster>>

\* WaitActiveAndGetLoadBalancer in CreateLoadBalancer.
WaitCreated ==
  /\ pc = "waitCreated"
  /\ \/ /\ lbs[run.lb].prov = "ACTIVE"
        /\ StartCheck(run)
        /\ UNCHANGED <<ex, queued, missed>>
     \/ lbs[run.lb].prov = "ERROR" /\ Fail
  /\ UNCHANGED <<lbs, late, faults, requests, cluster>>

\* One turn of the loop in CheckLoadBalancer: reflect.DeepEqual of the
\* slices, and the update.  Octavia refuses it unless the LB is ACTIVE.
CheckListener(p) ==
  /\ pc = "check" /\ p \in run.todo
  /\ LET same == Len(run.want) = 0 \/ DeepEqual(lbs[run.lb].acl[p], run.want)
     IN  IF ~same /\ lbs[run.lb].prov # "ACTIVE"
         THEN Fail /\ UNCHANGED lbs
         ELSE /\ IF same THEN UNCHANGED lbs ELSE ListenerPut(p)
              /\ run' = [run EXCEPT !.todo = @ \ {p}]
              /\ pc' = "waitListener"
              /\ UNCHANGED <<ex, queued, missed>>
  /\ UNCHANGED <<late, faults, requests, cluster>>

\* Mutant: the loop ends after its first listener.
AfterListener_Ends == "attach"

AfterListener == IF run.todo = {} THEN "attach" ELSE "check"

\* WaitActiveAndGetLoadBalancer in CheckLoadBalancer.
WaitListener ==
  /\ pc = "waitListener"
  /\ \/ /\ lbs[run.lb].prov = "ACTIVE"
        /\ run' = [run EXCEPT !.oper = lbs[run.lb].oper]
        /\ pc' = AfterListener
        /\ UNCHANGED <<ex, queued, missed>>
     \/ lbs[run.lb].prov = "ERROR" /\ Fail
  /\ UNCHANGED <<lbs, late, faults, requests, cluster>>

AttachFloatingIP ==
  /\ pc = "attach"
  /\ FloatingIPSet
  /\ Goto("report")
  /\ UNCHANGED <<ex, queued, missed, late, faults, requests, cluster>>

\* The operating status, 15 minutes after the creation; then the state of the
\* Extension.  The answer to the patch brings the current generation.
UpdateStatus ==
  /\ pc = "report"
  /\ IF run.oper = "OFFLINE" /\ lbs[run.lb].old
     THEN Fail
     ELSE /\ PatchStatus([ex EXCEPT !.state =
               [type |-> IF run.spec.private THEN "Private" ELSE "Public",
                internal |-> run.lb,
                external |-> IF run.spec.private THEN None ELSE run.lb]])
          /\ run' = [run EXCEPT !.gen = ex.gen]
          /\ pc' = "success"
  /\ UNCHANGED <<lbs, late, faults, requests, cluster>>

\* The DELETE.  404 is as good as success; 409 is an error.
DeleteLoadbalancer ==
  /\ pc = "delete"
  /\ IF lbs[run.lb].prov = "DELETED" \/ Deletable
     THEN /\ IF Deletable THEN SetProv(run.lb, "PENDING_DELETE")
                          ELSE UNCHANGED lbs
          /\ Goto("waitDeleted")
          /\ UNCHANGED <<ex, queued, missed>>
     ELSE Fail /\ UNCHANGED lbs
  /\ UNCHANGED <<late, faults, requests, cluster>>

\* waitLoadbalancerDeleted.  A Reconcile returns an error even after it
\* deleted the broken load balancer: the retry creates a new one.
WaitLoadbalancerDeleted ==
  /\ pc = "waitDeleted"
  /\ \/ /\ lbs[run.lb].prov = "DELETED"
        /\ IF run.type \in Building
           THEN Fail
           ELSE Goto("success") /\ UNCHANGED <<ex, queued, missed>>
     \/ lbs[run.lb].prov \notin {"DELETED", "PENDING_DELETE"} /\ Fail
  /\ UNCHANGED <<lbs, late, faults, requests, cluster>>

----------------------------------------------------------------------------
(* What can go wrong at each call.                                         *)

\* An OpenStack call fails, or a wait runs out of steps.  The panic for a
\* failed Get in CheckLoadBalancer and for a failed list of floating IPs is
\* a Crash.
CallFails ==
  /\ pc \in {"get", "create", "waitCreated", "check", "waitListener",
             "attach", "report", "delete", "waitDeleted"}
  /\ Fault /\ Fail
  /\ UNCHANGED <<lbs, late, requests, cluster>>

\* The server does what it was asked and the answer is lost.  (An attempt of
\* AttachFloatingIP that attached one floating IP and then failed on the next
\* is the same.)
AnswerLost ==
  /\ Fault /\ Fail
  /\ \/ pc = "create" /\ \E l \in FreeIds : Posted(l, run.spec)
     \/ /\ pc = "check" /\ lbs[run.lb].prov = "ACTIVE"
        /\ \E p \in run.todo : /\ ~DeepEqual(lbs[run.lb].acl[p], run.want)
                               /\ ListenerPut(p)
     \/ pc = "attach" /\ FloatingIPSet
     \/ pc = "delete" /\ Deletable /\ SetProv(run.lb, "PENDING_DELETE")
  /\ UNCHANGED <<late, requests, cluster>>

\* A write of the Extension fails outside the actuator.
PatchFails ==
  /\ pc \in {"start", "processing", "success", "finalize", "annotate"}
  /\ Fault /\ Requeue
  /\ UNCHANGED <<ex, lbs, late, requests, cluster>>

\* statusUpdater.Error fails too: the last operation stays Processing.
ErrorPatchFails ==
  /\ pc \in {"get", "create", "waitCreated", "check", "waitListener",
             "attach", "report", "delete", "waitDeleted"}
  /\ Fault /\ Requeue
  /\ UNCHANGED <<ex, lbs, late, requests, cluster>>

\* The process dies, panics or loses the lease, and the next leader starts
\* from create events.  A create call may be on its way.  (Of a DELETE or a PUT
\* that is, it is taken that it is served before the next leader lists anything,
\* which is an AnswerLost, or never.)
Crash ==
  /\ Fault
  /\ Done
  /\ queued' = (CreateFunc(ex) /\ ShootNotFailed)
  /\ missed' = (CreateFunc(ex) /\ ~ShootNotFailed)
  /\ \/ UNCHANGED late
     \/ LateCreates /\ pc = "create" /\ late' = late \union {run.spec}
  /\ UNCHANGED <<ex, lbs, requests, cluster>>

----------------------------------------------------------------------------
(* Octavia and Neutron (external).                                         *)

Provision(l) ==
  /\ \/ /\ lbs[l].prov \in {"PENDING_CREATE", "PENDING_UPDATE"}
        /\ SetProv(l, "ACTIVE")
     \/ lbs[l].prov = "PENDING_DELETE" /\ SetLB(l, NoLB)
  /\ UNCHANGED <<ex, queued, missed, pc, run, late, faults, requests, cluster>>

ProvisionFails(l) ==
  /\ \/ lbs[l].prov \in {"PENDING_CREATE", "PENDING_UPDATE"}
     \/ DeletesMayFail /\ lbs[l].prov = "PENDING_DELETE"
  /\ Fault
  /\ SetProv(l, "ERROR")
  /\ UNCHANGED <<ex, queued, missed, pc, run, late, requests, cluster>>

\* An operator or the health manager fails the amphora over.
Failover(l) ==
  /\ lbs[l].prov \in {"ACTIVE", "ERROR"}
  /\ Fault
  /\ SetProv(l, "PENDING_UPDATE")
  /\ UNCHANGED <<ex, queued, missed, pc, run, late, requests, cluster>>

\* The health monitor finds a working member, also during an update.
GoesOnline(l) ==
  /\ lbs[l].prov \in {"ACTIVE", "PENDING_UPDATE"} /\ lbs[l].oper = "OFFLINE"
  /\ SetLB(l, [lbs[l] EXCEPT !.oper = "ONLINE"])
  /\ UNCHANGED <<ex, queued, missed, pc, run, late, faults, requests, cluster>>

GoesOffline(l) ==
  /\ lbs[l].prov # "DELETED" /\ lbs[l].oper = "ONLINE"
  /\ Fault
  /\ SetLB(l, [lbs[l] EXCEPT !.oper = "OFFLINE"])
  /\ UNCHANGED <<ex, queued, missed, pc, run, late, requests, cluster>>

\* Fifteen minutes since the creation.
GrowsOld(l) ==
  /\ lbs[l].prov # "DELETED" /\ ~lbs[l].old
  /\ SetLB(l, [lbs[l] EXCEPT !.old = TRUE])
  /\ UNCHANGED <<ex, queued, missed, pc, run, late, faults, requests, cluster>>

\* Another shoot, or a person, moves the floating IP away.
FloatingIPTaken(l) ==
  /\ lbs[l].fip
  /\ Fault
  /\ SetLB(l, [lbs[l] EXCEPT !.fip = FALSE])
  /\ UNCHANGED <<ex, queued, missed, pc, run, late, requests, cluster>>

LateCreate ==
  /\ \E s \in late, l \in FreeIds : Posted(l, s) /\ late' = late \ {s}
  /\ UNCHANGED <<ex, queued, missed, pc, run, faults, requests, cluster>>

----------------------------------------------------------------------------
(* The gardenlet and the health check controller (external).               *)

\* The gardenlet gives the shoot up, or its Cluster cannot be read.
ClusterFails(c) ==
  /\ ShootMayFail /\ ShootNotFailed
  /\ Fault
  /\ cluster' = c
  /\ UNCHANGED <<ex, queued, missed, pc, run, lbs, late, requests>>

\* Somebody retries the shoot, or the Cluster is back.  The lifecycle
\* controller does not watch it.
ClusterRecovers ==
  /\ ~ShootNotFailed
  /\ cluster' = "ok"
  /\ UNCHANGED <<ex, queued, missed, pc, run, lbs, late, faults, requests>>

Request == requests < MaxRequests /\ requests' = requests + 1

Migrating ==
  ex.op = "migrate" \/ (ex.lastOp # None /\ ex.lastOp.type = "Migrate")

\* An Extension to be restored waits until the gardenlet wrote its state,
\* which nobody reads before.
CreateExtension(spec, op) ==
  /\ ~ex.there /\ pc = "idle"
  /\ Request
  /\ ex' = [Gone EXCEPT !.there = TRUE, !.op = op, !.spec = spec,
                        !.gen = 1, !.acked = FALSE,
                        !.state = IF op = "wait-for-state" THEN @ ELSE NoState]
  /\ Admit(CreateFunc(ex'))
  /\ UNCHANGED <<pc, run, lbs, late, faults, cluster>>

RequestRestore ==
  /\ ex.there /\ ex.op = "wait-for-state"
  /\ PatchMeta([ex EXCEPT !.op = "restore", !.acked = FALSE])
  /\ UNCHANGED <<pc, run, lbs, late, faults, requests, cluster>>

Restoring == ex.op \in {"wait-for-state", "restore"}

ChangeSpec(spec) ==
  /\ ex.there /\ ~ex.deleting /\ ~Migrating /\ ~Restoring
  /\ spec # ex.spec
  /\ Impatient \/ pc = "idle"
  /\ Request
  /\ PatchMeta([ex EXCEPT !.spec = spec, !.gen = @ + 1, !.op = "reconcile",
                          !.acked = FALSE])
  /\ UNCHANGED <<pc, run, lbs, late, faults, cluster>>

RequestMigrate ==
  /\ ex.there /\ ~ex.deleting /\ ~Migrating /\ ~Restoring
  /\ Request
  /\ PatchMeta([ex EXCEPT !.op = "migrate", !.acked = FALSE])
  /\ UNCHANGED <<pc, run, lbs, late, faults, cluster>>

\* Of a migrated Extension only once the migration succeeded.
RequestDelete ==
  /\ ex.there /\ ~ex.deleting
  /\ Migrating => IsMigrated
  /\ Request
  /\ IF ex.finalizer
     THEN PatchMeta([ex EXCEPT !.deleting = TRUE, !.acked = FALSE])
     ELSE ex' = Gone /\ UNCHANGED <<queued, missed>>
  /\ UNCHANGED <<pc, run, lbs, late, faults, cluster>>

\* The gardenlet asks again, with a new timestamp, for what is neither done nor
\* being retried, unless it gave the shoot up.
RequestAgain ==
  /\ ex.there /\ pc = "idle" /\ ~queued /\ cluster # "failed"
  /\ ex.op # "wait-for-state"
  /\ ex.deleting \/ (~IsMigrated /\ ~CheckExtensionObject)
  /\ PatchMeta([ex EXCEPT !.acked = FALSE,
                          !.op = IF ex.deleting \/ hasOperationAnnotation(ex)
                                 THEN @ ELSE "reconcile"])
  /\ UNCHANGED <<pc, run, lbs, late, faults, requests, cluster>>

\* Another controller writes the status: the health check its condition.
StatusWritten ==
  /\ ex.there
  /\ PatchStatus(ex)
  /\ UNCHANGED <<pc, run, lbs, late, faults, requests, cluster>>

----------------------------------------------------------------------------

Init ==
  /\ ex = [there |-> FALSE, deleting |-> FALSE, finalizer |-> FALSE,
           op |-> "", spec |-> None, gen |-> 0, obs |-> 0, acked |-> TRUE,
           lastOp |-> None, state |-> NoState]
  /\ queued = FALSE /\ missed = FALSE /\ cluster = "ok"
  /\ pc = "idle" /\ run = NoRun
  /\ lbs = [l \in LBs |-> NoLB] /\ late = {}
  /\ faults = 0 /\ requests = 0

Reconciler == PickUp \/ Start \/ Processing \/ Success \/ RemoveFinalizers
              \/ RemoveAnnotation \/ ObjectGone

Actuator == GetLoadbalancerByName \/ CreateLoadBalancer \/ WaitCreated
            \/ (\E p \in Ports : CheckListener(p)) \/ WaitListener
            \/ AttachFloatingIP \/ UpdateStatus \/ DeleteLoadbalancer
            \/ WaitLoadbalancerDeleted

Failures == CallFails \/ AnswerLost \/ PatchFails \/ ErrorPatchFails

OpenStack ==
  \/ LateCreate
  \/ \E l \in LBs : Provision(l) \/ ProvisionFails(l) \/ Failover(l)
                    \/ GoesOnline(l) \/ GoesOffline(l) \/ GrowsOld(l)
                    \/ FloatingIPTaken(l)

Gardenlet ==
  \/ \E spec \in Specs : \/ \E op \in {"reconcile", "wait-for-state"} :
                              CreateExtension(spec, op)
                         \/ ChangeSpec(spec)
  \/ RequestRestore \/ RequestMigrate \/ RequestDelete \/ RequestAgain

Shoot ==
  (\E c \in {"failed", "unreadable"} : ClusterFails(c)) \/ ClusterRecovers

Moves == Reconciler \/ Actuator \/ Failures \/ OpenStack \/ Gardenlet \/ Shoot

Next == Moves \/ Crash \/ StatusWritten

Spec == Init /\ [][Next]_vars

\* The workers run while there is work; Octavia finishes what it started and
\* its health monitor brings a provisioned load balancer online; the
\* gardenlet ends a restore that it began and repeats what was lost.  Nothing
\* is assumed of failures, of requests, nor of a shoot that has failed.
Fairness ==
  /\ WF_vars(Reconciler \/ Actuator)
  /\ \A l \in LBs : WF_vars(Provision(l)) /\ WF_vars(GoesOnline(l))
  /\ WF_vars(RequestRestore) /\ WF_vars(RequestAgain)

FairSpec == Spec /\ Fairness

----------------------------------------------------------------------------
(* Properties.                                                             *)

\* A run of the actuator's Reconcile or Restore has been reported a success.
Reconciled == ex.lastOp # None /\ ex.lastOp.type \in Building
              /\ ex.lastOp.state = "Succeeded"

\* Every listener of l admits exactly the source ranges of the spec.
Admits(l, spec) ==
  \A p \in Ports :
    Range(lbs[l].acl[p]) = GetLoadBalancerSourceRanges(spec)

\* While the Extension does not hold its finalizer (before the first
\* reconciliation, after Delete and after Migrate) no load balancer of its
\* name is in a valid status: the actuator never leaves one that nobody will
\* clean up.  Only with ~DeletesMayFail and ~LateCreates.
NoOrphan == ~ex.finalizer => ValidLBs = {}

\* getLoadbalancerByName never has to answer ErrMultipleResults.  Only with
\* ~DeletesMayFail and ~LateCreates.
OneLoadBalancer == \A l, m \in ValidLBs : l = m

\* When Success reports a Reconcile or a Restore, all the listeners admit
\* exactly the ranges of the spec that the run worked from, whatever partial
\* updates earlier runs left, and the state names the load balancer that was
\* checked.
SuccessMeansConfigured ==
  [][~Reconciled /\ Reconciled' => /\ Admits(run.lb, run.spec)
                                   /\ ex'.state.internal = run.lb]_vars

\* The address in the state of an Extension whose last operation is a
\* succeeded reconciliation is that of a load balancer that exists and is not
\* being deleted: the actuator deletes only between Processing and the next
\* Success.
AdvertisedIsLive == Reconciled => ex.state.internal \in ValidLBs

\* A cluster whose state says Private cannot be reached from outside, even if
\* it was public before and runs failed in between.
PrivateNotExposed ==
  Reconciled /\ ex.state.type = "Private" => ~lbs[ex.state.internal].fip

\* What CheckExtensionObject calls healthy has the ranges and the kind that
\* the current spec asks for; a spec with an invalid range never becomes
\* healthy.  Only with ~Impatient.
HealthyMeansConfigured ==
  CheckExtensionObject /\ Reconciled =>
    /\ Admits(ex.state.internal, ex.spec)
    /\ ex.state.type = IF ex.spec.private THEN "Private" ELSE "Public"

\* An Extension nobody works on and nobody will has no open annotation, is not
\* being deleted, and its last operation succeeded: no failure, crash or
\* change between two calls makes the controller drop an operation that was
\* reported as started.  The one exception is the Cluster: while the shoot has
\* failed or its Cluster cannot be read, events are dropped, and so is the run
\* for a failed shoot.  Once the key is taken again the exception is over.
NothingForgotten ==
  ex.there /\ ex.op # "wait-for-state" /\ pc = "idle" /\ ~queued /\ ~missed =>
    /\ ex.op = "" /\ ~ex.deleting
    /\ ex.lastOp # None /\ ex.lastOp.state = "Succeeded"

\* A deletion finishes, once failures stop and whatever they left behind: also
\* if its events came while the shoot had failed or its Cluster could not be
\* read, as soon as that is over.
DeletionCompletes == ex.deleting ~> ~ex.there \/ ~ShootNotFailed

\* So does a migration.
MigrationCompletes ==
  ex.op = "migrate" ~> ~ex.there \/ IsMigrated \/ ~ShootNotFailed

\* An Extension becomes healthy, unless it is deleted or migrated, its shoot
\* stays failed or it asks for a range that is none: also after specs whose
\* ranges were invalid.
ReconciliationCompletes ==
  ex.there ~> \/ CheckExtensionObject /\ Reconciled
              \/ ~ex.there \/ ex.deleting \/ Migrating \/ ~ShootNotFailed
              \/ GetLoadBalancerSourceRanges(ex.spec) = {}

----------------------------------------------------------------------------
(* What comments and errors of the code say and the code does not do.      *)

\* DeleteLoadbalancer "deletes a loadbalancer and wait for it's gone": the
\* finalizer is not released before.
GoneBeforeRelease ==
  ~ex.finalizer => \A l \in LBs : lbs[l].prov = "DELETED"

\* A listener is only rewritten when it does not admit the right set of
\* ranges: the order of StringSlice "is undefined".
UpdatedOnlyIfDifferent ==
  [][\A l \in LBs, p \in Ports :
       l \in ValidLBs /\ lbs'[l].acl[p] # lbs[l].acl[p]
         => Range(lbs'[l].acl[p]) # Range(lbs[l].acl[p])]_vars

============================================================================
