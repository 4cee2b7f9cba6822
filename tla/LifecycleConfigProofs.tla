----------------------- MODULE LifecycleConfigProofs -----------------------
(***************************************************************************)
(* What a success reported by the lifecycle controller means: proofs about *)
(* Lifecycle with no restriction on failed deletes, late creates and       *)
(* changes of the spec during a run, except where a theorem says so.       *)
(***************************************************************************)
EXTENDS LifecycleProofs

\* The steps between Processing and Success.
Working == {"get", "delete", "waitDeleted", "success"} \union ReconcileSteps

\* The steps at which the worker changes a load balancer that exists.
Writing == {"check", "attach", "delete"}

KindOf(spec) == IF spec.private THEN "Private" ELSE "Public"

\* Load balancer l is as the spec wants it.
Configured(l, spec) ==
  /\ l \in ValidLBs
  /\ Admits(l, spec)
  /\ spec.private => ~lbs[l].fip

\* What CheckLoadBalancer has established after a part of its loop: the
\* listeners it is done with admit the ranges of the spec.
Checked ==
  /\ Range(run.want) = GetLoadBalancerSourceRanges(run.spec)
  /\ \A p \in Ports \ run.todo :
       Range(lbs[run.lb].acl[p]) = GetLoadBalancerSourceRanges(run.spec)

\* What the worker knows at each of its steps.
StepInv ==
  /\ pc \in ReconcileSteps => GetLoadBalancerSourceRanges(run.spec) # {}
  /\ pc \in ReconcileSteps \ {"create"} => run.lb \in ValidLBs
  /\ pc \in {"check", "waitListener", "attach", "report"} => Checked
  /\ pc \in {"attach", "report"} => run.todo = {}
  /\ pc = "report" /\ run.spec.private => ~lbs[run.lb].fip
  /\ pc = "success" /\ run.type \in Building =>
       /\ Configured(run.lb, run.spec)
       /\ ex.state.internal = run.lb
       /\ ex.state.type = KindOf(run.spec)

\* No success is on record while the worker changes load balancers, and what
\* the last success advertised is still there.
ReportInv ==
  /\ pc \in Working => ~Reconciled
  /\ AdvertisedIsLive
  /\ PrivateNotExposed

ConfigInv == StepInv /\ ReportInv

(***************************************************************************)
(* Which steps change a load balancer that exists.                         *)
(***************************************************************************)

\* A valid load balancer stays valid, its listeners stay as they are and it
\* does not get a floating IP.
Keeps(m) ==
  /\ m \in ValidLBs'
  /\ lbs'[m].acl = lbs[m].acl
  /\ lbs'[m].fip => lbs[m].fip

\* Octavia by itself does no more than that to a valid load balancer.
LEMMA OpenStackKeeps ==
  ASSUME TypeInv, OpenStack, NEW m \in ValidLBs
  PROVE  Keeps(m)
<1> USE DEF TypeInv
<1>0. m \in LBs /\ lbs[m].prov \notin {"DELETED", "PENDING_DELETE"}
  BY DEF ValidLBs
<1>1. CASE LateCreate
  <2>1. PICK l \in FreeIds, s \in late : Posted(l, s)
    BY <1>1 DEF LateCreate
  <2>2. l \in LBs /\ l # m
    BY <1>0 DEF FreeIds
  <2>3. lbs'[m] = lbs[m]
    BY <1>0, <2>1, <2>2 DEF Posted, SetLB, TypeOK
  <2> QED BY <1>0, <2>3 DEF Keeps, ValidLBs
<1>2. ASSUME NEW l \in LBs,
             \/ Provision(l) \/ ProvisionFails(l) \/ Failover(l)
             \/ GoesOnline(l) \/ GoesOffline(l) \/ GrowsOld(l)
             \/ FloatingIPTaken(l)
      PROVE  Keeps(m)
  <2>1. PICK lb : lbs' = [lbs EXCEPT ![l] = lb]
    BY <1>2 DEF Provision, ProvisionFails, Failover, GoesOnline, GoesOffline,
                GrowsOld, FloatingIPTaken, SetProv, SetLB
  <2>2. CASE l # m
    <3>1. lbs'[m] = lbs[m]
      BY <1>0, <2>1, <2>2 DEF TypeOK
    <3> QED BY <1>0, <3>1 DEF Keeps, ValidLBs
  <2>3. CASE l = m
    <3>1. lbs[m] \in LoadBalancers
      BY <1>0 DEF TypeOK
    <3>2. lbs'[m] = lb
      BY <1>0, <2>1, <2>3 DEF TypeOK
    <3>3. /\ lb.prov \notin {"DELETED", "PENDING_DELETE"}
          /\ lb.acl = lbs[m].acl
          /\ lb.fip => lbs[m].fip
      <4>1. CASE Provision(l) \/ ProvisionFails(l) \/ Failover(l)
        <5>1. PICK prov \in {"ACTIVE", "ERROR", "PENDING_UPDATE"} :
                lbs' = [lbs EXCEPT ![m] = [lbs[m] EXCEPT !.prov = prov]]
          BY <1>0, <2>3, <4>1
          DEF Provision, ProvisionFails, Failover, SetProv, SetLB
        <5>2. lb = [lbs[m] EXCEPT !.prov = prov]
          BY <1>0, <3>2, <5>1 DEF TypeOK
        <5> QED BY <3>1, <5>2 DEF LoadBalancers
      <4>2. CASE GoesOnline(l) \/ GoesOffline(l)
        <5>1. PICK oper :
                lbs' = [lbs EXCEPT ![m] = [lbs[m] EXCEPT !.oper = oper]]
          BY <2>3, <4>2 DEF GoesOnline, GoesOffline, SetLB
        <5>2. lb = [lbs[m] EXCEPT !.oper = oper]
          BY <1>0, <3>2, <5>1 DEF TypeOK
        <5> QED BY <1>0, <3>1, <5>2 DEF LoadBalancers
      <4>3. CASE GrowsOld(l) \/ FloatingIPTaken(l)
        <5>1. \/ lb = [lbs[m] EXCEPT !.old = TRUE]
              \/ lb = [lbs[m] EXCEPT !.fip = FALSE]
          BY <1>0, <2>3, <3>2, <4>3 DEF GrowsOld, FloatingIPTaken, SetLB, TypeOK
        <5> QED BY <1>0, <3>1, <5>1 DEF LoadBalancers
      <4> QED BY <1>2, <4>1, <4>2, <4>3
    <3> QED BY <1>0, <3>2, <3>3 DEF Keeps, ValidLBs
  <2> QED BY <2>2, <2>3
<1> QED BY <1>1, <1>2 DEF OpenStack

\* What a step does to the table of load balancers: nothing, a create, a
\* change of the load balancer of the run, or a step of Octavia.
LEMMA LbsStep ==
  ASSUME TypeInv, [Next]_vars
  PROVE  \/ UNCHANGED lbs
         \/ \E l \in FreeIds, spec \in Specs : Posted(l, spec)
         \/ /\ pc \in Writing /\ pc' # pc
            /\ \E lb : SetLB(run.lb, lb)
         \/ OpenStack
<1>1. CASE UNCHANGED vars
  BY <1>1 DEF vars
<1>2. CASE Reconciler \/ Crash \/ Gardenlet \/ Shoot \/ StatusWritten
  BY <1>2 DEF Reconciler, PickUp, Start, Processing, Success,
       RemoveFinalizers, RemoveAnnotation, ObjectGone, Crash, Gardenlet,
       CreateExtension, ChangeSpec, RequestMigrate, RequestDelete,
       RequestAgain, RequestRestore, Shoot, ClusterFails, ClusterRecovers,
       StatusWritten
<1>3. CASE Actuator
  <2>1. CASE GetLoadbalancerByName \/ WaitCreated \/ WaitListener
             \/ UpdateStatus \/ WaitLoadbalancerDeleted
    BY <2>1 DEF GetLoadbalancerByName, WaitCreated, WaitListener, UpdateStatus,
                WaitLoadbalancerDeleted
  <2>2. CASE CreateLoadBalancer
    BY <2>2 DEF CreateLoadBalancer, TypeInv, RunOK
  <2>3. ASSUME NEW p \in Ports, CheckListener(p)
        PROVE  \/ UNCHANGED lbs
               \/ /\ pc \in Writing /\ pc' # pc
                  /\ \E lb : SetLB(run.lb, lb)
    BY <2>3 DEF CheckListener, ListenerPut, Writing
  <2>4. CASE AttachFloatingIP \/ DeleteLoadbalancer
    BY <2>4 DEF AttachFloatingIP, FloatingIPSet, DeleteLoadbalancer, SetProv,
                Goto, Writing
  <2> QED BY <1>3, <2>1, <2>2, <2>3, <2>4 DEF Actuator
<1>4. CASE Failures
  <2>1. CASE CallFails \/ PatchFails \/ ErrorPatchFails
    BY <2>1 DEF CallFails, PatchFails, ErrorPatchFails
  <2>2. CASE AnswerLost
    BY <2>2 DEF AnswerLost, Fail, Requeue, ListenerPut, FloatingIPSet, SetProv,
                Writing, TypeInv, RunOK
  <2> QED BY <1>4, <2>1, <2>2 DEF Failures
<1> QED BY <1>1, <1>2, <1>3, <1>4 DEF Next, Moves

\* A valid load balancer is kept by every step except a call of the worker
\* that is meant for it.
LEMMA Kept ==
  ASSUME TypeInv, [Next]_vars, NEW m \in ValidLBs,
         m # run.lb \/ pc \notin Writing \/ pc' = pc
  PROVE  Keeps(m)
<1>0. m \in LBs /\ lbs[m].prov \notin {"DELETED", "PENDING_DELETE"}
  BY DEF ValidLBs
<1>1. ASSUME lbs'[m] = lbs[m] PROVE Keeps(m)
  BY <1>0, <1>1 DEF Keeps, ValidLBs
<1>2. CASE UNCHANGED lbs
  BY <1>1, <1>2
<1>3. ASSUME NEW l \in FreeIds, NEW spec, Posted(l, spec) PROVE Keeps(m)
  <2>1. l # m
    BY <1>0 DEF FreeIds
  <2>2. lbs'[m] = lbs[m]
    BY <1>0, <1>3, <2>1 DEF Posted, SetLB, TypeInv, TypeOK
  <2> QED BY <1>1, <2>2
<1>4. ASSUME NEW lb, SetLB(run.lb, lb), m # run.lb PROVE Keeps(m)
  <2>1. lbs'[m] = lbs[m]
    BY <1>0, <1>4 DEF SetLB, TypeInv, TypeOK
  <2> QED BY <1>1, <2>1
<1>5. CASE OpenStack
  BY <1>5, OpenStackKeeps
<1> QED BY <1>2, <1>3, <1>4, <1>5, LbsStep

(***************************************************************************)
(* The last operation and the state.                                       *)
(***************************************************************************)

\* Only Success makes the last operation a succeeded reconciliation, and only
\* UpdateStatus writes the state of an Extension with a last operation.
LEMMA OnlySuccessReports ==
  ASSUME TypeInv, [Next]_vars, ~Success, Reconciled'
  PROVE  ex'.lastOp = ex.lastOp /\ (pc # "report" => ex'.state = ex.state)
<1>a. ex'.lastOp.state = "Succeeded"
  BY DEF Reconciled
<1>b. ASSUME NEW t, ex'.lastOp = LastOperation(t, "Error")
                    \/ ex'.lastOp = LastOperation(t, "Processing")
      PROVE  FALSE
  BY <1>a, <1>b DEF LastOperation
<1> USE DEF TypeInv, TypeOK, Extensions
<1>0. ASSUME Fail
      PROVE  ex'.lastOp = ex.lastOp /\ ex'.state = ex.state
  <2>1. CASE ex.there
    <3>1. ex'.lastOp = LastOperation(run.type, "Error")
      BY <1>0, <2>1 DEF Fail
    <3> QED BY <1>b, <3>1
  <2>2. CASE ~ex.there
    BY <1>0, <2>2 DEF Fail
  <2> QED BY <2>1, <2>2
<1>1. CASE Reconciler
  <2>1. CASE PickUp \/ RemoveAnnotation
    BY <2>1 DEF PickUp, RemoveAnnotation, PatchMeta
  <2>2. CASE Start
    BY <2>2, StartCases DEF Operate, PatchMeta
  <2>3. CASE Processing
    <3>1. ex'.lastOp = LastOperation(run.type, "Processing")
      BY <2>3 DEF Processing, ReportProcessing, PatchStatus
    <3> QED BY <1>b, <3>1
  <2>4. CASE RemoveFinalizers
    <3>1. CASE ex' = Gone
      BY <3>1 DEF Gone, Reconciled
    <3>2. CASE ex' = [ex EXCEPT !.finalizer = FALSE]
      BY <3>2
    <3> QED BY <2>4, <3>1, <3>2 DEF RemoveFinalizers, PatchMeta
  <2>5. CASE ObjectGone
    BY <2>5 DEF ObjectGone
  <2> QED BY <1>1, <2>1, <2>2, <2>3, <2>4, <2>5 DEF Reconciler
<1>2. CASE Actuator
  <2>1. CASE Fail
    BY <1>0, <2>1
  <2>2. CASE UNCHANGED ex
    BY <2>2
  <2>3. CASE UpdateStatus /\ ~Fail
    BY <2>3 DEF UpdateStatus, PatchStatus
  <2> QED BY <1>2, <2>1, <2>2, <2>3
      DEF Actuator, GetLoadbalancerByName, Found, NotFound, CreateLoadBalancer,
          WaitCreated, CheckListener, WaitListener, AttachFloatingIP,
          DeleteLoadbalancer, WaitLoadbalancerDeleted
<1>3. CASE Failures \/ Crash
  BY <1>0, <1>3 DEF Failures, CallFails, AnswerLost, PatchFails,
                    ErrorPatchFails, Crash
<1>4. CASE OpenStack
  BY <1>4 DEF OpenStack, LateCreate, Provision, ProvisionFails, Failover,
              GoesOnline, GoesOffline, GrowsOld, FloatingIPTaken
<1>5. CASE Gardenlet \/ StatusWritten
  <2>1. ASSUME NEW spec \in Specs, NEW op \in {"reconcile", "wait-for-state"},
               CreateExtension(spec, op)
        PROVE  FALSE
    <3>1. ex'.lastOp = None
      BY <2>1 DEF CreateExtension, PatchMeta, Gone
    <3> QED BY <3>1 DEF Reconciled
  <2>2. ASSUME NEW spec \in Specs, ChangeSpec(spec)
        PROVE  ex'.lastOp = ex.lastOp /\ ex'.state = ex.state
    BY <2>2 DEF ChangeSpec, PatchMeta
  <2>3. CASE RequestMigrate \/ RequestAgain \/ RequestRestore \/ StatusWritten
    BY <2>3 DEF RequestMigrate, RequestAgain, RequestRestore, StatusWritten,
        PatchMeta,
                PatchStatus
  <2>4. CASE RequestDelete
    <3>1. CASE ex' = Gone
      BY <3>1 DEF Gone, Reconciled
    <3>2. CASE ex' = [ex EXCEPT !.deleting = TRUE, !.acked = FALSE]
      BY <3>2
    <3> QED BY <2>4, <3>1, <3>2 DEF RequestDelete, PatchMeta
  <2> QED BY <1>5, <2>1, <2>2, <2>3, <2>4 DEF Gardenlet
<1>6. CASE Shoot \/ UNCHANGED vars
  BY <1>6 DEF Shoot, ClusterFails, ClusterRecovers, vars
<1> QED BY <1>1, <1>2, <1>3, <1>4, <1>5, <1>6 DEF Next, Moves

\* A worker comes to work by Processing, and Success ends the work.
LEMMA WorkBegins ==
  ASSUME [Next]_vars, pc' \in Working
  PROVE  ~Success /\ (pc \in Working \/ Processing)
<1> USE DEF Working, ReconcileSteps
<1>1. CASE Reconciler
  BY <1>1, StartCases DEF Reconciler, PickUp, Operate, Processing, Success,
       RemoveFinalizers, RemoveAnnotation, ObjectGone, Done, Goto, Requeue
<1>2. CASE Actuator
  BY <1>2 DEF Actuator, GetLoadbalancerByName, CreateLoadBalancer, WaitCreated,
       CheckListener, WaitListener, AttachFloatingIP, UpdateStatus,
       DeleteLoadbalancer, WaitLoadbalancerDeleted, Success
<1>3. CASE Failures \/ Crash
  BY <1>3 DEF Failures, CallFails, AnswerLost, PatchFails, ErrorPatchFails,
              Crash, Fail, Requeue, Done
<1>4. CASE UNCHANGED pc
  <2>1. ~Success
    BY <1>4 DEF Success, Done, Goto
  <2> QED BY <1>4, <2>1
<1> QED BY <1>1, <1>2, <1>3, <1>4
    DEF Next, Moves, OpenStack, LateCreate, Provision, ProvisionFails, Failover,
        GoesOnline, GoesOffline, GrowsOld, FloatingIPTaken, Gardenlet,
        CreateExtension, ChangeSpec, RequestMigrate, RequestDelete,
        RequestAgain, RequestRestore, Shoot, ClusterFails, ClusterRecovers,
        StatusWritten, vars

\* Success reports what the run established.
LEMMA SuccessReports ==
  ASSUME TypeInv, ConfigInv, Success, Reconciled'
  PROVE  /\ Configured(run.lb, run.spec)
         /\ ex'.state = ex.state /\ ex.state.internal = run.lb
         /\ ex.state.type = KindOf(run.spec)
<1>1. ex'.lastOp = LastOperation(run.type, "Succeeded") /\ ex'.state = ex.state
  BY DEF Success, PatchStatus, TypeInv, TypeOK, Extensions
<1>2. run.type \in Building
  BY <1>1 DEF LastOperation, Reconciled
<1> QED BY <1>1, <1>2 DEF Success, ConfigInv, StepInv

\* Every step preserves ReportInv.
LEMMA ReportNext ==
  ASSUME TypeInv, ConfigInv, [Next]_vars
  PROVE  ReportInv'
<1>1. pc' \in Working => ~Reconciled'
  <2> SUFFICES ASSUME pc' \in Working, Reconciled' PROVE FALSE
    OBVIOUS
  <2>1. ~Success /\ (pc \in Working \/ Processing)
    BY WorkBegins
  <2>2. ex'.lastOp = ex.lastOp
    BY <2>1, OnlySuccessReports
  <2>3. Reconciled
    BY <2>2 DEF Reconciled
  <2>4. Processing
    BY <2>1, <2>3 DEF ConfigInv, ReportInv
  <2>5. ex'.lastOp = LastOperation(run.type, "Processing")
    BY <2>4 DEF Processing, ReportProcessing, PatchStatus, TypeInv, TypeOK,
                Extensions
  <2> QED BY <2>5 DEF LastOperation, Reconciled
<1>2. AdvertisedIsLive' /\ PrivateNotExposed'
  <2> SUFFICES ASSUME Reconciled'
               PROVE  /\ ex'.state.internal \in ValidLBs'
                      /\ ex'.state.type = "Private"
                           => ~lbs'[ex'.state.internal].fip
    BY DEF AdvertisedIsLive, PrivateNotExposed
  <2>1. CASE Success
    <3>1. /\ Configured(run.lb, run.spec)
          /\ ex'.state = ex.state /\ ex.state.internal = run.lb
          /\ ex.state.type = KindOf(run.spec)
      BY <2>1, SuccessReports
    <3>2. Keeps(run.lb)
      BY <2>1, <3>1, Kept DEF Success, Writing, Configured
    <3> QED BY <3>1, <3>2 DEF Configured, KindOf, Keeps
  <2>2. CASE ~Success
    <3>1. ex'.lastOp = ex.lastOp /\ (pc # "report" => ex'.state = ex.state)
      BY <2>2, OnlySuccessReports
    <3>2. Reconciled
      BY <3>1 DEF Reconciled
    <3>3. pc \notin Working
      BY <3>2 DEF ConfigInv, ReportInv
    <3>4. pc # "report" /\ pc \notin Writing
      BY <3>3 DEF Working, ReconcileSteps, Writing
    <3>5. /\ ex.state.internal \in ValidLBs
          /\ ex.state.type = "Private" => ~lbs[ex.state.internal].fip
      BY <3>2 DEF ConfigInv, ReportInv, AdvertisedIsLive, PrivateNotExposed
    <3>6. Keeps(ex.state.internal)
      BY <3>4, <3>5, Kept
    <3> QED BY <3>1, <3>4, <3>5, <3>6 DEF Keeps
  <2> QED BY <2>1, <2>2
<1> QED BY <1>1, <1>2 DEF ReportInv

(***************************************************************************)
(* The steps of a run.                                                     *)
(***************************************************************************)

\* StepInv says nothing of a worker at rest, at the beginning, deleting or
\* after Success.
LEMMA StepTrivial ==
  ASSUME pc' \in {"idle", "start", "processing", "get", "delete", "waitDeleted",
                  "finalize", "annotate"}
  PROVE  StepInv'
BY DEF StepInv, ReconcileSteps

\* A step beside the run preserves what the run knows.
LEMMA StepBeside ==
  ASSUME TypeInv, ConfigInv, [Next]_vars, UNCHANGED <<pc, run>>,
         pc = "success" => ex'.state = ex.state
  PROVE  StepInv'
<1> USE DEF ConfigInv
<1>1. ASSUME run.lb \in ValidLBs PROVE Keeps(run.lb)
  BY <1>1, Kept
<1>2. CASE pc \in ReconcileSteps \ {"create"}
  <2>1. run.lb \in ValidLBs /\ Keeps(run.lb)
    BY <1>1, <1>2 DEF StepInv
  <2> QED BY <1>2, <2>1 DEF StepInv, Checked, Keeps, ReconcileSteps
<1>3. CASE pc = "success" /\ run.type \in Building
  <2>1. Configured(run.lb, run.spec) /\ Keeps(run.lb)
    BY <1>1, <1>3 DEF StepInv, Configured
  <2>2. Configured(run.lb, run.spec)'
    BY <2>1 DEF Configured, Admits, Keeps
  <2> QED BY <1>3, <2>2 DEF StepInv, ReconcileSteps
<1>4. CASE pc = "create"
  BY <1>4 DEF StepInv, ReconcileSteps
<1>5. CASE /\ pc \notin ReconcileSteps
           /\ ~(pc = "success" /\ run.type \in Building)
  BY <1>5 DEF StepInv, ReconcileSteps
<1> QED BY <1>2, <1>3, <1>4, <1>5

\* CheckLoadBalancer begins with a load balancer that was just seen.
LEMMA StepStartCheck ==
  ASSUME TypeInv, NEW r \in Runs, StartCheck(r), UNCHANGED lbs,
         r.spec \in Specs, r.lb \in ValidLBs,
         GetLoadBalancerSourceRanges(r.spec) # {}
  PROVE  StepInv'
<1>1. /\ pc' = "check" /\ run'.spec = r.spec /\ run'.lb = r.lb
      /\ run'.todo = Ports
      /\ Range(run'.want) = GetLoadBalancerSourceRanges(r.spec)
  BY StartCheckType DEF TypeInv
<1>2. ValidLBs' = ValidLBs
  BY DEF ValidLBs
<1> QED BY <1>1, <1>2 DEF StepInv, Checked, ReconcileSteps

\* One turn of the loop of CheckLoadBalancer.
LEMMA StepCheckListener ==
  ASSUME TypeInv, StepInv, NEW p \in Ports, CheckListener(p), pc' # "idle"
  PROVE  StepInv'
<1> DEFINE l == run.lb
           S == GetLoadBalancerSourceRanges(run.spec)
<1>1. /\ pc = "check" /\ pc' = "waitListener"
      /\ run' = [run EXCEPT !.todo = run.todo \ {p}]
  BY DEF CheckListener, Fail, Requeue
<1>2. /\ run'.spec = run.spec /\ run'.lb = l /\ run'.want = run.want
      /\ run'.todo = run.todo \ {p}
  BY <1>1 DEF TypeInv, TypeOK, Runs
<1>3. l \in ValidLBs /\ l \in LBs /\ Checked /\ S # {}
  BY <1>1 DEF StepInv, ReconcileSteps, ValidLBs
<1>4. /\ l \in ValidLBs'
      /\ Range(lbs'[l].acl[p]) = S
      /\ \A q \in Ports \ {p} : lbs'[l].acl[q] = lbs[l].acl[q]
  <2>1. CASE UNCHANGED lbs
             /\ (Len(run.want) = 0 \/ DeepEqual(lbs[l].acl[p], run.want))
    <3>1. run.want \in Seq(Nets)
      BY DEF TypeInv, TypeOK, Runs
    <3>2. Len(run.want) = 0 => Range(run.want) = {}
      BY <3>1 DEF Range
    <3>3. lbs[l].acl[p] = run.want
      BY <1>3, <2>1, <3>2 DEF DeepEqual, Checked
    <3> QED BY <1>3, <2>1, <3>3 DEF Checked, ValidLBs
  <2>2. CASE ListenerPut(p)
    <3>1. l \in ValidLBs'
      BY <1>3, <2>2, ValidAfterListenerPut DEF TypeInv
    <3>2. lbs[l] \in LoadBalancers
      BY <1>3 DEF TypeInv, TypeOK
    <3>3. lbs'[l] = [lbs[l] EXCEPT !.prov = "PENDING_UPDATE",
                                   !.acl[p] = run.want]
      BY <1>3, <2>2 DEF ListenerPut, SetLB, TypeInv, TypeOK
    <3>4. lbs'[l].acl = [lbs[l].acl EXCEPT ![p] = run.want]
      BY <3>2, <3>3 DEF LoadBalancers
    <3>5. lbs[l].acl \in [Ports -> Seq(Nets)]
      BY <3>2 DEF LoadBalancers
    <3> QED BY <1>3, <3>1, <3>4, <3>5 DEF Checked
  <2> QED BY <1>1, <2>1, <2>2 DEF CheckListener, Fail, Requeue
<1>5. Checked'
  <2>1. Range(run'.want) = GetLoadBalancerSourceRanges(run'.spec)
    BY <1>2, <1>3 DEF Checked
  <2>2. ASSUME NEW q \in Ports \ run'.todo
        PROVE  Range(lbs'[run'.lb].acl[q])
                 = GetLoadBalancerSourceRanges(run'.spec)
    BY <1>2, <1>3, <1>4 DEF Checked
  <2> QED BY <2>1, <2>2 DEF Checked
<1> QED BY <1>1, <1>2, <1>3, <1>4, <1>5 DEF StepInv, ReconcileSteps

\* A step of the actuator preserves StepInv.
LEMMA StepActuator ==
  ASSUME TypeInv, StepInv, Actuator
  PROVE  StepInv'
<1>0. CASE Fail
  BY <1>0, StepTrivial DEF Fail, Requeue
<1>1. CASE GetLoadbalancerByName /\ ~Fail
  <2>0. pc = "get" /\ UNCHANGED lbs /\ run.spec \in Specs
    BY <1>1 DEF GetLoadbalancerByName, TypeInv, RunOK
  <2>1. CASE /\ ~RangesInvalid
             /\ NotFound
    BY <2>1 DEF RangesInvalid, NotFound, Goto, StepInv, ReconcileSteps
  <2>2. ASSUME NEW l \in ValidLBs, ~RangesInvalid, Found(l)
        PROVE  StepInv'
    <3>1. CASE pc' = "delete"
      BY <3>1, StepTrivial
    <3>2. CASE pc' # "delete"
      <4> DEFINE r == [run EXCEPT !.lb = l]
      <4>1. run.type \in Building /\ StartCheck(r)
        BY <1>1, <2>2, <3>2 DEF Found
      <4>2. r \in Runs /\ r.spec = run.spec /\ r.lb = l
        BY DEF TypeInv, TypeOK, Runs, ValidLBs
      <4>3. GetLoadBalancerSourceRanges(run.spec) # {}
        BY <2>2, <4>1 DEF RangesInvalid
      <4> HIDE DEF r
      <4> QED BY <2>0, <4>1, <4>2, <4>3, StepStartCheck
    <3> QED BY <3>1, <3>2
  <2> QED BY <1>1, <2>1, <2>2 DEF GetLoadbalancerByName, Unprepared
<1>2. CASE CreateLoadBalancer /\ ~Fail
  <2>1. PICK l \in FreeIds : Posted(l, run.spec) /\ run' = [run EXCEPT !.lb = l]
    BY <1>2 DEF CreateLoadBalancer
  <2>2. l \in LBs /\ run'.lb = l /\ run'.spec = run.spec
    BY <2>1 DEF FreeIds, TypeInv, TypeOK, Runs
  <2>3. l \in ValidLBs'
    BY <2>1, <2>2, ValidAfterPosted DEF TypeInv
  <2> QED BY <1>2, <2>2, <2>3 DEF CreateLoadBalancer, StepInv, ReconcileSteps
<1>3. CASE WaitCreated /\ ~Fail
  <2>1. StartCheck(run) /\ UNCHANGED lbs /\ pc = "waitCreated"
    BY <1>3 DEF WaitCreated
  <2>2. run \in Runs /\ run.spec \in Specs
    BY <2>1 DEF TypeInv, TypeOK, RunOK
  <2> QED BY <2>1, <2>2, StepStartCheck DEF StepInv, ReconcileSteps
<1>4. ASSUME NEW p \in Ports, CheckListener(p), ~Fail PROVE StepInv'
  BY <1>4, StepCheckListener DEF CheckListener
<1>5. CASE WaitListener /\ ~Fail
  <2>1. /\ pc = "waitListener" /\ UNCHANGED lbs
        /\ run' = [run EXCEPT !.oper = lbs[run.lb].oper]
        /\ pc' = IF run.todo = {} THEN "attach" ELSE "check"
    BY <1>5 DEF WaitListener, AfterListener
  <2>2. /\ run'.spec = run.spec /\ run'.lb = run.lb /\ run'.want = run.want
        /\ run'.todo = run.todo
    BY <2>1 DEF TypeInv, TypeOK, Runs
  <2>3. ValidLBs' = ValidLBs
    BY <2>1 DEF ValidLBs
  <2> QED BY <2>1, <2>2, <2>3 DEF StepInv, Checked, ReconcileSteps
<1>6. CASE AttachFloatingIP
  <2>1. pc = "attach" /\ pc' = "report" /\ run' = run /\ FloatingIPSet
    BY <1>6 DEF AttachFloatingIP, Goto
  <2>2. run.lb \in ValidLBs /\ run.lb \in LBs
    BY <2>1 DEF StepInv, ReconcileSteps, ValidLBs
  <2>3. ValidLBs' = ValidLBs
    BY <2>1, <2>2, ValidAfterFloatingIPSet DEF TypeInv
  <2>4. lbs'[run.lb] = [lbs[run.lb] EXCEPT !.fip = ~run.spec.private]
        /\ lbs[run.lb] \in LoadBalancers
    BY <2>1, <2>2 DEF FloatingIPSet, SetLB, TypeInv, TypeOK
  <2>5. lbs'[run.lb].acl = lbs[run.lb].acl
        /\ lbs'[run.lb].fip = ~run.spec.private
    BY <2>4 DEF LoadBalancers
  <2> QED BY <2>1, <2>2, <2>3, <2>5 DEF StepInv, Checked, ReconcileSteps
<1>7. CASE UpdateStatus /\ ~Fail
  <2> DEFINE s == [type |-> IF run.spec.private THEN "Private" ELSE "Public",
                   internal |-> run.lb,
                   external |-> IF run.spec.private THEN None ELSE run.lb]
  <2>1. /\ pc = "report" /\ pc' = "success" /\ UNCHANGED lbs
        /\ ex' = [ex EXCEPT !.state = s]
        /\ run' = [run EXCEPT !.gen = ex.gen]
    BY <1>7 DEF UpdateStatus, PatchStatus
  <2>2. run'.spec = run.spec /\ run'.lb = run.lb /\ run'.type = run.type
    BY <2>1 DEF TypeInv, TypeOK, Runs
  <2>3. ex'.state = s
    BY <2>1 DEF TypeInv, TypeOK, Extensions
  <2>4. Configured(run.lb, run.spec)
    BY <2>1 DEF StepInv, Checked, Configured, Admits, ReconcileSteps
  <2>5. Configured(run.lb, run.spec)'
    BY <2>1, <2>2, <2>4 DEF Configured, Admits, ValidLBs
  <2> QED BY <2>1, <2>2, <2>3, <2>5 DEF StepInv, KindOf, ReconcileSteps
<1>8. CASE (DeleteLoadbalancer \/ WaitLoadbalancerDeleted) /\ ~Fail
  BY <1>8, StepTrivial DEF DeleteLoadbalancer, WaitLoadbalancerDeleted, Goto,
                           StepInv, ReconcileSteps
<1> QED BY <1>0, <1>1, <1>2, <1>3, <1>4, <1>5, <1>6, <1>7, <1>8 DEF Actuator

\* Every step preserves StepInv.
LEMMA StepNext ==
  ASSUME TypeInv, ConfigInv, [Next]_vars
  PROVE  StepInv'
<1>1. CASE Actuator
  BY <1>1, StepActuator DEF ConfigInv
<1>2. CASE Reconciler
  BY <1>2, StepTrivial, StartCases
  DEF Reconciler, PickUp, Operate, Processing, Success,
       RemoveFinalizers, RemoveAnnotation, ObjectGone, Done, Goto, Requeue
<1>3. CASE Failures \/ Crash
  BY <1>3, StepTrivial DEF Failures, CallFails, AnswerLost, PatchFails,
       ErrorPatchFails, Crash, Fail, Requeue, Done
<1>4. CASE OpenStack \/ Shoot \/ StatusWritten \/ UNCHANGED vars
  <2>1. UNCHANGED <<ex, pc, run>>
    BY <1>4 DEF OpenStack, LateCreate, Provision, ProvisionFails, Failover,
         GoesOnline, GoesOffline, GrowsOld, FloatingIPTaken, StatusWritten,
         PatchStatus, Shoot, ClusterFails, ClusterRecovers, vars
  <2> QED BY <2>1, StepBeside
<1>5. CASE Gardenlet
  <2>1. UNCHANGED <<pc, run>>
    BY <1>5 DEF Gardenlet, CreateExtension, ChangeSpec, RequestMigrate,
                RequestDelete, RequestAgain, RequestRestore
  <2>2. pc = "success" => ex'.state = ex.state
    <3>1. CASE RequestDelete
      <4>1. CASE ex' = Gone
        BY <4>1 DEF Gone
      <4>2. CASE ex' = [ex EXCEPT !.deleting = TRUE, !.acked = FALSE]
        BY <4>2 DEF TypeInv, TypeOK, Extensions
      <4> QED BY <3>1, <4>1, <4>2 DEF RequestDelete, PatchMeta
    <3>2. CASE RequestMigrate \/ RequestAgain \/ RequestRestore
      BY <3>2 DEF RequestMigrate, RequestAgain, RequestRestore, PatchMeta,
          TypeInv, TypeOK,
                  Extensions
    <3>3. ASSUME NEW spec \in Specs, ChangeSpec(spec)
          PROVE  ex'.state = ex.state
      BY <3>3 DEF ChangeSpec, PatchMeta, TypeInv, TypeOK, Extensions
    <3> QED BY <1>5, <3>1, <3>2, <3>3 DEF Gardenlet, CreateExtension
  <2> QED BY <2>1, <2>2, StepBeside
<1> QED BY <1>1, <1>2, <1>3, <1>4, <1>5 DEF Next, Moves

(***************************************************************************)
(* The theorems.                                                           *)
(***************************************************************************)

\* ConfigInv holds in every reachable state.
LEMMA ConfigInvHolds == Spec => [](TypeInv /\ ConfigInv)
<1>1. Init => TypeInv /\ ConfigInv
  <2> SUFFICES ASSUME Init PROVE ConfigInv
    BY TypeInvInit
  <2>1. pc = "idle" /\ ex.lastOp = None
    BY DEF Init
  <2>2. ~Reconciled
    BY <2>1 DEF Reconciled
  <2> QED BY <2>1, <2>2 DEF ConfigInv, StepInv, ReportInv, ReconcileSteps,
             Working, AdvertisedIsLive, PrivateNotExposed
<1>2. TypeInv /\ ConfigInv /\ [Next]_vars => (TypeInv /\ ConfigInv)'
  BY TypeInvNext, StepNext, ReportNext DEF ConfigInv
<1> QED BY <1>1, <1>2, PTL DEF Spec

\* After a success that nothing revoked, the load balancer whose address the
\* state advertises exists and is not being deleted, also with failed deletes,
\* late creates and specs that change during a run.
THEOREM AdvertisedIsLiveHolds == Spec => []AdvertisedIsLive
<1>1. ConfigInv => AdvertisedIsLive
  BY DEF ConfigInv, ReportInv
<1> QED BY <1>1, ConfigInvHolds, PTL

\* A cluster reported Private has no floating IP, whatever it was before.
THEOREM PrivateNotExposedHolds == Spec => []PrivateNotExposed
<1>1. ConfigInv => PrivateNotExposed
  BY DEF ConfigInv, ReportInv
<1> QED BY <1>1, ConfigInvHolds, PTL

\* The step that reports a Reconcile or a Restore as a success is taken only
\* when all the listeners of the load balancer that the state names admit the
\* ranges of the spec of the run.
THEOREM SuccessMeansConfiguredHolds == Spec => SuccessMeansConfigured
<1>1. TypeInv /\ ConfigInv /\ [Next]_vars =>
        [~Reconciled /\ Reconciled' =>
           Admits(run.lb, run.spec) /\ ex'.state.internal = run.lb]_vars
  <2> SUFFICES ASSUME TypeInv, ConfigInv, [Next]_vars, ~Reconciled, Reconciled'
               PROVE  Admits(run.lb, run.spec) /\ ex'.state.internal = run.lb
    OBVIOUS
  <2>1. Success
    <3> SUFFICES ASSUME ~Success PROVE FALSE
      OBVIOUS
    <3>1. ex'.lastOp = ex.lastOp
      BY OnlySuccessReports
    <3> QED BY <3>1 DEF Reconciled
  <2> QED BY <2>1, SuccessReports DEF Configured
<1> QED BY <1>1, ConfigInvHolds, PTL DEF Spec, SuccessMeansConfigured

(***************************************************************************)
(* With a gardenlet that waits for the end of a run before it changes the  *)
(* spec, a success is one for the current spec.                            *)
(***************************************************************************)

AckInv ==
  /\ pc \in Working /\ ex.there => run.spec = ex.spec
  /\ ex.acked /\ Reconciled =>
       /\ Admits(ex.state.internal, ex.spec)
       /\ ex.state.type = KindOf(ex.spec)

\* Outside a run of the actuator only the gardenlet changes the spec, and it
\* takes back its acknowledgement with it; only Success acknowledges a success.
LEMMA AckStep ==
  ASSUME TypeInv, [Next]_vars, ~Success, ~Processing, ~Impatient
  PROVE  /\ pc \in Working /\ ex'.there => ex.there /\ ex'.spec = ex.spec
         /\ pc' \in Working => run'.spec = run.spec
         /\ ex'.acked /\ Reconciled' => ex.acked /\ ex'.spec = ex.spec
<1>a. ASSUME NEW e, e.lastOp = None \/ e.lastOp = LastOperation(run.type, "Error"),
             ex' = e
      PROVE  ~Reconciled'
  BY <1>a DEF LastOperation, Reconciled
<1>b. pc = "idle" => pc \notin Working
  BY DEF Working, ReconcileSteps
<1> USE DEF TypeInv, TypeOK, Extensions
<1>0. ASSUME Fail
      PROVE  /\ ex'.there = ex.there /\ ex'.spec = ex.spec /\ pc' \notin Working
             /\ Reconciled' => ex' = ex
  <2>1. pc' \notin Working
    BY <1>0 DEF Fail, Requeue, Working, ReconcileSteps
  <2>2. CASE ex.there
    <3>1. /\ ex'.there = ex.there /\ ex'.spec = ex.spec
          /\ ex'.lastOp = LastOperation(run.type, "Error")
      BY <1>0, <2>2 DEF Fail
    <3> QED BY <1>a, <2>1, <3>1
  <2>3. CASE ~ex.there
    BY <1>0, <2>1, <2>3 DEF Fail
  <2> QED BY <2>2, <2>3
<1>1. CASE Reconciler
  <2>0. pc' \notin Working
    BY <1>1, StartCases
    DEF Reconciler, PickUp, Operate, RemoveFinalizers, RemoveAnnotation,
         ObjectGone, Done, Goto, Requeue, Working, ReconcileSteps
  <2>1. CASE PickUp \/ RemoveAnnotation
    BY <2>0, <2>1 DEF PickUp, RemoveAnnotation, PatchMeta
  <2>2. CASE Start
    BY <2>0, <2>2, StartCases DEF Operate, PatchMeta
  <2>3. CASE RemoveFinalizers
    <3>1. CASE ex' = Gone
      <4>1. Gone.lastOp = None /\ Gone.there = FALSE
        BY DEF Gone
      <4> QED BY <1>a, <2>0, <3>1, <4>1
    <3>2. CASE ex' = [ex EXCEPT !.finalizer = FALSE]
      BY <2>0, <3>2
    <3> QED BY <2>3, <3>1, <3>2 DEF RemoveFinalizers, PatchMeta
  <2>4. CASE ObjectGone
    BY <2>0, <2>4 DEF ObjectGone
  <2> QED BY <1>1, <2>1, <2>2, <2>3, <2>4 DEF Reconciler
<1>2. CASE Actuator
  <2>1. CASE Fail
    BY <1>0, <2>1
  <2>2. CASE ~Fail
    <3>1. run'.spec = run.spec
      BY <1>2, <2>2 DEF Actuator, GetLoadbalancerByName, Found,
           NotFound, CreateLoadBalancer, WaitCreated, CheckListener,
           WaitListener, AttachFloatingIP, UpdateStatus, DeleteLoadbalancer,
           WaitLoadbalancerDeleted, StartCheck, Goto, Runs
    <3>2. CASE UNCHANGED ex
      BY <3>1, <3>2 DEF Reconciled
    <3>3. CASE UpdateStatus
      BY <2>2, <3>1, <3>3 DEF UpdateStatus, PatchStatus
    <3> QED BY <1>2, <2>2, <3>2, <3>3
        DEF Actuator, GetLoadbalancerByName, Found, NotFound,
            CreateLoadBalancer,
            WaitCreated, CheckListener, WaitListener, AttachFloatingIP,
            DeleteLoadbalancer, WaitLoadbalancerDeleted
  <2> QED BY <2>1, <2>2
<1>3. CASE Failures \/ Crash
  <2>1. CASE Fail
    BY <1>0, <2>1
  <2>2. CASE UNCHANGED ex /\ pc' = "idle"
    BY <2>2 DEF Reconciled, Working, ReconcileSteps
  <2> QED BY <1>3, <2>1, <2>2 DEF Failures, CallFails, AnswerLost, PatchFails,
        ErrorPatchFails, Crash, Requeue, Done
<1>4. CASE OpenStack \/ Shoot \/ StatusWritten \/ UNCHANGED vars
  <2>1. UNCHANGED <<ex, pc, run>>
    BY <1>4 DEF OpenStack, LateCreate, Provision, ProvisionFails, Failover,
         GoesOnline, GoesOffline, GrowsOld, FloatingIPTaken, StatusWritten,
         PatchStatus, Shoot, ClusterFails, ClusterRecovers, vars
  <2> QED BY <2>1
<1>5. CASE Gardenlet
  <2>0. UNCHANGED <<pc, run>>
    BY <1>5 DEF Gardenlet, CreateExtension, ChangeSpec, RequestMigrate,
                RequestDelete, RequestAgain, RequestRestore
  <2>1. ASSUME NEW spec \in Specs, NEW op \in {"reconcile", "wait-for-state"},
               CreateExtension(spec, op)
        PROVE  pc = "idle" /\ ~ex'.acked
    BY <2>1 DEF CreateExtension, PatchMeta, Gone
  <2>2. ASSUME NEW spec \in Specs, ChangeSpec(spec)
        PROVE  pc = "idle" /\ ~ex'.acked
    BY <2>2 DEF ChangeSpec, PatchMeta
  <2>3. CASE RequestMigrate \/ RequestAgain \/ RequestRestore
    BY <2>0, <2>3 DEF RequestMigrate, RequestAgain, RequestRestore, PatchMeta
  <2>4. CASE RequestDelete
    <3>1. CASE ex' = Gone
      <4>1. Gone.lastOp = None /\ Gone.there = FALSE
        BY DEF Gone
      <4> QED BY <1>a, <2>0, <3>1, <4>1
    <3>2. CASE ex' = [ex EXCEPT !.deleting = TRUE, !.acked = FALSE]
      BY <2>0, <2>4, <3>2 DEF RequestDelete
    <3> QED BY <2>4, <3>1, <3>2 DEF RequestDelete, PatchMeta
  <2> QED BY <1>5, <1>b, <2>0, <2>1, <2>2, <2>3, <2>4 DEF Gardenlet
<1> QED BY <1>1, <1>2, <1>3, <1>4, <1>5 DEF Next, Moves

\* Every step preserves AckInv.
LEMMA AckNext ==
  ASSUME TypeInv, ConfigInv, AckInv, [Next]_vars, ~Impatient
  PROVE  AckInv'
<1>1. CASE Success
  <2>1. pc' \notin Working /\ pc = "success" /\ ex.there /\ UNCHANGED lbs
    BY <1>1 DEF Success, Done, Goto, Working, ReconcileSteps
  <2>2. ex'.spec = ex.spec
    BY <1>1 DEF Success, PatchStatus, TypeInv, TypeOK, Extensions
  <2>3. run.spec = ex.spec
    BY <2>1 DEF AckInv, Working
  <2>4. CASE Reconciled'
    <3>1. /\ Configured(run.lb, run.spec)
          /\ ex'.state = ex.state /\ ex.state.internal = run.lb
          /\ ex.state.type = KindOf(run.spec)
      BY <1>1, <2>4, SuccessReports
    <3> QED BY <2>1, <2>2, <2>3, <3>1 DEF AckInv, Configured, Admits
  <2> QED BY <2>1, <2>4 DEF AckInv
<1>2. CASE Processing
  <2>1. /\ ex'.spec = ex.spec /\ run'.spec = ex.spec
        /\ ex'.lastOp = LastOperation(run.type, "Processing")
    BY <1>2 DEF Processing, ReportProcessing, PatchStatus, TypeInv, TypeOK,
                Extensions, Runs
  <2>2. ~Reconciled'
    BY <2>1 DEF Reconciled, LastOperation
  <2> QED BY <2>1, <2>2 DEF AckInv
<1>3. CASE ~Success /\ ~Processing
  <2>1. /\ pc \in Working /\ ex'.there => ex.there /\ ex'.spec = ex.spec
        /\ pc' \in Working => run'.spec = run.spec
        /\ ex'.acked /\ Reconciled' => ex.acked /\ ex'.spec = ex.spec
    BY <1>3, AckStep
  <2>2. pc' \in Working => pc \in Working
    BY <1>3, WorkBegins
  <2>3. ASSUME ex'.acked, Reconciled'
        PROVE  /\ Admits(ex.state.internal, ex.spec)'
               /\ ex'.state.type = KindOf(ex'.spec)
    <3>1. ex'.lastOp = ex.lastOp /\ (pc # "report" => ex'.state = ex.state)
      BY <1>3, <2>3, OnlySuccessReports
    <3>2. Reconciled
      BY <2>3, <3>1 DEF Reconciled
    <3>3. pc # "report" /\ pc \notin Writing
      BY <3>2 DEF ConfigInv, ReportInv, Working, ReconcileSteps, Writing
    <3>4. Keeps(ex.state.internal)
      BY <3>2, <3>3, Kept DEF ConfigInv, ReportInv, AdvertisedIsLive
    <3>5. Admits(ex.state.internal, ex.spec) /\ ex.state.type = KindOf(ex.spec)
      BY <2>1, <2>3, <3>2 DEF AckInv
    <3> QED BY <2>1, <2>3, <3>1, <3>3, <3>4, <3>5 DEF Keeps, Admits
  <2> QED BY <2>1, <2>2, <2>3 DEF AckInv
<1> QED BY <1>1, <1>2, <1>3

\* An Extension that CheckExtensionObject calls healthy, and whose last
\* operation was a reconciliation, is configured as its current spec asks.
THEOREM HealthyMeansConfiguredHolds ==
  ASSUME ~Impatient
  PROVE  Spec => []HealthyMeansConfigured
<1>1. Init => AckInv
  <2> SUFFICES ASSUME Init PROVE AckInv
    OBVIOUS
  <2>1. pc = "idle" /\ ex.lastOp = None
    BY DEF Init
  <2> QED BY <2>1 DEF AckInv, Reconciled, Working, ReconcileSteps
<1>2. TypeInv /\ ConfigInv /\ AckInv /\ [Next]_vars => AckInv'
  BY AckNext
<1>3. AckInv => HealthyMeansConfigured
  BY DEF AckInv, HealthyMeansConfigured, CheckExtensionObject, KindOf
<1> QED BY <1>1, <1>2, <1>3, ConfigInvHolds, PTL DEF Spec

============================================================================
