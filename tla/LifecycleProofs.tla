-------------------------- MODULE LifecycleProofs --------------------------
(***************************************************************************)
(* Proofs about Lifecycle, for every set of load balancers, ports, ranges  *)
(* and specs and for every bound on failures and requests.                 *)
(***************************************************************************)
EXTENDS Lifecycle, FiniteSetTheorems, SequenceTheorems, TLAPS

(***************************************************************************)
(* Type correctness.  TypeOK alone is not inductive: the locals of the     *)
(* worker have a value only from a certain step on, which RunOK says.      *)
(***************************************************************************)

\* The slices of GetLoadBalancerSourceRanges are sequences of ranges, and
\* list exactly those of the spec.
LEMMA SliceType ==
  ASSUME NEW spec \in Specs,
         NEW s \in StringSlice(GetLoadBalancerSourceRanges(spec))
  PROVE  s \in Seq(Nets) /\ Range(s) = GetLoadBalancerSourceRanges(spec)
<1> DEFINE A == IF spec.allow = NoList THEN {DefaultCIDR}
                                       ELSE spec.allow \union {WorkerCIDR}
           S == GetLoadBalancerSourceRanges(spec)
<1>0. A \subseteq Strings /\ S = ParseIPNets(A)
  BY SpecsAssumption, RangesAssumption DEF GetLoadBalancerSourceRanges
<1>1. S \subseteq Nets
  BY <1>0, ParseAssumption DEF ParseIPNets
<1>2. IsFiniteSet(S)
  <2>1. IsFiniteSet(A)
    BY <1>0, StringsAssumption, FS_Subset
  <2>2. IsFiniteSet({ParseCIDR[a] : a \in A})
    <3> DEFINE T == {ParseCIDR[a] : a \in A}
               f == [a \in A |-> ParseCIDR[a]]
    <3>1. f \in Surjection(A, T)
      BY DEF Surjection
    <3> HIDE DEF f, T
    <3>2. IsFiniteSet(T)
      BY <2>1, <3>1, FS_Surjection
    <3> QED BY <3>2 DEF T
  <2> QED BY <1>0, <2>2, FS_EmptySet DEF ParseIPNets
<1>3. Cardinality(S) \in Nat
  BY <1>2, FS_CardinalityType
<1>4. s \in [1 .. Cardinality(S) -> S] /\ Range(s) = S
  BY DEF StringSlice
<1>5. s \in Seq(S)
  BY <1>3, <1>4
<1> QED BY <1>1, <1>4, <1>5

\* The absence of a load balancer has the type of one.
LEMMA NoLBType == NoLB \in LoadBalancers
BY DEF NoLB, LoadBalancers

\* A load balancer that Octavia creates for a spec is well formed.
LEMMA PostedType ==
  ASSUME TypeOK, NEW l \in LBs, NEW spec \in Specs, Posted(l, spec)
  PROVE  lbs' \in [LBs -> LoadBalancers]
<1>1. PICK acl \in [Ports -> StringSlice(GetLoadBalancerSourceRanges(spec))] :
        lbs' = [lbs EXCEPT ![l] =
                 [NoLB EXCEPT !.prov = "PENDING_CREATE", !.acl = acl]]
  BY DEF Posted, SetLB
<1>2. acl \in [Ports -> Seq(Nets)]
  BY SliceType
<1>3. [NoLB EXCEPT !.prov = "PENDING_CREATE", !.acl = acl] \in LoadBalancers
  BY <1>2, NoLBType DEF LoadBalancers
<1> QED BY <1>1, <1>3 DEF TypeOK

\* A change of the provisioning status keeps the table of load balancers
\* well formed.
LEMMA SetProvType ==
  ASSUME TypeOK, NEW l \in LBs, NEW prov, SetProv(l, prov),
         prov \in {"ACTIVE", "PENDING_UPDATE", "ERROR", "PENDING_DELETE"}
  PROVE  lbs' \in [LBs -> LoadBalancers]
<1>1. lbs[l] \in LoadBalancers
  BY DEF TypeOK
<1>2. [lbs[l] EXCEPT !.prov = prov] \in LoadBalancers
  BY <1>1 DEF LoadBalancers
<1> QED BY <1>2 DEF TypeOK, SetProv, SetLB

\* So does the update of a listener by CheckLoadBalancer.
LEMMA ListenerPutType ==
  ASSUME TypeOK, NEW p \in Ports, ListenerPut(p), run.lb \in LBs
  PROVE  lbs' \in [LBs -> LoadBalancers]
<1> DEFINE lb == lbs[run.lb]
<1>1. lb \in LoadBalancers /\ run.want \in Seq(Nets)
  BY DEF TypeOK, Runs
<1>2. [lb.acl EXCEPT ![p] = run.want] \in [Ports -> Seq(Nets)]
  BY <1>1 DEF LoadBalancers
<1>3. [lb EXCEPT !.prov = "PENDING_UPDATE", !.acl[p] = run.want] \in LoadBalancers
  BY <1>1, <1>2 DEF LoadBalancers
<1> QED BY <1>3 DEF TypeOK, ListenerPut, SetLB

\* So does attaching or detaching the floating IP.
LEMMA FloatingIPSetType ==
  ASSUME TypeOK, run.spec \in Specs, run.lb \in LBs, FloatingIPSet
  PROVE  lbs' \in [LBs -> LoadBalancers]
<1>1. lbs[run.lb] \in LoadBalancers
  BY DEF TypeOK
<1>2. (~run.spec.private) \in BOOLEAN
  OBVIOUS
<1>3. [lbs[run.lb] EXCEPT !.fip = ~run.spec.private] \in LoadBalancers
  BY <1>1, <1>2 DEF LoadBalancers
<1> QED BY <1>3 DEF TypeOK, FloatingIPSet, SetLB

\* The locals of a worker that runs nothing are well formed.
LEMMA NoRunType == NoRun \in Runs
BY EmptySeq DEF NoRun, Runs

\* So is the Extension once the API server dropped it.
LEMMA GoneType == TypeOK => Gone \in Extensions
BY DEF TypeOK, Gone, Extensions, LastOps

\* The end of a run in an error, by all the ways there are.
LEMMA FailType ==
  ASSUME TypeInv, Fail, pc \notin {"idle", "start"}
  PROVE  /\ ex' \in Extensions /\ queued' \in BOOLEAN /\ missed' \in BOOLEAN
         /\ pc' \in Steps
         /\ run' \in Runs /\ RunOK'
<1>1. pc' = "idle" /\ run' = NoRun /\ queued' = TRUE /\ missed' \in BOOLEAN
  BY DEF Fail, Requeue, TypeInv, TypeOK
<1>2. ex' \in Extensions /\ (ex'.there => ex'.spec \in Specs)
  <2>1. LastOperation(run.type, "Error") \in LastOps
    BY DEF TypeInv, RunOK, LastOperation, LastOps
  <2>2. run.gen \in Nat
    BY DEF TypeInv, TypeOK, Runs
  <2> QED BY <2>1, <2>2 DEF TypeInv, TypeOK, RunOK, Fail, Extensions
<1> QED BY <1>1, <1>2, NoRunType DEF Steps, RunOK, LBSteps

\* The two ways out of Start: the run ends, because the Extension, the Cluster
\* or the last operation says so, or it begins.
LEMMA StartCases ==
  ASSUME Start
  PROVE  /\ pc = "start" /\ UNCHANGED <<lbs, late, faults, requests, cluster>>
         /\ \/ /\ pc' = "idle" /\ run' = NoRun /\ UNCHANGED ex
               /\ queued' \in {queued, TRUE} /\ missed' \in {missed, TRUE}
               /\ \/ queued'
                  \/ missed'
                  \/ ~ex.there
                  \/ ShouldSkipOperation(ComputeOperationType)
                  \/ ComputeOperationType = "Delete" /\ ~ex.finalizer
            \/ /\ ex.there
               /\ ~ShouldSkipOperation(ComputeOperationType)
               /\ Operate(ComputeOperationType)
<1>1. CASE ~ex.there \/ cluster \in {"unreadable", "failed"}
  BY <1>1 DEF Start, Done, ClusterError, SkipFailed, Requeue
<1>2. CASE ex.there /\ cluster \notin {"unreadable", "failed"}
  BY <1>2 DEF Start, Done
<1> QED BY <1>1, <1>2

\* A step of the extension reconciler preserves TypeInv.
LEMMA ReconcilerType ==
  ASSUME TypeInv, Reconciler
  PROVE  TypeInv'
<1> USE DEF TypeInv
<1>1. CASE PickUp
  BY <1>1, NoRunType
  DEF PickUp, TypeOK, RunOK, Extensions, Steps, UpdateFunc, Admit, LBSteps
<1>2. CASE Start
  <2> DEFINE t == ComputeOperationType
  <2>1. t \in OpTypes
    BY DEF ComputeOperationType, OpTypes, TypeOK, Extensions, LastOps
  <2>2. [NoRun EXCEPT !.type = t] \in Runs
    BY <2>1, NoRunType DEF Runs
  <2>3. CASE /\ pc' = "idle" /\ run' = NoRun /\ UNCHANGED ex
             /\ queued' \in {queued, TRUE} /\ missed' \in {missed, TRUE}
    BY <1>2, <2>3, NoRunType, StartCases DEF TypeOK, RunOK, Steps, LBSteps
  <2>4. CASE Operate(t)
    <3>1. run' \in Runs /\ run'.type \in OpTypes
      BY <2>1, <2>2, <2>4 DEF Operate, NoRun
    <3>2. ex' \in Extensions /\ queued' \in BOOLEAN /\ missed' \in BOOLEAN
          /\ ex'.spec = ex.spec
          /\ ex'.there = ex.there
      BY <2>4 DEF Operate, PatchMeta, UpdateFunc, Admit, TypeOK, Extensions
    <3> QED BY <1>2, <2>4, <3>1, <3>2, StartCases
        DEF Operate, TypeOK, RunOK, Steps, LBSteps
  <2> QED BY <1>2, <2>3, <2>4, StartCases
<1>3. CASE Processing
  <2>1. LastOperation(run.type, "Processing") \in LastOps
    BY <1>3 DEF Processing, RunOK, LastOperation, LastOps
  <2>2. run' \in Runs /\ run'.type = run.type /\ run'.spec \in Specs
    BY <1>3 DEF Processing, TypeOK, RunOK, Runs, Extensions
  <2> QED BY <1>3, <2>1, <2>2
      DEF Processing, ReportProcessing, PatchStatus, UpdateFunc, Admit,
          TypeOK, RunOK,
          Extensions, Steps, LBSteps
<1>4. CASE Success
  <2>1. LastOperation(run.type, "Succeeded") \in LastOps
    BY <1>4 DEF Success, RunOK, LastOperation, LastOps
  <2>2. ex' \in Extensions /\ queued' \in BOOLEAN /\ missed' \in BOOLEAN
        /\ ex'.spec = ex.spec
        /\ ex'.there = ex.there
    BY <1>4, <2>1 DEF Success, PatchStatus, UpdateFunc, Admit, TypeOK,
        Extensions, Runs
  <2>3. \/ Done
        \/ pc' \in {"annotate", "finalize"} /\ run' = run
    BY <1>4 DEF Success, Goto
  <2> QED BY <1>4, <2>2, <2>3, NoRunType
      DEF Success, Done, TypeOK, RunOK, Steps, LBSteps
<1>5. CASE RemoveFinalizers
  <2>1. /\ ex' \in Extensions /\ queued' \in BOOLEAN /\ missed' \in BOOLEAN
        /\ ex'.there => ex'.spec = ex.spec /\ ex.there
    <3>1. CASE ex' = Gone /\ UNCHANGED <<queued, missed>>
      BY <3>1, GoneType DEF Gone, TypeOK
    <3>2. CASE PatchMeta([ex EXCEPT !.finalizer = FALSE])
      BY <1>5, <3>2 DEF RemoveFinalizers, PatchMeta, UpdateFunc, Admit, TypeOK,
                        Extensions
    <3> QED BY <1>5, <3>1, <3>2 DEF RemoveFinalizers
  <2>2. \/ Done
        \/ pc' = "annotate" /\ run' = run
    BY <1>5 DEF RemoveFinalizers, Goto
  <2> QED BY <1>5, <2>1, <2>2, NoRunType
      DEF RemoveFinalizers, Done, TypeOK, RunOK, Steps, LBSteps
<1>6. CASE RemoveAnnotation
  BY <1>6, NoRunType
  DEF RemoveAnnotation, PatchMeta, UpdateFunc, Admit, Done, TypeOK, RunOK,
      Extensions, Steps, LBSteps
<1>7. CASE ObjectGone
  BY <1>7, NoRunType DEF ObjectGone, Requeue, TypeOK, RunOK, Steps, LBSteps
<1> QED BY <1>1, <1>2, <1>3, <1>4, <1>5, <1>6, <1>7 DEF Reconciler

\* The beginning of CheckLoadBalancer.
LEMMA StartCheckType ==
  ASSUME TypeOK, NEW r \in Runs, r.spec \in Specs, StartCheck(r)
  PROVE  /\ pc' = "check" /\ run' \in Runs
         /\ run'.type = r.type /\ run'.spec = r.spec /\ run'.lb = r.lb
         /\ run'.todo = Ports
         /\ Range(run'.want) = GetLoadBalancerSourceRanges(r.spec)
<1>1. PICK s \in StringSlice(GetLoadBalancerSourceRanges(r.spec)) :
        run' = [r EXCEPT !.want = s, !.todo = Ports]
  BY DEF StartCheck
<1>2. s \in Seq(Nets) /\ Range(s) = GetLoadBalancerSourceRanges(r.spec)
  BY SliceType
<1> QED BY <1>1, <1>2 DEF StartCheck, Runs

\* A step of the actuator preserves TypeInv.
LEMMA ActuatorType ==
  ASSUME TypeInv, Actuator
  PROVE  TypeInv'
<1> USE DEF TypeInv
<1>0. ASSUME Fail, pc \notin {"idle", "start"}, lbs' \in [LBs -> LoadBalancers],
             UNCHANGED <<late, faults, requests, cluster>>
      PROVE  TypeInv'
  BY <1>0, FailType DEF TypeOK
<1>1. CASE GetLoadbalancerByName
  <2>1. CASE NotFound
    BY <1>1, <2>1
    DEF GetLoadbalancerByName, NotFound, Goto, TypeOK, RunOK, Steps, LBSteps
  <2>2. CASE \E l \in ValidLBs : Found(l)
    <3>1. PICK l \in ValidLBs : Found(l)
      BY <2>2
    <3> DEFINE r == [run EXCEPT !.lb = l]
    <3>2. l \in LBs /\ r \in Runs /\ r.type = run.type /\ r.spec = run.spec
          /\ r.lb = l
      BY DEF ValidLBs, TypeOK, Runs
    <3>3. run.spec \in Specs /\ run.type \in OpTypes
      BY <1>1 DEF GetLoadbalancerByName, RunOK
    <3>4. CASE StartCheck(r) /\ UNCHANGED <<ex, queued, missed>>
      BY <1>1, <3>2, <3>3, <3>4, StartCheckType
      DEF GetLoadbalancerByName, TypeOK, RunOK, Steps, LBSteps
    <3>5. CASE pc' = "delete" /\ run' = r /\ UNCHANGED <<ex, queued, missed>>
      BY <1>1, <3>2, <3>3, <3>5
      DEF GetLoadbalancerByName, TypeOK, RunOK, Steps, LBSteps
    <3>6. CASE Fail
      BY <1>0, <1>1, <3>6 DEF GetLoadbalancerByName, TypeOK
    <3> QED BY <3>1, <3>4, <3>5, <3>6 DEF Found
  <2>3. CASE Fail
    BY <1>0, <1>1, <2>3 DEF GetLoadbalancerByName, TypeOK
  <2> QED BY <1>1, <2>1, <2>2, <2>3 DEF GetLoadbalancerByName
<1>2. CASE CreateLoadBalancer
  <2>1. CASE Fail /\ UNCHANGED lbs
    BY <1>0, <1>2, <2>1 DEF CreateLoadBalancer, TypeOK
  <2>2. CASE /\ \E l \in FreeIds : Posted(l, run.spec)
                                   /\ run' = [run EXCEPT !.lb = l]
             /\ pc' = "waitCreated"
             /\ UNCHANGED <<ex, queued, missed>>
    <3>1. PICK l \in FreeIds : Posted(l, run.spec)
                               /\ run' = [run EXCEPT !.lb = l]
      BY <2>2
    <3>2. l \in LBs /\ run.spec \in Specs
      BY <1>2 DEF FreeIds, CreateLoadBalancer, RunOK
    <3>3. lbs' \in [LBs -> LoadBalancers]
      BY <3>1, <3>2, PostedType
    <3>4. run' \in Runs /\ run'.type = run.type /\ run'.spec = run.spec
          /\ run'.lb = l
      BY <3>1, <3>2 DEF TypeOK, Runs
    <3> QED BY <1>2, <2>2, <3>2, <3>3, <3>4
        DEF CreateLoadBalancer, TypeOK, RunOK, Steps, LBSteps
  <2> QED BY <1>2, <2>1, <2>2 DEF CreateLoadBalancer
<1>3. CASE WaitCreated
  <2>1. CASE StartCheck(run) /\ UNCHANGED <<ex, queued, missed>>
    <3>1. run \in Runs /\ run.spec \in Specs
      BY <1>3 DEF WaitCreated, TypeOK, RunOK
    <3> QED BY <1>3, <2>1, <3>1, StartCheckType
        DEF WaitCreated, TypeOK, RunOK, Steps, LBSteps
  <2>2. CASE Fail
    BY <1>0, <1>3, <2>2 DEF WaitCreated, TypeOK
  <2> QED BY <1>3, <2>1, <2>2 DEF WaitCreated
<1>4. ASSUME NEW p \in Ports, CheckListener(p) PROVE TypeInv'
  <2>1. CASE Fail /\ UNCHANGED lbs
    BY <1>0, <1>4, <2>1 DEF CheckListener, TypeOK
  <2>2. CASE /\ UNCHANGED lbs \/ ListenerPut(p)
             /\ run' = [run EXCEPT !.todo = @ \ {p}]
             /\ pc' = "waitListener"
             /\ UNCHANGED <<ex, queued, missed>>
    <3>1. lbs' \in [LBs -> LoadBalancers]
      BY <1>4, <2>2, ListenerPutType DEF CheckListener, TypeOK, RunOK, LBSteps
    <3>2. run' \in Runs /\ run'.type = run.type /\ run'.spec = run.spec
          /\ run'.lb = run.lb
      BY <2>2 DEF TypeOK, Runs
    <3> QED BY <1>4, <2>2, <3>1, <3>2
        DEF CheckListener, TypeOK, RunOK, Steps, LBSteps
  <2> QED BY <1>4, <2>1, <2>2 DEF CheckListener
<1>5. CASE WaitListener
  <2>1. CASE /\ run' = [run EXCEPT !.oper = lbs[run.lb].oper]
             /\ pc' \in {"attach", "check"}
             /\ UNCHANGED <<ex, queued, missed>>
    <3>1. lbs[run.lb].oper \in {"ONLINE", "OFFLINE"}
      BY <1>5 DEF WaitListener, TypeOK, RunOK, LBSteps, LoadBalancers
    <3>2. run' \in Runs /\ run'.type = run.type /\ run'.spec = run.spec
          /\ run'.lb = run.lb
      BY <2>1, <3>1 DEF TypeOK, Runs
    <3> QED BY <1>5, <2>1, <3>2
        DEF WaitListener, TypeOK, RunOK, Steps, LBSteps
  <2>2. CASE Fail
    BY <1>0, <1>5, <2>2 DEF WaitListener, TypeOK
  <2> QED BY <1>5, <2>1, <2>2 DEF WaitListener, AfterListener
<1>6. CASE AttachFloatingIP
  <2>1. lbs' \in [LBs -> LoadBalancers]
    BY <1>6, FloatingIPSetType DEF AttachFloatingIP, RunOK, LBSteps
  <2> QED BY <1>6, <2>1 DEF AttachFloatingIP, Goto, TypeOK, RunOK, Steps,
      LBSteps
<1>7. CASE UpdateStatus
  <2>1. CASE Fail
    BY <1>0, <1>7, <2>1 DEF UpdateStatus, TypeOK
  <2>2. CASE ~Fail
    <3> DEFINE s == [type |-> IF run.spec.private THEN "Private" ELSE "Public",
                     internal |-> run.lb,
                     external |-> IF run.spec.private THEN None ELSE run.lb]
    <3>1. PatchStatus([ex EXCEPT !.state = s])
          /\ run' = [run EXCEPT !.gen = ex.gen] /\ pc' = "success"
      BY <1>7, <2>2 DEF UpdateStatus
    <3>2. s \in States
      BY <1>7 DEF UpdateStatus, RunOK, LBSteps, States
    <3>3. ex' \in Extensions /\ queued' \in BOOLEAN /\ missed' \in BOOLEAN
          /\ ex'.there = ex.there
          /\ ex'.spec = ex.spec
      BY <3>1, <3>2 DEF PatchStatus, UpdateFunc, Admit, TypeOK, Extensions
    <3>4. run' \in Runs /\ run'.type = run.type /\ run'.spec = run.spec
      BY <3>1 DEF TypeOK, Runs, Extensions
    <3> QED BY <1>7, <3>1, <3>3, <3>4
        DEF UpdateStatus, TypeOK, RunOK, Steps, LBSteps
  <2> QED BY <2>1, <2>2
<1>8. CASE DeleteLoadbalancer
  <2>1. CASE Fail /\ UNCHANGED lbs
    BY <1>0, <1>8, <2>1 DEF DeleteLoadbalancer, TypeOK
  <2>2. CASE /\ SetProv(run.lb, "PENDING_DELETE") \/ UNCHANGED lbs
             /\ Goto("waitDeleted")
             /\ UNCHANGED <<ex, queued, missed>>
    <3>1. lbs' \in [LBs -> LoadBalancers]
      BY <1>8, <2>2, SetProvType DEF DeleteLoadbalancer, TypeOK, RunOK, LBSteps
    <3> QED BY <1>8, <2>2, <3>1
        DEF DeleteLoadbalancer, Goto, TypeOK, RunOK, Steps, LBSteps
  <2> QED BY <1>8, <2>1, <2>2 DEF DeleteLoadbalancer
<1>9. CASE WaitLoadbalancerDeleted
  <2>1. CASE Fail
    BY <1>0, <1>9, <2>1 DEF WaitLoadbalancerDeleted, TypeOK
  <2>2. CASE Goto("success") /\ UNCHANGED <<ex, queued, missed>>
    BY <1>9, <2>2 DEF WaitLoadbalancerDeleted, Goto, TypeOK, RunOK, Steps,
        LBSteps
  <2> QED BY <1>9, <2>1, <2>2 DEF WaitLoadbalancerDeleted
<1> QED BY <1>1, <1>2, <1>3, <1>4, <1>5, <1>6, <1>7, <1>8, <1>9 DEF Actuator

\* Counting a failure stays within the bound.
LEMMA FaultType ==
  ASSUME TypeOK, Fault
  PROVE  faults' \in 0 .. MaxFaults
BY BoundsAssumption DEF TypeOK, Fault

\* A failed call, a lost answer or a crash preserves TypeInv.
LEMMA FailuresType ==
  ASSUME TypeInv, Failures \/ Crash
  PROVE  TypeInv'
<1> USE DEF TypeInv
<1>0. Fault => faults' \in 0 .. MaxFaults
  BY FaultType
<1>1. CASE CallFails
  BY <1>0, <1>1, FailType DEF CallFails, TypeOK
<1>2. CASE AnswerLost
  <2>1. pc \notin {"idle", "start"}
    BY <1>2 DEF AnswerLost
  <2>2. lbs' \in [LBs -> LoadBalancers]
    <3>1. CASE pc = "create" /\ \E l \in FreeIds : Posted(l, run.spec)
      BY <3>1, PostedType DEF FreeIds, RunOK
    <3>2. CASE pc = "check" /\ \E p \in run.todo : ListenerPut(p)
      BY <3>2, ListenerPutType DEF RunOK, LBSteps, TypeOK, Runs
    <3>3. CASE pc = "attach" /\ FloatingIPSet
      BY <3>3, FloatingIPSetType DEF RunOK, LBSteps
    <3>4. CASE pc = "delete" /\ SetProv(run.lb, "PENDING_DELETE")
      BY <3>4, SetProvType DEF RunOK, LBSteps
    <3> QED BY <1>2, <3>1, <3>2, <3>3, <3>4 DEF AnswerLost
  <2> QED BY <1>0, <1>2, <2>1, <2>2, FailType DEF AnswerLost, TypeOK
<1>3. CASE PatchFails \/ ErrorPatchFails
  BY <1>0, <1>3, NoRunType
  DEF PatchFails, ErrorPatchFails, Requeue, TypeOK, RunOK, Steps, LBSteps
<1>4. CASE Crash
  <2>1. late' \in SUBSET Specs
    BY <1>4 DEF Crash, TypeOK, RunOK
  <2> QED BY <1>0, <1>4, <2>1, NoRunType
      DEF Crash, Done, CreateFunc, TypeOK, RunOK, Steps, LBSteps, Extensions
<1> QED BY <1>1, <1>2, <1>3, <1>4 DEF Failures

\* A step of Octavia or Neutron preserves TypeInv.
LEMMA OpenStackType ==
  ASSUME TypeInv, OpenStack
  PROVE  TypeInv'
<1> USE DEF TypeInv
<1>0. Fault => faults' \in 0 .. MaxFaults
  BY FaultType
<1>1. CASE LateCreate
  <2>1. lbs' \in [LBs -> LoadBalancers] /\ late' \in SUBSET Specs
    BY <1>1, PostedType DEF LateCreate, FreeIds, TypeOK
  <2> QED BY <1>1, <2>1 DEF LateCreate, TypeOK, RunOK
<1>2. ASSUME NEW l \in LBs,
             Provision(l) \/ ProvisionFails(l) \/ Failover(l)
      PROVE  TypeInv'
  <2>1. \/ \E prov \in {"ACTIVE", "ERROR", "PENDING_UPDATE"} : SetProv(l, prov)
        \/ SetLB(l, NoLB)
    BY <1>2 DEF Provision, ProvisionFails, Failover
  <2>2. lbs' \in [LBs -> LoadBalancers]
    BY <2>1, SetProvType, NoLBType DEF SetLB, TypeOK
  <2> QED BY <1>0, <1>2, <2>2
      DEF Provision, ProvisionFails, Failover, TypeOK, RunOK
<1>3. ASSUME NEW l \in LBs,
             GoesOnline(l) \/ GoesOffline(l) \/ GrowsOld(l) \/ FloatingIPTaken(l)
      PROVE  TypeInv'
  <2>1. lbs[l] \in LoadBalancers
    BY DEF TypeOK
  <2>2. \E lb \in LoadBalancers : SetLB(l, lb)
    BY <1>3, <2>1
    DEF GoesOnline, GoesOffline, GrowsOld, FloatingIPTaken, LoadBalancers
  <2>3. lbs' \in [LBs -> LoadBalancers]
    BY <2>2 DEF SetLB, TypeOK
  <2> QED BY <1>0, <1>3, <2>3
      DEF GoesOnline, GoesOffline, GrowsOld, FloatingIPTaken, TypeOK, RunOK
<1> QED BY <1>1, <1>2, <1>3 DEF OpenStack

\* A request of the gardenlet preserves TypeInv.
LEMMA GardenletType ==
  ASSUME TypeInv, Gardenlet \/ StatusWritten
  PROVE  TypeInv'
<1> USE DEF TypeInv
<1>0. Request => requests' \in 0 .. MaxRequests
  BY BoundsAssumption DEF Request, TypeOK
<1>1. ASSUME NEW spec \in Specs, NEW op \in {"reconcile", "wait-for-state"},
             CreateExtension(spec, op)
      PROVE  TypeInv'
  <2>1. /\ ex' = [Gone EXCEPT !.there = TRUE, !.op = op, !.spec = spec,
                     !.gen = 1, !.acked = FALSE,
                     !.state = IF op = "wait-for-state" THEN @ ELSE NoState]
        /\ queued' \in BOOLEAN /\ missed' \in BOOLEAN
    BY <1>1 DEF CreateExtension, Admit, TypeOK
  <2>2. NoState \in States
    BY DEF NoState, States
  <2>3. ex' \in Extensions /\ ex'.spec = spec
    BY <2>1, <2>2, GoneType DEF Extensions
  <2> QED BY <1>0, <1>1, <2>1, <2>3
      DEF CreateExtension, TypeOK, RunOK, Steps, LBSteps
<1>2. ASSUME NEW spec \in Specs, ChangeSpec(spec) PROVE TypeInv'
  <2>1. ex' \in Extensions /\ ex'.spec = spec /\ queued' \in BOOLEAN /\ missed' \in BOOLEAN
    <3>1. /\ ex' = [ex EXCEPT !.spec = spec, !.gen = ex.gen + 1,
                           !.op = "reconcile", !.acked = FALSE]
          /\ queued' \in BOOLEAN /\ missed' \in BOOLEAN
      BY <1>2 DEF ChangeSpec, PatchMeta, UpdateFunc, Admit, TypeOK
    <3>2. ex \in Extensions
      BY DEF TypeOK
    <3>3. ex.gen \in Nat
      BY <3>2 DEF Extensions
    <3>4. ex.gen + 1 \in Nat
      BY <3>3
    <3> QED BY <3>1, <3>2, <3>4 DEF Extensions
  <2> QED BY <1>0, <1>2, <2>1 DEF ChangeSpec, TypeOK, RunOK
<1>3. CASE RequestMigrate \/ RequestAgain \/ RequestRestore
  <2>1. ex' \in Extensions /\ ex'.spec = ex.spec /\ ex.there
        /\ queued' \in BOOLEAN /\ missed' \in BOOLEAN
    BY <1>3
    DEF RequestMigrate, RequestAgain, RequestRestore, PatchMeta, UpdateFunc,
        Admit, TypeOK, Extensions
  <2> QED BY <1>0, <1>3, <2>1
      DEF RequestMigrate, RequestAgain, RequestRestore, TypeOK, RunOK
<1>4. CASE RequestDelete
  <2>1. ex' \in Extensions /\ (ex'.there => ex'.spec = ex.spec /\ ex.there)
        /\ queued' \in BOOLEAN /\ missed' \in BOOLEAN
    <3>1. CASE ex' = Gone /\ UNCHANGED <<queued, missed>>
      BY <3>1, GoneType DEF Gone, TypeOK
    <3>2. CASE PatchMeta([ex EXCEPT !.deleting = TRUE, !.acked = FALSE])
      BY <1>4, <3>2
      DEF RequestDelete, PatchMeta, UpdateFunc, Admit, TypeOK, Extensions
    <3> QED BY <1>4, <3>1, <3>2 DEF RequestDelete
  <2> QED BY <1>0, <1>4, <2>1 DEF RequestDelete, TypeOK, RunOK
<1>5. CASE StatusWritten
  BY <1>0, <1>5 DEF StatusWritten, PatchStatus, UpdateFunc, Admit, TypeOK,
      RunOK,
                    Extensions
<1> QED BY <1>1, <1>2, <1>3, <1>4, <1>5 DEF Gardenlet

\* A change of the Cluster preserves TypeInv.
LEMMA ShootType ==
  ASSUME TypeInv, Shoot
  PROVE  TypeInv'
<1>1. Fault => faults' \in 0 .. MaxFaults
  BY BoundsAssumption DEF Fault, TypeInv, TypeOK
<1> QED BY <1>1 DEF Shoot, ClusterFails, ClusterRecovers, TypeInv, TypeOK, RunOK

\* TypeInv holds before the Extension is created.
LEMMA TypeInvInit == Init => TypeInv
<1> SUFFICES ASSUME Init PROVE TypeInv
  OBVIOUS
<1>1. NoState \in States
  BY DEF NoState, States
<1>2. ex \in Extensions /\ ex.there = FALSE
  BY <1>1 DEF Init, Extensions, LastOps
<1>3. TypeOK
  <2>1. lbs \in [LBs -> LoadBalancers] /\ late \in SUBSET Specs
    BY NoLBType DEF Init
  <2>2. faults \in 0 .. MaxFaults /\ requests \in 0 .. MaxRequests
    <3>1. faults = 0 /\ requests = 0
      BY DEF Init
    <3> QED BY <3>1, BoundsAssumption
  <2>3. /\ queued \in BOOLEAN /\ missed \in BOOLEAN /\ pc \in Steps
        /\ run \in Runs /\ cluster \in {"ok", "failed", "unreadable"}
    BY NoRunType DEF Init, Steps
  <2> QED BY <1>2, <2>1, <2>2, <2>3 DEF TypeOK
<1> QED BY <1>2, <1>3 DEF Init, TypeInv, RunOK, LBSteps

\* Every step preserves TypeInv.
LEMMA TypeInvNext == TypeInv /\ [Next]_vars => TypeInv'
<1> SUFFICES ASSUME TypeInv, [Next]_vars PROVE TypeInv'
  OBVIOUS
<1>1. CASE UNCHANGED vars
  BY <1>1 DEF vars, TypeInv, TypeOK, RunOK
<1> QED BY <1>1, ReconcilerType, ActuatorType, FailuresType, OpenStackType,
           GardenletType, ShootType DEF Next, Moves

\* In every reachable state the variables have their types and the worker of the
\* actuator has determined the operation, the spec and the load balancer that
\* its next call uses.
THEOREM TypeInvHolds == Spec => []TypeInv
BY TypeInvInit, TypeInvNext, PTL DEF Spec

(***************************************************************************)
(* One load balancer, and none without the finalizer, when Octavia does    *)
(* not give up on a delete and no create call outlives its sender.         *)
(***************************************************************************)

ReconcileSteps == {"create", "waitCreated", "check", "waitListener", "attach",
                   "report"}

\* What makes NoOrphan and OneLoadBalancer inductive: a run that may create
\* holds the finalizer, it creates only after it saw that there is nothing,
\* and a run that will release the finalizer knows that nothing is left.
SafeInv ==
  /\ late = {}
  /\ ex.finalizer => ex.there
  /\ NoOrphan
  /\ OneLoadBalancer
  /\ pc \in ReconcileSteps => run.type \in Building
  /\ pc \notin {"idle", "start"} /\ run.type \in Building => ex.finalizer
  /\ pc = "finalize" => run.type \notin Building
  /\ pc = "create" => ValidLBs = {}
  /\ pc = "delete" => ValidLBs \subseteq {run.lb}
  /\ pc = "waitDeleted" => ValidLBs = {}
  /\ pc \in {"success", "finalize"} /\ run.type \notin Building => ValidLBs = {}

\* A step that ends a run and creates nothing.
LEMMA SafeAtRest ==
  ASSUME SafeInv, pc' \in {"idle", "start"}, late' = {},
         ex'.finalizer = ex.finalizer, ex'.there = ex.there,
         ValidLBs' \subseteq ValidLBs
  PROVE  SafeInv'
BY DEF SafeInv, NoOrphan, OneLoadBalancer, ReconcileSteps

\* Ending a run in an error touches neither the finalizer nor what exists.
LEMMA FailKeeps ==
  ASSUME TypeInv, Fail
  PROVE  /\ pc' = "idle"
         /\ ex'.finalizer = ex.finalizer /\ ex'.there = ex.there
         /\ ex'.state = ex.state
BY DEF Fail, Requeue, TypeInv, TypeOK, Extensions

\* What getLoadbalancerByName would list after one load balancer changed.
LEMMA ValidAfterSetLB ==
  ASSUME TypeOK, NEW l \in LBs, NEW lb, SetLB(l, lb)
  PROVE  /\ lb.prov \notin {"DELETED", "PENDING_DELETE"}
              => ValidLBs' = ValidLBs \union {l}
         /\ lb.prov \in {"DELETED", "PENDING_DELETE"}
              => ValidLBs' = ValidLBs \ {l}
BY DEF TypeOK, SetLB, ValidLBs

\* The same for a change of the provisioning status alone.
LEMMA ValidAfterSetProv ==
  ASSUME TypeOK, NEW l \in LBs, NEW prov, SetProv(l, prov)
  PROVE  /\ prov \notin {"DELETED", "PENDING_DELETE"}
              => ValidLBs' = ValidLBs \union {l}
         /\ prov \in {"DELETED", "PENDING_DELETE"}
              => ValidLBs' = ValidLBs \ {l}
<1>1. [lbs[l] EXCEPT !.prov = prov].prov = prov
  BY DEF TypeOK, LoadBalancers
<1> QED BY <1>1, ValidAfterSetLB DEF SetProv

\* The same for a create call.
LEMMA ValidAfterPosted ==
  ASSUME TypeOK, NEW l \in LBs, NEW spec, Posted(l, spec)
  PROVE  ValidLBs' = ValidLBs \union {l}
<1>1. PICK acl : SetLB(l, [NoLB EXCEPT !.prov = "PENDING_CREATE", !.acl = acl])
  BY DEF Posted
<1>2. [NoLB EXCEPT !.prov = "PENDING_CREATE", !.acl = acl].prov
        = "PENDING_CREATE"
  BY DEF NoLB
<1> QED BY <1>1, <1>2, ValidAfterSetLB

\* The same for an update of a listener.
LEMMA ValidAfterListenerPut ==
  ASSUME TypeOK, run.lb \in LBs, NEW p, ListenerPut(p)
  PROVE  ValidLBs' = ValidLBs \union {run.lb}
<1>1. [lbs[run.lb] EXCEPT !.prov = "PENDING_UPDATE", !.acl[p] = run.want].prov
        = "PENDING_UPDATE"
  BY DEF TypeOK, LoadBalancers
<1> QED BY <1>1, ValidAfterSetLB DEF ListenerPut

\* A floating IP does not change the list.
LEMMA ValidAfterFloatingIPSet ==
  ASSUME TypeOK, run.lb \in LBs, FloatingIPSet
  PROVE  ValidLBs' = ValidLBs
<1>1. [lbs[run.lb] EXCEPT !.fip = ~run.spec.private].prov = lbs[run.lb].prov
  BY DEF TypeOK, LoadBalancers
<1> QED BY <1>1 DEF TypeOK, FloatingIPSet, SetLB, ValidLBs

\* A step of the extension reconciler preserves SafeInv: the finalizer is
\* added before anything is created and removed only when the list is empty.
LEMMA ReconcilerSafe ==
  ASSUME TypeInv, SafeInv, Reconciler
  PROVE  SafeInv'
<1> USE DEF SafeInv
<1>0. Reconciler => ValidLBs' = ValidLBs /\ late' = late
  BY DEF Reconciler, PickUp, Start, Processing, Success, RemoveFinalizers,
         RemoveAnnotation, ObjectGone, ValidLBs
<1>1. CASE PickUp
  <2>1. ex'.finalizer = ex.finalizer /\ ex'.there = ex.there
    BY <1>1 DEF PickUp, TypeInv, TypeOK, Extensions
  <2> QED BY <1>0, <1>1, <2>1, SafeAtRest DEF PickUp
<1>2. CASE Start
  <2>1. CASE pc' = "idle" /\ UNCHANGED ex
    BY <1>0, <2>1, SafeAtRest
  <2>2. CASE ~(pc' = "idle" /\ UNCHANGED ex)
    <3>1. /\ ex.there /\ ex'.there
          /\ run'.type \in Building => ex'.finalizer
          /\ ex.finalizer => ex'.finalizer
          /\ pc' = "processing"
      BY <1>2, <2>2, StartCases DEF Operate, NeedsFinalizer, PatchMeta, NoRun,
                                    TypeInv, TypeOK, Extensions
    <3> QED BY <1>0, <1>2, <3>1
        DEF NoOrphan, OneLoadBalancer, ReconcileSteps
  <2> QED BY <2>1, <2>2
<1>3. CASE Processing
  <2>1. /\ ex'.finalizer = ex.finalizer /\ ex'.there = ex.there
        /\ run'.type = run.type /\ pc' = "get"
    BY <1>3 DEF Processing, ReportProcessing, PatchStatus, TypeInv, TypeOK,
                Extensions, Runs
  <2> QED BY <1>0, <1>3, <2>1
      DEF Processing, NoOrphan, OneLoadBalancer, ReconcileSteps
<1>4. CASE Success
  <2>1. ex'.finalizer = ex.finalizer /\ ex'.there = ex.there
    BY <1>4 DEF Success, PatchStatus, TypeInv, TypeOK, Extensions
  <2>2. CASE Done
    BY <1>0, <2>1, <2>2, SafeAtRest DEF Done
  <2>3. CASE ~Done
    <3>1. run' = run /\ (pc' = "annotate" \/ (pc' = "finalize"
                                              /\ run.type \notin Building))
      BY <1>4, <2>3 DEF Success, Goto, Building
    <3> QED BY <1>0, <1>4, <2>1, <3>1
        DEF Success, NoOrphan, OneLoadBalancer, ReconcileSteps
  <2> QED BY <2>2, <2>3
<1>5. CASE RemoveFinalizers
  <2>1. ValidLBs = {} /\ run.type \notin Building
    BY <1>5 DEF RemoveFinalizers
  <2>2. ex'.finalizer = FALSE
    <3>1. CASE ex' = Gone
      BY <3>1 DEF Gone
    <3>2. CASE ex' = [ex EXCEPT !.finalizer = FALSE]
      BY <3>2 DEF TypeInv, TypeOK, Extensions
    <3> QED BY <1>5, <3>1, <3>2 DEF RemoveFinalizers, PatchMeta
  <2>3. pc' = "idle" \/ (pc' = "annotate" /\ run' = run)
    BY <1>5 DEF RemoveFinalizers, Goto, Done
  <2> QED BY <1>0, <1>5, <2>1, <2>2, <2>3
      DEF NoOrphan, OneLoadBalancer, ReconcileSteps
<1>6. CASE RemoveAnnotation
  <2>1. ex'.finalizer = ex.finalizer /\ ex'.there = ex.there
    BY <1>6 DEF RemoveAnnotation, PatchMeta, TypeInv, TypeOK, Extensions
  <2> QED BY <1>0, <1>6, <2>1, SafeAtRest DEF RemoveAnnotation, Done
<1>7. CASE ObjectGone
  BY <1>0, <1>7, SafeAtRest DEF ObjectGone, Requeue
<1> QED BY <1>1, <1>2, <1>3, <1>4, <1>5, <1>6, <1>7 DEF Reconciler

\* A step of the actuator preserves SafeInv: it creates only what the list
\* did not show.
LEMMA ActuatorSafe ==
  ASSUME TypeInv, SafeInv, Actuator
  PROVE  SafeInv'
<1> USE DEF SafeInv
<1>0. ASSUME Fail, UNCHANGED <<lbs, late>> PROVE SafeInv'
  <2>1. ValidLBs' = ValidLBs
    BY <1>0 DEF ValidLBs
  <2> QED BY <1>0, <2>1, FailKeeps, SafeAtRest
<1>1. CASE GetLoadbalancerByName
  <2>1. ValidLBs' = ValidLBs
    BY <1>1 DEF GetLoadbalancerByName, ValidLBs
  <2>2. CASE ValidLBs = {} /\ NotFound
    BY <1>1, <2>1, <2>2
    DEF GetLoadbalancerByName, NotFound, Goto, NoOrphan, OneLoadBalancer,
        ReconcileSteps
  <2>3. ASSUME NEW l \in ValidLBs, ValidLBs = {l}, Found(l) PROVE SafeInv'
    <3>1. CASE Fail
      BY <1>0, <1>1, <3>1 DEF GetLoadbalancerByName
    <3>2. CASE ~Fail
      <4>1. /\ UNCHANGED ex /\ run'.type = run.type /\ run'.lb = l
            /\ pc' = "delete" \/ (pc' = "check" /\ run.type \in Building)
        BY <2>3, <3>2 DEF Found, StartCheck, TypeInv, TypeOK, Runs
      <4> QED BY <1>1, <2>1, <2>3, <4>1
          DEF GetLoadbalancerByName, NoOrphan, OneLoadBalancer, ReconcileSteps
    <3> QED BY <3>1, <3>2
  <2>4. CASE Fail
    BY <1>0, <1>1, <2>4 DEF GetLoadbalancerByName
  <2> QED BY <1>1, <2>2, <2>3, <2>4 DEF GetLoadbalancerByName
<1>2. CASE CreateLoadBalancer
  <2>1. CASE Fail /\ UNCHANGED lbs
    BY <1>0, <1>2, <2>1 DEF CreateLoadBalancer
  <2>2. CASE ~(Fail /\ UNCHANGED lbs)
    <3>1. PICK l \in LBs : Posted(l, run.spec)
                           /\ run' = [run EXCEPT !.lb = l]
      BY <1>2, <2>2 DEF CreateLoadBalancer, FreeIds
    <3>2. ValidLBs' = {l}
      BY <1>2, <3>1, ValidAfterPosted DEF CreateLoadBalancer, TypeInv
    <3>3. run'.type = run.type
      BY <3>1 DEF TypeInv, TypeOK, Runs
    <3>4. pc' = "waitCreated" /\ UNCHANGED ex
      BY <1>2, <2>2 DEF CreateLoadBalancer
    <3> QED BY <1>2, <3>2, <3>3, <3>4
        DEF CreateLoadBalancer, NoOrphan, OneLoadBalancer, ReconcileSteps
  <2> QED BY <2>1, <2>2
<1>3. CASE WaitCreated \/ WaitListener
  <2>1. CASE Fail
    BY <1>0, <1>3, <2>1 DEF WaitCreated, WaitListener
  <2>2. CASE ~Fail
    <3>1. UNCHANGED <<ex, lbs, late>> /\ run'.type = run.type
          /\ pc' \in {"check", "attach"} /\ pc \in ReconcileSteps
      BY <1>3, <2>2
      DEF WaitCreated, WaitListener, AfterListener, StartCheck,
          ReconcileSteps, TypeInv, TypeOK, Runs
    <3>2. ValidLBs' = ValidLBs
      BY <3>1 DEF ValidLBs
    <3> QED BY <3>1, <3>2 DEF NoOrphan, OneLoadBalancer, ReconcileSteps
  <2> QED BY <2>1, <2>2
<1>4. ASSUME NEW p \in Ports, CheckListener(p) PROVE SafeInv'
  <2>1. CASE Fail /\ UNCHANGED lbs
    BY <1>0, <1>4, <2>1 DEF CheckListener
  <2>2. CASE ~(Fail /\ UNCHANGED lbs)
    <3>1. /\ UNCHANGED <<ex, late>> /\ run'.type = run.type
          /\ pc' = "waitListener" /\ pc = "check" /\ run.lb \in LBs
      BY <1>4, <2>2 DEF CheckListener, TypeInv, TypeOK, RunOK, LBSteps, Runs
    <3>2. ValidLBs' = ValidLBs
      <4>1. CASE UNCHANGED lbs
        BY <4>1 DEF ValidLBs
      <4>2. CASE ListenerPut(p) /\ lbs[run.lb].prov = "ACTIVE"
        <5>1. run.lb \in ValidLBs
          BY <3>1, <4>2 DEF ValidLBs
        <5> QED BY <3>1, <4>2, <5>1, ValidAfterListenerPut DEF TypeInv
      <4> QED BY <1>4, <2>2, <4>1, <4>2 DEF CheckListener
    <3> QED BY <3>1, <3>2 DEF NoOrphan, OneLoadBalancer, ReconcileSteps
  <2> QED BY <2>1, <2>2
<1>5. CASE AttachFloatingIP
  <2>1. ValidLBs' = ValidLBs
    BY <1>5, ValidAfterFloatingIPSet
    DEF AttachFloatingIP, TypeInv, RunOK, LBSteps
  <2> QED BY <1>5, <2>1
      DEF AttachFloatingIP, Goto, NoOrphan, OneLoadBalancer, ReconcileSteps
<1>6. CASE UpdateStatus
  <2>1. CASE Fail
    BY <1>0, <1>6, <2>1 DEF UpdateStatus
  <2>2. CASE ~Fail
    <3>1. /\ ex'.finalizer = ex.finalizer /\ ex'.there = ex.there
          /\ run'.type = run.type /\ pc' = "success"
          /\ run.type \in Building
      BY <1>6, <2>2 DEF UpdateStatus, PatchStatus, TypeInv, TypeOK, Extensions,
                        Runs, ReconcileSteps
    <3>2. ValidLBs' = ValidLBs
      BY <1>6 DEF UpdateStatus, ValidLBs
    <3> QED BY <1>6, <3>1, <3>2
        DEF UpdateStatus, NoOrphan, OneLoadBalancer, ReconcileSteps
  <2> QED BY <2>1, <2>2
<1>7. CASE DeleteLoadbalancer
  <2>1. CASE Fail /\ UNCHANGED lbs
    BY <1>0, <1>7, <2>1 DEF DeleteLoadbalancer
  <2>2. CASE ~(Fail /\ UNCHANGED lbs)
    <3>1. /\ UNCHANGED <<ex, run, late>> /\ pc' = "waitDeleted" /\ pc = "delete"
          /\ run.lb \in LBs
      BY <1>7, <2>2 DEF DeleteLoadbalancer, Goto, TypeInv, RunOK, LBSteps
    <3>2. ValidLBs' = {}
      <4>1. CASE SetProv(run.lb, "PENDING_DELETE")
        BY <3>1, <4>1, ValidAfterSetProv DEF TypeInv
      <4>2. CASE UNCHANGED lbs /\ lbs[run.lb].prov = "DELETED"
        BY <3>1, <4>2 DEF ValidLBs
      <4> QED BY <1>7, <2>2, <4>1, <4>2 DEF DeleteLoadbalancer
    <3> QED BY <3>1, <3>2 DEF NoOrphan, OneLoadBalancer, ReconcileSteps
  <2> QED BY <2>1, <2>2
<1>8. CASE WaitLoadbalancerDeleted
  <2>1. CASE Fail
    BY <1>0, <1>8, <2>1 DEF WaitLoadbalancerDeleted
  <2>2. CASE ~Fail
    <3>1. UNCHANGED <<ex, run, lbs, late>> /\ pc' = "success"
          /\ pc = "waitDeleted"
      BY <1>8, <2>2 DEF WaitLoadbalancerDeleted, Goto
    <3>2. ValidLBs' = ValidLBs
      BY <3>1 DEF ValidLBs
    <3> QED BY <3>1, <3>2 DEF NoOrphan, OneLoadBalancer, ReconcileSteps
  <2> QED BY <2>1, <2>2
<1> QED BY <1>1, <1>2, <1>3, <1>4, <1>5, <1>6, <1>7, <1>8 DEF Actuator

\* A failure preserves SafeInv, as long as no create call outlives its sender.
LEMMA FailuresSafe ==
  ASSUME TypeInv, SafeInv, Failures \/ Crash, ~LateCreates
  PROVE  SafeInv'
<1> USE DEF SafeInv
<1>1. CASE CallFails
  <2>1. ValidLBs' = ValidLBs
    BY <1>1 DEF CallFails, ValidLBs
  <2> QED BY <1>1, <2>1, FailKeeps, SafeAtRest DEF CallFails
<1>2. CASE AnswerLost
  <2>1. /\ pc' = "idle" /\ late' = {}
        /\ ex'.finalizer = ex.finalizer /\ ex'.there = ex.there
    BY <1>2, FailKeeps DEF AnswerLost
  <2>2. CASE pc = "create"
    <3>1. PICK l \in LBs : Posted(l, run.spec)
      BY <1>2, <2>2 DEF AnswerLost, FreeIds
    <3>2. ValidLBs' = {l}
      BY <2>2, <3>1, ValidAfterPosted DEF TypeInv
    <3>3. ex.finalizer
      BY <2>2 DEF ReconcileSteps
    <3> QED BY <2>1, <3>2, <3>3 DEF NoOrphan, OneLoadBalancer, ReconcileSteps
  <2>3. CASE pc # "create"
    <3>1. ValidLBs' \subseteq ValidLBs
      <4>1. run.lb \in LBs
        BY <1>2, <2>3 DEF AnswerLost, TypeInv, RunOK, LBSteps
      <4>2. CASE lbs[run.lb].prov = "ACTIVE" /\ \E p \in run.todo : ListenerPut(p)
        BY <4>1, <4>2, ValidAfterListenerPut DEF TypeInv, ValidLBs
      <4>3. CASE FloatingIPSet
        BY <4>1, <4>3, ValidAfterFloatingIPSet DEF TypeInv
      <4>4. CASE SetProv(run.lb, "PENDING_DELETE")
        BY <4>1, <4>4, ValidAfterSetProv DEF TypeInv
      <4> QED BY <1>2, <2>3, <4>2, <4>3, <4>4 DEF AnswerLost
    <3> QED BY <2>1, <3>1, SafeAtRest
  <2> QED BY <2>2, <2>3
<1>3. CASE PatchFails \/ ErrorPatchFails
  <2>1. ValidLBs' = ValidLBs
    BY <1>3 DEF PatchFails, ErrorPatchFails, ValidLBs
  <2> QED BY <1>3, <2>1, SafeAtRest DEF PatchFails, ErrorPatchFails, Requeue
<1>4. CASE Crash
  <2>1. ValidLBs' = ValidLBs
    BY <1>4 DEF Crash, ValidLBs
  <2> QED BY <1>4, <2>1, SafeAtRest DEF Crash, Done
<1> QED BY <1>1, <1>2, <1>3, <1>4 DEF Failures

\* With ~DeletesMayFail no load balancer becomes valid or invalid by itself.
LEMMA OpenStackKeepsValid ==
  ASSUME TypeOK, late = {}, OpenStack, ~DeletesMayFail
  PROVE  ValidLBs' = ValidLBs /\ UNCHANGED <<ex, pc, run, late>>
<1>1. PICK l \in LBs : Provision(l) \/ ProvisionFails(l) \/ Failover(l)
                       \/ GoesOnline(l) \/ GoesOffline(l) \/ GrowsOld(l)
                       \/ FloatingIPTaken(l)
  BY DEF OpenStack, LateCreate
<1>2. UNCHANGED <<ex, pc, run, late>>
  BY <1>1 DEF Provision, ProvisionFails, Failover, GoesOnline, GoesOffline,
              GrowsOld, FloatingIPTaken
<1>3. CASE Provision(l)
  <2>1. CASE /\ lbs[l].prov \in {"PENDING_CREATE", "PENDING_UPDATE"}
             /\ SetProv(l, "ACTIVE")
    <3>1. l \in ValidLBs
      BY <2>1 DEF ValidLBs
    <3> QED BY <1>2, <2>1, <3>1, ValidAfterSetProv
  <2>2. CASE lbs[l].prov = "PENDING_DELETE" /\ SetLB(l, NoLB)
    <3>1. l \notin ValidLBs
      BY <2>2 DEF ValidLBs
    <3>2. NoLB.prov = "DELETED"
      BY DEF NoLB
    <3> QED BY <1>2, <2>2, <3>1, <3>2, ValidAfterSetLB
  <2> QED BY <1>2, <1>3, <2>1, <2>2 DEF Provision
<1>4. CASE ProvisionFails(l) \/ Failover(l)
  <2>1. l \in ValidLBs
    BY <1>4 DEF ProvisionFails, Failover, ValidLBs
  <2> QED BY <1>2, <1>4, <2>1, ValidAfterSetProv DEF ProvisionFails, Failover
<1>5. CASE GoesOnline(l) \/ GoesOffline(l) \/ GrowsOld(l) \/ FloatingIPTaken(l)
  <2>1. PICK lb : SetLB(l, lb) /\ lb.prov = lbs[l].prov
    BY <1>5 DEF GoesOnline, GoesOffline, GrowsOld, FloatingIPTaken, TypeOK,
                LoadBalancers
  <2> QED BY <1>2, <2>1, ValidAfterSetLB DEF ValidLBs
<1> QED BY <1>1, <1>3, <1>4, <1>5

\* A step of Octavia preserves SafeInv, as long as no deletion fails.
LEMMA OpenStackSafe ==
  ASSUME TypeInv, SafeInv, OpenStack, ~DeletesMayFail
  PROVE  SafeInv'
<1>1. ValidLBs' = ValidLBs /\ UNCHANGED <<ex, pc, run, late>>
  BY OpenStackKeepsValid DEF TypeInv, SafeInv
<1> QED BY <1>1 DEF SafeInv, NoOrphan, OneLoadBalancer

\* A request of the gardenlet preserves SafeInv.
LEMMA GardenletSafe ==
  ASSUME TypeInv, SafeInv, Gardenlet \/ StatusWritten
  PROVE  SafeInv'
<1> USE DEF SafeInv
<1>1. UNCHANGED <<pc, run, lbs, late>>
  BY DEF Gardenlet, CreateExtension, ChangeSpec, RequestMigrate, RequestDelete,
         RequestAgain, RequestRestore, StatusWritten
<1>2. ValidLBs' = ValidLBs
  BY <1>1 DEF ValidLBs
<1>3. \/ ex'.finalizer = ex.finalizer /\ ex'.there
      \/ ~ex.finalizer /\ ~ex'.finalizer
  <2>1. ASSUME NEW spec \in Specs, NEW op \in {"reconcile", "wait-for-state"},
               CreateExtension(spec, op)
        PROVE  ~ex.finalizer /\ ~ex'.finalizer
    BY <2>1 DEF CreateExtension, Gone
  <2>2. ASSUME NEW spec \in Specs, ChangeSpec(spec)
        PROVE  ex'.finalizer = ex.finalizer /\ ex'.there
    BY <2>2 DEF ChangeSpec, PatchMeta, TypeInv, TypeOK, Extensions
  <2>3. CASE RequestMigrate \/ RequestAgain \/ RequestRestore \/ StatusWritten
    BY <2>3 DEF RequestMigrate, RequestAgain, RequestRestore, StatusWritten,
                PatchMeta, PatchStatus, TypeInv, TypeOK, Extensions
  <2>4. CASE RequestDelete
    <3>1. CASE ex.finalizer
      BY <2>4, <3>1 DEF RequestDelete, PatchMeta, TypeInv, TypeOK, Extensions
    <3>2. CASE ~ex.finalizer
      <4>1. ex' = Gone
        BY <2>4, <3>2 DEF RequestDelete
      <4>2. ex'.finalizer = FALSE
        BY <4>1 DEF Gone
      <4> QED BY <3>2, <4>2
    <3> QED BY <3>1, <3>2
  <2> QED BY <2>1, <2>2, <2>3, <2>4 DEF Gardenlet
<1> QED BY <1>1, <1>2, <1>3 DEF NoOrphan, OneLoadBalancer

\* SafeInv holds in every reachable state, for any number of load balancer
\* ids, ports, ranges, specs, failures and requests.
LEMMA SafeInvHolds ==
  ASSUME ~DeletesMayFail, ~LateCreates
  PROVE  Spec => [](TypeInv /\ SafeInv)
<1>1. Init => TypeInv /\ SafeInv
  <2> SUFFICES ASSUME Init PROVE SafeInv
    BY TypeInvInit
  <2>1. ValidLBs = {}
    BY DEF Init, ValidLBs, NoLB
  <2>2. late = {} /\ ~ex.finalizer /\ pc = "idle"
    BY DEF Init
  <2> QED BY <2>1, <2>2 DEF SafeInv, NoOrphan, OneLoadBalancer, ReconcileSteps
<1>2. TypeInv /\ SafeInv /\ [Next]_vars => (TypeInv /\ SafeInv)'
  <2> SUFFICES ASSUME TypeInv, SafeInv, [Next]_vars PROVE SafeInv'
    BY TypeInvNext
  <2>1. CASE Shoot \/ UNCHANGED vars
    BY <2>1 DEF Shoot, ClusterFails, ClusterRecovers, vars, SafeInv, NoOrphan,
                OneLoadBalancer, ValidLBs
  <2> QED BY <2>1, ReconcilerSafe, ActuatorSafe, FailuresSafe, OpenStackSafe,
             GardenletSafe DEF Next, Moves
<1> QED BY <1>1, <1>2, PTL DEF Spec

\* The controller never releases or lacks the finalizer while a load balancer
\* of its name is in a valid status, whatever crashes, failed calls, lost
\* answers, failovers and requests come between its calls.
THEOREM NoOrphanHolds ==
  ASSUME ~DeletesMayFail, ~LateCreates
  PROVE  Spec => []NoOrphan
<1>1. SafeInv => NoOrphan
  BY DEF SafeInv
<1> QED BY <1>1, SafeInvHolds, PTL

\* Under the same conditions the list by name never has two valid entries.
THEOREM OneLoadBalancerHolds ==
  ASSUME ~DeletesMayFail, ~LateCreates
  PROVE  Spec => []OneLoadBalancer
<1>1. SafeInv => OneLoadBalancer
  BY DEF SafeInv
<1> QED BY <1>1, SafeInvHolds, PTL

============================================================================
