------------------------- MODULE HealthCheckProofs -------------------------
(***************************************************************************)
(* The lifecycle and the health check controller together implement the    *)
(* lifecycle controller alone, and so everything that is proved of it      *)
(* holds of both.                                                          *)
(***************************************************************************)
EXTENDS HealthCheck, LifecycleConfigProofs, LifecycleQueueProofs

HReads ==
  [fresh : BOOLEAN, status : {Status(e) : e \in Extensions} \union {None},
   result : {"True", "False", "Progressing", "Error", "Hibernated", None}]

\* A copy of the Extension whose resourceVersion is current has the current
\* status.  That is what makes the update of the whole status harmless.
FreshIsCurrent == hread.fresh => hread.status = Status(ex)

HInv == TypeInv /\ hread \in HReads /\ FreshIsCurrent

\* What Check returns is one of its results.
LEMMA CheckType == Check \in {"True", "False", "Progressing", "Error"}
<1> DEFINE lb == lbs[CHOOSE l \in ValidLBs : TRUE]
           r == CASE lb.prov = "ERROR" -> "False"
                  [] lb.prov \in {"PENDING_CREATE", "PENDING_UPDATE"} ->
                       "Progressing"
                  [] lb.prov = "ACTIVE" /\ lb.oper = "OFFLINE" -> "False"
                  [] OTHER -> "True"
<1>1. r \in {"True", "False", "Progressing"}
  OBVIOUS
<1> QED BY <1>1 DEF Check

\* The locals of a worker that checks nothing are well formed, and hold no
\* copy of the Extension.
LEMMA NoReadType == NoRead \in HReads /\ ~NoRead.fresh
BY DEF NoRead, HReads

\* Writing back a status that is current changes nothing.
LEMMA StatusUpdatedIsWritten ==
  ASSUME HInv, ~Conflict, StatusUpdated,
         UNCHANGED <<pc, run, lbs, late, faults, requests, cluster>>
  PROVE  StatusWritten
<1>1. hread.status = Status(ex) /\ ex.there
  BY DEF HInv, FreshIsCurrent, Conflict
<1>2. ex \in Extensions
  BY DEF HInv, TypeInv, TypeOK
<1>3. /\ hread.status.lastOp = ex.lastOp
      /\ hread.status.obs = ex.obs
      /\ hread.status.state = ex.state
  BY <1>1 DEF Status
<1>4. [ex EXCEPT !.lastOp = ex.lastOp, !.obs = ex.obs, !.state = ex.state] = ex
  BY <1>2 DEF Extensions
<1> QED BY <1>1, <1>3, <1>4 DEF StatusUpdated, StatusWritten

\* Every step of the two controllers is one of the lifecycle controller's, or
\* none.
LEMMA StepImplements ==
  ASSUME HInv, [HNext]_allVars
  PROVE  [Next]_vars
<1>1. CASE Moves /\ Observe
  BY <1>1 DEF Next
<1>2. CASE Restart
  BY <1>2 DEF Restart, Next
<1>3. CASE Hibernate \/ Reconcile \/ PerformHealthCheck \/ CheckFails
  BY <1>3 DEF Hibernate, Reconcile, PerformHealthCheck, CheckFails
<1>4. CASE UpdateExtensionConditions \/ UpdateFails
  <2>1. CASE UNCHANGED <<ex, queued, missed>>
    BY <1>4, <2>1 DEF UpdateExtensionConditions, UpdateFails, vars
  <2>2. CASE ~Conflict /\ StatusUpdated
    BY <1>4, <2>2, StatusUpdatedIsWritten
    DEF UpdateExtensionConditions, UpdateFails, Next
  <2> QED BY <1>4, <2>1, <2>2 DEF UpdateExtensionConditions, UpdateFails
<1>5. CASE UNCHANGED allVars
  BY <1>5 DEF allVars, vars
<1> QED BY <1>1, <1>2, <1>3, <1>4, <1>5 DEF HNext

\* Every step keeps the copy of the status true to its resourceVersion.
LEMMA HInvNext ==
  ASSUME HInv, [HNext]_allVars
  PROVE  HInv'
<1>1. TypeInv'
  BY StepImplements, TypeInvNext DEF HInv
<1>2. hread \in HReads /\ FreshIsCurrent
  BY DEF HInv
<1>3. ex \in Extensions
  BY DEF HInv, TypeInv, TypeOK
<1>4. (hread \in HReads /\ FreshIsCurrent)'
  <2>1. CASE Moves /\ Observe
    <3>1. hread' = [hread EXCEPT !.fresh = hread.fresh /\ ex' = ex]
      BY <2>1 DEF Observe
    <3>2. /\ hread' \in HReads /\ hread'.status = hread.status
          /\ hread'.fresh => hread.fresh /\ ex' = ex
      BY <1>2, <3>1 DEF HReads
    <3> QED BY <1>2, <3>2 DEF FreshIsCurrent
  <2>2. CASE Restart \/ UpdateExtensionConditions \/ UpdateFails
    <3>1. hread' = NoRead
      BY <2>2 DEF Restart, UpdateExtensionConditions, UpdateFails, HDone
    <3> QED BY <3>1, NoReadType DEF FreshIsCurrent
  <2>3. CASE Reconcile
    <3>1. CASE UNCHANGED hread
      BY <1>2, <2>3, <3>1 DEF Reconcile, vars, FreshIsCurrent
    <3>2. CASE hread' = [fresh |-> TRUE, status |-> Status(ex),
                 result |-> IF hibernated THEN "Hibernated" ELSE None]
      BY <1>3, <2>3, <3>2 DEF Reconcile, vars, FreshIsCurrent, HReads
    <3> QED BY <2>3, <3>1, <3>2 DEF Reconcile
  <2>4. CASE PerformHealthCheck \/ CheckFails
    <3>1. PICK r \in {"True", "False", "Progressing", "Error"} :
            hread' = [hread EXCEPT !.result = r]
      BY <2>4, CheckType DEF PerformHealthCheck, CheckFails
    <3>2. /\ hread' \in HReads /\ hread'.status = hread.status
          /\ hread'.fresh = hread.fresh
      BY <1>2, <3>1 DEF HReads
    <3>3. ex' = ex
      BY <2>4 DEF PerformHealthCheck, CheckFails, vars
    <3> QED BY <1>2, <3>2, <3>3 DEF FreshIsCurrent
  <2>5. CASE Hibernate
    BY <1>2, <2>5 DEF Hibernate, vars, FreshIsCurrent
  <2>6. CASE UNCHANGED allVars
    BY <1>2, <2>6 DEF allVars, vars, hvars, FreshIsCurrent
  <2> QED BY <2>1, <2>2, <2>3, <2>4, <2>5, <2>6 DEF HNext
<1> QED BY <1>1, <1>4 DEF HInv

\* The invariant holds of the two controllers together.
LEMMA HInvHolds == HSpec => []HInv
<1>1. HInit => HInv
  BY TypeInvInit, NoReadType DEF HInit, HInv, FreshIsCurrent
<1>2. HInv /\ [HNext]_allVars => HInv'
  BY HInvNext
<1> QED BY <1>1, <1>2, PTL DEF HSpec

\* With the health check controller beside it, which writes the whole status of
\* the same Extension, the lifecycle controller behaves as it does without: for
\* any number of load balancers, ports, specs, failures and hibernations.
THEOREM HealthCheckImplementsLifecycle == HSpec => ImplementsLifecycle
<1>1. HInit => Init
  BY DEF HInit
<1>2. HInv /\ [HNext]_allVars => [Next]_vars
  BY StepImplements
<1> QED BY <1>1, <1>2, HInvHolds, PTL DEF HSpec, Spec, ImplementsLifecycle

\* And so it is as safe: no load balancer is left without a finalizer.
THEOREM NoOrphanBesideHealthCheck ==
  ASSUME ~DeletesMayFail, ~LateCreates
  PROVE  HSpec => []NoOrphan
BY HealthCheckImplementsLifecycle, NoOrphanHolds, PTL DEF ImplementsLifecycle

\* Nor does it make the lifecycle controller advertise a load balancer that is
\* gone, call an exposed cluster private, drop an operation that was started for
\* another reason than the Cluster, or report a success without the ranges of
\* the spec, although the condition it writes comes with the whole status as it
\* read it.
THEOREM SafeBesideHealthCheck ==
  HSpec => /\ [](AdvertisedIsLive /\ PrivateNotExposed /\ NothingForgotten)
           /\ SuccessMeansConfigured
BY HealthCheckImplementsLifecycle, AdvertisedIsLiveHolds,
   PrivateNotExposedHolds, NothingForgottenHolds, SuccessMeansConfiguredHolds,
   PTL DEF ImplementsLifecycle

\* And what CheckExtensionObject calls healthy is configured as the spec says.
THEOREM HealthyBesideHealthCheck ==
  ASSUME ~Impatient
  PROVE  HSpec => []HealthyMeansConfigured
BY HealthCheckImplementsLifecycle, HealthyMeansConfiguredHolds, PTL
   DEF ImplementsLifecycle

============================================================================
