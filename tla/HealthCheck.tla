----------------------------- MODULE HealthCheck -----------------------------
(***************************************************************************)
(* The health check controller, next to the lifecycle controller of module *)
(* Lifecycle in the same process.  It lists the load balancer every 45     *)
(* seconds and writes the result as a condition into the status of the     *)
(* Extension, with an update of the whole status, which the API server     *)
(* refuses when the Extension changed since it was read.                   *)
(*                                                                         *)
(* The time until a key comes back is left out: a key that waits for its   *)
(* next sync or its retry is in the queue.                                 *)
(***************************************************************************)
EXTENDS Lifecycle

CONSTANT MaxEvents      \* bound on failed calls of the health check and on
                        \* changes of the shoot's hibernation together

ASSUME EventsAssumption == MaxEvents \in Nat

VARIABLES hqueued,      \* the key is in the queue, or will be put there
          hpc,          \* the next call of the worker that checks the key
          hread,        \* what that worker read and found
          condition,    \* the condition in the status of the Extension
          hibernated,   \* IsHibernationEnabled of the Cluster
          events        \* such failures and changes so far

hvars == <<hqueued, hpc, hread, condition>>
allVars == <<vars, hvars, hibernated, events>>

\* What the status holds besides the condition.
Status(e) == [lastOp |-> e.lastOp, obs |-> e.obs, state |-> e.state]

\* fresh: the resourceVersion that was read is still the current one.
NoRead == [fresh |-> FALSE, status |-> None, result |-> None]

Event == events < MaxEvents /\ events' = events + 1

----------------------------------------------------------------------------
(* The check.                                                              *)

\* Check, on what the list by name returns.  (Octavia's other operating
\* statuses are left out of Lifecycle: ERROR is like OFFLINE, the others are
\* "Progressing".)
Check ==
  CASE ~ex.there \/ ValidLBs = {} -> "False"
    [] ex.there /\ Cardinality(ValidLBs) > 1 -> "Error"
    [] OTHER ->
       LET lb == lbs[CHOOSE l \in ValidLBs : TRUE]
       IN  CASE lb.prov = "ERROR" -> "False"
             [] lb.prov \in {"PENDING_CREATE", "PENDING_UPDATE"} ->
                  "Progressing"
             [] lb.prov = "ACTIVE" /\ lb.oper = "OFFLINE" -> "False"
             [] OTHER -> "True"

\* The status of the condition.  Check sets no ProgressingThreshold, and so
\* Progressing is reported as False.
ConditionOf(result) ==
  CASE result = "Hibernated" -> "True"
    [] result = "Error" -> "Unknown"
    [] result = "Progressing" -> "False"
    [] OTHER -> result

----------------------------------------------------------------------------
(* The reconciler.                                                         *)

\* Reconcile up to the check.  The key of an Extension that is gone comes
\* back; that of one that is deleted or migrated does not.  A Cluster that
\* cannot be read is an error, and the key is retried; a shoot that has failed
\* is checked.
Reconcile ==
  /\ hpc = "idle" /\ hqueued
  /\ ~ex.there \/ ex.deleting \/ Migrating \/ cluster # "unreadable"
  /\ IF ~ex.there \/ ex.deleting \/ Migrating
     THEN hqueued' = ~ex.there /\ UNCHANGED <<hpc, hread>>
     ELSE /\ hqueued' = FALSE
          /\ hread' = [fresh |-> TRUE, status |-> Status(ex),
                       result |-> IF hibernated THEN "Hibernated" ELSE None]
          /\ hpc' = IF hibernated THEN "update" ELSE "check"
  /\ UNCHANGED <<vars, condition, hibernated, events>>

PerformHealthCheck ==
  /\ hpc = "check"
  /\ hread' = [hread EXCEPT !.result = Check]
  /\ hpc' = "update"
  /\ UNCHANGED <<vars, hqueued, condition, hibernated, events>>

\* The secret cannot be read or OpenStack does not answer.
CheckFails ==
  /\ hpc = "check" /\ Event
  /\ hread' = [hread EXCEPT !.result = "Error"]
  /\ hpc' = "update"
  /\ UNCHANGED <<vars, hqueued, condition, hibernated>>

\* Mutant: the resourceVersion is not compared.
Conflict_NotFound == ~ex.there

\* The API server refuses the update.
Conflict == ~ex.there \/ ~hread.fresh

\* It takes the update: the whole status is as it was read, with a new
\* condition.
StatusUpdated ==
  /\ PatchStatus([ex EXCEPT !.lastOp = hread.status.lastOp,
                            !.obs = hread.status.obs,
                            !.state = hread.status.state])
  /\ condition' = ConditionOf(hread.result)

\* Mutant: an event during the check is lost.
HDone_Forgets(again) == hpc' = "idle" /\ hread' = NoRead /\ hqueued' = again

HDone(again) ==
  hpc' = "idle" /\ hread' = NoRead /\ hqueued' = (hqueued \/ again)

\* Mutant: no next sync.
Syncs_Never == FALSE

\* The key comes back after the sync period, unless the shoot is hibernated.
Syncs == hread.result # "Hibernated"

UpdateExtensionConditions ==
  /\ hpc = "update"
  /\ IF Conflict
     THEN HDone(TRUE) /\ UNCHANGED <<ex, queued, missed, condition>>
     ELSE HDone(Syncs) /\ StatusUpdated
  /\ UNCHANGED <<pc, run, lbs, late, faults, requests, cluster,
                 hibernated, events>>

\* The call fails, maybe after it was served: the key is retried.
UpdateFails ==
  /\ hpc = "update" /\ Event
  /\ \/ UNCHANGED <<ex, queued, missed, condition>>
     \/ ~Conflict /\ StatusUpdated
  /\ HDone(TRUE)
  /\ UNCHANGED <<pc, run, lbs, late, faults, requests, cluster, hibernated>>

----------------------------------------------------------------------------
(* Events.                                                                 *)

\* What a step of the lifecycle controller or its surroundings is to the
\* health check.  Of the updates only a new generation is an event, and a
\* deletion timestamp is one; of the Cluster every change is.  (A write that
\* only renews a time is taken for none: it could cause one more conflict.)
Observe ==
  /\ hqueued' = (\/ hqueued
                 \/ ex'.there # ex.there
                 \/ ex'.gen # ex.gen
                 \/ ex'.deleting # ex.deleting
                 \/ ex.there /\ cluster' # cluster)
  /\ hread' = [hread EXCEPT !.fresh = @ /\ ex' = ex]
  /\ condition' = IF ex.there /\ ex'.there THEN condition ELSE None
  /\ UNCHANGED <<hpc, hibernated, events>>

\* The Cluster of the shoot says that it hibernates, or does not any more.
Hibernate ==
  /\ Event
  /\ hibernated' = ~hibernated
  /\ hqueued' = (hqueued \/ ex.there)
  /\ UNCHANGED <<vars, hpc, hread, condition>>

\* The process ends; the next one gets a create event for every Extension.
Restart ==
  /\ Crash
  /\ hqueued' = ex.there /\ hpc' = "idle" /\ hread' = NoRead
  /\ UNCHANGED <<condition, hibernated, events>>

----------------------------------------------------------------------------

HInit ==
  /\ Init
  /\ hqueued = FALSE /\ hpc = "idle" /\ hread = NoRead
  /\ condition = None /\ hibernated = FALSE /\ events = 0

HNext == \/ Moves /\ Observe
         \/ Restart
         \/ Hibernate
         \/ Reconcile \/ PerformHealthCheck \/ CheckFails
         \/ UpdateExtensionConditions \/ UpdateFails

\* Besides what Lifecycle assumes: the health check's worker runs, and of the
\* checks that are repeated for ever some end before anybody writes the
\* Extension again.  The lifecycle controller cannot cause a conflict every
\* time: it backs off further after every error.
HFairness ==
  /\ WF_allVars(Reconcile \/ PerformHealthCheck \/ UpdateExtensionConditions)
  /\ SF_allVars(PerformHealthCheck /\ hread.fresh)
  /\ SF_allVars(UpdateExtensionConditions /\ hread.fresh)

HSpec == HInit /\ [][HNext]_allVars

HFairSpec == HSpec /\ Fairness /\ HFairness

----------------------------------------------------------------------------
(* Properties.                                                             *)

\* Two controllers write the status of one Extension, and the health check
\* writes all of it: to the lifecycle controller that is no more than an
\* event.  In particular a health check never brings back a last operation, an
\* observed generation or an address from before a change.
ImplementsLifecycle == Spec

\* The condition of an Extension that is not about to go, if its load balancer
\* and its Cluster stay as they are.
Expected ==
  IF ~ex.there \/ ex.deleting \/ Migrating \/ cluster = "unreadable" THEN None
  ELSE IF hibernated THEN "True"
  ELSE ConditionOf(Check)

\* A load balancer that is missing or broken for good is reported as such, and
\* the report stays: no conflict, crash, wake-up or result from before makes
\* the health check stop or leave a condition that is out of date.
BrokenIsNoticed == <>[](Expected = "False") => <>[](condition = "False")

\* So is one that works again, and a shoot that is hibernated is not reported
\* as broken.
RecoveredIsNoticed == <>[](Expected = "True") => <>[](condition = "True")

============================================================================
