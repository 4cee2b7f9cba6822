----------------------- MODULE LifecycleQueueProofs ------------------------
(***************************************************************************)
(* The work queue of the lifecycle controller: proof that no operation is  *)
(* forgotten, with no restriction on failures, crashes and requests; but   *)
(* for those that the controller drops on account of the Cluster.          *)
(***************************************************************************)
EXTENDS LifecycleProofs

Running == Steps \ {"idle", "start"}

\* The key is in the queue, or the Cluster kept it out.
Covered == queued \/ missed

\* What the Extension itself says.  A migration that is not over keeps its
\* annotation, one that is over has released the finalizer; a restore that is
\* not over keeps its annotation too.
ObjectInv ==
  /\ ex.finalizer => ex.there
  /\ ex.deleting => ex.finalizer
  /\ ex.lastOp # None /\ ex.lastOp.type = "Migrate" =>
       \/ ex.op = "migrate"
       \/ ex.lastOp.state = "Succeeded" /\ ~ex.finalizer /\ ex.op = ""
  /\ ex.lastOp # None /\ ex.lastOp.type = "Restore" =>
       ex.op = "restore" \/ ex.lastOp.state = "Succeeded"
  /\ ex.op = "wait-for-state" => ex.lastOp = None /\ ~ex.finalizer

\* The reason for the operation that the worker chose is there until the end.
ReasonInv ==
  /\ pc \in Running /\ ex.there /\ run.type = "Migrate" => ex.op = "migrate"
  /\ pc \in Running /\ ex.there /\ run.type = "Restore" => ex.op = "restore"
  /\ pc \in Running /\ ex.there /\ run.type = "Delete" => ex.deleting
  /\ pc = "finalize" => run.type \in {"Delete", "Migrate"}
  /\ pc = "annotate" => run.type \in {"Restore", "Migrate"}
  /\ pc \in {"finalize", "annotate"} /\ ex.there =>
       ex.lastOp = LastOperation(run.type, "Succeeded")
  /\ pc = "annotate" /\ ex.there /\ run.type = "Migrate" => ~ex.finalizer

\* What was asked for since the worker took the key is in the queue, or was
\* kept out of it.
PendingInv ==
  /\ pc # "idle" => ex.op # "wait-for-state"
  /\ pc = "start" /\ ~Covered => ex.op # "reconcile"
  /\ pc \in Running /\ ~Covered /\ run.type \in {"Create", "Reconcile"} =>
       ex.op = "" /\ ~ex.deleting
  /\ pc \in Running /\ ~Covered /\ run.type = "Restore" => ~ex.deleting
  /\ NothingForgotten

QueueInv == ObjectInv /\ ReasonInv /\ PendingInv

\* The fields of the Extension that QueueInv is about are not written.
SameObject ==
  /\ ex'.there = ex.there /\ ex'.deleting = ex.deleting
  /\ ex'.finalizer = ex.finalizer /\ ex'.op = ex.op
  /\ ex'.lastOp = ex.lastOp

\* A last operation is there and has the type and the state it was made from.
LEMMA LastOperationFields ==
  ASSUME NEW t \in OpTypes, NEW s \in {"Processing", "Succeeded", "Error"}
  PROVE  /\ LastOperation(t, s) # None
         /\ LastOperation(t, s).type = t
         /\ LastOperation(t, s).state = s
BY NoLastOpAssumption DEF LastOperation

\* A step within a run, or beside one, that writes none of those fields and
\* takes nothing from the queue.
LEMMA QueueWorks ==
  ASSUME TypeInv, QueueInv, SameObject, Covered => Covered', run'.type = run.type,
         \/ UNCHANGED pc
         \/ pc \in Running /\ pc' \in Running \ {"finalize", "annotate"}
  PROVE  QueueInv'
BY DEF QueueInv, ObjectInv, ReasonInv, PendingInv, SameObject, Running,
       NothingForgotten, Covered

\* A step that ends a run and puts the key back.
LEMMA QueueRequeued ==
  ASSUME QueueInv, pc' = "idle", Covered', SameObject
  PROVE  QueueInv'
BY DEF QueueInv, ObjectInv, ReasonInv, PendingInv, SameObject, Running,
       NothingForgotten, Covered

\* So does the end of a run in an error, which is written to the last
\* operation of an Extension that still has its reason.
LEMMA QueueFailed ==
  ASSUME TypeInv, QueueInv, Fail, pc \in Running
  PROVE  QueueInv'
<1>1. pc' = "idle" /\ Covered' /\ run' = NoRun
  BY DEF Fail, Requeue, Covered
<1>2. CASE ~ex.there
  BY <1>1, <1>2, QueueRequeued DEF Fail, SameObject
<1>3. CASE ex.there
  <2>1. /\ ex'.there = ex.there /\ ex'.deleting = ex.deleting
        /\ ex'.finalizer = ex.finalizer /\ ex'.op = ex.op
        /\ ex'.lastOp = LastOperation(run.type, "Error")
    BY <1>3 DEF Fail, TypeInv, TypeOK, Extensions
  <2>2. ex'.lastOp.type = run.type
    BY <2>1, LastOperationFields DEF TypeInv, RunOK, Running
  <2>3. ObjectInv'
    BY <1>3, <2>1, <2>2 DEF QueueInv, ObjectInv, ReasonInv, PendingInv,
                                 Running
  <2> QED BY <1>1, <2>3 DEF QueueInv, ReasonInv, PendingInv, Running,
                            NothingForgotten, Covered
<1> QED BY <1>2, <1>3

\* A step of the extension reconciler preserves QueueInv.
LEMMA ReconcilerQueue ==
  ASSUME TypeInv, QueueInv, Reconciler
  PROVE  QueueInv'
<1>0. pc \in Running => run.type \in OpTypes
  BY DEF TypeInv, RunOK, Running
<1>1. CASE PickUp
  <2>1. /\ ex'.there = ex.there /\ ex'.deleting = ex.deleting
        /\ ex'.finalizer = ex.finalizer /\ ex'.lastOp = ex.lastOp
        /\ ex'.op = IF ex.there /\ ex.op = "reconcile" THEN "" ELSE ex.op
    BY <1>1 DEF PickUp, TypeInv, TypeOK, Extensions
  <2>2. pc' = IF ex.there /\ ex.op # "wait-for-state" THEN "start" ELSE "idle"
    BY <1>1 DEF PickUp
  <2> QED BY <2>1, <2>2 DEF QueueInv, ObjectInv, ReasonInv, PendingInv, Running,
                            NothingForgotten, Covered
<1>2. CASE Start
  <2> DEFINE t == ComputeOperationType
  <2>1. CASE /\ pc' = "idle" /\ UNCHANGED ex
             /\ Covered => Covered'
             /\ \/ Covered'
                \/ ~ex.there \/ ShouldSkipOperation(t)
                \/ t = "Delete" /\ ~ex.finalizer
    <3>1. IsMigrated => ex.lastOp # None /\ ex.lastOp.type = "Migrate"
                        /\ ex.lastOp.state = "Succeeded"
      <4>1. LastOperation("Migrate", "Succeeded") # None
        BY LastOperationFields DEF OpTypes
      <4> QED BY <4>1 DEF IsMigrated, LastOperation
    <3>2. ex.there /\ ~Covered' => /\ ex.op = "" /\ ~ex.deleting
                                   /\ ex.lastOp # None
                                   /\ ex.lastOp.state = "Succeeded"
      BY <2>1, <3>1 DEF ShouldSkipOperation, ComputeOperationType, QueueInv,
                        ObjectInv
    <3> QED BY <2>1, <3>2 DEF QueueInv, ObjectInv, ReasonInv, PendingInv,
                              Running, NothingForgotten, Covered
  <2>2. CASE ex.there /\ ~ShouldSkipOperation(t) /\ Operate(t)
    <3>1. /\ ex'.there = ex.there /\ ex'.deleting = ex.deleting
          /\ ex'.op = ex.op /\ ex'.lastOp = ex.lastOp
          /\ ex.finalizer => ex'.finalizer
          /\ Covered => Covered'
      <4>1. CASE PatchMeta([ex EXCEPT !.finalizer = TRUE])
        BY <4>1 DEF PatchMeta, Admit, Covered, TypeInv, TypeOK, Extensions
      <4>2. CASE UNCHANGED <<ex, queued, missed>>
        BY <4>2 DEF Covered
      <4> QED BY <2>2, <4>1, <4>2 DEF Operate
    <3>2. run'.type = t /\ pc' = "processing"
      BY <2>2 DEF Operate, NoRun
    <3>3. /\ t = "Migrate" => ex.op = "migrate"
          /\ t = "Restore" => ex.op = "restore" /\ ~ex.deleting
          /\ t = "Delete" => ex.deleting
          /\ t \in {"Create", "Reconcile"} =>
               /\ ex.op \notin {"migrate", "restore"} /\ ~ex.deleting
               /\ ~IsMigrated
      BY <2>2 DEF ComputeOperationType, ShouldSkipOperation, QueueInv, ObjectInv
    <3>4. t \in OpTypes
      BY DEF ComputeOperationType, OpTypes, TypeInv, TypeOK, Extensions, LastOps
    <3>6. pc = "start"
      BY <1>2 DEF Start
    <3>5. ex.op \in {"", "reconcile", "restore", "migrate"}
      BY <3>6 DEF TypeInv, TypeOK, Extensions, QueueInv, PendingInv
    <3>7. ex.lastOp # None /\ ex.lastOp.type = "Migrate" => ex.op = "migrate"
      <4> SUFFICES ASSUME ex.lastOp # None, ex.lastOp.type = "Migrate",
                          ex.op # "migrate"
                   PROVE  FALSE
        OBVIOUS
      <4>1. ex.lastOp \in [type : OpTypes,
                           state : {"Processing", "Succeeded", "Error"}]
        BY DEF TypeInv, TypeOK, Extensions, LastOps
      <4>2. ex.lastOp.state = "Succeeded" /\ ~ex.finalizer /\ ex.op = ""
        BY DEF QueueInv, ObjectInv
      <4>3. IsMigrated
        BY <4>1, <4>2 DEF IsMigrated
      <4>4. ~ex.deleting
        BY <4>2 DEF QueueInv, ObjectInv
      <4> QED BY <3>3, <3>4, <4>2, <4>3, <4>4 DEF OpTypes
    <3> HIDE DEF t
    <3>8. ObjectInv'
      BY <2>2, <3>1, <3>5, <3>7 DEF QueueInv, ObjectInv
    <3>9. ReasonInv'
      BY <2>2, <3>1, <3>2, <3>3 DEF ReasonInv
    <3> QED BY <2>2, <3>1, <3>2, <3>3, <3>5, <3>6, <3>8, <3>9
        DEF QueueInv, PendingInv, NothingForgotten, Covered
  <2> QED BY <1>2, <2>1, <2>2, StartCases DEF Covered
<1>3. CASE Processing
  <2>1. /\ ex'.there = ex.there /\ ex'.deleting = ex.deleting
        /\ ex'.finalizer = ex.finalizer /\ ex'.op = ex.op
        /\ ex'.lastOp = LastOperation(run.type, "Processing")
        /\ run'.type = run.type
    BY <1>3 DEF Processing, ReportProcessing, PatchStatus, TypeInv, TypeOK,
                Extensions, Runs
  <2>2. pc = "processing" /\ pc' = "get" /\ (Covered => Covered') /\ ex.there
    BY <1>3 DEF Processing, ReportProcessing, PatchStatus, Admit, Covered
  <2>3. ex'.lastOp.type = run.type
    BY <1>0, <2>1, <2>2, LastOperationFields DEF Running, Steps
  <2>4. ObjectInv'
    BY <2>1, <2>2, <2>3 DEF QueueInv, ObjectInv, ReasonInv, PendingInv, Running,
                            Steps
  <2> QED BY <2>1, <2>2, <2>4 DEF QueueInv, ReasonInv, PendingInv, Running,
             Steps, NothingForgotten, Covered
<1>4. CASE Success
  <2>1. /\ ex'.there = ex.there /\ ex'.deleting = ex.deleting
        /\ ex'.finalizer = ex.finalizer /\ ex'.op = ex.op
        /\ ex'.lastOp = LastOperation(run.type, "Succeeded")
    BY <1>4 DEF Success, PatchStatus, TypeInv, TypeOK, Extensions
  <2>2. pc = "success" /\ (Covered => Covered') /\ ex.there
    BY <1>4 DEF Success, PatchStatus, Admit, Covered
  <2>3. \/ run.type \in {"Create", "Reconcile"} /\ pc' = "idle"
        \/ run.type = "Restore" /\ pc' = "annotate" /\ run' = run
        \/ run.type \in {"Delete", "Migrate"} /\ pc' = "finalize" /\ run' = run
    BY <1>0, <1>4 DEF Success, Done, Goto, OpTypes, Running, Steps
  <2>4. /\ ex'.lastOp # None /\ ex'.lastOp.state = "Succeeded"
        /\ ex'.lastOp.type = run.type
    BY <1>0, <2>1, <2>2, LastOperationFields DEF Running, Steps
  <2>5. ObjectInv'
    BY <2>1, <2>2, <2>4 DEF QueueInv, ObjectInv, ReasonInv, PendingInv, Running,
                            Steps
  <2>6. ReasonInv'
    BY <2>1, <2>2, <2>3 DEF QueueInv, ReasonInv, Running, Steps
  <2> QED BY <2>1, <2>2, <2>3, <2>4, <2>5, <2>6
      DEF QueueInv, PendingInv, Running, Steps, NothingForgotten, Covered
<1>5. CASE RemoveFinalizers
  <2>1. pc = "finalize" /\ ex.there
    BY <1>5 DEF RemoveFinalizers
  <2>2. CASE ex.deleting
    <3>1. ex' = Gone /\ UNCHANGED <<queued, missed>>
      BY <1>5, <2>2 DEF RemoveFinalizers
    <3>2. /\ ex'.there = FALSE /\ ex'.deleting = FALSE /\ ex'.finalizer = FALSE
          /\ ex'.op = "" /\ ex'.lastOp = None
      BY <3>1 DEF Gone
    <3>3. pc' = "idle" \/ (pc' = "annotate" /\ run' = run
                           /\ run.type = "Migrate")
      BY <1>5 DEF RemoveFinalizers, Done, Goto
    <3> QED BY <3>2, <3>3
        DEF QueueInv, ObjectInv, ReasonInv, PendingInv, NothingForgotten,
            Covered
  <2>3. CASE ~ex.deleting
    <3>1. run.type = "Migrate"
      BY <2>1, <2>3 DEF QueueInv, ReasonInv, Running, Steps
    <3>2. /\ ex'.there = ex.there /\ ex'.deleting = ex.deleting
          /\ ex'.finalizer = FALSE /\ ex'.op = ex.op /\ ex'.lastOp = ex.lastOp
      BY <1>5, <2>3 DEF RemoveFinalizers, PatchMeta, TypeInv, TypeOK, Extensions
    <3>3. pc' = "annotate" /\ run' = run
      BY <1>5, <3>1 DEF RemoveFinalizers, Goto
    <3> QED BY <2>1, <2>3, <3>1, <3>2, <3>3
        DEF QueueInv, ObjectInv, ReasonInv, PendingInv, Running, Steps,
            NothingForgotten, Covered
  <2> QED BY <2>2, <2>3
<1>6. CASE RemoveAnnotation
  <2>1. /\ ex'.there = ex.there /\ ex'.deleting = ex.deleting
        /\ ex'.finalizer = ex.finalizer /\ ex'.op = "" /\ ex'.lastOp = ex.lastOp
    BY <1>6 DEF RemoveAnnotation, PatchMeta, TypeInv, TypeOK, Extensions
  <2>2. /\ pc = "annotate" /\ ex.there /\ pc' = "idle"
        /\ Covered' = (Covered \/ ex.deleting)
    BY <1>6, <2>1 DEF RemoveAnnotation, PatchMeta, UpdateFunc, Admit, Done,
                      hasOperationAnnotation, Covered, TypeInv, TypeOK
  <2>3. ex.lastOp.type = run.type /\ ex.lastOp.state = "Succeeded"
        /\ ex.lastOp # None
    BY <1>0, <2>2, LastOperationFields DEF QueueInv, ReasonInv, Running, Steps
  <2> QED BY <2>1, <2>2, <2>3
      DEF QueueInv, ObjectInv, ReasonInv, PendingInv, Running,
          NothingForgotten, Covered
<1>7. CASE ObjectGone
  BY <1>7, QueueRequeued DEF ObjectGone, Requeue, Covered, SameObject
<1> QED BY <1>1, <1>2, <1>3, <1>4, <1>5, <1>6, <1>7 DEF Reconciler

\* A step of the actuator preserves QueueInv.
LEMMA ActuatorQueue ==
  ASSUME TypeInv, QueueInv, Actuator
  PROVE  QueueInv'
<1>1. pc \in Running
  BY DEF Actuator, GetLoadbalancerByName, CreateLoadBalancer, WaitCreated,
       CheckListener, WaitListener, AttachFloatingIP, UpdateStatus,
       DeleteLoadbalancer, WaitLoadbalancerDeleted, Running, Steps
<1>2. CASE Fail
  BY <1>1, <1>2, QueueFailed
<1>3. CASE ~Fail
  <2>1. run'.type = run.type /\ pc' \in Running \ {"finalize", "annotate"}
    BY <1>3 DEF Actuator, GetLoadbalancerByName, Found, CreateLoadBalancer,
         NotFound, WaitCreated, CheckListener, WaitListener, AfterListener,
         AttachFloatingIP, UpdateStatus, DeleteLoadbalancer,
         WaitLoadbalancerDeleted, StartCheck, Goto, Running, Steps, TypeInv,
         TypeOK, Runs
  <2>2. CASE UNCHANGED <<ex, queued, missed>>
    BY <1>1, <2>1, <2>2, QueueWorks DEF SameObject, Covered
  <2>3. CASE UpdateStatus
    <3>1. SameObject /\ (Covered => Covered')
      BY <1>3, <2>3 DEF UpdateStatus, PatchStatus, Admit, Covered, SameObject,
                        TypeInv, TypeOK, Extensions
    <3> QED BY <1>1, <2>1, <3>1, QueueWorks
  <2> QED BY <1>3, <2>2, <2>3
      DEF Actuator, GetLoadbalancerByName, Found, NotFound, CreateLoadBalancer,
          WaitCreated, CheckListener, WaitListener, AttachFloatingIP,
          DeleteLoadbalancer, WaitLoadbalancerDeleted
<1> QED BY <1>2, <1>3

\* A failure preserves QueueInv: it puts the key back, or the create events of
\* the next leader do.
LEMMA FailuresQueue ==
  ASSUME TypeInv, QueueInv, Failures \/ Crash
  PROVE  QueueInv'
<1>1. CASE CallFails \/ AnswerLost
  BY <1>1, QueueFailed DEF CallFails, AnswerLost, Running, Steps
<1>2. CASE PatchFails \/ ErrorPatchFails
  BY <1>2, QueueRequeued
  DEF PatchFails, ErrorPatchFails, Requeue, Covered, SameObject
<1>3. CASE Crash
  <2>1. pc' = "idle" /\ ex' = ex /\ Covered' = CreateFunc(ex)
    BY <1>3 DEF Crash, Done, Covered, CreateFunc
  <2>2. ex.op \in {"", "reconcile", "restore", "migrate", "wait-for-state"}
    BY DEF TypeInv, TypeOK, Extensions
  <2> QED BY <2>1, <2>2 DEF CreateFunc, hasOperationAnnotation, QueueInv,
      ObjectInv, ReasonInv, PendingInv,
                      Running, NothingForgotten, Covered
<1> QED BY <1>1, <1>2, <1>3 DEF Failures

\* A request of the gardenlet preserves QueueInv: each is an event, which
\* gets into the queue or is missed.
LEMMA GardenletQueue ==
  ASSUME TypeInv, QueueInv, Gardenlet \/ StatusWritten
  PROVE  QueueInv'
<1>0. UNCHANGED <<pc, run>>
  BY DEF Gardenlet, CreateExtension, ChangeSpec, RequestMigrate, RequestDelete,
         RequestAgain, RequestRestore, StatusWritten
<1>1. ASSUME NEW spec \in Specs, NEW op \in {"reconcile", "wait-for-state"},
             CreateExtension(spec, op)
      PROVE  QueueInv'
  <2>1. pc = "idle"
    BY <1>1 DEF CreateExtension
  <2>2. /\ ex'.op = op /\ ex'.lastOp = None /\ ex'.finalizer = FALSE
        /\ ex'.deleting = FALSE
    BY <1>1 DEF CreateExtension, Gone
  <2>3. Covered'
    <3>1. ex'.there = TRUE
      BY <1>1 DEF CreateExtension, Gone
    <3>2. CreateFunc(ex')
      BY <2>2, <3>1 DEF CreateFunc
    <3> QED BY <1>1, <3>2 DEF CreateExtension, Admit, Covered
  <2> QED BY <1>0, <2>1, <2>2, <2>3
      DEF QueueInv, ObjectInv, ReasonInv, PendingInv, Running,
          NothingForgotten, Covered
<1>2. ASSUME NEW op \in {"reconcile", "migrate"}, Covered',
             ex'.there, ex.there, ex'.deleting = ex.deleting, ~ex.deleting,
             ex'.finalizer = ex.finalizer, ex'.op = op, ex'.lastOp = ex.lastOp,
             ~Migrating, ~Restoring
      PROVE  QueueInv'
  BY <1>0, <1>2
  DEF QueueInv, ObjectInv, ReasonInv, PendingInv, NothingForgotten, Migrating,
      Restoring, Running, Steps, Covered
<1>3. ASSUME NEW spec \in Specs, ChangeSpec(spec)
      PROVE  QueueInv'
  <2>1. /\ ex'.there = ex.there /\ ex'.deleting = ex.deleting
        /\ ex'.finalizer = ex.finalizer /\ ex'.op = "reconcile"
        /\ ex'.lastOp = ex.lastOp
    BY <1>3 DEF ChangeSpec, PatchMeta, TypeInv, TypeOK, Extensions
  <2>2. Covered'
    BY <1>3, <2>1 DEF ChangeSpec, PatchMeta, UpdateFunc, Admit, Covered,
                      hasOperationAnnotation
  <2> QED BY <1>2, <1>3, <2>1, <2>2 DEF ChangeSpec
<1>4. CASE RequestMigrate
  <2>1. /\ ex'.there = ex.there /\ ex'.deleting = ex.deleting
        /\ ex'.finalizer = ex.finalizer /\ ex'.op = "migrate"
        /\ ex'.lastOp = ex.lastOp
    BY <1>4 DEF RequestMigrate, PatchMeta, TypeInv, TypeOK, Extensions
  <2>2. Covered'
    BY <1>4, <2>1 DEF RequestMigrate, PatchMeta, UpdateFunc, Admit, Covered,
                      hasOperationAnnotation
  <2> QED BY <1>2, <1>4, <2>1, <2>2 DEF RequestMigrate
<1>7. CASE RequestRestore
  <2>1. /\ ex'.there = ex.there /\ ex'.deleting = ex.deleting
        /\ ex'.finalizer = ex.finalizer /\ ex'.op = "restore"
        /\ ex'.lastOp = ex.lastOp /\ ex.op = "wait-for-state"
    BY <1>7 DEF RequestRestore, PatchMeta, TypeInv, TypeOK, Extensions
  <2>2. Covered'
    BY <1>7, <2>1 DEF RequestRestore, PatchMeta, UpdateFunc, Admit, Covered,
                      hasOperationAnnotation
  <2> QED BY <1>0, <2>1, <2>2 DEF QueueInv, ObjectInv, ReasonInv, PendingInv,
             Running, NothingForgotten, Covered
<1>8. CASE RequestAgain
  <2>1. /\ ex'.there = ex.there /\ ex'.deleting = ex.deleting
        /\ ex'.finalizer = ex.finalizer /\ ex'.lastOp = ex.lastOp
        /\ ex'.op = IF ex.deleting \/ hasOperationAnnotation(ex)
                    THEN ex.op ELSE "reconcile"
    BY <1>8 DEF RequestAgain, PatchMeta, TypeInv, TypeOK, Extensions
  <2>2. Covered'
    BY <1>8, <2>1 DEF RequestAgain, PatchMeta, UpdateFunc, Admit, Covered,
                      hasOperationAnnotation
  <2>3. CASE ex.deleting \/ hasOperationAnnotation(ex)
    BY <1>0, <2>1, <2>2, <2>3, QueueWorks DEF SameObject
  <2>4. CASE ~ex.deleting /\ ~hasOperationAnnotation(ex)
    <3>1. ex.op = "" /\ ~IsMigrated /\ ex.there
      BY <1>8, <2>4 DEF RequestAgain, hasOperationAnnotation, TypeInv, TypeOK,
                        Extensions
    <3>2. ex.lastOp # None /\ ex.lastOp.state = "Succeeded"
            => ex.lastOp.type # "Migrate"
      BY <3>1 DEF IsMigrated, TypeInv, TypeOK, Extensions, LastOps
    <3>3. ~Migrating /\ ~Restoring
      BY <3>1, <3>2 DEF Migrating, Restoring, QueueInv, ObjectInv
    <3> QED BY <1>2, <2>1, <2>2, <2>4, <3>1, <3>3
  <2> QED BY <2>3, <2>4
<1>5. CASE RequestDelete
  <2>1. CASE ex.finalizer
    <3>1. /\ ex'.there = ex.there /\ ex'.deleting = TRUE
          /\ ex'.finalizer = ex.finalizer /\ ex'.op = ex.op
          /\ ex'.lastOp = ex.lastOp
      BY <1>5, <2>1 DEF RequestDelete, PatchMeta, TypeInv, TypeOK, Extensions
    <3>2. Covered'
      BY <1>5, <2>1, <3>1 DEF RequestDelete, PatchMeta, UpdateFunc, Admit,
          Covered
    <3> QED BY <1>0, <2>1, <3>1, <3>2
        DEF QueueInv, ObjectInv, ReasonInv, PendingInv, NothingForgotten,
            Covered
  <2>2. CASE ~ex.finalizer
    <3>1. ex' = Gone /\ UNCHANGED <<queued, missed>>
      BY <1>5, <2>2 DEF RequestDelete
    <3>2. /\ ex'.there = FALSE /\ ex'.deleting = FALSE /\ ex'.finalizer = FALSE
          /\ ex'.op = "" /\ ex'.lastOp = None
      BY <3>1 DEF Gone
    <3> QED BY <1>0, <3>1, <3>2
        DEF QueueInv, ObjectInv, ReasonInv, PendingInv, NothingForgotten,
            Covered
  <2> QED BY <2>1, <2>2
<1>6. CASE StatusWritten
  BY <1>0, <1>6, QueueWorks
  DEF StatusWritten, PatchStatus, Admit, Covered, SameObject
<1> QED BY <1>1, <1>3, <1>4, <1>5, <1>6, <1>7, <1>8 DEF Gardenlet

\* QueueInv holds in every reachable state.
LEMMA QueueInvHolds == Spec => [](TypeInv /\ QueueInv)
<1>1. Init => TypeInv /\ QueueInv
  <2> SUFFICES ASSUME Init PROVE QueueInv
    BY TypeInvInit
  <2>1. /\ pc = "idle" /\ ex.there = FALSE /\ ex.finalizer = FALSE
        /\ ex.deleting = FALSE /\ ex.lastOp = None
    BY DEF Init
  <2> QED BY <2>1 DEF QueueInv, ObjectInv, ReasonInv, PendingInv, Running,
                      NothingForgotten, Covered
<1>2. TypeInv /\ QueueInv /\ [Next]_vars => (TypeInv /\ QueueInv)'
  <2> SUFFICES ASSUME TypeInv, QueueInv, [Next]_vars PROVE QueueInv'
    BY TypeInvNext
  <2>1. CASE OpenStack \/ Shoot \/ UNCHANGED vars
    <3>1. UNCHANGED <<ex, queued, missed, pc, run>>
      BY <2>1 DEF OpenStack, LateCreate, Provision, ProvisionFails, Failover,
           GoesOnline, GoesOffline, GrowsOld, FloatingIPTaken, Shoot,
           ClusterFails, ClusterRecovers, vars
    <3> QED BY <3>1, QueueWorks DEF SameObject, Covered
  <2> QED BY <2>1, ReconcilerQueue, ActuatorQueue, FailuresQueue,
             GardenletQueue DEF Next, Moves
<1> QED BY <1>1, <1>2, PTL DEF Spec

\* When nobody works on the Extension, its key is not in the queue and no event
\* or run was dropped on account of the Cluster, nothing is left to do: whatever
\* failed, crashed or was asked for during a run.
THEOREM NothingForgottenHolds == Spec => []NothingForgotten
<1>1. QueueInv => NothingForgotten
  BY DEF QueueInv, PendingInv
<1> QED BY <1>1, QueueInvHolds, PTL

============================================================================
