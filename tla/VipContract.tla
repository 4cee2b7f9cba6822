---------------------------- MODULE VipContract ----------------------------
(***************************************************************************)
(* What actuator.Reconcile gets from one call of AttachFloatingIP, and all *)
(* that module Lifecycle knows of it: the call is one step that leaves the *)
(* VIP of the load balancer with a floating IP exactly if the cluster is   *)
(* public, or an error after which either may be the case.  Where several  *)
(* workers run, it may take the floating IPs of other shoots.              *)
(***************************************************************************)
CONSTANTS Shoots,
          MayLose    \* a call may take the floating IP of another shoot

VARIABLES addr,      \* the VIP of the shoot has a floating IP
          private,   \* the privateCluster of its spec
          run,       \* its worker: before or after the call, and for what
          said       \* what the last run that succeeded made of the cluster

vars == <<addr, private, run, said>>

Idle == [stage |-> "idle", private |-> FALSE]

OthersKeep(s) ==
  \A t \in Shoots \ {s} : addr'[t] = addr[t] \/ (MayLose /\ ~addr'[t])

\* The call makes of the VIP of s what it was asked for.
Serves(s) ==
  /\ run[s].stage # "idle"
  /\ addr'[s] = ~run[s].private
  /\ OthersKeep(s)

Begin(s) ==
  /\ run[s].stage = "idle"
  /\ run' = [run EXCEPT ![s] = [stage |-> "attach", private |-> private[s]]]
  /\ said' = [said EXCEPT ![s] = "nothing"]
  /\ UNCHANGED <<addr, private>>

AttachFloatingIP(s) ==
  /\ Serves(s)
  /\ \/ run' = [run EXCEPT ![s].stage = "report"]
     \/ UNCHANGED run                    \* and goes on
     \/ run' = [run EXCEPT ![s] = Idle]  \* and then fails
  /\ UNCHANGED <<private, said>>

Fails(s) ==
  /\ run[s].stage # "idle"
  /\ run' = [run EXCEPT ![s] = Idle]
  /\ UNCHANGED <<addr, private, said>>

UpdateStatus(s) ==
  /\ run[s].stage = "report"
  /\ said' = [said EXCEPT ![s] = IF run[s].private THEN "Private" ELSE "Public"]
  /\ run' = [run EXCEPT ![s] = Idle]
  /\ UNCHANGED <<addr, private>>

Crash ==
  /\ run' = [s \in Shoots |-> Idle]
  /\ UNCHANGED <<addr, private, said>>

ChangeSpec(s) ==
  /\ private' = [private EXCEPT ![s] = ~@]
  /\ UNCHANGED <<addr, run, said>>

DeleteLoadbalancer(s) ==
  /\ run[s].stage = "idle"
  /\ addr' = [addr EXCEPT ![s] = FALSE]
  /\ said' = [said EXCEPT ![s] = "nothing"]
  /\ UNCHANGED <<private, run>>

Init ==
  /\ addr = [s \in Shoots |-> FALSE]
  /\ private \in [Shoots -> BOOLEAN]
  /\ run = [s \in Shoots |-> Idle]
  /\ said = [s \in Shoots |-> "nothing"]

Next == \/ \E s \in Shoots : \/ Begin(s) \/ AttachFloatingIP(s) \/ Fails(s)
                             \/ UpdateStatus(s) \/ ChangeSpec(s)
                             \/ DeleteLoadbalancer(s)
        \/ Crash

Spec == Init /\ [][Next]_vars

============================================================================
