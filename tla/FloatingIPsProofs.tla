------------------------- MODULE FloatingIPsProofs -------------------------
(***************************************************************************)
(* Proofs about FloatingIPs, for every number of shoots, addresses,        *)
(* subnets and workers and every bound on failures and changes.            *)
(***************************************************************************)
EXTENDS FloatingIPs, FiniteSetTheorems, TLAPS

(***************************************************************************)
(* Type correctness.                                                       *)
(***************************************************************************)

\* A worker takes its step alone.
LEMMA RunType ==
  ASSUME TypeOK, NEW s \in Shoots, NEW r \in Runs, SetRun(s, r)
  PROVE  /\ run' \in [Shoots -> Runs] /\ run'[s] = r
         /\ \A t \in Shoots \ {s} : run'[t] = run[t]
BY DEF TypeOK, SetRun

\* The locals of a worker that runs nothing are well formed.
LEMMA IdleType == Idle \in Runs
BY DEF Idle, Runs

\* An error ends the run and puts the key back.
LEMMA FailType ==
  ASSUME TypeOK, NEW s \in Shoots, Fail(s)
  PROVE  /\ run' \in [Shoots -> Runs] /\ run'[s] = Idle
         /\ \A t \in Shoots \ {s} : run'[t] = run[t]
         /\ queued' \in [Shoots -> BOOLEAN]
BY RunType, IdleType DEF Fail, TypeOK

\* An error of one subnet ends the run or leaves only the list of subnets
\* shorter.
LEMMA NextSubnetType ==
  ASSUME TypeOK, NEW s \in Shoots, NEW n, NextSubnet(s, n)
  PROVE  /\ run' \in [Shoots -> Runs] /\ queued' \in [Shoots -> BOOLEAN]
         /\ \A t \in Shoots \ {s} : run'[t] = run[t]
         /\ \/ run'[s] = Idle
            \/ /\ run'[s].pc = run[s].pc /\ run'[s].private = run[s].private
               /\ run'[s].got = run[s].got /\ run'[s].seen = run[s].seen
<1>1. CASE Fail(s)
  BY <1>1, FailType
<1>2. CASE ~Fail(s)
  <2> DEFINE r == [run[s] EXCEPT !.left = run[s].left \ {n}]
  <2>1. SetRun(s, r) /\ UNCHANGED queued
    BY <1>2 DEF NextSubnet
  <2>2. run[s] \in Runs
    BY DEF TypeOK
  <2>3. /\ r \in Runs /\ r.pc = run[s].pc /\ r.private = run[s].private
        /\ r.got = run[s].got /\ r.seen = run[s].seen
    BY <2>2 DEF Runs
  <2> HIDE DEF r
  <2> QED BY <2>1, <2>3, RunType DEF TypeOK
<1> QED BY <1>1, <1>2

\* After an element of availableIPs.
LEMMA AfterElementType ==
  ASSUME TypeOK, NEW s \in Shoots, NEW f, NEW got \in FIPs \union {None},
         AfterElement(s, f, got)
  PROVE  /\ run' \in [Shoots -> Runs]
         /\ \A t \in Shoots \ {s} : run'[t] = run[t]
         /\ run'[s].private = run[s].private /\ run'[s].got = got
         /\ run'[s].seen = run[s].seen \ {f}
         /\ run'[s].pc = IF run[s].seen \ {f} # {} THEN "attach"
                         ELSE IF got = None THEN "create" ELSE "report"
<1> DEFINE rest == run[s].seen \ {f}
           pc == IF rest # {} THEN "attach"
                 ELSE IF got = None THEN "create" ELSE "report"
           r == [run[s] EXCEPT !.got = got, !.seen = rest, !.pc = pc]
<1>1. SetRun(s, r)
  BY DEF AfterElement
<1>2. run[s] \in Runs
  BY DEF TypeOK
<1>3. pc \in {"attach", "create", "report"}
  OBVIOUS
<1>4. rest \in SUBSET FIPs
  BY <1>2 DEF Runs
<1> HIDE DEF pc, rest
<1>5. /\ r \in Runs /\ r.pc = pc /\ r.private = run[s].private
      /\ r.got = got /\ r.seen = rest
  BY <1>2, <1>3, <1>4 DEF Runs
<1> HIDE DEF r
<1>6. run' \in [Shoots -> Runs] /\ run'[s] = r
      /\ \A t \in Shoots \ {s} : run'[t] = run[t]
  BY <1>1, <1>5, RunType
<1> QED BY <1>5, <1>6 DEF pc, rest

\* An address that loses its port stays allocated.
LEMMA ReleasedValues ==
  /\ "free" \in Released /\ "unallocated" \notin Released
  /\ \A s \in Shoots : s \notin Released
BY ShootsAssumption DEF Released

\* The calls to Neutron keep the table of addresses well formed.
LEMMA FipType ==
  ASSUME TypeOK, NEW s \in Shoots,
         UNCHANGED fip \/ Detached(s) \/ (\E f \in FIPs : Attached(s, f))
  PROVE  fip' \in [FIPs -> {"unallocated"} \union Released \union Shoots]
BY ReleasedValues DEF TypeOK, Detached, Attached

\* The worker's local variables after each of its calls.
LEMMA BeginRun ==
  ASSUME TypeOK, NEW s \in Shoots, Begin(s)
  PROVE  /\ run' \in [Shoots -> Runs]
         /\ \A t \in Shoots \ {s} : run'[t] = run[t]
         /\ run'[s].pc = "find" /\ run'[s].private = private[s]
         /\ run'[s].got = None /\ run'[s].seen = {}
<1> DEFINE r == [Idle EXCEPT !.pc = "find", !.private = private[s]]
<1>1. /\ r \in Runs /\ r.pc = "find" /\ r.private = private[s]
      /\ r.got = None /\ r.seen = {}
  BY DEF TypeOK, Idle, Runs
<1>2. SetRun(s, r)
  BY DEF Begin
<1> HIDE DEF r
<1> QED BY <1>1, <1>2, RunType

\* GetFloatingIPByPortID finds the address of the port, or that it has none.
LEMMA FindRun ==
  ASSUME TypeOK, NEW s \in Shoots, GetFloatingIPByPortID(s)
  PROVE  /\ run' \in [Shoots -> Runs]
         /\ \A t \in Shoots \ {s} : run'[t] = run[t]
         /\ run'[s].private = run[s].private /\ run'[s].seen = run[s].seen
         /\ \/ OfPort(s) = {} /\ run'[s].got = None
            \/ run'[s].got \in OfPort(s)
         /\ run'[s].pc = IF run[s].private
                         THEN IF run'[s].got = None THEN "report" ELSE "detach"
                         ELSE IF run'[s].got = None THEN "list" ELSE "report"
<1>1. PICK f \in IF OfPort(s) = {} THEN {None} ELSE OfPort(s) :
        SetRun(s, [run[s] EXCEPT !.got = f,
             !.pc = IF run[s].private
                    THEN IF f = None THEN "report" ELSE "detach"
                    ELSE IF f = None THEN "list" ELSE "report"])
  BY DEF GetFloatingIPByPortID
<1> DEFINE pc == IF run[s].private
                 THEN IF f = None THEN "report" ELSE "detach"
                 ELSE IF f = None THEN "list" ELSE "report"
           r == [run[s] EXCEPT !.got = f, !.pc = pc]
<1>2. run[s] \in Runs
  BY DEF TypeOK
<1>3. f \in FIPs \union {None}
  BY DEF OfPort
<1>4. pc \in {"report", "detach", "list"}
  OBVIOUS
<1> HIDE DEF pc
<1>5. /\ r \in Runs /\ r.pc = pc /\ r.private = run[s].private /\ r.got = f
      /\ r.seen = run[s].seen
  BY <1>2, <1>3, <1>4 DEF Runs
<1>6. SetRun(s, r)
  BY <1>1 DEF pc
<1> HIDE DEF r
<1>7. run' \in [Shoots -> Runs] /\ run'[s] = r
      /\ \A t \in Shoots \ {s} : run'[t] = run[t]
  BY <1>5, <1>6, RunType
<1> QED BY <1>5, <1>7 DEF pc

\* getFloatingIPs returns what is free at this moment.
LEMMA ListRun ==
  ASSUME TypeOK, NEW s \in Shoots, ListAvailable(s)
  PROVE  /\ run' \in [Shoots -> Runs]
         /\ \A t \in Shoots \ {s} : run'[t] = run[t]
         /\ run'[s].private = run[s].private /\ run'[s].got = run[s].got
         /\ run'[s].seen = Available
         /\ run'[s].pc = IF Available = {} THEN "create" ELSE "attach"
<1> DEFINE pc == IF Available = {} THEN "create" ELSE "attach"
           r == [run[s] EXCEPT !.seen = Available, !.left = Subnets, !.pc = pc]
<1>1. run[s] \in Runs /\ Available \in SUBSET FIPs
  BY DEF TypeOK, Available
<1>2. pc \in {"create", "attach"}
  OBVIOUS
<1>3. SetRun(s, r)
  BY DEF ListAvailable
<1> HIDE DEF pc
<1>4. /\ r \in Runs /\ r.pc = pc /\ r.private = run[s].private
      /\ r.got = run[s].got /\ r.seen = Available
  BY <1>1, <1>2 DEF Runs
<1> HIDE DEF r
<1>5. run' \in [Shoots -> Runs] /\ run'[s] = r
      /\ \A t \in Shoots \ {s} : run'[t] = run[t]
  BY <1>3, <1>4, RunType
<1> QED BY <1>4, <1>5 DEF pc

\* Detach, and a create call that returns an address, lead to the report.
LEMMA ReportRun ==
  ASSUME TypeOK, NEW s \in Shoots, NEW got \in FIPs \union {None},
         SetRun(s, [run[s] EXCEPT !.got = got, !.pc = "report"])
  PROVE  /\ run' \in [Shoots -> Runs]
         /\ \A t \in Shoots \ {s} : run'[t] = run[t]
         /\ run'[s].private = run[s].private /\ run'[s].got = got
         /\ run'[s].seen = run[s].seen /\ run'[s].pc = "report"
<1> DEFINE r == [run[s] EXCEPT !.got = got, !.pc = "report"]
<1>1. run[s] \in Runs
  BY DEF TypeOK
<1>2. /\ r \in Runs /\ r.pc = "report" /\ r.private = run[s].private
      /\ r.got = got /\ r.seen = run[s].seen
  BY <1>1 DEF Runs
<1> HIDE DEF r
<1> QED BY <1>2, RunType DEF r

\* The first address of a shoot, once Detach is over.
LEMMA DetachRun ==
  ASSUME TypeOK, NEW s \in Shoots, Detach(s)
  PROVE  /\ run' \in [Shoots -> Runs]
         /\ \A t \in Shoots \ {s} : run'[t] = run[t]
         /\ run'[s].private = run[s].private /\ run'[s].got = run[s].got
         /\ run'[s].seen = run[s].seen /\ run'[s].pc = "report"
<1>1. run[s] \in Runs
  BY DEF TypeOK
<1>2. [run[s] EXCEPT !.pc = "report"]
        = [run[s] EXCEPT !.got = run[s].got, !.pc = "report"]
      /\ run[s].got \in FIPs \union {None}
  BY <1>1 DEF Runs
<1> QED BY <1>2, ReportRun DEF Detach, Step

\* The status of an address that comes up to date is nothing to any run.
LEMMA SettleStep ==
  ASSUME TypeOK, NEW f \in FIPs, Settle(f)
  PROVE  /\ UNCHANGED <<private, lb, queued, ok, ext, run, faults, changes>>
         /\ fip' \in [FIPs -> {"unallocated"} \union Released \union Shoots]
         /\ \A g \in FIPs : fip'[g] # fip[g] => fip'[g] = "free"
         /\ \A s \in Shoots : OfPort(s)' = OfPort(s)
<1>1. /\ fip' = [fip EXCEPT ![f] = "free"] /\ fip[f] = "leaving"
      /\ UNCHANGED <<private, lb, queued, ok, ext, run, faults, changes>>
  BY DEF Settle
<1>2. /\ fip' \in [FIPs -> {"unallocated"} \union Released \union Shoots]
      /\ \A g \in FIPs : fip'[g] # fip[g] => fip'[g] = "free"
  BY <1>1, ReleasedValues DEF TypeOK
<1>3. ASSUME NEW s \in Shoots PROVE OfPort(s)' = OfPort(s)
  <2>1. s # "free" /\ s # "leaving"
    BY ShootsAssumption
  <2>2. \A g \in FIPs : fip'[g] = s <=> fip[g] = s
    BY <1>1, <2>1 DEF TypeOK
  <2> QED BY <2>2 DEF OfPort
<1> QED BY <1>1, <1>2, <1>3

\* TypeOK is inductive.
LEMMA TypeOKNext ==
  ASSUME TypeOK, [Next]_vars
  PROVE  TypeOK'
<1>0. Fault => faults' \in 0 .. MaxFaults
  BY FipBoundsAssumption DEF Fault, TypeOK
<1>1. ASSUME NEW s \in Shoots, Begin(s) PROVE TypeOK'
  BY <1>1, BeginRun DEF Begin, TypeOK
<1>2. ASSUME NEW s \in Shoots, GetFloatingIPByPortID(s) \/ ListAvailable(s)
      PROVE  TypeOK'
  BY <1>2, FindRun, ListRun DEF GetFloatingIPByPortID, ListAvailable, TypeOK
<1>3. ASSUME NEW s \in Shoots, Detach(s) PROVE TypeOK'
  BY <1>3, DetachRun, FipType DEF Detach, TypeOK
<1>4. ASSUME NEW s \in Shoots, NEW f \in FIPs, UpdateFloatingIP(s, f)
      PROVE  TypeOK'
  <2>1. fip' \in [FIPs -> {"unallocated"} \union Released \union Shoots]
    BY <1>4, FipType DEF UpdateFloatingIP
  <2>2. run[s].got \in FIPs \union {None}
    BY DEF TypeOK, Runs
  <2>3. run' \in [Shoots -> Runs] /\ queued' \in [Shoots -> BOOLEAN]
    BY <1>4, <2>2, AfterElementType, FailType DEF UpdateFloatingIP, TypeOK
  <2> QED BY <1>4, <2>1, <2>3 DEF UpdateFloatingIP, TypeOK
<1>5. ASSUME NEW s \in Shoots, NEW n \in Subnets, CreateFloatingIP(s, n)
      PROVE  TypeOK'
  <2>1. fip' \in [FIPs -> {"unallocated"} \union Released \union Shoots]
    BY <1>5, FipType DEF CreateFloatingIP
  <2>2. run' \in [Shoots -> Runs] /\ queued' \in [Shoots -> BOOLEAN]
    BY <1>5, ReportRun, NextSubnetType DEF CreateFloatingIP, TypeOK
  <2> QED BY <1>5, <2>1, <2>2 DEF CreateFloatingIP, TypeOK
<1>6. ASSUME NEW s \in Shoots, UpdateStatus(s) PROVE TypeOK'
  <2>1. Address(s) \in FIPs \union {None}
    BY DEF Address, TypeOK, Runs
  <2>2. run' \in [Shoots -> Runs]
    BY <1>6, RunType, IdleType DEF UpdateStatus
  <2> QED BY <1>6, <2>1, <2>2 DEF UpdateStatus, TypeOK
<1>7. ASSUME NEW s \in Shoots, CallFails(s) PROVE TypeOK'
  <2>1. run' \in [Shoots -> Runs] /\ queued' \in [Shoots -> BOOLEAN]
    BY <1>7, FailType, NextSubnetType DEF CallFails
  <2> QED BY <1>0, <1>7, <2>1 DEF CallFails, TypeOK
<1>8. ASSUME NEW s \in Shoots, AnswerLost(s) PROVE TypeOK'
  <2>1. run' \in [Shoots -> Runs] /\ queued' \in [Shoots -> BOOLEAN]
    BY <1>8, FailType, NextSubnetType DEF AnswerLost
  <2>2. run[s].seen \subseteq FIPs
    BY DEF TypeOK, Runs
  <2>3. fip' \in [FIPs -> {"unallocated"} \union Released \union Shoots]
    BY <1>8, <2>2, FipType DEF AnswerLost
  <2> QED BY <1>0, <1>8, <2>1, <2>3 DEF AnswerLost, TypeOK
<1>9. CASE Crash
  BY <1>0, <1>9, IdleType DEF Crash, TypeOK
<1>10. ASSUME NEW s \in Shoots, ChangeSpec(s) \/ DeleteLoadbalancer(s)
       PROVE  TypeOK'
  <2>1. changes' \in 0 .. MaxChanges
    BY <1>10, FipBoundsAssumption DEF ChangeSpec, DeleteLoadbalancer, Change,
                                      TypeOK
  <2>2. CASE ChangeSpec(s)
    BY <2>1, <2>2 DEF ChangeSpec, TypeOK
  <2>3. CASE DeleteLoadbalancer(s)
    BY <2>1, <2>3, ReleasedValues DEF DeleteLoadbalancer, TypeOK
  <2> QED BY <1>10, <2>2, <2>3
<1>11. ASSUME NEW s \in Shoots, CreateLoadBalancer(s) PROVE TypeOK'
  BY <1>11 DEF CreateLoadBalancer, TypeOK
<1>12. ASSUME NEW f \in FIPs, Settle(f) PROVE TypeOK'
  BY <1>12, SettleStep DEF TypeOK
<1>13. CASE UNCHANGED vars
  BY <1>13 DEF vars, TypeOK
<1> QED BY <1>1, <1>2, <1>3, <1>4, <1>5, <1>6, <1>7, <1>8, <1>9, <1>10, <1>11,
           <1>12, <1>13 DEF Next, Attach

\* TypeOK holds at first.
LEMMA TypeOKInit == Init => TypeOK
<1> SUFFICES ASSUME Init PROVE TypeOK
  OBVIOUS
<1>1. faults \in 0 .. MaxFaults /\ changes \in 0 .. MaxChanges
  <2>1. faults = 0 /\ changes = 0
    BY DEF Init
  <2> QED BY <2>1, FipBoundsAssumption
<1> QED BY <1>1, IdleType, ReleasedValues DEF Init, TypeOK

\* Every variable keeps its type: in particular the external address in the
\* state of a shoot is a floating IP or nothing.
THEOREM TypeCorrect == Spec => []TypeOK
<1>1. TypeOK /\ [Next]_vars => TypeOK'
  BY TypeOKNext
<1> QED BY <1>1, TypeOKInit, PTL DEF Spec

(***************************************************************************)
(* What a run knows, whatever the other workers do: they can take an       *)
(* address from its port and never give it one.                            *)
(***************************************************************************)

RunOK(s) ==
  /\ ok[s] => run[s].pc = "idle"
  /\ run[s].pc \in {"list", "attach", "create"} => ~run[s].private
  /\ run[s].pc = "detach" => /\ run[s].private /\ run[s].got \in FIPs
                             /\ OfPort(s) \subseteq {run[s].got}
  /\ run[s].pc = "report" /\ run[s].private => OfPort(s) = {}
  /\ run[s].pc = "report" /\ ~run[s].private => run[s].got \in FIPs
  /\ run[s].pc = "list" => OfPort(s) = {}
  /\ run[s].pc = "attach" /\ run[s].got = None => OfPort(s) = {}
  /\ run[s].pc \in {"list", "create"} => run[s].got = None
  /\ ok[s] /\ ext[s] = None => OfPort(s) = {}
  /\ \A f, g \in OfPort(s) : f = g

VipInv == \A s \in Shoots : RunOK(s)

\* HasAddress says that OfPort is not empty.
LEMMA NoAddress ==
  ASSUME NEW s
  PROVE  HasAddress(s) <=> OfPort(s) # {}
BY DEF HasAddress, OfPort

\* The ports after a call that gives an address to s.
LEMMA PortsAfterAttached ==
  ASSUME TypeOK, NEW s \in Shoots, NEW f \in FIPs, Attached(s, f)
  PROVE  /\ OfPort(s)' = OfPort(s) \union {f}
         /\ \A t \in Shoots \ {s} : OfPort(t)' = OfPort(t) \ {f}
BY DEF TypeOK, Attached, OfPort

\* The ports after a call that takes an address away.
LEMMA PortsAfterDetached ==
  ASSUME TypeOK, NEW s \in Shoots, Detached(s)
  PROVE  \A t \in Shoots : OfPort(t)' = OfPort(t) \ {run[s].got}
BY ReleasedValues DEF TypeOK, Detached, OfPort

\* A worker whose local variables and status no step touches stays right, also
\* when its port loses an address.
LEMMA RunOKKept ==
  ASSUME NEW t, RunOK(t), run'[t] = run[t], ok'[t] = ok[t], ext'[t] = ext[t],
         OfPort(t)' \subseteq OfPort(t)
  PROVE  RunOK(t)'
BY DEF RunOK

\* A worker at rest that was not reported a success has only to have one
\* address at most.
LEMMA RunOKAtRest ==
  ASSUME NEW t, RunOK(t), run'[t] = Idle, ~ok'[t],
         \A f, g \in OfPort(t)' : f = g
  PROVE  RunOK(t)'
BY DEF RunOK, Idle

\* A step that one shoot takes: all steps but Settle and a crash.
StepOf(s) == \/ Begin(s) \/ Attach(s) \/ CallFails(s) \/ AnswerLost(s)
             \/ ChangeSpec(s) \/ DeleteLoadbalancer(s) \/ CreateLoadBalancer(s)

\* What a step of s does to the table of addresses.
LEMMA FipStep ==
  ASSUME TypeOK, NEW s \in Shoots, StepOf(s)
  PROVE  \/ UNCHANGED fip
         \/ run[s].pc = "detach" /\ Detached(s)
         \/ \E f \in FIPs :
              /\ \/ run[s].pc = "attach" /\ f \in run[s].seen \ Forwarded
                 \/ run[s].pc = "create" /\ fip[f] = "unallocated"
              /\ ~HasAddress(s) /\ Attached(s, f)
         \/ DeleteLoadbalancer(s)
<1>0. run[s].seen \subseteq FIPs
  BY DEF TypeOK, Runs
<1>1. CASE Attach(s)
  <2>1. CASE \E f \in FIPs : UpdateFloatingIP(s, f)
    BY <2>1 DEF UpdateFloatingIP
  <2>2. CASE \E n \in Subnets : CreateFloatingIP(s, n)
    BY <2>2 DEF CreateFloatingIP
  <2>3. CASE Detach(s)
    BY <2>3 DEF Detach
  <2> QED BY <1>1, <2>1, <2>2, <2>3
      DEF Attach, GetFloatingIPByPortID, ListAvailable, UpdateStatus
<1>2. CASE AnswerLost(s)
  BY <1>0, <1>2 DEF AnswerLost
<1> QED BY <1>1, <1>2 DEF StepOf, Begin, CallFails, ChangeSpec,
                          CreateLoadBalancer

\* What a step of s does to the others: it may take an address from them.
LEMMA OthersStep ==
  ASSUME TypeOK, NEW s \in Shoots, StepOf(s), NEW t \in Shoots \ {s}
  PROVE  /\ run'[t] = run[t] /\ ok'[t] = ok[t] /\ ext'[t] = ext[t]
         /\ OfPort(t)' \subseteq OfPort(t)
<1>1. OfPort(t)' \subseteq OfPort(t)
  <2>1. CASE UNCHANGED fip
    BY <2>1 DEF OfPort
  <2>2. CASE DeleteLoadbalancer(s)
    BY <2>2, ReleasedValues DEF DeleteLoadbalancer, OfPort, TypeOK
  <2> QED BY <2>1, <2>2, FipStep, PortsAfterDetached, PortsAfterAttached
<1>2. run'[t] = run[t]
  <2>1. CASE Attach(s)
    <3>1. ASSUME NEW f \in FIPs, UpdateFloatingIP(s, f)
          PROVE  run'[t] = run[t]
      <4>1. run[s].got \in FIPs \union {None}
        BY DEF TypeOK, Runs
      <4> QED BY <3>1, <4>1, AfterElementType, FailType DEF UpdateFloatingIP
    <3>2. ASSUME NEW n \in Subnets, CreateFloatingIP(s, n)
          PROVE  run'[t] = run[t]
      BY <3>2, ReportRun, NextSubnetType DEF CreateFloatingIP
    <3>3. CASE UpdateStatus(s)
      BY <3>3, RunType, IdleType DEF UpdateStatus
    <3> QED BY <2>1, <3>1, <3>2, <3>3, FindRun, ListRun, DetachRun DEF Attach
  <2>2. CASE CallFails(s) \/ AnswerLost(s)
    BY <2>2, FailType, NextSubnetType DEF CallFails, AnswerLost
  <2> QED BY <2>1, <2>2, BeginRun
      DEF StepOf, ChangeSpec, DeleteLoadbalancer, CreateLoadBalancer
<1>3. ok'[t] = ok[t] /\ ext'[t] = ext[t]
  BY DEF StepOf, Begin, Attach, GetFloatingIPByPortID, Detach, ListAvailable,
       UpdateFloatingIP, CreateFloatingIP, UpdateStatus, CallFails, AnswerLost,
       ChangeSpec, DeleteLoadbalancer, CreateLoadBalancer, TypeOK
<1> QED BY <1>1, <1>2, <1>3

\* A step of s keeps s right.
LEMMA RunOKStep ==
  ASSUME TypeOK, NEW s \in Shoots, RunOK(s), StepOf(s)
  PROVE  RunOK(s)'
<1>0. run[s].pc # "idle" => ~ok[s]
  BY DEF RunOK
<1>1. CASE Begin(s)
  <2>1. run'[s].pc = "find" /\ OfPort(s)' = OfPort(s) /\ ~ok'[s]
    BY <1>1, BeginRun DEF Begin, OfPort, TypeOK
  <2> QED BY <2>1 DEF RunOK
<1>2. CASE GetFloatingIPByPortID(s)
  <2>1. OfPort(s)' = OfPort(s) /\ ~ok'[s] /\ run[s].pc = "find"
    BY <1>0, <1>2 DEF GetFloatingIPByPortID, OfPort
  <2>2. OfPort(s) \subseteq FIPs
    BY DEF OfPort
  <2> QED BY <1>2, <2>1, <2>2, FindRun, FipNoneAssumption DEF RunOK
<1>3. CASE Detach(s)
  <2>1. run[s].pc = "detach" /\ ~ok'[s]
        /\ OfPort(s)' = OfPort(s) \ {run[s].got}
    BY <1>0, <1>3, PortsAfterDetached DEF Detach
  <2> QED BY <1>3, <2>1, DetachRun DEF RunOK
<1>4. CASE ListAvailable(s)
  <2>1. OfPort(s)' = OfPort(s) /\ ~ok'[s] /\ run[s].pc = "list"
    BY <1>0, <1>4 DEF ListAvailable, OfPort
  <2> QED BY <1>4, <2>1, ListRun DEF RunOK
<1>5. ASSUME NEW f \in FIPs, UpdateFloatingIP(s, f) PROVE RunOK(s)'
  <2>0. run[s].pc = "attach" /\ ~ok'[s]
    BY <1>0, <1>5 DEF UpdateFloatingIP
  <2>1. CASE AfterElement(s, f, run[s].got) /\ UNCHANGED fip
    <3>1. run[s].got \in FIPs \union {None}
      BY DEF TypeOK, Runs
    <3>2. OfPort(s)' = OfPort(s)
      BY <2>1 DEF OfPort
    <3> QED BY <2>0, <2>1, <3>1, <3>2, AfterElementType, FipNoneAssumption
        DEF RunOK
  <2>2. CASE ~HasAddress(s) /\ Attached(s, f) /\ AfterElement(s, f, f)
    <3>1. OfPort(s)' = {f}
      BY <2>2, NoAddress, PortsAfterAttached
    <3> QED BY <2>0, <2>2, <3>1, AfterElementType, FipNoneAssumption DEF RunOK
  <2>3. CASE Fail(s) /\ UNCHANGED fip
    BY <2>0, <2>3, FailType, RunOKAtRest DEF RunOK, OfPort
  <2> QED BY <1>5, <2>1, <2>2, <2>3 DEF UpdateFloatingIP
<1>6. ASSUME NEW n, NextSubnet(s, n), run[s].pc = "create", ~ok'[s],
             \A f, g \in OfPort(s)' : f = g
      PROVE  RunOK(s)'
  <2>1. CASE run'[s] = Idle
    BY <1>6, <2>1, RunOKAtRest
  <2>2. CASE /\ run'[s].pc = run[s].pc /\ run'[s].private = run[s].private
             /\ run'[s].got = run[s].got
    BY <1>6, <2>2 DEF RunOK
  <2> QED BY <1>6, <2>1, <2>2, NextSubnetType
<1>7. ASSUME NEW n \in Subnets, CreateFloatingIP(s, n) PROVE RunOK(s)'
  <2>0. run[s].pc = "create" /\ ~ok'[s]
    BY <1>0, <1>7 DEF CreateFloatingIP
  <2>1. CASE NextSubnet(s, n) /\ UNCHANGED fip
    BY <1>6, <2>0, <2>1 DEF RunOK, OfPort
  <2>2. ASSUME NEW f \in FIPs, ~HasAddress(s), Attached(s, f),
               SetRun(s, [run[s] EXCEPT !.got = f, !.pc = "report"])
        PROVE  RunOK(s)'
    <3>1. OfPort(s)' = {f}
      BY <2>2, NoAddress, PortsAfterAttached
    <3> QED BY <2>0, <2>2, <3>1, ReportRun DEF RunOK
  <2> QED BY <1>7, <2>1, <2>2 DEF CreateFloatingIP
<1>8. CASE UpdateStatus(s)
  <2>1. /\ run'[s].pc = "idle" /\ OfPort(s)' = OfPort(s)
        /\ run[s].pc = "report" /\ ext'[s] = Address(s)
    BY <1>8, RunType, IdleType DEF UpdateStatus, OfPort, Idle, TypeOK
  <2> QED BY <2>1, FipNoneAssumption DEF RunOK, Address
<1>9. CASE CallFails(s)
  <2>1. OfPort(s)' = OfPort(s) /\ ~ok'[s]
    BY <1>0, <1>9 DEF CallFails, OfPort
  <2>2. CASE Fail(s)
    BY <2>1, <2>2, FailType, RunOKAtRest DEF RunOK
  <2>3. CASE run[s].pc = "create" /\ \E n \in run[s].left : NextSubnet(s, n)
    BY <1>6, <2>1, <2>3 DEF RunOK
  <2> QED BY <1>9, <2>2, <2>3 DEF CallFails
<1>10. CASE AnswerLost(s)
  <2>0. ~ok'[s] /\ run[s].seen \subseteq FIPs
    BY <1>0, <1>10 DEF AnswerLost, TypeOK, Runs
  <2>1. CASE Detached(s) /\ Fail(s)
    BY <2>0, <2>1, FailType, PortsAfterDetached, RunOKAtRest DEF RunOK
  <2>2. ASSUME NEW f \in FIPs, ~HasAddress(s), Attached(s, f)
        PROVE  \A g, h \in OfPort(s)' : g = h
    BY <2>2, NoAddress, PortsAfterAttached
  <2>3. CASE \E f \in run[s].seen \ Forwarded :
               ~HasAddress(s) /\ Attached(s, f) /\ Fail(s)
    BY <2>0, <2>2, <2>3, FailType, RunOKAtRest
  <2>4. ASSUME NEW n, NEW f \in FIPs, ~HasAddress(s), Attached(s, f),
               run[s].pc = "create", NextSubnet(s, n)
        PROVE  RunOK(s)'
    BY <1>6, <2>0, <2>2, <2>4
  <2> QED BY <1>10, <2>1, <2>3, <2>4 DEF AnswerLost
<1>11. CASE ChangeSpec(s) \/ CreateLoadBalancer(s)
  BY <1>11, RunOKKept DEF ChangeSpec, CreateLoadBalancer, OfPort
<1>12. CASE DeleteLoadbalancer(s)
  <2>1. OfPort(s)' = {}
    BY <1>12, ReleasedValues DEF DeleteLoadbalancer, OfPort, TypeOK
  <2>2. run'[s].pc = "idle" /\ ~ok'[s]
    BY <1>12 DEF DeleteLoadbalancer, TypeOK
  <2> QED BY <2>1, <2>2 DEF RunOK
<1> QED BY <1>1, <1>2, <1>3, <1>4, <1>5, <1>7, <1>8, <1>9, <1>10, <1>11, <1>12
    DEF StepOf, Attach

\* Every step preserves VipInv.
LEMMA VipInvNext ==
  ASSUME TypeOK, VipInv, [Next]_vars
  PROVE  VipInv'
<1>1. ASSUME NEW s \in Shoots, StepOf(s), NEW t \in Shoots PROVE RunOK(t)'
  <2>1. CASE t = s
    BY <1>1, <2>1, RunOKStep DEF VipInv
  <2>2. CASE t # s
    BY <1>1, <2>2, OthersStep, RunOKKept DEF VipInv
  <2> QED BY <2>1, <2>2
<1>2. ASSUME Crash, NEW t \in Shoots PROVE RunOK(t)'
  <2>1. run'[t].pc = "idle" /\ OfPort(t)' = OfPort(t) /\ ok' = ok /\ ext' = ext
    BY <1>2 DEF Crash, OfPort, Idle
  <2> QED BY <2>1 DEF VipInv, RunOK
<1>3. ASSUME UNCHANGED vars, NEW t \in Shoots PROVE RunOK(t)'
  BY <1>3, RunOKKept DEF vars, VipInv, OfPort
<1>4. ASSUME NEW f \in FIPs, Settle(f), NEW t \in Shoots PROVE RunOK(t)'
  BY <1>4, SettleStep, RunOKKept DEF VipInv
<1> QED BY <1>1, <1>2, <1>3, <1>4 DEF Next, StepOf, VipInv

\* VipInv holds in every reachable state, with any number of workers.
LEMMA VipInvHolds == Spec => [](TypeOK /\ VipInv)
<1>1. Init => TypeOK /\ VipInv
  <2> SUFFICES ASSUME Init, NEW s \in Shoots PROVE RunOK(s)
    BY TypeOKInit DEF VipInv
  <2>1. run[s].pc = "idle" /\ ~ok[s] /\ OfPort(s) = {}
    BY ShootsAssumption DEF Init, Idle, OfPort
  <2> QED BY <2>1 DEF RunOK
<1>2. TypeOK /\ VipInv /\ [Next]_vars => (TypeOK /\ VipInv)'
  BY TypeOKNext, VipInvNext
<1> QED BY <1>1, <1>2, PTL DEF Spec

\* No worker, failure, crash or change of a spec leaves a floating IP on the
\* port of a shoot that was reported as private.
THEOREM PrivateNotExposedHolds == Spec => []PrivateNotExposed
<1>1. VipInv => PrivateNotExposed
  BY NoAddress DEF VipInv, RunOK, PrivateNotExposed
<1> QED BY <1>1, VipInvHolds, PTL

(***************************************************************************)
(* With one worker: what the worker read is still so when it is used.      *)
(***************************************************************************)

Current(s) ==
  /\ run[s].pc = "attach" => \A f \in run[s].seen : fip[f] = "free"
  /\ run[s].pc = "detach" => fip[run[s].got] = s
  /\ run[s].pc \in {"attach", "report"} /\ ~run[s].private /\ run[s].got # None
       => fip[run[s].got] = s
  /\ ok[s] /\ ext[s] # None => fip[ext[s]] = s

SerialInv ==
  /\ \A s, t \in Busy : s = t
  /\ \A s \in Shoots : Current(s)

\* A worker begins only when no other runs.
LEMMA BeginAlone ==
  ASSUME TypeOK, Workers <= 1, NEW s, Begin(s)
  PROVE  Busy = {}
<1>1. Busy \in SUBSET Shoots
  BY DEF Busy
<1>2. IsFiniteSet(Busy) /\ Cardinality(Busy) \in Nat
  BY <1>1, FiniteAssumption, FS_Subset, FS_CardinalityType
<1>3. Cardinality(Busy) < 1
  BY <1>2, FipBoundsAssumption DEF Begin
<1> QED BY <1>2, <1>3, FS_EmptySet

\* No step takes an address from another shoot, and only the step of a worker
\* takes one that is free.
LEMMA SerialFip ==
  ASSUME TypeOK, VipInv, SerialInv, NEW s \in Shoots, StepOf(s), NEW f \in FIPs
  PROVE  /\ \A t \in Shoots \ {s} : fip[f] = t => fip'[f] = t
         /\ s \notin Busy /\ fip[f] = "free" => fip'[f] = "free"
<1>0. Current(s) /\ RunOK(s)
  BY DEF SerialInv, VipInv
<1>1. CASE UNCHANGED fip
  BY <1>1
<1>2. CASE run[s].pc = "detach" /\ Detached(s)
  <2>1. run[s].got \in FIPs /\ fip[run[s].got] = s /\ s \in Busy
    BY <1>0, <1>2 DEF Current, RunOK, Busy
  <2> QED BY <1>2, <2>1 DEF Detached, TypeOK
<1>3. ASSUME NEW g \in FIPs, Attached(s, g),
             \/ run[s].pc = "attach" /\ g \in run[s].seen \ Forwarded
             \/ run[s].pc = "create" /\ fip[g] = "unallocated"
      PROVE  /\ \A t \in Shoots \ {s} : fip[f] = t => fip'[f] = t
             /\ s \notin Busy /\ fip[f] = "free" => fip'[f] = "free"
  <2>1. fip[g] \in {"free", "unallocated"} /\ s \in Busy
    BY <1>0, <1>3 DEF Current, Busy
  <2> QED BY <1>3, <2>1, ShootsAssumption DEF Attached, TypeOK
<1>4. CASE DeleteLoadbalancer(s)
  BY <1>4, ShootsAssumption, ReleasedValues DEF DeleteLoadbalancer, TypeOK
<1> QED BY <1>1, <1>2, <1>3, <1>4, FipStep

\* A step of s leaves what the others know current.
LEMMA CurrentKept ==
  ASSUME TypeOK, VipInv, SerialInv, Workers <= 1,
         NEW s \in Shoots, StepOf(s), NEW t \in Shoots \ {s}
  PROVE  Current(t)'
<1>1. run'[t] = run[t] /\ ok'[t] = ok[t] /\ ext'[t] = ext[t]
  BY OthersStep
<1>2. Current(t) /\ RunOK(t)
  BY DEF SerialInv, VipInv
<1>3. /\ run[t].seen \subseteq FIPs /\ run[t].got \in FIPs \union {None}
      /\ ext[t] \in FIPs \union {None}
  BY DEF TypeOK, Runs
<1>4. ok[t] /\ ext[t] # None => fip'[ext[t]] = t
  BY <1>2, <1>3, SerialFip DEF Current
<1>5. CASE run[t].pc = "idle"
  BY <1>1, <1>4, <1>5 DEF Current
<1>6. CASE run[t].pc # "idle"
  <2>1. s \notin Busy
    BY <1>6 DEF SerialInv, Busy
  <2>2. \A f \in run[t].seen : fip[f] = "free" => fip'[f] = "free"
    BY <1>3, <2>1, SerialFip
  <2>3. run[t].got # None /\ fip[run[t].got] = t => fip'[run[t].got] = t
    BY <1>3, SerialFip
  <2>4. run[t].pc = "detach" => run[t].got \in FIPs
    BY <1>2 DEF RunOK
  <2> QED BY <1>1, <1>2, <1>4, <2>2, <2>3, <2>4, FipNoneAssumption DEF Current
<1> QED BY <1>5, <1>6

\* A worker at rest whose shoot is not reported a success knows nothing.
LEMMA CurrentAtRest ==
  ASSUME NEW s, run'[s] = Idle, ~ok'[s]
  PROVE  Current(s)'
BY DEF Current, Idle

\* A step of s leaves what s knows current.
LEMMA CurrentStep ==
  ASSUME TypeOK, VipInv, SerialInv, NEW s \in Shoots, StepOf(s)
  PROVE  Current(s)'
<1>0. Current(s) /\ RunOK(s) /\ (run[s].pc # "idle" => ~ok[s])
  BY DEF SerialInv, VipInv, RunOK
<1>1. CASE Begin(s)
  BY <1>1, BeginRun DEF Begin, Current, TypeOK
<1>2. CASE GetFloatingIPByPortID(s)
  <2>1. UNCHANGED <<fip, ok>> /\ run[s].pc = "find"
    BY <1>2 DEF GetFloatingIPByPortID
  <2> QED BY <1>0, <1>2, <2>1, FindRun, FipNoneAssumption DEF Current, OfPort
<1>3. CASE Detach(s)
  <2>1. run[s].pc = "detach" /\ UNCHANGED ok
    BY <1>3 DEF Detach
  <2> QED BY <1>0, <1>3, <2>1, DetachRun DEF Current, RunOK
<1>4. CASE ListAvailable(s)
  <2>1. UNCHANGED <<fip, ok>> /\ run[s].pc = "list"
    BY <1>4 DEF ListAvailable
  <2> QED BY <1>0, <1>4, <2>1, ListRun DEF Current, RunOK, Available
<1>5. ASSUME NEW f \in FIPs, UpdateFloatingIP(s, f) PROVE Current(s)'
  <2>0. run[s].pc = "attach" /\ ~ok'[s] /\ run[s].seen \subseteq FIPs
        /\ run[s].got \in FIPs \union {None}
    BY <1>0, <1>5 DEF UpdateFloatingIP, TypeOK, Runs
  <2>1. CASE AfterElement(s, f, run[s].got) /\ UNCHANGED fip
    BY <1>0, <2>0, <2>1, AfterElementType DEF Current
  <2>2. CASE Attached(s, f) /\ AfterElement(s, f, f)
    <3>1. fip'[f] = s /\ \A g \in FIPs \ {f} : fip'[g] = fip[g]
      BY <2>2 DEF Attached, TypeOK
    <3> QED BY <1>0, <2>0, <2>2, <3>1, AfterElementType DEF Current
  <2>3. CASE Fail(s)
    BY <2>0, <2>3, FailType, CurrentAtRest
  <2> QED BY <1>5, <2>1, <2>2, <2>3 DEF UpdateFloatingIP
<1>6. ASSUME NEW n, NextSubnet(s, n), run[s].pc = "create", ~ok'[s]
      PROVE  Current(s)'
  BY <1>6, NextSubnetType, CurrentAtRest DEF Current
<1>7. ASSUME NEW n \in Subnets, CreateFloatingIP(s, n) PROVE Current(s)'
  <2>0. run[s].pc = "create" /\ ~ok'[s]
    BY <1>0, <1>7 DEF CreateFloatingIP
  <2>1. CASE NextSubnet(s, n)
    BY <1>6, <2>0, <2>1
  <2>2. ASSUME NEW f \in FIPs, Attached(s, f),
               SetRun(s, [run[s] EXCEPT !.got = f, !.pc = "report"])
        PROVE  Current(s)'
    <3>1. fip'[f] = s
      BY <2>2 DEF Attached, TypeOK
    <3> QED BY <2>0, <2>2, <3>1, ReportRun DEF Current
  <2> QED BY <1>7, <2>1, <2>2 DEF CreateFloatingIP
<1>8. CASE UpdateStatus(s)
  <2>1. /\ run'[s].pc = "idle" /\ UNCHANGED fip
        /\ run[s].pc = "report" /\ ext'[s] = Address(s)
    BY <1>8, RunType, IdleType DEF UpdateStatus, Idle, TypeOK
  <2> QED BY <1>0, <2>1 DEF Current, Address
<1>9. CASE CallFails(s) \/ AnswerLost(s)
  <2>1. ~ok'[s]
    BY <1>0, <1>9 DEF CallFails, AnswerLost
  <2> QED BY <1>6, <1>9, <2>1, FailType, CurrentAtRest DEF CallFails, AnswerLost
<1>10. CASE ChangeSpec(s) \/ CreateLoadBalancer(s)
  BY <1>0, <1>10 DEF ChangeSpec, CreateLoadBalancer, Current
<1>11. CASE DeleteLoadbalancer(s)
  BY <1>11 DEF DeleteLoadbalancer, Current, TypeOK
<1> QED BY <1>1, <1>2, <1>3, <1>4, <1>5, <1>7, <1>8, <1>9, <1>10, <1>11
    DEF StepOf, Attach

\* Every step of a controller with one worker preserves SerialInv.
LEMMA SerialInvNext ==
  ASSUME TypeOK, VipInv, SerialInv, [Next]_vars, Workers <= 1
  PROVE  SerialInv'
<1>1. ASSUME NEW s \in Shoots, StepOf(s) PROVE SerialInv'
  <2>1. \A t \in Shoots : Current(t)'
    BY <1>1, CurrentKept, CurrentStep
  <2>2. \A t \in Shoots \ {s} : t \in Busy' => t \in Busy
    BY <1>1, OthersStep DEF Busy
  <2>3. CASE Begin(s)
    BY <2>1, <2>2, <2>3, BeginAlone DEF SerialInv, Busy
  <2>4. CASE ~Begin(s)
    <3>1. run[s].pc = "idle" => run' = run
      BY <1>1, <2>4 DEF StepOf, Attach, GetFloatingIPByPortID, Detach,
           ListAvailable, UpdateFloatingIP, CreateFloatingIP, UpdateStatus,
           CallFails, AnswerLost, ChangeSpec, DeleteLoadbalancer,
           CreateLoadBalancer
    <3>2. s \in Busy' => s \in Busy
      BY <3>1 DEF Busy
    <3> QED BY <2>1, <2>2, <3>2 DEF SerialInv, Busy
  <2> QED BY <2>3, <2>4
<1>2. CASE Crash
  <2>1. \A t \in Shoots : run'[t].pc = "idle"
    BY <1>2 DEF Crash, Idle
  <2>2. UNCHANGED <<fip, ok, ext>>
    BY <1>2 DEF Crash
  <2> QED BY <2>1, <2>2 DEF SerialInv, Current, Busy
<1>3. CASE UNCHANGED vars
  BY <1>3 DEF vars, SerialInv, Current, Busy
<1>4. ASSUME NEW f \in FIPs, Settle(f) PROVE SerialInv'
  <2>1. UNCHANGED <<run, ok, ext>>
    BY <1>4 DEF Settle
  <2>2. ASSUME NEW t \in Shoots PROVE Current(t)'
    <3>1. /\ run[t].seen \subseteq FIPs /\ run[t].got \in FIPs \union {None}
          /\ ext[t] \in FIPs \union {None}
      BY DEF TypeOK, Runs
    <3>2. Current(t) /\ (run[t].pc = "detach" => run[t].got \in FIPs)
      BY DEF SerialInv, VipInv, RunOK
    <3>3. \A g \in FIPs : /\ fip[g] = t => fip'[g] = t
                          /\ fip[g] = "free" => fip'[g] = "free"
      <4>1. \A g \in FIPs : fip[g] = t => g \in OfPort(t)'
        BY <1>4, SettleStep DEF OfPort
      <4> QED BY <1>4, <4>1, SettleStep DEF OfPort
    <3> QED BY <2>1, <3>1, <3>2, <3>3 DEF Current
  <2> QED BY <2>1, <2>2 DEF SerialInv, Busy
<1> QED BY <1>1, <1>2, <1>3, <1>4 DEF Next, StepOf

\* SerialInv holds in every reachable state of a controller with one worker.
LEMMA SerialInvHolds ==
  ASSUME Workers <= 1
  PROVE  Spec => [](TypeOK /\ VipInv /\ SerialInv)
<1>1. Init => SerialInv
  <2> SUFFICES ASSUME Init PROVE SerialInv
    OBVIOUS
  <2>1. \A s \in Shoots : run[s].pc = "idle" /\ ~ok[s]
    BY DEF Init, Idle
  <2> QED BY <2>1 DEF SerialInv, Current, Busy
<1>2. TypeOK /\ VipInv /\ SerialInv /\ [Next]_vars => SerialInv'
  BY SerialInvNext
<1> QED BY <1>1, <1>2, VipInvHolds, PTL DEF Spec

\* With one worker the address in the state of a shoot that was reported as
\* public is attached to its own load balancer: nothing it read was overtaken.
THEOREM ReportedIsAttachedHolds ==
  ASSUME Workers <= 1
  PROVE  Spec => []ReportedIsAttached
<1>1. SerialInv => ReportedIsAttached
  BY DEF SerialInv, Current, ReportedIsAttached
<1> QED BY <1>1, SerialInvHolds, PTL

(***************************************************************************)
(* AttachFloatingIP implements VipContract.                                *)
(***************************************************************************)

\* What the caller sees of a run.
LEMMA Stages ==
  ASSUME NEW r
  PROVE  /\ Call(r).stage = Stage(r) /\ Call(r).private = r.private
         /\ Stage(r) = "idle" <=> r.pc = "idle"
         /\ Stage(r) = "report" <=> \/ r.pc = "report"
                                    \/ r.pc = "attach" /\ r.got # None
         /\ Stage(r) \in {"idle", "attach", "report"}
BY DEF Call, Stage

\* Two runs that the caller cannot tell apart.
LEMMA SameCall ==
  ASSUME NEW r, NEW q, Stage(r) = Stage(q), r.private = q.private
  PROVE  Call(r) = Call(q)
BY DEF Call

\* The view of the caller when one worker moves.
LEMMA CallsStep ==
  ASSUME NEW s \in Shoots, \A t \in Shoots \ {s} : run'[t] = run[t]
  PROVE  Calls' = [Calls EXCEPT ![s] = Call(run'[s])]
BY DEF Calls

\* To the caller nothing happens when the stage of the run stays as it is.
LEMMA CallsSame ==
  ASSUME NEW s \in Shoots, \A t \in Shoots \ {s} : run'[t] = run[t],
         Stage(run'[s]) = Stage(run[s]), run'[s].private = run[s].private
  PROVE  Calls' = Calls
<1>1. Call(run'[s]) = Call(run[s])
  BY SameCall
<1> QED BY <1>1 DEF Calls

\* The end of AttachFloatingIP, as the caller sees it.
LEMMA CallsReport ==
  ASSUME NEW s \in Shoots, \A t \in Shoots \ {s} : run'[t] = run[t],
         Stage(run'[s]) = "report", run'[s].private = run[s].private
  PROVE  Calls' = [Calls EXCEPT ![s].stage = "report"]
<1>1. Call(run'[s]) = [Call(run[s]) EXCEPT !.stage = "report"]
  BY DEF Call
<1> QED BY <1>1, CallsStep DEF Calls

\* An error, as the caller sees it.
LEMMA CallsIdle ==
  ASSUME NEW s \in Shoots, \A t \in Shoots \ {s} : run'[t] = run[t],
         run'[s] = Idle
  PROVE  Calls' = [Calls EXCEPT ![s] = Contract!Idle]
<1>1. Call(Idle) = Contract!Idle
  BY DEF Call, Stage, Idle, Contract!Idle
<1> QED BY <1>1, CallsStep

\* What a step does to the addresses of the other shoots, as VipContract
\* allows it: nothing with one worker, a loss with several.
LEMMA OthersKeepStep ==
  ASSUME TypeOK, VipInv, Workers <= 1 => SerialInv, NEW s \in Shoots, StepOf(s)
  PROVE  Contract!OthersKeep(s)
<1> SUFFICES ASSUME NEW t \in Shoots \ {s}
             PROVE  Vip'[t] = Vip[t] \/ (Workers > 1 /\ ~Vip'[t])
  BY DEF Contract!OthersKeep
<1>1. /\ Vip[t] = HasAddress(t) /\ Vip'[t] = HasAddress(t)'
      /\ HasAddress(t) \in BOOLEAN /\ HasAddress(t)' \in BOOLEAN
  BY DEF Vip, HasAddress
<1>2. HasAddress(t)' => HasAddress(t)
  BY OthersStep DEF HasAddress, OfPort
<1>3. CASE Workers > 1
  BY <1>1, <1>2, <1>3
<1>4. CASE Workers <= 1
  <2>1. HasAddress(t) => HasAddress(t)'
    BY <1>4, SerialFip DEF HasAddress
  <2> QED BY <1>1, <1>2, <2>1
<1> QED BY <1>3, <1>4, FipBoundsAssumption

\* A call that leaves the port as the spec wants it serves the caller.
LEMMA ServesStep ==
  ASSUME TypeOK, VipInv, Workers <= 1 => SerialInv, NEW s \in Shoots, StepOf(s),
         run[s].pc # "idle",
         run[s].private <=> OfPort(s)' = {}
  PROVE  Contract!Serves(s)
<1>1. Calls[s].stage # "idle" /\ Calls[s].private = run[s].private
  BY Stages DEF Calls
<1>2. run[s].private \in BOOLEAN
  BY DEF TypeOK, Runs
<1>3. Vip'[s] = ~run[s].private
  BY <1>2 DEF Vip, HasAddress, OfPort
<1> QED BY <1>1, <1>3, OthersKeepStep DEF Contract!Serves

\* Every step is one of VipContract or none.
LEMMA ContractStep ==
  ASSUME TypeOK, VipInv, Workers <= 1 => SerialInv, NEW s \in Shoots, StepOf(s)
  PROVE  Contract!Next \/ UNCHANGED Contract!vars
<1> DEFINE Stutter == UNCHANGED <<Vip, private, Calls, Said>>
           Others == \A t \in Shoots \ {s} : run'[t] = run[t]
<1>0. RunOK(s) /\ Others
  BY OthersStep DEF VipInv
<1>a. Stutter => UNCHANGED Contract!vars
  BY DEF Contract!vars
<1>b. UNCHANGED fip => Vip' = Vip /\ OfPort(s)' = OfPort(s)
  BY DEF Vip, HasAddress, OfPort
<1>c. UNCHANGED <<ok, ext>> => Said' = Said
  BY DEF Said
<1>d. ASSUME UNCHANGED <<fip, private, ok, ext>>, run[s].pc # "idle",
             run'[s] = Idle
      PROVE  Contract!Next
  <2>1. Calls[s].stage # "idle"
    BY <1>d, Stages DEF Calls
  <2>2. Calls' = [Calls EXCEPT ![s] = Contract!Idle]
    BY <1>0, <1>d, CallsIdle
  <2> QED BY <1>b, <1>c, <1>d, <2>1, <2>2 DEF Contract!Next, Contract!Fails
<1>e. ASSUME Contract!Serves(s), UNCHANGED <<private, ok, ext>>,
             \/ Stage(run'[s]) = "report" /\ run'[s].private = run[s].private
             \/ /\ Stage(run'[s]) = Stage(run[s])
                /\ run'[s].private = run[s].private
             \/ run'[s] = Idle
      PROVE  Contract!Next
  <2>1. \/ Calls' = [Calls EXCEPT ![s].stage = "report"]
        \/ Calls' = Calls
        \/ Calls' = [Calls EXCEPT ![s] = Contract!Idle]
    BY <1>0, <1>e, CallsReport, CallsSame, CallsIdle
  <2> QED BY <1>c, <1>e, <2>1 DEF Contract!Next, Contract!AttachFloatingIP
<1>f. ASSUME UNCHANGED <<fip, private, ok, ext>>,
             Stage(run'[s]) = Stage(run[s]), run'[s].private = run[s].private
      PROVE  Stutter
  BY <1>0, <1>b, <1>c, <1>f, CallsSame
<1> HIDE DEF Stutter
<1>1. CASE Begin(s)
  <2>1. /\ run[s].pc = "idle" /\ UNCHANGED <<fip, private, ext>>
        /\ ok' = [ok EXCEPT ![s] = FALSE]
    BY <1>1 DEF Begin
  <2>2. Calls[s].stage = "idle"
    BY <2>1, Stages DEF Calls
  <2>3. run'[s].pc = "find" /\ run'[s].private = private[s]
    BY <1>1, BeginRun
  <2>4. Call(run'[s]) = [stage |-> "attach", private |-> private[s]]
    BY <2>3 DEF Call, Stage
  <2>5. Calls' = [Calls EXCEPT ![s] =
                    [stage |-> "attach", private |-> private[s]]]
    BY <1>0, <2>4, CallsStep
  <2>6. Said' = [Said EXCEPT ![s] = "nothing"]
    BY <2>1 DEF Said, TypeOK
  <2> QED BY <1>b, <2>1, <2>2, <2>5, <2>6 DEF Contract!Next, Contract!Begin
<1>2. CASE GetFloatingIPByPortID(s)
  <2>1. run[s].pc = "find" /\ UNCHANGED <<fip, private, ok, ext>>
    BY <1>2 DEF GetFloatingIPByPortID
  <2>2. run'[s].private = run[s].private
    BY <1>2, FindRun
  <2>3. CASE run'[s].pc = "report"
    <3>1. run[s].private <=> OfPort(s)' = {}
      BY <1>2, <1>b, <2>1, <2>3, FindRun, FipNoneAssumption DEF OfPort
    <3>2. Contract!Serves(s)
      BY <2>1, <3>1, ServesStep
    <3> QED BY <1>e, <2>1, <2>2, <2>3, <3>2, Stages
  <2>4. CASE run'[s].pc \in {"detach", "list"}
    <3>1. Stage(run'[s]) = Stage(run[s])
      BY <2>1, <2>4 DEF Stage
    <3> QED BY <1>a, <1>f, <2>1, <2>2, <3>1
  <2> QED BY <1>2, <2>3, <2>4, FindRun
<1>3. CASE Detach(s)
  <2>1. /\ run[s].pc = "detach" /\ UNCHANGED <<private, ok, ext>>
        /\ OfPort(s)' = OfPort(s) \ {run[s].got}
    BY <1>3, PortsAfterDetached DEF Detach
  <2>2. Contract!Serves(s)
    BY <1>0, <2>1, ServesStep DEF RunOK
  <2> QED BY <1>3, <1>e, <2>1, <2>2, DetachRun, Stages
<1>4. CASE ListAvailable(s)
  <2>1. run[s].pc = "list" /\ UNCHANGED <<fip, private, ok, ext>>
    BY <1>4 DEF ListAvailable
  <2>2. /\ run'[s].pc \in {"create", "attach"} /\ run'[s].got = None
        /\ run'[s].private = run[s].private
    BY <1>0, <1>4, <2>1, ListRun DEF RunOK
  <2>3. Stage(run'[s]) = Stage(run[s])
    BY <2>1, <2>2 DEF Stage
  <2> QED BY <1>a, <1>f, <2>1, <2>2, <2>3
<1>5. ASSUME NEW f \in FIPs, UpdateFloatingIP(s, f)
      PROVE  Contract!Next \/ UNCHANGED Contract!vars
  <2>0. /\ run[s].pc = "attach" /\ UNCHANGED <<private, ok, ext>>
        /\ run[s].got \in FIPs \union {None} /\ ~run[s].private
    BY <1>0, <1>5 DEF UpdateFloatingIP, TypeOK, Runs, RunOK
  <2>1. CASE AfterElement(s, f, run[s].got) /\ UNCHANGED fip
    <3>1. /\ run'[s].private = run[s].private /\ run'[s].got = run[s].got
          /\ run'[s].pc = IF run[s].seen \ {f} # {} THEN "attach"
                          ELSE IF run[s].got = None THEN "create" ELSE "report"
      BY <2>0, <2>1, AfterElementType
    <3>2. Stage(run'[s]) = Stage(run[s])
      BY <2>0, <3>1 DEF Stage
    <3> QED BY <1>a, <1>f, <2>0, <2>1, <3>1, <3>2
  <2>2. CASE Attached(s, f) /\ AfterElement(s, f, f)
    <3>1. /\ run'[s].private = run[s].private /\ run'[s].got = f
          /\ run'[s].pc \in {"attach", "report"}
      BY <2>2, AfterElementType, FipNoneAssumption
    <3>2. Stage(run'[s]) = "report"
      BY <3>1, Stages, FipNoneAssumption
    <3>3. Contract!Serves(s)
      BY <2>0, <2>2, PortsAfterAttached, ServesStep
    <3> QED BY <1>e, <2>0, <3>1, <3>2, <3>3
  <2>3. CASE Fail(s) /\ UNCHANGED fip
    BY <1>d, <2>0, <2>3, FailType
  <2> QED BY <1>5, <2>1, <2>2, <2>3 DEF UpdateFloatingIP
<1>6. ASSUME NEW n \in Subnets, CreateFloatingIP(s, n)
      PROVE  Contract!Next \/ UNCHANGED Contract!vars
  <2>0. run[s].pc = "create" /\ UNCHANGED <<private, ok, ext>>
        /\ ~run[s].private
    BY <1>0, <1>6 DEF CreateFloatingIP, RunOK
  <2>1. CASE NextSubnet(s, n) /\ UNCHANGED fip
    <3>1. CASE run'[s] = Idle
      BY <1>d, <2>0, <2>1, <3>1
    <3>2. CASE /\ run'[s].pc = run[s].pc /\ run'[s].private = run[s].private
               /\ run'[s].got = run[s].got
      BY <1>a, <1>f, <2>0, <2>1, <3>2 DEF Stage
    <3> QED BY <2>1, <3>1, <3>2, NextSubnetType
  <2>2. ASSUME NEW f \in FIPs, Attached(s, f),
               SetRun(s, [run[s] EXCEPT !.got = f, !.pc = "report"])
        PROVE  Contract!Next
    <3>1. Contract!Serves(s)
      BY <2>0, <2>2, PortsAfterAttached, ServesStep
    <3> QED BY <1>e, <2>0, <2>2, <3>1, ReportRun, Stages
  <2> QED BY <1>6, <2>1, <2>2 DEF CreateFloatingIP
<1>7. CASE UpdateStatus(s)
  <2>1. /\ run[s].pc = "report" /\ UNCHANGED <<fip, private>> /\ run'[s] = Idle
        /\ ext' = [ext EXCEPT ![s] = Address(s)]
        /\ ok' = [ok EXCEPT ![s] = TRUE]
    BY <1>7, RunType, IdleType DEF UpdateStatus
  <2>2. Calls[s].stage = "report" /\ Calls[s].private = run[s].private
    BY <2>1, Stages DEF Calls
  <2>3. Calls' = [Calls EXCEPT ![s] = Contract!Idle]
    BY <1>0, <2>1, CallsIdle
  <2>4. Address(s) = None <=> run[s].private
    BY <1>0, <2>1, FipNoneAssumption DEF Address, RunOK
  <2>5. Said' = [Said EXCEPT ![s] =
                   IF run[s].private THEN "Private" ELSE "Public"]
    BY <2>1, <2>4 DEF Said, TypeOK
  <2> QED BY <1>b, <2>1, <2>2, <2>3, <2>5
      DEF Contract!Next, Contract!UpdateStatus
<1>8. CASE CallFails(s)
  <2>0. run[s].pc # "idle" /\ UNCHANGED <<fip, private, ok, ext>>
    BY <1>8 DEF CallFails
  <2>1. CASE run'[s] = Idle
    BY <1>d, <2>0, <2>1
  <2>2. CASE /\ run'[s].pc = run[s].pc /\ run'[s].private = run[s].private
             /\ run'[s].got = run[s].got
    BY <1>a, <1>f, <2>0, <2>2 DEF Stage
  <2> QED BY <1>8, <2>1, <2>2, FailType, NextSubnetType DEF CallFails
<1>9. CASE AnswerLost(s)
  <2>0. UNCHANGED <<private, ok, ext>> /\ run[s].seen \subseteq FIPs
    BY <1>9 DEF AnswerLost, TypeOK, Runs
  <2>1. CASE run[s].pc = "detach" /\ Detached(s) /\ Fail(s)
    <3>1. Contract!Serves(s)
      BY <1>0, <2>1, PortsAfterDetached, ServesStep DEF RunOK
    <3> QED BY <1>e, <2>0, <2>1, <3>1, FailType
  <2>2. ASSUME NEW f \in FIPs, Attached(s, f), run[s].pc \in {"attach", "create"}
        PROVE  Contract!Serves(s)
    BY <1>0, <2>2, PortsAfterAttached, ServesStep DEF RunOK
  <2>3. CASE run[s].pc = "attach" /\ Fail(s)
             /\ \E f \in run[s].seen \ Forwarded : Attached(s, f)
    BY <1>e, <2>0, <2>2, <2>3, FailType
  <2>4. ASSUME run[s].pc = "create", NEW n, NextSubnet(s, n),
               NEW f \in FIPs, Attached(s, f)
        PROVE  Contract!Next
    <3>1. Contract!Serves(s)
      BY <2>2, <2>4
    <3>2. CASE run'[s] = Idle
      BY <1>e, <2>0, <3>1, <3>2
    <3>3. CASE /\ run'[s].pc = run[s].pc /\ run'[s].private = run[s].private
               /\ run'[s].got = run[s].got
      BY <1>e, <2>0, <3>1, <3>3 DEF Stage
    <3> QED BY <2>4, <3>2, <3>3, NextSubnetType
  <2> QED BY <1>9, <2>1, <2>3, <2>4 DEF AnswerLost
<1>10. CASE ChangeSpec(s)
  <2>1. /\ private' = [private EXCEPT ![s] = ~private[s]]
        /\ UNCHANGED <<fip, run, ok, ext>>
    BY <1>10 DEF ChangeSpec
  <2>2. Calls' = Calls
    BY <2>1 DEF Calls
  <2> QED BY <1>b, <1>c, <2>1, <2>2 DEF Contract!Next, Contract!ChangeSpec
<1>11. CASE DeleteLoadbalancer(s)
  <2>1. /\ run[s].pc = "idle" /\ UNCHANGED <<private, ext, run>>
        /\ \E v \in Released :
             fip' = [f \in FIPs |-> IF fip[f] = s THEN v ELSE fip[f]]
        /\ ok' = [ok EXCEPT ![s] = FALSE]
    BY <1>11 DEF DeleteLoadbalancer
  <2>2. Calls[s].stage = "idle" /\ Calls' = Calls
    BY <2>1, Stages DEF Calls
  <2>3. Said' = [Said EXCEPT ![s] = "nothing"]
    BY <2>1 DEF Said, TypeOK
  <2>4. ~HasAddress(s)'
    BY <2>1, ReleasedValues DEF HasAddress
  <2>5. \A t \in Shoots \ {s} : HasAddress(t)' <=> HasAddress(t)
    BY <2>1, ReleasedValues DEF HasAddress
  <2>6. Vip' = [Vip EXCEPT ![s] = FALSE]
    BY <2>4, <2>5 DEF Vip, HasAddress
  <2> QED BY <2>1, <2>2, <2>3, <2>6
      DEF Contract!Next, Contract!DeleteLoadbalancer
<1>12. CASE CreateLoadBalancer(s)
  BY <1>12, <1>a, <1>f DEF CreateLoadBalancer
<1> QED BY <1>1, <1>2, <1>3, <1>4, <1>5, <1>6, <1>7, <1>8, <1>9, <1>10, <1>11,
           <1>12 DEF StepOf, Attach

\* The invariants of both kinds of controller: with one worker and with several.
LEMMA InvHolds ==
  Spec => [](TypeOK /\ VipInv /\ (Workers <= 1 => SerialInv))
<1>1. CASE Workers <= 1
  BY <1>1, SerialInvHolds, PTL
<1>2. CASE ~(Workers <= 1)
  BY <1>2, VipInvHolds, PTL
<1> QED BY <1>1, <1>2

\* AttachFloatingIP, with all its calls, failures and other workers, is to its
\* caller the one step of VipContract; with one worker that step leaves the
\* floating IPs of the other shoots alone.
THEOREM ContractImplemented == Spec => ImplementsContract
<1>1. Init => Contract!Init
  <2> SUFFICES ASSUME Init PROVE Contract!Init
    OBVIOUS
  <2>1. /\ private \in [Shoots -> BOOLEAN]
        /\ \A s \in Shoots : run[s] = Idle /\ ~ok[s] /\ ~HasAddress(s)
    BY ShootsAssumption DEF Init, HasAddress
  <2>2. Call(Idle) = Contract!Idle
    BY DEF Call, Stage, Idle, Contract!Idle
  <2>3. Vip = [s \in Shoots |-> FALSE]
    BY <2>1 DEF Vip, HasAddress
  <2>4. Calls = [s \in Shoots |-> Contract!Idle]
    BY <2>1, <2>2 DEF Calls
  <2>5. Said = [s \in Shoots |-> "nothing"]
    BY <2>1 DEF Said
  <2> QED BY <2>1, <2>3, <2>4, <2>5 DEF Contract!Init
<1>2. TypeOK /\ VipInv /\ (Workers <= 1 => SerialInv) /\ [Next]_vars
        => [Contract!Next]_(Contract!vars)
  <2> SUFFICES ASSUME TypeOK, VipInv, Workers <= 1 => SerialInv, [Next]_vars
               PROVE  Contract!Next \/ UNCHANGED Contract!vars
    OBVIOUS
  <2>1. ASSUME NEW s \in Shoots, StepOf(s)
        PROVE  Contract!Next \/ UNCHANGED Contract!vars
    BY <2>1, ContractStep
  <2>2. CASE Crash
    <3>1. /\ run' = [s \in Shoots |-> Idle]
          /\ UNCHANGED <<fip, private, ok, ext>>
      BY <2>2 DEF Crash
    <3>2. Call(Idle) = Contract!Idle
      BY DEF Call, Stage, Idle, Contract!Idle
    <3>3. Calls' = [s \in Shoots |-> Contract!Idle]
      BY <3>1, <3>2 DEF Calls
    <3>4. UNCHANGED <<Vip, private, Said>>
      BY <3>1 DEF Vip, HasAddress, Said
    <3> QED BY <3>3, <3>4 DEF Contract!Next, Contract!Crash
  <2>3. CASE UNCHANGED vars
    BY <2>3 DEF vars, Contract!vars, Vip, HasAddress, Calls, Said
  <2>4. ASSUME NEW f \in FIPs, Settle(f) PROVE UNCHANGED Contract!vars
    <3>1. UNCHANGED <<private, run, ok, ext>>
      BY <2>4 DEF Settle
    <3>2. \A s \in Shoots : HasAddress(s)' <=> HasAddress(s)
      <4> SUFFICES ASSUME NEW s \in Shoots
                   PROVE  HasAddress(s)' <=> HasAddress(s)
        OBVIOUS
      <4>1. OfPort(s)' = OfPort(s)
        BY <2>4, SettleStep
      <4> QED BY <4>1 DEF OfPort, HasAddress
    <3> QED BY <3>1, <3>2 DEF Contract!vars, Vip, Calls, Said, HasAddress
  <2> QED BY <2>1, <2>2, <2>3, <2>4 DEF Next, StepOf
<1> QED BY <1>1, <1>2, InvHolds, PTL DEF Spec, ImplementsContract, Contract!Spec

(***************************************************************************)
(* The number of floating IPs.  A run that will allocate one is counted    *)
(* from the moment it saw that none is free, as if it had done so already: *)
(* however stale its list is by then, there is room for what it allocates. *)
(***************************************************************************)

\* All that is left to the run is to allocate an address.
WillCreate(r) ==
  \/ r.pc = "create"
  \/ r.pc = "attach" /\ r.got = None /\ r.seen \subseteq Forwarded

\* A port that has an address gets no second one, so its run allocates none.
Creators == {s \in Shoots : WillCreate(run[s]) /\ OfPort(s) = {}}

Owned == {f \in FIPs \ Forwarded : fip[f] # "unallocated"}

Bound == LET first == Cardinality(Pool \ Forwarded)
         IN  IF first > Cardinality(Shoots) THEN first ELSE Cardinality(Shoots)

\* What a run has read of Neutron stays allocated.
Known ==
  \A s \in Shoots : /\ \A f \in run[s].seen : fip[f] # "unallocated"
                    /\ run[s].got # None => fip[run[s].got] # "unallocated"

\* No worker takes the address that a run allocated without learning of it:
\* otherwise the run would allocate another one.
Fresh ==
  \A s, t \in Shoots : \A f \in OfPort(s) :
    run[s].pc = "create" /\ t # s =>
      f \notin run[t].seen /\ ~(run[t].pc = "detach" /\ run[t].got = f)

PoolInv ==
  Known /\ Fresh /\ Cardinality(Owned) + Cardinality(Creators) <= Bound

\* An allocated address stays allocated: nothing gives it back.
LEMMA StaysAllocated ==
  ASSUME TypeOK, VipInv, NEW s \in Shoots, StepOf(s),
         NEW f \in FIPs, fip[f] # "unallocated"
  PROVE  fip'[f] # "unallocated"
<1>1. CASE UNCHANGED fip
  BY <1>1
<1>2. CASE Detached(s)
  BY <1>2, ReleasedValues DEF Detached, TypeOK
<1>3. ASSUME NEW g \in FIPs, Attached(s, g) PROVE fip'[f] # "unallocated"
  BY <1>3, ShootsAssumption DEF Attached, TypeOK
<1>4. CASE DeleteLoadbalancer(s)
  BY <1>4, ReleasedValues DEF DeleteLoadbalancer
<1> QED BY <1>1, <1>2, <1>3, <1>4, FipStep

\* What a step of s teaches it, and how it comes to allocate an address.
LEMMA Learns ==
  ASSUME TypeOK, VipInv, NEW s \in Shoots, StepOf(s)
  PROVE  /\ \/ run'[s].seen = {} /\ run'[s].got = None
            \/ ListAvailable(s)
            \/ /\ run'[s].seen \subseteq run[s].seen
               /\ run'[s].got \in {None, run[s].got} \union OfPort(s)'
         /\ run'[s].pc = "detach" =>
              \/ run'[s].got \in OfPort(s)'
              \/ run[s].pc = "detach" /\ run'[s].got = run[s].got
         /\ run'[s].pc = "create" => run[s].pc = "create" \/ OfPort(s)' = {}
         /\ WillCreate(run'[s]) => WillCreate(run[s]) \/ ListAvailable(s)
<1> DEFINE Goal == /\ \/ run'[s].seen = {} /\ run'[s].got = None
                      \/ ListAvailable(s)
                      \/ /\ run'[s].seen \subseteq run[s].seen
                         /\ run'[s].got \in {None, run[s].got} \union OfPort(s)'
                   /\ run'[s].pc = "detach" =>
                        \/ run'[s].got \in OfPort(s)'
                        \/ run[s].pc = "detach" /\ run'[s].got = run[s].got
                   /\ run'[s].pc = "create" =>
                        run[s].pc = "create" \/ OfPort(s)' = {}
                   /\ WillCreate(run'[s]) => WillCreate(run[s]) \/ ListAvailable(s)
<1> SUFFICES Goal
  OBVIOUS
<1>0. RunOK(s) /\ run[s].got \in FIPs \union {None}
  BY DEF VipInv, TypeOK, Runs
<1>a. ASSUME run'[s] = Idle PROVE Goal
  BY <1>a DEF Idle, WillCreate
<1>b. ASSUME UNCHANGED run PROVE Goal
  BY <1>b
<1>c. ASSUME NEW n, NextSubnet(s, n), run[s].pc = "create" PROVE Goal
  <2>1. CASE run'[s] = Idle
    BY <1>a, <2>1
  <2>2. CASE /\ run'[s].pc = run[s].pc /\ run'[s].got = run[s].got
             /\ run'[s].seen = run[s].seen
    BY <1>c, <2>2 DEF WillCreate
  <2> QED BY <1>c, <2>1, <2>2, NextSubnetType
<1>1. CASE Begin(s)
  BY <1>1, BeginRun DEF WillCreate
<1>2. CASE GetFloatingIPByPortID(s)
  <2>1. OfPort(s)' = OfPort(s) /\ run[s].pc = "find"
    BY <1>2 DEF GetFloatingIPByPortID, OfPort
  <2>2. /\ run'[s].pc \in {"report", "detach", "list"}
        /\ run'[s].pc = "detach" => run'[s].got # None
        /\ run'[s].seen = run[s].seen
        /\ run'[s].got = None \/ run'[s].got \in OfPort(s)
    BY <1>2, FindRun
  <2> QED BY <2>1, <2>2 DEF WillCreate
<1>3. CASE Detach(s)
  BY <1>3, DetachRun DEF WillCreate
<1>4. CASE ListAvailable(s)
  <2>1. OfPort(s)' = {} /\ run'[s].pc # "detach"
    BY <1>0, <1>4, ListRun DEF ListAvailable, OfPort, RunOK
  <2> QED BY <1>4, <2>1
<1>5. ASSUME NEW f \in FIPs, UpdateFloatingIP(s, f) PROVE Goal
  <2>0. run[s].pc = "attach" /\ f \in run[s].seen
    BY <1>5 DEF UpdateFloatingIP
  <2>1. CASE f \in Forwarded /\ AfterElement(s, f, run[s].got) /\ UNCHANGED fip
    <3>1. /\ run'[s].got = run[s].got /\ run'[s].seen = run[s].seen \ {f}
          /\ run'[s].pc = IF run[s].seen \ {f} # {} THEN "attach"
                          ELSE IF run[s].got = None THEN "create" ELSE "report"
      BY <1>0, <2>1, AfterElementType
    <3>2. run[s].got = None => OfPort(s)' = {}
      BY <1>0, <2>0, <2>1 DEF RunOK, OfPort
    <3> QED BY <2>0, <2>1, <3>1, <3>2 DEF WillCreate
  <2>2. CASE Attached(s, f) /\ AfterElement(s, f, f)
    <3>1. /\ run'[s].got = f /\ run'[s].seen = run[s].seen \ {f}
          /\ run'[s].pc \in {"attach", "report"}
      BY <2>2, AfterElementType, FipNoneAssumption
    <3>2. f \in OfPort(s)'
      BY <2>2, PortsAfterAttached
    <3> QED BY <3>1, <3>2, FipNoneAssumption DEF WillCreate
  <2>3. CASE Fail(s)
    BY <1>a, <2>3, FailType
  <2> QED BY <1>5, <2>1, <2>2, <2>3 DEF UpdateFloatingIP
<1>6. ASSUME NEW n \in Subnets, CreateFloatingIP(s, n) PROVE Goal
  <2>1. CASE NextSubnet(s, n)
    BY <1>6, <1>c, <2>1 DEF CreateFloatingIP
  <2>2. ASSUME NEW f \in FIPs, Attached(s, f),
               SetRun(s, [run[s] EXCEPT !.got = f, !.pc = "report"])
        PROVE  Goal
    <3>1. /\ run'[s].got = f /\ run'[s].seen = run[s].seen
          /\ run'[s].pc = "report"
      BY <2>2, ReportRun
    <3>2. f \in OfPort(s)'
      BY <2>2, PortsAfterAttached
    <3> QED BY <3>1, <3>2 DEF WillCreate
  <2> QED BY <1>6, <2>1, <2>2 DEF CreateFloatingIP
<1>7. CASE UpdateStatus(s)
  BY <1>7, <1>a, RunType, IdleType DEF UpdateStatus
<1>8. CASE CallFails(s)
  BY <1>8, <1>a, <1>c, FailType DEF CallFails
<1>9. CASE AnswerLost(s)
  BY <1>9, <1>a, <1>c, FailType DEF AnswerLost
<1>10. CASE ChangeSpec(s) \/ DeleteLoadbalancer(s) \/ CreateLoadBalancer(s)
  BY <1>10, <1>b DEF ChangeSpec, DeleteLoadbalancer, CreateLoadBalancer
<1> HIDE DEF Goal
<1> QED BY <1>1, <1>2, <1>3, <1>4, <1>5, <1>6, <1>7, <1>8, <1>9, <1>10
    DEF StepOf, Attach

\* An address with a port is allocated.
LEMMA PortAllocated ==
  ASSUME NEW s \in Shoots, NEW f \in OfPort(s)
  PROVE  f \in FIPs /\ fip[f] = s /\ fip[f] \notin {"unallocated", "free"}
BY ShootsAssumption DEF OfPort

\* A step of s keeps Known.
LEMMA KnownStep ==
  ASSUME TypeOK, VipInv, Known, NEW s \in Shoots, StepOf(s)
  PROVE  Known'
<1>0. \A t \in Shoots : run[t].seen \subseteq FIPs
                        /\ run[t].got \in FIPs \union {None}
  BY DEF TypeOK, Runs
<1>1. ASSUME NEW t \in Shoots, run'[t].seen \subseteq run[t].seen,
             \/ run'[t].got \in {None, run[t].got}
             \/ run'[t].got \in OfPort(t)'
      PROVE  /\ \A f \in run'[t].seen : fip'[f] # "unallocated"
             /\ run'[t].got # None => fip'[run'[t].got] # "unallocated"
  <2>1. \A f \in run'[t].seen : fip'[f] # "unallocated"
    BY <1>0, <1>1, StaysAllocated DEF Known
  <2>2. CASE run'[t].got \in {None, run[t].got}
    BY <1>0, <2>1, <2>2, StaysAllocated DEF Known
  <2>3. CASE run'[t].got \in OfPort(t)'
    BY <2>1, <2>3, ShootsAssumption DEF OfPort
  <2> QED BY <1>1, <2>2, <2>3
<1>2. CASE ListAvailable(s)
  <2>1. /\ run'[s].seen = Available /\ run'[s].got = run[s].got
        /\ UNCHANGED fip
    BY <1>2, ListRun DEF ListAvailable
  <2>2. \A f \in Available : fip[f] # "unallocated"
    BY DEF Available
  <2>3. \A t \in Shoots \ {s} : run'[t] = run[t]
    BY OthersStep
  <2> QED BY <2>1, <2>2, <2>3 DEF Known
<1>3. CASE ~ListAvailable(s)
  <2>1. \A t \in Shoots \ {s} : run'[t] = run[t]
    BY OthersStep
  <2>2. /\ run'[s].seen \subseteq run[s].seen
        /\ \/ run'[s].got \in {None, run[s].got}
           \/ run'[s].got \in OfPort(s)'
    BY <1>3, Learns
  <2> QED BY <1>1, <2>1, <2>2 DEF Known
<1> QED BY <1>2, <1>3

\* A step of s keeps Fresh.
LEMMA FreshStep ==
  ASSUME TypeOK, VipInv, Known, Fresh, NEW s \in Shoots, StepOf(s)
  PROVE  Fresh'
<1> SUFFICES ASSUME NEW a \in Shoots, NEW b \in Shoots, NEW f \in OfPort(a)',
                    run'[a].pc = "create", b # a
             PROVE  /\ f \notin run'[b].seen
                    /\ ~(run'[b].pc = "detach" /\ run'[b].got = f)
  BY DEF Fresh
<1>0. f \in FIPs /\ fip'[f] = a
  BY DEF OfPort
<1>1. \A t \in Shoots \ {s} : run'[t] = run[t] /\ OfPort(t)' \subseteq OfPort(t)
  BY OthersStep
<1>2. CASE a = s
  <2>1. run'[b] = run[b] /\ run[s].pc = "create"
    BY <1>1, <1>2, Learns
  <2>2. CASE f \in OfPort(s)
    BY <1>2, <2>1, <2>2 DEF Fresh
  <2>3. CASE f \notin OfPort(s)
    <3>1. fip[f] = "unallocated"
      <4>1. CASE UNCHANGED fip
        BY <1>0, <1>2, <2>3, <4>1 DEF OfPort
      <4>2. ASSUME NEW g \in FIPs, fip[g] = "unallocated", Attached(s, g)
            PROVE  fip[f] = "unallocated"
        BY <1>2, <2>3, <4>2, PortsAfterAttached
      <4>3. ~DeleteLoadbalancer(s)
        BY <2>1 DEF DeleteLoadbalancer
      <4> QED BY <2>1, <4>1, <4>2, <4>3, FipStep
    <3>2. f # None
      BY <1>0, FipNoneAssumption
    <3> QED BY <2>1, <3>1, <3>2 DEF Known
  <2> QED BY <2>2, <2>3
<1>3. CASE a # s /\ b # s
  BY <1>1, <1>3 DEF Fresh
<1>4. CASE a # s /\ b = s
  <2>1. /\ f \in OfPort(a) /\ run[a].pc = "create"
        /\ f \notin run[s].seen /\ ~(run[s].pc = "detach" /\ run[s].got = f)
    BY <1>1, <1>4 DEF Fresh
  <2>2. f \notin OfPort(s)'
    BY <1>0, <1>4 DEF OfPort
  <2>3. f \notin Available
    BY <2>1, PortAllocated DEF Available
  <2>4. ListAvailable(s) => run'[s].seen = Available /\ run'[s].pc # "detach"
    BY ListRun
  <2> QED BY <1>4, <2>1, <2>2, <2>3, <2>4, Learns
<1> QED BY <1>2, <1>3, <1>4

\* A run begins to be counted in the moment it sees that nothing is free.
LEMMA CreatorsStep ==
  ASSUME TypeOK, VipInv, Fresh, NEW s \in Shoots, StepOf(s)
  PROVE  \/ Creators' \subseteq Creators
         \/ /\ ListAvailable(s) /\ Available \subseteq Forwarded
            /\ Creators' \subseteq Creators \union {s}
<1>1. ASSUME NEW t \in Shoots \ {s}, t \in Creators' PROVE t \in Creators
  <2>1. run'[t] = run[t] /\ WillCreate(run[t]) /\ OfPort(t)' = {} /\ RunOK(t)
    BY <1>1, OthersStep DEF Creators, VipInv
  <2>2. CASE run[t].pc = "attach"
    BY <2>1, <2>2 DEF Creators, WillCreate, RunOK
  <2>3. CASE run[t].pc = "create"
    <3> SUFFICES ASSUME NEW f \in OfPort(t) PROVE FALSE
      BY <2>1 DEF Creators
    <3>1. f \in FIPs /\ fip[f] = t /\ fip'[f] # t /\ fip[f] # "unallocated"
      BY <2>1, PortAllocated DEF OfPort
    <3>2. f \notin run[s].seen /\ ~(run[s].pc = "detach" /\ run[s].got = f)
      BY <2>3 DEF Fresh
    <3>3. CASE UNCHANGED fip
      BY <3>1, <3>3
    <3>4. CASE run[s].pc = "detach" /\ Detached(s)
      BY <3>1, <3>2, <3>4 DEF Detached, TypeOK
    <3>5. ASSUME NEW g \in FIPs, Attached(s, g),
                 g \in run[s].seen \/ fip[g] = "unallocated"
          PROVE  FALSE
      BY <3>1, <3>2, <3>5 DEF Attached, TypeOK
    <3>6. CASE DeleteLoadbalancer(s)
      BY <3>1, <3>6 DEF DeleteLoadbalancer
    <3> QED BY <3>3, <3>4, <3>5, <3>6, FipStep
  <2> QED BY <2>1, <2>2, <2>3 DEF WillCreate
<1>2. ASSUME s \in Creators', ~ListAvailable(s) PROVE s \in Creators
  <2>1. WillCreate(run[s]) /\ OfPort(s)' = {} /\ RunOK(s)
    BY <1>2, Learns DEF Creators, VipInv
  <2>2. CASE run[s].pc = "attach"
    BY <2>1, <2>2 DEF Creators, WillCreate, RunOK
  <2>3. CASE run[s].pc = "create"
    <3>1. CASE UNCHANGED fip
      BY <2>1, <3>1 DEF Creators, OfPort
    <3>2. \A f \in FIPs : ~Attached(s, f)
      BY <2>1, PortsAfterAttached
    <3>3. ~DeleteLoadbalancer(s)
      BY <2>3 DEF DeleteLoadbalancer
    <3> QED BY <2>3, <3>1, <3>2, <3>3, FipStep
  <2> QED BY <2>1, <2>2, <2>3 DEF WillCreate
<1>3. ASSUME ListAvailable(s), s \in Creators' PROVE Available \subseteq Forwarded
  <2>1. WillCreate(run'[s])
    BY <1>3 DEF Creators
  <2> QED BY <1>3, <2>1, ListRun DEF WillCreate
<1>4. Creators' \subseteq Shoots
  BY DEF Creators
<1> QED BY <1>1, <1>2, <1>3, <1>4

\* The sets that are counted are finite.
LEMMA Counts ==
  /\ IsFiniteSet(Owned) /\ Cardinality(Owned) \in Nat
  /\ IsFiniteSet(Creators) /\ Cardinality(Creators) \in Nat
  /\ IsFiniteSet(Pool \ Forwarded) /\ Cardinality(Pool \ Forwarded) \in Nat
  /\ Cardinality(Shoots) \in Nat /\ Bound \in Nat
  /\ Cardinality(Pool \ Forwarded) <= Bound /\ Cardinality(Shoots) <= Bound
<1>1. Owned \in SUBSET FIPs /\ Creators \in SUBSET Shoots
      /\ Pool \ Forwarded \in SUBSET FIPs
  BY PoolAssumption DEF Owned, Creators
<1>2. IsFiniteSet(Owned) /\ IsFiniteSet(Creators) /\ IsFiniteSet(Pool \ Forwarded)
  BY <1>1, FiniteAssumption, FS_Subset
<1>3. /\ Cardinality(Owned) \in Nat /\ Cardinality(Creators) \in Nat
      /\ Cardinality(Pool \ Forwarded) \in Nat /\ Cardinality(Shoots) \in Nat
  BY <1>2, FiniteAssumption, FS_CardinalityType
<1> QED BY <1>2, <1>3 DEF Bound

\* When nothing is free, and nothing leaving, each address has a port of its
\* own, and none of these ports is that of a run that will allocate an address.
LEMMA AllAttached ==
  ASSUME ~StatusLags, TypeOK, VipInv, Available \subseteq Forwarded,
         NEW C \in SUBSET Shoots, \A t \in C : OfPort(t) = {}
  PROVE  Cardinality(Owned) + Cardinality(C) <= Cardinality(Shoots)
<1> DEFINE Rest == Shoots \ C
           h == [f \in Owned |-> fip[f]]
<1>1. ASSUME NEW f \in Owned PROVE fip[f] \in Rest
  <2>1. f \in FIPs /\ fip[f] \in Shoots
    BY DEF Owned, Available, TypeOK, Released
  <2>2. f \in OfPort(fip[f])
    BY <2>1 DEF OfPort
  <2> QED BY <2>1, <2>2
<1>2. ASSUME NEW f \in Owned, NEW g \in Owned, fip[f] = fip[g] PROVE f = g
  <2>1. fip[f] \in Shoots /\ f \in OfPort(fip[f]) /\ g \in OfPort(fip[f])
    BY <1>1, <1>2 DEF Owned, OfPort
  <2> QED BY <2>1 DEF VipInv, RunOK
<1>3. h \in Injection(Owned, Rest)
  BY <1>1, <1>2 DEF Injection, IsInjective
<1>4. /\ IsFiniteSet(C) /\ IsFiniteSet(Rest)
      /\ Cardinality(Rest) = Cardinality(Shoots) - Cardinality(Shoots \cap C)
  BY FiniteAssumption, FS_Subset, FS_Difference
<1>5. Cardinality(Shoots \cap C) = Cardinality(C)
  <2>1. Shoots \cap C = C
    OBVIOUS
  <2> QED BY <2>1
<1>6. Cardinality(Owned) <= Cardinality(Rest)
  BY <1>3, <1>4, FS_Injection
<1>7. Cardinality(C) \in Nat /\ Cardinality(Shoots) \in Nat
      /\ Cardinality(Owned) \in Nat
  BY <1>4, FiniteAssumption, FS_CardinalityType, Counts
<1> HIDE DEF Rest
<1> QED BY <1>4, <1>5, <1>6, <1>7

\* What a step does to the number of addresses: it allocates one only in a run
\* that was counted before and is not afterwards.
LEMMA OwnedStep ==
  ASSUME TypeOK, VipInv, Known, NEW s \in Shoots, StepOf(s)
  PROVE  \/ Owned' = Owned
         \/ /\ \E f : Owned' = Owned \union {f}
            /\ s \in Creators /\ s \notin Creators'
            /\ ~ListAvailable(s)
<1>0. \A f \in Owned : f \in Owned'
  BY StaysAllocated DEF Owned
<1>1. ASSUME \A f \in FIPs : fip'[f] # fip[f] => fip[f] # "unallocated"
      PROVE  Owned' = Owned
  BY <1>0, <1>1 DEF Owned
<1>2. CASE UNCHANGED fip
  BY <1>1, <1>2
<1>3. CASE run[s].pc = "detach" /\ Detached(s)
  <2>1. run[s].got \in FIPs /\ fip[run[s].got] # "unallocated"
    BY <1>3, FipNoneAssumption DEF VipInv, RunOK, Known
  <2> QED BY <1>1, <1>3, <2>1 DEF Detached, TypeOK
<1>4. ASSUME NEW g \in FIPs, Attached(s, g), g \in run[s].seen
      PROVE  Owned' = Owned
  BY <1>1, <1>4 DEF Known, Attached, TypeOK
<1>5. ASSUME NEW g \in FIPs, Attached(s, g), run[s].pc = "create",
             ~HasAddress(s)
      PROVE  /\ \/ Owned' = Owned
                \/ \E f : Owned' = Owned \union {f}
             /\ s \in Creators /\ s \notin Creators'
             /\ ~ListAvailable(s)
  <2>1. OfPort(s) = {} /\ OfPort(s)' # {}
    BY <1>5, NoAddress, PortsAfterAttached
  <2>2. s \in Creators /\ s \notin Creators'
    BY <1>5, <2>1 DEF Creators, WillCreate
  <2>3. Owned' = IF g \in Forwarded THEN Owned ELSE Owned \union {g}
    BY <1>5, ShootsAssumption DEF Owned, Attached, TypeOK
  <2> QED BY <1>5, <2>2, <2>3 DEF ListAvailable
<1>6. CASE DeleteLoadbalancer(s)
  BY <1>1, <1>6, ShootsAssumption DEF DeleteLoadbalancer
<1> QED BY <1>2, <1>3, <1>4, <1>5, <1>6, FipStep

\* PoolInv is inductive.
LEMMA PoolInvNext ==
  ASSUME ~StatusLags, TypeOK, VipInv, PoolInv, [Next]_vars
  PROVE  PoolInv'
<1> DEFINE Sum == Cardinality(Owned) + Cardinality(Creators)
<1>0. /\ IsFiniteSet(Owned) /\ IsFiniteSet(Creators)
      /\ Cardinality(Owned) \in Nat /\ Cardinality(Creators) \in Nat
      /\ Bound \in Nat /\ Cardinality(Shoots) <= Bound
      /\ Cardinality(Shoots) \in Nat
  BY Counts
<1>a. /\ Cardinality(Owned') \in Nat /\ IsFiniteSet(Creators')
       /\ Cardinality(Creators') \in Nat
  <2>1. Owned' \in SUBSET FIPs /\ Creators' \in SUBSET Shoots
    BY DEF Owned, Creators
  <2> QED BY <2>1, FiniteAssumption, FS_Subset, FS_CardinalityType
<1>b. Sum <= Bound
  BY DEF PoolInv
<1>1. ASSUME Owned' = Owned, Creators' \subseteq Creators
      PROVE  Cardinality(Owned') + Cardinality(Creators') <= Bound
  <2>1. Cardinality(Creators') <= Cardinality(Creators)
    BY <1>0, <1>1, FS_Subset
  <2> QED BY <1>0, <1>a, <1>b, <1>1, <2>1
<1>2. ASSUME NEW s \in Shoots, StepOf(s) PROVE PoolInv'
  <2>1. Known' /\ Fresh'
    BY <1>2, KnownStep, FreshStep DEF PoolInv
  <2>2. CASE ListAvailable(s) /\ Available \subseteq Forwarded
             /\ Creators' \subseteq Creators \union {s}
    <3>1. Owned' = Owned
      BY <2>2 DEF ListAvailable, Owned
    <3>2. OfPort(s) = {}
      BY <2>2 DEF ListAvailable, VipInv, RunOK
    <3>3. Creators' \in SUBSET Shoots /\ \A t \in Creators' : OfPort(t) = {}
      BY <2>2, <3>2 DEF Creators
    <3>4. Cardinality(Owned) + Cardinality(Creators') <= Cardinality(Shoots)
      BY <2>2, <3>3, AllAttached
    <3>5. Cardinality(Owned') + Cardinality(Creators') <= Bound
      BY <1>0, <1>a, <3>1, <3>4
    <3> QED BY <2>1, <3>5 DEF PoolInv, Bound
  <2>3. CASE Creators' \subseteq Creators
    <3>1. CASE Owned' = Owned
      BY <1>1, <2>1, <2>3, <3>1 DEF PoolInv, Bound
    <3>2. CASE /\ \E f : Owned' = Owned \union {f}
               /\ s \in Creators /\ s \notin Creators'
      <4>1. Cardinality(Owned') <= Cardinality(Owned) + 1
        <5>1. PICK f : Owned' = Owned \union {f}
          BY <3>2
        <5>2. Cardinality(Owned \union {f})
                = IF f \in Owned THEN Cardinality(Owned)
                  ELSE Cardinality(Owned) + 1
          BY <1>0, FS_AddElement
        <5> QED BY <1>0, <5>1, <5>2
      <4>2. Creators' \in SUBSET (Creators \ {s})
        BY <2>3, <3>2
      <4>3. IsFiniteSet(Creators \ {s})
            /\ Cardinality(Creators \ {s}) = Cardinality(Creators) - 1
        BY <1>0, <3>2, FS_RemoveElement
      <4>4. Cardinality(Creators') <= Cardinality(Creators) - 1
        BY <4>2, <4>3, FS_Subset
      <4>5. Cardinality(Owned') + Cardinality(Creators') <= Bound
        BY <1>0, <1>a, <1>b, <4>1, <4>4
      <4> QED BY <2>1, <4>5 DEF PoolInv, Bound
    <3> QED BY <1>2, <3>1, <3>2, OwnedStep DEF PoolInv
  <2> QED BY <1>2, <2>2, <2>3, CreatorsStep DEF PoolInv
<1>3. CASE Crash
  <2>1. run' = [s \in Shoots |-> Idle] /\ UNCHANGED fip
    BY <1>3 DEF Crash
  <2>2. Owned' = Owned /\ Creators' = {}
    BY <2>1 DEF Owned, Creators, WillCreate, Idle
  <2>3. Known' /\ Fresh'
    BY <2>1 DEF Known, Fresh, Idle
  <2>4. Cardinality(Owned') + Cardinality(Creators') <= Bound
    BY <1>1, <2>2
  <2> QED BY <2>3, <2>4 DEF PoolInv, Bound
<1>4. CASE UNCHANGED vars
  BY <1>4 DEF vars, PoolInv, Known, Fresh, Owned, Creators, OfPort, Bound
<1>5. ASSUME NEW f \in FIPs PROVE ~Settle(f)
  BY ShootsAssumption DEF Settle, TypeOK, Released
<1> QED BY <1>2, <1>3, <1>4, <1>5 DEF Next, StepOf

\* Floating IPs are never given back, and yet there are never more of them than
\* shoots, or than there were at first, however many workers run, however stale
\* what they have read is, and whichever of their calls fail; provided that an
\* address without a port is DOWN at once.
THEOREM PoolBoundedHolds ==
  ASSUME ~StatusLags
  PROVE  Spec => []PoolBounded
<1>1. Init => PoolInv
  <2> SUFFICES ASSUME Init PROVE PoolInv
    OBVIOUS
  <2>1. \A s \in Shoots : run[s] = Idle
    BY DEF Init
  <2>2. Owned = Pool \ Forwarded
    BY PoolAssumption DEF Init, Owned
  <2>3. Creators = {}
    BY <2>1 DEF Creators, WillCreate, Idle
  <2>4. Known /\ Fresh
    BY <2>1 DEF Known, Fresh, Idle
  <2> QED BY <2>2, <2>3, <2>4, Counts, FS_EmptySet DEF PoolInv
<1>2. TypeOK /\ VipInv /\ PoolInv /\ [Next]_vars => PoolInv'
  BY PoolInvNext
<1>3. PoolInv => PoolBounded
  <2> SUFFICES ASSUME PoolInv PROVE Cardinality(Owned) <= Bound
    BY DEF PoolBounded, Owned, Bound
  <2> QED BY Counts DEF PoolInv
<1> QED BY <1>1, <1>2, <1>3, VipInvHolds, PTL DEF Spec

============================================================================
