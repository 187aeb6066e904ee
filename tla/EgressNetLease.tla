--------------------------- MODULE EgressNetLease --------------------------
(***************************************************************************)
(* The safety of the address allocation in EgressNet: the inductive        *)
(* invariant IInv, and from it type correctness, exactness of the leases   *)
(* and the refinement of NetLease.                                         *)
(***************************************************************************)
EXTENDS EgressNetTypes

USE ConstantsOK

(* Owners, LeasesExact and JobOK only depend on these variables.           *)
own == <<npid, nidx, netmap, job>>

(* A step that leaves these variables alone keeps the leases exact.        *)
LEMMA SameLeases ==
  ASSUME LeasesExact, JobOK, UNCHANGED own
  PROVE  LeasesExact' /\ JobOK'
<1>1. Owners' = Owners
  BY DEF Owners, LiveSlots, Building, own
<1> QED BY <1>1 DEF LeasesExact, JobOK, own

(* Steps that move the handler on without touching the table: from a phase *)
(* that owns its slot to another one that does.                            *)
LEMMA MoveOn ==
  ASSUME LeasesExact, UNCHANGED <<nidx, netmap>>, Owners' = Owners
  PROVE  LeasesExact'
BY DEF LeasesExact

(* While NETUP builds a slot, that slot owns its index.                    *)
LEMMA OwnersUp ==
  ASSUME TypeOK, LeasesExact, JobOK, Building
  PROVE  /\ job.s \in Slot /\ Owners = LiveSlots \cup {job.s}
         /\ nidx[job.s] \in netmap
         /\ \A s \in LiveSlots : nidx[s] = nidx[job.s] => s = job.s
BY DEF TypeOK, JobType, LeasesExact, Owners, LiveSlots

(* Giving a slot back: exactly its index leaves the bitmap.                *)
LEMMA FreeKeeps ==
  ASSUME TypeOK, LeasesExact, NEW s \in Owners, FreeSlot(s), nidx' = nidx,
         Owners \subseteq LiveSlots \cup {s}, job'.pc \in {"idle", "down"}
  PROVE  LeasesExact'
<1>1. Owners' = Owners \ {s}
  BY DEF Owners, LiveSlots, Building, FreeSlot, TypeOK, MemType
<1>2. netmap' = netmap \ {nidx[s]}
  BY DEF FreeSlot
<1> QED BY <1>1, <1>2 DEF LeasesExact

(* NETUP takes the first free slot and index, or refuses.                  *)
LEMMA LeaseNetUp ==
  ASSUME IInv, NEW p \in Pid, NetUp(p) PROVE LeasesExact' /\ JobOK'
<1>1. CASE FreeSlots = {} \/ FreeIdx = {}
  BY <1>1, SameLeases, Zenon DEF NetUp, IInv, mem, own
<1>2. CASE FreeSlots # {} /\ FreeIdx # {}
  <2> DEFINE s == Min(FreeSlots)
             i == Min(FreeIdx)
  <2>1. s \in Slot \ LiveSlots /\ i \in Idx \ netmap
    BY <1>2, FreeIn DEF FreeSlots, FreeIdx
  <2>2. /\ netmap' = netmap \cup {i} /\ nidx' = [nidx EXCEPT ![s] = i] /\ npid' = npid
        /\ job' = [Idle EXCEPT !.pc = "link", !.s = s, !.p = p]
    BY <1>2, Zenon DEF NetUp
  <2> HIDE DEF s, i
  <2>3. job'.pc = "link" /\ job'.s = s /\ job'.p = p
    BY <2>2 DEF Idle
  <2>4. Owners = LiveSlots /\ Owners' = LiveSlots \cup {s}
    BY <2>2, <2>3 DEF NetUp, At, Owners, Building, LiveSlots
  <2>5. nidx \in [Slot -> Idx] /\ LiveSlots \subseteq Slot
    BY DEF IInv, TypeOK, MemType, LiveSlots
  <2>6. LeasesExact'
    BY <2>1, <2>2, <2>4, <2>5 DEF IInv, LeasesExact
  <2>7. JobOK'
    BY <2>1, <2>2, <2>3 DEF JobOK, LiveSlots
  <2> QED BY <2>6, <2>7
<1> QED BY <1>1, <1>2

(* AddLink to FinishUp: the handler keeps its slot, in another phase.      *)
LEMMA LeaseBuild ==
  ASSUME IInv, AddLink \/ ReAddLink \/ MoveLink \/ ResolveAll \/ FinishUp
  PROVE  LeasesExact' /\ JobOK'
<1> USE DEF IInv
<1>1. /\ UNCHANGED <<npid, nidx, netmap>>
      /\ \/ /\ job.pc \in {"link", "relink", "move"} /\ job'.pc \in {"relink", "move", "nat"}
            /\ job'.s = job.s /\ job'.p = job.p
         \/ /\ job.pc = "want" /\ job'.pc = "apply" /\ job'.s = job.s /\ job'.p = job.p
         \/ /\ Building /\ job'.pc = "rollback" /\ job'.s = job.s /\ job'.p = job.p
         \/ job.pc = "apply" /\ job' = Idle
  <2>1. job \in JobRec
    BY DEF TypeOK, JobType, JobRec
  <2>2. Rollback => job'.pc = "rollback" /\ job'.s = job.s /\ job'.p = job.p
    BY <2>1 DEF Rollback, Goto, JobRec
  <2>3. CASE AddLink
    BY <2>1, <2>3, Zenon DEF AddLink, At, Goto, JobRec, mem
  <2>4. CASE ReAddLink
    BY <2>1, <2>2, <2>4, Zenon DEF ReAddLink, At, JobRec, Building, mem
  <2>5. CASE MoveLink
    BY <2>1, <2>2, <2>5 DEF MoveLink, At, Goto, JobRec, Building
  <2>6. CASE ResolveAll
    <3>1. Rollback \/ \E w : job' = [job EXCEPT !.pc = "apply", !.want = w]
      BY <2>6, Zenon DEF ResolveAll
    <3>2. job.pc = "want" /\ UNCHANGED <<npid, nidx, netmap>>
      BY <2>6, Zenon DEF ResolveAll, At, mem
    <3>3. Building
      BY <3>2 DEF Building
    <3>4. CASE Rollback
      BY <2>2, <3>2, <3>3, <3>4
    <3>5. CASE \E w : job' = [job EXCEPT !.pc = "apply", !.want = w]
      <4>1. job'.pc = "apply" /\ job'.s = job.s /\ job'.p = job.p
        BY <2>1, <3>5 DEF JobRec
      <4> QED BY <3>2, <4>1
    <3> QED BY <3>1, <3>4, <3>5, Zenon
  <2>7. CASE FinishUp
    BY <2>1, <2>2, <2>7, Zenon DEF FinishUp, At, Building, mem
  <2> QED BY <2>3, <2>4, <2>5, <2>6, <2>7
<1>2. CASE job.pc = "apply" /\ job' = Idle
  <2>1. job'.pc = "idle" /\ npid[job.s] # NoPid /\ job.s \in Slot
    BY <1>2 DEF Idle, JobOK, TypeOK, JobType
  <2>2. Owners' = Owners
    BY <1>1, <1>2, <2>1 DEF Owners, LiveSlots, Building
  <2> QED BY <1>1, <2>1, <2>2, MoveOn DEF JobOK
<1>3. CASE job'.s = job.s /\ job'.p = job.p /\ Building /\ Building'
  <2>1. Owners' = Owners
    BY <1>1, <1>3 DEF Owners, LiveSlots
  <2>2. JobOK'
    BY <1>1, <1>3 DEF JobOK, Building, Idle
  <2> QED BY <1>1, <2>1, <2>2, MoveOn
<1> QED BY <1>1, <1>2, <1>3 DEF Building

(* ClaimSlot makes the built slot visible under the cell's pid.            *)
LEMMA LeaseClaim == ASSUME IInv, ClaimSlot PROVE LeasesExact' /\ JobOK'
<1> USE DEF IInv
<1>1. /\ job.pc = "nat" /\ job.p \in Pid /\ job.s \in Slot /\ npid[job.s] = NoPid
      /\ npid' = [npid EXCEPT ![job.s] = job.p] /\ UNCHANGED <<nidx, netmap>>
  BY DEF ClaimSlot, At, JobOK, TypeOK, JobType
<1>2. \/ job'.pc \in {"rollback", "want"} /\ job'.s = job.s /\ job'.p = job.p
      \/ job'.pc = "idle"
  <2>1. Rollback \/ Goto("want") \/ job' = Idle
    BY Zenon DEF ClaimSlot
  <2> QED BY <2>1 DEF Rollback, Goto, Idle, TypeOK, JobType
<1>3. npid \in [Slot -> Pid \cup {NoPid}]
  BY DEF TypeOK, MemType
<1>4. LiveSlots' = LiveSlots \cup {job.s}
  BY <1>1, <1>3 DEF LiveSlots
<1>5. Owners' = Owners
  BY <1>1, <1>2, <1>4 DEF Owners, Building
<1>6. JobOK'
  BY <1>1, <1>2, <1>3 DEF JobOK
<1> QED BY <1>1, <1>5, <1>6, MoveOn

(* A rolled-back NETUP and a NETDOWN give back what they held.             *)
LEMMA LeaseFree == ASSUME IInv, FinishRollback \/ SlotDown PROVE LeasesExact' /\ JobOK'
<1> USE DEF IInv
<1>1. job.s \in Slot /\ FreeSlot(job.s) /\ nidx' = nidx /\ job'.pc \in {"idle", "down"}
  <2>1. FinishRollback => FreeSlot(job.s) /\ nidx' = nidx /\ job'.pc = "idle"
    BY DEF FinishRollback, Idle
  <2>2. SlotDown => FreeSlot(job.s) /\ nidx' = nidx /\ job'.pc = "down"
    BY DEF SlotDown, Goto, TypeOK, JobType
  <2>3. job.s \in Slot
    BY DEF TypeOK, JobType
  <2> QED BY <2>1, <2>2, <2>3
<1>2. job.s \in Owners /\ Owners \subseteq LiveSlots \cup {job.s}
  BY <1>1, Zenon DEF FinishRollback, SlotDown, At, JobOK, Owners, Building, LiveSlots
<1>3. LeasesExact'
  BY <1>1, <1>2, FreeKeeps
<1>4. JobOK'
  BY <1>1 DEF JobOK
<1> QED BY <1>3, <1>4

(* Handlers that own no half-built slot before or after the step.          *)
LEMMA LeaseIdle ==
  ASSUME IInv,
         (\E s \in Slot : Refresh(s)) \/ FinishRefresh \/ (\E p \in Pid : NetDown(p))
           \/ TeardownSlot \/ NetDownReply \/ Stop \/ CleanupNat
  PROVE  LeasesExact' /\ JobOK'
<1> USE DEF IInv
<1>1. job \in JobRec /\ npid \in [Slot -> Pid \cup {NoPid}]
  BY DEF TypeOK, JobType, JobRec, MemType
<1>2. UNCHANGED <<npid, nidx, netmap>>
  BY Zenon DEF Refresh, FinishRefresh, NetDown, TeardownSlot, NetDownReply, Stop, CleanupNat, mem
<1>3. ~Building
  BY Zenon DEF Refresh, FinishRefresh, NetDown, TeardownSlot, NetDownReply, Stop, CleanupNat, At, Building
<1>4. \/ job'.pc \in {"refresh", "idle", "down", "off"}
      \/ job'.pc = "free" /\ job'.s = Min(Doomed) /\ Doomed # {}
  <2>1. (\E s \in Slot : Refresh(s)) => job'.pc = "refresh"
    BY Zenon DEF Refresh, Idle
  <2>2. FinishRefresh \/ NetDownReply => job'.pc = "idle"
    <3>1. FinishRefresh \/ NetDownReply => job' = Idle
      BY Zenon DEF FinishRefresh, NetDownReply
    <3> QED BY <3>1 DEF Idle
  <2>3. (\E p \in Pid : NetDown(p)) \/ Stop => job'.pc = "down"
    BY Zenon DEF NetDown, Stop, Idle
  <2>4. CleanupNat => job'.pc = "off"
    BY <1>1 DEF CleanupNat, Goto, JobRec
  <2>5. TeardownSlot => job'.pc = "free" /\ job'.s = Min(Doomed) /\ Doomed # {}
    BY <1>1 DEF TeardownSlot, JobRec
  <2> QED BY <2>1, <2>2, <2>3, <2>4, <2>5
<1>5. Doomed # {} => npid[Min(Doomed)] # NoPid
  <2>1. Doomed \subseteq LiveSlots
    BY <1>1 DEF Doomed, LiveSlots, Victims
  <2> QED BY <2>1, FreeIn DEF LiveSlots
<1>6. Owners' = Owners
  BY <1>2, <1>3, <1>4 DEF Owners, LiveSlots, Building
<1>7. JobOK'
  BY <1>2, <1>4, <1>5 DEF JobOK
<1> QED BY <1>2, <1>6, <1>7, MoveOn

(* Crashes, restarts and the steps of the cells.                           *)
LEMMA LeaseOther ==
  ASSUME IInv,
         RunCmd \/ Exit \/ Crash \/ Start \/ Serve
           \/ (\E p \in Pid : PayloadExit(p) \/ KillSupervisor(p) \/ \E r \in Reqs : Ask(p, r))
           \/ (\E i \in Idx : NetnsGone(i)) \/ UNCHANGED vars
  PROVE  LeasesExact' /\ JobOK'
<1> USE DEF IInv
<1>1. CASE Exit \/ Crash
  <2>1. Die
    BY <1>1 DEF Exit, Crash
  <2>2. LiveSlots' = {} /\ netmap' = {} /\ job'.pc = "idle"
    BY <2>1 DEF Die, LiveSlots, Idle
  <2>3. Owners' = {}
    BY <2>2 DEF Owners, Building
  <2> QED BY <2>2, <2>3 DEF LeasesExact, JobOK
<1>2. CASE RunCmd
  <2>1. UNCHANGED <<npid, nidx, netmap>>
        /\ (job' = job \/ job' = [job EXCEPT !.failed = @ \/ Head(todo).op = "acc"])
    BY <1>2, Zenon DEF RunCmd
  <2>2. job'.pc = job.pc /\ job'.s = job.s /\ job'.p = job.p
    BY <2>1 DEF TypeOK, JobType
  <2>3. Owners' = Owners
    BY <2>1, <2>2 DEF Owners, LiveSlots, Building
  <2> QED BY <2>1, <2>2, <2>3, MoveOn DEF JobOK
<1>3. CASE \/ Start \/ Serve \/ UNCHANGED vars \/ (\E i \in Idx : NetnsGone(i))
           \/ \E p \in Pid : PayloadExit(p) \/ KillSupervisor(p) \/ \E r \in Reqs : Ask(p, r)
  <2>1. UNCHANGED own
    BY <1>3, Zenon DEF own, Start, Serve, NetnsGone, PayloadExit, KillSupervisor, Ask, mem, vars
  <2> QED BY <2>1, SameLeases
<1> QED BY <1>1, <1>2, <1>3

(* The strengthening: with the types and what the running handler knows of *)
(* its slot (JobOK), exactness of the leases is inductive.                 *)
THEOREM Inductive == Init /\ [][Next]_vars => []IInv
<1>1. ASSUME Init PROVE IInv
  <2>1. LiveSlots = {} /\ Owners = {} /\ netmap = {} /\ job.pc = "idle"
    BY <1>1 DEF Init, LiveSlots, Owners, Building, Idle
  <2> QED BY <1>1, <2>1, TypeInit DEF IInv, LeasesExact, JobOK
<1>2. ASSUME IInv, [Next]_vars PROVE IInv'
  <2>1. TypeOK'
    BY <1>2, TypeNext DEF IInv
  <2>2. LeasesExact' /\ JobOK'
    BY <1>2, LeaseNetUp, LeaseBuild, LeaseClaim, LeaseFree, LeaseIdle, LeaseOther DEF Next
  <2> QED BY <2>1, <2>2 DEF IInv
<1> QED BY <1>1, <1>2, PTL

(* Type correctness of the daemon's table and handler, for any number of   *)
(* cells, slots, subnets and addresses, crashes and failed commands.       *)
THEOREM TypeCorrect == Spec => []TypeOK
BY Inductive, PTL DEF Spec, IInv

(* net_up never hands out a /30 in use, and no teardown, rollback or crash *)
(* leaks or double-frees one, for any size of the table and the bitmap.    *)
THEOREM LeasesCorrect == Spec => []LeasesExact
BY Inductive, PTL DEF Spec, IInv

----------------------------------------------------------------------------
(* The refinement of NetLease.                                             *)

Leases == [p \in Pid |-> {nidx[s] : s \in Victims(p)}]

(* Steps that change neither a live slot nor its index stutter.            *)
LEMMA Stutter ==
  ASSUME UNCHANGED npid, \A s \in LiveSlots : nidx'[s] = nidx[s]
  PROVE  Leases' = Leases
<1>1. \A p \in Pid : Victims(p)' = Victims(p) /\ Victims(p) \subseteq LiveSlots
  BY DEF Victims, LiveSlots
<1> QED BY <1>1 DEF Leases

(* Claiming a slot is an Acquire of NetLease.                              *)
LEMMA StepClaim ==
  ASSUME IInv, ClaimSlot
  PROVE  /\ job.p \in Pid /\ nidx[job.s] \in Idx
         /\ nidx[job.s] \notin UNION {Leases[p] : p \in Pid}
         /\ Leases' = [Leases EXCEPT ![job.p] = @ \cup {nidx[job.s]}]
<1>1. /\ job.s \in Slot /\ job.p \in Pid /\ npid[job.s] = NoPid /\ job.pc = "nat"
      /\ npid' = [npid EXCEPT ![job.s] = job.p] /\ nidx' = nidx
  BY DEF IInv, JobOK, TypeOK, JobType, ClaimSlot, At
<1>2. npid \in [Slot -> Pid \cup {NoPid}] /\ nidx \in [Slot -> Idx]
  BY DEF IInv, TypeOK, MemType
<1>3. \A s \in LiveSlots : nidx[s] # nidx[job.s]
  BY <1>1, OwnersUp DEF IInv, Building, LiveSlots
<1>4. \A p \in Pid : Victims(p) \subseteq LiveSlots
  BY DEF Victims, LiveSlots
<1>5. \A p \in Pid : Victims(p)' = IF p = job.p THEN Victims(p) \cup {job.s} ELSE Victims(p)
  BY <1>1, <1>2 DEF Victims
<1>6. nidx[job.s] \notin UNION {Leases[p] : p \in Pid}
  BY <1>3, <1>4 DEF Leases
<1>7. Leases' = [Leases EXCEPT ![job.p] = @ \cup {nidx[job.s]}]
  <2>1. ASSUME NEW p \in Pid
        PROVE  {nidx[s] : s \in Victims(p)}' =
                 IF p = job.p THEN {nidx[s] : s \in Victims(p)} \cup {nidx[job.s]}
                 ELSE {nidx[s] : s \in Victims(p)}
    BY <1>1, <1>5
  <2> QED BY <1>1, <2>1, Zenon DEF Leases
<1> QED BY <1>1, <1>2, <1>6, <1>7

(* Giving a slot back is a Return of NetLease.                             *)
LEMMA StepFree ==
  ASSUME IInv, FinishRollback \/ SlotDown
  PROVE  \/ Leases' = Leases
         \/ \E p \in Pid, i \in Idx : /\ i \in Leases[p]
                                     /\ Leases' = [Leases EXCEPT ![p] = @ \ {i}]
<1>1. job.s \in Slot /\ npid' = [npid EXCEPT ![job.s] = NoPid] /\ nidx' = nidx
  BY Zenon DEF IInv, TypeOK, JobType, FinishRollback, SlotDown, FreeSlot
<1>2. npid \in [Slot -> Pid \cup {NoPid}] /\ nidx \in [Slot -> Idx]
  BY DEF IInv, TypeOK, MemType
<1>3. CASE npid[job.s] = NoPid
  <2>1. \A p \in Pid : Victims(p)' = Victims(p)
    BY <1>1, <1>2, <1>3 DEF Victims
  <2> QED BY <1>1, <2>1 DEF Leases
<1>4. CASE npid[job.s] # NoPid
  <2> DEFINE p == npid[job.s]
             i == nidx[job.s]
  <2>1. p \in Pid /\ i \in Idx /\ job.s \in Victims(p) /\ job.s \in LiveSlots
    BY <1>1, <1>2, <1>4 DEF Victims, LiveSlots
  <2>2. \A s, u \in LiveSlots : nidx[s] = nidx[u] => s = u
    BY DEF IInv, LeasesExact, Owners
  <2>3. \A q \in Pid : Victims(q)' = Victims(q) \ {job.s} /\ Victims(q) \subseteq LiveSlots
    BY <1>1, <1>2 DEF Victims, LiveSlots
  <2>4. \A q \in Pid \ {p} : job.s \notin Victims(q)
    BY DEF Victims
  <2>5. i \in Leases[p]
    BY <2>1 DEF Leases
  <2> HIDE DEF p, i
  <2>6. ASSUME NEW q \in Pid
        PROVE  {nidx[s] : s \in Victims(q)}' =
                 IF q = p THEN {nidx[s] : s \in Victims(q)} \ {i} ELSE {nidx[s] : s \in Victims(q)}
    BY <1>1, <2>1, <2>2, <2>3, <2>4 DEF i
  <2>7. Leases' = [Leases EXCEPT ![p] = @ \ {i}]
    BY <2>1, <2>6, Zenon DEF Leases
  <2> QED BY <2>1, <2>5, <2>7, Zenon
<1> QED BY <1>3, <1>4

(* The daemon's address allocation implements NetLease: seen from outside, *)
(* each step gives one cell a /30 nobody holds, takes one back, forgets    *)
(* all of them (the daemon dies), or changes nothing.                      *)
THEOREM LeaseRefinement == Spec => LeaseSpec
<1>1. ASSUME Init PROVE Lease!Init
  <2>1. \A p \in Pid : Victims(p) = {}
    BY <1>1 DEF Init, Victims
  <2> QED BY <2>1 DEF Lease!Init
<1>2. ASSUME IInv, [Next]_vars PROVE [Lease!Next]_Leases
  <2>1. CASE ClaimSlot
    <3>1. PICK p \in Pid, i \in Idx : /\ i \notin UNION {Leases[q] : q \in Pid}
                                       /\ Leases' = [Leases EXCEPT ![p] = @ \cup {i}]
      BY <1>2, <2>1, StepClaim
    <3>2. Lease!Acquire(p, i)
      BY <3>1 DEF Lease!Acquire, Lease!Held, Leases
    <3> QED BY <3>2 DEF Lease!Next
  <2>2. CASE FinishRollback \/ SlotDown
    <3>1. CASE Leases' = Leases
      BY <3>1
    <3>2. ASSUME NEW p \in Pid, NEW i \in Idx, i \in Leases[p],
                 Leases' = [Leases EXCEPT ![p] = @ \ {i}]
          PROVE  Lease!Next
      <4>1. Lease!Return(p, i)
        BY <3>2 DEF Lease!Return, Leases
      <4> QED BY <4>1 DEF Lease!Next
    <3> QED BY <1>2, <2>2, <3>1, <3>2, StepFree
  <2>3. CASE Exit \/ Crash
    <3>1. \A p \in Pid : Victims(p)' = {}
      BY <2>3 DEF Exit, Crash, Die, Victims
    <3>2. Lease!ForgetAll
      BY <3>1 DEF Lease!ForgetAll
    <3> QED BY <3>2 DEF Lease!Next
  <2>4. ASSUME NEW p \in Pid, NetUp(p) PROVE Leases' = Leases
    <3>1. \A s \in LiveSlots : nidx'[s] = nidx[s]
      <4>1. CASE FreeSlots = {} \/ FreeIdx = {}
        BY <2>4, <4>1, Zenon DEF NetUp, mem
      <4>2. CASE FreeSlots # {} /\ FreeIdx # {}
        <5>1. nidx' = [nidx EXCEPT ![Min(FreeSlots)] = Min(FreeIdx)]
          BY <2>4, <4>2, Zenon DEF NetUp
        <5>2. Min(FreeSlots) \notin LiveSlots /\ LiveSlots \subseteq Slot
          BY <4>2, FreeIn DEF FreeSlots, LiveSlots
        <5> QED BY <1>2, <5>1, <5>2 DEF IInv, TypeOK, MemType
      <4> QED BY <4>1, <4>2
    <3> QED BY <2>4, <3>1, Stutter, Zenon DEF NetUp, mem
  <2>5. CASE \/ RunCmd \/ AddLink \/ ReAddLink \/ MoveLink \/ ResolveAll \/ FinishUp
             \/ FinishRefresh \/ TeardownSlot \/ NetDownReply \/ Stop \/ CleanupNat
             \/ Start \/ Serve \/ UNCHANGED vars
             \/ (\E s \in Slot : Refresh(s)) \/ (\E i \in Idx : NetnsGone(i))
             \/ \E p \in Pid : NetDown(p) \/ PayloadExit(p) \/ KillSupervisor(p)
                                \/ \E r \in Reqs : Ask(p, r)
    <3>1. UNCHANGED <<npid, nidx>>
      BY <2>5, Zenon DEF RunCmd, AddLink, ReAddLink, MoveLink, ResolveAll, FinishUp, FinishRefresh,
                  TeardownSlot, NetDownReply, Stop, CleanupNat, Start, Serve, Refresh, NetnsGone,
                  NetDown, PayloadExit, KillSupervisor, Ask, mem, vars
    <3> QED BY <3>1, Stutter
  <2> QED BY <1>2, <2>1, <2>2, <2>3, <2>4, <2>5 DEF Next
<1> QED BY <1>1, <1>2, Inductive, PTL DEF Spec, LeaseSpec, Lease!Spec, Leases
=============================================================================
