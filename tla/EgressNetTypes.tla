--------------------------- MODULE EgressNetTypes --------------------------
(***************************************************************************)
(* Type correctness of EgressNet, step by step: one lemma per group of     *)
(* actions.                                                                *)
(***************************************************************************)
EXTENDS EgressNetLists

USE ConstantsOK

(* The slot and the index a scan picks are free, or up for teardown.       *)
LEMMA FreeIn == /\ FreeSlots # {} => Min(FreeSlots) \in FreeSlots
                /\ FreeIdx # {} => Min(FreeIdx) \in FreeIdx
                /\ Doomed # {} => Min(Doomed) \in Doomed
<1>1. FreeSlots \in SUBSET Nat /\ FreeIdx \in SUBSET Nat /\ Doomed \in SUBSET Nat
  BY DEF FreeSlots, FreeIdx, Doomed, LiveSlots, Victims, Slot, Idx
<1> QED BY <1>1, MinIn

JobRec == [pc : Pc, s : Slot, p : Pid \cup {NoPid}, failed : BOOLEAN, want : SUBSET Dst]

(* The daemon between two requests.                                        *)
LEMMA IdleType == Idle \in JobRec
<1>1. 1 \in Slot
  BY DEF Slot
<1> QED BY <1>1 DEF Idle, JobRec, Pc

(* The types hold in the initial states.                                   *)
LEMMA TypeInit == ASSUME Init PROVE TypeOK
<1>1. 0 \in Idx
  BY DEF Idx
<1>2. MemType
  <2>1. fwdSave \in -1 .. 1
    BY DEF Init
  <2>2. /\ npid \in [Slot -> Pid \cup {NoPid}] /\ nidx \in [Slot -> Idx]
        /\ neg \in [Slot -> SUBSET Dst]
    BY <1>1 DEF Init
  <2>3. natOn \in BOOLEAN /\ netmap \subseteq Idx
    BY Zenon DEF Init
  <2> QED BY <2>1, <2>2, <2>3 DEF MemType
<1>3. JobType
  BY IdleType, EmptySeq DEF Init, JobType, JobRec
<1>4. KernType
  <2>1. chain \in Seq(Rules) /\ masq \in BOOLEAN
    BY EmptySeq, Zenon DEF Init
  <2>2. link \in [Idx -> {"none", "host"} \cup Pid] /\ fwd \in {0, 1} /\ saved \in -2 .. 1
    BY DEF Init
  <2> QED BY <2>1, <2>2 DEF KernType
<1>5. CellType
  <2>1. [lits |-> {}, named |-> FALSE, resolv |-> FALSE] \in Requests
    BY DEF Requests
  <2> QED BY <2>1 DEF Init, CellType, CellState
<1> QED BY <1>2, <1>3, <1>4, <1>5 DEF TypeOK

(* A group of variables an action leaves alone keeps its type.             *)
LEMMA TypeSame ==
  /\ MemType /\ UNCHANGED mem => MemType'
  /\ KernType /\ UNCHANGED kern => KernType'
  /\ CellType /\ UNCHANGED <<cell, req, granted, torn>> => CellType'
BY DEF MemType, mem, KernType, kern, CellType

(* One shell command of a handler, failing or not.                         *)
LEMMA TypeRunCmd == ASSUME TypeOK, RunCmd PROVE TypeOK'
<1> DEFINE c == Head(todo)
<1>1. c \in Cmds /\ Tail(todo) \in Seq(Cmds)
  BY HeadTailProperties DEF TypeOK, JobType, RunCmd
<1>2. neg' = NegAfter(c, TRUE) \/ neg' = NegAfter(c, FALSE)
  BY Zenon DEF RunCmd
<1>3. Effect(c) \/ UNCHANGED kern
  BY Zenon DEF RunCmd
<1>4. JobType'
  <2>1. job' = job \/ job' = [job EXCEPT !.failed = @ \/ c.op = "acc"]
    BY Zenon DEF RunCmd
  <2>2. todo' \in Seq(Cmds) /\ daemon' = daemon
    BY <1>1 DEF RunCmd
  <2> QED BY <2>1, <2>2, Zenon DEF TypeOK, JobType
<1>5. CellType'
  BY TypeSame DEF TypeOK, RunCmd, hist
<1>6. UNCHANGED <<npid, nidx, netmap, natOn, fwdSave>> /\ job.s \in Slot
  BY DEF RunCmd, TypeOK, JobType
<1> HIDE DEF c
<1>7. c.rule \in Rules /\ (c.op = "acc" => c.rule.dst \in Dst)
  BY <1>1 DEF Cmds
<1>8. neg' \in [Slot -> SUBSET Dst]
  <2>1. neg \in [Slot -> SUBSET Dst]
    BY DEF TypeOK, MemType
  <2>2. CASE c.op = "acc" /\ neg' = [neg EXCEPT ![job.s] = @ \cup {c.rule.dst}]
    BY <1>7, <2>1, <2>2, Zenon
  <2>3. CASE neg' = [neg EXCEPT ![job.s] = @ \ {c.rule.dst}]
    BY <2>1, <2>3, Zenon
  <2>4. CASE neg' = neg
    BY <2>1, <2>4
  <2> QED BY <1>2, <2>2, <2>3, <2>4, Zenon DEF NegAfter
<1>9. MemType'
  BY <1>6, <1>8 DEF TypeOK, MemType
<1>10. KernType'
  <2>1. /\ RemoveFirst(chain, c.rule) \in Seq(Rules) /\ <<c.rule>> \o chain \in Seq(Rules)
        /\ chain \in Seq(Rules)
    BY <1>7, RemoveFirstType DEF TypeOK, KernType
  <2>2. chain' \in Seq(Rules)
    BY <1>3, <2>1, Zenon DEF Effect, kern
  <2>3. link' \in [Idx -> {"none", "host"} \cup Pid]
    BY <1>3 DEF Effect, kern, TypeOK, KernType
  <2>4. masq' \in BOOLEAN
    BY <1>3, Zenon DEF Effect, kern, TypeOK, KernType
  <2>5. fwd' \in {0, 1} /\ saved' \in -2 .. 1
    BY <1>3 DEF Effect, kern, TypeOK, KernType, MemType
  <2> QED BY <2>2, <2>3, <2>4, <2>5 DEF KernType
<1> QED BY <1>4, <1>5, <1>9, <1>10 DEF TypeOK

(* The steps of NETUP.                                                     *)
LEMMA TypeUp ==
  ASSUME TypeOK, JobOK,
         (\E p \in Pid : NetUp(p)) \/ AddLink \/ ReAddLink \/ MoveLink \/ ClaimSlot
           \/ ResolveAll \/ FinishUp \/ FinishRollback
  PROVE  TypeOK'
<1> USE DEF TypeOK
<1>1. job \in JobRec /\ job.s \in Slot /\ nidx[job.s] \in Idx /\ RollbackCmds(job.s) \in Seq(Cmds)
  BY ListsType DEF JobType, JobRec, MemType
<1>2. \A pc \in Pc : [job EXCEPT !.pc = pc] \in JobRec
  BY <1>1 DEF JobRec
<1>3. Rollback => job' \in JobRec /\ todo' \in Seq(Cmds)
  BY <1>1, <1>2 DEF Rollback, Goto, Pc
<1>4. \A p, ok : Reply(p, ok) => cell' \in [Pid -> CellState]
  BY Zenon DEF Reply, CellType, CellState
<1>5. ASSUME NEW p \in Pid, NetUp(p) PROVE TypeOK'
  <2>1. KernType' /\ UNCHANGED <<req, granted, torn, daemon, todo>>
    BY <1>5, TypeSame, Zenon DEF NetUp, hist
  <2>2. CellType'
    BY <1>4, <1>5, <2>1, Zenon DEF NetUp, CellType
  <2>3. CASE FreeSlots = {} \/ FreeIdx = {}
    BY <1>5, <2>1, <2>2, <2>3, TypeSame, Zenon DEF NetUp, JobType
  <2>4. CASE FreeSlots # {} /\ FreeIdx # {}
    <3> DEFINE s == Min(FreeSlots)
               i == Min(FreeIdx)
    <3>1. s \in Slot /\ i \in Idx
      BY <2>4, FreeIn DEF FreeSlots, FreeIdx
    <3>2. /\ netmap' = netmap \cup {i} /\ nidx' = [nidx EXCEPT ![s] = i]
          /\ neg' = [neg EXCEPT ![s] = {}] /\ UNCHANGED <<npid, natOn, fwdSave>>
          /\ job' = [Idle EXCEPT !.pc = "link", !.s = s, !.p = p]
      BY <1>5, <2>4, Zenon DEF NetUp
    <3> HIDE DEF s, i
    <3>3. MemType'
      BY <3>1, <3>2 DEF MemType
    <3>4. job' \in JobRec
      BY <3>1, <3>2, IdleType, Zenon DEF JobRec, Pc
    <3> QED BY <2>1, <2>2, <3>3, <3>4 DEF JobType, JobRec
  <2> QED BY <2>3, <2>4
<1>6. CASE AddLink
  <2>1. LinkDel(nidx[job.s]) \o Scrub({nidx[job.s]}) \in Seq(Cmds)
    BY <1>1, LinkDelType, ScrubType, ConcatProperties
  <2>2. [job EXCEPT !.pc = "relink", !.failed = TRUE] \in JobRec
    BY <1>1, Zenon DEF JobRec, Pc
  <2>3. job' \in JobRec /\ todo' \in Seq(Cmds)
    <3>1. [job EXCEPT !.pc = "move"] \in JobRec /\ [job EXCEPT !.pc = "relink"] \in JobRec
      BY <1>1 DEF JobRec, Pc
    <3>2. todo \in Seq(Cmds)
      BY DEF JobType
    <3> QED BY <1>6, <2>1, <2>2, <3>1, <3>2, Zenon DEF AddLink, Goto
  <2>4. link' \in [Idx -> {"none", "host"} \cup Pid]
    BY <1>1, <1>6 DEF AddLink, KernType
  <2>5. UNCHANGED <<mem, daemon, chain, masq, fwd, saved, cell, req, granted, torn>>
    BY <1>6 DEF AddLink, hist
  <2> QED BY <2>3, <2>4, <2>5, TypeSame DEF JobType, JobRec, KernType
<1>7. CASE ReAddLink
  <2>1. [job EXCEPT !.pc = "move", !.failed = FALSE] \in JobRec
    BY <1>1, Zenon DEF JobRec, Pc
  <2>2. job' \in JobRec /\ todo' \in Seq(Cmds)
    BY <1>3, <1>7, <2>1 DEF ReAddLink, JobType
  <2>3. link' \in [Idx -> {"none", "host"} \cup Pid]
    BY <1>1, <1>7 DEF ReAddLink, KernType
  <2>4. UNCHANGED <<mem, daemon, chain, masq, fwd, saved, cell, req, granted, torn>>
    BY <1>7 DEF ReAddLink, hist
  <2> QED BY <2>2, <2>3, <2>4, TypeSame DEF JobType, JobRec, KernType
<1>8. CASE MoveLink
  <2>1. job.p \in Pid
    BY <1>8, Zenon DEF MoveLink, At, JobOK
  <2>2. job' \in JobRec /\ todo' \in Seq(Cmds)
    <3>1. [job EXCEPT !.pc = "nat"] \in JobRec
      BY <1>2 DEF Pc
    <3>2. nat_ensure \in Seq(Cmds) /\ <<>> \in Seq(Cmds)
      BY <1>1, ListsType, EmptySeq
    <3> QED BY <1>3, <1>8, <3>1, <3>2, Zenon DEF MoveLink, Goto
  <2>3. link' \in [Idx -> {"none", "host"} \cup Pid]
    BY <1>1, <1>8, <2>1 DEF MoveLink, KernType
  <2>4. fwdSave' \in -1 .. 1
    <3>1. fwdSave' = fwdSave \/ fwdSave' = fwd
      BY <1>8, Zenon DEF MoveLink
    <3> QED BY <3>1 DEF KernType, MemType
  <2>5. UNCHANGED <<npid, nidx, neg, netmap, natOn, daemon, chain, masq, fwd, saved, cell, req, granted, torn>>
    BY <1>8 DEF MoveLink, hist
  <2> QED BY <2>2, <2>3, <2>4, <2>5, TypeSame DEF JobType, JobRec, KernType, MemType
<1>9. CASE ClaimSlot
  <2>1. job.p \in Pid
    BY <1>9 DEF ClaimSlot, At, JobOK
  <2>2. npid' \in [Slot -> Pid \cup {NoPid}] /\ natOn' \in BOOLEAN
    BY <1>1, <1>9, <2>1 DEF ClaimSlot, MemType
  <2>3. egress_base(nidx[job.s], TRUE) \in Seq(Cmds) /\ <<>> \in Seq(Cmds)
    BY <1>1, BaseType, EmptySeq, Zenon
  <2>4. /\ Rollback \/ (Goto("want") /\ todo' = egress_base(nidx[job.s], TRUE))
             \/ (job' = Idle /\ todo' = <<>>)
        /\ cell' = cell \/ Reply(job.p, TRUE)
        /\ UNCHANGED <<nidx, neg, netmap, fwdSave, daemon, kern, req, granted, torn>>
    BY <1>9, Zenon DEF ClaimSlot, hist
  <2>5. job' \in JobRec /\ todo' \in Seq(Cmds)
    BY <1>2, <1>3, <2>3, <2>4, IdleType, Zenon DEF Goto, Pc
  <2>6. CellType'
    BY <1>4, <2>4, Zenon DEF CellType
  <2> QED BY <2>2, <2>4, <2>5, <2>6, TypeSame DEF JobType, JobRec, MemType
<1>10. CASE ResolveAll
  <2>1. job.p \in Pid
    BY <1>10, Zenon DEF ResolveAll, At, JobOK
  <2>2. PICK ans \in Answers :
          LET r == req[job.p] IN
          IF WantOK(r, ans)
          THEN /\ todo' = egress_apply(job.s, Resolved(r, ans))
               /\ job' = [job EXCEPT !.pc = "apply", !.want = Resolved(r, ans)]
               /\ granted' = [granted EXCEPT ![job.p] = Resolved(r, ans)]
          ELSE Rollback /\ UNCHANGED granted
    BY <1>10, Zenon DEF ResolveAll
  <2>3. Resolved(req[job.p], ans) \in SUBSET Dst
    BY <2>1 DEF Resolved, CellType, Requests
  <2>4. egress_apply(job.s, Resolved(req[job.p], ans)) \in Seq(Cmds)
    BY <1>1, <2>3, ListsType
  <2>5. job' \in JobRec /\ todo' \in Seq(Cmds)
    <3>1. [job EXCEPT !.pc = "apply", !.want = Resolved(req[job.p], ans)] \in JobRec
      BY <1>1, <2>3, Zenon DEF JobRec, Pc
    <3> QED BY <1>3, <2>2, <2>4, <3>1, Zenon
  <2>6. granted' \in [Pid -> SUBSET Dst]
    BY <2>1, <2>2, <2>3 DEF CellType
  <2>7. UNCHANGED <<mem, daemon, kern, cell, req, torn>>
    BY <1>10, Zenon DEF ResolveAll
  <2> QED BY <2>5, <2>6, <2>7, TypeSame DEF JobType, JobRec, CellType
<1>11. CASE FinishUp
  <2>1. job' \in JobRec /\ todo' \in Seq(Cmds)
    BY <1>3, <1>11, IdleType, Zenon DEF FinishUp, JobType
  <2>2. cell' \in [Pid -> CellState]
    BY <1>4, <1>11, Zenon DEF FinishUp, CellType
  <2>3. UNCHANGED <<mem, daemon, kern, req, granted, torn>>
    BY <1>11 DEF FinishUp, hist
  <2> QED BY <2>1, <2>2, <2>3, TypeSame DEF JobType, JobRec, CellType
<1>12. CASE FinishRollback
  <2>1. cell' \in [Pid -> CellState] /\ job' = Idle
    BY <1>4, <1>12, Zenon DEF FinishRollback
  <2>2. UNCHANGED <<nidx, natOn, fwdSave, daemon, todo, kern, req, granted, torn>>
    BY <1>12 DEF FinishRollback, hist
  <2>3. MemType'
    BY <1>1, <1>12, <2>2 DEF FinishRollback, FreeSlot, MemType
  <2> QED BY <2>1, <2>2, <2>3, IdleType, TypeSame DEF JobType, JobRec, CellType
<1> QED BY <1>5, <1>6, <1>7, <1>8, <1>9, <1>10, <1>11, <1>12

(* The other steps of the daemon.                                          *)
LEMMA TypeDown ==
  ASSUME TypeOK, JobOK,
         (\E s \in Slot : Refresh(s)) \/ FinishRefresh \/ (\E p \in Pid : NetDown(p))
           \/ TeardownSlot \/ SlotDown \/ NetDownReply \/ Stop \/ CleanupNat
  PROVE  TypeOK'
<1> USE DEF TypeOK
<1>1. job \in JobRec /\ job.s \in Slot
  BY DEF JobType, JobRec
<1>2. \A pc \in Pc : [job EXCEPT !.pc = pc] \in JobRec
  BY <1>1 DEF JobRec
<1>3. ASSUME NEW s \in Slot, Refresh(s) PROVE TypeOK'
  <2>1. npid[s] \in Pid
    BY <1>3, Zenon DEF Refresh, LiveSlots, MemType
  <2>2. PICK ans \in Answers :
          LET want == Resolved(req[npid[s]], ans) IN
          /\ todo' = egress_apply(s, want)
          /\ job' = [Idle EXCEPT !.pc = "refresh", !.s = s, !.p = npid[s], !.want = want]
          /\ granted' = [granted EXCEPT ![npid[s]] = @ \cup want]
    BY <1>3, Zenon DEF Refresh
  <2> DEFINE want == Resolved(req[npid[s]], ans)
  <2>3. want \in SUBSET Dst
    BY <2>1 DEF Resolved, CellType, Requests
  <2> HIDE DEF want
  <2>4. todo' \in Seq(Cmds)
    BY <2>2, <2>3, ListsType DEF want
  <2>5. job' \in JobRec
    BY <2>1, <2>2, <2>3, IdleType, Zenon DEF JobRec, Pc, want
  <2>6. granted' \in [Pid -> SUBSET Dst]
    BY <2>1, <2>2, <2>3 DEF CellType, want
  <2>7. UNCHANGED <<mem, daemon, kern, cell, req, torn>>
    BY <1>3, Zenon DEF Refresh
  <2> QED BY <2>4, <2>5, <2>6, <2>7, TypeSame DEF JobType, JobRec, CellType
<1>4. CASE FinishRefresh
  <2>1. granted' \in [Pid -> SUBSET Dst]
    BY <1>1, <1>4, Zenon DEF FinishRefresh, CellType, JobRec
  <2>2. UNCHANGED <<mem, daemon, todo, kern, cell, req, torn>> /\ job' = Idle
    BY <1>4 DEF FinishRefresh
  <2> QED BY <2>1, <2>2, IdleType, TypeSame DEF JobType, JobRec, CellType
<1>5. ASSUME NEW p \in Pid, NetDown(p) PROVE TypeOK'
  <2>1. UNCHANGED <<mem, daemon, todo, kern, cell, req, granted, torn>>
    BY <1>5, Zenon DEF NetDown, hist
  <2>2. job' \in JobRec
    BY <1>5, IdleType, Zenon DEF NetDown, JobRec, Pc
  <2> QED BY <2>1, <2>2, TypeSame DEF JobType, JobRec
<1>6. CASE TeardownSlot
  <2>1. Min(Doomed) \in Slot
    BY <1>6, FreeIn DEF TeardownSlot, Doomed, LiveSlots, Victims
  <2>2. job' \in JobRec
    BY <1>1, <1>6, <2>1, Zenon DEF TeardownSlot, JobRec, Pc
  <2>3. todo' \in Seq(Cmds)
    BY <1>6, <2>1, ListsType DEF TeardownSlot
  <2>4. UNCHANGED <<mem, daemon, kern, cell, req, granted, torn>>
    BY <1>6 DEF TeardownSlot, hist
  <2> QED BY <2>2, <2>3, <2>4, TypeSame DEF JobType, JobRec
<1>7. CASE SlotDown
  <2>1. UNCHANGED <<nidx, natOn, fwdSave, daemon, todo, kern, cell, req, granted, torn>>
    BY <1>7 DEF SlotDown, hist
  <2>2. MemType'
    BY <1>1, <1>7, <2>1 DEF SlotDown, FreeSlot, MemType
  <2>3. job' \in JobRec
    BY <1>2, <1>7 DEF SlotDown, Goto, Pc
  <2> QED BY <2>1, <2>2, <2>3, TypeSame DEF JobType, JobRec
<1>8. CASE NetDownReply
  <2>1. UNCHANGED <<mem, daemon, todo, kern, req, granted, torn>> /\ job' = Idle
    BY <1>8 DEF NetDownReply, hist
  <2>2. cell' \in [Pid -> CellState]
    BY <1>8, Zenon DEF NetDownReply, CellType, CellState
  <2> QED BY <2>1, <2>2, IdleType, TypeSame DEF JobType, JobRec, CellType
<1>9. CASE Stop
  <2>1. UNCHANGED <<mem, todo, kern, cell, req, granted>> /\ daemon' = "stopping"
    BY <1>9 DEF Stop
  <2>2. torn' \subseteq Pid
    BY <1>9 DEF Stop, CellType
  <2>3. job' \in JobRec
    BY <1>9, IdleType DEF Stop, JobRec, Pc
  <2> QED BY <2>1, <2>2, <2>3, TypeSame DEF JobType, JobRec, CellType
<1>10. CASE CleanupNat
  <2>1. UNCHANGED <<npid, nidx, neg, netmap, fwdSave, daemon, kern, cell, req, granted, torn>>
    BY <1>10 DEF CleanupNat, hist
  <2>2. todo' \in Seq(Cmds)
    BY <1>1, <1>10, ListsType, EmptySeq, Zenon DEF CleanupNat
  <2>3. job' \in JobRec
    BY <1>2, <1>10 DEF CleanupNat, Goto, Pc
  <2>4. natOn' \in BOOLEAN
    BY <1>10, Zenon DEF CleanupNat
  <2>5. MemType'
    BY <2>1, <2>4 DEF MemType
  <2> QED BY <2>1, <2>2, <2>3, <2>5, TypeSame DEF JobType, JobRec
<1> QED BY <1>3, <1>4, <1>5, <1>6, <1>7, <1>8, <1>9, <1>10

(* Crashes, restarts and the cells.                                        *)
LEMMA TypeOther ==
  ASSUME TypeOK, JobOK,
         Exit \/ Crash \/ Start \/ Serve
           \/ (\E p \in Pid : PayloadExit(p) \/ KillSupervisor(p) \/ \E r \in Reqs : Ask(p, r))
           \/ (\E i \in Idx : NetnsGone(i)) \/ UNCHANGED vars
  PROVE  TypeOK'
<1> USE DEF TypeOK
<1>1. Die => MemType' /\ job' \in JobRec /\ todo' \in Seq(Cmds) /\ cell' \in [Pid -> CellState]
  <2> SUFFICES ASSUME Die PROVE MemType' /\ job' \in JobRec /\ todo' \in Seq(Cmds)
                                /\ cell' \in [Pid -> CellState]
    OBVIOUS
  <2>1. 0 \in Idx
    BY DEF Idx
  <2>2. /\ npid' \in [Slot -> Pid \cup {NoPid}] /\ nidx' \in [Slot -> Idx]
        /\ neg' \in [Slot -> SUBSET Dst] /\ fwdSave' \in -1 .. 1
    BY <2>1 DEF Die
  <2>3. natOn' \in BOOLEAN /\ netmap' \subseteq Idx
    BY Zenon DEF Die
  <2>4. cell' \in [Pid -> CellState]
    BY DEF Die, CellType, CellState
  <2> QED BY <2>2, <2>3, <2>4, IdleType, EmptySeq DEF Die, MemType
<1>2. CASE Exit \/ Crash
  <2>1. Die /\ daemon' \in {"stopped", "crashed"} /\ UNCHANGED <<kern, req, granted, torn>>
    BY <1>2 DEF Exit, Crash, hist
  <2> QED BY <1>1, <2>1, TypeSame DEF JobType, JobRec, CellType
<1>3. CASE Start \/ Serve
  <2>1. todo' = net_recover_startup \/ todo' = todo
    BY <1>3 DEF Start, Serve
  <2>2. todo' \in Seq(Cmds)
    BY <2>1, RecoverType DEF JobType
  <2>3. UNCHANGED <<mem, job, kern, cell, req, granted, torn>> /\ daemon' \in {"starting", "serving"}
    BY <1>3 DEF Start, Serve, hist
  <2> QED BY <2>2, <2>3, TypeSame DEF JobType
<1>4. ASSUME NEW p \in Pid, PayloadExit(p) \/ KillSupervisor(p) \/ \E r \in Reqs : Ask(p, r)
      PROVE  TypeOK'
  <2>1. cell' \in [Pid -> CellState]
    BY <1>4 DEF PayloadExit, KillSupervisor, Ask, CellType, CellState
  <2>2. req' \in [Pid -> Requests]
    <3>1. req' = req \/ \E r \in Reqs : req' = [req EXCEPT ![p] = r]
      BY <1>4, Zenon DEF PayloadExit, KillSupervisor, Ask
    <3>2. Reqs \subseteq Requests
      BY DEF Requests
    <3> QED BY <3>1, <3>2 DEF CellType
  <2>3. UNCHANGED <<mem, daemon, job, todo, kern, granted, torn>>
    BY <1>4, Zenon DEF PayloadExit, KillSupervisor, Ask, hist
  <2> QED BY <2>1, <2>2, <2>3, TypeSame DEF JobType, CellType
<1>5. ASSUME NEW i \in Idx, NetnsGone(i) PROVE TypeOK'
  <2>1. link' \in [Idx -> {"none", "host"} \cup Pid]
    BY <1>5 DEF NetnsGone, KernType
  <2>2. UNCHANGED <<mem, daemon, job, todo, chain, masq, fwd, saved, cell, req, granted, torn>>
    BY <1>5 DEF NetnsGone, hist
  <2> QED BY <2>1, <2>2, TypeSame, Zenon DEF JobType, KernType
<1>6. CASE UNCHANGED vars
  <2>1. UNCHANGED <<mem, daemon, job, todo, kern, cell, req, granted, torn>>
    BY <1>6 DEF vars, hist
  <2> QED BY <2>1, TypeSame DEF JobType
<1> QED BY <1>2, <1>3, <1>4, <1>5, <1>6

(* Every step of the daemon, its cells and the kernel keeps the types; the *)
(* handler invariant JobOK says that a NETUP handler has a cell's pid.     *)
THEOREM TypeNext == ASSUME TypeOK, JobOK, [Next]_vars PROVE TypeOK'
BY TypeRunCmd, TypeUp, TypeDown, TypeOther DEF Next
=============================================================================
