------------------------- MODULE LibAgentcellProofs -------------------------
(***************************************************************************)
(* KeepsItsOwn and ReleasedIsGone of LibAgentcell, for any number of       *)
(* owners, records and spawns: payloads, the daemon, wait, drop and        *)
(* agentcell_release keep IInv too (LibAgentcellSpawn has the spawn), and  *)
(* IInv implies both.                                                      *)
(***************************************************************************)
EXTENDS LibAgentcellSpawn

\* A payload moves between living states or to zombie.
LEMMA ChildKeeps ==
  ASSUME NEW p \in Pid, IInv, Child(p)
  PROVE  IInv'
<1>. USE LibConstantsOK DEF IInv, Rec, Pid, Goto, Inside, Fresh, Launching,
   Spawning, Ending, Holding, libVars, procVars, callerVars, daemonVars, histVars, Child,
   ChildSetup, ChildDies, ChildEnds, Live
<1>1. Types'
  BY DEF Types
<1>2. Locked'
  BY DEF Types, Locked
<1>3. Children'
  <2>1. PICK x \in {"run", "astray", "zombie"} : proc' = [proc EXCEPT ![p] = x]
    BY DEF Types
  <2>2. proc[p] \in {"setup", "run", "astray"}
    OBVIOUS
  <2>3. \A r \in Owner : child[r] # 0 => child[r] \in Pid
    BY DEF Types, Children
  <2>. QED
    BY <2>1, <2>2, <2>3 DEF Types, Locked, Children
<1>4. Records'
  BY DEF Types, Children, Records
<1>5. Cgroup'
  <2>1. proc[p] # "reaped" /\ \E x : x # "reaped" /\ proc' = [proc EXCEPT ![p] = x]
    BY DEF Types
  <2>2. \A q \in Pid : proc'[q] = "reaped" <=> proc[q] = "reaped"
    BY <2>1 DEF Types
  <2>3. \A s \in Slots : recs[s].pid \in Pid \/ recs[s].pid = 0
    BY DEF Types, Children, Records
  <2>. HIDE DEF Child
  <2>4. UNCHANGED <<at, g, recs, spawned, cgdir, limited>>
    BY DEF Child
  <2>. QED
    BY <2>2, <2>3, <2>4 DEF Types, Records, Cgroup
<1>6. CgroupOwned'
  BY DEF Types, Locked, CgroupOwned
<1>7. LsmNoted'
  BY DEF Types, Children, LsmNoted
<1>8. LsmKept'
  BY DEF Types, Locked, LsmKept
<1>9. Cleared'
  BY DEF Types, Children, Cleared
<1>10. Gone'
  BY DEF Types, Children, Gone
<1>. QED
  BY <1>1, <1>2, <1>3, <1>4, <1>5, <1>6, <1>7, <1>8, <1>9, <1>10

\* The policy goes and no rule is expected any more; the network stays.
LEMMA DaemonDiesKeeps ==
  ASSUME IInv, DaemonDies
  PROVE  IInv'
<1>. USE LibConstantsOK DEF IInv, Rec, Pid, Goto, Inside, Fresh, Launching,
   Spawning, Ending, Holding, libVars, procVars, callerVars, daemonVars, histVars, DaemonDies
<1>1. Types'
  BY DEF Types
<1>2. Locked'
  BY DEF Types, Locked
<1>3. Children'
  BY DEF Types, Locked, Children
<1>4. Records'
  BY RecordsFrame DEF Calm
<1>5. Cgroup'
  BY CgroupFrame DEF Calm
<1>6. CgroupOwned'
  BY DEF Types, Locked, CgroupOwned
<1>7. LsmNoted'
  BY DEF Types, Children, LsmNoted
<1>8. LsmKept'
  BY DEF Types, Locked, LsmKept
<1>9. Cleared'
  BY DEF Types, Children, Cleared
<1>10. Gone'
  BY DEF Types, Children, Gone
<1>. QED
  BY <1>1, <1>2, <1>3, <1>4, <1>5, <1>6, <1>7, <1>8, <1>9, <1>10

\* An orderly stop takes everything away.
LEMMA DaemonStopsKeeps ==
  ASSUME IInv, DaemonStops
  PROVE  IInv'
<1>. USE LibConstantsOK DEF IInv, Rec, Pid, Goto, Inside, Fresh, Launching,
   Spawning, Ending, Holding, libVars, procVars, callerVars, daemonVars, histVars, DaemonStops
<1>1. Types'
  BY DEF Types
<1>2. Locked'
  BY DEF Types, Locked
<1>3. Children'
  BY DEF Types, Locked, Children
<1>4. Records'
  BY RecordsFrame DEF Calm
<1>5. Cgroup'
  BY CgroupFrame DEF Calm
<1>6. CgroupOwned'
  BY DEF Types, Locked, CgroupOwned
<1>7. LsmNoted'
  BY DEF Types, Children, LsmNoted
<1>8. LsmKept'
  BY DEF Types, Locked, LsmKept
<1>9. Cleared'
  BY DEF Types, Children, Cleared
<1>10. Gone'
  BY DEF Types, Children, Gone
<1>. QED
  BY <1>1, <1>2, <1>3, <1>4, <1>5, <1>6, <1>7, <1>8, <1>9, <1>10

\* A start takes away what an earlier run has left.
LEMMA DaemonStartsKeeps ==
  ASSUME IInv, DaemonStarts
  PROVE  IInv'
<1>. USE LibConstantsOK DEF IInv, Rec, Pid, Goto, Inside, Fresh, Launching,
   Spawning, Ending, Holding, libVars, procVars, callerVars, daemonVars, histVars, DaemonStarts
<1>1. Types'
  BY DEF Types
<1>2. Locked'
  BY DEF Types, Locked
<1>3. Children'
  BY DEF Types, Locked, Children
<1>4. Records'
  BY RecordsFrame DEF Calm
<1>5. Cgroup'
  BY CgroupFrame DEF Calm
<1>6. CgroupOwned'
  BY DEF Types, Locked, CgroupOwned
<1>7. LsmNoted'
  BY DEF Types, Children, LsmNoted
<1>8. LsmKept'
  BY DEF Types, Locked, LsmKept
<1>9. Cleared'
  BY DEF LsmKept, Cleared
<1>10. Gone'
  BY DEF LsmKept, Gone
<1>. QED
  BY <1>1, <1>2, <1>3, <1>4, <1>5, <1>6, <1>7, <1>8, <1>9, <1>10

\* A wait changes only the thread's place.
LEMMA WaitKeeps ==
  ASSUME NEW o \in Owner, IInv, Wait(o)
  PROVE  IInv'
<1>. USE LibConstantsOK DEF IInv, Rec, Pid, Goto, Inside, Fresh, Launching,
   Spawning, Ending, Holding, libVars, procVars, callerVars, daemonVars, histVars, Wait
<1>1. Types'
  BY DEF Types
<1>2. Locked'
  BY DEF Types, Locked
<1>3. Children'
  BY DEF Types, Locked, Children
<1>4. Records'
  <2>1. Calm
    BY DEF Types, Calm
  <2>. QED
    BY <2>1, RecordsFrame
<1>5. Cgroup'
  <2>1. Calm
    BY DEF Types, Calm
  <2>. QED
    BY <2>1, CgroupFrame
<1>6. CgroupOwned'
  BY DEF Types, Locked, CgroupOwned
<1>7. LsmNoted'
  BY DEF Types, Children, LsmNoted
<1>8. LsmKept'
  BY DEF Types, Locked, LsmKept
<1>9. Cleared'
  BY DEF Types, Children, Cleared
<1>10. Gone'
  BY DEF Types, Children, Gone
<1>. QED
  BY <1>1, <1>2, <1>3, <1>4, <1>5, <1>6, <1>7, <1>8, <1>9, <1>10

\* A drop kills only its own payload.
LEMMA DropKeeps ==
  ASSUME NEW o \in Owner, IInv, Drop(o)
  PROVE  IInv'
<1>. USE LibConstantsOK DEF IInv, Rec, Pid, Goto, Inside, Fresh, Launching,
   Spawning, Ending, Holding, libVars, procVars, callerVars, daemonVars, histVars, Drop, Live
<1>1. Types'
  BY DEF Types
<1>2. Locked'
  BY DEF Types, Locked
<1>3. Children'
  BY DEF Types, Locked, Children
<1>4. Records'
  BY DEF Types, Children, Records
<1>5. Cgroup'
  BY SMTT(30) DEF Types, Locked, Children, Cgroup
<1>6. CgroupOwned'
  BY DEF Types, Locked, CgroupOwned
<1>7. LsmNoted'
  BY DEF Types, Children, LsmNoted
<1>8. LsmKept'
  BY DEF Types, Locked, LsmKept
<1>9. Cleared'
  BY DEF Types, Children, Cleared
<1>10. Gone'
  BY DEF Types, Children, Gone
<1>. QED
  BY <1>1, <1>2, <1>3, <1>4, <1>5, <1>6, <1>7, <1>8, <1>9, <1>10

\* Only the owner's child is reaped, and leaves the cgroup.
LEMMA WaitpidKeeps ==
  ASSUME NEW o \in Owner, IInv, Waitpid(o)
  PROVE  IInv'
<1>. USE LibConstantsOK DEF IInv, Rec, Pid, Goto, Inside, Fresh, Launching,
   Spawning, Ending, Holding, libVars, procVars, callerVars, daemonVars, histVars, Waitpid
<1>1. Types'
  BY DEF Types
<1>2. Locked'
  BY DEF Types, Locked
<1>3. Children'
  BY DEF Types, Locked, Children
<1>4. Records'
  BY DEF Types, Children, Records
<1>5. Cgroup'
  <2>1. (limited \subseteq {cgdir})'
    BY DEF Types, Locked, Children, Cgroup
  <2>2. (\A p \in limited : p <= spawned /\ proc[p] # "reaped")'
    BY DEF Types, Locked, Children, Cgroup
  <2>3. (\A s \in Slots : recs[s].have_cg => cgdir = recs[s].pid)'
    BY DEF Types, Locked, Children, Cgroup
  <2>4. (\A s \in Slots : recs[s].have_cg /\ proc[recs[s].pid] # "reaped" => recs[s].pid \in limited)'
    BY DEF Types, Locked, Children, Cgroup
  <2>5. (\A u \in Owner : at[u] = "config" => ~g.have_cg)'
    BY DEF Types, Locked, Children, Cgroup
  <2>6. (\A u \in Owner : at[u] = "clone" /\ g.have_cg => cgdir = spawned + 1)'
    BY DEF Types, Locked, Children, Cgroup
  <2>7. (\A u \in Owner : at[u] \in Launching /\ g.have_cg => cgdir = spawned)'
    BY DEF Types, Locked, Children, Cgroup
  <2>8. (\A u \in Owner : at[u] \in Launching \ {"maps"} /\ g.have_cg => spawned \in limited)'
    BY DEF Types, Locked, Children, Cgroup
  <2>9. (\A u \in Owner : at[u] = "maps" => spawned \notin limited)'
    BY DEF Types, Locked, Children, Cgroup
  <2>. QED
    BY <2>1, <2>2, <2>3, <2>4, <2>5, <2>6, <2>7, <2>8, <2>9 DEF Cgroup
<1>6. CgroupOwned'
  BY DEF Types, Locked, CgroupOwned
<1>7. LsmNoted'
  BY DEF Types, Children, LsmNoted
<1>8. LsmKept'
  BY DEF Types, Locked, LsmKept
<1>9. Cleared'
  BY DEF Types, Children, Cleared
<1>10. Gone'
  BY DEF Types, Children, Gone
<1>. QED
  BY <1>1, <1>2, <1>3, <1>4, <1>5, <1>6, <1>7, <1>8, <1>9, <1>10

\* A child somebody else reaped leaves the cgroup too.
LEMMA HostReapsKeeps ==
  ASSUME NEW q \in Pid, IInv, HostReaps(q)
  PROVE  IInv'
<1>. USE LibConstantsOK DEF IInv, Rec, Pid, Goto, Inside, Fresh, Launching,
   Spawning, Ending, Holding, libVars, procVars, callerVars, daemonVars, histVars, HostReaps
<1>1. Types'
  BY DEF Types
<1>2. Locked'
  BY DEF Types, Locked
<1>3. Children'
  BY DEF Types, Locked, Children
<1>4. Records'
  BY DEF Types, Children, Records
<1>5. Cgroup'
  <2>1. (limited \subseteq {cgdir})'
    BY DEF Types, Locked, Children, Cgroup
  <2>2. (\A p \in limited : p <= spawned /\ proc[p] # "reaped")'
    BY DEF Types, Locked, Children, Cgroup
  <2>3. (\A s \in Slots : recs[s].have_cg => cgdir = recs[s].pid)'
    BY DEF Types, Locked, Children, Cgroup
  <2>4. (\A s \in Slots : recs[s].have_cg /\ proc[recs[s].pid] # "reaped" => recs[s].pid \in limited)'
    BY DEF Types, Locked, Children, Cgroup
  <2>5. (\A u \in Owner : at[u] = "config" => ~g.have_cg)'
    BY DEF Types, Locked, Children, Cgroup
  <2>6. (\A u \in Owner : at[u] = "clone" /\ g.have_cg => cgdir = spawned + 1)'
    BY DEF Types, Locked, Children, Cgroup
  <2>7. (\A u \in Owner : at[u] \in Launching /\ g.have_cg => cgdir = spawned)'
    BY DEF Types, Locked, Children, Cgroup
  <2>8. (\A u \in Owner : at[u] \in Launching \ {"maps"} /\ g.have_cg => spawned \in limited)'
    BY DEF Types, Locked, Children, Cgroup
  <2>9. (\A u \in Owner : at[u] = "maps" => spawned \notin limited)'
    BY DEF Types, Locked, Children, Cgroup
  <2>. QED
    BY <2>1, <2>2, <2>3, <2>4, <2>5, <2>6, <2>7, <2>8, <2>9 DEF Cgroup
<1>6. CgroupOwned'
  BY DEF Types, Locked, CgroupOwned
<1>7. LsmNoted'
  BY DEF Types, Children, LsmNoted
<1>8. LsmKept'
  BY DEF Types, Locked, LsmKept
<1>9. Cleared'
  BY DEF Types, Children, Cleared
<1>10. Gone'
  BY DEF Types, Children, Gone
<1>. QED
  BY <1>1, <1>2, <1>3, <1>4, <1>5, <1>6, <1>7, <1>8, <1>9, <1>10

\* A wait that fails leaves the record; a drop gives up the Child besides.
LEMMA WaitpidFailsKeeps ==
  ASSUME NEW o \in Owner, IInv, WaitpidFails(o)
  PROVE  IInv'
<1>. USE LibConstantsOK DEF IInv, Rec, Pid, Goto, Inside, Fresh, Launching,
   Spawning, Ending, Holding, libVars, procVars, callerVars, daemonVars, histVars,
   WaitpidFails
<1>a. /\ at[o] \in {"waitpid", "dropped"} /\ proc[child[o]] = "reaped"
      /\ UNCHANGED <<lock, g, recs, spawned, proc, limited, cgdir, lsm, veth, daemon,
                     armed, released, missed>>
  OBVIOUS
<1>b. \/ at' = [at EXCEPT ![o] = "have"] /\ child' = child
      \/ at' = [at EXCEPT ![o] = "idle"] /\ child' = [child EXCEPT ![o] = 0]
  OBVIOUS
<1>. HIDE DEF WaitpidFails
<1>c. \A r \in Owner \ {o} : at'[r] = at[r] /\ child'[r] = child[r]
  BY <1>b DEF Types
<1>d. \/ at'[o] = "have" /\ child'[o] = child[o]
      \/ at'[o] = "idle" /\ child'[o] = 0
  BY <1>b DEF Types
<1>1. Types'
  <2>1. child' \in [Owner -> Nat]
    BY <1>b DEF Types
  <2>2. at' \in [Owner -> {"idle", "release"} \cup Spawning \cup Ending \cup Holding]
    BY <1>b DEF Types
  <2>. QED
    BY <1>a, <2>1, <2>2 DEF Types
<1>2. Locked'
  BY <1>a, <1>c, <1>d DEF Locked
<1>3. Children'
  <2>a. child[o] # 0
    BY <1>a DEF Children
  <2>1. (\A u \in Owner : child[u] # 0 <=> at[u] \in Holding \cup Ending \cup {"release"})'
    BY <1>c, <1>d, <2>a DEF Children
  <2>2. (\A u, v \in Owner : child[u] = child[v] /\ child[u] # 0 => u = v)'
    BY <1>c, <1>d DEF Children
  <2>3. (\A u \in Owner : child[u] <= spawned)'
    BY <1>a, <1>c, <1>d DEF Types, Children
  <2>4. (\A u \in Owner : at[u] \in Holding => proc[child[u]] \notin {"none", "parked"})'
    BY <1>a, <1>c, <1>d DEF Children
  <2>5. (\A u \in Owner : at[u] \in Ending \cup {"release"} => proc[child[u]] = "reaped")'
    BY <1>a, <1>c, <1>d DEF Children
  <2>6. (\A p \in Pid : p > spawned => proc[p] = "none")'
    BY <1>a DEF Children
  <2>7. (\A u, v \in Owner : at[u] \in Launching => child[v] # spawned)'
    BY <1>a, <1>c, <1>d DEF Children
  <2>8. (\A u \in Owner : at[u] \in Launching => spawned # 0 /\ proc[spawned] = "parked")'
    BY <1>a, <1>c, <1>d DEF Children
  <2>9. (\A u \in Owner : at[u] \in {"config", "clone"} => spawned < MaxPid)'
    BY <1>a, <1>c, <1>d DEF Children
  <2>. QED
    BY <2>1, <2>2, <2>3, <2>4, <2>5, <2>6, <2>7, <2>8, <2>9 DEF Children
<1>4. Records'
  BY <1>a, <1>c, <1>d DEF Records
<1>5. Cgroup'
  <2>1. Calm
    BY <1>c, <1>d DEF Calm
  <2>. QED
    BY <1>a, <2>1, CgroupFrame
<1>6. CgroupOwned'
  <2>1. \A r \in Owner : at[r] \in Spawning => at'[r] = at[r]
    BY <1>a, <1>c
  <2>. QED
    BY <1>a, <2>1 DEF CgroupOwned
<1>7. LsmNoted'
  BY <1>a, <1>c, <1>d DEF LsmNoted
<1>8. LsmKept'
  BY <1>a, <1>c, <1>d DEF LsmKept
<1>9. Cleared'
  BY <1>a, <1>c, <1>d DEF Cleared
<1>10. Gone'
  BY <1>a, <1>c, <1>d DEF Gone
<1>. QED
  BY <1>1, <1>2, <1>3, <1>4, <1>5, <1>6, <1>7, <1>8, <1>9, <1>10

\* A release takes the lock over a reaped child.
LEMMA ReleaseBeginKeeps ==
  ASSUME NEW o \in Owner, IInv, ReleaseBegin(o)
  PROVE  IInv'
<1>. USE LibConstantsOK DEF IInv, Rec, Pid, Goto, Inside, Fresh, Launching,
   Spawning, Ending, Holding, libVars, procVars, callerVars, daemonVars, histVars, ReleaseBegin
<1>1. Types'
  BY DEF Types
<1>2. Locked'
  BY DEF Types, Locked
<1>3. Children'
  BY DEF Types, Locked, Children
<1>4. Records'
  <2>1. Calm
    BY DEF Types, Calm
  <2>. QED
    BY <2>1, RecordsFrame
<1>5. Cgroup'
  <2>1. Calm
    BY DEF Types, Calm
  <2>. QED
    BY <2>1, CgroupFrame
<1>6. CgroupOwned'
  BY DEF Types, Locked, CgroupOwned
<1>7. LsmNoted'
  BY DEF Types, Children, LsmNoted
<1>8. LsmKept'
  BY DEF Types, Locked, LsmKept
<1>9. Cleared'
  BY DEF Types, Children, Cleared
<1>10. Gone'
  BY DEF Types, Children, Gone
<1>. QED
  BY <1>1, <1>2, <1>3, <1>4, <1>5, <1>6, <1>7, <1>8, <1>9, <1>10

\* Only the owner's veth goes.
LEMMA NetDownKeeps ==
  ASSUME NEW o \in Owner, IInv, NetDown(o)
  PROVE  IInv'
<1>. USE LibConstantsOK DEF IInv, Rec, Pid, Goto, Inside, Fresh, Launching,
   Spawning, Ending, Holding, libVars, procVars, callerVars, daemonVars, histVars, NetDown,
   Request
<1>1. Types'
  BY DEF Types
<1>2. Locked'
  BY DEF Types, Locked
<1>3. Children'
  BY DEF Types, Locked, Children
<1>4. Records'
  <2>1. Calm
    BY DEF Types, Calm
  <2>. QED
    BY <2>1, RecordsFrame
<1>5. Cgroup'
  <2>1. Calm
    BY DEF Types, Calm
  <2>. QED
    BY <2>1, CgroupFrame
<1>6. CgroupOwned'
  BY DEF Types, Locked, CgroupOwned
<1>7. LsmNoted'
  <2>1. lsm' = lsm /\ UNCHANGED <<recs, spawned, g>>
    OBVIOUS
  <2>2. \A r \in Owner : at'[r] \notin {"maps", "lsm", "veth", "sync"}
    BY DEF Types, Locked
  <2>. HIDE DEF NetDown
  <2>. QED
    BY <2>1, <2>2 DEF LsmNoted
<1>8. LsmKept'
  BY DEF Types, Locked, LsmKept
<1>9. Cleared'
  <2>1. \A r \in Owner \ {o} : at'[r] \notin {"clr", "rmdir"}
    BY DEF Types, Locked
  <2>2. child' = child /\ at'[o] = "clr" /\ (child[o] \notin missed' => child[o] \notin veth')
    BY DEF Types
  <2>. QED
    BY <2>1, <2>2 DEF Cleared
<1>10. Gone'
  <2>1. lsm' \subseteq lsm /\ veth' \subseteq veth /\ missed \subseteq missed'
    OBVIOUS
  <2>2. UNCHANGED <<child, recs, spawned, proc, cgdir, released>>
    OBVIOUS
  <2>. HIDE DEF NetDown
  <2>. QED
    BY <2>1, <2>2 DEF Gone
<1>. QED
  BY <1>1, <1>2, <1>3, <1>4, <1>5, <1>6, <1>7, <1>8, <1>9, <1>10

\* Only the cgid in the owner's record is cleared.
LEMMA ClrKeeps ==
  ASSUME NEW o \in Owner, IInv, Clr(o)
  PROVE  IInv'
<1>. USE LibConstantsOK DEF IInv, Rec, Pid, Goto, Inside, Fresh, Launching,
   Spawning, Ending, Holding, libVars, procVars, callerVars, daemonVars, histVars, Clr,
   RecOf, RecCgid, Request
<1>1. Types'
  BY DEF Types
<1>2. Locked'
  BY DEF Types, Locked
<1>3. Children'
  BY DEF Types, Locked, Children
<1>4. Records'
  <2>1. Calm
    BY DEF Types, Calm
  <2>. QED
    BY <2>1, RecordsFrame
<1>5. Cgroup'
  <2>1. Calm
    BY DEF Types, Calm
  <2>. QED
    BY <2>1, CgroupFrame
<1>6. CgroupOwned'
  BY DEF Types, Locked, CgroupOwned
<1>7. LsmNoted'
  <2>1. lsm' \subseteq lsm /\ \A r \in Owner : at'[r] \notin {"maps", "lsm", "veth", "sync"}
    BY DEF Types, Locked
  <2>. QED
    BY <2>1 DEF LsmNoted
<1>8. LsmKept'
  <2>1. recs[RecOf(child[o])].cgid \in {0, child[o]}
    BY DEF Children, Records
  <2>2. proc[child[o]] = "reaped" /\ \A r \in Owner : at'[r] \notin {"veth", "sync"}
    BY DEF Types, Locked, Children
  <2>3. lsm' = lsm \/ lsm' = lsm \ {recs[RecOf(child[o])].cgid}
    OBVIOUS
  <2>4. \A q \in armed : proc[q] # "reaped" => q \in lsm /\ q \in 1 .. spawned
    BY DEF LsmKept
  <2>. QED
    BY <2>1, <2>2, <2>3, <2>4 DEF LsmKept
<1>9. Cleared'
  <2>1. \A r \in Owner \ {o} : at'[r] \notin {"clr", "rmdir"}
    BY DEF Types, Locked
  <2>2. child[o] # 0 /\ \E s \in Slots : recs[s].pid = child[o]
    BY DEF Types, Children, Records
  <2>3. child[o] \in lsm => RecCgid(o) = child[o]
    BY <2>2 DEF LsmNoted
  <2>4. child' = child /\ veth' = veth /\ (child[o] \notin missed => child[o] \notin veth)
    BY DEF Cleared
  <2>5. \/ missed' = missed /\ lsm' = lsm \ {RecCgid(o)}
        \/ missed' = missed /\ RecCgid(o) = 0 /\ lsm' = lsm
        \/ missed' = missed \cup {child[o]}
    <3>. HIDE DEF RecCgid
    <3>. QED
      OBVIOUS
  <2>. HIDE DEF Clr, RecCgid, Request
  <2>6. missed' = missed \/ missed' = missed \cup {child[o]}
    BY <2>5
  <2>7. child[o] \notin missed' => child[o] \notin lsm'
    BY <2>2, <2>3, <2>5
  <2>8. child[o] \notin missed' => child[o] \notin veth'
    BY <2>4, <2>6
  <2>. QED
    BY <2>1, <2>4, <2>7, <2>8 DEF Cleared
<1>10. Gone'
  <2>1. lsm' \subseteq lsm /\ veth' \subseteq veth /\ missed \subseteq missed'
    OBVIOUS
  <2>2. UNCHANGED <<child, recs, spawned, proc, cgdir, released>>
    OBVIOUS
  <2>. HIDE DEF Clr
  <2>. QED
    BY <2>1, <2>2 DEF Gone
<1>. QED
  BY <1>1, <1>2, <1>3, <1>4, <1>5, <1>6, <1>7, <1>8, <1>9, <1>10

\* The directory goes only with the record that owns it.
LEMMA RmCgroupKeeps ==
  ASSUME NEW o \in Owner, IInv, RmCgroup(o)
  PROVE  IInv'
<1>. USE LibConstantsOK DEF IInv, Rec, Pid, Goto, Inside, Fresh, Launching,
   Spawning, Ending, Holding, libVars, procVars, callerVars, daemonVars, histVars, RmCgroup,
   RecOf, Rmdir, Free, Live
<1>. DEFINE s0 == RecOf(child[o])
<1>a. s0 \in Slots /\ recs[s0].pid = child[o] /\ child[o] # 0
  BY DEF Types, Children, Records
<1>b. recs' = [recs EXCEPT ![s0] = Free]
  OBVIOUS
<1>. HIDE DEF s0
<1>c. \A s \in Slots : s # s0 => recs'[s] = recs[s] /\ recs[s].pid # child[o]
  BY <1>a, <1>b DEF Types, Records
<1>d. recs'[s0].pid = 0 /\ ~recs'[s0].have_cg /\ recs'[s0].cgid = 0
  BY <1>a, <1>b DEF Types
<1>e. /\ lock = o /\ child'[o] = 0 /\ at'[o] = "idle"
      /\ \A r \in Owner \ {o} : child'[r] = child[r] /\ at'[r] = at[r]
  BY DEF Types, Locked
<1>f. /\ recs[s0].have_cg => cgdir' = IF limited \cap Live = {} THEN 0 ELSE cgdir
      /\ ~recs[s0].have_cg => cgdir' = cgdir
  BY DEF s0
<1>g. /\ at[o] = "rmdir" /\ lock' = "free" /\ g' = g /\ spawned' = spawned /\ proc' = proc
      /\ limited' = limited /\ lsm' = lsm /\ veth' = veth /\ daemon' = daemon /\ armed' = armed
      /\ missed' = missed /\ released' = released \cup {child[o]}
  OBVIOUS
<1>h. proc[child[o]] = "reaped"
  BY DEF Children
<1>1. Types'
  <2>1. Free \in Rec
    OBVIOUS
  <2>2. recs' \in [Slots -> Rec]
    BY <2>1 DEF Types
  <2>3. cgdir' \in Nat
    BY DEF Types
  <2>. QED
    BY <2>1, <2>2, <2>3 DEF Types
<1>. HIDE DEF RmCgroup, RecOf, Rmdir, Free, Goto, libVars, procVars, callerVars, daemonVars
<1>2. Locked'
  BY <1>e, <1>g DEF Locked
<1>3. Children'
  <2>1. (\A u \in Owner : child[u] # 0 <=> at[u] \in Holding \cup Ending \cup {"release"})'
    BY <1>e DEF Children
  <2>2. (\A u, v \in Owner : child[u] = child[v] /\ child[u] # 0 => u = v)'
    BY <1>e DEF Children
  <2>3. (\A u \in Owner : child[u] <= spawned)'
    BY <1>e, <1>g DEF Types, Children
  <2>4. (\A u \in Owner : at[u] \in Holding => proc[child[u]] \notin {"none", "parked"})'
    BY <1>e, <1>g DEF Types, Children
  <2>5. (\A u \in Owner : at[u] \in Ending \cup {"release"} => proc[child[u]] = "reaped")'
    BY <1>e, <1>g DEF Types, Children
  <2>6. (\A p \in Pid : p > spawned => proc[p] = "none")'
    BY <1>e, <1>g DEF Types, Children
  <2>7. (\A u, v \in Owner : at[u] \in Launching => child[v] # spawned)'
    BY <1>e, <1>g DEF Types, Children
  <2>8. (\A u \in Owner : at[u] \in Launching => spawned # 0 /\ proc[spawned] = "parked")'
    BY <1>e, <1>g DEF Types, Children
  <2>9. (\A u \in Owner : at[u] \in {"config", "clone"} => spawned < MaxPid)'
    BY <1>e, <1>g DEF Types, Children
  <2>. QED
    BY <2>1, <2>2, <2>3, <2>4, <2>5, <2>6, <2>7, <2>8, <2>9 DEF Children
<1>4. Records'
  <2>a. (\A s \in Slots : recs[s].pid <= spawned)'
    BY <1>c, <1>d, <1>g DEF Types, Records
  <2>1. (\A s \in Slots : recs[s].pid # 0 => proc[recs[s].pid] \notin {"none", "parked"})'
    BY <1>c, <1>d, <1>g DEF Records
  <2>2. (\A s, r \in Slots : recs[s].pid = recs[r].pid /\ recs[s].pid # 0 => s = r)'
    BY <1>c, <1>d DEF Records
  <2>3. (\A u \in Owner : child[u] # 0 => \E s \in Slots : recs[s].pid = child[u])'
    <3>1. SUFFICES ASSUME NEW r \in Owner, child'[r] # 0
                   PROVE  \E s \in Slots : recs'[s].pid = child'[r]
      OBVIOUS
    <3>2. r # o /\ child'[r] = child[r]
      BY <1>e, <3>1
    <3>3. child[r] # child[o]
      BY <1>a, <3>1, <3>2 DEF Children
    <3>4. PICK s \in Slots : recs[s].pid = child[r]
      BY <3>1, <3>2 DEF Records
    <3>. QED
      BY <1>a, <1>c, <3>2, <3>3, <3>4
  <2>4. (\A s \in Slots : recs[s].cgid \in {0, recs[s].pid})'
    BY <1>c, <1>d DEF Records
  <2>5. (\A s \in Slots : recs[s].pid = 0 => ~recs[s].have_cg)'
    BY <1>c, <1>d DEF Records
  <2>6. (\A u \in Owner : at[u] \in Spawning => \E s \in Slots : recs[s].pid = 0)'
    BY <1>a, <1>d
  <2>. QED
    BY <2>a, <2>1, <2>2, <2>3, <2>4, <2>5, <2>6 DEF Records
<1>5. Cgroup'
  <2>a. recs[s0].have_cg => cgdir = child[o] /\ limited = {}
    BY <1>a, <1>h DEF Cgroup
  <2>b. \A s \in Slots : recs'[s].have_cg => recs'[s] = recs[s] /\ cgdir' = cgdir
    BY <1>a, <1>c, <1>d, <1>f, <2>a DEF Cgroup
  <2>c. \A r \in Owner : at'[r] \notin Spawning
    BY <1>e DEF Locked
  <2>d. limited = {} \/ cgdir' = cgdir
    BY <1>f, <2>a
  <2>1. (limited \subseteq {cgdir})'
    BY <1>g, <2>d DEF Cgroup
  <2>2. (\A p \in limited : p <= spawned /\ proc[p] # "reaped")'
    BY <1>g, <2>d DEF Cgroup
  <2>3. (\A s \in Slots : recs[s].have_cg => cgdir = recs[s].pid)'
    BY <1>g, <2>b DEF Cgroup
  <2>4. (\A s \in Slots : recs[s].have_cg /\ proc[recs[s].pid] # "reaped" => recs[s].pid \in limited)'
    BY <1>g, <2>b DEF Cgroup
  <2>5. (\A u \in Owner : at[u] = "config" => ~g.have_cg)'
    BY <1>g, <2>c DEF Cgroup
  <2>6. (\A u \in Owner : at[u] = "clone" /\ g.have_cg => cgdir = spawned + 1)'
    BY <1>g, <2>c DEF Cgroup
  <2>7. (\A u \in Owner : at[u] \in Launching /\ g.have_cg => cgdir = spawned)'
    BY <1>g, <2>c DEF Cgroup
  <2>8. (\A u \in Owner : at[u] \in Launching \ {"maps"} /\ g.have_cg => spawned \in limited)'
    BY <1>g, <2>c DEF Cgroup
  <2>9. (\A u \in Owner : at[u] = "maps" => spawned \notin limited)'
    BY <1>g, <2>c DEF Cgroup
  <2>. QED
    BY <2>1, <2>2, <2>3, <2>4, <2>5, <2>6, <2>7, <2>8, <2>9 DEF Cgroup
<1>6. CgroupOwned'
  <2>1. recs[s0].have_cg => cgdir' = 0
    <3>1. recs[s0].have_cg => limited = {}
      BY <1>a, <1>h DEF Cgroup
    <3>. QED
      BY <3>1, <1>f
  <2>. QED
    BY <1>a, <1>c, <1>e, <1>f, <1>g, <2>1 DEF CgroupOwned
<1>7. LsmNoted'
  <2>1. \A r \in Owner : at'[r] \notin {"maps", "lsm", "veth", "sync"}
    BY <1>e DEF Locked
  <2>2. 0 \notin lsm
    BY DEF LsmNoted
  <2>. QED
    BY <1>c, <1>d, <1>g, <2>1, <2>2 DEF LsmNoted
<1>8. LsmKept'
  <2>1. \A r \in Owner : at'[r] \notin {"veth", "sync"}
    BY <1>e DEF Locked
  <2>. QED
    BY <1>g, <2>1 DEF LsmKept
<1>9. Cleared'
  <2>1. \A r \in Owner : at'[r] \notin {"clr", "rmdir"}
    BY <1>e DEF Locked
  <2>. QED
    BY <2>1 DEF Cleared
<1>10. Gone'
  <2>1. child[o] \in 1 .. spawned
    BY <1>a DEF Types, Children
  <2>2. ASSUME NEW r \in Owner
        PROVE  child'[r] # child[o]
    <3>1. CASE r = o
      BY <1>a, <1>e, <3>1
    <3>2. CASE r # o
      BY <1>a, <1>e, <3>2 DEF Children
    <3>. QED
      BY <3>1, <3>2
  <2>3. \A s \in Slots : recs'[s].pid # child[o]
    BY <1>a, <1>c, <1>d
  <2>4. cgdir' # child[o]
    <3>1. recs[s0].have_cg => limited = {}
      BY <1>a, <1>h DEF Cgroup
    <3>2. ~recs[s0].have_cg => cgdir # child[o]
      BY <1>a, <1>c, <1>e, <1>g DEF Cgroup, CgroupOwned
    <3>. QED
      BY <1>a, <1>f, <3>1, <3>2
  <2>5. child[o] \notin missed => child[o] \notin veth /\ child[o] \notin lsm
    BY <1>g DEF Cleared
  <2>6. ASSUME NEW p \in released
        PROVE  /\ \A r \in Owner : child'[r] # p
               /\ \A s \in Slots : recs'[s].pid # p
               /\ cgdir' # p
    <3>1. p # 0 /\ \A r \in Owner : child[r] # p
      BY DEF Gone
    <3>2. \A s \in Slots : recs[s].pid # p
      BY DEF Gone
    <3>3. cgdir # p /\ cgdir' \in {0, cgdir}
      BY <1>f DEF Gone
    <3>. QED
      BY <1>c, <1>d, <1>e, <3>1, <3>2, <3>3
  <2>. QED
    BY <1>g, <1>h, <2>1, <2>2, <2>3, <2>4, <2>5, <2>6 DEF Gone
<1>. QED
  BY <1>1, <1>2, <1>3, <1>4, <1>5, <1>6, <1>7, <1>8, <1>9, <1>10
-----------------------------------------------------------------------------
\* Every step of an owner's thread, of a payload or of the daemon keeps it.
LEMMA IInvNext == IInv /\ [Next]_vars => IInv'
<1>. SUFFICES ASSUME IInv, [Next]_vars PROVE IInv'
  OBVIOUS
<1>1. ASSUME NEW o \in Owner, SpawnBegin(o) \/ Spawn(o)
      PROVE  IInv'
  BY <1>1, SpawnBeginKeeps, ConfigKeeps, ConfigDiesKeeps, CloneKeeps, CloneDiesKeeps,
     WriteUidMapsKeeps, WriteUidMapsDiesKeeps, LsmRegisterKeeps, VethRegisterKeeps,
     SyncKeeps DEF Spawn
<1>2. ASSUME NEW o \in Owner, Wait(o) \/ Drop(o) \/ Release(o)
      PROVE  IInv'
  BY <1>2, WaitKeeps, DropKeeps, WaitpidKeeps, WaitpidFailsKeeps, ReleaseBeginKeeps, NetDownKeeps,
     ClrKeeps, RmCgroupKeeps DEF Release
<1>3. ASSUME NEW p \in Pid, Child(p) \/ HostReaps(p)
      PROVE  IInv'
  BY <1>3, ChildKeeps, HostReapsKeeps
<1>4. CASE DaemonDies \/ DaemonStops \/ DaemonStarts
  BY <1>4, DaemonDiesKeeps, DaemonStopsKeeps, DaemonStartsKeeps
<1>5. CASE UNCHANGED vars
  BY <1>5, IInvIdle
<1>. QED
  BY <1>1, <1>2, <1>3, <1>4, <1>5 DEF Next

\* The invariant holds in every reachable state.
LEMMA IInvAlways == Spec => []IInv
BY IInvInit, IInvNext, PTL DEF Spec

\* After agentcell_release nothing of the cell is left in the process, and at
\* the host only what a request that was lost or a daemon that died has left,
\* for any number of cells the process spawns and releases in between.
THEOREM ReleasedIsGoneAlways == Spec => []ReleasedIsGone
<1>1. IInv => ReleasedIsGone
  BY DEF IInv, Gone, ReleasedIsGone
<1>. QED
  BY <1>1, IInvAlways, PTL

\* A live cell keeps its record, cgroup and registration through every other
\* spawn and release of the process (the records of agentcell_spawn).
THEOREM KeepsItsOwnAlways == Spec => []KeepsItsOwn
<1>1. IInv => KeepsItsOwn
  <2>. SUFFICES ASSUME IInv, NEW o \in Owner, child[o] # 0
                PROVE  \E s \in Slots :
                         /\ recs[s].pid = child[o]
                         /\ \A r \in Slots \ {s} : recs[r].pid # child[o]
                         /\ child[o] \in Live =>
                              /\ recs[s].have_cg => cgdir = child[o] /\ child[o] \in limited
                              /\ child[o] \in armed => child[o] \in lsm
    BY DEF KeepsItsOwn
  <2>. USE DEF IInv
  <2>1. PICK s \in Slots : recs[s].pid = child[o]
    BY DEF Records
  <2>2. \A r \in Slots \ {s} : recs[r].pid # child[o]
    BY <2>1 DEF Records
  <2>3. ASSUME child[o] \in Live, recs[s].have_cg
        PROVE  cgdir = child[o] /\ child[o] \in limited
    BY <2>1, <2>3 DEF Cgroup, Live
  <2>4. ASSUME child[o] \in Live, child[o] \in armed
        PROVE  child[o] \in lsm
    BY <2>4 DEF LsmKept, Live
  <2>. QED
    BY <2>1, <2>2, <2>3, <2>4
<1>. QED
  BY <1>1, IInvAlways, PTL
=============================================================================
