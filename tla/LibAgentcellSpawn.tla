------------------------- MODULE LibAgentcellSpawn --------------------------
(***************************************************************************)
(* The steps of agentcell_spawn keep IInv, those that fail included.       *)
(***************************************************************************)
EXTENDS LibAgentcellInv

\* agentcell_spawn takes the lock and resets the globals.
LEMMA SpawnBeginKeeps ==
  ASSUME NEW o \in Owner, IInv, SpawnBegin(o)
  PROVE  IInv'
<1>. USE LibConstantsOK DEF IInv, Rec, Pid, Goto, Inside, Fresh, Launching,
   Spawning, Ending, Holding, libVars, procVars, callerVars, daemonVars, histVars, SpawnBegin
<1>1. Types'
  <2>1. Fresh \in [have_cg : BOOLEAN, cgid : Nat]
    OBVIOUS
  <2>2. g' = g \/ g' = Fresh
    OBVIOUS
  <2>3. g' \in [have_cg : BOOLEAN, cgid : Nat]
    <3>. HIDE DEF Fresh
    <3>. QED
      BY <2>1, <2>2 DEF Types
  <2>. QED
    BY <2>1, <2>2, <2>3 DEF Types
<1>2. Locked'
  BY DEF Types, Locked
<1>3. Children'
  <2>1. (\A u \in Owner : child[u] # 0 <=> at[u] \in Holding \cup Ending \cup {"release"})'
    <3>1. child' = child /\ at[o] = "idle" /\ at'[o] \in {"idle", "config"}
      BY DEF Types
    <3>2. \A u \in Owner \ {o} : at'[u] = at[u]
      BY DEF Types
    <3>. HIDE DEF SpawnBegin
    <3>. QED
      BY <3>1, <3>2 DEF Children
  <2>2. (\A u, v \in Owner : child[u] = child[v] /\ child[u] # 0 => u = v)'
    BY DEF Types, Locked, Children
  <2>3. (\A u \in Owner : child[u] <= spawned)'
    BY DEF Types, Locked, Children
  <2>4. (\A u \in Owner : at[u] \in Holding => proc[child[u]] \notin {"none", "parked"})'
    BY DEF Types, Locked, Children
  <2>5. (\A u \in Owner : at[u] \in Ending \cup {"release"} => proc[child[u]] = "reaped")'
    BY DEF Types, Locked, Children
  <2>6. (\A p \in Pid : p > spawned => proc[p] = "none")'
    BY DEF Types, Locked, Children
  <2>7. (\A u, v \in Owner : at[u] \in Launching => child[v] # spawned)'
    BY DEF Types, Locked, Children
  <2>8. (\A u \in Owner : at[u] \in Launching => spawned # 0 /\ proc[spawned] = "parked")'
    BY DEF Types, Locked, Children
  <2>9. (\A u \in Owner : at[u] \in {"config", "clone"} => spawned < MaxPid)'
    BY DEF Types, Locked, Children
  <2>. QED
    BY <2>1, <2>2, <2>3, <2>4, <2>5, <2>6, <2>7, <2>8, <2>9 DEF Children
<1>4. Records'
  BY DEF Types, Children, Records
<1>5. Cgroup'
  BY DEF Types, Locked, Children, Cgroup
<1>6. CgroupOwned'
  BY DEF Types, Locked, CgroupOwned
<1>7. LsmNoted'
  <2>1. \A r \in Owner : at'[r] \notin {"maps", "lsm", "veth", "sync"}
    BY DEF Types, Locked
  <2>2. lsm' = lsm /\ recs' = recs /\ spawned' = spawned
    OBVIOUS
  <2>. HIDE DEF SpawnBegin
  <2>. QED
    BY <2>1, <2>2 DEF LsmNoted
<1>8. LsmKept'
  BY DEF Types, Locked, LsmKept
<1>9. Cleared'
  BY DEF Types, Children, Cleared
<1>10. Gone'
  BY DEF Types, Children, Gone
<1>. QED
  BY <1>1, <1>2, <1>3, <1>4, <1>5, <1>6, <1>7, <1>8, <1>9, <1>10

\* A die before the clone returns to the caller.
LEMMA ConfigDiesKeeps ==
  ASSUME NEW o \in Owner, IInv, ConfigDies(o)
  PROVE  IInv'
<1>. USE LibConstantsOK DEF IInv, Rec, Pid, Goto, Inside, Fresh, Launching,
   Spawning, Ending, Holding, libVars, procVars, callerVars, daemonVars, histVars, ConfigDies,
   Failed, Rmdir
<1>1. Types'
  BY DEF Types
<1>2. Locked'
  BY DEF Types, Locked
<1>3. Children'
  BY DEF Types, Locked, Children
<1>4. Records'
  BY DEF Types, Children, Records
<1>5. Cgroup'
  BY DEF Types, Locked, Children, Cgroup
<1>6. CgroupOwned'
  BY DEF Types, Locked, Cgroup, CgroupOwned
<1>7. LsmNoted'
  BY DEF Types, Children, LsmNoted
<1>8. LsmKept'
  BY DEF Types, Locked, LsmKept
<1>9. Cleared'
  BY DEF Types, Children, Cleared
<1>10. Gone'
  BY DEF Types, Children, Gone
<1>. QED
  BY <1>1, <1>2, <1>3, <1>4, <1>5, <1>6, <1>7, <1>8, <1>9, <1>10

\* cgroup_setup may make the directory, for the coming child only.
LEMMA ConfigKeeps ==
  ASSUME NEW o \in Owner, IInv, Config(o)
  PROVE  IInv'
<1>. USE LibConstantsOK DEF IInv, Rec, Pid, Goto, Inside, Fresh, Launching,
   Spawning, Ending, Holding, libVars, procVars, callerVars, daemonVars, histVars, Config
<1>1. Types'
  <2>1. PICK made \in BOOLEAN : g' = [g EXCEPT !.have_cg = made]
    OBVIOUS
  <2>2. g' \in [have_cg : BOOLEAN, cgid : Nat]
    BY <2>1 DEF Types
  <2>. QED
    BY <2>1, <2>2 DEF Types
<1>2. Locked'
  BY DEF Types, Locked
<1>3. Children'
  <2>1. (\A u \in Owner : child[u] # 0 <=> at[u] \in Holding \cup Ending \cup {"release"})'
    BY DEF Types, Locked, Children
  <2>2. (\A u, v \in Owner : child[u] = child[v] /\ child[u] # 0 => u = v)'
    BY DEF Types, Locked, Children
  <2>3. (\A u \in Owner : child[u] <= spawned)'
    BY DEF Types, Locked, Children
  <2>4. (\A u \in Owner : at[u] \in Holding => proc[child[u]] \notin {"none", "parked"})'
    BY DEF Types, Locked, Children
  <2>5. (\A u \in Owner : at[u] \in Ending \cup {"release"} => proc[child[u]] = "reaped")'
    BY DEF Types, Locked, Children
  <2>6. (\A p \in Pid : p > spawned => proc[p] = "none")'
    BY DEF Types, Locked, Children
  <2>7. (\A u, v \in Owner : at[u] \in Launching => child[v] # spawned)'
    BY DEF Types, Locked, Children
  <2>8. (\A u \in Owner : at[u] \in Launching => spawned # 0 /\ proc[spawned] = "parked")'
    BY DEF Types, Locked, Children
  <2>9. (\A u \in Owner : at[u] \in {"config", "clone"} => spawned < MaxPid)'
    BY DEF Types, Locked, Children
  <2>. QED
    BY <2>1, <2>2, <2>3, <2>4, <2>5, <2>6, <2>7, <2>8, <2>9 DEF Children
<1>4. Records'
  BY DEF Types, Children, Records
<1>5. Cgroup'
  BY DEF Types, Locked, Children, Records, Cgroup
<1>6. CgroupOwned'
  BY DEF Types, Locked, Cgroup, CgroupOwned
<1>7. LsmNoted'
  BY DEF Types, Children, LsmNoted
<1>8. LsmKept'
  BY DEF Types, Locked, LsmKept
<1>9. Cleared'
  BY DEF Types, Children, Cleared
<1>10. Gone'
  BY DEF Types, Children, Gone
<1>. QED
  BY <1>1, <1>2, <1>3, <1>4, <1>5, <1>6, <1>7, <1>8, <1>9, <1>10

\* The child gets a pid no record has.
LEMMA CloneKeeps ==
  ASSUME NEW o \in Owner, IInv, Clone(o)
  PROVE  IInv'
<1>. USE LibConstantsOK DEF IInv, Rec, Pid, Goto, Inside, Fresh, Launching,
   Spawning, Ending, Holding, libVars, procVars, callerVars, daemonVars, histVars, Clone
<1>1. Types'
  <2>1. spawned' \in 1 .. MaxPid
    BY DEF Types, Children
  <2>2. proc' = [proc EXCEPT ![spawned'] = "parked"]
    OBVIOUS
  <2>. QED
    BY <2>1, <2>2 DEF Types
<1>2. Locked'
  BY DEF Types, Locked
<1>3. Children'
  <2>1. (\A u \in Owner : child[u] # 0 <=> at[u] \in Holding \cup Ending \cup {"release"})'
    BY DEF Types, Locked, Children
  <2>2. (\A u, v \in Owner : child[u] = child[v] /\ child[u] # 0 => u = v)'
    BY DEF Types, Locked, Children
  <2>3. (\A u \in Owner : child[u] <= spawned)'
    BY DEF Types, Locked, Children
  <2>4. (\A u \in Owner : at[u] \in Holding => proc[child[u]] \notin {"none", "parked"})'
    BY DEF Types, Locked, Children
  <2>5. (\A u \in Owner : at[u] \in Ending \cup {"release"} => proc[child[u]] = "reaped")'
    BY DEF Types, Locked, Children
  <2>6. (\A p \in Pid : p > spawned => proc[p] = "none")'
    BY DEF Types, Locked, Children
  <2>7. (\A u, v \in Owner : at[u] \in Launching => child[v] # spawned)'
    BY DEF Types, Locked, Children
  <2>8. (\A u \in Owner : at[u] \in Launching => spawned # 0 /\ proc[spawned] = "parked")'
    BY DEF Types, Locked, Children
  <2>9. (\A u \in Owner : at[u] \in {"config", "clone"} => spawned < MaxPid)'
    BY DEF Types, Locked, Children
  <2>. QED
    BY <2>1, <2>2, <2>3, <2>4, <2>5, <2>6, <2>7, <2>8, <2>9 DEF Children
<1>4. Records'
  BY DEF Types, Children, Records
<1>5. Cgroup'
  BY DEF Types, Locked, Children, Cgroup
<1>6. CgroupOwned'
  BY DEF Types, Locked, CgroupOwned
<1>7. LsmNoted'
  BY DEF Types, Children, LsmNoted
<1>8. LsmKept'
  BY DEF Types, Locked, LsmKept
<1>9. Cleared'
  BY DEF Types, Children, Cleared
<1>10. Gone'
  BY DEF Types, Children, Gone
<1>. QED
  BY <1>1, <1>2, <1>3, <1>4, <1>5, <1>6, <1>7, <1>8, <1>9, <1>10

\* A failed clone removes only the directory this spawn made.
LEMMA CloneDiesKeeps ==
  ASSUME NEW o \in Owner, IInv, CloneDies(o)
  PROVE  IInv'
<1>. USE LibConstantsOK DEF IInv, Rec, Pid, Goto, Inside, Fresh, Launching,
   Spawning, Ending, Holding, libVars, procVars, callerVars, daemonVars, histVars, CloneDies,
   Failed, Rmdir
<1>1. Types'
  BY DEF Types
<1>2. Locked'
  BY DEF Types, Locked
<1>3. Children'
  BY DEF Types, Locked, Children
<1>4. Records'
  BY DEF Types, Children, Records
<1>5. Cgroup'
  BY DEF Types, Locked, Children, Records, Cgroup
<1>6. CgroupOwned'
  <2>1. CASE g.have_cg
    <3>1. limited = {}
      BY <2>1 DEF Types, Children, Cgroup
    <3>. QED
      BY <2>1, <3>1 DEF CgroupOwned
  <2>2. CASE ~g.have_cg
    BY <2>2 DEF Types, CgroupOwned
  <2>. QED
    BY <2>1, <2>2
<1>7. LsmNoted'
  BY DEF Types, Children, LsmNoted
<1>8. LsmKept'
  BY DEF Types, Locked, LsmKept
<1>9. Cleared'
  BY DEF Types, Children, Cleared
<1>10. Gone'
  BY DEF Types, Children, Gone
<1>. QED
  BY <1>1, <1>2, <1>3, <1>4, <1>5, <1>6, <1>7, <1>8, <1>9, <1>10

\* The child is parked in the cgroup this spawn made.
LEMMA WriteUidMapsKeeps ==
  ASSUME NEW o \in Owner, IInv, WriteUidMaps(o)
  PROVE  IInv'
<1>. USE LibConstantsOK DEF IInv, Rec, Pid, Goto, Inside, Fresh, Launching,
   Spawning, Ending, Holding, libVars, procVars, callerVars, daemonVars, histVars, WriteUidMaps
<1>1. Types'
  <2>1. spawned \in Pid
    BY DEF Types, Children
  <2>2. limited' \subseteq Pid
    BY <2>1 DEF Types
  <2>. QED
    BY <2>1, <2>2 DEF Types
<1>2. Locked'
  BY DEF Types, Locked
<1>3. Children'
  BY DEF Types, Locked, Children
<1>4. Records'
  BY DEF Types, Children, Records
<1>5. Cgroup'
  BY DEF Types, Locked, Children, Cgroup
<1>6. CgroupOwned'
  BY DEF Types, Locked, CgroupOwned
<1>7. LsmNoted'
  BY DEF Types, Children, LsmNoted
<1>8. LsmKept'
  BY DEF Types, Locked, LsmKept
<1>9. Cleared'
  BY DEF Types, Children, Cleared
<1>10. Gone'
  BY DEF Types, Children, Gone
<1>. QED
  BY <1>1, <1>2, <1>3, <1>4, <1>5, <1>6, <1>7, <1>8, <1>9, <1>10

\* A failed uid map removes only the directory this spawn made.
LEMMA WriteUidMapsDiesKeeps ==
  ASSUME NEW o \in Owner, IInv, WriteUidMapsDies(o)
  PROVE  IInv'
<1>. USE LibConstantsOK DEF IInv, Rec, Pid, Goto, Inside, Fresh, Launching,
   Spawning, Ending, Holding, libVars, procVars, callerVars, daemonVars, histVars,
   WriteUidMapsDies, Failed, Rmdir
<1>1. Types'
  BY DEF Types
<1>2. Locked'
  BY DEF Types, Locked
<1>3. Children'
  BY DEF Types, Locked, Children
<1>4. Records'
  BY DEF Types, Children, Records
<1>5. Cgroup'
  BY DEF Types, Locked, Children, Records, Cgroup
<1>6. CgroupOwned'
  <2>1. CASE g.have_cg
    <3>1. limited = {}
      BY <2>1 DEF Types, Children, Cgroup
    <3>. QED
      BY <2>1, <3>1 DEF CgroupOwned
  <2>2. CASE ~g.have_cg
    BY <2>2 DEF Types, CgroupOwned
  <2>. QED
    BY <2>1, <2>2
<1>7. LsmNoted'
  BY DEF Types, Children, LsmNoted
<1>8. LsmKept'
  BY DEF Types, Locked, LsmKept
<1>9. Cleared'
  BY DEF Types, Children, Cleared
<1>10. Gone'
  BY DEF Types, Children, Gone
<1>. QED
  BY <1>1, <1>2, <1>3, <1>4, <1>5, <1>6, <1>7, <1>8, <1>9, <1>10

\* A registration is in g_cgid as soon as the daemon has it.
LEMMA LsmRegisterKeeps ==
  ASSUME NEW o \in Owner, IInv, LsmRegister(o)
  PROVE  IInv'
<1>. USE LibConstantsOK DEF IInv, Rec, Pid, Goto, Inside, Fresh, Launching,
   Spawning, Ending, Holding, libVars, procVars, callerVars, daemonVars, histVars, LsmRegister
<1>1. Types'
  <2>1. PICK i \in Nat : g' = [g EXCEPT !.cgid = i]
    BY DEF Types
  <2>2. g' \in [have_cg : BOOLEAN, cgid : Nat]
    BY <2>1 DEF Types
  <2>. QED
    BY <2>1, <2>2 DEF Types
<1>2. Locked'
  BY DEF Types, Locked
<1>3. Children'
  <2>1. /\ at[o] = "lsm" /\ at' = [at EXCEPT ![o] = "veth"]
        /\ child' = child /\ spawned' = spawned /\ proc' = proc
    OBVIOUS
  <2>. HIDE DEF LsmRegister
  <2>. QED
    BY <2>1 DEF Types, Children
<1>4. Records'
  BY DEF Types, Children, Records
<1>5. Cgroup'
  BY DEF Types, Locked, Children, Cgroup
<1>6. CgroupOwned'
  BY DEF Types, Locked, CgroupOwned
<1>7. LsmNoted'
  <2>1. /\ lock = o /\ spawned \in Pid /\ spawned \notin lsm
        /\ \A s \in Slots : recs[s].pid # spawned
    BY DEF Types, Locked, Children, Records, LsmNoted
  <2>2. \/ lsm' = lsm
        \/ lsm' = lsm \cup {spawned} /\ g'.cgid = spawned
    BY DEF Types, Cgroup
  <2>3. /\ recs' = recs /\ spawned' = spawned
        /\ \A r \in Owner : at'[r] \notin {"maps", "lsm"}
    BY DEF Types, Locked
  <2>. HIDE DEF LsmRegister
  <2>. QED
    <3>1. (lsm \subseteq 1 .. spawned)'
      BY <2>1, <2>2, <2>3 DEF LsmNoted
    <3>2. (\A s \in Slots : recs[s].pid \in lsm => recs[s].cgid = recs[s].pid)'
      BY <2>1, <2>2, <2>3 DEF LsmNoted
    <3>3. (\A u \in Owner : at[u] \in {"maps", "lsm"} => spawned \notin lsm)'
      BY <2>3
    <3>4. (\A u \in Owner : at[u] \in {"veth", "sync"} /\ spawned \in lsm => g.cgid = spawned)'
      BY <2>1, <2>2, <2>3
    <3>. QED
      BY <3>1, <3>2, <3>3, <3>4 DEF LsmNoted
<1>8. LsmKept'
  BY DEF Types, Locked, Children, Cgroup, LsmKept
<1>9. Cleared'
  BY DEF Types, Locked, Cleared
<1>10. Gone'
  BY DEF Types, Children, Gone
<1>. QED
  BY <1>1, <1>2, <1>3, <1>4, <1>5, <1>6, <1>7, <1>8, <1>9, <1>10

\* A veth is the coming child's.
LEMMA VethRegisterKeeps ==
  ASSUME NEW o \in Owner, IInv, VethRegister(o)
  PROVE  IInv'
<1>. USE LibConstantsOK DEF IInv, Rec, Pid, Goto, Inside, Fresh, Launching,
   Spawning, Ending, Holding, libVars, procVars, callerVars, daemonVars, histVars, VethRegister
<1>1. Types'
  BY DEF Types
<1>2. Locked'
  BY DEF Types, Locked
<1>3. Children'
  BY DEF Types, Locked, Children
<1>4. Records'
  BY DEF Types, Children, Records
<1>5. Cgroup'
  BY DEF Types, Locked, Children, Cgroup
<1>6. CgroupOwned'
  BY DEF Types, Locked, CgroupOwned
<1>7. LsmNoted'
  BY DEF Types, Children, LsmNoted
<1>8. LsmKept'
  BY DEF Types, Locked, LsmKept
<1>9. Cleared'
  BY DEF Types, Children, Cleared
<1>10. Gone'
  BY DEF Types, Locked, Children, Gone
<1>. QED
  BY <1>1, <1>2, <1>3, <1>4, <1>5, <1>6, <1>7, <1>8, <1>9, <1>10

\* The Child, its record and its cgroup appear together.
LEMMA SyncKeeps ==
  ASSUME NEW o \in Owner, IInv, Sync(o)
  PROVE  IInv'
<1>. USE LibConstantsOK DEF IInv, Rec, Pid, Goto, Inside, Fresh, Launching,
   Spawning, Ending, Holding, libVars, procVars, callerVars, daemonVars, histVars, Sync, free_rec
<1>. DEFINE s0 == free_rec
<1>a. s0 \in Slots /\ recs[s0].pid = 0
  BY DEF Records
<1>b. recs' = [recs EXCEPT ![s0] = [pid |-> spawned, have_cg |-> g.have_cg, cgid |-> g.cgid]]
  OBVIOUS
<1>. HIDE DEF s0
<1>1. Types'
  <2>1. [pid |-> spawned, have_cg |-> g.have_cg, cgid |-> g.cgid] \in Rec
    BY DEF Types
  <2>2. recs' \in [Slots -> Rec]
    BY <2>1 DEF Types
  <2>. QED
    BY <2>1, <2>2 DEF Types
<1>2. Locked'
  BY DEF Types, Locked
<1>3. Children'
  BY DEF Types, Locked, Children
<1>4. Records'
  <2>1. child[o] = 0 /\ spawned # 0 /\ g.cgid \in {0, spawned}
    BY DEF Types, Children, LsmKept
  <2>2. \A s \in Slots \ {s0} : recs'[s] = recs[s]
    BY <1>b DEF Types
  <2>3. \A s \in Slots : recs[s].pid # spawned
    BY DEF Children, Records
  <2>4. \A r \in Owner \ {o} : child'[r] = child[r]
    BY DEF Types
  <2>a. proc' = [proc EXCEPT ![spawned] = "setup"] /\ spawned' = spawned /\ spawned \in Pid
    BY <2>1 DEF Types
  <2>b. recs'[s0].pid = spawned
    BY <1>a, <1>b DEF Types
  <2>c. \A s \in Slots : recs[s].pid \in Nat
    BY DEF Types
  <2>d. (\A s \in Slots : recs[s].pid <= spawned)'
    BY <2>2, <2>a, <2>b DEF Records
  <2>5. (\A s \in Slots : recs[s].pid # 0 => proc[recs[s].pid] \notin {"none", "parked"})'
    <3>1. ASSUME NEW s \in Slots, s # s0, recs[s].pid # 0
          PROVE  proc'[recs[s].pid] = proc[recs[s].pid]
      BY <2>3, <2>a, <2>c, <3>1 DEF Types, Records
    <3>2. proc'[spawned] = "setup"
      BY <2>a DEF Types
    <3>. QED
      BY <2>2, <2>b, <3>1, <3>2 DEF Records
  <2>6. (\A s, r \in Slots : recs[s].pid = recs[r].pid /\ recs[s].pid # 0 => s = r)'
    BY <1>a, <1>b, <2>1, <2>2, <2>3, <2>4 DEF Types, Locked, Children, Records
  <2>7. (\A u \in Owner : child[u] # 0 => \E s \in Slots : recs[s].pid = child[u])'
    BY <1>a, <1>b, <2>1, <2>2, <2>3, <2>4 DEF Types, Locked, Children, Records
  <2>8. (\A s \in Slots : recs[s].cgid \in {0, recs[s].pid})'
    BY <1>a, <1>b, <2>1, <2>2, <2>3, <2>4 DEF Types, Locked, Children, Records
  <2>9. (\A s \in Slots : recs[s].pid = 0 => ~recs[s].have_cg)'
    BY <1>a, <1>b, <2>1, <2>2, <2>3, <2>4 DEF Types, Locked, Children, Records
  <2>10. (\A u \in Owner : at[u] \in Spawning => \E s \in Slots : recs[s].pid = 0)'
    BY <1>a, <1>b, <2>1, <2>2, <2>3, <2>4 DEF Types, Locked, Children, Records
  <2>. QED
    BY <2>d, <2>5, <2>6, <2>7, <2>8, <2>9, <2>10 DEF Records
<1>5. Cgroup'
  BY DEF Types, Locked, Children, Cgroup
<1>6. CgroupOwned'
  <2>1. lock = o
    BY DEF Locked
  <2>2. \A s \in Slots : recs[s].have_cg => recs'[s] = recs[s]
    BY <1>a, <1>b DEF Types, Records
  <2>3. recs'[s0].have_cg = g.have_cg
    BY <1>a, <1>b DEF Types
  <2>. QED
    BY <1>a, <2>1, <2>2, <2>3 DEF CgroupOwned
<1>7. LsmNoted'
  <2>1. \A s \in Slots \ {s0} : recs'[s] = recs[s]
    BY <1>b DEF Types
  <2>2. recs'[s0].pid = spawned /\ recs'[s0].cgid = g.cgid
    BY <1>a, <1>b DEF Types
  <2>3. spawned \in lsm => g.cgid = spawned
    BY DEF LsmNoted
  <2>4. /\ lsm' = lsm /\ spawned' = spawned
        /\ \A r \in Owner : at'[r] \notin {"maps", "lsm", "veth", "sync"}
    BY DEF Types, Locked
  <2>. HIDE DEF Sync
  <2>. QED
    BY <2>1, <2>2, <2>3, <2>4 DEF LsmNoted
<1>8. LsmKept'
  <2>1. proc[spawned] = "parked" /\ \A r \in Owner : at'[r] \notin {"veth", "sync"}
    BY DEF Types, Locked, Children
  <2>2. \A q \in armed : q \in Pid /\ (proc'[q] # "reaped" => proc[q] # "reaped")
    BY <2>1 DEF Types, LsmKept
  <2>. QED
    BY <2>1, <2>2 DEF LsmKept
<1>9. Cleared'
  BY DEF Types, Children, Cleared
<1>10. Gone'
  BY DEF Types, Children, Gone
<1>. QED
  BY <1>1, <1>2, <1>3, <1>4, <1>5, <1>6, <1>7, <1>8, <1>9, <1>10
=============================================================================
