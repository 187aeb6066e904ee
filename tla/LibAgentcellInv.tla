-------------------------- MODULE LibAgentcellInv ---------------------------
(***************************************************************************)
(* The inductive invariant IInv of LibAgentcell.  It says who may hold     *)
(* what: the lock belongs to the one owner inside the library, each Child  *)
(* has one record, the cgroup directory belongs to one record or to the    *)
(* spawn in progress, a record knows the policy it has to clear, and of a  *)
(* release that is under way what its requests have taken away is gone.    *)
(***************************************************************************)
EXTENDS LibAgentcell, TLAPS

Launching == {"maps", "lsm", "veth", "sync"}       \* the child exists
Spawning == {"config", "clone"} \cup Launching
Ending == {"netdown", "clr", "rmdir"}
Holding == {"have", "waitpid", "dropped"}

Rec == [pid : Nat, have_cg : BOOLEAN, cgid : Nat]

Types ==
  /\ at \in [Owner -> {"idle", "release"} \cup Spawning \cup Ending \cup Holding]
  /\ child \in [Owner -> Nat]
  /\ recs \in [Slots -> Rec]
  /\ g \in [have_cg : BOOLEAN, cgid : Nat]
  /\ spawned \in 0 .. MaxPid
  /\ proc \in [Pid -> {"none", "parked", "setup", "run", "astray", "zombie", "reaped"}]
  /\ cgdir \in Nat
  /\ limited \subseteq Pid
  /\ daemon \in BOOLEAN

\* The thread inside the library is at one of these places.
Inside(places) == lock \in Owner /\ at[lock] \in places

\* API_LOCK: its holder is the only owner inside the library.
Locked == \A o \in Owner : at[o] \in Spawning \cup Ending => lock = o

\* Children: whose they are and how far they have come.
Children ==
  /\ \A o \in Owner : child[o] # 0 <=> at[o] \in Holding \cup Ending \cup {"release"}
  /\ \A o, p \in Owner : child[o] = child[p] /\ child[o] # 0 => o = p
  /\ \A o \in Owner : child[o] <= spawned
  /\ \A o \in Owner : at[o] \in Holding => proc[child[o]] \notin {"none", "parked"}
  /\ \A o \in Owner : at[o] \in Ending \cup {"release"} => proc[child[o]] = "reaped"
  /\ \A p \in Pid : p > spawned => proc[p] = "none"
  /\ \A o, p \in Owner : at[o] \in Launching => child[p] # spawned
  /\ \A o \in Owner : at[o] \in Launching => spawned # 0 /\ proc[spawned] = "parked"
  /\ \A o \in Owner : at[o] \in {"config", "clone"} => spawned < MaxPid

\* Records: one for each Child, and those of Children dropped unreleased.
Records ==
  /\ \A s \in Slots : recs[s].pid <= spawned
  /\ \A s \in Slots : recs[s].pid # 0 => proc[recs[s].pid] \notin {"none", "parked"}
  /\ \A s, r \in Slots : recs[s].pid = recs[r].pid /\ recs[s].pid # 0 => s = r
  /\ \A o \in Owner : child[o] # 0 => \E s \in Slots : recs[s].pid = child[o]
  /\ \A s \in Slots : recs[s].cgid \in {0, recs[s].pid}
  /\ \A s \in Slots : recs[s].pid = 0 => ~recs[s].have_cg
  /\ \A o \in Owner : at[o] \in Spawning => \E s \in Slots : recs[s].pid = 0

\* The cgroup directory, the processes in it, and whose it is.
Cgroup ==
  /\ limited \subseteq {cgdir}
  /\ \A p \in limited : p <= spawned /\ proc[p] # "reaped"
  /\ \A s \in Slots : recs[s].have_cg => cgdir = recs[s].pid
  /\ \A s \in Slots : recs[s].have_cg /\ proc[recs[s].pid] # "reaped" => recs[s].pid \in limited
  /\ \A o \in Owner : at[o] = "config" => ~g.have_cg
  /\ \A o \in Owner : at[o] = "clone" /\ g.have_cg => cgdir = spawned + 1
  /\ \A o \in Owner : at[o] \in Launching /\ g.have_cg => cgdir = spawned
  /\ \A o \in Owner : at[o] \in Launching \ {"maps"} /\ g.have_cg => spawned \in limited
  /\ \A o \in Owner : at[o] = "maps" => spawned \notin limited

CgroupOwned ==
  cgdir # 0 => (\E s \in Slots : recs[s].have_cg) \/ (Inside(Spawning) /\ g.have_cg)

\* The daemon's rules: whoever has some can name them, and none is missing.
LsmNoted ==
  /\ lsm \subseteq 1 .. spawned
  /\ \A s \in Slots : recs[s].pid \in lsm => recs[s].cgid = recs[s].pid
  /\ \A o \in Owner : at[o] \in {"maps", "lsm"} => spawned \notin lsm
  /\ \A o \in Owner : at[o] \in {"veth", "sync"} /\ spawned \in lsm => g.cgid = spawned

LsmKept ==
  /\ ~daemon => lsm = {} /\ armed = {}
  /\ armed \subseteq 1 .. spawned
  /\ \A p \in armed : proc[p] # "reaped" => p \in lsm
  /\ \A o \in Owner : at[o] \in {"veth", "sync"} => g.cgid \in {0, spawned}

\* A release under way: what it has asked for is done, or was missed.
Cleared ==
  \A o \in Owner : child[o] \notin missed =>
    /\ at[o] \in {"clr", "rmdir"} => child[o] \notin veth
    /\ at[o] = "rmdir" => child[o] \notin lsm

\* A release completed: the process has nothing of the cell any more.
Gone ==
  \A p \in released :
    /\ p \in 1 .. spawned /\ proc[p] = "reaped"
    /\ \A o \in Owner : child[o] # p
    /\ \A s \in Slots : recs[s].pid # p
    /\ cgdir # p
    /\ p \notin missed => p \notin veth /\ p \notin lsm

IInv ==
  /\ Types /\ Locked /\ Children /\ Records /\ Cgroup /\ CgroupOwned
  /\ LsmNoted /\ LsmKept /\ Cleared /\ Gone

\* A step by which no thread comes to another place of agentcell_spawn.
Calm == \A r \in Owner : at'[r] \in Spawning => at'[r] = at[r]

\* Such a step keeps Records when it touches neither records nor children.
LEMMA RecordsFrame ==
  ASSUME Records, Calm, child' = child, recs' = recs, spawned' = spawned, proc' = proc
  PROVE  Records'
BY DEF Records, Calm

\* And Cgroup, when it touches nothing the cgroups depend on.
LEMMA CgroupFrame ==
  ASSUME Cgroup, Calm, recs' = recs, spawned' = spawned, proc' = proc,
         cgdir' = cgdir, limited' = limited, g' = g
  PROVE  Cgroup'
BY DEF Cgroup, Calm, Launching, Spawning
-----------------------------------------------------------------------------
\* The state of a process that has not spawned satisfies the invariant.
LEMMA IInvInit == Init => IInv
<1>. SUFFICES ASSUME Init PROVE IInv
  OBVIOUS
<1>. USE LibConstantsOK DEF Init, Fresh, Free, Rec, Pid, Inside, Launching, Spawning,
   Ending, Holding
<1>1. Types
  <2>1. Free \in Rec /\ Fresh \in [have_cg : BOOLEAN, cgid : Nat]
    OBVIOUS
  <2>. QED
    BY <2>1 DEF Types
<1>2. Locked /\ Children
  BY DEF Locked, Children
<1>3. Records
  BY DEF Records
<1>4. Cgroup /\ CgroupOwned
  BY DEF Cgroup, CgroupOwned
<1>5. LsmNoted /\ LsmKept /\ Cleared /\ Gone
  BY DEF LsmNoted, LsmKept, Cleared, Gone
<1>. QED
  BY <1>1, <1>2, <1>3, <1>4, <1>5 DEF IInv

\* A step that changes nothing keeps it.
LEMMA IInvIdle == IInv /\ UNCHANGED vars => IInv'
<1>. SUFFICES ASSUME IInv, UNCHANGED vars PROVE IInv'
  OBVIOUS
<1>. USE DEF vars, IInv, Inside, Pid
<1>1. Types' /\ Locked'
  BY DEF Types, Locked
<1>2. Children'
  BY SMTT(30) DEF Children
<1>3. Records'
  BY DEF Records
<1>4. Cgroup' /\ CgroupOwned'
  BY DEF Cgroup, CgroupOwned
<1>5. LsmNoted' /\ LsmKept' /\ Cleared' /\ Gone'
  BY DEF LsmNoted, LsmKept, Cleared, Gone
<1>. QED
  BY <1>1, <1>2, <1>3, <1>4, <1>5
=============================================================================
