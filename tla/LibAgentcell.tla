---------------------------- MODULE LibAgentcell ----------------------------
(***************************************************************************)
(* libagentcell and the Rust crate over it: one process that embeds cells. *)
(* agentcell_spawn is sand's launch path run from a library, with sand's   *)
(* globals reset on entry, a table of records for the teardown, and die    *)
(* returning to the caller; agentcell_release is the teardown.  The crate  *)
(* holds API_LOCK around both and calls waitpid outside it.                *)
(*                                                                         *)
(* An owner is one Child value of the crate and the thread that uses it.   *)
(* All cells of the process compete for one cgroup directory, named after  *)
(* getpid(); a directory is identified by its inode, as the daemon does.   *)
(* Process ids are not reused.  The new root under /tmp is left out: a     *)
(* spawn that fails removes it, and agentcell_release leaves every other   *)
(* one behind, an empty directory.                                         *)
(* A definition X_fault is a plausible fault in X's code; nothing uses it. *)
(***************************************************************************)
EXTENDS Integers, FiniteSets

CONSTANTS Owner,     \* the Child values
          Want,      \* owner -> its Config: [secure, veth]
          Slots,     \* records in g_recs
          MaxPid,    \* spawns that get as far as clone
          Delegated  \* mkdir of a free cgroup name is certain to succeed

ASSUME LibConstantsOK == MaxPid \in Nat /\ "free" \notin Owner

VARIABLES at,        \* owner -> where its thread is
          child,     \* owner -> the pid its Child has, 0 without one
          lock,      \* the owner that holds API_LOCK, or "free"
          g,         \* sand's globals: [have_cg, cgid]
          recs,      \* g_recs: slot -> [pid, have_cg, cgid], pid 0 when free
          spawned,   \* clones made; pids are 1 .. spawned
          proc,      \* pid -> state of the payload process
          cgdir,     \* inode of the process's cgroup directory, 0 when absent
          limited,   \* the processes in a cgroup
          lsm,       \* the cgids with rules at the daemon
          veth,      \* the pids with a link and rules in the host's network
          daemon,    \* the daemon runs
          armed,     \* history: the pids whose rules this daemon all accepted
          released,  \* history: the pids agentcell_release has dealt with
          missed     \* history: those of which it missed the NETDOWN or CLR

vars == <<at, child, lock, g, recs, spawned, proc, cgdir, limited,
          lsm, veth, daemon, armed, released, missed>>
callerVars == <<at, child, lock>>
libVars == <<g, recs>>
procVars == <<spawned, proc, limited>>
daemonVars == <<lsm, veth, daemon, armed>>
histVars == <<released, missed>>

Pid == 1 .. MaxPid
Free == [pid |-> 0, have_cg |-> FALSE, cgid |-> 0]
Fresh == [have_cg |-> FALSE, cgid |-> 0]

Init ==
  /\ at = [o \in Owner |-> "idle"]
  /\ child = [o \in Owner |-> 0]
  /\ lock = "free"
  /\ g = Fresh
  /\ recs = [s \in Slots |-> Free]
  /\ spawned = 0
  /\ proc = [p \in Pid |-> "none"]
  /\ cgdir = 0
  /\ limited = {}
  /\ lsm = {} /\ veth = {} /\ daemon = TRUE /\ armed = {}
  /\ released = {} /\ missed = {}

Goto(o, l) == at' = [at EXCEPT ![o] = l]

Live == {p \in Pid : proc[p] \in {"setup", "run", "astray"}}

\* rmdir of the cgroup directory: refused while a live process is in it.
Rmdir == cgdir' = IF limited \cap Live # {} THEN cgdir ELSE 0

-----------------------------------------------------------------------------
(* agentcell_spawn, under API_LOCK.                                        *)

free_rec == CHOOSE s \in Slots : recs[s].pid = 0

\* Fresh globals; with no free record the answer is EBUSY.
SpawnBegin(o) ==
  /\ at[o] = "idle" /\ lock = "free"
  /\ spawned < MaxPid
  /\ IF \E s \in Slots : recs[s].pid = 0
     THEN /\ Goto(o, "config") /\ lock' = o
          /\ g' = Fresh
     ELSE UNCHANGED <<at, lock, g>>
  /\ UNCHANGED <<child, recs, cgdir, procVars, daemonVars, histVars>>

\* die: back in the caller by longjmp, with an errno.
Failed(o) ==
  /\ Goto(o, "idle") /\ lock' = "free"
  /\ IF g.have_cg THEN Rmdir ELSE UNCHANGED cgdir
  /\ UNCHANGED <<child, libVars, daemonVars, histVars>>

\* The configuration is mapped, the root directory made, cgroup_setup run.
\* mkdir fails when the name is taken or the subtree is not delegated.
Config(o) ==
  /\ at[o] = "config"
  /\ Goto(o, "clone")
  /\ \E made \in BOOLEAN :
       /\ made => cgdir = 0
       /\ Delegated /\ cgdir = 0 => made
       /\ g' = [g EXCEPT !.have_cg = made]
       /\ cgdir' = IF made THEN spawned + 1 ELSE cgdir
  /\ UNCHANGED <<child, lock, recs, procVars, daemonVars, histVars>>

ConfigDies(o) == at[o] = "config" /\ Failed(o) /\ UNCHANGED procVars

Clone(o) ==
  /\ at[o] = "clone"
  /\ spawned' = spawned + 1
  /\ proc' = [proc EXCEPT ![spawned'] = "parked"]
  /\ Goto(o, "maps")
  /\ UNCHANGED <<child, lock, libVars, cgdir, limited, daemonVars, histVars>>

CloneDies(o) == at[o] = "clone" /\ Failed(o) /\ UNCHANGED procVars

\* write_uid_maps, and the child parked in the cgroup.
WriteUidMaps(o) ==
  /\ at[o] = "maps"
  /\ Goto(o, "lsm")
  /\ limited' = IF g.have_cg THEN limited \cup {spawned} ELSE limited
  /\ UNCHANGED <<child, lock, libVars, spawned, proc, cgdir, daemonVars, histVars>>

\* The child it leaves waits for a byte nobody will write.
WriteUidMapsDies(o) == at[o] = "maps" /\ Failed(o) /\ UNCHANGED procVars

\* lsm_register: skipped without a cgroup, a warning when it fails.  It notes
\* the cgid before it connects, and rules sent before a failure stay.
LsmRegister(o) ==
  /\ at[o] = "lsm"
  /\ Goto(o, "veth")
  /\ g' = [g EXCEPT !.cgid = IF Want[o].secure /\ g.have_cg THEN cgdir ELSE 0]
  /\ \E some, all \in BOOLEAN :
       /\ all => some
       /\ some => Want[o].secure /\ g.have_cg /\ daemon
       /\ lsm' = IF some THEN lsm \cup {cgdir} ELSE lsm
       /\ armed' = IF all THEN armed \cup {spawned} ELSE armed
  /\ UNCHANGED <<child, lock, recs, cgdir, procVars, veth, daemon, histVars>>

\* net_veth_register: the daemon gives the child a veth, whatever sand makes
\* of its reply, or none; both go on, without a network if need be.
VethRegister(o) ==
  /\ at[o] = "veth"
  /\ Goto(o, "sync")
  /\ \/ Want[o].veth /\ daemon /\ veth' = veth \cup {spawned}
     \/ UNCHANGED veth
  /\ UNCHANGED <<child, lock, libVars, cgdir, procVars, lsm, daemon, armed, histVars>>

\* The sync message, and the record, which has been free all along.
Sync(o) ==
  /\ at[o] = "sync"
  /\ proc' = [proc EXCEPT ![spawned] = "setup"]
  /\ recs' = [recs EXCEPT ![free_rec] = [pid |-> spawned, have_cg |-> g.have_cg,
                                           cgid |-> g.cgid]]
  /\ child' = [child EXCEPT ![o] = spawned]
  /\ Goto(o, "have") /\ lock' = "free"
  /\ UNCHANGED <<g, spawned, cgdir, limited, daemonVars, histVars>>

-----------------------------------------------------------------------------
(* The payload: child_main, then the program.                              *)
ChildSetup(p) == proc[p] = "setup" /\ proc' = [proc EXCEPT ![p] = "run"]

\* die in the child: its copy of g_die_jmp is set, so it returns from its
\* copy of agentcell_spawn and runs on as a second host inside the cell.
ChildDies(p) == proc[p] = "setup" /\ proc' = [proc EXCEPT ![p] = "astray"]

ChildEnds(p) == p \in Live /\ proc' = [proc EXCEPT ![p] = "zombie"]

Child(p) ==
  /\ ChildSetup(p) \/ ChildDies(p) \/ ChildEnds(p)
  /\ UNCHANGED <<callerVars, libVars, spawned, cgdir, limited, daemonVars, histVars>>

\* Somebody else in the process reaps the child: a waitpid(-1) of the host
\* program, or SIGCHLD ignored.
HostReaps(p) ==
  /\ proc[p] = "zombie"
  /\ proc' = [proc EXCEPT ![p] = "reaped"]
  /\ limited' = limited \ {p}
  /\ UNCHANGED <<callerVars, libVars, spawned, cgdir, daemonVars, histVars>>

-----------------------------------------------------------------------------
(* agentlsm, as far as a cell of the library depends on it.  The policy is *)
(* in maps the daemon holds; links and rules are the kernel's and stay.    *)

DaemonDies ==
  /\ daemon /\ daemon' = FALSE
  /\ lsm' = {} /\ armed' = {}
  /\ UNCHANGED <<callerVars, libVars, cgdir, procVars, veth, histVars>>

\* SIGTERM: net_cleanup_all.
DaemonStops ==
  /\ daemon /\ daemon' = FALSE
  /\ lsm' = {} /\ armed' = {} /\ veth' = {} /\ missed' = {}
  /\ UNCHANGED <<callerVars, libVars, cgdir, procVars, released>>

\* net_recover_startup: what an earlier run left is removed.
DaemonStarts ==
  /\ ~daemon /\ daemon' = TRUE
  /\ veth' = {} /\ missed' = {}
  /\ UNCHANGED <<callerVars, libVars, cgdir, procVars, lsm, armed, released>>

-----------------------------------------------------------------------------
(* The crate's Child.                                                      *)

\* wait, or drop, which kills first.
Wait(o) ==
  /\ at[o] = "have" /\ Goto(o, "waitpid")
  /\ UNCHANGED <<child, lock, libVars, procVars, cgdir, daemonVars, histVars>>

Drop(o) ==
  /\ at[o] = "have" /\ Goto(o, "dropped")
  /\ proc' = [proc EXCEPT ![child[o]] = IF child[o] \in Live THEN "zombie" ELSE @]
  /\ UNCHANGED <<child, lock, libVars, spawned, limited, cgdir, daemonVars, histVars>>

\* The lock taken before waitpid.
Waitpid_fault(o) ==
  /\ at[o] \in {"waitpid", "dropped"}
  /\ lock = "free" \/ lock = o
  /\ IF proc[child[o]] = "zombie"
     THEN /\ Goto(o, "release") /\ lock' = "free"
          /\ proc' = [proc EXCEPT ![child[o]] = "reaped"]
          /\ limited' = limited \ {child[o]}
     ELSE lock = "free" /\ lock' = o /\ UNCHANGED <<at, proc, limited>>
  /\ UNCHANGED <<child, libVars, spawned, cgdir, daemonVars, histVars>>

\* wait_linux's waitpid, which holds no lock.
Waitpid(o) ==
  /\ at[o] \in {"waitpid", "dropped"}
  /\ proc[child[o]] = "zombie"
  /\ proc' = [proc EXCEPT ![child[o]] = "reaped"]
  /\ limited' = limited \ {child[o]}
  /\ Goto(o, "release")
  /\ UNCHANGED <<child, lock, libVars, spawned, cgdir, daemonVars, histVars>>

\* waitpid fails with ECHILD and wait_linux returns before the release: wait
\* hands the error to a caller that keeps its Child, drop ignores it, and the
\* record stays behind.
WaitpidFails(o) ==
  /\ at[o] \in {"waitpid", "dropped"}
  /\ proc[child[o]] = "reaped"
  /\ IF at[o] = "waitpid"
     THEN Goto(o, "have") /\ UNCHANGED child
     ELSE Goto(o, "idle") /\ child' = [child EXCEPT ![o] = 0]
  /\ UNCHANGED <<lock, libVars, procVars, cgdir, daemonVars, histVars>>

\* release_linux takes the lock; agentcell_release finds the record.
ReleaseBegin(o) ==
  /\ at[o] = "release" /\ lock = "free"
  /\ lock' = o /\ Goto(o, "netdown")
  /\ UNCHANGED <<child, libVars, procVars, cgdir, daemonVars, histVars>>

RecOf(p) == CHOOSE s \in Slots : recs[s].pid = p

\* lsm_cmd, whose failure the caller tolerates: the request is carried out,
\* or lost because the daemon is down or its table of connections full.
Request(o, done) ==
  \/ daemon /\ done /\ UNCHANGED missed
  \/ UNCHANGED <<lsm, veth>> /\ missed' = missed \cup {child[o]}

NetDown(o) ==
  /\ at[o] = "netdown"
  /\ Request(o, veth' = veth \ {child[o]} /\ UNCHANGED lsm)
  /\ Goto(o, "clr")
  /\ UNCHANGED <<child, lock, libVars, procVars, cgdir, daemon, armed, released>>

\* The global in place of the record's field.
Clr_fault(o) ==
  /\ at[o] = "clr"
  /\ IF g.cgid # 0
     THEN Request(o, lsm' = lsm \ {g.cgid} /\ UNCHANGED veth)
     ELSE UNCHANGED <<lsm, veth, missed>>
  /\ Goto(o, "rmdir")
  /\ UNCHANGED <<child, lock, libVars, procVars, cgdir, daemon, armed, released>>

RecCgid(o) == recs[RecOf(child[o])].cgid

Clr(o) ==
  /\ at[o] = "clr"
  /\ IF RecCgid(o) # 0
     THEN Request(o, lsm' = lsm \ {RecCgid(o)} /\ UNCHANGED veth)
     ELSE UNCHANGED <<lsm, veth, missed>>
  /\ Goto(o, "rmdir")
  /\ UNCHANGED <<child, lock, libVars, procVars, cgdir, daemon, armed, released>>

\* The record cleared, the directory left.
RmCgroup_fault(o) ==
  /\ at[o] = "rmdir"
  /\ recs' = [recs EXCEPT ![RecOf(child[o])] = Free]
  /\ released' = released \cup {child[o]}
  /\ child' = [child EXCEPT ![o] = 0]
  /\ lock' = "free" /\ Goto(o, "idle")
  /\ UNCHANGED <<g, cgdir, procVars, daemonVars, missed>>

RmCgroup(o) ==
  /\ at[o] = "rmdir"
  /\ IF recs[RecOf(child[o])].have_cg THEN Rmdir ELSE UNCHANGED cgdir
  /\ recs' = [recs EXCEPT ![RecOf(child[o])] = Free]
  /\ released' = released \cup {child[o]}
  /\ child' = [child EXCEPT ![o] = 0]
  /\ lock' = "free" /\ Goto(o, "idle")
  /\ UNCHANGED <<g, procVars, daemonVars, missed>>

-----------------------------------------------------------------------------
Spawn(o) ==
  \/ Config(o) \/ ConfigDies(o) \/ Clone(o) \/ CloneDies(o)
  \/ WriteUidMaps(o) \/ WriteUidMapsDies(o)
  \/ LsmRegister(o) \/ VethRegister(o) \/ Sync(o)

Release(o) ==
  \/ Waitpid(o) \/ WaitpidFails(o)
  \/ ReleaseBegin(o) \/ NetDown(o) \/ Clr(o) \/ RmCgroup(o)

Next ==
  \/ \E o \in Owner :
       \/ SpawnBegin(o) \/ Spawn(o) \/ Wait(o) \/ Drop(o) \/ Release(o)
  \/ \E p \in Pid : Child(p) \/ HostReaps(p)
  \/ DaemonDies \/ DaemonStops \/ DaemonStarts

\* A thread inside the library or the crate runs on, and the mutex is fair;
\* nothing makes a payload end or an owner give up its Child.
Fairness == \A o \in Owner : WF_vars(Spawn(o)) /\ SF_vars(Release(o))

Spec == Init /\ [][Next]_vars /\ Fairness

-----------------------------------------------------------------------------
(* Properties.                                                             *)
\* "Teardown after the payload exits: veth + egress rules, LSM registration,
\* cgroup dir": after agentcell_release, whatever other spawns and releases
\* the process made in between and however they failed, the record is free
\* and the cgroup gone, and the host has nothing of the cell's network or
\* policy but what this run of the daemon was not told of, or what a daemon
\* that died left until the next one starts.
ReleasedIsGone ==
  \A p \in released :
    /\ cgdir # p /\ \A s \in Slots : recs[s].pid # p
    /\ p \notin missed => p \notin veth /\ p \notin lsm

\* Every live Child has one record, and as long as its payload lives no spawn
\* that fails and no release of another cell takes its cgroup or, while the
\* daemon is up, its registration away: the globals of sand that each spawn
\* overwrites are not what the teardown of an older cell goes by.
KeepsItsOwn ==
  \A o \in Owner : child[o] # 0 =>
    \E s \in Slots :
      /\ recs[s].pid = child[o]
      /\ \A r \in Slots \ {s} : recs[r].pid # child[o]
      /\ child[o] \in Live =>
           /\ recs[s].have_cg => cgdir = child[o] /\ child[o] \in limited
           /\ child[o] \in armed => child[o] \in lsm

\* "Dropping it SIGKILLs if still running, then releases": a drop completes
\* even when other threads wait for payloads that never end, because waitpid
\* is called without API_LOCK (Child::drop, wait_linux, release_linux).
DropCompletes == \A o \in Owner : at[o] = "dropped" ~> at[o] = "idle"

\* "One jail per spawn: namespaces, mounts, Landlock, seccomp and cgroup limits
\* are identical to the `sand` CLI": where cgroups are delegated, no payload
\* runs outside a cgroup with its limits (cgroup_setup's directory name).
EveryCellLimited == Delegated => \A p \in Pid : proc[p] = "run" => p \in limited
=============================================================================
