----------------------------- MODULE SandLaunch -----------------------------
(***************************************************************************)
(* One run of sand: main() in the supervisor, child_main() in the cell's   *)
(* PID 1, and what they leave in the world: the new-root directory, the    *)
(* cgroup, the cell's rules and network slot at the daemon, and in serve   *)
(* mode the socket and its .info file.  The two processes meet only at the *)
(* sync pipe, at the listener --ask hands over, and through the parent     *)
(* death signal.  SandServe and SandAsk extend this module with what the   *)
(* supervisor does while the cell runs; SandCell puts the parts together.  *)
(*                                                                         *)
(* Any process can be killed at any time.  A signal that sand has not      *)
(* (yet) caught or ignored ends it as SIGKILL does.                        *)
(*                                                                         *)
(* A definition X_fault is a plausible fault in X's code; nothing uses it. *)
(***************************************************************************)
EXTENDS Integers, FiniteSets, Sequences, SequencesExt

CONSTANTS Options,   \* the command lines considered: records, see Option
          MaxTime    \* bound: the --timeout, in ticks

Option == [serve : BOOLEAN, ask : BOOLEAN, timeout : BOOLEAN,
           secure : BOOLEAN, veth : BOOLEAN, egress : BOOLEAN]

ASSUME LaunchConstantsOK ==
  /\ Options \subseteq Option /\ MaxTime \in Nat
  /\ \A o \in Options : ~(o.serve /\ o.ask)          \* main returns 2
  /\ \A o \in Options : o.egress => o.veth           \* egress_add

VARIABLES opt,      \* the options
          sup,      \* where the supervisor is
          end,      \* how it ended: bye, die, refused, killed
          child,    \* where the child is
          pdeath,   \* the child asked for SIGKILL at its parent's death
          sync,     \* the sync message has been written
          listener, \* --ask: the child has passed its notify listener
          done,     \* what the supervisor has set up for the child
          lsmOn,    \* g_lsm_on
          vethOn,   \* g_veth_on
          res,      \* what exists in the world because of this run
          daemon,   \* agentlsm: up, old (reports no egress counts), down
          left      \* --timeout: ticks left

launch == <<opt, sup, end, child, pdeath, sync, listener, done, lsmOn,
            vethOn, res, daemon, left>>

Residue == {"root", "cg", "rules", "part", "slot", "sock", "info"}

Init ==
  /\ opt \in Options /\ daemon \in {"up", "old", "down"}
  /\ sup = "root" /\ end = "" /\ child = "none" /\ pdeath = FALSE
  /\ sync = FALSE /\ listener = FALSE /\ done = {} /\ res = {}
  /\ lsmOn = FALSE /\ vethOn = FALSE
  /\ left = MaxTime
-----------------------------------------------------------------------------
Alive == child \notin {"none", "zombie", "gone"}

\* The supervisor's process ends.  The kernel kills a child that has asked
\* for it by then; one that asks later gets nothing.
SupEnds(how) ==
  /\ sup' = "gone" /\ end' = how
  /\ child' = IF Alive /\ pdeath THEN "gone" ELSE child

Die == SupEnds("die")

\* SIGKILL at any time, or SIGTERM and SIGINT before they are caught.
SupKilled ==
  /\ sup # "gone" /\ SupEnds("killed")
  /\ UNCHANGED <<opt, pdeath, sync, listener, done, lsmOn, vethOn, res, daemon, left>>

\* The daemon dies: its maps, and the cell's rules in them, are gone; what
\* it built for the network stays until its next start (EgressNet).
DaemonDies ==
  /\ daemon # "down" /\ daemon' = "down" /\ res' = res \ {"rules", "part"}
  /\ UNCHANGED <<opt, sup, end, child, pdeath, sync, listener, done, lsmOn, vethOn, left>>
-----------------------------------------------------------------------------
(* main, up to the running cell.                                           *)

\* mkdtemp(g_newroot).
MakeRoot ==
  /\ sup = "root" /\ sup' = "cgroup" /\ res' = res \cup {"root"}
  /\ UNCHANGED <<opt, end, child, pdeath, sync, listener, done, lsmOn, vethOn, daemon, left>>

\* cgroup_setup: no delegated cgroup, or mkdir fails, and the cell runs
\* without limits.
CgroupSetup ==
  /\ sup = "cgroup" /\ sup' = "clone"
  /\ \/ res' = res \cup {"cg"}
     \/ UNCHANGED res
  /\ UNCHANGED <<opt, end, child, pdeath, sync, listener, done, lsmOn, vethOn, daemon, left>>

Clone ==
  /\ sup = "clone"
  /\ \/ sup' = "maps" /\ child' = "born" /\ UNCHANGED end
     \/ Die
  /\ UNCHANGED <<opt, pdeath, sync, listener, done, lsmOn, vethOn, res, daemon, left>>

WriteUidMaps ==
  /\ sup = "maps"
  /\ \/ sup' = "park" /\ done' = done \cup {"maps"} /\ UNCHANGED <<end, child>>
     \/ Die /\ UNCHANGED done
  /\ UNCHANGED <<opt, pdeath, sync, listener, lsmOn, vethOn, res, daemon, left>>

\* cgroup.procs, when there is a cgroup; a failed write is a warning.
Park ==
  /\ sup = "park" /\ sup' = "lsm"
  /\ done' = IF "cg" \in res THEN done \cup {"park"} ELSE done
  /\ UNCHANGED <<opt, end, child, pdeath, sync, listener, lsmOn, vethOn, res, daemon, left>>

\* lsm_register (LsmPolicy): all of the rules, none, or the first few of
\* them and then an error, after which g_lsm_on stays 0.
LsmRegister ==
  /\ sup = "lsm" /\ sup' = "net" /\ done' = done \cup {"lsm"}
  /\ \/ /\ opt.secure /\ "cg" \in res /\ daemon # "down"
        /\ \/ lsmOn' = TRUE /\ res' = res \cup {"rules"}
           \/ lsmOn' = FALSE /\ res' = res \cup {"part"}
     \/ UNCHANGED <<lsmOn, res>>
  /\ UNCHANGED <<opt, end, child, pdeath, sync, listener, vethOn, daemon, left>>

\* net_veth_register.  With egress asked for, a reply without the counts is
\* as good as none, and main gives up: it kills and reaps the child, clears
\* the rules and removes the cgroup.  The slot of an OK reply it would not
\* accept stays at the daemon, and the new root stays.  The branches for a
\* command line too long for NETUP are dead: 16 hosts of at most 127 bytes
\* and 4 servers of at most 63 fit into the buffer.
Refuse(slot) ==
  /\ sup' = "gone" /\ end' = "refused" /\ child' = "gone"
  /\ res' = (res \cup slot) \ ({"cg"} \cup IF lsmOn THEN {"rules"} ELSE {})
  /\ UNCHANGED <<vethOn, done>>

VethRegister_fault ==
  /\ sup = "net"
  /\ \/ /\ opt.veth /\ daemon # "down"
        /\ vethOn' = TRUE /\ res' = res \cup {"slot"}
        /\ sup' = "sync" /\ done' = done \cup {"net"} /\ UNCHANGED <<end, child>>
     \/ sup' = "sync" /\ done' = done \cup {"net"} /\ UNCHANGED <<end, child, vethOn, res>>
  /\ UNCHANGED <<opt, pdeath, sync, listener, lsmOn, daemon, left>>
VethRegister ==
  /\ sup = "net"
  /\ \/ /\ opt.veth /\ daemon # "down" /\ (opt.egress => daemon = "up")
        /\ vethOn' = TRUE /\ res' = res \cup {"slot"}
        /\ sup' = "sync" /\ done' = done \cup {"net"} /\ UNCHANGED <<end, child>>
     \/ /\ ~opt.egress
        /\ sup' = "sync" /\ done' = done \cup {"net"} /\ UNCHANGED <<end, child, vethOn, res>>
     \/ opt.egress /\ Refuse({})
     \/ opt.egress /\ daemon = "old" /\ Refuse({"slot"})
  /\ UNCHANGED <<opt, pdeath, sync, listener, lsmOn, daemon, left>>

\* The sync message, then the part of main that goes with the options.  With
\* the child dead nobody holds the pipe's reading end, and SIGPIPE ends main.
Sync ==
  /\ sup = "sync"
  /\ \/ /\ Alive /\ sync' = TRUE /\ UNCHANGED <<end, child>>
        /\ sup' = CASE opt.ask -> "recv" [] opt.serve -> "bind" [] OTHER -> "wait"
     \/ ~Alive /\ SupEnds("killed") /\ UNCHANGED sync
  /\ UNCHANGED <<opt, pdeath, listener, done, lsmOn, vethOn, res, daemon, left>>
-----------------------------------------------------------------------------
(* child_main.                                                             *)

Prctl ==
  /\ child = "born" /\ child' = "sync" /\ pdeath' = (sup # "gone")
  /\ UNCHANGED <<opt, sup, end, sync, listener, done, lsmOn, vethOn, res, daemon, left>>

\* The read returns the message and nothing else: the child holds the pipe's
\* writing end too, so it never sees end of file.
ReadSync_fault ==
  /\ child = "sync" /\ (sync \/ sup = "gone") /\ child' = "setup"
  /\ UNCHANGED <<opt, sup, end, pdeath, sync, listener, done, lsmOn, vethOn, res, daemon, left>>
ReadSync ==
  /\ child = "sync" /\ sync /\ child' = "setup"
  /\ UNCHANGED <<opt, sup, end, pdeath, sync, listener, done, lsmOn, vethOn, res, daemon, left>>

\* do_mounts and pivot_root (JailView); a failed step is die() in the child.
Setup ==
  /\ child = "setup" /\ child' \in {"confine", "zombie"}
  /\ UNCHANGED <<opt, sup, end, pdeath, sync, listener, done, lsmOn, vethOn, res, daemon, left>>

\* Landlock, the seccomp filter and, with --ask, its listener to the parent.
Confine ==
  /\ child = "confine" /\ child' = "run" /\ listener' = opt.ask
  /\ UNCHANGED <<opt, sup, end, pdeath, sync, done, lsmOn, vethOn, res, daemon, left>>

\* The payload exits, or something kills the child.
ChildEnds ==
  /\ Alive /\ child' = "zombie"
  /\ UNCHANGED <<opt, sup, end, pdeath, sync, listener, done, lsmOn, vethOn, res, daemon, left>>
-----------------------------------------------------------------------------
(* main, once the cell runs: one-shot without --ask.                       *)

\* waitpid returns the child.
Reap ==
  /\ sup = "wait" /\ child = "zombie" /\ child' = "gone" /\ sup' = "rmcg"
  /\ UNCHANGED <<opt, end, pdeath, sync, listener, done, lsmOn, vethOn, res, daemon, left>>

\* The --timeout loop: one tick is one sleep(1).
Tick_fault ==
  /\ sup = "wait" /\ opt.timeout /\ Alive
  /\ left' = left - 1 /\ child' = IF left < 0 THEN "zombie" ELSE child
  /\ UNCHANGED <<opt, sup, end, pdeath, sync, listener, done, lsmOn, vethOn, res, daemon>>
Tick ==
  /\ sup = "wait" /\ opt.timeout /\ Alive
  /\ IF left > 0 THEN left' = left - 1 /\ UNCHANGED child
     ELSE child' = "zombie" /\ UNCHANGED left
  /\ UNCHANGED <<opt, sup, end, pdeath, sync, listener, done, lsmOn, vethOn, res, daemon>>
-----------------------------------------------------------------------------
(* The teardown at the end of main.                                        *)

RmCgroup ==
  /\ sup = "rmcg" /\ sup' = "clr" /\ res' = res \ {"cg"}
  /\ UNCHANGED <<opt, end, child, pdeath, sync, listener, done, lsmOn, vethOn, daemon, left>>

\* lsm_unregister: a CLR, which takes every rule of the cell.
LsmUnregister(from, to) ==
  /\ sup = from /\ sup' = to /\ lsmOn' = FALSE
  /\ res' = IF lsmOn THEN res \ {"rules", "part"} ELSE res
  /\ UNCHANGED <<opt, end, child, pdeath, sync, listener, done, vethOn, daemon, left>>

\* net_veth_unregister: a NETDOWN, which nobody hears when the daemon is down.
VethUnregister_fault(from, to) ==
  /\ sup = from /\ sup' = to /\ vethOn' = FALSE
  /\ res' = IF vethOn /\ lsmOn /\ daemon # "down" THEN res \ {"slot"} ELSE res
  /\ UNCHANGED <<opt, end, child, pdeath, sync, listener, done, lsmOn, daemon, left>>
VethUnregister(from, to) ==
  /\ sup = from /\ sup' = to /\ vethOn' = FALSE
  /\ res' = IF vethOn /\ daemon # "down" THEN res \ {"slot"} ELSE res
  /\ UNCHANGED <<opt, end, child, pdeath, sync, listener, done, lsmOn, daemon, left>>

RmRoot ==
  /\ sup = "rmroot" /\ SupEnds("bye") /\ res' = res \ {"root"}
  /\ UNCHANGED <<opt, pdeath, sync, listener, done, lsmOn, vethOn, daemon, left>>
-----------------------------------------------------------------------------
SupStarts == \/ MakeRoot \/ CgroupSetup \/ Clone \/ WriteUidMaps \/ Park
             \/ LsmRegister \/ VethRegister \/ Sync
SupTears == \/ RmCgroup \/ LsmUnregister("clr", "netdown")
            \/ VethUnregister("netdown", "rmroot") \/ RmRoot

SupSteps == SupStarts \/ Reap \/ Tick \/ SupTears
ChildSetup == Prctl \/ ReadSync \/ Setup \/ Confine
LaunchNext == SupSteps \/ ChildSetup \/ ChildEnds \/ SupKilled \/ DaemonDies
=============================================================================
