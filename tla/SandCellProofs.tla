--------------------------- MODULE SandCellProofs ---------------------------
(***************************************************************************)
(* PayloadReady, EgressOrNothing and GoodbyeLeavesNothing of SandCell, for *)
(* every set of options and clients and every bound.  The three share one  *)
(* inductive invariant, IInv: it says what main has done by each of its    *)
(* places, that the sync byte is written only after all of it, and that    *)
(* the teardown runs over a dead child and undoes what it finds recorded   *)
(* in g_lsm_on and g_veth_on.  None of it is about clients or parked       *)
(* calls, so the steps of SandServe and SandAsk matter only for what they  *)
(* do to the supervisor's place, the child and the residue.                *)
(***************************************************************************)
EXTENDS SandCell, TLAPS

\* What IInv reads.
core == <<opt, sup, end, child, sync, done, lsmOn, vethOn, res, daemon>>

Before == {"root", "cgroup", "clone", "maps", "park", "lsm", "net", "sync"}
Teardown == {"rmcg", "clr", "netdown", "rmroot", "sclr", "snet", "unlink"}
InServe == Serving \cup {"kill", "sclr", "snet", "unlink"}

\* By each place of main: what has been done for the child.
Prepared ==
  /\ sup \in {"park", "lsm", "net", "sync"} => "maps" \in done
  /\ sup \in {"lsm", "net", "sync"} => ("cg" \in res => "park" \in done)
  /\ sup \in {"net", "sync"} => "lsm" \in done
  /\ sup = "sync" => "net" \in done /\ (opt.egress => "slot" \in res)

\* The sync byte, and what it promises a child that is alive.
Synced ==
  /\ sync => /\ sup \notin Before
             /\ {"maps", "lsm", "net"} \subseteq done
             /\ "cg" \in res => "park" \in done
             /\ opt.egress /\ Alive => "slot" \in res
  /\ child \in {"setup", "confine", "run"} => sync

\* What is left in the world is recorded where the teardown looks.
Recorded ==
  /\ res \subseteq Residue
  /\ "rules" \in res => lsmOn \/ sup = "gone"
  /\ sup \in Before \ {"net", "sync"} => ~lsmOn
  /\ "slot" \in res => vethOn \/ daemon = "down" \/ sup = "gone"
  /\ {"sock", "info"} \cap res # {} => sup \in InServe \cup {"gone"}

\* The teardown, place by place.
TornDown ==
  /\ sup \in Teardown => child = "gone"
  /\ sup \in {"clr", "netdown", "rmroot"} => "cg" \notin res
  /\ sup \in {"netdown", "rmroot"} => ~lsmOn
  /\ sup = "rmroot" => ~vethOn
  /\ end = "bye" => sup = "gone" /\ GoodbyeLeavesNothing

IInv == Prepared /\ Synced /\ Recorded /\ TornDown
-----------------------------------------------------------------------------
\* The initial states satisfy the invariant.
LEMMA IInvInit == CellInit => IInv
BY DEF CellInit, Init, IInv, Prepared, Synced, Recorded, TornDown, Before, Teardown,
   InServe, Serving, GoodbyeLeavesNothing, Residue, Alive

\* A step that leaves what the invariant reads alone.
LEMMA IInvIdle == IInv /\ UNCHANGED core => IInv'
BY DEF core, IInv, Prepared, Synced, Recorded, TornDown, Before, Teardown, InServe,
   Serving, GoodbyeLeavesNothing, Residue, Alive

\* A step of main or of child_main, or a death, keeps the invariant.
LEMMA IInvLaunch == IInv /\ LaunchNext => IInv'
<1>. SUFFICES ASSUME IInv, LaunchNext PROVE IInv'
  OBVIOUS
<1>. USE DEF IInv, Prepared, Synced, Recorded, TornDown, Before, Teardown, InServe,
   Serving, GoodbyeLeavesNothing, Residue, Alive
<1>1. CASE MakeRoot
  BY <1>1 DEF MakeRoot
<1>2. CASE CgroupSetup
  BY <1>2 DEF CgroupSetup
<1>3. CASE Clone
  BY <1>3 DEF Clone, Die, SupEnds
<1>4. CASE WriteUidMaps
  BY <1>4 DEF WriteUidMaps, Die, SupEnds
<1>5. CASE Park
  BY <1>5 DEF Park
<1>6. CASE LsmRegister
  BY <1>6 DEF LsmRegister
<1>7. CASE VethRegister
  BY <1>7 DEF VethRegister, Refuse
<1>8. CASE Sync
  <2>1. CASE ~Alive /\ SupEnds("killed") /\ UNCHANGED sync
    BY <1>8, <2>1 DEF Sync, SupEnds
  <2>2. CASE Alive /\ sync' = TRUE /\ UNCHANGED <<end, child>>
    <3>1. /\ sup = "sync" /\ sup' \in {"recv", "bind", "wait"}
          /\ UNCHANGED <<opt, done, lsmOn, vethOn, res, daemon>>
      <4>. HIDE DEF IInv, Alive
      <4>. QED
        BY <1>8, <2>2 DEF Sync, SupEnds
    <3>. QED
      BY <2>2, <3>1
  <2>. QED
    BY <1>8, <2>1, <2>2 DEF Sync
<1>9. CASE Reap
  BY <1>9 DEF Reap
<1>10. CASE Tick
  BY <1>10 DEF Tick
<1>11. CASE RmCgroup
  BY <1>11 DEF RmCgroup
<1>12. CASE LsmUnregister("clr", "netdown")
  BY <1>12 DEF LsmUnregister
<1>13. CASE VethUnregister("netdown", "rmroot")
  BY <1>13 DEF VethUnregister
<1>14. CASE RmRoot
  BY <1>14 DEF RmRoot, SupEnds
<1>15. CASE Prctl
  BY <1>15 DEF Prctl
<1>16. CASE ReadSync
  BY <1>16 DEF ReadSync
<1>17. CASE Setup
  BY <1>17 DEF Setup
<1>18. CASE Confine
  BY <1>18 DEF Confine
<1>19. CASE ChildEnds
  BY <1>19 DEF ChildEnds
<1>20. CASE SupKilled
  BY <1>20 DEF SupKilled, SupEnds
<1>21. CASE DaemonDies
  BY <1>21 DEF DaemonDies
<1>. HIDE DEF IInv, Prepared, Synced, Recorded, TornDown, Before, Teardown, InServe,
   Serving, GoodbyeLeavesNothing, Residue, Alive
<1>. QED
  BY <1>1, <1>2, <1>3, <1>4, <1>5, <1>6, <1>7, <1>8, <1>9, <1>10, <1>11, <1>12,
     <1>13, <1>14, <1>15, <1>16, <1>17, <1>18, <1>19, <1>20, <1>21
     DEF LaunchNext, SupSteps, SupStarts, SupTears, ChildSetup

\* A step of the serve loop, of the jail's server or of a client.
LEMMA IInvServe == IInv /\ ServeNext => IInv'
<1>. SUFFICES ASSUME IInv, ServeNext PROVE IInv'
  OBVIOUS
<1>. USE DEF IInv, Prepared, Synced, Recorded, TornDown, Before, Teardown, InServe,
   Serving, GoodbyeLeavesNothing, Residue, Alive
<1>1. CASE Bind
  BY <1>1 DEF Bind, Die, SupEnds
<1>2. CASE SigStop
  BY <1>2 DEF SigStop
<1>3. CASE TestStop
  BY <1>3 DEF TestStop
<1>4. CASE EnterPoll
  BY <1>4 DEF EnterPoll
<1>5. CASE Poll
  BY <1>5 DEF Poll
<1>6. CASE Accept
  BY <1>6 DEF Accept
<1>7. CASE SendFd
  BY <1>7 DEF SendFd, SupEnds
<1>8. CASE Turn
  BY <1>8 DEF Turn
<1>9. CASE KillJail
  BY <1>9 DEF KillJail
<1>10. CASE LsmUnregister("sclr", "snet")
  BY <1>10 DEF LsmUnregister
<1>11. CASE VethUnregister("snet", "unlink")
  BY <1>11 DEF VethUnregister
<1>12. CASE Unlink
  BY <1>12 DEF Unlink
<1>13. CASE ServeJail \/ \E c \in Client : Connect(c)
  <2>1. UNCHANGED core
    BY <1>13 DEF ServeJail, JailRecv, HandleConn, Connect, launch, core
  <2>. QED
    BY <2>1, IInvIdle
<1>. HIDE DEF IInv, Prepared, Synced, Recorded, TornDown, Before, Teardown, InServe,
   Serving, GoodbyeLeavesNothing, Residue, Alive
<1>. QED
  BY <1>1, <1>2, <1>3, <1>4, <1>5, <1>6, <1>7, <1>8, <1>9, <1>10, <1>11, <1>12,
     <1>13 DEF ServeNext, ServeLoop

\* A step of the --ask loop, of the user or of a delegated call.
LEMMA IInvAsk == IInv /\ AskNext => IInv'
<1>. SUFFICES ASSUME IInv, AskNext PROVE IInv'
  OBVIOUS
<1>. USE DEF IInv, Prepared, Synced, Recorded, TornDown, Before, Teardown, InServe,
   Serving, GoodbyeLeavesNothing, Residue, Alive
<1>1. CASE RecvListener
  BY <1>1 DEF RecvListener
<1>2. CASE \E id \in DOMAIN calls : Take(id)
  BY <1>2 DEF Take
<1>3. CASE Answer
  BY <1>3 DEF Answer
<1>4. CASE PollIdle
  BY <1>4 DEF PollIdle
<1>5. CASE AskTurn
  BY <1>5 DEF AskTurn
<1>6. CASE Clock
  BY <1>6 DEF Clock
<1>7. CASE \E c \in Answers : Prompt(c)
  <2>1. /\ sup = "prompt" /\ sup' = "answer"
        /\ child' = child \/ (Alive /\ child' = "zombie")
    BY <1>7 DEF Prompt
  <2>2. UNCHANGED <<opt, end, sync, done, lsmOn, vethOn, res, daemon>>
    BY <1>7 DEF Prompt
  <2>. QED
    BY <2>1, <2>2
<1>8. CASE (\E nr \in Nr : ParkCall(nr)) \/ (\E id \in DOMAIN calls : ThreadDies(id))
  <2>1. UNCHANGED core
    BY <1>8 DEF ParkCall, ThreadDies, launch, core
  <2>. QED
    BY <2>1, IInvIdle
<1>. HIDE DEF IInv, Prepared, Synced, Recorded, TornDown, Before, Teardown, InServe,
   Serving, GoodbyeLeavesNothing, Residue, Alive
<1>. QED
  BY <1>1, <1>2, <1>3, <1>4, <1>5, <1>6, <1>7, <1>8 DEF AskNext, AskLoop

\* Every step keeps the invariant.
LEMMA IInvNext == IInv /\ [Next]_vars => IInv'
<1>. SUFFICES ASSUME IInv, [Next]_vars PROVE IInv'
  OBVIOUS
<1>1. CASE Launch(LaunchNext)
  BY <1>1, IInvLaunch DEF Launch
<1>2. CASE Serve(ServeNext)
  BY <1>2, IInvServe DEF Serve
<1>3. CASE AskStep(AskNext)
  BY <1>3, IInvAsk DEF AskStep
<1>4. CASE UNCHANGED vars
  <2>1. UNCHANGED core
    BY <1>4 DEF vars, launch, core
  <2>. QED
    BY <2>1, IInvIdle
<1>. QED
  BY <1>1, <1>2, <1>3, <1>4 DEF Next

\* The invariant holds throughout a run.
LEMMA IInvAlways == Spec => []IInv
<1>1. CellInit => IInv
  BY IInvInit
<1>2. IInv /\ [Next]_vars => IInv'
  BY IInvNext
<1>. QED
  BY <1>1, <1>2, PTL DEF Spec

\* The payload is never let past the sync pipe before its uid maps, cgroup,
\* rules and network are in place, in any mode and wherever the supervisor
\* or the daemon dies (sand.c 2018, 2430-2465).
THEOREM PayloadReadyAlways == Spec => []PayloadReady
<1>1. IInv => PayloadReady
  BY DEF IInv, Synced, PayloadReady
<1>. QED
  BY <1>1, IInvAlways, PTL

\* A cell asked to filter egress runs only with its network slot (sand.c
\* 1778-1786, 2450-2458).
THEOREM EgressOrNothingAlways == Spec => []EgressOrNothing
<1>1. IInv => EgressOrNothing
  BY DEF IInv, Synced, EgressOrNothing, Alive
<1>. QED
  BY <1>1, IInvAlways, PTL

\* A sand that reaches the end of main has reaped its child and left nothing
\* behind but what a failed registration or a dead daemon makes it leave
\* (sand.c 1374-1379, 2512-2515).
THEOREM GoodbyeAlways == Spec => []GoodbyeLeavesNothing
<1>1. IInv => GoodbyeLeavesNothing
  BY DEF IInv, TornDown, GoodbyeLeavesNothing
<1>. QED
  BY <1>1, IInvAlways, PTL
=============================================================================
