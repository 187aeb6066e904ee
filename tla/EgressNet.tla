----------------------------- MODULE EgressNet -----------------------------
(***************************************************************************)
(* The veth / NAT / egress half of `agentlsm serve` (src/src/agentlsm.c):  *)
(* the table of provisioned cells (g_nets), the bitmap of /30 subnets      *)
(* (g_netmap), the FORWARD chain the daemon edits one iptables call at a   *)
(* time, ip_forward and its save file, and the cells that ask for NETUP    *)
(* and NETDOWN.                                                            *)
(*                                                                         *)
(* The daemon is one thread, but the kernel sees every shell command it    *)
(* runs, and it can die between any two of them.  A handler therefore puts *)
(* the commands it will run in `todo`; RunCmd executes one of them, and    *)
(* the handler's next action is taken when `todo` is empty.                *)
(*                                                                         *)
(* A definition X_fault is a plausible fault in X's code; nothing uses it. *)
(* It shows which property would notice that fault.                        *)
(***************************************************************************)
EXTENDS Integers, Sequences, FiniteSets, SequencesExt

CONSTANTS
  Pid,        \* pids of the cells' init processes (never 0)
  NoPid,      \* the pid field of a free slot (0)
  NSlots,     \* entries of g_nets (64)
  NIdx,       \* /30 subnets of 10.200.0.0/16 (16384)
  Dst,        \* destinations, each an address and a port
  Meta,       \* the destination in 169.254.0.0/16
  NoDst,      \* a rule that names no destination
  MaxIps,     \* MAX_EG_IPS: addresses kept per cell
  Reqs,       \* the NETUP requests cells make
  Answers,    \* what resolving a name yields; {} is "no answer"
  MayFail,    \* shell commands that may fail for no reason of their own
  MaxFaults   \* bound: such failures, plus the times the daemon is killed

(* A request lists literal addresses and possibly a host name; `resolv`    *)
(* says whether it names the cell's resolvers (RESOLV).                    *)
ASSUME ConstantsOK ==
  /\ NSlots \in Nat \ {0} /\ NIdx \in Nat /\ NSlots <= NIdx
  /\ NoPid \notin Pid /\ Meta \in Dst /\ NoDst \notin Dst
  /\ IsFiniteSet(Dst) /\ MaxIps \in Nat /\ MaxFaults \in Nat
  /\ Reqs \subseteq [lits : SUBSET Dst, named : BOOLEAN, resolv : BOOLEAN]
  /\ Answers \subseteq SUBSET Dst

Slot == 1 .. NSlots
Idx == 0 .. NIdx - 1
Allowlisted(r) == r.lits # {} \/ r.named           \* n_eg > 0

VARIABLES
  npid, nidx, neg,      \* g_nets[s].pid, .idx and the set .eg[0 .. n_eg-1]
  netmap,               \* the bits set in g_netmap
  natOn, fwdSave,       \* g_nat_on, g_fwd_save
  daemon, job, todo,    \* the daemon's phase, handler and shell commands
  chain, masq,          \* the FORWARD chain, top first; the MASQUERADE rule
  link,                 \* link[i]: where the cell end of pair i is
  fwd, fwd0, saved,     \* ip_forward, its pre-daemon value, IPFWD_SAVE
  cell, req,            \* the cells and their requests
  granted, torn,        \* history: addresses granted, cells cut by a stop
  fails, crashes        \* history: spurious failures and crashes so far

mem  == <<npid, nidx, neg, netmap, natOn, fwdSave>>
kern == <<chain, masq, link, fwd, saved>>
hist == <<fwd0, granted, torn, crashes>>
vars == <<mem, daemon, job, todo, kern, cell, req, hist, fails>>

LiveSlots == {s \in Slot : npid[s] # NoPid}
FreeSlots_fault == {s - 1 : s \in Slot \ LiveSlots}   \* off by one: TypeOK
FreeSlots == Slot \ LiveSlots
FreeIdx_fault == Idx                      \* the bitmap is not consulted: LeaseSpec
FreeIdx == Idx \ netmap
Victims(p) == {s \in Slot : npid[s] = p}

----------------------------------------------------------------------------
(* Rules, and the commands that edit the kernel.                           *)

None == -1                                \* a rule that names no veth
Rule(i, act, d) == [idx |-> i, act |-> act, dst |-> d]
Accept(i, d) == Rule(i, "accept", d)
BaseRules(i) == <<Rule(i, "drop", NoDst), Rule(i, "est", NoDst), Rule(i, "dns", NoDst)>>
GlobalRules_fault == <<Rule(None, "drop", Meta), Rule(None, "src", NoDst),
                       Rule(None, "dst", NoDst)>>   \* order: MetadataBlocked
GlobalRules == <<Rule(None, "src", NoDst), Rule(None, "dst", NoDst),
                 Rule(None, "drop", Meta)>>

Each(op, rs) == [k \in DOMAIN rs |-> [op |-> op, rule |-> rs[k]]]
Host(op) == <<[op |-> op, rule |-> Rule(None, "-", NoDst)]>>
LinkDel(i) == <<[op |-> "linkdel", rule |-> Rule(i, "-", NoDst)]>>
Accepts(op, i, ds) ==
  LET q == SetToSeq(ds) IN Each(op, [k \in DOMAIN q |-> Accept(i, q[k])])

(* "-I FORWARD 1" puts each rule on top, so the chain ends up reading DNS, *)
(* ESTABLISHED, DROP.  Results are ignored.                                *)
egress_base_fault(i, add) == <<>>          \* malformed command: AllowlistEnforced
egress_base(i, add) == Each(IF add THEN "ins" ELSE "del", BaseRules(i))

(* net_down and net_cleanup_all, for one slot.                             *)
TeardownCmds_fault(s) == Accepts("del", nidx[s], neg[s]) \o LinkDel(nidx[s])  \* NoOrphanRules
TeardownCmds(s) ==
  Accepts("del", nidx[s], neg[s])
    \o (IF neg[s] # {} THEN egress_base(nidx[s], FALSE) ELSE <<>>)
    \o LinkDel(nidx[s])

(* The `fail:` path of net_up.                                             *)
RollbackCmds(s) ==
  Accepts("del", nidx[s], neg[s]) \o egress_base(nidx[s], FALSE) \o LinkDel(nidx[s])

(* Drop what is no longer wanted, then add what is missing.  "unacc" also  *)
(* forgets the rule, "acc" records it once it is in the kernel.            *)
egress_apply_fault(s, want) ==             \* never removes: AllowlistExact
  Accepts("acc", nidx[s], want \ neg[s])
egress_apply(s, want) == Accepts("unacc", nidx[s], neg[s] \ want)
                           \o Accepts("acc", nidx[s], want \ neg[s])

(* The save file is truncated, then written, before ip_forward is touched. *)
nat_ensure_fault ==                        \* saved too late: StopRestoresHost
  Host("fwd1") \o Host("trunc") \o Host("save") \o Host("masq") \o Each("ens", GlobalRules)
nat_ensure == Host("trunc") \o Host("save") \o Host("fwd1") \o Host("masq")
                \o Each("ens", GlobalRules)

nat_teardown == Host("unmasq") \o Each("del", GlobalRules)
                  \o Host("fwdback") \o Host("unsave")

(* iptables-save | grep vethh | sed s/-A/-D/ | iptables: of the chain as it *)
(* stands, delete the rules that name one of these veths.                  *)
Scrub(is) ==
  [k \in DOMAIN chain |-> [op |-> IF chain[k].idx \in is THEN "del" ELSE "skip",
                           rule |-> chain[k]]]

(* Every vethh* link, every rule that names one, one copy of each global   *)
(* rule, then ipfwd_recover.                                               *)
net_recover_startup ==
  [k \in 1 .. NIdx |-> [op |-> IF link[k - 1] # "none" THEN "linkdel" ELSE "skip",
                        rule |-> Rule(k - 1, "-", NoDst)]]
    \o Scrub(Idx)
    \o Host("unmasq") \o Each("del", GlobalRules)
    \o Host("fwdrec") \o Host("unsave")

----------------------------------------------------------------------------
Idle == [pc |-> "idle", s |-> 1, p |-> NoPid, failed |-> FALSE, want |-> {}]

Init == /\ npid = [s \in Slot |-> NoPid] /\ nidx = [s \in Slot |-> 0]
        /\ neg = [s \in Slot |-> {}] /\ netmap = {}
        /\ natOn = FALSE /\ fwdSave = -1
        /\ daemon = "stopped" /\ job = Idle /\ todo = <<>>
        /\ chain = <<>> /\ masq = FALSE /\ link = [i \in Idx |-> "none"]
        /\ fwd \in {0, 1} /\ fwd0 = fwd /\ saved = -2
        /\ cell = [p \in Pid |-> "new"]
        /\ req = [p \in Pid |-> [lits |-> {}, named |-> FALSE, resolv |-> FALSE]]
        /\ granted = [p \in Pid |-> {}] /\ torn = {}
        /\ fails = 0 /\ crashes = 0

(* The effect of one shell command or file write.  saved: -2 no file, -1   *)
(* an empty one, otherwise the value it holds.                             *)
ShellOps == {"ins", "ens", "del", "acc", "unacc", "linkdel", "masq", "unmasq"}
Spurious(op) == op \in MayFail /\ fails + crashes < MaxFaults /\ fails' = fails + 1
Inserts(c) == c.op \in {"ins", "acc"} \/ (c.op = "ens" /\ ~Contains(chain, c.rule))
Deletes(c) == c.op \in {"del", "unacc"}

Effect(c) ==
  /\ chain' = IF Inserts(c) THEN <<c.rule>> \o chain
              ELSE IF Deletes(c) THEN RemoveFirst(chain, c.rule) ELSE chain
  /\ link' = [i \in Idx |-> IF c.op = "linkdel" /\ c.rule.idx = i THEN "none" ELSE link[i]]
  /\ masq' = (c.op = "masq" \/ (masq /\ c.op # "unmasq"))
  /\ fwd' = CASE c.op = "fwd1" -> 1
              [] c.op = "fwdback" /\ fwdSave >= 0 -> fwdSave
              [] c.op = "fwdrec" /\ saved >= 0 -> saved
              [] OTHER -> fwd
  /\ saved' = CASE c.op = "trunc" -> -1
                [] c.op = "save" -> fwdSave
                [] c.op = "unsave" -> -2
                [] OTHER -> saved

(* The bookkeeping of egress_apply around egress_accept's result.          *)
NegAfter_fault(c, ok) ==                   \* result ignored: CountedInstalled
  CASE c.op = "acc" -> [neg EXCEPT ![job.s] = @ \cup {c.rule.dst}]
    [] c.op = "unacc" -> [neg EXCEPT ![job.s] = @ \ {c.rule.dst}]
    [] OTHER -> neg
NegAfter(c, ok) ==
  CASE c.op = "acc" /\ ok -> [neg EXCEPT ![job.s] = @ \cup {c.rule.dst}]
    [] c.op = "unacc" -> [neg EXCEPT ![job.s] = @ \ {c.rule.dst}]
    [] OTHER -> neg

(* sh(), fopen/fputs: one command of the running handler.  A shell command *)
(* may fail; egress_accept's result alone is looked at.                    *)
RunCmd ==
  /\ todo # <<>>
  /\ LET c == Head(todo) IN
     /\ todo' = Tail(todo)
     /\ \/ /\ Effect(c)
           /\ neg' = NegAfter(c, TRUE)
           /\ UNCHANGED <<job, fails>>
        \/ /\ c.op \in ShellOps /\ Spurious(c.op)
           /\ neg' = NegAfter(c, FALSE)
           /\ job' = [job EXCEPT !.failed = @ \/ c.op = "acc"]
           /\ UNCHANGED kern
  /\ UNCHANGED <<npid, nidx, netmap, natOn, fwdSave, daemon, cell, req, hist>>

At(pc) == daemon = "serving" /\ job.pc = pc /\ todo = <<>>
Goto(pc) == job' = [job EXCEPT !.pc = pc]

(* The reply to the client; one that vanished meanwhile never reads it.    *)
Reply(p, ok) == cell' = [cell EXCEPT ![p] = IF @ = "vanished" THEN "gone"
                                            ELSE IF ok THEN "running" ELSE "refused"]

----------------------------------------------------------------------------
(* NETUP.                                                                  *)

(* net_up: first free slot and first free index, or a refusal.             *)
NetUp(p) ==
  /\ At("idle") /\ cell[p] \in {"asking", "vanished"}
  /\ IF FreeSlots = {} \/ FreeIdx = {}
     THEN Reply(p, FALSE) /\ UNCHANGED <<mem, job>>
     ELSE LET s == Min(FreeSlots)
              i == Min(FreeIdx) IN
          /\ netmap' = netmap \cup {i}
          /\ nidx' = [nidx EXCEPT ![s] = i]
          /\ neg' = [neg EXCEPT ![s] = {}]
          /\ job' = [Idle EXCEPT !.pc = "link", !.s = s, !.p = p]
          /\ UNCHANGED <<npid, natOn, fwdSave, cell>>
  /\ UNCHANGED <<daemon, todo, kern, req, hist, fails>>

Rollback == Goto("rollback") /\ todo' = RollbackCmds(job.s)

(* ip link add.  If it fails (the name is taken, say) the old pair and     *)
(* every rule that names it are removed, and it is tried once more.        *)
AddLink ==
  /\ At("link")
  /\ LET i == nidx[job.s] IN
     \/ /\ link[i] = "none"
        /\ link' = [link EXCEPT ![i] = "host"]
        /\ Goto("move")
        /\ UNCHANGED <<todo, fails>>
     \/ /\ \/ link[i] # "none" /\ Goto("relink") /\ UNCHANGED fails
           \/ Spurious("link") /\ job' = [job EXCEPT !.pc = "relink", !.failed = TRUE]
        /\ todo' = LinkDel(i) \o Scrub({i})
        /\ UNCHANGED link
  /\ UNCHANGED <<mem, daemon, chain, masq, fwd, saved, cell, req, hist>>

(* One fault may make both attempts fail (job.failed).                     *)
ReAddLink ==
  /\ At("relink")
  /\ LET i == nidx[job.s] IN
     \/ /\ link[i] = "none"
        /\ link' = [link EXCEPT ![i] = "host"]
        /\ job' = [job EXCEPT !.pc = "move", !.failed = FALSE]
        /\ UNCHANGED todo
     \/ /\ link[i] # "none" \/ job.failed
        /\ Rollback
        /\ UNCHANGED link
  /\ UNCHANGED <<mem, daemon, chain, masq, fwd, saved, cell, req, hist, fails>>

(* The cell end goes into the cell's netns and the host end gets its       *)
(* address; both fail when the cell is gone.  Then nat_ensure.             *)
MoveLink ==
  /\ At("move")
  /\ \/ /\ cell[job.p] = "asking"
        /\ link' = [link EXCEPT ![nidx[job.s]] = job.p]
        /\ Goto("nat")
        /\ todo' = IF natOn THEN <<>> ELSE nat_ensure
        /\ fwdSave' = IF natOn THEN fwdSave ELSE fwd
        /\ UNCHANGED fails
     \/ /\ \/ cell[job.p] # "asking" /\ UNCHANGED fails
           \/ Spurious("link")
        /\ Rollback
        /\ UNCHANGED <<link, fwdSave>>
  /\ UNCHANGED <<npid, nidx, neg, netmap, natOn, daemon, chain, masq, fwd, saved,
                 cell, req, hist>>

(* The slot is claimed; a name without resolvers is refused (no_resolv);   *)
(* an allowlist gets its base rules; without one the cell is done.         *)
ClaimSlot ==
  /\ At("nat")
  /\ natOn' = TRUE
  /\ npid' = [npid EXCEPT ![job.s] = job.p]
  /\ LET r == req[job.p] IN
     CASE r.named /\ ~r.resolv -> Rollback /\ UNCHANGED cell
       [] Allowlisted(r) /\ ~(r.named /\ ~r.resolv) ->
            Goto("want") /\ todo' = egress_base(nidx[job.s], TRUE) /\ UNCHANGED cell
       [] OTHER -> job' = Idle /\ todo' = <<>> /\ Reply(job.p, TRUE)
  /\ UNCHANGED <<nidx, neg, netmap, fwdSave, daemon, kern, req, hist, fails>>

(* egress_want: the literals and the name's addresses; no answer for the   *)
(* name, or too many addresses, is an error.                               *)
Resolved(r, ans) == r.lits \cup (IF r.named THEN ans ELSE {})
WantOK(r, ans) == /\ r.named => ans # {}
                  /\ Cardinality(Resolved(r, ans)) <= MaxIps

ResolveAll ==
  /\ At("want")
  /\ \E ans \in Answers :
       LET r == req[job.p] IN
       IF WantOK(r, ans)
       THEN /\ todo' = egress_apply(job.s, Resolved(r, ans))
            /\ job' = [job EXCEPT !.pc = "apply", !.want = Resolved(r, ans)]
            /\ granted' = [granted EXCEPT ![job.p] = Resolved(r, ans)]
       ELSE Rollback /\ UNCHANGED granted
  /\ UNCHANGED <<mem, daemon, kern, cell, req, fwd0, torn, crashes, fails>>

(* A partial allowlist is refused.                                         *)
FinishUp ==
  /\ At("apply")
  /\ IF job.failed THEN Rollback /\ UNCHANGED cell
     ELSE job' = Idle /\ UNCHANGED todo /\ Reply(job.p, TRUE)
  /\ UNCHANGED <<mem, daemon, kern, req, hist, fails>>

FreeSlot_fault(s) == /\ npid' = [npid EXCEPT ![s] = NoPid]    \* bit kept: LeasesExact
                     /\ neg' = [neg EXCEPT ![s] = {}]
                     /\ UNCHANGED netmap
FreeSlot(s) == /\ netmap' = netmap \ {nidx[s]}
               /\ npid' = [npid EXCEPT ![s] = NoPid]
               /\ neg' = [neg EXCEPT ![s] = {}]

FinishRollback ==
  /\ At("rollback")
  /\ FreeSlot(job.s) /\ job' = Idle /\ Reply(job.p, FALSE)
  /\ UNCHANGED <<nidx, natOn, fwdSave, daemon, todo, kern, req, hist, fails>>

----------------------------------------------------------------------------
(* egress_refresh: any live cell with an allowlist may be due.  A failed   *)
(* resolution keeps the installed set (no step); egress_apply's failures   *)
(* are not looked at.                                                      *)
Refresh(s) ==
  /\ At("idle") /\ s \in LiveSlots
  /\ LET p == npid[s] IN
     /\ Allowlisted(req[p])
     /\ \E ans \in Answers :
          /\ WantOK(req[p], ans)
          /\ todo' = egress_apply(s, Resolved(req[p], ans))
          /\ job' = [Idle EXCEPT !.pc = "refresh", !.s = s, !.p = p,
                                 !.want = Resolved(req[p], ans)]
          /\ granted' = [granted EXCEPT ![p] = @ \cup Resolved(req[p], ans)]
  /\ UNCHANGED <<mem, daemon, kern, cell, req, fwd0, torn, crashes, fails>>

FinishRefresh ==
  /\ At("refresh")
  /\ job' = Idle
  /\ granted' = [granted EXCEPT ![job.p] = job.want]
  /\ UNCHANGED <<mem, daemon, todo, kern, cell, req, fwd0, torn, crashes, fails>>

----------------------------------------------------------------------------
(* NETDOWN and the daemon's own exit: the same loop over the slots of one  *)
(* pid, or over all of them (job.p = NoPid).                               *)

NetDown(p) ==
  /\ At("idle") /\ cell[p] = "exited"
  /\ job' = [Idle EXCEPT !.pc = "down", !.p = p]
  /\ UNCHANGED <<mem, daemon, todo, kern, cell, req, hist, fails>>

Doomed == IF job.p = NoPid THEN LiveSlots ELSE Victims(job.p)

TeardownSlot ==
  /\ job.pc = "down" /\ todo = <<>> /\ Doomed # {}
  /\ job' = [job EXCEPT !.pc = "free", !.s = Min(Doomed)]
  /\ todo' = TeardownCmds(Min(Doomed))
  /\ UNCHANGED <<mem, daemon, kern, cell, req, hist, fails>>

SlotDown ==
  /\ job.pc = "free" /\ todo = <<>>
  /\ FreeSlot(job.s) /\ Goto("down")
  /\ UNCHANGED <<nidx, natOn, fwdSave, daemon, todo, kern, cell, req, hist, fails>>

NetDownReply ==
  /\ At("down") /\ Doomed = {}
  /\ job' = Idle
  /\ cell' = [cell EXCEPT ![job.p] = "gone"]
  /\ UNCHANGED <<mem, daemon, todo, kern, req, hist, fails>>

(* SIGTERM: the loop ends after the current request, net_cleanup_all runs. *)
Stop ==
  /\ At("idle")
  /\ daemon' = "stopping"
  /\ job' = [Idle EXCEPT !.pc = "down"]
  /\ torn' = torn \cup {p \in Pid : cell[p] = "running"}
  /\ UNCHANGED <<mem, todo, kern, cell, req, fwd0, granted, crashes, fails>>

CleanupNat ==
  /\ daemon = "stopping" /\ job.pc = "down" /\ todo = <<>> /\ Doomed = {}
  /\ todo' = IF natOn THEN nat_teardown ELSE <<>>
  /\ natOn' = FALSE
  /\ Goto("off")
  /\ UNCHANGED <<npid, nidx, neg, netmap, fwdSave, daemon, kern, cell, req, hist, fails>>

(* The process ends: its memory is gone and its clients read EOF.          *)
Die ==
  /\ npid' = [s \in Slot |-> NoPid] /\ nidx' = [s \in Slot |-> 0]
  /\ neg' = [s \in Slot |-> {}] /\ netmap' = {}
  /\ natOn' = FALSE /\ fwdSave' = -1
  /\ job' = Idle /\ todo' = <<>>
  /\ cell' = [p \in Pid |-> CASE cell[p] = "asking" -> "refused"
                              [] cell[p] = "vanished" -> "gone"
                              [] OTHER -> cell[p]]

Exit ==
  /\ daemon = "stopping" /\ job.pc = "off" /\ todo = <<>>
  /\ daemon' = "stopped"
  /\ Die
  /\ UNCHANGED <<kern, req, hist, fails>>

(* kill -9 between any two commands.                                       *)
Crash ==
  /\ daemon \in {"starting", "serving", "stopping"} /\ fails + crashes < MaxFaults
  /\ daemon' = "crashed"
  /\ crashes' = crashes + 1
  /\ Die
  /\ UNCHANGED <<kern, req, fwd0, granted, torn, fails>>

(* serve_mode up to its loop.  daemon_lock admits one daemon at a time.    *)
Start ==
  /\ daemon \in {"stopped", "crashed"}
  /\ daemon' = "starting"
  /\ todo' = net_recover_startup
  /\ UNCHANGED <<mem, job, kern, cell, req, hist, fails>>

Serve ==
  /\ daemon = "starting" /\ todo = <<>>
  /\ daemon' = "serving"
  /\ UNCHANGED <<mem, job, todo, kern, cell, req, hist, fails>>

----------------------------------------------------------------------------
(* The cells: `sand --net veth` asks before it lets the payload start, and *)
(* sends NETDOWN after it has reaped the payload.  A supervisor that is    *)
(* killed takes its cell with it and sends nothing.                        *)

Ask(p, r) ==
  /\ daemon = "serving" /\ cell[p] = "new"
  /\ cell' = [cell EXCEPT ![p] = "asking"] /\ req' = [req EXCEPT ![p] = r]
  /\ UNCHANGED <<mem, daemon, job, todo, kern, hist, fails>>

PayloadExit(p) ==
  /\ cell[p] = "running"
  /\ cell' = [cell EXCEPT ![p] = IF daemon = "serving" THEN "exited" ELSE "gone"]
  /\ UNCHANGED <<mem, daemon, job, todo, kern, req, hist, fails>>

KillSupervisor(p) ==
  /\ cell[p] \in {"asking", "running", "exited"}
  /\ cell[p] = "exited" => job.p # p
  /\ cell' = [cell EXCEPT ![p] = IF @ = "asking" THEN "vanished" ELSE "gone"]
  /\ UNCHANGED <<mem, daemon, job, todo, kern, req, hist, fails>>

(* The kernel destroys the netns of a dead cell, and with it the pair.     *)
NetnsGone(i) ==
  /\ link[i] \in Pid /\ cell[link[i]] \notin {"asking", "running"}
  /\ link' = [link EXCEPT ![i] = "none"]
  /\ UNCHANGED <<mem, daemon, job, todo, chain, masq, fwd, saved, cell, req, hist, fails>>

Next ==
  \/ RunCmd \/ AddLink \/ ReAddLink \/ MoveLink \/ ClaimSlot \/ ResolveAll \/ FinishUp
  \/ FinishRollback \/ FinishRefresh \/ TeardownSlot \/ SlotDown \/ NetDownReply
  \/ Stop \/ CleanupNat \/ Exit \/ Crash \/ Start \/ Serve
  \/ \E p \in Pid : \/ NetUp(p) \/ NetDown(p) \/ PayloadExit(p) \/ KillSupervisor(p)
                    \/ \E r \in Reqs : Ask(p, r)
  \/ \E s \in Slot : Refresh(s)
  \/ \E i \in Idx : NetnsGone(i)

Spec == Init /\ [][Next]_vars

----------------------------------------------------------------------------
(* Properties.                                                             *)

Rules == [idx : Idx \cup {None}, dst : Dst \cup {NoDst},
          act : {"drop", "est", "dns", "accept", "src", "dst", "-"}]
Ops == ShellOps \cup {"skip", "trunc", "save", "fwd1", "fwdback", "fwdrec", "unsave"}
Cmds == {c \in [op : Ops, rule : Rules] : c.op = "acc" => c.rule.dst \in Dst}
Requests == [lits : SUBSET Dst, named : BOOLEAN, resolv : BOOLEAN]
CellState == {"new", "asking", "vanished", "running", "refused", "exited", "gone"}
Pc == {"idle", "link", "relink", "move", "nat", "want", "apply", "rollback", "refresh",
       "down", "free", "off"}

MemType == /\ npid \in [Slot -> Pid \cup {NoPid}] /\ nidx \in [Slot -> Idx]
           /\ neg \in [Slot -> SUBSET Dst] /\ netmap \subseteq Idx
           /\ natOn \in BOOLEAN /\ fwdSave \in -1 .. 1
JobType == /\ daemon \in {"stopped", "starting", "serving", "stopping", "crashed"}
           /\ job \in [pc : Pc, s : Slot, p : Pid \cup {NoPid}, failed : BOOLEAN,
                       want : SUBSET Dst]
           /\ todo \in Seq(Cmds)
KernType == /\ chain \in Seq(Rules) /\ masq \in BOOLEAN
            /\ link \in [Idx -> {"none", "host"} \cup Pid]
            /\ fwd \in {0, 1} /\ saved \in -2 .. 1
CellType == /\ cell \in [Pid -> CellState] /\ req \in [Pid -> Requests]
            /\ granted \in [Pid -> SUBSET Dst] /\ torn \subseteq Pid

(* The variables hold what the C declarations let them hold, and the       *)
(* handler's slot and pid are a slot and a pid.                            *)
TypeOK == MemType /\ JobType /\ KernType /\ CellType

(* The slots that own an index: the live ones, and the one net_up or a     *)
(* teardown is working on.                                                 *)
Building == job.pc \in {"link", "relink", "move", "nat", "want", "apply", "rollback"}
Owners == LiveSlots \cup (IF Building THEN {job.s} ELSE {})

(* A bit of g_netmap is set exactly when a slot owns that /30, and no two  *)
(* slots own the same one: net_up never hands out an address range in use  *)
(* and no teardown or rollback leaks one (agentlsm.c net_up, net_down).    *)
LeasesExact ==
  /\ netmap = {nidx[s] : s \in Owners}
  /\ \A s, t \in Owners : nidx[s] = nidx[t] => s = t

(* What the running handler knows about its slot.  With TypeOK and         *)
(* LeasesExact this is inductive: net_up may overwrite nidx[job.s] and     *)
(* claim the slot because no other handler runs in between.                *)
JobOK ==
  /\ job.pc \in {"link", "relink", "move", "nat"} => job.p \in Pid /\ npid[job.s] = NoPid
  /\ job.pc \in {"want", "apply"} => job.p \in Pid /\ npid[job.s] = job.p
  /\ job.pc = "rollback" => job.p \in Pid /\ npid[job.s] \in {NoPid, job.p}
  /\ job.pc = "free" => npid[job.s] # NoPid
IInv == TypeOK /\ LeasesExact /\ JobOK

(* Which destinations the FORWARD chain lets a new connection of veth i    *)
(* reach: the first rule that matches decides.  "est" and "dns" never      *)
(* match a new TCP connection; an empty chain accepts.                     *)
Matches(r, i, d) == \/ r.idx = i /\ r.act = "drop"
                    \/ r.idx = i /\ r.act = "accept" /\ r.dst = d
                    \/ r.idx = None /\ r.act = "src"
                    \/ r.idx = None /\ r.act = "drop" /\ r.dst = d
Passes(i, d) == LET hits == {k \in DOMAIN chain : Matches(chain[k], i, d)}
                IN  hits = {} \/ chain[Min(hits)].act # "drop"
Reach(p) == {d \in Dst : \E i \in Idx : link[i] = p /\ Passes(i, d)}
Restricted == {p \in Pid : cell[p] = "running" /\ Allowlisted(req[p])}

(* A running cell with an allowlist reaches only addresses its hosts       *)
(* resolved to, whatever the daemon is doing for other cells, and after a  *)
(* crash and restart of the daemon (README: "everything else DROPs").      *)
(* Excepted: iptables failing, and cells cut off by a stopping daemon.     *)
AllowlistEnforced ==
  fails = 0 => \A p \in Restricted \ torn : Reach(p) \subseteq granted[p]

(* Between requests, a registered cell reaches exactly the last resolved   *)
(* set: a refresh leaves no stale ACCEPT and misses no new address.        *)
AllowlistExact ==
  fails = 0 /\ At("idle") =>
    \A p \in Restricted : Victims(p) # {} => Reach(p) = granted[p]

(* Between requests, every rule that names a veth belongs to the slot that *)
(* owns the index, so reusing it never grafts a dead cell's allowlist onto *)
(* a new cell (comment above net_recover_startup).                         *)
NoOrphanRules ==
  fails = 0 /\ At("idle") =>
    \A k \in DOMAIN chain :
      chain[k].idx # None => \E s \in LiveSlots :
        /\ nidx[s] = chain[k].idx /\ Allowlisted(req[npid[s]])
        /\ chain[k].act = "accept" => chain[k].dst \in neg[s]

(* Every rule the daemon counts is in the kernel, failures or not          *)
(* (comment on egress_accept: "callers must not account a rule that failed *)
(* to install").                                                           *)
CountedInstalled ==
  job.pc \notin {"rollback", "free"} =>
    \A s \in LiveSlots : \A d \in neg[s] : Contains(chain, Accept(nidx[s], d))

(* After a clean exit the host is as the daemon found it, whatever crashed *)
(* before: rules, links, ip_forward and its save file ("Everything the     *)
(* daemon touches ... is reversed on exit").                               *)
StopRestoresHost ==
  fails = 0 /\ daemon = "stopped" =>
    /\ chain = <<>> /\ ~masq /\ fwd = fwd0 /\ saved = -2
    /\ \A i \in Idx : link[i] = "none"

(* A cell without an allowlist reaches everything but the link-local       *)
(* metadata range, at any time.                                            *)
MetadataBlocked ==
  fails = 0 => \A p \in Pid : cell[p] = "running" /\ Meta \notin granted[p]
                                /\ p \notin torn => Meta \notin Reach(p)

(* The manual's stronger statement: per-cell rules go with their cell      *)
(* (README: "rules removed with the cell"), failed commands or not.        *)
RulesGoWithCell ==
  At("idle") => \A k \in DOMAIN chain :
    chain[k].idx # None => \E s \in LiveSlots : nidx[s] = chain[k].idx

(* The allocation implements NetLease: every step gives one cell one free  *)
(* /30, takes one back, or forgets them all.                               *)
Lease == INSTANCE NetLease WITH
           lease <- [p \in Pid |-> {nidx[s] : s \in Victims(p)}]
LeaseSpec == Lease!Spec
=============================================================================
