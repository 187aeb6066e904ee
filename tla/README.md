# A TLA+ model of AgentCell

AgentCell runs agents in Linux sandboxes ("cells"). `sand` builds a cell and
supervises it, `agentlsm serve` is the one root daemon of the host, and
libraries, a pool and a web example sit on top. This directory holds TLA+
modules translated from the source, TLC configurations that check them on small
instances, and TLAPS proofs for every size of the tables.

Paths below are relative to the repository; `PROJECT.json` maps every definition
that models code to its lines.

## Inventory

| Component | State | Operations | What makes it correct |
|---|---|---|---|
| Network half of the daemon (`src/agentlsm.c`) | `g_nets`, `g_netmap`, `g_nat_on`, `g_fwd_save`; in the kernel: veth pairs, FORWARD chain, MASQUERADE, ip_forward; on disk: the saved ip_forward | NETUP, NETDOWN, refresh, start-up recovery, clean exit | a subnet has one owner; a cell reaches exactly its allowlist; no rule outlives its cell; the host is restored |
| Control socket of the daemon (`src/agentlsm.c`, `src/netup_reply.h`) | `g_conn`: fd, watcher, buffer, drain | accept, read, split into lines, refuse and drain over-long lines, WATCH, fan-out, QUIT | what is executed is what was sent; connections stay up; every request is answered |
| Policy half of the daemon (`src/agentlsm.c`, `src/agentlsm.bpf.c`) | the maps `cells`, `cellpol`; the cursor of a walk | ADD, DEL, CLR, LIST; the file_open hook | an acknowledged rule is enforced; none is invented; a cell's rules go when it does |
| Exec protocol (`src/sand.c`) | the client's held-back bytes; socket, pipe | `client_exec`, `handle_conn` | output, stdin and status arrive intact; nobody waits forever |
| Serve supervisor (`src/sand.c`) | listen socket, socket pair to the jail, `g_stop` | `serve_loop`, `send_fd`, `jail_server` | a stop takes effect; a client is served or sees an end of file |
| Launch and teardown (`src/sand.c`) | namespaces, cgroup, sync pipe, `g_lsm_on`, `g_veth_on` | `main`, `child_main`, `lsm_register`, `net_veth_register`, `--timeout` | the payload starts only when everything is in place; what was set up is taken down |
| `--ask` (`src/sand.c`) | the parked system calls, `g_always` | `recv_fd`, `ask_handle`, the loop of `main` | an answer goes to the call that was shown |
| View of a cell (`src/sand.c`) | the mounts, the Landlock rules, the secrets | `do_mounts`, `landlock_apply` | only what was asked for can be written; binds and secrets are where they were asked for |
| Seccomp filter (`src/sand.c`, `src/arch/`) | the compiled program | `denylist_build`, `emit_bst`, `seccomp_apply` | every call gets the verdict of the table |
| Embedding (`src/libagentcell.c`, `rust/src/lib.rs`) | `g_recs`, sand's globals; `Child`, `API_LOCK` | spawn, release; wait, Drop | a cell is released completely and alone |
| `os/agentcelld/pool.py`, `src/agentmon.c`, one-shot modes of agentlsm, examples | - | - | not modelled, see the end |

How they meet: a cell's supervisor connects to the control socket and sends ADD
and NETUP before it lets its child go on, and CLR and NETDOWN after it has reaped
it. The daemon is one thread that looks in turn at kernel events, due refreshes,
one new connection, and each open connection. An exec client's connection is
passed by the supervisor into the jail, which then talks to the client directly.

The hard parts are the ones listed under `hazards` in `PROJECT.json`: the daemon
edits the kernel by some ten shell commands per request, each of which can fail,
and can be killed between any two of them; names move while cells run; bytes
arrive in arbitrary pieces; entries of fixed tables are reused; and three
processes exchange data through bounded buffers.

## Modules

| Module | Models |
|---|---|
| `NetLease` | what the allocation of /30 subnets promises: a cell acquires a subnet nobody holds, returns it, or all are forgotten |
| `EgressNet` | the network half of the daemon, its cells, crashes and restarts |
| `EgressNetLists`, `EgressNetTypes`, `EgressNetLease` | proofs about `EgressNet` |
| `CtlConn` | the control socket |
| `ExecPump` | one exec: client, jail, command |
| `LsmPolicy` | the policy half of the daemon, the hook, the cells and `sand lsm` |
| `SandLaunch` | `main` and `child_main` of one `sand`, from the first resource to the last |
| `SandServe`, `SandAsk` | what the supervisor does while the cell runs, in serve mode and with `--ask` |
| `SandCell` | the composition of the three |
| `SandCellProofs` | proofs about `SandCell` |
| `JailView` | mounts, secrets, Landlock, and what they let the payload write |
| `SeccompFilter` | the filter's compiler, and the kernel running its output |
| `JailSetup` | `child_main` from the mounts to the payload: the two before it in sequence |
| `LibAgentcell` | several cells of one process through the library and the Rust crate |
| `LibAgentcellInv`, `LibAgentcellSpawn`, `LibAgentcellProofs` | proofs about `LibAgentcell`: its inductive invariant, the steps of a spawn, the other steps and the theorems |
| `MC...` | instances for TLC |

A definition whose name ends in `_fault` (or `_over`, `_stuck`, `_early`) is a
plausible mistake in the definition after it. Nothing refers to it; it documents which property would
notice that mistake.

### EgressNet

The daemon is one thread, so a request is handled to its end before the next,
but the kernel sees each command. A handler puts the commands it runs into
`todo` and `RunCmd` executes one per step; `job` holds the handler's place and
slot. `RunCmd` may let a command fail (`MayFail`), with the bookkeeping the code
does for that command: only `egress_accept` looks at its result. `Crash` is
possible between any two commands and throws the memory away; `Start` runs
`net_recover_startup`.

| Action | Code |
|---|---|
| `NetUp`, `AddLink`, `ReAddLink`, `MoveLink`, `ClaimSlot`, `ResolveAll`, `FinishUp`, `FinishRollback` | `net_up`, in its order, and its `fail:` path |
| `Refresh`, `FinishRefresh` | `egress_refresh` with `egress_apply` |
| `NetDown`, `TeardownSlot`, `SlotDown`, `NetDownReply` | `net_down` |
| `Stop`, `CleanupNat`, `Exit` | SIGTERM and `net_cleanup_all` |
| `Crash`, `Start`, `Serve` | SIGKILL, and `serve_mode` up to its loop |
| `Ask`, `PayloadExit`, `KillSupervisor`, `NetnsGone` | the cells, and the kernel's removal of a dead netns |

Data: an address with its port is an element of `Dst`; what a resolver answers is
any element of `Answers`; the FORWARD chain is the sequence of rules, top first;
`Passes` is the kernel's first-match evaluation of it for a new connection.

### CtlConn

Positions of a client's input stand for its bytes, so a buffer's content says
where it came from. The loop of `serve_mode` is `Events`, `Accept`, then for each
entry `Skip` or `Read`, `ServeLine` once per complete line, `LinesDone` and
`CheckLong`. A write to a client that is gone fails and drops the connection; a
write to a client that does not read waits. Event classes (the watchers' masks)
are abstracted: every watcher gets every event. What a request does besides its
one reply is in the other modules. `spoilt` is history: the entries that were
freed by the failed refusal of an over-long line and are marked as draining.

### ExecPump

`ClientPoll`, `ClientStdin`, `ClientWrite` are `client_exec` after it has sent its
request; `JailHeader`, `JailPump`, `JailPipe`, `JailReap`, `JailTrailer` are
`handle_conn`; the command is any program (`CmdRead`, `CmdStartWrite`, `CmdWrite`,
`CmdExit`). `put_u32`/`get_u32` are modelled as the little-endian conversions they
are. A failed `fork`, whose -1 the loop compares with the -1 of `waitpid`, is the
command state `unborn`. Left out: background children
that keep the socket after the command's end.

### LsmPolicy

The hook runs on every open of the machine, on any processor, while the daemon
edits the maps with one system call after another; so each map operation of the
daemon and each lookup of the hook is a step. `AddRule`/`AddCell` are `cell_add`
(rule first, then cell), `Del` is `cell_del`, `WalkStart` with `ClrNext` is
`cell_clr` and with `ListNext` the LIST branch of `serve_line`. `GetNextKey` is the
kernel's: it goes on from a key that is in the map and starts over from one that
is not. `CellLookup` and `PrefixLookup` are the two parts of the hook for cells.

A path is a sequence of characters. A prefix longer than the buffer is stored cut
(`Trunc`), as the daemon's `snprintf` does; a path longer than the buffer makes
`bpf_d_path` fail and the open is allowed. An open in the hook carries two history
sets: the rules that were acknowledged when it began and were not withdrawn since,
and the rules asked for at any time since.

`LsmRegister`, `AddSend`, `AddReply`, `LsmUnregister`, `ClrReply` are a supervisor;
`LsmCmd`, `CmdReply` one invocation of `sand lsm`. `Die` frees the maps.

### SandLaunch, SandServe, SandAsk, SandCell

`sup` is the supervisor's place in `main` and `child` the child's in `child_main`;
they meet only at the sync message, at the listener `--ask` hands over, and in the
parent death signal. `res` is what exists in the world because of this run: root
directory, cgroup, rules, network slot, socket and `.info` file (`part`: rules of
a registration that failed half way). `done` records what has been done for the
child. `SupKilled` and `ChildEnds` are possible between any two steps, `DaemonDies`
too.

| Action | Code |
|---|---|
| `MakeRoot` ... `Sync` | `main` up to the sync message, in its order; `Refuse` is its way out without egress filtering |
| `Prctl`, `ReadSync`, `Setup`, `Confine` | `child_main` |
| `Reap`, `Tick`; `RmCgroup` ... `RmRoot` | waiting, with `--timeout`; the end of `main` |
| `Bind`, `TestStop`, `EnterPoll`, `Poll`, `Accept`, `SendFd`, `Turn`, `KillJail`, `Unlink` | `serve_loop`; the test of `g_stop` and the poll are two steps |
| `JailRecv`, `HandleConn` | `jail_server` |
| `RecvListener`, `Take`, `Prompt`, `Answer`, `PollIdle`, `AskTurn` | `recv_fd`, `ask_handle` and the loop around it |
| `ParkCall`, `ThreadDies`, `Clock`, `Connect`, `SigStop` | the payload, time, clients and signals |

`SandCell` joins them: a step of one part leaves the variables of the others alone,
except that deaths close connections and free parked calls. `gap` is history: the
last SIGTERM came between the test of `g_stop` and the poll. One command in serve
mode is `HandleConn`, whose inside is `ExecPump`; the daemon's answers to
registrations are those `LsmPolicy` and `EgressNet` can give.

### JailView, SeccompFilter, JailSetup

`do_mounts` is the list of its mounts in the code's order; `Mount` makes one,
`SkipStep` and `MountDies` are `warn2` and `die`. A path shows the latest mount
at or above it (`View`), and `Obj` is the file it names, which for a bind is the
host's. A recursive bind (`rec`) brings along the host's own mounts below its
source (`opt.sub`). The read-only remount fails for the sources in `opt.stuck` and
is then only warned about; where it succeeds it changes the bind and not the
mounts brought along, as the kernel does not apply MS_REMOUNT recursively. A
secret's destination is checked as text by `secret_add` and followed by the kernel
when it is written (`Led`), with its `..`, at a time when the new root still is a
directory of the host. Landlock rules belong to files and are inherited downwards
(`Granted`).

`seccomp_apply` computes the program from the architecture's table, with its
displacements modulo 256; `Load`, `Branch`, `Return` run it on one call. The
reference it is compared with, `Expected`, is the table itself.

The comment on `emit_bst` promises O(log n) steps per call. That is so for a
number in the list; one that is not walks through the right subtrees that lie
behind each left subtree it fell out of. The verdict is right in both cases.

### LibAgentcell

An owner is one `Child` of the crate with its thread. `SpawnBegin` ... `Sync` are
`agentcell_spawn` under `API_LOCK`, with a `...Dies` action for each `die` on the way,
`Waitpid` is outside the lock, `ReleaseBegin` ... `RmCgroup` are `agentcell_release`
under it. `g` holds sand's globals, which every spawn resets, `recs` the records.
`child_main` can die after the library has returned: its copy of `g_die_jmp` then
returns from a second `agentcell_spawn` inside the cell, the state `astray`.

The host program may reap a child itself (`HostReaps`); `waitpid` then fails and the
crate returns without a release (`WaitpidFails`), so that a dropped `Child` leaves its
record, cgroup and registrations behind. The daemon dies (its maps go, links and
rules stay), stops (`net_cleanup_all`) and starts (`net_recover_startup`). A request
of a release is lost when the daemon is gone or its connection table is full, and
nothing looks at the result; `missed` holds the cells to which that happened, until
the daemon stops or starts. `released` holds the cells whose release is complete.

## Runs

| Run | Configuration | Result |
|---|---|---|
| `egress` | 2 cells, 2 slots, 2 subnets, 3 destinations of which at most 2 may be kept, one failed command or crash anywhere | 8 invariants and the refinement of `NetLease` hold |
| `egress_rules_go` | the same, only ACCEPT insertions fail | `RulesGoWithCell` is violated |
| `ctl` | 2 clients, 1 entry, buffers of 2 bytes, one event | 4 properties hold |
| `exec` | socket of 2 bytes, pipe of 1, reads of 2, up to 4 bytes of stdin and 3 of output, a trailer of 2 | 5 properties hold |
| `exec_deadlock` | the same | `NeverDeadlock` is violated |
| `lsm` | 2 cells, one `sand lsm`, room for 1 cell and 2 rules, paths of up to 3 characters, one death of the daemon | 6 properties hold |
| `cell` | 5 command lines, 2 clients, a jail socket for 1, 2 delegated calls, a timeout of 1 tick | 9 properties hold |
| `cell_stop` | the same | `StopEnds` is violated |
| `setup` | some 3100 command lines; every call number up to 450 for both architectures | 4 properties hold |
| `setup_bind` | the same | `BindsArrive` is violated |
| `lib` | 2 threads, 2 records, 3 clones, a daemon that comes and goes | 3 properties hold |
| `lib_limits` | the same, cgroups delegated | `EveryCellLimited` is violated |

What the passing properties say:

- `LeasesExact`, `LeaseSpec`: no /30 is handed out twice, leaked or freed twice,
  through rollbacks, teardowns and crashes.
- `AllowlistEnforced`, `AllowlistExact`: a cell with an allowlist never reaches
  more than its names resolved to, and between requests exactly that, also while
  other cells come and go, during refreshes and after a restart of the daemon.
- `NoOrphanRules`: between requests every per-veth rule belongs to the slot that
  owns the index. `CountedInstalled`: a rule the daemon counts is in the kernel,
  even if commands fail.
- `MetadataBlocked`: no cell reaches the link-local range unless it asked for it.
- `StopRestoresHost`: after a clean exit the host is as before, whatever crashed
  earlier.
- `LinesIntact`: executed lines are the client's lines, whole, once, in order.
  `CutOnlyIfDone`: the daemon hangs up only after QUIT (or on a client that is
  gone or found the table full). `EventuallyServed`: every line that arrived from a
  client that sends no over-long line is executed, except for the next client of
  an entry that was freed while an over-long line was refused.
- `StatusExact`, `OnlyOutputPrinted`, `StdinIntact`: the exec client prints the
  command's output and nothing else, returns its status, and the command reads
  the client's stdin and then its end. A command that could not be started is
  reported with status 0. `Returns`: if stdin fits into the socket, a client whose
  command ended returns.
- `AckedIsEnforced`: an open that begins after the OK of an ADD and ends before the
  rule is withdrawn is refused, whatever else the daemon does to the maps while
  the hook runs. `DeniedWasAsked`: the rule that refuses an open was asked for and
  not withdrawn before the open began; a CLR leaves nothing to come back.
- `ExitClears`: a cell that ended with its rules armed has left nothing in either
  map, except through a `sand lsm deny` that reached the daemon after its CLR.
  `ListIsExact`, `RequestAnswered`: the walks miss nothing and end, although CLR
  deletes the key it stands on.
- `PayloadReady`: past the sync pipe, everything the parent does for the child is
  done, also when the parent dies on the way. `EgressOrNothing`: a cell that asked
  for filtered egress has its slot or is not started.
- `GoodbyeLeavesNothing`: a `sand` that reaches the end of `main` has reaped its child
  and left nothing, except the rules of a registration that failed half way and a
  slot whose NETDOWN finds no daemon.
- `ApprovedOnly`: a call proceeds only if the user said yes to that call, or always
  to its number. `StopTakesEffect`: after SIGTERM the
  supervisor ends, or it is in `poll` for ever because the signal came between the
  test and the poll and neither a client nor the jail's end has woken it since.
- `CellEnds`, `TimeoutEnds`: the supervisor ends after the child, and `--timeout` ends
  a one-shot run, unless the question of `--ask` is never answered.
  `EveryClientEnds`: every client that was let in gets its command's end or is cut
  off.
- `WritableWasAsked`: the payload writes no host file but those handed over for
  writing, the device nodes and the resolver's files, and of a directory given
  read-only at most what the remount left writable (it failed, or a file system of
  the host is mounted below), *and* only if Landlock is off or the directory is also
  under a path given for writing.
- `SecretsArrive`: whatever the command line mounts, a secret whose destination leads
  below a scratch directory is copied to the cell's memory and seen there.
  `BindsOutlast`: a bind shows its source where `do_mounts` mounts nothing of its own
  later.
- `FilterExact`: the filter fits its array, stays inside itself, and gives every
  call the table's verdict.
- `ReleasedIsGone`: once a cell is released, no record or cgroup of it exists any
  more, nor its rules and link, unless the daemon missed a request of the release and
  has not been stopped or started since. `KeepsItsOwn`: other spawns and releases
  take nothing from a live cell. `DropCompletes`: dropping a `Child` comes to an end
  while other threads wait for payloads that never do.

Properties with `fails = 0` are about runs without failing commands: the code
ignores the results of all commands but one, so with failures they do not hold.
`torn` excepts cells that were running when the daemon was told to stop: it
removes their rules before their links.

The violated properties are statements of the repository's own documents and
comments; `findings` in `PROJECT.json` quotes each and says what TLC shows. Each
trace follows the C code step by step:

1. A refresh that swaps the only address of a cell and fails to insert the new
   rule leaves `n_eg` at 0, and `net_down` then skips the base rules.
2. `client_exec` and `handle_conn` use blocking writes in both directions.
3. `serve_loop` tests `g_stop` and then polls without a timeout; a SIGTERM in between
   is not acted on until a client connects.
4. Custom binds are mounted before the scratch and kernel file systems, which then
   cover the ones below them, without a message.
5. `cgroup_setup` names the cgroup after `getpid()`, which all cells of an
   embedding process share; the second finds the name taken and runs without
   limits, and without the LSM registration that needs a cgroup.

Other places where the code does not do what a comment or document says have no run
of their own: the passing properties state exactly what happens instead.

- `drain = 1` is assigned to a connection entry that was just freed
  (`agentlsm.c:1051-1054`), and `accept` does not reset it, so that the first line of
  the entry's next client is swallowed; `struct conn` says that `drain` means
  "swallowing the tail of an over-long line". Exception of `EventuallyServed`.
- `fork` is not checked in `handle_conn`, and -1 is also what `waitpid` returns: the
  client is told 0 for a command that never ran (`README.md:460`: "exact exit code").
  Stated in `StatusExact`.
- A question of `--ask` is asked with a blocking read, during which `--timeout` ("kill
  payload after S seconds", `sand.c:2171`) is not looked at. Exception of `TimeoutEnds`.
- A read-only remount that failed is "still RO" by Landlock (`sand.c:148`) only if the
  directory is not also under a writable path; and `--bind-ro` and `--ro` leave the
  host's mounts below the directory writable when Landlock is off. Exception of
  `WritableWasAsked`.
- `--secret` "requires `DST` under `/tmp`, `/run` or `/var/tmp`", so that it "never lands
  on the host disk" (`README.md:418-419`): that is required of the text of `DST`, and
  with `..` in it the copy goes where the path leads. Exception of `SecretsArrive`.
- A path too long for the hook's buffer is allowed, where "files under a DENY prefix
  get -EPERM" (`agentlsm.bpf.c:5-7`). Condition of `AckedIsEnforced`.

### Bounds

Two cells are needed for one to reuse what another left, or to be provisioned
above the other's rules; a third adds nothing to the pairs. One fault per
behaviour suffices for each recovery path; two subnets let a freed one be reused
while the other is live. A buffer of two bytes has a line that fits, one that
fills it exactly, and one that overflows it; one entry makes reuse and refusal
frequent. Socket and pipe of two bytes and one are smaller than a chunk, so every
write can be cut. The trailer has two bytes instead of four; statuses fit.

The run `egress` does not reach the refusal of a full table, which needs more
cells than slots; the theorems cover it.

`lsm`: both maps are one entry smaller than the demand, so both refusals happen;
a prefix that does not fit is stored cut, and two nested paths and a prefix of
both have every outcome of the loop. `MaxDeaths` is 1: maps and registrations
start afresh after each. `cell`: each option occurs, with and without the ones it
interacts with; serve and one-shot modes exclude each other in `main`. Two clients
and a socket for one let the second wait in `sendmsg`. The two call numbers differ
by the word of `g_always` only, the case in which one bit could stand for both.
`setup`: up to two binds among ten positions relative to the other mounts and to
each other; the device and network variants are combined separately, as their
mounts do not meet; one mount of the host lies below both directories that are
bound. `lib`: of two threads one can wait, drop or release while the other spawns
or fails to, and a cell that was abandoned keeps a record, so that two records make
the table full; the number of clones (`MaxPid`) bounds
the run, and process ids are not reused.

### Fairness

`CtlConn`: weak fairness of the daemon's loop (its thread runs) and of `Recv`: a
client reads what it is sent. The code does not ensure the latter; without it a
watcher that stops reading stops the daemon (listed as a hazard). `ExecPump`: weak
fairness of the client's and the jail's code and of a write of the command that
can go on; none for the command's reads or its exit. `EgressNet` has no liveness
property: each request is a finite list of commands.

`LsmPolicy`: weak fairness of the daemon's loop. `SandCell`: weak fairness of the
supervisor's and the child's own steps, of the clock, and of a command's end. The
last is not the code's to ensure: a command that does not end keeps later clients
waiting. Nothing is assumed of the user's answers (`CellEnds` and `TimeoutEnds` say
so), of signals, deaths, clients or the payload. `LibAgentcell`: weak fairness of a thread inside `agentcell_spawn`;
strong fairness of one that releases, that is, the mutex is not always given to
others. Nothing makes a payload end.

Deadlock is checked in the runs of `EgressNet` and `CtlConn`. In the others the
system may stop: an exec, a cell, a launch or a set of library calls comes to its
end (and `exec` has the deadlock of finding 2).

## Proofs

`EgressNetLists`, `EgressNetTypes` and `EgressNetLease` prove, for all values of
the constants that satisfy `ConstantsOK` (in particular any number of cells, slots
and subnets, any resolver answers, and any number of failures and crashes):

- `TypeCorrect`: `Spec => []TypeOK`
- `LeasesCorrect`: `Spec => []LeasesExact`
- `LeaseRefinement`: `Spec => LeaseSpec`

`LeasesExact` is not inductive. It says that the bits of `g_netmap` are the
indices of the *owners*: the live slots and the one `net_up` is building. To know
that `ClaimSlot` or a rollback changes the right slot one needs what the handler
knows about it: that its slot is still free (until the claim), or holds its pid
(after it). That is `JobOK`, and `IInv == TypeOK /\ LeasesExact /\ JobOK` is
inductive (theorem `Inductive`). Type correctness needs that each command list a
handler queues is a list of commands; those are the lemmas of
`EgressNetLists`. In the refinement, `ClaimSlot` is `Acquire`, `FinishRollback` and
`SlotDown` are `Return` (or stutter, if the slot was never claimed), `Exit` and
`Crash` are `ForgetAll`, everything else stutters.

`SandCellProofs` proves, for all sets of command lines, clients and call numbers
and all bounds that satisfy the modules' assumptions,

- `PayloadReadyAlways`: `Spec => []PayloadReady`
- `EgressOrNothingAlways`: `Spec => []EgressOrNothing`
- `GoodbyeAlways`: `Spec => []GoodbyeLeavesNothing`

None is inductive: each is about the child or the end, and holds because of what
the supervisor knew earlier. The invariant `IInv` has four parts: what is prepared
at each place of `main` (`Prepared`), that the sync message was written only after
all of it and that the child past the pipe has read it (`Synced`), that `g_lsm_on`
and `g_veth_on` tell what is at the daemon as far as the teardown goes by them
(`Recorded`), and what has been undone at each place of the teardown (`TornDown`).

`LibAgentcellProofs`, on `LibAgentcellInv` and `LibAgentcellSpawn`, proves, for any number of threads, records and clones,

- `ReleasedIsGoneAlways`: `Spec => []ReleasedIsGone`
- `KeepsItsOwnAlways`: `Spec => []KeepsItsOwn`

`ReleasedIsGone` is about every cell released so far, in every later state: that
nothing of it comes back needs that what exists always has an owner. The invariant
says that the holder of `API_LOCK` is alone inside (`Locked`), how far each child has
come (`Children`), that every `Child` has a record and no two records are of one cell
(`Records`), who answers for the cgroup (`Cgroup`,
`CgroupOwned`), that rules at the daemon are noted in the record of their cell or in
the globals of the spawn in progress (`LsmNoted`) and kept while the cell lives
(`LsmKept`), what a release has already undone at each of its steps (`Cleared`), and
that of a released cell only what the daemon missed is left (`Gone`). One lemma per
action shows that it is kept (those of a spawn in `LibAgentcellSpawn`). The globals
matter only while their spawn holds the lock; that is the reason why overwriting
them is harmless.

Only model-checked: the properties about the FORWARD chain, everything in
`CtlConn`, `ExecPump`, `LsmPolicy`, `JailView` and `SeccompFilter`, the properties of
`SandCell` about clients and calls, and all liveness, which is outside the prover's
reach.

## Not modelled

- `os/agentcelld/pool.py`: a front end that starts and stops `sand serve`. Its lock
  covers `pick` and not `stop`, and nothing says what an EXEC that meets a STOP gets.
- `src/agentmon.c`: prints events of a ring buffer. The one-shot modes of agentlsm
  load a program, wait and unload it; the block window and the global policy map
  of the hook belong to them and do not change after the load.
- Event classes of watchers, and the reader's side of WATCH (`sand lsm -f`).
- Parsing: options, `parse_mem`, environment. The too-long branches of the NETUP
  request cannot be taken: 16 names and 4 resolvers of the lengths the parsers
  accept fit into its buffer.
- File permissions inside the cell, symlinks other than resolv.conf's, `..` in the
  destination of a bind; the x32 numbering of system calls.
- Background children of an exec'd command that keep its socket.
- In the library: the standard streams and `wait_with_output`, `try_wait`, `kill`
  alone, the reuse of process ids, the directory of the new root, which a release
  leaves behind, and the memory of the child's stack, which `agentcell_spawn` stores
  in the record and then clears (`libagentcell.c:179`), so that it is never freed.
- Examples, build scripts and generated headers, except the call tables.
