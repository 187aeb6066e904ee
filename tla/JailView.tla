------------------------------ MODULE JailView ------------------------------
(***************************************************************************)
(* What the payload of a cell sees of the file system, and what it may     *)
(* write there: do_mounts builds the new root one mount after another,     *)
(* child_main pivots into it, landlock_apply attaches its rules.           *)
(*                                                                         *)
(* A path is the sequence of its names, inside the cell or on the host.    *)
(* A mount is what is mounted, where, from which host directory and        *)
(* whether it is read-only.  A secret's destination is a sequence of names *)
(* too, in which ".." may occur: secret_add looks at the text, the kernel  *)
(* at the directories.  The payload's file permissions are not modelled: a *)
(* path is writable when no mount flag and no Landlock rule forbids it.  A *)
(* path a Landlock rule names is taken to exist.                           *)
(* A definition X_fault is a plausible fault in X's code; nothing uses it. *)
(***************************************************************************)
EXTENDS Integers, Sequences, SequencesExt, FiniteSets, FiniteSetsExt

VARIABLES opt,       \* the command line and the host it meets
          plan,      \* what do_mounts has still to do
          mounts,    \* the mounts made, in order
          rules,     \* the Landlock rules: [obj, rw]
          kept,      \* the secrets written: [dst, obj]
          stage      \* where child_main is

jailVars == <<opt, plan, mounts, rules, kept, stage>>

Home == <<"home", "agent">>
Mnt(src) == <<"mnt", Last(src)>>          \* /mnt/<basename>
Scratch == {<<"tmp">>, <<"var", "tmp">>, <<"run">>}
NewRoot == <<"tmp", "root">>              \* g_newroot, a host directory

-----------------------------------------------------------------------------
(* Parsing.                                                                *)

\* secret_add: the text must begin with the name of a scratch directory.
secret_add(dst) == \E s \in Scratch : IsStrictPrefix(s, dst)

\* sand stops with a usage message when a destination is refused.
Accepted(o) == \A i \in DOMAIN o.secrets : secret_add(o.secrets[i])

\* Also how the kernel walks a path without symlinks.
normalize_path(segs) ==
  FoldLeft(LAMBDA out, tok :
             CASE tok = "."  -> out
               [] tok = ".." -> IF out = <<>> THEN out ELSE Front(out)
               [] OTHER      -> Append(out, tok),
           <<>>, segs)

-----------------------------------------------------------------------------
(* do_mounts, as the list of what it mounts.  A step whose failure is only *)
(* warned about is "soft"; the failure of another ends the child.          *)
Step(op, src, at, ro, rec, soft) ==
  [op |-> op, src |-> src, at |-> at, ro |-> ro, rec |-> rec, soft |-> soft]

bind_mount(src, at, ro, rec) == Step("bind", src, at, ro, rec, FALSE)
tmpfs_mount(at) == Step("tmpfs", <<>>, at, FALSE, FALSE, FALSE)

Each(s, F(_)) == [i \in DOMAIN s |-> F(s[i])]

\* mirror_top: a symlink of the host is copied, a directory is bound.
mirror_top(o) ==
  IF o.merged THEN <<>>
  ELSE Each(<<"bin", "sbin", "lib", "lib64">>,
            LAMBDA t : bind_mount(o.rootfs \o <<t>>, <<t>>, TRUE, TRUE))

\* bind_os_ro of /usr, /etc, /opt from the host or from --rootfs (os_src).
OsView(o) ==
  Each(<<"usr", "etc", "opt">>,
       LAMBDA t : bind_mount(o.rootfs \o <<t>>, <<t>>, TRUE, TRUE))
  \o mirror_top(o)

Workspace(o) ==
  <<IF o.workSize THEN tmpfs_mount(Home) ELSE bind_mount(o.work, Home, FALSE, FALSE)>>

MntBinds(o) ==
  Each(o.ro, LAMBDA s : bind_mount(s, Mnt(s), TRUE, TRUE))
  \o Each(o.rw, LAMBDA s : bind_mount(s, Mnt(s), FALSE, TRUE))

CustomBinds(o) == Each(o.binds, LAMBDA b : bind_mount(b.src, b.dst, b.ro, TRUE))

ScratchMounts(o) ==
  <<tmpfs_mount(<<"tmp">>)>>
  \o Each(o.ov, LAMBDA s : Step("overlay", s, Mnt(s), FALSE, FALSE, FALSE))
  \o <<tmpfs_mount(<<"var", "tmp">>), tmpfs_mount(<<"run">>)>>

Secrets(o) == Each(o.secrets, LAMBDA d : Step("secret", <<>>, d, FALSE, FALSE, TRUE))

\* Where /etc/resolv.conf leads: the file itself, or its symlink's target.
resolv_target(o) ==
  IF o.link = <<>> THEN <<"etc", "resolv.conf">>
  ELSE normalize_path(<<"etc">> \o o.link)

NetFiles(o) ==
  CASE o.net = "host" ->
         <<Step("bind", <<"run", "systemd">>, <<"run", "systemd">>, FALSE, TRUE, TRUE)>>
    [] o.net = "veth" /\ o.upstream ->
         <<bind_mount(<<"run", "systemd", "resolve", "resolv.conf">>,
                      resolv_target(o), FALSE, FALSE)>>
    [] OTHER -> <<>>

KernelFs ==
  <<Step("proc", <<>>, <<"proc">>, FALSE, FALSE, TRUE),
    Step("sysfs", <<>>, <<"sys">>, TRUE, FALSE, TRUE),
    Step("cgroup2", <<>>, <<"sys", "fs", "cgroup">>, TRUE, FALSE, TRUE)>>

Devices ==
  <<tmpfs_mount(<<"dev">>)>>
  \o Each(<<"null", "zero", "full", "random", "urandom">>,
          LAMBDA d : bind_mount(<<"dev", d>>, <<"dev", d>>, FALSE, FALSE))

\* The custom mounts made before the workspace is bound.
do_mounts_fault(o) ==
  <<tmpfs_mount(<<>>)>> \o OsView(o) \o CustomBinds(o) \o Workspace(o)
  \o MntBinds(o) \o ScratchMounts(o) \o Secrets(o)
  \o NetFiles(o) \o KernelFs \o Devices

\* The secrets written before the scratch directories are mounted.
do_mounts_early(o) ==
  <<tmpfs_mount(<<>>)>> \o OsView(o) \o Workspace(o) \o MntBinds(o)
  \o CustomBinds(o) \o Secrets(o) \o ScratchMounts(o)
  \o NetFiles(o) \o KernelFs \o Devices

do_mounts(o) ==
  <<tmpfs_mount(<<>>)>> \o OsView(o) \o Workspace(o) \o MntBinds(o)
  \o CustomBinds(o) \o ScratchMounts(o) \o Secrets(o)
  \o NetFiles(o) \o KernelFs \o Devices

-----------------------------------------------------------------------------
(* What a path shows: the latest mount at or above it.                     *)
View(p) == Max({i \in DOMAIN mounts : IsPrefix(mounts[i].at, p)})

HostDev == 0

\* The file p names: a host path below a bind mount, else one of its mount.
Obj(p) ==
  LET m == mounts[View(p)]
      rest == SubSeq(p, Len(m.at) + 1, Len(p))
  IN IF m.op = "bind" THEN [dev |-> HostDev, path |-> m.src \o rest]
     ELSE [dev |-> View(p), path |-> rest]

-----------------------------------------------------------------------------
JailInit(o) ==
  /\ opt = o /\ Accepted(o)
  /\ plan = do_mounts(o)
  /\ mounts = <<>> /\ rules = {} /\ kept = {}
  /\ stage = "mounts"

Todo == Head(plan)
Done == plan' = Tail(plan)

\* The soft steps that fail on this host: opt.refused holds their places.
Refused == Todo.soft /\ Todo.at \in opt.refused

\* The host's file systems mounted below a bind's source (opt.sub, in the order
\* the host mounted them): MS_REC binds them too.
Submounts ==
  IF Todo.rec THEN SelectSeq(opt.sub, LAMBDA m : IsStrictPrefix(Todo.src, m))
  ELSE <<>>

\* A mount.  The read-only remount of a bind is a second call, which fails for
\* the sources in opt.stuck and then leaves the bind as writable as it was.
\* It changes the one mount it names: MS_REC does not reach those below.
Mount ==
  /\ stage = "mounts" /\ plan # <<>> /\ Todo.op # "secret" /\ ~Refused
  /\ mounts' =
       Append(mounts, [op |-> Todo.op, src |-> Todo.src, at |-> Todo.at,
                       ro |-> /\ Todo.ro
                              /\ Todo.op = "bind" => Todo.src \notin opt.stuck])
       \o Each(Submounts,
               LAMBDA m : [op |-> "bind", src |-> m, ro |-> FALSE,
                           at |-> Todo.at \o SubSeq(m, Len(Todo.src) + 1, Len(m))])
  /\ Done
  /\ UNCHANGED <<opt, rules, kept, stage>>

\* Where a destination leads before pivot_root, when the new root is still a
\* directory of the host: the path in the cell, and the file.
Led(dst) == normalize_path(NewRoot \o dst)
InCell(dst) == IsPrefix(NewRoot, Led(dst))
CellPath(dst) == SubSeq(Led(dst), Len(NewRoot) + 1, Len(Led(dst)))
LedTo(dst) == IF InCell(dst) THEN Obj(CellPath(dst))
              ELSE [dev |-> HostDev, path |-> Led(dst)]

\* A secret is copied to where its destination leads now, unless that is
\* read-only: the open then fails, which is a warning.
WriteSecret ==
  /\ stage = "mounts" /\ plan # <<>> /\ Todo.op = "secret" /\ ~Refused
  /\ kept' = IF InCell(Todo.at) /\ mounts[View(CellPath(Todo.at))].ro THEN kept
             ELSE kept \cup {[dst |-> Todo.at, obj |-> LedTo(Todo.at)]}
  /\ Done
  /\ UNCHANGED <<opt, mounts, rules, stage>>

\* warn2: a soft step that fails is reported and left out, a secret's open or
\* write included.
SkipStep ==
  /\ stage = "mounts" /\ plan # <<>> /\ Refused
  /\ Done
  /\ UNCHANGED <<opt, mounts, rules, kept, stage>>

\* die: a mount that is not soft fails, or the mkdir before any step.  The
\* child ends and its mount namespace with it.
MountDies ==
  /\ stage = "mounts" /\ plan # <<>>
  /\ stage' = "dead"
  /\ plan' = <<>> /\ mounts' = <<>> /\ kept' = {}
  /\ UNCHANGED <<opt, rules>>

\* pivot_root, and the remount of / read-only, which may fail with a warning.
Pivot ==
  /\ stage = "mounts" /\ plan = <<>>
  /\ mounts' = [mounts EXCEPT ![1].ro = <<>> \notin opt.refused]
  /\ stage' = "landlock"
  /\ UNCHANGED <<opt, plan, rules, kept>>

\* The paths landlock_apply grants write access beneath.
RwPaths(o) ==
  Scratch \cup {<<"dev">>, Home}
    \cup {Mnt(o.rw[i]) : i \in DOMAIN o.rw}
    \cup {Mnt(o.ov[i]) : i \in DOMAIN o.ov}
    \cup {o.binds[i].dst : i \in {j \in DOMAIN o.binds : ~o.binds[j].ro}}

\* The paths it grants read access beneath.
RoPaths(o) ==
  {<<>>, <<"usr">>, <<"etc">>, <<"opt">>, <<"proc">>, <<"sys">>}
    \cup {Mnt(o.ro[i]) : i \in DOMAIN o.ro}
    \cup {o.binds[i].dst : i \in {j \in DOMAIN o.binds : o.binds[j].ro}}

\* A rule belongs to the file its path opens (ll_allow).
ll_allow(paths, rw) == {[obj |-> Obj(p), rw |-> rw] : p \in paths}

landlock_apply_fault ==
  /\ stage = "landlock"
  /\ rules' = IF opt.landlock
              THEN ll_allow(RwPaths(opt) \cup RoPaths(opt), TRUE)
              ELSE rules
  /\ stage' = "seccomp"
  /\ UNCHANGED <<opt, plan, mounts, kept>>

landlock_apply ==
  /\ stage = "landlock"
  /\ rules' = IF opt.landlock
              THEN ll_allow(RwPaths(opt), TRUE) \cup ll_allow(RoPaths(opt), FALSE)
              ELSE rules
  /\ stage' = "seccomp"
  /\ UNCHANGED <<opt, plan, mounts, kept>>

JailNext ==
  \/ Mount \/ WriteSecret \/ SkipStep \/ MountDies
  \/ Pivot \/ landlock_apply

-----------------------------------------------------------------------------
(* The kernel's answer to a write.                                         *)

\* Landlock adds up the rules of a file and of every directory above it, as
\* far as the root of the cell and through the mounts on the way.
Granted(p) ==
  \E n \in 0 .. Len(p) : [obj |-> Obj(SubSeq(p, 1, n)), rw |-> TRUE] \in rules

Writable(p) == ~mounts[View(p)].ro /\ (opt.landlock => Granted(p))

-----------------------------------------------------------------------------
(* Properties, of the state landlock_apply leaves, which lasts.  The paths *)
(* looked at are the mount points and what is just below them, under the   *)
(* names of the host directories given.                                    *)
Ready == stage = "seccomp"

Names == {"f"} \cup UNION {ToSet(opt.binds[i].src) : i \in DOMAIN opt.binds}

Places ==
  LET at == {mounts[i].at : i \in DOMAIN mounts}
  IN at \cup {Append(p, n) : p \in at, n \in Names}

\* The host directories the command line hands over for writing.
Asked(h) ==
  \/ ~opt.workSize /\ IsPrefix(opt.work, h)
  \/ \E i \in DOMAIN opt.rw : IsPrefix(opt.rw[i], h)
  \/ \E i \in DOMAIN opt.binds : ~opt.binds[i].ro /\ IsPrefix(opt.binds[i].src, h)

\* The mount p lies in was to be read-only and is not: its remount failed, or
\* it is one of the host's below a bind, which the remount does not reach.
LeftWritable(p) ==
  LET m == mounts[View(p)] IN
  ~m.ro /\ (m.src \in opt.stuck \/ m.src \in ToSet(opt.sub))

\* A path given for writing is at or above p, or shows a directory at or above
\* the host file p names.
UnderWritable(p) ==
  \E w \in RwPaths(opt) :
    \/ IsPrefix(w, p)
    \/ Obj(w).dev = Obj(p).dev /\ IsPrefix(Obj(w).path, Obj(p).path)

\* The payload can write no host file but those of the workspace, of --rw and
\* of --bind, the device nodes, and the resolver files do_mounts leaves to the
\* host's own permissions.  Of a directory given read-only it can write what
\* the remount left writable, if Landlock is off or if the directory is also
\* under a path given for writing: a Landlock grant belongs to the directory
\* and is inherited downwards, so that it is not "still RO" (the comment in
\* bind_mount) in that case, and "same, but read-only" (usage, --bind-ro) does
\* not hold of the host's mounts below the directory.
WritableWasAsked ==
  Ready => \A p \in Places :
    Obj(p).dev = HostDev /\ Writable(p) =>
      \/ Asked(Obj(p).path)
      \/ Obj(p).path[1] = "dev" \/ IsPrefix(<<"run", "systemd">>, Obj(p).path)
      \/ LeftWritable(p) /\ (opt.landlock => UnderWritable(p))

\* Every secret whose copy did not fail and whose destination leads below a
\* scratch directory is in the cell's own memory, never in a file of the host,
\* whatever the command line mounts there, and the payload finds it under its
\* name unless the host's resolver files cover it (the order of the mounts and
\* of the copies in do_mounts).  A destination that only begins with the name
\* of a scratch directory leads elsewhere.
SecretsArrive ==
  Ready => \A d \in ToSet(opt.secrets) :
    \/ d \in opt.refused
    \/ ~InCell(d) \/ ~secret_add(CellPath(d))
    \/ \E s \in kept :
         /\ s.dst = d /\ s.obj.dev # HostDev
         /\ \/ Obj(CellPath(d)) = s.obj
            \/ opt.net = "host" /\ IsPrefix(<<"run", "systemd">>, CellPath(d))
            \/ opt.net = "veth" /\ CellPath(d) = resolv_target(opt)

Shows(b) == Obj(b.dst) = [dev |-> HostDev, path |-> b.src]

\* Another bind of the command line, made later, covers it.
Replaced(i) ==
  \E j \in DOMAIN opt.binds : j > i /\ IsPrefix(opt.binds[j].dst, opt.binds[i].dst)

\* "--bind S:D mount host path S at path D inside the sandbox" (usage): D shows
\* S, unless the command line itself binds something else over it.
BindsArrive ==
  Ready => \A i \in DOMAIN opt.binds : Shows(opt.binds[i]) \/ Replaced(i)

\* A bind stays visible where do_mounts mounts nothing of its own afterwards:
\* outside the scratch and kernel directories and the overlays, in particular
\* below the workspace and below /mnt/NAME of --ro and --rw.
BindsOutlast ==
  Ready => \A i \in DOMAIN opt.binds :
    \/ Shows(opt.binds[i]) \/ Replaced(i)
    \/ \E c \in Scratch \cup {<<"proc">>, <<"sys">>, <<"dev">>}
                 \cup {Mnt(opt.ov[j]) : j \in DOMAIN opt.ov} :
         IsPrefix(c, opt.binds[i].dst)
=============================================================================
