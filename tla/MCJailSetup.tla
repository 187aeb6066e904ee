---------------------------- MODULE MCJailSetup ----------------------------
(* The command lines: up to two --bind or --bind-ro of a directory and of  *)
(* one inside it, below the workspace, a scratch directory, / and each     *)
(* other; or --ro, --rw and --overlay of directories of one name; secrets  *)
(* whose destinations contain "..".  The calls: every number up to the     *)
(* last of each table under a plain command line, with clone's flags, a    *)
(* foreign architecture and --ask.                                         *)
EXTENDS JailSetup

Plain ==
  [work |-> <<"w">>, workSize |-> FALSE, rootfs |-> <<>>, merged |-> TRUE,
   ro |-> <<>>, rw |-> <<>>, ov |-> <<>>, binds |-> <<>>, secrets |-> <<>>,
   net |-> "none", link |-> <<>>, upstream |-> TRUE,
   sub |-> <<>>, stuck |-> {}, refused |-> {}, landlock |-> TRUE, no_seccomp |-> TRUE]

A == <<"h", "a">>
AB == <<"h", "a", "b">>
B == <<"k", "a">>
ABM == <<"h", "a", "b", "m">>     \* mounted on the host

Bind == [src : {A, AB}, ro : BOOLEAN,
         dst : {<<"d">>, <<"d", "b">>, <<"home">>, Home \o <<"x">>, <<"tmp", "x">>}]

\* The read-only remounts succeed, fail, or miss a mount of the host below.
Remounts == {[stuck |-> {}, sub |-> <<>>], [stuck |-> {A, AB, B}, sub |-> <<>>],
             [stuck |-> {}, sub |-> <<ABM>>]}

BindOptions ==
  { [Plain EXCEPT !.binds = b, !.stuck = m.stuck, !.sub = m.sub, !.landlock = l,
                  !.secrets = <<<<"tmp", "x", "s">>>>] :
      b \in {<<>>} \cup {<<x>> : x \in Bind} \cup {<<x, y>> : x, y \in Bind},
      m \in Remounts, l \in BOOLEAN }

MntOptions ==
  { [Plain EXCEPT !.ro = r, !.rw = w, !.ov = o, !.stuck = m.stuck, !.sub = m.sub,
                  !.landlock = l, !.binds = b] :
      r, w, o \in {<<>>, <<A>>, <<B>>}, m \in Remounts, l \in BOOLEAN,
      b \in {<<>>, <<[src |-> AB, dst |-> <<"mnt", "a">>, ro |-> TRUE]>>,
             <<[src |-> A, dst |-> <<"mnt", "a">>, ro |-> TRUE],
               [src |-> A, dst |-> <<"d">>, ro |-> TRUE]>>} }

\* Destinations that lead into the workspace, out of the new root, from one
\* scratch directory into another, and to a read-only place.
Climbing == {<<"tmp", "..", "home", "agent", "s">>, <<"tmp", "..", "..", "s">>,
             <<"tmp", "..", "..", "tmp", "s">>, <<"run", "..", "var", "tmp", "s">>,
             <<"run", "..", "etc", "s">>}

SecretOptions ==
  { [Plain EXCEPT !.secrets = <<d, <<"run", "s">>>>, !.workSize = w, !.refused = f] :
      d \in Climbing, w \in BOOLEAN, f \in {{}, {<<"run", "s">>}} }

Stub == <<"..", "run", "systemd", "resolve", "stub">>

NetOptions ==
  { [Plain EXCEPT !.net = n, !.link = k, !.upstream = u, !.workSize = ~u,
                  !.merged = m, !.rootfs = IF m THEN <<>> ELSE <<"img">>,
                  !.secrets = s, !.refused = f] :
      n \in {"none", "host", "veth"}, k \in {<<>>, Stub}, u, m \in BOOLEAN,
      f \in {{}, {<<"run", "systemd">>, <<"proc">>, <<"sys">>,
                <<"sys", "fs", "cgroup">>, <<>>}},
      s \in {<<<<"run", "systemd", "s">>>>, <<<<"etc", "s">>>>,
             <<<<"var", "tmp", "s">>, <<"run", "s">>>>} }

Call(a, ask, arch, nr, flags) ==
  [arch |-> a, ask |-> ask,
   data |-> [o \in {OffNr, OffArch, OffArg0} |->
               CASE o = OffNr -> nr [] o = OffArch -> arch [] OTHER -> flags]]

Top == 450

Calls ==
  {Call(a, FALSE, NativeArch, n, 6) : a \in DOMAIN Arch, n \in 0 .. Top}
  \cup {Call(a, TRUE, NativeArch, n, 1) :
          a \in DOMAIN Arch, n \in {0, 56, 165, 220, 435, Top}}
  \cup {Call(a, FALSE, NativeArch, Arch[a].clone, f) : a \in DOMAIN Arch, f \in 0 .. 7}
  \cup {Call(a, FALSE, NativeArch + 1, 0, 0) : a \in DOMAIN Arch}

Still == Call("x86_64", FALSE, NativeArch, 0, 0)

MCScenes ==
  { [opt |-> o, call |-> Still] : o \in BindOptions \cup MntOptions
                                        \cup SecretOptions \cup NetOptions }
  \cup { [opt |-> [Plain EXCEPT !.no_seccomp = FALSE], call |-> c] : c \in Calls }
=============================================================================
