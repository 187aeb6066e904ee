------------------------------ MODULE LsmPolicy ------------------------------
(***************************************************************************)
(* The policy half of agentlsm and its users.  `agentlsm serve` keeps two  *)
(* BPF hash maps: cells, the registered cgroups, and cellpol, the denied   *)
(* prefixes keyed by <<cgroup, prefix>>.  The file_open hook reads them on *)
(* every open of the machine while the daemon changes them one system call *)
(* at a time, so each map operation is a step.  `sand --secure` registers  *)
(* its cell prefix by prefix at launch and clears it at exit; `sand lsm    *)
(* deny|allow|reset` changes a running cell; `sand lsm` lists the rules;   *)
(* the daemon can die, which frees its maps, and be started again; a       *)
(* supervisor can be killed.  Connections and their buffers are CtlConn's  *)
(* subject: here a request is the daemon's until it is answered.           *)
(*                                                                         *)
(* A path is a sequence of characters; PLEN is the size of the prefix and  *)
(* d_path buffers, the terminating NUL included.                           *)
(*                                                                         *)
(* A definition X_fault is a plausible fault in X's code; nothing uses it. *)
(***************************************************************************)
EXTENDS Integers, FiniteSets, Sequences, SequencesExt, FiniteSetsExt

CONSTANTS Cgid,       \* cgroup ids of the cells, one `sand` each
          User,       \* invocations of `sand lsm`
          Path,       \* the paths opened
          Prefix,     \* the prefixes named to `sand lsm`
          Deny,       \* each cell's --deny list
          PLEN,       \* size of the prefix and path buffers
          MaxCells,   \* max_entries of cells
          MaxPol,     \* max_entries of cellpol
          HashOrder,  \* the order in which cellpol's buckets are walked
          MaxDeaths,  \* bound: deaths of the daemon
          NoKey       \* the walk's zeroed first key, which is never a rule

\* A prefix as the daemon stores it: sscanf's %63s, snprintf's PLEN.
Trunc(p) == SubSeq(p, 1, Min({Len(p), PLEN - 1}))

AllPrefix == Prefix \cup UNION {Range(Deny[c]) : c \in Cgid}

Key == Cgid \X {Trunc(p) : p \in AllPrefix}

Request(prefixes) == [op : {"ADD", "DEL"}, cg : Cgid, pfx : prefixes]
                       \cup [op : {"CLR"}, cg : Cgid] \cup [op : {"LIST"}]

NoReq == [op |-> "none"]

Client == Cgid \cup User

ASSUME ConstantsOK ==
  /\ Cgid \cap User = {}
  /\ PLEN \in Nat \ {0, 1} /\ MaxCells \in Nat \ {0} /\ MaxPol \in Nat \ {0}
  /\ MaxDeaths \in Nat
  /\ \A p \in Path \cup AllPrefix : p \in Seq(Nat) /\ p # <<>>
  /\ \A c \in Cgid : Deny[c] \in Seq(AllPrefix) /\ Deny[c] # <<>>
  /\ IsInjective(HashOrder) /\ Range(HashOrder) = Key /\ NoKey \notin Key

VARIABLES cells,    \* registered cgroups
          cellpol,  \* rules
          up,       \* the daemon is running
          deaths,   \* daemon deaths so far
          job,      \* the client being served and the stage of its request
          cur,      \* get_next_key's cursor
          listed,   \* the rules written to a LIST client so far
          open,     \* the open whose hook is running, and what it must decide
          req,      \* each client's request
          rep,      \* the reply it has received
          st,       \* each cell's life
          nth,      \* index of the prefix being registered
          broken,   \* cells whose connection's daemon has died
          ust,      \* each `sand lsm` invocation
          acked,    \* history: rules a client was told are in force
          asked,    \* history: rules asked for and not withdrawn
          late      \* history: cells given a rule after their own CLR

maps == <<cells, cellpol>>
walk == <<job, cur, listed>>
daemon == <<up, deaths>>
wire == <<req, rep>>
cell == <<st, nth, broken>>
hist == <<acked, asked, late>>
vars == <<cells, cellpol, up, deaths, job, cur, listed, open, req, rep,
          st, nth, broken, ust, acked, asked, late>>

NoJob == [cl |-> NoKey, stage |-> "idle"]
NoOpen == [stage |-> "none"]

Init ==
  /\ cells = {} /\ cellpol = {}
  /\ up \in BOOLEAN /\ deaths = 0
  /\ job = NoJob /\ cur = NoKey /\ listed = {}
  /\ open = NoOpen
  /\ req = [cl \in Client |-> NoReq] /\ rep = [cl \in Client |-> "none"]
  /\ st = [c \in Cgid |-> "new"] /\ nth = [c \in Cgid |-> 0]
  /\ broken = {}
  /\ ust = [u \in User |-> "idle"]
  /\ acked = {} /\ asked = {} /\ late = {}

\* q is asked to be denied, and p lies under it.
Covers(q, p) == IsPrefix(q, p)
-----------------------------------------------------------------------------
(* The hook.  An open that is in it carries two histories: must, the rules *)
(* in force since it began, and may, those asked for at any time since,    *)
(* both of the opener's cell and over the path opened.                     *)

\* bpf_d_path fails when the path and its NUL do not fit the buffer.
DPathFits(p) == Len(p) < PLEN

InHook == open.stage \in {"enter", "loop"}
Decide(v) == open' = [stage |-> v]

\* The payload opens files from the end of the launch to the cell's end.
FileOpen(c, p) ==
  /\ up /\ ~InHook /\ st[c] \in {"on", "off"}
  /\ open' = [stage |-> "enter", cg |-> c, path |-> p, n |-> Len(p),
              must |-> {k \in acked : k[1] = c /\ Covers(k[2], p)},
              may |-> {k \in asked : k[1] = c /\ Covers(k[2], p)}]
  /\ UNCHANGED <<maps, daemon, walk, wire, cell, ust, hist>>

\* cell_file_open: one lookup for the cells that are not registered.
CellLookup ==
  /\ open.stage = "enter"
  /\ IF open.cg \in cells /\ DPathFits(open.path)
     THEN open' = [open EXCEPT !.stage = "loop"] ELSE Decide("allow")
  /\ UNCHANGED <<maps, daemon, walk, wire, cell, ust, hist>>

\* The lookups of the loop, longest prefix first; every rule is a denial,
\* so a hit decides.
RuleAt(n) == <<open.cg, SubSeq(open.path, 1, n)>>

PrefixLookup_fault ==
  /\ open.stage = "loop"
  /\ CASE RuleAt(open.n) \in cellpol -> Decide("deny")
       [] RuleAt(open.n) \notin cellpol /\ open.n <= 2 -> Decide("allow")
       [] OTHER -> open' = [open EXCEPT !.n = @ - 1]
  /\ UNCHANGED <<maps, daemon, walk, wire, cell, ust, hist>>
PrefixLookup ==
  /\ open.stage = "loop"
  /\ CASE RuleAt(open.n) \in cellpol -> Decide("deny")
       [] RuleAt(open.n) \notin cellpol /\ open.n = 1 -> Decide("allow")
       [] OTHER -> open' = [open EXCEPT !.n = @ - 1]
  /\ UNCHANGED <<maps, daemon, walk, wire, cell, ust, hist>>

\* Histories of the open, as rules are asked for and withdrawn.
Withdrawn(ks) == open' = IF InHook THEN [open EXCEPT !.must = @ \ ks] ELSE open
Asked(k) == open' = IF InHook /\ open.cg = k[1] /\ Covers(k[2], open.path)
                    THEN [open EXCEPT !.may = @ \cup {k}] ELSE open
-----------------------------------------------------------------------------
(* The daemon: serve_line, one request at a time.                          *)

StoredKey_fault(r) == <<r.cg, r.pfx>>
StoredKey(r) == <<r.cg, Trunc(r.pfx)>>
SameKey(r, ks) == {k \in ks : k[1] = r.cg /\ Trunc(k[2]) = Trunc(r.pfx)}
OfCell(c, ks) == {k \in ks : k[1] = c}

Reply(cl, what) ==
  /\ rep' = [rep EXCEPT ![cl] = what] /\ req' = [req EXCEPT ![cl] = NoReq]
  /\ job' = NoJob /\ cur' = NoKey /\ listed' = {}

Ready(cl, o) == up /\ job = NoJob /\ req[cl].op = o
InHand(cl, o, stage) == up /\ job = [cl |-> cl, stage |-> stage] /\ req[cl].op = o

\* A map takes a key it holds, or a new one while it has room.
Fits(m, k, max) == k \in m \/ Cardinality(m) < max

\* cell_add: the rule first, then the cell.
AddRule(cl) ==
  /\ Ready(cl, "ADD")
  /\ LET k == StoredKey(req[cl]) IN
       /\ asked' = asked \cup {k} /\ Asked(k)
       /\ late' = IF st[k[1]] = "gone" \/ (st[k[1]] = "clr" /\ rep[k[1]] # "none")
                  THEN late \cup {k[1]} ELSE late
       /\ \/ /\ Fits(cellpol, k, MaxPol)
             /\ cellpol' = cellpol \cup {k} /\ job' = [cl |-> cl, stage |-> "cell"]
             /\ UNCHANGED <<wire, cur, listed>>
          \/ /\ ~Fits(cellpol, k, MaxPol) /\ Reply(cl, "ERR") /\ UNCHANGED cellpol
  /\ UNCHANGED <<cells, daemon, cell, ust, acked>>

AddCell(cl) ==
  /\ InHand(cl, "ADD", "cell")
  /\ LET c == req[cl].cg IN
       \/ /\ Fits(cells, c, MaxCells) /\ cells' = cells \cup {c}
          /\ acked' = acked \cup {<<c, req[cl].pfx>>} /\ Reply(cl, "OK")
       \/ ~Fits(cells, c, MaxCells) /\ Reply(cl, "ERR") /\ UNCHANGED <<cells, acked>>
  /\ UNCHANGED <<cellpol, daemon, cell, ust, asked, late, open>>

Del(cl) ==
  /\ Ready(cl, "DEL")
  /\ LET k == StoredKey(req[cl]) gone == SameKey(req[cl], acked) IN
       /\ Reply(cl, IF k \in cellpol THEN "OK" ELSE "ERR")
       /\ cellpol' = cellpol \ {k} /\ asked' = asked \ {k}
       /\ acked' = acked \ gone /\ Withdrawn(gone)
  /\ UNCHANGED <<cells, daemon, cell, ust, late>>

\* bpf_map_get_next_key: the rule after cur in bucket order; the first rule
\* when cur is not (or no longer) in the map.
GetNextKey(k) ==
  LET Pos == {i \in DOMAIN HashOrder : HashOrder[i] \in cellpol}
      After == IF k \in cellpol THEN {i \in Pos : \E j \in 1 .. i - 1 : HashOrder[j] = k}
               ELSE Pos
  IN  IF After = {} THEN NoKey ELSE HashOrder[Min(After)]

\* CLR and LIST walk cellpol from the zeroed key.
WalkStart(cl) ==
  /\ Ready(cl, "CLR") \/ Ready(cl, "LIST")
  /\ job' = [cl |-> cl, stage |-> "walk"] /\ cur' = NoKey /\ listed' = {}
  /\ LET gone == IF req[cl].op = "CLR" THEN OfCell(req[cl].cg, acked) ELSE {} IN
       acked' = acked \ gone /\ Withdrawn(gone)
  /\ UNCHANGED <<maps, daemon, wire, cell, ust, asked, late>>

\* cell_clr: delete what is the cell's, then the cell itself.
ClrNext_fault(cl) ==
  /\ InHand(cl, "CLR", "walk")
  /\ LET c == req[cl].cg IN
       /\ cells' = cells \ {c} /\ asked' = asked \ OfCell(c, asked)
       /\ Reply(cl, IF c \in cells THEN "OK" ELSE "ERR") /\ UNCHANGED cellpol
  /\ UNCHANGED <<daemon, cell, ust, acked, late, open>>
ClrNext_stuck(cl) ==
  /\ InHand(cl, "CLR", "walk")
  /\ LET nxt == GetNextKey(cur) c == req[cl].cg IN
       \/ /\ nxt # NoKey
          /\ IF nxt[1] = c THEN cur' = nxt /\ cellpol' = cellpol \ {nxt}
             ELSE UNCHANGED <<cur, cellpol>>
          /\ UNCHANGED <<cells, job, wire, asked, listed>>
       \/ /\ nxt = NoKey /\ cells' = cells \ {c} /\ asked' = asked \ OfCell(c, asked)
          /\ Reply(cl, IF c \in cells THEN "OK" ELSE "ERR") /\ UNCHANGED cellpol
  /\ UNCHANGED <<daemon, cell, ust, acked, late, open>>
ClrNext(cl) ==
  /\ InHand(cl, "CLR", "walk")
  /\ LET nxt == GetNextKey(cur) c == req[cl].cg IN
       \/ /\ nxt # NoKey /\ cur' = nxt
          /\ cellpol' = IF nxt[1] = c THEN cellpol \ {nxt} ELSE cellpol
          /\ UNCHANGED <<cells, job, wire, asked, listed>>
       \/ /\ nxt = NoKey /\ cells' = cells \ {c} /\ asked' = asked \ OfCell(c, asked)
          /\ Reply(cl, IF c \in cells THEN "OK" ELSE "ERR") /\ UNCHANGED cellpol
  /\ UNCHANGED <<daemon, cell, ust, acked, late, open>>

ListNext_fault(cl) ==
  /\ InHand(cl, "LIST", "walk")
  /\ LET nxt == GetNextKey(cur) IN
       \/ nxt # NoKey /\ cur' = nxt /\ listed' = listed \cup ({cur} \ {NoKey}) /\ UNCHANGED <<job, wire>>
       \/ nxt = NoKey /\ Reply(cl, "END")
  /\ UNCHANGED <<maps, daemon, cell, ust, hist, open>>
ListNext(cl) ==
  /\ InHand(cl, "LIST", "walk")
  /\ LET nxt == GetNextKey(cur) IN
       \/ nxt # NoKey /\ cur' = nxt /\ listed' = listed \cup {nxt} /\ UNCHANGED <<job, wire>>
       \/ nxt = NoKey /\ Reply(cl, "END")
  /\ UNCHANGED <<maps, daemon, cell, ust, hist, open>>

\* The daemon starts with empty maps; when it dies they are freed, its
\* clients read end of file, and a hook still running keeps the maps it has.
Start ==
  /\ ~up /\ up' = TRUE
  /\ UNCHANGED <<maps, deaths, walk, wire, cell, ust, hist, open>>

Die ==
  /\ up /\ up' = FALSE /\ deaths < MaxDeaths /\ deaths' = deaths + 1
  /\ cells' = {} /\ cellpol' = {} /\ acked' = {} /\ asked' = {}
  /\ job' = NoJob /\ cur' = NoKey /\ listed' = {}
  /\ rep' = [cl \in Client |-> IF req[cl] # NoReq THEN "EOF" ELSE rep[cl]]
  /\ req' = [cl \in Client |-> NoReq]
  /\ IF ~InHook THEN UNCHANGED open
     ELSE Decide(IF /\ open.cg \in cells /\ DPathFits(open.path)
                    /\ \E n \in 1 .. open.n : RuleAt(n) \in cellpol
                 THEN "deny" ELSE "allow")
  /\ broken' = {c \in Cgid : st[c] = "arm"}
  /\ UNCHANGED <<st, nth, ust, late>>
-----------------------------------------------------------------------------
(* sand: one supervisor per cell.                                          *)

Ask(cl, r) == req' = [req EXCEPT ![cl] = r] /\ rep' = [rep EXCEPT ![cl] = "none"]
Take(cl) == rep' = [rep EXCEPT ![cl] = "none"] /\ UNCHANGED req

\* lsm_register: connect, if --secure is given, the cell has its cgroup and
\* the daemon listens; otherwise the cell runs with g_lsm_on = 0.
LsmRegister(c) ==
  /\ st[c] = "new"
  /\ \/ st' = [st EXCEPT ![c] = "off"]
     \/ up /\ st' = [st EXCEPT ![c] = "arm"]
  /\ UNCHANGED <<maps, daemon, walk, wire, nth, broken, ust, hist, open>>

\* One ADD per prefix on the one connection.  Writing to a daemon that has
\* died raises SIGPIPE, which sand leaves at its default.
AddSend(c) ==
  /\ st[c] = "arm" /\ req[c] = NoReq /\ rep[c] = "none"
  /\ \/ /\ c \notin broken /\ nth' = [nth EXCEPT ![c] = @ + 1] /\ UNCHANGED st
        /\ Ask(c, [op |-> "ADD", cg |-> c, pfx |-> Deny[c][nth[c] + 1]])
     \/ c \in broken /\ st' = [st EXCEPT ![c] = "left"] /\ UNCHANGED <<nth, wire>>
  /\ UNCHANGED <<maps, daemon, walk, broken, ust, hist, open>>

\* Any other reply, or none, ends the registration: the rules added so far
\* stay, and g_lsm_on stays 0.
AddReply(c) ==
  /\ st[c] = "arm" /\ rep[c] # "none" /\ Take(c)
  /\ st' = [st EXCEPT ![c] = CASE rep[c] # "OK" -> "off"
                               [] nth[c] = Len(Deny[c]) -> "on"
                               [] OTHER -> "arm"]
  /\ UNCHANGED <<maps, daemon, walk, nth, broken, ust, hist, open>>

\* The cell ends: lsm_unregister, when it is on.
LsmUnregister_fault(c) ==
  /\ st[c] \in {"on", "off"}
  /\ st' = [st EXCEPT ![c] = "gone"]
  /\ UNCHANGED <<maps, daemon, walk, wire, nth, broken, ust, hist, open>>
LsmUnregister(c) ==
  /\ \/ /\ st[c] = "on" /\ up /\ st' = [st EXCEPT ![c] = "clr"]
        /\ Ask(c, [op |-> "CLR", cg |-> c])
     \/ /\ st[c] = "off" \/ (st[c] = "on" /\ ~up)
        /\ st' = [st EXCEPT ![c] = IF @ = "on" THEN "gone" ELSE "left"]
        /\ UNCHANGED wire
  /\ UNCHANGED <<maps, daemon, walk, nth, broken, ust, hist, open>>

ClrReply(c) ==
  /\ st[c] = "clr" /\ rep[c] # "none"
  /\ st' = [st EXCEPT ![c] = "gone"] /\ Take(c)
  /\ UNCHANGED <<maps, daemon, walk, nth, broken, ust, hist, open>>

\* SIGKILL: the cell ends with no CLR, as one that is off always does; a
\* request already sent is still served.
Killed(c) ==
  /\ st[c] \in {"arm", "on", "clr"} /\ st' = [st EXCEPT ![c] = "left"]
  /\ UNCHANGED <<maps, daemon, walk, wire, nth, broken, ust, hist, open>>
-----------------------------------------------------------------------------
(* sand lsm.                                                               *)

\* lsm_ctl_cmd and lsm_status.  resolve_target takes any number as a cgroup
\* id, and a name may be resolved long before the command is sent: the cell
\* can be in any state when the daemon reads it.
LsmCmd(u, r) ==
  /\ ust[u] = "idle"
  /\ ust' = [ust EXCEPT ![u] = IF up THEN "wait" ELSE "done"]
  /\ IF up THEN Ask(u, r) ELSE UNCHANGED wire
  /\ UNCHANGED <<maps, daemon, walk, cell, hist, open>>

CmdReply(u) ==
  /\ ust[u] = "wait" /\ rep[u] # "none"
  /\ ust' = [ust EXCEPT ![u] = "done"] /\ Take(u)
  /\ UNCHANGED <<maps, daemon, walk, cell, hist, open>>
-----------------------------------------------------------------------------
Serve(cl) == AddRule(cl) \/ AddCell(cl) \/ Del(cl) \/ WalkStart(cl) \/ ClrNext(cl) \/ ListNext(cl)

Next ==
  \/ \E cl \in Client : Serve(cl)
  \/ Start \/ Die \/ CellLookup \/ PrefixLookup
  \/ \E c \in Cgid : \/ LsmRegister(c) \/ AddSend(c) \/ AddReply(c)
                         \/ LsmUnregister(c) \/ ClrReply(c) \/ Killed(c)
  \/ \E c \in Cgid, p \in Path : FileOpen(c, p)
  \/ \E u \in User : (\E r \in Request(Prefix) : LsmCmd(u, r)) \/ CmdReply(u)

\* The daemon's loop goes on.
Fairness == WF_vars(\E cl \in Client : Serve(cl))

Spec == Init /\ [][Next]_vars /\ Fairness
-----------------------------------------------------------------------------
\* gone: ended through lsm_unregister's CLR; left: ended without one.
Life == {"new", "arm", "on", "off", "clr", "gone", "left"}

\* The maps never outgrow max_entries and hold only stored (truncated) keys;
\* at most one request is in the daemon's hands, and it is a pending one.
TypeOK ==
  /\ cells \subseteq Cgid /\ Cardinality(cells) <= MaxCells
  /\ cellpol \subseteq Key /\ Cardinality(cellpol) <= MaxPol
  /\ up \in BOOLEAN /\ deaths \in 0 .. MaxDeaths
  /\ job = NoJob \/ (job.cl \in Client /\ req[job.cl] # NoReq)
  /\ cur \in Key \cup {NoKey} /\ listed \subseteq Key
  /\ req \in [Client -> Request(AllPrefix) \cup {NoReq}]
  /\ rep \in [Client -> {"none", "OK", "ERR", "END", "EOF"}]
  /\ ust \in [User -> {"idle", "wait", "done"}]
  /\ st \in [Cgid -> Life] /\ broken \subseteq Cgid

\* A rule a client was told is in force is enforced: an open that begins
\* after the OK of the ADD ("effective immediately") and ends before the rule
\* is withdrawn is refused, whatever other rules and cells come and go while
\* the hook runs (agentlsm.bpf.c cell_file_open against agentlsm.c cell_add,
\* cell_del, cell_clr).  The rule must fit the path buffer: a longer path is
\* let through.
AckedIsEnforced ==
  [][up' /\ InHook /\ open'.stage = "allow" /\ DPathFits(open.path) => open.must = {}]_vars

\* The hook refuses only what somebody asked for: the rule that refuses an
\* open was asked for, and not withdrawn, when the open began or since.  In
\* particular a CLR leaves no rule that a later ADD for the same cell would
\* bring back into force.
DeniedWasAsked ==
  [][up' /\ InHook /\ open'.stage = "deny" => RuleAt(open.n) \in open.may]_vars

\* A cell that ended with its rules armed has left nothing behind, in either
\* map, unless `sand lsm deny` reached the daemon after its CLR: rules added
\* while it ran go with it (sand.c lsm_unregister).
ExitClears ==
  \A c \in Cgid : st[c] = "gone" /\ c \notin late =>
    c \notin cells /\ OfCell(c, cellpol) = {}

\* LIST reports exactly the rules in force: the walk with get_next_key misses
\* none and the daemon changes none meanwhile (agentlsm.c serve_line).
ListIsExact ==
  [][\A cl \in Client : req[cl].op = "LIST" /\ rep'[cl] = "END" => listed = cellpol]_vars

\* Every request is answered, or its client sees the daemon die: the walks of
\* CLR and LIST end although CLR deletes the key it stands on.
RequestAnswered == []<>(\A cl \in Client : req[cl] = NoReq)
=============================================================================
