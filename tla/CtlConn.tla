------------------------------ MODULE CtlConn ------------------------------
(***************************************************************************)
(* The control socket of `agentlsm serve` (src/src/agentlsm.c, serve_mode  *)
(* and serve_line): a table of connections (g_conn), a fixed line buffer   *)
(* per connection, the drain state that swallows the rest of an over-long  *)
(* line, and the fan-out of kernel events to the connections that sent     *)
(* WATCH.                                                                  *)
(*                                                                         *)
(* A client's input is a sequence of bytes.  A buffer holds positions of   *)
(* that sequence, so that what the daemon takes for a line can be compared *)
(* with what the client wrote.  A byte is NL or one of a line of a kind:   *)
(* a request with one reply, WATCH, or QUIT.                               *)
(*                                                                         *)
(* A definition X_fault is a plausible fault in X's code; nothing uses it. *)
(***************************************************************************)
EXTENDS Integers, Sequences, FiniteSets, SequencesExt

CONSTANTS
  Client, NoClient,
  NConn,        \* MAX_WATCH: entries of g_conn
  CAP,          \* sizeof buf - 1: bytes a buffer holds before its final NUL
  Scripts,      \* what a client may send: sequences over {NL, Req, Watch, Quit}
  SockBuf,      \* bound: replies and events a client's socket holds unread
  MaxEvents     \* bound: kernel events

NL == 0
Req == 1
Watch == 2
Quit == 3

ASSUME ConstantsOK ==
  /\ NConn \in Nat \ {0} /\ CAP \in Nat \ {0} /\ NoClient \notin Client
  /\ Scripts \subseteq Seq({NL, Req, Watch, Quit})
  /\ SockBuf \in Nat \ {0} /\ MaxEvents \in Nat

Conn == 1 .. NConn

VARIABLES
  script, arrived,      \* a client's bytes, and how many are in its socket
  cst,                  \* "new", "queued", "open" (accepted), "closed", "cut"
  unread,               \* replies and events in the client's socket
  backlog,              \* the listen queue
  fd, buf, drain, watcher,   \* g_conn
  got,                  \* bytes read from each client so far
  pc, at,               \* where the loop is, and at which connection
  events,               \* kernel events seen so far
  served,               \* history: the lines executed, per client
  spoilt                \* history: entries freed while a line was refused, and
                        \* whose next client has not left

clients == <<script, arrived, cst, backlog>>
conns == <<fd, buf, drain, watcher, spoilt>>
vars == <<clients, unread, conns, got, pc, at, events, served>>

Byte(c, p) == script[c][p]
Avail(c) == arrived[c] - got[c]
Gone(c) == cst[c] = "closed"
(* write(): fails when the peer is gone, blocks when its socket is full.   *)
WriteOK(c) == ~Gone(c) /\ unread[c] < SockBuf
Deliver(c) == unread' = [unread EXCEPT ![c] = @ + 1]

Init ==
  /\ script \in [Client -> Scripts] /\ arrived = [c \in Client |-> 0]
  /\ cst = [c \in Client |-> "new"] /\ unread = [c \in Client |-> 0]
  /\ backlog = <<>>
  /\ fd = [i \in Conn |-> NoClient] /\ buf = [i \in Conn |-> <<>>]
  /\ drain = [i \in Conn |-> FALSE] /\ watcher = [i \in Conn |-> FALSE]
  /\ got = [c \in Client |-> 0]
  /\ pc = "events" /\ at = 1 /\ events = 0
  /\ served = [c \in Client |-> <<>>] /\ spoilt = {}

----------------------------------------------------------------------------
(* The clients.                                                            *)

Connect(c) ==
  /\ cst[c] = "new"
  /\ cst' = [cst EXCEPT ![c] = "queued"]
  /\ backlog' = Append(backlog, c)
  /\ UNCHANGED <<script, arrived, unread, conns, got, pc, at, events, served>>

(* Any number of bytes reaches the daemon's end at a time.                 *)
Send(c) ==
  /\ cst[c] \in {"queued", "open"}
  /\ \E n \in arrived[c] + 1 .. Len(script[c]) : arrived' = [arrived EXCEPT ![c] = n]
  /\ UNCHANGED <<script, cst, backlog, unread, conns, got, pc, at, events, served>>

Recv(c) ==
  /\ unread[c] > 0
  /\ unread' = [unread EXCEPT ![c] = @ - 1]
  /\ UNCHANGED <<clients, conns, got, pc, at, events, served>>

Close(c) ==
  /\ cst[c] \in {"queued", "open", "cut"}
  /\ cst' = [cst EXCEPT ![c] = "closed"]
  /\ UNCHANGED <<script, arrived, backlog, unread, conns, got, pc, at, events, served>>

----------------------------------------------------------------------------
(* The loop of serve_mode.                                                 *)

(* conn_drop: `len` keeps its value, accept resets it.  The client reads   *)
(* an end of file ("cut").  `drain` is cleared; d is what it is when the   *)
(* caller is done.                                                         *)
conn_drop_fault(i, d) ==
  /\ drain' = [drain EXCEPT ![i] = @ \/ d]
  /\ spoilt' = IF d THEN spoilt \cup {i} ELSE spoilt \ {i}
  /\ fd' = [fd EXCEPT ![i] = NoClient]
  /\ watcher' = [watcher EXCEPT ![i] = FALSE]
  /\ cst' = [cst EXCEPT ![fd[i]] = IF @ = "closed" THEN @ ELSE "cut"]
conn_drop(i, d) ==
  /\ drain' = [drain EXCEPT ![i] = d]
  /\ spoilt' = IF d THEN spoilt \cup {i} ELSE spoilt \ {i}
  /\ fd' = [fd EXCEPT ![i] = NoClient]
  /\ watcher' = [watcher EXCEPT ![i] = FALSE]
  /\ cst' = [cst EXCEPT ![fd[i]] = IF @ = "closed" THEN @ ELSE "cut"]

(* 1) ring_buffer__poll: an event goes to every watcher; one that is gone  *)
(* is dropped, one that does not read holds the loop.                      *)
Watchers == {i \in Conn : fd[i] # NoClient /\ watcher[i]}
Events ==
  /\ pc = "events"
  /\ \/ /\ events < MaxEvents /\ events' = events + 1
        /\ \A i \in Watchers : Gone(fd[i]) \/ WriteOK(fd[i])
        /\ LET dead == {i \in Watchers : Gone(fd[i])} IN
           /\ fd' = [i \in Conn |-> IF i \in dead THEN NoClient ELSE fd[i]]
           /\ watcher' = [i \in Conn |-> watcher[i] /\ i \notin dead]
           /\ drain' = [i \in Conn |-> drain[i] /\ i \notin dead]
           /\ spoilt' = spoilt \ dead
        /\ unread' = [c \in Client |->
             IF ~Gone(c) /\ \E i \in Watchers : fd[i] = c THEN unread[c] + 1 ELSE unread[c]]
     \/ UNCHANGED <<events, fd, watcher, drain, spoilt, unread>>
  /\ pc' = "accept"
  /\ UNCHANGED <<clients, buf, got, at, served>>

(* 2) one new client per round, into the first free entry, or closed at    *)
(* once when there is none.  `drain` is not assigned.                      *)
Accept ==
  /\ pc = "accept"
  /\ IF backlog = <<>> THEN UNCHANGED <<fd, buf, watcher, cst, backlog>>
     ELSE LET c == Head(backlog)
              free == {i \in Conn : fd[i] = NoClient} IN
          /\ backlog' = Tail(backlog)
          /\ IF free = {}
             THEN /\ cst' = [cst EXCEPT ![c] = IF @ = "closed" THEN @ ELSE "cut"]
                  /\ UNCHANGED <<fd, buf, watcher>>
             ELSE /\ fd' = [fd EXCEPT ![Min(free)] = c]
                  /\ buf' = [buf EXCEPT ![Min(free)] = <<>>]
                  /\ watcher' = [watcher EXCEPT ![Min(free)] = FALSE]
                  /\ cst' = [cst EXCEPT ![c] = IF @ = "closed" THEN @ ELSE "open"]
  /\ pc' = "read" /\ at' = 1
  /\ UNCHANGED <<script, arrived, unread, drain, spoilt, got, events, served>>

(* Where the `for` over the connections goes after entry `at`.             *)
NextConn == IF at = NConn THEN pc' = "events" /\ at' = 1
            ELSE pc' = "read" /\ at' = at + 1

(* 3) an unused entry, or one with nothing to read, is passed over; one at *)
(* its end of file is dropped.                                             *)
Skip ==
  /\ pc = "read"
  /\ fd[at] # NoClient => Avail(fd[at]) = 0
  /\ IF fd[at] # NoClient /\ Gone(fd[at])
     THEN conn_drop(at, FALSE)
     ELSE UNCHANGED <<fd, watcher, drain, spoilt, cst>>
  /\ NextConn
  /\ UNCHANGED <<script, arrived, backlog, unread, buf, got, events, served>>

(* read(): all there is, as far as it fits behind the buffered bytes; no   *)
(* room looks like an end of file.  While draining, everything up to and   *)
(* including the first newline is thrown away; what follows stays in the   *)
(* buffer and is looked at after the next read.                            *)
Newlines(c, q) == {k \in DOMAIN q : Byte(c, q[k]) = NL}
drain_resume_fault(c, q) == SubSeq(q, Min(Newlines(c, q)), Len(q))
drain_resume(c, q) == SubSeq(q, Min(Newlines(c, q)) + 1, Len(q))

Room_fault(i) == CAP + 1 - Len(buf[i])
Room(i) == CAP - Len(buf[i])

Read ==
  /\ pc = "read" /\ fd[at] # NoClient /\ Avail(fd[at]) > 0
  /\ LET c == fd[at]
         n == IF Avail(c) < Room(at) THEN Avail(c) ELSE Room(at)
         q == [k \in 1 .. n |-> got[c] + k] IN
     IF n = 0
     THEN /\ conn_drop(at, FALSE)
          /\ NextConn
          /\ UNCHANGED <<got, buf>>
     ELSE /\ got' = [got EXCEPT ![c] = @ + n]
          /\ IF ~drain[at]
             THEN /\ buf' = [buf EXCEPT ![at] = @ \o q]
                  /\ pc' = "lines" /\ UNCHANGED <<drain, at>>
             ELSE IF Newlines(c, q) = {}
             THEN NextConn /\ UNCHANGED <<buf, drain>>
             ELSE /\ buf' = [buf EXCEPT ![at] = drain_resume(c, q)]
                  /\ drain' = [drain EXCEPT ![at] = FALSE]
                  /\ pc' = "long" /\ UNCHANGED at
          /\ UNCHANGED <<fd, watcher, spoilt, cst>>
  /\ UNCHANGED <<script, arrived, backlog, unread, events, served>>

(* serve_line on the first complete line in the buffer, and the memmove    *)
(* that follows; then the `while` looks for the next line.  An empty line  *)
(* is an unknown request.                                                  *)
NextLine == UNCHANGED <<pc, at>>
FirstNL == Min(Newlines(fd[at], buf[at]))
ServeLine ==
  /\ pc = "lines" /\ Newlines(fd[at], buf[at]) # {}
  /\ LET c == fd[at]
         line == SubSeq(buf[at], 1, FirstNL - 1)
         kind == IF line = <<>> THEN Req ELSE Byte(c, line[1]) IN
     /\ served' = [served EXCEPT ![c] = Append(@, SubSeq(buf[at], 1, FirstNL))]
     /\ IF kind = Quit \/ Gone(c)
        THEN /\ conn_drop(at, FALSE)
             /\ NextConn
             /\ UNCHANGED <<buf, unread>>
        ELSE /\ WriteOK(c) /\ Deliver(c)
             /\ watcher' = [watcher EXCEPT ![at] = @ \/ kind = Watch]
             /\ buf' = [buf EXCEPT ![at] = SubSeq(@, FirstNL + 1, Len(@))]
             /\ NextLine
             /\ UNCHANGED <<fd, drain, spoilt, cst>>
  /\ UNCHANGED <<script, arrived, backlog, got, events>>

LinesDone ==
  /\ pc = "lines" /\ Newlines(fd[at], buf[at]) = {}
  /\ pc' = "long"
  /\ UNCHANGED <<clients, unread, conns, got, at, events, served>>

(* A full buffer without a newline: refuse the line and drain the rest of  *)
(* it.  When the write fails the entry is freed first, and then still      *)
(* marked as draining.                                                     *)
TooLong_fault(q) == Len(q) > CAP
TooLong(q) == Len(q) >= CAP
CheckLong ==
  /\ pc = "long"
  /\ LET c == fd[at] IN
     IF ~TooLong(buf[at])
     THEN UNCHANGED <<fd, buf, drain, watcher, spoilt, cst, unread>>
     ELSE /\ IF Gone(c)
             THEN conn_drop(at, TRUE) /\ UNCHANGED unread
             ELSE /\ WriteOK(c) /\ Deliver(c)
                  /\ drain' = [drain EXCEPT ![at] = TRUE]
                  /\ UNCHANGED <<fd, watcher, spoilt, cst>>
          /\ buf' = [buf EXCEPT ![at] = <<>>]
  /\ NextConn
  /\ UNCHANGED <<script, arrived, backlog, got, events, served>>

Daemon == Events \/ Accept \/ Skip \/ Read \/ ServeLine \/ LinesDone \/ CheckLong
Next == Daemon \/ \E c \in Client : Connect(c) \/ Send(c) \/ Recv(c) \/ Close(c)

(* The daemon's loop runs on, and clients read what they are sent.         *)
Spec == Init /\ [][Next]_vars /\ WF_vars(Daemon) /\ \A c \in Client : WF_vars(Recv(c))

----------------------------------------------------------------------------
(* Properties.                                                             *)

(* The newline positions of a client's input delimit its lines.            *)
Ends(c) == {p \in DOMAIN script[c] : script[c][p] = NL}
LineTo(c, e) == LET before == {p \in Ends(c) : p < e}
                    b == IF before = {} THEN 1 ELSE Max(before) + 1
                IN  [k \in 1 .. e - b + 1 |-> b + k - 1]
(* A line that fits: the buffer never fills before its newline is read.    *)
Fits(c, e) == Len(LineTo(c, e)) <= CAP
LongLines(c) == {e \in Ends(c) : ~Fits(c, e)}
LastEnd(c) == IF Ends(c) = {} THEN 0 ELSE Max(Ends(c))
HasLong(c) == LongLines(c) # {} \/ Len(script[c]) - LastEnd(c) >= CAP

TypeOK ==
  /\ fd \in [Conn -> Client \cup {NoClient}] /\ at \in Conn
  /\ buf \in [Conn -> Seq(Nat)] /\ drain \in [Conn -> BOOLEAN]
  /\ \A i \in Conn : Len(buf[i]) <= CAP
  /\ watcher \in [Conn -> BOOLEAN] /\ pc \in {"events", "accept", "read", "lines", "long"}
  /\ cst \in [Client -> {"new", "queued", "open", "closed", "cut"}]
  /\ \A c \in Client : unread[c] \in 0 .. SockBuf /\ got[c] \in 0 .. arrived[c]
  /\ spoilt \subseteq Conn

(* What the daemon executes is always a whole line the client wrote, each  *)
(* at most once and in order: the tail of an over-long line is never taken *)
(* for a command, nor a piece of a line that arrived in several reads      *)
(* (comment in serve_mode: "so the tail is never parsed as new commands"). *)
LinesIntact ==
  \A c \in Client :
    /\ \A k \in DOMAIN served[c] : \E e \in Ends(c) : served[c][k] = LineTo(c, e) /\ Fits(c, e)
    /\ \A j, k \in DOMAIN served[c] : j < k => served[c][j][1] < served[c][k][1]

(* The daemon hangs up only on a client that quit, that closed its end, or *)
(* that found the table full: never because a buffer had no room for read. *)
CutOnlyIfDone ==
  [][\A c \in Client : cst[c] = "open" /\ cst'[c] = "cut" =>
       \E k \in DOMAIN served'[c] : Byte(c, served'[c][k][1]) = Quit]_vars

(* Every line that arrives on the connection of a client that sends no     *)
(* over-long line is eventually executed, whatever the other clients send  *)
(* and do and however the bytes arrive.  The exception is a client whose   *)
(* entry was freed while an over-long line of the client before it was     *)
(* refused: the entry is then still marked as draining, which for this     *)
(* client is not "swallowing the tail of an over-long line" (struct conn). *)
AllServed(c) == \A e \in Ends(c) : e <= arrived[c] => \E k \in DOMAIN served[c] : served[c][k] = LineTo(c, e)
EventuallyServed ==
  <>[]\A c \in Client : cst[c] = "open" /\ ~HasLong(c) =>
         AllServed(c) \/ \E i \in spoilt : fd[i] = c
=============================================================================
