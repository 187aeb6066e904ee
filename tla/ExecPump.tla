------------------------------ MODULE ExecPump ------------------------------
(***************************************************************************)
(* One `sand exec` on a serving cell (src/src/sand.c): the host client     *)
(* (client_exec), the jail side (handle_conn), and the command it runs.    *)
(* They share one socket and a pipe:                                       *)
(*                                                                         *)
(*   client stdin -> c2j (socket) -> jail -> inpipe -> the command         *)
(*   client stdout <- j2c (socket) <- the command, then the jail's trailer *)
(*                                                                         *)
(* The command is any program: it reads, writes and exits as it likes.     *)
(* Byte k of its output is Out(k) and byte k of the client's stdin is k,   *)
(* so that losses, repetitions and reorderings show.                       *)
(*                                                                         *)
(* A definition X_fault is a plausible fault in X's code; nothing uses it. *)
(***************************************************************************)
EXTENDS Integers, Sequences, FiniteSets, Folds, Functions

CONSTANTS
  Tail4,       \* bytes of the trailer (4)
  SockCap,     \* bytes one direction of the socket holds
  PipeCap,     \* bytes inpipe holds
  Chunk,       \* bytes one read() takes (65536)
  MaxIn,       \* bound: bytes of the client's stdin
  MaxOut,      \* bound: bytes the command writes
  Statuses     \* how commands end: [how : {"exit", "signal"}, n : Nat]

ASSUME ConstantsOK ==
  /\ {Tail4, SockCap, PipeCap, Chunk} \subseteq Nat \ {0}
  /\ MaxIn \in Nat /\ MaxOut \in Nat
  /\ \A s \in Statuses : s.how \in {"exit", "signal"} /\ s.n \in 0 .. 127

VARIABLES
  nin,                         \* how many bytes the client's stdin has
  cpc, cin, wbuf, wrOpen, pend, printed, result,   \* client_exec
  c2j, j2c, connOpen,          \* the socket; whether the jail side holds it
  jpc, jbuf, inOpen, stdinEof, \* handle_conn; inOpen: inpipe[1] >= 0
  inpipe,                      \* the pipe
  cmd, want, nout, cread, sawEof, status   \* the command

client == <<cpc, cin, wbuf, wrOpen, pend, printed, result>>
jail == <<jpc, jbuf, inOpen, stdinEof>>
command == <<cmd, want, nout, cread, sawEof, status>>
vars == <<nin, client, c2j, j2c, connOpen, jail, inpipe, command>>

NoStatus == [how |-> "none", n |-> 0]
Smaller(m, n) == IF m < n THEN m ELSE n
Prefix(q, n) == SubSeq(q, 1, n)
Rest(q, n) == SubSeq(q, n + 1, Len(q))
(* The first n + 1 .. n + k numbers: k bytes after byte n.                 *)
Run(n, k) == [j \in 1 .. k |-> n + j]
Out(k) == 256 + k

(* put_u32 and get_u32: little endian.                                     *)
put_u32(v) == [j \in 1 .. Tail4 |-> (v \div 256 ^ (j - 1)) % 256]
get_u32(q) == FoldFunction(+, 0, [j \in DOMAIN q |-> q[j] * 256 ^ (j - 1)])

Code_fault(s) == s.n                       \* signals as exits: StatusExact
Code(s) == IF s.how = "exit" THEN s.n ELSE IF s.how = "signal" THEN 128 + s.n ELSE 0

Init ==
  /\ nin \in 0 .. MaxIn
  /\ cpc = "poll" /\ cin = 0 /\ wbuf = <<>> /\ wrOpen = TRUE
  /\ pend = <<>> /\ printed = <<>> /\ result = -1
  /\ c2j = <<>> /\ j2c = <<>> /\ connOpen = TRUE
  /\ jpc = "header" /\ jbuf = <<>> /\ inOpen = TRUE /\ stdinEof = FALSE
  /\ inpipe = <<>>
  /\ cmd = "none" /\ want = 0 /\ nout = 0 /\ cread = <<>> /\ sawEof = FALSE
  /\ status = NoStatus

----------------------------------------------------------------------------
(* client_exec, after it has sent its request.                             *)

(* One read of the reply: everything but the last four bytes seen so far   *)
(* is printed.                                                             *)
HeldBack_fault == Tail4 - 1                \* one short: OnlyOutputPrinted
HeldBack_over == Tail4 + 1                 \* one over: TypeOK
HeldBack == Tail4

TakeReply(q) ==
  LET all == pend \o q
      emit == IF Len(all) > HeldBack THEN Len(all) - HeldBack ELSE 0 IN
  /\ printed' = printed \o Prefix(all, emit)
  /\ pend' = Rest(all, emit)

(* End of file: the four bytes held back are the status; without them the  *)
(* client returns 2.                                                       *)
Finish == /\ cpc' = "done"
          /\ result' = IF Len(pend) = Tail4 THEN get_u32(pend) ELSE 2

(* poll: the reply, then stdin, as far as each was ready.  Stdin may be a  *)
(* terminal, so it may or may not be.                                      *)
ClientPoll ==
  /\ cpc = "poll"
  /\ \E inReady \in (IF wrOpen THEN BOOLEAN ELSE {FALSE}) :
       \/ /\ j2c # <<>>
          /\ LET n == Smaller(Chunk, Len(j2c)) IN
             TakeReply(Prefix(j2c, n)) /\ j2c' = Rest(j2c, n)
          /\ cpc' = IF inReady THEN "stdin" ELSE "poll"
          /\ UNCHANGED result
       \/ /\ j2c = <<>> /\ ~connOpen
          /\ Finish
          /\ UNCHANGED <<j2c, pend, printed>>
       \/ /\ j2c = <<>> /\ connOpen /\ inReady
          /\ cpc' = "stdin"
          /\ UNCHANGED <<j2c, pend, printed, result>>
  /\ UNCHANGED <<nin, cin, wbuf, wrOpen, c2j, connOpen, jail, inpipe, command>>

(* read(0): the next bytes, or the end of stdin, which shuts the socket    *)
(* down for writing.                                                       *)
ClientStdin ==
  /\ cpc = "stdin"
  /\ \/ /\ cin < nin
        /\ \E n \in 1 .. Smaller(Chunk, nin - cin) :
             wbuf' = Run(cin, n) /\ cin' = cin + n
        /\ cpc' = "write"
        /\ UNCHANGED wrOpen
     \/ /\ cin = nin
        /\ wrOpen' = FALSE /\ cpc' = "poll"
        /\ UNCHANGED <<wbuf, cin>>
  /\ UNCHANGED <<nin, pend, printed, result, c2j, j2c, connOpen, jail, inpipe, command>>

(* write_full: as much as fits at a time; the client does nothing else     *)
(* until it is done, or the jail has closed the socket.                    *)
ClientWrite ==
  /\ cpc = "write"
  /\ \/ /\ connOpen /\ Len(c2j) < SockCap
        /\ LET n == Smaller(SockCap - Len(c2j), Len(wbuf)) IN
           /\ c2j' = c2j \o Prefix(wbuf, n)
           /\ wbuf' = Rest(wbuf, n)
           /\ cpc' = IF n = Len(wbuf) THEN "poll" ELSE "write"
        /\ UNCHANGED wrOpen
     \/ /\ ~connOpen
        /\ wrOpen' = FALSE /\ wbuf' = <<>> /\ cpc' = "poll"
        /\ UNCHANGED c2j
  /\ UNCHANGED <<nin, cin, pend, printed, result, j2c, connOpen, jail, inpipe, command>>

(* The client is killed: its end of the socket closes.                     *)
ClientKilled ==
  /\ cpc \notin {"done", "killed"}
  /\ cpc' = "killed" /\ wrOpen' = FALSE /\ wbuf' = <<>> /\ j2c' = <<>>
  /\ UNCHANGED <<nin, cin, pend, printed, result, c2j, connOpen, jail, inpipe, command>>

----------------------------------------------------------------------------
(* handle_conn.                                                            *)

(* The request: one that is out of bounds is dropped without a reply.  If  *)
(* fork() fails, the loop takes the failed waitpid(-1) for the end of a    *)
(* command whose status st still is 0.                                     *)
JailHeader ==
  /\ jpc = "header"
  /\ \/ /\ jpc' = "closed" /\ connOpen' = FALSE
        /\ UNCHANGED cmd
     \/ /\ jpc' = "pump" /\ cmd' = "running"
        /\ UNCHANGED connOpen
     \/ /\ jpc' = "pump" /\ cmd' = "unborn"   \* p = -1, and so is waitpid(-1)
        /\ UNCHANGED connOpen
  /\ UNCHANGED <<nin, client, c2j, j2c, jbuf, inOpen, stdinEof, inpipe,
                 want, nout, cread, sawEof, status>>

(* The loop: first the command's death, then, unless stdin has ended, one  *)
(* read of the socket.                                                     *)
Reaped_fault == cmd \in {"dead", "unborn"} /\ stdinEof    \* only after EOF: Returns
Reaped == cmd \in {"dead", "unborn"}
JailReap ==
  /\ jpc = "pump" /\ Reaped
  /\ jpc' = "trailer" /\ inOpen' = FALSE
  /\ jbuf' = put_u32(Code(status))
  /\ UNCHANGED <<nin, client, c2j, j2c, connOpen, stdinEof, inpipe, command>>

AtEof_fault == ~wrOpen                     \* unread bytes lost: StdinIntact
AtEof == c2j = <<>> /\ ~wrOpen

JailPump ==
  /\ jpc = "pump" /\ ~Reaped /\ ~stdinEof
  /\ \/ /\ AtEof
        /\ stdinEof' = TRUE /\ inOpen' = FALSE
        /\ UNCHANGED <<jpc, jbuf, c2j>>
     \/ /\ ~AtEof /\ c2j # <<>>
        /\ LET n == Smaller(Chunk, Len(c2j)) IN
           /\ c2j' = Rest(c2j, n)
           /\ jbuf' = IF inOpen THEN Prefix(c2j, n) ELSE <<>>
        /\ jpc' = IF inOpen THEN "pipe" ELSE "pump"
        /\ UNCHANGED <<inOpen, stdinEof>>
  /\ UNCHANGED <<nin, client, j2c, connOpen, inpipe, command>>

(* write_full to the pipe: waits for room, fails once the command is dead. *)
JailPipe ==
  /\ jpc = "pipe"
  /\ \/ /\ ~Reaped /\ Len(inpipe) < PipeCap
        /\ LET n == Smaller(PipeCap - Len(inpipe), Len(jbuf)) IN
           /\ inpipe' = inpipe \o Prefix(jbuf, n)
           /\ jbuf' = Rest(jbuf, n)
           /\ jpc' = IF n = Len(jbuf) THEN "pump" ELSE "pipe"
        /\ UNCHANGED inOpen
     \/ /\ Reaped
        /\ inOpen' = FALSE /\ jbuf' = <<>> /\ jpc' = "pump"
        /\ UNCHANGED inpipe
  /\ UNCHANGED <<nin, client, c2j, j2c, connOpen, stdinEof, command>>

(* write_full of the status, then close(conn).                             *)
JailTrailer ==
  /\ jpc = "trailer"
  /\ \/ /\ cpc # "killed" /\ Len(j2c) < SockCap
        /\ LET n == Smaller(SockCap - Len(j2c), Len(jbuf)) IN
           /\ j2c' = j2c \o Prefix(jbuf, n)
           /\ jbuf' = Rest(jbuf, n)
           /\ jpc' = IF n = Len(jbuf) THEN "closed" ELSE "trailer"
           /\ connOpen' = (n # Len(jbuf))
     \/ /\ cpc = "killed"
        /\ jpc' = "closed" /\ connOpen' = FALSE /\ jbuf' = <<>>
        /\ UNCHANGED j2c
  /\ UNCHANGED <<nin, client, c2j, inOpen, stdinEof, inpipe, command>>

----------------------------------------------------------------------------
(* The command.                                                            *)

CmdRead ==
  /\ cmd = "running"
  /\ \/ /\ inpipe # <<>>
        /\ \E n \in 1 .. Len(inpipe) :
             cread' = cread \o Prefix(inpipe, n) /\ inpipe' = Rest(inpipe, n)
        /\ UNCHANGED sawEof
     \/ /\ inpipe = <<>> /\ ~inOpen
        /\ sawEof' = TRUE
        /\ UNCHANGED <<cread, inpipe>>
  /\ UNCHANGED <<nin, client, c2j, j2c, connOpen, jail, cmd, want, nout, status>>

(* It calls write() for some bytes, and is in there until all are out.     *)
CmdStartWrite ==
  /\ cmd = "running"
  /\ \E n \in 1 .. MaxOut - nout : want' = n
  /\ cmd' = "writing"
  /\ UNCHANGED <<nin, client, c2j, j2c, connOpen, jail, inpipe, nout, cread, sawEof, status>>

CmdWrite ==
  /\ cmd = "writing"
  /\ \/ /\ cpc # "killed" /\ Len(j2c) < SockCap
        /\ LET n == Smaller(SockCap - Len(j2c), want) IN
           /\ j2c' = j2c \o [k \in 1 .. n |-> Out(nout + k)]
           /\ nout' = nout + n /\ want' = want - n
           /\ cmd' = IF n = want THEN "running" ELSE "writing"
        /\ UNCHANGED status
     \/ /\ cpc = "killed"                          \* SIGPIPE
        /\ cmd' = "dead" /\ status' = [how |-> "signal", n |-> 13]
        /\ UNCHANGED <<j2c, nout, want>>
  /\ UNCHANGED <<nin, client, c2j, connOpen, jail, inpipe, cread, sawEof>>

CmdExit ==
  /\ cmd = "running"
  /\ \E s \in Statuses : status' = s
  /\ cmd' = "dead"
  /\ UNCHANGED <<nin, client, c2j, j2c, connOpen, jail, inpipe, want, nout, cread, sawEof>>

Client == ClientPoll \/ ClientStdin \/ ClientWrite
Jail == JailHeader \/ JailReap \/ JailPump \/ JailPipe \/ JailTrailer
Command == CmdRead \/ CmdStartWrite \/ CmdWrite \/ CmdExit
Next == Client \/ ClientKilled \/ Jail \/ Command

(* The client and the jail are always scheduled, and a system call of the  *)
(* command that can go on does; whether the command ever reads or exits is *)
(* up to the command.                                                      *)
Spec == Init /\ [][Next]_vars /\ WF_vars(Client) /\ WF_vars(Jail) /\ WF_vars(CmdWrite)

----------------------------------------------------------------------------
(* Properties.                                                             *)

TypeOK ==
  /\ cpc \in {"poll", "stdin", "write", "done", "killed"}
  /\ jpc \in {"header", "pump", "pipe", "trailer", "closed"}
  /\ cmd \in {"none", "running", "writing", "dead", "unborn"}
  /\ Len(c2j) <= SockCap /\ Len(j2c) <= SockCap /\ Len(inpipe) <= PipeCap
  /\ Len(pend) <= Tail4 /\ Len(jbuf) <= IF jpc = "trailer" THEN Tail4 ELSE Chunk
  /\ cin \in 0 .. nin /\ nout \in 0 .. MaxOut
  /\ {wrOpen, connOpen, inOpen, stdinEof, sawEof} \subseteq BOOLEAN

(* What a shell reports for a status.                                      *)
ShellStatus(s) == s.n + (IF s.how = "signal" THEN 128 ELSE 0)
Output(n) == [k \in 1 .. n |-> Out(k)]
IsPrefixOf(q, r) == Len(q) <= Len(r) /\ q = Prefix(r, Len(q))

(* A client whose command ran prints exactly the command's output and      *)
(* returns exactly its status, 128 + n for signal n, however the reply was *)
(* cut into reads (sand.c: "then u32 exit status, then EOF").  A refused   *)
(* request is a protocol error.  A command that could not be started, for  *)
(* want of a process, is reported as one that ended with 0 (handle_conn    *)
(* does not test the result of fork), against README's "exact exit code".  *)
StatusExact ==
  cpc = "done" =>
    \/ result = 2 /\ cmd = "none" /\ printed = <<>>
    \/ cmd = "unborn" /\ result = 0 /\ printed = <<>>
    \/ cmd = "dead" /\ result = ShellStatus(status) /\ printed = Output(nout)

(* Printing is live, yet no byte of the status is ever printed, nor a byte *)
(* of the output out of order.                                             *)
OnlyOutputPrinted == IsPrefixOf(printed, Output(nout))

(* The command reads the client's stdin in order and without gaps, and     *)
(* reads an end of file only after all of it (unless the client is killed).*)
StdinIntact ==
  /\ cread = Run(0, Len(cread))
  /\ sawEof => cpc = "killed" \/ Len(cread) = nin

(* When the client's stdin fits into the socket, a client whose command    *)
(* has ended, or could not be started, gets a status.                      *)
Returns == (nin <= SockCap) => (cmd \in {"dead", "unborn"} ~> cpc \in {"done", "killed"})

(* Nobody waits in a circle: client on jail, jail on command, command on   *)
(* client (handle_conn: "backpressure, never deadlock").                   *)
NeverDeadlock ==
  ~ /\ cpc = "write" /\ connOpen /\ Len(c2j) = SockCap
    /\ \/ jpc = "pipe" /\ Len(inpipe) = PipeCap /\ cmd = "writing"
       \/ jpc = "trailer"
    /\ Len(j2c) = SockCap
=============================================================================
