------------------------------ MODULE SandServe ------------------------------
(***************************************************************************)
(* sand serve: the supervisor accepts clients on a Unix socket and passes  *)
(* each connection into the jail, whose PID 1 serves them one at a time    *)
(* (ExecPump is what happens on one connection).  SIGTERM sets g_stop,     *)
(* which the loop tests before it polls without a timeout; the jail can    *)
(* die at any time, also between the poll and the sendmsg that follows.    *)
(*                                                                         *)
(* A definition X_fault is a plausible fault in X's code; nothing uses it. *)
(***************************************************************************)
EXTENDS SandLaunch

CONSTANTS Client,    \* invocations of `sand exec`
          QueueMax   \* connections the jail's socket holds

ASSUME ServeConstantsOK == QueueMax \in Nat \ {0}

VARIABLES stop,     \* g_stop
          cl,       \* each client
          backlog,  \* the listening socket's queue
          passed,   \* connections on their way into the jail
          gap       \* history: g_stop was set since the test, before the poll

serve == <<stop, cl, backlog, passed, gap>>

ServeInit ==
  /\ stop = FALSE /\ cl = [c \in Client |-> "idle"]
  /\ backlog = <<>> /\ passed = <<>> /\ gap = FALSE

\* Once the jail is dead the connections in it are closed; once the
\* supervisor is gone, so are those it had not passed on.
ClientsAfter(jailDead, supGone) ==
  [c \in Client |->
     IF \/ jailDead /\ cl[c] \in {"passed", "served"}
        \/ supGone /\ cl[c] \in {"backlog", "accepted"}
     THEN "cut" ELSE cl[c]]
-----------------------------------------------------------------------------
\* connect(): refused when the socket is gone or nobody listens.
Connect(c) ==
  /\ opt.serve /\ cl[c] = "idle" /\ ("sock" \in res \/ sup = "gone")
  /\ IF "sock" \in res /\ sup # "gone"
     THEN cl' = [cl EXCEPT ![c] = "backlog"] /\ backlog' = Append(backlog, c)
     ELSE cl' = [cl EXCEPT ![c] = "cut"] /\ UNCHANGED backlog
  /\ UNCHANGED <<launch, stop, passed, gap>>

\* Handlers, socket, .info file.  A socket that cannot be bound is die().
Bind ==
  /\ sup = "bind"
  /\ \/ sup' = "loop" /\ res' = res \cup {"sock", "info"} /\ UNCHANGED <<end, child>>
     \/ Die /\ UNCHANGED res
  /\ UNCHANGED <<opt, pdeath, sync, listener, done, lsmOn, vethOn, daemon, left, serve>>

Serving == {"loop", "topoll", "poll", "accept", "send", "turn"}

\* on_stop.  Between the test and the poll it goes unnoticed until the poll
\* returns for another reason; in the poll it is EINTR.
SigStop ==
  /\ sup \in Serving /\ stop' = TRUE /\ gap' = (sup = "topoll")
  /\ sup' = IF sup = "poll" THEN "loop" ELSE sup
  /\ UNCHANGED <<opt, end, child, pdeath, sync, listener, done, lsmOn, vethOn, res, daemon, left,
                 cl, backlog, passed>>

\* The flag looked at only when somebody is waiting.
TestStop_fault ==
  /\ sup = "loop" /\ sup' = IF stop /\ backlog # <<>> THEN "kill" ELSE "topoll"
  /\ gap' = FALSE
  /\ UNCHANGED <<opt, end, child, pdeath, sync, listener, done, lsmOn, vethOn, res, daemon, left,
                 stop, cl, backlog, passed>>
TestStop ==
  /\ sup = "loop" /\ sup' = IF stop THEN "kill" ELSE "topoll"
  /\ gap' = FALSE
  /\ UNCHANGED <<opt, end, child, pdeath, sync, listener, done, lsmOn, vethOn, res, daemon, left,
                 stop, cl, backlog, passed>>

EnterPoll ==
  /\ sup = "topoll" /\ sup' = "poll"
  /\ UNCHANGED <<opt, end, child, pdeath, sync, listener, done, lsmOn, vethOn, res, daemon, left, serve>>

\* poll returns: the jail's end is closed, or a client is there.
Poll_fault ==
  /\ sup = "poll" /\ backlog # <<>>
  /\ sup' = IF ~Alive THEN "kill" ELSE "accept"
  /\ UNCHANGED <<opt, end, child, pdeath, sync, listener, done, lsmOn, vethOn, res, daemon, left, serve>>
Poll ==
  /\ sup = "poll" /\ (~Alive \/ backlog # <<>>)
  /\ sup' = IF ~Alive THEN "kill" ELSE "accept"
  /\ UNCHANGED <<opt, end, child, pdeath, sync, listener, done, lsmOn, vethOn, res, daemon, left, serve>>

Accept ==
  /\ sup = "accept" /\ sup' = "send"
  /\ cl' = [cl EXCEPT ![Head(backlog)] = "accepted"] /\ backlog' = Tail(backlog)
  /\ UNCHANGED <<opt, end, child, pdeath, sync, listener, done, lsmOn, vethOn, res, daemon, left,
                 stop, passed, gap>>

\* send_fd: it waits for room in the jail's socket; if the jail is dead by
\* now, SIGPIPE ends the supervisor.
Accepted == CHOOSE c \in Client : cl[c] = "accepted"

SendFd_fault ==
  /\ sup = "send"
  /\ \/ /\ Alive /\ sup' = "turn"
        /\ IF Len(passed) < QueueMax
           THEN cl' = [cl EXCEPT ![Accepted] = "passed"] /\ passed' = Append(passed, Accepted)
           ELSE UNCHANGED <<cl, passed>>
        /\ UNCHANGED <<end, child>>
     \/ ~Alive /\ SupEnds("killed") /\ cl' = ClientsAfter(TRUE, TRUE) /\ UNCHANGED passed
  /\ UNCHANGED <<opt, pdeath, sync, listener, done, lsmOn, vethOn, res, daemon, left, stop, backlog, gap>>
SendFd ==
  /\ sup = "send"
  /\ \/ /\ Alive /\ Len(passed) < QueueMax /\ sup' = "turn"
        /\ cl' = [cl EXCEPT ![Accepted] = "passed"] /\ passed' = Append(passed, Accepted)
        /\ UNCHANGED <<end, child>>
     \/ ~Alive /\ SupEnds("killed") /\ cl' = ClientsAfter(TRUE, TRUE) /\ UNCHANGED passed
  /\ UNCHANGED <<opt, pdeath, sync, listener, done, lsmOn, vethOn, res, daemon, left, stop, backlog, gap>>

\* waitpid(jail, WNOHANG).
Turn ==
  /\ sup = "turn"
  /\ IF child = "zombie" THEN child' = "gone" /\ sup' = "kill"
     ELSE sup' = "loop" /\ UNCHANGED child
  /\ UNCHANGED <<opt, end, pdeath, sync, listener, done, lsmOn, vethOn, res, daemon, left, serve>>

\* kill and waitpid; then unregister, and unlink both files.
KillJail ==
  /\ sup = "kill" /\ sup' = "sclr" /\ child' = "gone" /\ cl' = ClientsAfter(TRUE, FALSE)
  /\ UNCHANGED <<opt, end, pdeath, sync, listener, done, lsmOn, vethOn, res, daemon, left,
                 stop, backlog, passed, gap>>

Unlink ==
  /\ sup = "unlink" /\ sup' = "rmcg" /\ res' = res \ {"sock", "info"}
  /\ UNCHANGED <<opt, end, child, pdeath, sync, listener, done, lsmOn, vethOn, daemon, left, serve>>
-----------------------------------------------------------------------------
\* jail_server: one connection at a time, to its end.
JailRecv ==
  /\ child = "run" /\ passed # <<>> /\ \A c \in Client : cl[c] # "served"
  /\ cl' = [cl EXCEPT ![Head(passed)] = "served"] /\ passed' = Tail(passed)
  /\ UNCHANGED <<launch, stop, backlog, gap>>

HandleConn(c) ==
  /\ child = "run" /\ cl[c] = "served" /\ cl' = [cl EXCEPT ![c] = "done"]
  /\ UNCHANGED <<launch, stop, backlog, passed, gap>>
-----------------------------------------------------------------------------
ServeLoop == \/ Bind \/ TestStop \/ EnterPoll \/ Poll \/ Accept \/ SendFd \/ Turn \/ KillJail
             \/ (LsmUnregister("sclr", "snet") /\ UNCHANGED serve)
             \/ (VethUnregister("snet", "unlink") /\ UNCHANGED serve)
             \/ Unlink
ServeJail == JailRecv \/ \E c \in Client : HandleConn(c)
ServeNext == ServeLoop \/ ServeJail \/ SigStop \/ \E c \in Client : Connect(c)
=============================================================================
