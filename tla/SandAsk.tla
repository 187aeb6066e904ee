------------------------------- MODULE SandAsk -------------------------------
(***************************************************************************)
(* sand --ask: the supervisor of a one-shot cell takes the child's seccomp *)
(* listener and answers the system calls the filter delegates.  A call is  *)
(* parked in the kernel under an id of its own until the answer, or until  *)
(* its thread dies; the supervisor takes one at a time and, unless the     *)
(* call was approved for good, asks on the terminal, for as long as the    *)
(* user takes.  The same loop enforces --timeout.                          *)
(*                                                                         *)
(* A definition X_fault is a plausible fault in X's code; nothing uses it. *)
(***************************************************************************)
EXTENDS SandLaunch

CONSTANTS Nr,        \* system call numbers the filter delegates
          MaxCalls,  \* bound: calls parked in one run
          WordBits   \* bits of a word of g_always

ASSUME AskConstantsOK == Nr \subseteq Nat /\ MaxCalls \in Nat /\ WordBits \in Nat \ {0}

VARIABLES calls,   \* the calls so far, by id: number and state
          cur,     \* id of the call in ask_handle, 0 outside it
          resp,    \* the answer to it: none, CONTINUE, EPERM
          always,  \* g_always, as <<word, bit>> pairs
          granted, \* history: ids the user said yes to
          forGood  \* history: numbers the user said always to

ask == <<calls, cur, resp, always, granted, forGood>>

AskInit ==
  /\ calls = <<>> /\ cur = 0 /\ resp = "none" /\ always = {}
  /\ granted = {} /\ forGood = {}

Bit_fault(nr) == <<0, nr % WordBits>>
Bit(nr) == <<nr \div WordBits, nr % WordBits>>

Waiting(id) == calls[id].state \in {"parked", "taken"}
Ids(state) == {id \in DOMAIN calls : calls[id].state = state}

\* The death of the cell frees its parked calls.
CallsAfter(dead) ==
  IF dead THEN [id \in DOMAIN calls |->
                 IF Waiting(id) THEN [calls[id] EXCEPT !.state = "freed"] ELSE calls[id]]
  ELSE calls
-----------------------------------------------------------------------------
\* The payload makes a delegated call; the thread stops in the kernel.
ParkCall(nr) ==
  /\ child = "run" /\ opt.ask /\ Len(calls) < MaxCalls
  /\ calls' = Append(calls, [nr |-> nr, state |-> "parked"])
  /\ UNCHANGED <<launch, cur, resp, always, granted, forGood>>

\* The thread is killed, by another process of the cell.
ThreadDies(id) ==
  /\ Waiting(id) /\ calls' = [calls EXCEPT ![id].state = "freed"]
  /\ UNCHANGED <<launch, cur, resp, always, granted, forGood>>

\* recv_fd: the listener, or end of file from a child that died on the way.
RecvListener ==
  /\ sup = "recv"
  /\ \/ listener /\ sup' = "ask"
     \/ ~Alive /\ ~listener /\ sup' = "wait"
  /\ UNCHANGED <<opt, end, child, pdeath, sync, listener, done, lsmOn, vethOn, res, daemon, left, ask>>

\* poll, then NOTIF_RECV of the oldest call; an approved number is answered
\* at once.
Take(id) ==
  /\ sup = "ask" /\ id \in Ids("parked") /\ \A o \in Ids("parked") : id <= o
  /\ calls' = [calls EXCEPT ![id].state = "taken"] /\ cur' = id
  /\ IF Bit(calls[id].nr) \in always THEN resp' = "CONTINUE" /\ sup' = "answer"
     ELSE resp' = "none" /\ sup' = "prompt"
  /\ UNCHANGED <<opt, end, child, pdeath, sync, listener, done, lsmOn, vethOn, res, daemon, left,
                 always, granted, forGood>>

\* The user's line on the terminal; n is also an end of file, any other
\* letter, and no terminal to ask on.
Prompt(c) ==
  /\ sup = "prompt" /\ sup' = "answer"
  /\ resp' = IF c \in {"y", "a"} THEN "CONTINUE" ELSE "EPERM"
  /\ always' = IF c = "a" THEN always \cup {Bit(calls[cur].nr)} ELSE always
  /\ granted' = IF c \in {"y", "a"} THEN granted \cup {cur} ELSE granted
  /\ forGood' = IF c = "a" THEN forGood \cup {calls[cur].nr} ELSE forGood
  /\ IF c = "k" /\ Alive THEN child' = "zombie" /\ calls' = CallsAfter(TRUE)
     ELSE UNCHANGED <<child, calls>>
  /\ UNCHANGED <<opt, end, pdeath, sync, listener, done, lsmOn, vethOn, res, daemon, left, cur>>

\* NOTIF_ID_VALID and NOTIF_SEND: a call whose thread has died is skipped.
Answer ==
  /\ sup = "answer" /\ sup' = "askend" /\ cur' = 0 /\ resp' = "none"
  /\ calls' = IF Waiting(cur) THEN [calls EXCEPT ![cur].state = resp] ELSE calls
  /\ UNCHANGED <<opt, end, child, pdeath, sync, listener, done, lsmOn, vethOn, res, daemon, left,
                 always, granted, forGood>>

\* poll's 200 ms pass with nothing to take.
PollIdle ==
  /\ sup = "ask" /\ Ids("parked") = {} /\ sup' = "askend"
  /\ UNCHANGED <<opt, end, child, pdeath, sync, listener, done, lsmOn, vethOn, res, daemon, left, ask>>

\* The end of a turn of the loop: reap a child that is gone, kill one whose
\* time is up.
AskTurn_fault ==
  /\ sup = "askend"
  /\ \/ child = "zombie" /\ child' = "gone" /\ sup' = "rmcg"
     \/ Alive /\ sup' = "ask" /\ UNCHANGED child
  /\ UNCHANGED <<opt, end, pdeath, sync, listener, done, lsmOn, vethOn, res, daemon, left, ask>>
AskTurn ==
  /\ sup = "askend"
  /\ \/ child = "zombie" /\ child' = "gone" /\ sup' = "rmcg" /\ UNCHANGED calls
     \/ /\ Alive /\ opt.timeout /\ left = 0
        /\ child' = "gone" /\ sup' = "rmcg" /\ calls' = CallsAfter(TRUE)
     \/ Alive /\ ~(opt.timeout /\ left = 0) /\ sup' = "ask" /\ UNCHANGED <<child, calls>>
  /\ UNCHANGED <<opt, end, pdeath, sync, listener, done, lsmOn, vethOn, res, daemon, left,
                 cur, resp, always, granted, forGood>>

\* time(NULL) moves on whatever the supervisor does.
Clock ==
  /\ opt.ask /\ opt.timeout /\ sup \in {"ask", "prompt", "answer", "askend"} /\ left > 0
  /\ left' = left - 1
  /\ UNCHANGED <<opt, sup, end, child, pdeath, sync, listener, done, lsmOn, vethOn, res, daemon, ask>>
-----------------------------------------------------------------------------
Answers == {"y", "n", "a", "k"}

AskLoop == RecvListener \/ (\E id \in DOMAIN calls : Take(id)) \/ Answer \/ PollIdle \/ AskTurn
AskNext == \/ AskLoop \/ Clock
           \/ \E nr \in Nr : ParkCall(nr)
           \/ \E id \in DOMAIN calls : ThreadDies(id)
           \/ \E c \in Answers : Prompt(c)
=============================================================================
