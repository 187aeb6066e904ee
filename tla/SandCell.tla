------------------------------ MODULE SandCell ------------------------------
(***************************************************************************)
(* A cell from its launch to its end: SandLaunch, and while the cell runs  *)
(* SandServe or SandAsk.  A step of one part leaves the others' variables  *)
(* alone, except that the end of the child frees the calls it has parked   *)
(* and, like the end of the supervisor, closes connections.                *)
(***************************************************************************)
EXTENDS SandServe, SandAsk

vars == <<launch, serve, ask>>

\* A step of main or child_main, and what it does to clients and calls.
Launch(A) ==
  /\ A
  /\ LET dead == child' \in {"zombie", "gone"} IN
       /\ cl' = ClientsAfter(dead, sup' = "gone") /\ calls' = CallsAfter(dead)
  /\ UNCHANGED <<stop, backlog, passed, gap, cur, resp, always, granted, forGood>>

Serve(A) == A /\ UNCHANGED ask
AskStep(A) == A /\ UNCHANGED serve

CellInit == Init /\ ServeInit /\ AskInit

Next == \/ Launch(LaunchNext) \/ Serve(ServeNext) \/ AskStep(AskNext)

\* The supervisor's and the child's own steps are not put off for ever; the
\* seconds pass; a command comes to an end.  Nothing is assumed of the user at
\* the terminal, of signals or deaths, or of when clients and calls come.
Fairness ==
  /\ WF_vars(Launch(SupSteps)) /\ WF_vars(Launch(ChildSetup))
  /\ WF_vars(Serve(ServeLoop)) /\ WF_vars(Serve(ServeJail))
  /\ WF_vars(AskStep(AskLoop)) /\ WF_vars(AskStep(Clock))

Spec == CellInit /\ [][Next]_vars /\ Fairness
-----------------------------------------------------------------------------
SupPlaces ==
  {"root", "cgroup", "clone", "maps", "park", "lsm", "net", "sync", "recv", "bind",
   "wait", "rmcg", "clr", "netdown", "rmroot", "gone", "kill", "sclr", "snet",
   "unlink", "ask", "prompt", "answer", "askend"} \cup Serving

\* Each part's state is what it should be, and the parts agree: clients only
\* in serve mode, parked calls only with --ask.
TypeOK ==
  /\ opt \in Options /\ sup \in SupPlaces
  /\ end \in {"", "bye", "die", "refused", "killed"} /\ (end = "" <=> sup # "gone")
  /\ child \in {"none", "born", "sync", "setup", "confine", "run", "zombie", "gone"}
  /\ pdeath \in BOOLEAN /\ sync \in BOOLEAN /\ listener \in BOOLEAN
  /\ lsmOn \in BOOLEAN /\ vethOn \in BOOLEAN
  /\ done \subseteq {"maps", "park", "lsm", "net"} /\ res \subseteq Residue
  /\ daemon \in {"up", "old", "down"} /\ left \in 0 .. MaxTime
  /\ stop \in BOOLEAN /\ gap \in BOOLEAN
  /\ cl \in [Client -> {"idle", "backlog", "accepted", "passed", "served", "done", "cut"}]
  /\ Len(passed) <= QueueMax
  /\ calls # <<>> => opt.ask
  /\ \A id \in DOMAIN calls : calls[id].state \in {"parked", "taken", "freed", "CONTINUE", "EPERM"}
  /\ cur \in 0 .. Len(calls) /\ resp \in {"none", "CONTINUE", "EPERM"}

\* A sand that comes to the end of main, in any mode, by timeout, stop or the
\* child's own end, has reaped the child and left nothing behind: no cgroup,
\* root or socket, no rules and no network slot.  The exceptions are what a
\* failed registration left at the daemon, for which g_lsm_on is not set, and
\* a slot whose NETDOWN finds no daemon (sand.c 1374-1379, 2512-2515).
GoodbyeLeavesNothing ==
  end = "bye" =>
    /\ child = "gone"
    /\ res \subseteq {"part"} \cup IF daemon = "down" THEN {"slot"} ELSE {}

\* The child goes past the sync pipe only when everything its parent does for
\* it is done: uid maps, cgroup, rules and network; also when the parent is
\* killed on the way (sand.c 2018, 2430-2465).
PayloadReady ==
  child \in {"setup", "confine", "run"} =>
    {"maps", "lsm", "net"} \subseteq done /\ ("cg" \in res => "park" \in done)

\* A cell asked to filter egress never runs with its network unprovisioned:
\* it has the slot, or it is not started (sand.c 1778-1786, 2450-2458).
EgressOrNothing == opt.egress /\ child \in {"setup", "confine", "run"} => "slot" \in res

\* A delegated call proceeds only if the user granted that very call, or has
\* granted its number for good; never through an answer given to another
\* call, whichever threads die while the question is on the screen.
ApprovedOnly ==
  \A id \in Ids("CONTINUE") : id \in granted \/ calls[id].nr \in forGood

\* SIGTERM and SIGINT end a serving cell, unless the signal came between the
\* test of g_stop and the poll and nothing wakes that poll any more: no
\* client, no second signal and not the jail's death (serve_loop).
StopTakesEffect ==
  stop ~> \/ sup = "gone"
          \/ [](gap /\ sup \in {"topoll", "poll"} /\ backlog = <<>> /\ Alive)

\* "Ctrl-C (or SIGTERM) cleans up the socket and kills the jail".
StopEnds == stop ~> sup = "gone"

\* A question at the terminal that is never answered.
Unanswered == [](sup = "prompt")

\* When the child is dead the supervisor comes to its end, in every mode: the
\* jail's death wakes the serve loop's poll, and the --ask loop looks for it
\* after each answer.  Only a question that is never answered holds it up:
\* ask_handle waits for the terminal and for nothing else.
CellEnds == child = "zombie" ~> (sup = "gone" \/ Unanswered)

\* --timeout ends a one-shot run however many calls the payload parks, and
\* however late each answer: only a question that is never answered keeps the
\* loop from looking at the time.
TimeoutEnds ==
  (opt.timeout /\ sup \in {"wait", "ask"}) ~> (sup = "gone" \/ Unanswered)

\* Every client that was let in, or is in the listening socket's queue, gets
\* its command's end or is cut off: none hangs because the jail or the
\* supervisor died with its connection in hand.
EveryClientEnds ==
  \A c \in Client : cl[c] \in {"backlog", "accepted", "passed", "served"} ~> cl[c] \in {"done", "cut"}
=============================================================================
