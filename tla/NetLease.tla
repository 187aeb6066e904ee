------------------------------ MODULE NetLease ------------------------------
(***************************************************************************)
(* What the daemon's address allocation promises to the cells: at any time *)
(* a cell (its pid) holds a set of /30 indices, and no index is held by    *)
(* two cells.  A cell obtains an index that nobody holds, gives back all   *)
(* it holds, and a daemon that dies forgets every lease at once.  EgressNet *)
(* (agentlsm.c: net_up, net_down, net_cleanup_all) implements this.        *)
(***************************************************************************)
CONSTANTS Pid,   \* the cells' pids
          Idx    \* the indices of the /30 subnets

VARIABLE lease   \* lease[p]: the indices cell p holds

Init == lease = [p \in Pid |-> {}]

Held == UNION {lease[p] : p \in Pid}

Acquire(p, i) == /\ i \notin Held
                 /\ lease' = [lease EXCEPT ![p] = @ \cup {i}]

Return(p, i) == /\ i \in lease[p]
                /\ lease' = [lease EXCEPT ![p] = @ \ {i}]

ForgetAll == lease' = [p \in Pid |-> {}]

Next == \/ \E p \in Pid, i \in Idx : Acquire(p, i) \/ Return(p, i)
        \/ ForgetAll

Spec == Init /\ [][Next]_lease

(* The promise of the allocation: two cells never hold the same /30, so    *)
(* their addresses 10.200.x.y are disjoint.                                *)
Exclusive == \A p, q \in Pid : p # q => lease[p] \cap lease[q] = {}
=============================================================================
