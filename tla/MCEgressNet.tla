---------------------------- MODULE MCEgressNet ----------------------------
(* Instances of EgressNet for TLC: a plain cell, a cell that names a host, *)
(* and one that names an address; the host's name moves between answers.   *)
EXTENDS EgressNet

CONSTANTS a, b

Plain == [lits |-> {}, named |-> FALSE, resolv |-> FALSE]
Named == [lits |-> {}, named |-> TRUE, resolv |-> TRUE]
Literal == [lits |-> {b}, named |-> FALSE, resolv |-> FALSE]
NoResolv == [lits |-> {b}, named |-> TRUE, resolv |-> FALSE]

MCDst == {a, b, Meta}
MCReqs == {Plain, Named, NoResolv}
MCMayFail == {"acc", "unacc", "linkdel", "link"}
MCAnswers == {{}, {a}, {b}, {a, b, Meta}}
=============================================================================
