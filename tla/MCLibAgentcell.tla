--------------------------- MODULE MCLibAgentcell ---------------------------
(* Two Child values, three spawns and a table of two records, so that a    *)
(* spawn can meet a taken cgroup name, a release in progress, a record     *)
(* left by a drop whose waitpid failed, and a table full of both.          *)
EXTENDS LibAgentcell

CONSTANTS a, b

MCOwner == {a, b}
MCWant == [o \in MCOwner |-> [secure |-> TRUE, veth |-> o = b]]
MCSlots == 1 .. 2
=============================================================================
