---------------------------- MODULE MCLsmPolicy ----------------------------
(* Two cells and one `sand lsm`; room for one cell fewer than there are,   *)
(* and for one rule fewer than can be asked for.  Two paths, one inside    *)
(* the other, and a prefix of both; the longer does not fit the buffer, so *)
(* a rule for it is stored as one for the shorter.                         *)
EXTENDS LsmPolicy

CONSTANTS c1, c2, u1

MCCgid == {c1, c2}
MCUser == {u1}

MCPath == {<<1, 2>>, <<1, 2, 3>>}
MCPrefix == {<<1>>}
MCDeny == (c1 :> << <<1, 2, 3>>, <<1>> >>) @@ (c2 :> << <<1>> >>)

MCHashOrder == << <<c1, <<1, 2>>>>, <<c2, <<1>>>>, <<c1, <<1>>>>, <<c2, <<1, 2>>>> >>
=============================================================================
