----------------------------- MODULE MCExecPump -----------------------------
(* A command with an exit status and one killed by a signal; buffers of a  *)
(* few bytes, inputs and outputs that overflow them.                       *)
EXTENDS ExecPump

MCStatuses == {[how |-> "exit", n |-> 3], [how |-> "signal", n |-> 9]}
=============================================================================
