----------------------------- MODULE MCSandCell -----------------------------
(* Five command lines that between them have every option.  Two clients on *)
(* a jail socket with room for one, so that the second waits in sendmsg;   *)
(* two delegated calls whose numbers differ only in the word of g_always.  *)
EXTENDS SandCell

CONSTANTS a, b

MCClient == {a, b}

Plain == [serve |-> FALSE, ask |-> FALSE, timeout |-> FALSE,
          secure |-> FALSE, veth |-> FALSE, egress |-> FALSE]

MCOptions ==
  { [Plain EXCEPT !.timeout = TRUE, !.secure = TRUE, !.veth = TRUE],
    [Plain EXCEPT !.secure = TRUE, !.veth = TRUE, !.egress = TRUE],
    [Plain EXCEPT !.serve = TRUE, !.secure = TRUE],
    [Plain EXCEPT !.serve = TRUE, !.veth = TRUE],
    [Plain EXCEPT !.ask = TRUE, !.timeout = TRUE] }

MCNr == {1, 65}
=============================================================================
