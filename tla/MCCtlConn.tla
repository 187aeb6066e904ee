----------------------------- MODULE MCCtlConn -----------------------------
(* One entry and two clients, so that the entry is reused and a client can *)
(* find the table full.  A buffer of two bytes, and the inputs around      *)
(* that size: lines that just fit, and one that does not, whose first      *)
(* bytes may be all that is ever sent, followed by one that fits.          *)
EXTENDS CtlConn

CONSTANTS c1, c2

MCClient == {c1, c2}

MCScripts == {
  <<NL, NL, Req, NL>>,
  <<Watch, NL, Quit, NL>>,
  <<Req, Req, Req, NL, NL>> }
=============================================================================
