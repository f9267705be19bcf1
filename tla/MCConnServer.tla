----------------------------- MODULE MCConnServer -----------------------------
(* An instance of ConnServer: a client that sends anything and one that sends  *)
(* nothing compete for the only slot.                                          *)
EXTENDS ConnServer

CONSTANTS c1, c2

Request(version, form, header) == [version |-> version, form |-> form, header |-> header]

Various ==
    {Request("1.1", f, "none") : f \in Forms}
    \cup {Request("1.0", f, h) : f \in {"json", "stream"}, h \in {"none", "keep-alive"}}
    \cup {Request("1.1", "stream", "close")}

MCClients == [c \in Conns |-> IF c = c1 THEN Various ELSE {}]
=============================================================================
