------------------------- MODULE MCRequestContext -------------------------
(***************************************************************************)
(* Small instances of RequestContext.                                      *)
(***************************************************************************)
EXTENDS RequestContext

CONSTANTS v, w

Rid == "x-request-id"

\* One header is set twice in one reply, added, or removed.
Ops == {[op |-> "set", headers |-> <<<<"k", v>>, <<"k", w>>>>],
        [op |-> "append", headers |-> <<<<Rid, w>>>>],
        [op |-> "remove", keys |-> {"k", Rid}]}

\* 10.0.0.1:80 and [::1]:80
Clients == {<<"10.0.0.1", "80">>, <<"[", "", "1]", "80">>}
NoClients == {}
=============================================================================
