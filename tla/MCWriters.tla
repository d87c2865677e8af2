------------------------------ MODULE MCWriters ------------------------------
(***************************************************************************)
(* Instances of module Writers for TLC.                                    *)
(***************************************************************************)
EXTENDS Writers, TLC

CONSTANTS alice, bob, agent, app, blog, main

OneLock == [p \in Writers |-> main]

Request(v, h, a) == [verb |-> v, host |-> h, auth |-> a]

Switches == {Request(v, h, TRUE) : v \in {"expose", "unexpose"}, h \in Hosts}
Guarded == Switches \cup {Request("expose", app, FALSE)}

-----------------------------------------------------------------------------
\* An MCP server, which takes no lock, sets out to apply while no other writer is
\* at work, and none starts before it is done.  Up to then, between its own
\* comparison of ids and its plan too, the others do as they like.
Apart == \A p \in Mcp : pc'[p] \notin {"idle", "plan"} => \A q \in Writers \ {p} : pc'[q] = "idle"

ApartSpec == Init /\ [][Next /\ Apart]_vars /\ Fairness
=============================================================================
