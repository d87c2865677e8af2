------------------------------- MODULE MCCaddy -------------------------------
(***************************************************************************)
(* CaddyEdge on a small edge: two hosts of one zone and one of another,    *)
(* and the shapes of route an operator's config mixes.                     *)
(***************************************************************************)
EXTENDS CaddyEdge, TLC

CONSTANTS a, b, c, z, y

McZoneOf == (a :> z) @@ (b :> z) @@ (c :> y)

Leaf(match, handle) ==
    [id |-> NoId, match |-> match, extra |-> FALSE, handle |-> handle, auth |-> "none",
     tls |-> FALSE, dial |-> "origin", subs |-> <<>>]

Deny == Leaf(<<>>, {"deny"})
Flat(h) == Leaf(<<h>>, {"proxy"})
Gated(h) == [Flat(h) EXCEPT !.auth = "detected"]
Owned(h) == [Flat(h) EXCEPT !.id = routeID(h)]
PathScoped(h) == [Flat(h) EXCEPT !.extra = TRUE]
Elsewhere(n) == [n EXCEPT !.dial = "elsewhere"]
Group == Leaf(<<a, b>>, {"proxy"})
Wildcard(subs) == [Leaf(<<z>>, {"sub"}) EXCEPT !.subs = subs]
Site(subs) == [Leaf(<<>>, {"sub"}) EXCEPT !.subs = subs]

HostNodes == {Wildcard(<<Flat(b), Deny>>), Elsewhere(Leaf(<<z>>, {"proxy"})), Flat(a),
              Owned(b), PathScoped(a), Group, Gated(a)}
CatchAlls == {Site(<<Deny>>), Site(<<Leaf(<<>>, {"proxy"})>>)}
McNodes == HostNodes \cup CatchAlls

McInserted == {Flat(a), Wildcard(<<Flat(b), Deny>>)}

Plain == [sibling |-> <<>>, l4 |-> <<>>, admin |-> "default", granular |-> TRUE, ops |-> 2]
Once(s) == [s EXCEPT !.ops = 1]
Full(s) == [Once(s) EXCEPT !.granular = FALSE]

\* A redirect helper, an understood forwarding server, one with a catch-all proxy.
Sibling(n) == [Once(Plain) EXCEPT !.sibling = <<n>>]
Helper == Sibling(Leaf(<<c>>, {"deny"}))
Understands == Sibling(Flat(c))
Open == Sibling(Leaf(<<>>, {"proxy"}))

L4(sni) == [Once(Plain) EXCEPT !.l4 = <<[id |-> NoId, sni |-> sni, proxy |-> TRUE]>>]

McShapes == {Plain, Helper, Understands, Open, L4(<<c>>),
             Full(Plain), Full(Helper), Full(Understands), Full(L4(<<c>>)),
             [Full(Plain) EXCEPT !.admin = "rich"]}

=============================================================================
