------------------------------- MODULE MCAudit -------------------------------
(***************************************************************************)
(* A chain (front -> home), a second edge that serves h1 as well and may   *)
(* be fronted by a tunnel, two internal resolvers and a public zone.  h2   *)
(* is declared internal, star is the pattern of their zone, x lies outside *)
(* every managed zone.                                                     *)
(***************************************************************************)
EXTENDS Audit, TLC

CONSTANTS h1, h2, star, x, front, home, side, lan1, lan2, cf, v1, v2

MCHosts == {h1, h2, star, x}
MCWirePos == (front :> 1) @@ (home :> 2) @@ (side :> 3) @@ (lan1 :> 1) @@ (lan2 :> 2) @@ (cf :> 3)
MCFronts == (front :> {}) @@ (home :> {h1, h2}) @@ (side :> {h1})
MCDownstream == (front :> home) @@ (home :> NoEdge) @@ (side :> NoEdge)
MCScope == (lan1 :> "internal") @@ (lan2 :> "internal") @@ (cf :> "public")
MCZoneOf == (h1 :> "z") @@ (h2 :> "z") @@ (star :> "z") @@ (x :> "y")
MCManagedZone == [p \in Providers |-> "z"]
MCCovers == [p \in Providers |-> {h1, h2, star}]
MCDnsKind == (lan1 :> "split") @@ (lan2 :> "split") @@ (cf :> "cloudflare")
MCTarget == (lan1 :> v1) @@ (lan2 :> v1) @@ (cf :> v2)
MCEvidence == (front :> "runtime") @@ (home :> "config") @@ (side :> "runtime")

R(dial, auth) ==
    [mode |-> "http", dial |-> dial, auth |-> auth, sni |-> "host", owner |-> "crenel"]

Gated == R("origin", "named")
Open == R("origin", "none")
Forward == R("downstream", "none")

Live(rs) == [routes    |-> [h \in Hosts |-> IF h \in DOMAIN rs THEN rs[h] ELSE NoRoute],
             deny      |-> TRUE, unparsed |-> {}, generator |-> "none", ingress |-> "",
             ephemeral |-> FALSE]

Names(rs) == [h \in Hosts |-> IF h \in DOMAIN rs THEN rs[h] ELSE NoRecord]

Ours(v) == [value |-> v, ours |-> TRUE]
Theirs(v) == [value |-> v, ours |-> FALSE]

Absent == [kind |-> "absent", exact |-> {}, wild |-> {}]
NoFiles == [e \in Edges |-> Absent]
Both == (h1 :> Gated) @@ (h2 :> Gated)
Answers == (h1 :> Ours(v1)) @@ (h2 :> Ours(v1))

\* Per-host forwards; a wildcard relay; wildcard records; h1 not exposed.
MCHealthy ==
    {[edges |-> (front :> Live(h1 :> Forward)) @@ (home :> Live(Both)) @@ (side :> Live(h1 :> Gated)),
      zone  |-> (lan1 :> Names(Answers)) @@ (lan2 :> Names(Answers)) @@ (cf :> Names(h1 :> Ours(v2))),
      file  |-> NoFiles],
     [edges |-> (front :> Live(star :> [Forward EXCEPT !.owner = "unmanaged"]))
                @@ (home :> Live(Both)) @@ (side :> Live(h1 :> Gated)),
      zone  |-> (lan1 :> Names(Answers)) @@ (lan2 :> Names(star :> Theirs(v1))) @@ (cf :> Names(h1 :> Ours(v2))),
      file  |-> NoFiles],
     [edges |-> (front :> Live(<<>>)) @@ (home :> Live(h2 :> Gated)) @@ (side :> Live(<<>>)),
      zone  |-> (lan1 :> Names(h2 :> Ours(v1))) @@ (lan2 :> Names(star :> Theirs(v1)))
                @@ (cf :> Names(star :> Theirs(v2))),
      file  |-> NoFiles]}

NothingDeclared == [e \in Edges |-> ""]

Declared(dns, ingress) ==
    [dns |-> dns, internal |-> FALSE, readonly |-> FALSE, ingress |-> ingress]

\* With and without names; read-only; internal; and the edge with a tunnel file
\* declared a public listener or a tunnel.
MCSettings ==
    {Declared({lan1, lan2, cf}, NothingDeclared),
     [Declared({}, NothingDeclared) EXCEPT !.readonly = TRUE],
     [Declared({}, NothingDeclared) EXCEPT !.internal = TRUE]}
    \cup {Declared({}, [NothingDeclared EXCEPT ![side] = k]) : k \in {"public-listener", "tunnel"}}

MCEdits ==
    {NoRoute, Gated, Open, Forward, [Open EXCEPT !.mode = "mesh"],
     [Gated EXCEPT !.sni = "other", !.owner = "foreign"]}

MCRecordEdits == {NoRecord, Ours(v1), Ours(v2), Theirs(v2)}

Sound == [deny |-> TRUE, unparsed |-> {}, generator |-> "none", ephemeral |-> FALSE]

MCEdgeEdits ==
    {[Sound EXCEPT !.deny = FALSE], [Sound EXCEPT !.unparsed = {"unknown"}],
     [Sound EXCEPT !.unparsed = {"acknowledged"}, !.ephemeral = TRUE],
     [Sound EXCEPT !.generator = "npm"], [Sound EXCEPT !.generator = "pangolin"]}

F(k, ex, wi) == [kind |-> k, exact |-> ex, wild |-> wi]

MCFiles ==
    {F("cloudflared", {h1}, {}), F("cloudflared", {x}, {star}), F("tailscale", {h1}, {}),
     F("malformed", {}, {}), F("other", {}, {})}
=============================================================================
