----------------------------- MODULE MCEdgeFiles -----------------------------
(***************************************************************************)
(* Two hosts, two backends, two ports; brownfield files of up to two       *)
(* blocks, routers or tree files, each of a shape the drivers tell apart.  *)
(***************************************************************************)
EXTENDS EdgeFiles

CONSTANTS h1, h2, b1, b2, web, alt, any, tls, lab

MCOps ==
    {[verb |-> "expose", host |-> h1, mode |-> "http", auth |-> "named"],
     [verb |-> "expose", host |-> h2, mode |-> "http", auth |-> "none"],
     [verb |-> "expose", host |-> h1, mode |-> "tcp", auth |-> "none"],
     [verb |-> "unexpose", host |-> h1, mode |-> "http", auth |-> "none"]}

MCOrigin == (h1 :> b1) @@ (h2 :> b2)

MCPorts == {80, 443}

Vh(names, port, to, auth) ==
    [kind |-> "server", marker |-> "none", names |-> names, default |-> "no",
     port |-> port, to |-> to, paths |-> FALSE, auth |-> auth, ack |-> FALSE]

\* Operator blocks: a plain vhost, one gated by basic auth, one on another port
\* with two names, a redirect, a path-routed vhost (acknowledged or not), a
\* denying and a forwarding default server, a bare server_name _, a wrapper.
MCBlocks ==
    {Vh(<<h1>>, 80, b1, "none"),
     Vh(<<h1>>, 80, b1, "basic"),
     Vh(<<h2, h1>>, 443, b2, "request"),
     Vh(<<h2>>, 80, Nothing, "none"),
     [Vh(<<h2>>, 443, b2, "none") EXCEPT !.paths = TRUE],
     [Vh(<<h2>>, 443, b2, "none") EXCEPT !.paths = TRUE, !.ack = TRUE],
     [Vh(<<>>, 443, Nothing, "none") EXCEPT !.default = "flag"],
     [Vh(<<>>, 80, b2, "none") EXCEPT !.default = "flag"],
     [Vh(<<>>, 80, Nothing, "none") EXCEPT !.default = "underscore"],
     [Vh(<<>>, 80, Nothing, "none") EXCEPT !.kind = "wrapper"]}

\* crenel's own file for h1, gated.
MCOwn == applyNginx(<<>>, [add |-> {[host |-> h1, to |-> b1, mode |-> "http",
                                     auth |-> "named", managed |-> TRUE]}, remove |-> {}])

\* The blocks that stand last in a file of two: some share a name or a port with
\* the first, others decide what the rest of the requests get.
MCLast ==
    {Vh(<<h1>>, 80, b1, "basic"),
     Vh(<<h2, h1>>, 443, b2, "request"),
     [Vh(<<h2>>, 443, b2, "none") EXCEPT !.paths = TRUE, !.ack = TRUE],
     [Vh(<<>>, 443, Nothing, "none") EXCEPT !.default = "flag"],
     [Vh(<<>>, 80, b2, "none") EXCEPT !.default = "flag"]}

MCNginxFiles ==
    {<<>>, MCOwn} \cup {<<b>> : b \in MCBlocks}
    \cup {<<b, c>> : b \in MCBlocks, c \in MCLast} \cup {<<b>> \o MCOwn : b \in MCBlocks}

Cfg(k, router, s, service) ==
    [routers |-> k :> router, services |-> s :> service, tcp |-> EmptyTable, defs |-> FALSE]

R(hosts, s, mw) == [hosts |-> hosts, cond |-> FALSE, service |-> s, mw |-> mw, ack |-> FALSE]
S(to) == [shape |-> "servers", to |-> to]

\* Operator routers: gated, with a header middleware, two hosts in one rule,
\* path-scoped, host-less (to a balancer or a weighted service), a docker router,
\* one whose service is missing, and one that shares another's service.
MCSnippets ==
    {Cfg(web, R(<<h1>>, web, "auth"), web, S(b1)),
     Cfg(web, R(<<h1, h2>>, web, "headers"), web, S(b1)),
     Cfg(alt, R(<<h2>>, web, "none"), web, S(b1)),
     Cfg(alt, R(<<h2>>, alt, "none"), alt, S(b2)),
     Cfg(alt, [R(<<h2>>, alt, "none") EXCEPT !.cond = TRUE], alt, S(b2)),
     Cfg(any, R(<<>>, any, "none"), any, S(b2)),
     Cfg(any, R(<<>>, any, "none"), any, [shape |-> "weighted", to |-> b2]),
     Cfg(lab, R(<<h2>>, alt, "none"), alt, S(b2)),
     [Cfg(web, R(<<h2>>, alt, "none"), web, S(b1)) EXCEPT
         !.tcp = tls :> [sni |-> {h1}, to |-> b2]]}

MCOwnConfig ==
    applyTraefik(EmptyConfig, [add |-> {[host |-> h1, to |-> b1, mode |-> "http",
                                         auth |-> "named", managed |-> TRUE]}, remove |-> {}])

\* Those that share a service, or bring TCP routers, are put beside each other.
MCBeside ==
    {Cfg(alt, R(<<h2>>, web, "none"), web, S(b1)),
     [Cfg(web, R(<<h2>>, alt, "none"), web, S(b1)) EXCEPT
         !.tcp = tls :> [sni |-> {h1}, to |-> b2]]}

MCTraefikFiles ==
    {EmptyConfig, MCOwnConfig} \cup MCSnippets
    \cup {Pasted("traefik", s, t) : s \in {c \in MCSnippets : any \notin DOMAIN c.routers},
                                    t \in MCBeside}
    \cup {Pasted("traefik", MCOwnConfig, s) : s \in MCSnippets}

File(dir, readable, include, block) ==
    [dir |-> dir, readable |-> readable, include |-> include, block |-> block]

MCTreeFiles ==
    {File("default_host", r, "none", [Vh(<<>>, 80, Nothing, "none") EXCEPT !.default = "flag"]) :
        r \in BOOLEAN}
    \cup {File("default_host", TRUE, "none", [Vh(<<>>, 80, b2, "none") EXCEPT !.default = "flag"])}
    \cup {File("proxy_host", r, i, Vh(<<h1>>, p, b1, "basic")) :
             r \in BOOLEAN, i \in {"vars", "unset", "away"}, p \in MCPorts}
    \cup {File("proxy_host", TRUE, "gone", [Vh(<<h2>>, 443, b2, "none") EXCEPT !.paths = TRUE]),
          File("stream", TRUE, "none", Vh(<<>>, 443, b2, "none"))}

MCTrees == {T \in SUBSET MCTreeFiles : Cardinality(T) <= 2}

MCStartFiles ==
    [k \in {"nginx", "traefik", "npm"} |->
        CASE k = "nginx" -> MCNginxFiles [] k = "traefik" -> MCTraefikFiles [] OTHER -> MCTrees]

MCPaste ==
    [k \in {"nginx", "traefik", "npm"} |->
        CASE k = "nginx" -> {Vh(<<h2>>, 80, b2, "none")}
          [] k = "traefik" -> {Cfg(alt, R(<<h2>>, web, "none"), web, S(b1))}
          [] OTHER -> {}]
=============================================================================
