------------------------------ MODULE NginxFile ------------------------------
(***************************************************************************)
(* The nginx driver's view of a config file (internal/drivers/edge/nginx): *)
(* how the top-level blocks are classified and normalized, what Apply and  *)
(* Adopt write back, and how the read-only reader of an Nginx Proxy        *)
(* Manager tree folds its files.  A file is the sequence of its top-level  *)
(* blocks; a block keeps what classify extracts from its text.             *)
(***************************************************************************)
EXTENDS LiveConfig, Naturals, SequencesExt, FiniteSetsExt

CONSTANTS
    Ports,        \* ports a server may listen on
    ListenPort    \* the port of crenel's own blocks (tlsConfig.port)

Void == "void"    \* proxy_pass with an empty address

ASSUME NginxAssumption ==
    /\ ListenPort \in Ports
    /\ Void \notin Backends \cup {Nothing}

\* default: the listen flag (default_server, or its alias default), a bare
\* server_name _, or neither.  auth: an auth_request to a location that exists,
\* to one that does not, or an auth_basic challenge.
Block == [kind    : {"server", "wrapper", "map"},
          marker  : {"none", "managed", "deny"},
          names   : UNION {[1 .. n -> Hosts] : n \in 0 .. 2},
          default : {"no", "flag", "underscore"},
          port    : Ports,
          to      : Backends \cup {Nothing, Void},
          paths   : BOOLEAN,
          auth    : {"none", "request", "dangling", "basic"},
          ack     : BOOLEAN]

-----------------------------------------------------------------------------
(***************************************************************************)
(* classify and normalize.                                                 *)
(***************************************************************************)
isServer(b) == b.kind = "server"
forwards(b) == isServer(b) /\ b.to # Nothing
catchAll(b) == isServer(b) /\ b.default # "no"

\* Only the first server_name becomes the block's host.
hostOf(b) == IF b.names = <<>> THEN Nothing ELSE b.names[1]

AddressOf(b) == IF b.to = Void THEN Nothing ELSE b.to

Vhost(b) == isServer(b) /\ ~ catchAll(b) /\ hostOf(b) # Nothing

\* policyForAuthURI: an auth_request of a crenel block names its policy (the
\* URI of "(detected)" reads back as "(detected)"); any other gate is detected.
BlockAuth(b) ==
    CASE b.auth = "request" -> (IF b.marker = "managed" THEN "named" ELSE "detected")
      [] b.auth \in {"basic", "dangling"} -> "detected"
      [] OTHER -> "none"

\* A vhost the host-granular model can represent.
Modelled(b) == Vhost(b) /\ forwards(b) /\ ~ b.paths

BlockRoute(b) ==
    [host |-> hostOf(b), to |-> AddressOf(b), mode |-> "http", auth |-> BlockAuth(b),
     managed |-> b.marker = "managed"]

\* Everything else that could serve traffic is declared, by its kind.
BlockUnparsed(b) ==
    CASE ~ isServer(b) -> {"server_block"}
      [] isServer(b) /\ ~ catchAll(b) /\ hostOf(b) = Nothing /\ forwards(b) -> {"matcher"}
      [] Vhost(b) /\ ~ forwards(b) -> {ackAware(b.ack, "handler")}
      [] Vhost(b) /\ forwards(b) /\ b.paths -> {ackAware(b.ack, "matcher")}
      [] OTHER -> {}

\* Mutant of forwardingPorts: deny is judged for the file as a whole.
AnyPort(bs) == {ListenPort : b \in {c \in bs : Modelled(c)}}

\* Ports that hand traffic to a backend, and ports with a denying default.
forwardingPorts(bs) ==
    {b.port : b \in {c \in bs : Modelled(c) \/ (catchAll(c) /\ forwards(c))}}

denyPorts(bs) == {b.port : b \in {c \in bs : catchAll(c) /\ ~ forwards(c)}}

permissiveCatchAll(bs) == \E b \in bs : catchAll(b) /\ forwards(b)

DenyCatchAllPresent(bs) ==
    ~ permissiveCatchAll(bs) /\ forwardingPorts(bs) \subseteq denyPorts(bs)

normalizeNginx(file) ==
    LET bs == ToSet(file)
    IN [routes    |-> {BlockRoute(b) : b \in {c \in bs : Modelled(c)}},
        deny      |-> DenyCatchAllPresent(bs),
        unparsed  |-> UNION {BlockUnparsed(b) : b \in bs},
        generator |-> FALSE]

-----------------------------------------------------------------------------
(***************************************************************************)
(* Apply and Adopt: read-modify-write of the whole file.                   *)
(***************************************************************************)
\* The server block crenel renders for a route: its own port, one name, one
\* location.  A policy it cannot name becomes a reference to nothing.
ManagedBlock(r) ==
    [kind |-> "server", marker |-> "managed", names |-> <<r.host>>, default |-> "no",
     port |-> ListenPort, to |-> IF r.to = Nothing THEN Void ELSE r.to, paths |-> FALSE,
     auth |-> CASE r.auth = "named" -> "request" [] r.auth = "detected" -> "dangling"
                [] OTHER -> "none",
     ack |-> FALSE]

DenyBlock ==
    [kind |-> "server", marker |-> "deny", names |-> <<>>, default |-> "flag",
     port |-> ListenPort, to |-> Nothing, paths |-> FALSE, auth |-> "none", ack |-> FALSE]

renderConfig(unmanaged, routes) ==
    unmanaged \o SetToSeq({ManagedBlock(r) : r \in routes}) \o <<DenyBlock>>

Owned(b) == isServer(b) /\ b.marker # "none"

\* Mutant of CarriedRoute: the gate of a carried route is forgotten.
CarriedUngated(file, h) ==
    LET i == Max({j \in 1 .. Len(file) : /\ isServer(file[j]) /\ file[j].marker = "managed"
                                          /\ hostOf(file[j]) = h})
    IN [BlockRoute(file[i]) EXCEPT !.auth = "none"]

\* The route Apply carries over for a marked block: the last block of a host
\* wins, and of its gate only an auth_request survives.
CarriedRoute(file, h) ==
    LET i == Max({j \in 1 .. Len(file) : /\ isServer(file[j]) /\ file[j].marker = "managed"
                                          /\ hostOf(file[j]) = h})
    IN [BlockRoute(file[i]) EXCEPT
          !.auth = IF file[i].auth = "basic" THEN "none" ELSE @]

CarriedHosts(file) ==
    {hostOf(b) : b \in {c \in ToSet(file) : isServer(c) /\ c.marker = "managed"}} \ {Nothing}

\* The blocks that are not crenel's, in the order of the file.
Unmanaged(file) ==
    LET upTo[n \in 0 .. Len(file)] ==
            IF n = 0 THEN <<>>
            ELSE IF Owned(file[n]) THEN upTo[n - 1] ELSE Append(upTo[n - 1], file[n])
    IN upTo[Len(file)]

\* Unmarked blocks are kept as they are, crenel's are rendered again.
applyNginx(file, c) ==
    renderConfig(Unmanaged(file),
                 {CarriedRoute(file, h) :
                      h \in CarriedHosts(file) \ (c.remove \cup {r.host : r \in c.add})}
                     \cup c.add)

\* Adopt stamps the marker on every unmarked block of a wanted host.
adoptNginx(file, hosts) ==
    [i \in DOMAIN file |->
        IF isServer(file[i]) /\ file[i].marker = "none" /\ hostOf(file[i]) \in hosts
        THEN [file[i] EXCEPT !.marker = "managed"]
        ELSE file[i]]

-----------------------------------------------------------------------------
(***************************************************************************)
(* The daemon (external): nginx -t, and the block that answers a request.  *)
(***************************************************************************)
nginxTest(file) ==
    /\ \A i, j \in DOMAIN file :
          i < j => ~ (/\ file[i].default = "flag" /\ file[j].default = "flag"
                      /\ file[i].port = file[j].port)
    /\ \A i \in DOMAIN file : file[i].to # Void

\* First block on the port that names h, else the default server, else the
\* first block on the port.
Answering(file, p, h) ==
    LET on      == {i \in DOMAIN file : isServer(file[i]) /\ file[i].port = p}
        naming  == {i \in on : h \in ToSet(file[i].names)}
        default == {i \in on : file[i].default = "flag"}
    IN IF naming # {} THEN Min(naming)
       ELSE IF default # {} THEN Min(default)
       ELSE IF on # {} THEN Min(on) ELSE 0

\* An answer that reaches a backend, per port.
nginxServes(file, h) ==
    UNION {LET i == Answering(file, p, h)
           IN IF i = 0 \/ ~ forwards(file[i]) THEN {}
              ELSE {[port |-> p, to |-> file[i].to, gate |-> file[i].auth,
                     paths |-> file[i].paths]} : p \in Ports}

-----------------------------------------------------------------------------
(***************************************************************************)
(* The Nginx Proxy Manager tree: one file per host, an include per file.   *)
(* vars: the proxy.conf idiom with its variables set; unset: without them; *)
(* away: a path outside the tree; gone: a literal path that is missing or  *)
(* nested too deep.                                                        *)
(***************************************************************************)
TreeFile == [dir      : {"default_host", "proxy_host", "stream"},
             readable : BOOLEAN,
             include  : {"none", "vars", "unset", "away", "gone"},
             block    : Block]

\* Includes that are not followed are declared.
resolveIncludes(f) ==
    CASE f.include = "unset" -> {"backend"}
      [] f.include \in {"away", "gone"} -> {"handler"}
      [] OTHER -> {}

\* The block as the reader sees it: without its variables the proxy include
\* leaves no proxy_pass behind, and no ack marker is looked for.
ReadBlock(f) ==
    [f.block EXCEPT !.ack = FALSE, !.to = IF f.include = "unset" THEN Nothing ELSE @]

ReadTree(tree) ==
    LET parsed == {f \in tree : f.dir # "stream"}
        bs     == {ReadBlock(f) : f \in {g \in parsed : g.readable}}
        sawDefaultServer == \E b \in bs : catchAll(b)
    IN [routes    |-> {[BlockRoute(b) EXCEPT !.managed = FALSE] :
                          b \in {c \in bs : Modelled(c)}},
        deny      |-> sawDefaultServer => DenyCatchAllPresent(bs),
        unparsed  |-> (UNION {resolveIncludes(f) : f \in {g \in parsed : g.readable}})
                      \cup (UNION {BlockUnparsed(b) : b \in {c \in bs : c.kind # "map"}})
                      \cup (IF /\ sawDefaultServer
                               /\ \A f \in tree : f.readable /\ f.dir # "stream"
                            THEN {} ELSE {"server_block"}),
        generator |-> TRUE]

\* What nginx makes of the tree: every file in one http block.
TreeConfig(tree) ==
    SetToSeq({f.block : f \in {g \in tree : g.dir # "stream" /\ g.block.kind = "server"}})
=============================================================================
