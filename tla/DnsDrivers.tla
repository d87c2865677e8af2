------------------------------ MODULE DnsDrivers ------------------------------
(***************************************************************************)
(* The DNS drivers behind ports.DNSProvider                                *)
(* (internal/drivers/dns/{adguard,pihole,cloudflare,dnscontrol}).          *)
(*                                                                         *)
(*   "split"       AdGuard and Pi-hole: no ownership marker; a record is   *)
(*                 crenel's exactly when its value is the desired one      *)
(*   "cloudflare"  records carry an ownership marker, others are foreign   *)
(*   "dnscontrol"  whole-zone push of a dedicated zone                     *)
(*                                                                         *)
(* A provider holds at most one record per name; zone[p][h] is it.         *)
(***************************************************************************)
EXTENDS Topology

CONSTANTS
    DnsKind,    \* provider -> driver
    Values,     \* record values
    NoValue,
    Target      \* provider -> the value DesiredRecords asks for

NoRecord == [value |-> NoValue, ours |-> FALSE]

RecordOrNone == [value : Values, ours : BOOLEAN] \cup {NoRecord}

Zone == [Hosts -> RecordOrNone]

ASSUME DnsDriverAssumption ==
    /\ DnsKind \in [Providers -> {"split", "cloudflare", "dnscontrol"}]
    /\ NoValue \notin Values
    /\ Target \in [Providers -> Values]

\* LiveRecords: Cloudflare lists only the records that carry its marker.
LiveValue(p, r) == IF DnsKind[p] = "cloudflare" /\ ~ r.ours THEN NoValue ELSE r.value

\* Every record LiveRecords returns is crenel's own.
OwnsAllLiveRecords(p) == DnsKind[p] = "cloudflare"

-----------------------------------------------------------------------------
(***************************************************************************)
(* A change to the operation's own name: the value to add and the value to *)
(* remove.                                                                 *)
(***************************************************************************)
DnsChange == [add : Values \cup {NoValue}, remove : Values \cup {NoValue}]

NoDnsChange == [add |-> NoValue, remove |-> NoValue]

\* Mutant of DiffRefuses: any record in the way counts as a conflict.
DiffRefusesAny(o, p, r) == o.verb = "expose" /\ r.value # NoValue

DiffRefuses(o, p, r) ==
    /\ o.verb = "expose" /\ r.value # NoValue
    /\ \/ DnsKind[p] = "split" /\ r.value # Target[p]
       \/ DnsKind[p] = "cloudflare" /\ ~ r.ours

Diff(o, p, r) ==
    IF o.verb = "expose"
    THEN IF LiveValue(p, r) = Target[p] THEN NoDnsChange
         ELSE [add |-> Target[p], remove |-> NoValue]
    ELSE IF \/ LiveValue(p, r) = NoValue
            \/ DnsKind[p] = "split" /\ r.value # Target[p]
         THEN NoDnsChange
         ELSE [add    |-> NoValue,
               remove |-> IF DnsKind[p] = "cloudflare" THEN r.value ELSE Target[p]]

invertDNS(c) == [add |-> c.remove, remove |-> c.add]

-----------------------------------------------------------------------------
\* Mutant of AfterRemove: the marker outlives its record.
MarkerLeftBehind(p, r, c) ==
    IF \/ c.remove = NoValue
       \/ DnsKind[p] = "split" /\ r.value # c.remove
       \/ DnsKind[p] = "cloudflare" /\ ~ r.ours
    THEN r ELSE [r EXCEPT !.value = NoValue]

\* The record left by the removes of a change.  The split drivers name the
\* value, Cloudflare deletes what it owns, dnscontrol deletes by name.
AfterRemove(p, r, c) ==
    IF \/ c.remove = NoValue
       \/ DnsKind[p] = "split" /\ r.value # c.remove
       \/ DnsKind[p] = "cloudflare" /\ ~ r.ours
    THEN r ELSE NoRecord

\* Cloudflare refuses to add over a record it does not own; and as it works
\* from one listing, an add after a remove updates a record that is gone.
AddRefused(p, r, c) ==
    /\ c.add # NoValue /\ DnsKind[p] = "cloudflare" /\ r.value # NoValue
    /\ r.ours => c.remove # NoValue

\* A call that works: the record it leaves and whether it reports an error.
DnsNominal(p, r, c) ==
    LET r1 == AfterRemove(p, r, c)
    IN  [r   |-> IF c.add = NoValue \/ AddRefused(p, r, c) THEN r1
                 ELSE [value |-> c.add, ours |-> TRUE],
         err |-> AddRefused(p, r, c)]

\* A call that goes wrong: refused outright, applied although an error came
\* back, or acknowledged without effect.
DnsFaulty(p, r, c, kinds) ==
    (IF "err" \in kinds THEN {[r |-> r, err |-> TRUE]} ELSE {})
    \cup (IF "landed" \in kinds
          THEN {[r |-> DnsNominal(p, r, c).r, err |-> TRUE]} ELSE {})
    \cup (IF "silent" \in kinds THEN {[r |-> r, err |-> FALSE]} ELSE {})

verifyDNS(o, p, r) ==
    \/ o.verb = "expose" /\ LiveValue(p, r) = Target[p]
    \/ o.verb = "unexpose" /\ LiveValue(p, r) = NoValue

\* Mutant of VerifyProvider: the operator's scopes are not consulted.
VerifyAnyScope(o, p, r) == ~ dnsCoversHost(o, p) \/ verifyDNS(o, p, r)

\* One provider's result in Engine.verify, with its two skip predicates.
VerifyProvider(o, p, r) ==
    \/ ~ scopeSelected(o, p)
    \/ ~ dnsCoversHost(o, p)
    \/ verifyDNS(o, p, r)
=============================================================================
