------------------------------ MODULE Registry ------------------------------
(***************************************************************************)
(* What crenel promises an operator who runs several invocations at once:  *)
(* one registry of hosts, in which a host is routed or not and named or    *)
(* not.  A host is opened for change, one at a time; while it is open, its *)
(* route and its name are set one by one, each in an atomic step; nobody   *)
(* else's route or name ever changes.  The one exception is an invocation  *)
(* that is killed inside the write of the config file, which loses every   *)
(* route.                                                                  *)
(*                                                                         *)
(* Module Writers implements it with a lock file and a config file that is *)
(* read, truncated and written back.                                       *)
(***************************************************************************)
CONSTANT Hosts

VARIABLES
    routed,   \* hosts that the edge routes
    named,    \* hosts that public DNS answers
    open      \* the host being changed, as a set of at most one

state == <<routed, named, open>>

Init ==
    /\ routed \in SUBSET Hosts
    /\ named = routed
    /\ open = {}

Open(h) == open = {} /\ open' = {h} /\ UNCHANGED <<routed, named>>

\* The last change of a host may close it.
SetRoute(h) ==
    /\ h \in open /\ open' \in {open, {}}
    /\ routed' \in {routed \cup {h}, routed \ {h}}
    /\ UNCHANGED named

SetName(h) ==
    /\ h \in open /\ open' \in {open, {}}
    /\ named' \in {named \cup {h}, named \ {h}}
    /\ UNCHANGED routed

Close == open # {} /\ open' = {} /\ UNCHANGED <<routed, named>>

Tear == open # {} /\ open' = {} /\ routed' = {} /\ UNCHANGED named

Next == \/ \E h \in Hosts : Open(h) \/ SetRoute(h) \/ SetName(h)
        \/ Close \/ Tear

Spec == Init /\ [][Next]_state
=============================================================================
