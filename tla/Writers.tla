------------------------------- MODULE Writers -------------------------------
(***************************************************************************)
(* Several crenel processes at one file-provider edge (nginx) and one      *)
(* public DNS provider: command-line invocations, which hold a file lock   *)
(* for the whole verb (cmd/crenel/lock.go, dispatch), and MCP servers,     *)
(* which run the same transaction behind a plan id (cmd/crenel/mcp.go) and *)
(* take no lock.                                                           *)
(*                                                                         *)
(* Module Engine treats a provider call as one step.  Here an edge call is *)
(* what the driver does: read the config file, truncate it, write it back. *)
(* A DNS call changes one record at the provider and stays one step.  All  *)
(* routes and records are crenel's; ownership is the subject of Engine.    *)
(***************************************************************************)
EXTENDS Naturals

CONSTANTS
    Writers,        \* crenel processes
    Mcp,            \* those that serve MCP in read/write mode
    Paths,          \* lock files
    LockPath,       \* writer -> the lock file beside its settings file
    Nobody,
    Hosts,
    Ops,            \* the operations that may be asked for
    MaxOps,         \* bound on verbs and tool calls
    MaxFaults       \* bound on failing calls and kills

Op == [verb : {"expose", "unexpose"}, host : Hosts, auth : BOOLEAN]

Legs == {"edge", "dns"}

ASSUME WritersAssumption ==
    /\ Mcp \subseteq Writers
    /\ Nobody \notin Writers
    /\ LockPath \in [Writers -> Paths]
    /\ Ops \subseteq Op /\ Ops # {}
    /\ MaxOps \in Nat /\ MaxFaults \in Nat

VARIABLES
    file,       \* the edge's config file
    names,      \* the hosts with a public record
    lock,       \* lock file -> the process that has it locked
    pc,         \* where each writer is
    op,         \* its operation
    plan,       \* the legs its ChangeSet changes
    snap,       \* the file at its snapshot
    todo,       \* legs not yet applied
    applied,    \* legs whose compensator is pending
    phase,      \* where it is inside an edge call
    buf,        \* the file as that call read it
    issued,     \* plan ids handed out by crenel_plan
    token,      \* the change whose id crenel_apply accepted
    outcome,    \* how its last verb or tool call ended
    opsLeft, credit,
    settled,    \* history: what the last completed change of a host left
    torn,       \* history: a writer was killed inside os.WriteFile
    raced       \* history: another writer got between a server's two plans

txn == <<op, plan, snap, todo, applied, phase, buf>>
mcp == <<issued, token, raced>>
vars == <<file, names, lock, pc, txn, mcp, outcome, opsLeft, credit, settled, torn>>

\* The file between its truncation and the write: no server block, no deny.
Torn == [hosts |-> {}, deny |-> FALSE]

File == [hosts : SUBSET Hosts, deny : BOOLEAN]

-----------------------------------------------------------------------------
\* Engine.Plan: the legs that do not show the desired state.
Changes(o) ==
    {l \in Legs :
        (o.verb = "expose") # (o.host \in (IF l = "edge" THEN file.hosts ELSE names))}

\* ChangeSet.NewPublic is not empty.
GoesPublic(o, legs) == o.verb = "expose" /\ "dns" \in legs

\* The public-without-auth guard of the CLI and of crenel_apply.
guardPublicAuth(o, legs) == GoesPublic(o, legs) /\ ~ o.auth

\* The plan id is a hash of the change.
PlanId == [op : Ops, legs : SUBSET Legs]

\* Mutant of IdMatches: the id only proves that something was previewed.
AnyPreview(t) == TRUE

IdMatches(t) == t.legs = Changes(t.op)

\* A writer that has not run yet has no operation; any value will do.
AnyOp == CHOOSE o \in Ops : TRUE

Init ==
    /\ \E up \in SUBSET Hosts : file = [hosts |-> up, deny |-> TRUE] /\ names = up
    /\ lock = [l \in Paths |-> Nobody]
    /\ pc = [p \in Writers |-> "idle"]
    /\ op = [p \in Writers |-> AnyOp]
    /\ plan = [p \in Writers |-> {}]
    /\ snap = [p \in Writers |-> Torn]
    /\ todo = [p \in Writers |-> {}]
    /\ applied = [p \in Writers |-> {}]
    /\ phase = [p \in Writers |-> "none"]
    /\ buf = [p \in Writers |-> Torn]
    /\ issued = [p \in Writers |-> {}]
    /\ token = [p \in Writers |-> {}]
    /\ outcome = [p \in Writers |-> "none"]
    /\ opsLeft = MaxOps /\ credit = MaxFaults
    /\ settled = [h \in Hosts |-> "open"]
    /\ torn = FALSE
    /\ raced = [p \in Writers |-> FALSE]

Fault == credit > 0 /\ credit' = credit - 1

Goto(p, l) == pc' = [pc EXCEPT ![p] = l] /\ UNCHANGED <<lock, outcome>>

\* The deferred unlock; the kernel does the same when a process dies.
Unlocked(p) == [l \in Paths |-> IF lock[l] = p THEN Nobody ELSE lock[l]]

\* Mutant of Finish: a verb that ends in an error returns without unlocking.
FinishLocked(p, out) ==
    /\ pc' = [pc EXCEPT ![p] = "idle"]
    /\ lock' = IF out = "failed" THEN lock ELSE Unlocked(p)
    /\ outcome' = [outcome EXCEPT ![p] = out]

Finish(p, out) ==
    /\ pc' = [pc EXCEPT ![p] = "idle"]
    /\ lock' = Unlocked(p)
    /\ outcome' = [outcome EXCEPT ![p] = out]

-----------------------------------------------------------------------------
(***************************************************************************)
(* The command line.                                                       *)
(***************************************************************************)
Dispatch(p) ==
    /\ p \notin Mcp /\ pc[p] = "idle"
    /\ opsLeft > 0 /\ opsLeft' = opsLeft - 1
    /\ \/ /\ lock[LockPath[p]] = Nobody
          /\ lock' = [lock EXCEPT ![LockPath[p]] = p]
          /\ \E o \in Ops : op' = [op EXCEPT ![p] = o]
          /\ pc' = [pc EXCEPT ![p] = "guard"]
          /\ UNCHANGED outcome
       \/ /\ lock[LockPath[p]] # Nobody
          /\ outcome' = [outcome EXCEPT ![p] = "busy"]
          /\ UNCHANGED <<lock, op, pc>>
    /\ UNCHANGED <<file, names, plan, snap, todo, applied, phase, buf, mcp, credit, settled, torn>>

Guard(p) ==
    /\ pc[p] = "guard"
    /\ \/ guardPublicAuth(op[p], Changes(op[p])) /\ Finish(p, "refused")
       \/ ~ guardPublicAuth(op[p], Changes(op[p])) /\ Goto(p, "plan")
    /\ UNCHANGED <<file, names, txn, mcp, opsLeft, credit, settled, torn>>

(***************************************************************************)
(* The MCP tools.  A server answers one request at a time.                 *)
(***************************************************************************)
CrenelPlan(p) ==
    /\ p \in Mcp /\ pc[p] = "idle"
    /\ opsLeft > 0 /\ opsLeft' = opsLeft - 1
    /\ \E o \in Ops :
        issued' = [issued EXCEPT ![p] = @ \cup {[op |-> o, legs |-> Changes(o)]}]
    /\ UNCHANGED <<file, names, lock, pc, txn, token, raced, outcome, credit, settled, torn>>

\* The client may come back with any plan id it was given, however old.
CrenelApply(p) ==
    /\ p \in Mcp /\ pc[p] = "idle"
    /\ opsLeft > 0 /\ opsLeft' = opsLeft - 1
    /\ \E t \in issued[p] :
        \/ ~ IdMatches(t) /\ Finish(p, "refused") /\ UNCHANGED <<op, token, raced>>
        \/ IdMatches(t) /\ t.legs = {} /\ Finish(p, "noop") /\ UNCHANGED <<op, token, raced>>
        \/ /\ IdMatches(t) /\ guardPublicAuth(t.op, Changes(t.op))
           /\ Finish(p, "refused") /\ UNCHANGED <<op, token, raced>>
        \/ /\ IdMatches(t) /\ t.legs # {} /\ ~ guardPublicAuth(t.op, Changes(t.op))
           /\ op' = [op EXCEPT ![p] = t.op]
           /\ token' = [token EXCEPT ![p] = t.legs]
           /\ raced' = [raced EXCEPT ![p] = FALSE]
           /\ Goto(p, "plan")
    /\ UNCHANGED <<file, names, plan, snap, todo, applied, phase, buf, issued,
                   credit, settled, torn>>

-----------------------------------------------------------------------------
(***************************************************************************)
(* Engine.Apply, which plans for itself.                                   *)
(***************************************************************************)
Plan(p) ==
    /\ pc[p] = "plan"
    /\ plan' = [plan EXCEPT ![p] = Changes(op[p])]
    /\ \/ Changes(op[p]) = {} /\ Finish(p, "noop")
       \/ Changes(op[p]) # {} /\ Goto(p, "confirm")
    /\ UNCHANGED <<file, names, op, snap, todo, applied, phase, buf, mcp, opsLeft,
                   credit, settled, torn>>

\* MCP answers its own confirmation with AlwaysYes.
Confirm(p) ==
    /\ pc[p] = "confirm"
    /\ \/ Goto(p, "snapshot")
       \/ p \notin Mcp /\ Finish(p, "declined")
    /\ UNCHANGED <<file, names, txn, mcp, opsLeft, credit, settled, torn>>

Snapshot(p) ==
    /\ pc[p] = "snapshot"
    /\ snap' = [snap EXCEPT ![p] = file]
    /\ todo' = [todo EXCEPT ![p] = plan[p]]
    /\ applied' = [applied EXCEPT ![p] = {}]
    /\ settled' = [settled EXCEPT ![op[p].host] = "open"]
    /\ Goto(p, "apply")
    /\ UNCHANGED <<file, names, op, plan, phase, buf, mcp, opsLeft, credit, torn>>

\* Announce last, withdraw first; compensators run in reverse.
NextLeg(p, l) ==
    IF pc[p] = "apply"
    THEN /\ l \in todo[p]
         /\ l = "edge" \/ todo[p] = {"dns"} \/ op[p].verb = "unexpose"
         /\ l = "dns" \/ todo[p] = {"edge"} \/ op[p].verb = "expose"
    ELSE /\ pc[p] = "rollback" /\ l \in applied[p]
         /\ l = "dns" \/ applied[p] = {"edge"} \/ op[p].verb = "unexpose"
         /\ l = "edge" \/ applied[p] = {"dns"} \/ op[p].verb = "expose"

\* Leg l is done, or undone.
Advance(p, l) ==
    \/ /\ pc[p] = "apply"
       /\ todo' = [todo EXCEPT ![p] = @ \ {l}]
       /\ applied' = [applied EXCEPT ![p] = @ \cup {l}]
       /\ UNCHANGED <<pc, lock, outcome>>
    \/ /\ pc[p] = "rollback"
       /\ applied' = [applied EXCEPT ![p] = @ \ {l}]
       /\ IF applied[p] = {l} THEN Finish(p, "failed") ELSE UNCHANGED <<pc, lock, outcome>>
       /\ UNCHANGED todo

\* Mutant of StartRollback: the lock is given up before the compensators run.
RollbackUnlocked(p) ==
    \/ applied[p] = {} /\ Finish(p, "failed")
    \/ /\ applied[p] # {}
       /\ pc' = [pc EXCEPT ![p] = "rollback"] /\ lock' = Unlocked(p) /\ UNCHANGED outcome

StartRollback(p) ==
    \/ applied[p] = {} /\ Finish(p, "failed")
    \/ applied[p] # {} /\ Goto(p, "rollback")

\* A leg's call returns an error: what was applied is undone; an undo that
\* fails is reported and the next one tried.
LegFails(p, l) ==
    /\ Fault
    /\ \/ pc[p] = "apply" /\ StartRollback(p) /\ UNCHANGED <<todo, applied>>
       \/ pc[p] = "rollback" /\ Advance(p, l)

\* The host is to be present after the step in hand.
Wanted(p) == (pc[p] = "apply") = (op[p].verb = "expose")

\* p's call falls between the comparison of ids and the plan of the servers in S.
Overtakes(p, S) ==
    raced' = [q \in Writers |-> raced[q] \/ (q # p /\ q \in S /\ pc[q] = "plan")]

DnsCall(p) ==
    /\ NextLeg(p, "dns") /\ phase[p] = "none"
    /\ \/ /\ names' = IF Wanted(p) THEN names \cup {op[p].host} ELSE names \ {op[p].host}
          /\ Advance(p, "dns")
          /\ Overtakes(p, {q \in Mcp : op[q].host = op[p].host})
          /\ UNCHANGED credit
       \/ UNCHANGED <<names, raced>> /\ LegFails(p, "dns")
    /\ UNCHANGED <<file, op, plan, snap, phase, buf, issued, token, opsLeft, settled, torn>>

\* The edge call: read the file ...
ReadFile(p) ==
    /\ NextLeg(p, "edge") /\ phase[p] = "none"
    /\ \/ /\ buf' = [buf EXCEPT ![p] = file]
          /\ phase' = [phase EXCEPT ![p] = "edit"]
          /\ UNCHANGED <<pc, lock, outcome, todo, applied, credit>>
       \/ LegFails(p, "edge") /\ UNCHANGED <<buf, phase>>
    /\ UNCHANGED <<file, names, op, plan, snap, mcp, opsLeft, settled, torn>>

\* ... open it for writing, which truncates it ...
Truncate(p) ==
    /\ phase[p] = "edit"
    /\ file' = Torn
    /\ phase' = [phase EXCEPT ![p] = "write"]
    /\ Overtakes(p, Mcp)
    /\ UNCHANGED <<names, lock, pc, op, plan, snap, todo, applied, buf, issued, token, outcome,
                   opsLeft, credit, settled, torn>>

\* Mutant of Edited: the blocks that were read are not carried over.
OwnBlockOnly(p) == IF Wanted(p) THEN {op[p].host} ELSE {}

\* ... and write all of it back with one host changed.  A compensator puts a
\* route back only if the snapshot had it.
Edited(p) ==
    LET h == op[p].host IN
    IF ~ Wanted(p) THEN buf[p].hosts \ {h}
    ELSE IF pc[p] = "apply" \/ h \in snap[p].hosts THEN buf[p].hosts \cup {h}
    ELSE buf[p].hosts

\* The call still fails when nginx -t or the reload does.
WriteFile(p) ==
    /\ phase[p] = "write"
    /\ file' = [hosts |-> Edited(p), deny |-> TRUE]
    /\ phase' = [phase EXCEPT ![p] = "none"]
    /\ \/ Advance(p, "edge") /\ UNCHANGED credit
       \/ LegFails(p, "edge")
    /\ Overtakes(p, Mcp)
    /\ UNCHANGED <<names, op, plan, snap, buf, issued, token, opsLeft, settled, torn>>

VerifyOK(p) ==
    LET h == op[p].host IN
    /\ file.deny
    /\ (h \in file.hosts) = (op[p].verb = "expose")
    /\ (h \in names) = (op[p].verb = "expose")

Verify(p) ==
    /\ pc[p] = "apply" /\ todo[p] = {} /\ phase[p] = "none"
    /\ \/ /\ VerifyOK(p)
          /\ settled' = [settled EXCEPT ![op[p].host] =
                            IF op[p].verb = "expose" THEN "up" ELSE "down"]
          /\ Finish(p, "applied")
       \/ ~ VerifyOK(p) /\ StartRollback(p) /\ UNCHANGED settled
    /\ UNCHANGED <<file, names, txn, mcp, opsLeft, credit, torn>>

\* The process is killed.
Kill(p) ==
    /\ pc[p] # "idle"
    /\ Fault
    /\ Finish(p, "killed")
    /\ phase' = [phase EXCEPT ![p] = "none"]
    /\ torn' = (torn \/ phase[p] = "write")
    /\ UNCHANGED <<file, names, op, plan, snap, todo, applied, buf, mcp, opsLeft, settled>>

-----------------------------------------------------------------------------
Proceed(p) == \/ Guard(p) \/ Plan(p) \/ Confirm(p) \/ Snapshot(p) \/ DnsCall(p)
              \/ ReadFile(p) \/ Truncate(p) \/ WriteFile(p) \/ Verify(p)

Next == \E p \in Writers :
            Dispatch(p) \/ CrenelPlan(p) \/ CrenelApply(p) \/ Proceed(p) \/ Kill(p)

Spec == Init /\ [][Next]_vars

\* A started verb goes on: calls are bounded by timeouts, and the operator
\* answers the prompt.
Fairness == \A p \in Writers : WF_vars(Proceed(p))

FairSpec == Spec /\ Fairness

-----------------------------------------------------------------------------
(***************************************************************************)
(* Type correctness.                                                       *)
(***************************************************************************)
TypeOK ==
    /\ file \in File
    /\ names \subseteq Hosts
    /\ lock \in [Paths -> Writers \cup {Nobody}]
    /\ pc \in [Writers -> {"idle", "guard", "plan", "confirm", "snapshot", "apply", "rollback"}]
    /\ op \in [Writers -> Op]
    /\ plan \in [Writers -> SUBSET Legs]
    /\ snap \in [Writers -> File]
    /\ todo \in [Writers -> SUBSET Legs]
    /\ applied \in [Writers -> SUBSET Legs]
    /\ phase \in [Writers -> {"none", "edit", "write"}]
    /\ buf \in [Writers -> File]
    /\ issued \in [Writers -> SUBSET PlanId]
    /\ token \in [Writers -> SUBSET Legs]
    /\ outcome \in [Writers -> {"none", "busy", "refused", "noop", "declined",
                                "failed", "applied", "killed"}]
    /\ opsLeft \in Nat /\ credit \in Nat
    /\ settled \in [Hosts -> {"open", "up", "down"}]
    /\ torn \in BOOLEAN
    /\ raced \in [Writers -> BOOLEAN]

(***************************************************************************)
(* Nobody's rewrite of the config file is interleaved with another one's:  *)
(* a writer overwrites exactly what it read (read and write of a file      *)
(* driver's Apply, under the lock of dispatch).                            *)
(***************************************************************************)
NoInterleavedRewrite ==
    \A p \in Writers : /\ phase[p] = "edit" => file = buf[p]
                       /\ phase[p] = "write" => file = Torn

(***************************************************************************)
(* A change that was reported applied stays until a writer sets out to     *)
(* change the same host: no other invocation, its rollback or its death    *)
(* takes the host down or puts it up again.  Left out is a file torn by a  *)
(* kill in the middle of os.WriteFile.                                     *)
(***************************************************************************)
Rewriting == \E p \in Writers : phase[p] = "write"

AppliedStays ==
    ~ torn => \A h \in Hosts :
        /\ settled[h] = "up" => h \in names /\ (h \in file.hosts \/ Rewriting)
        /\ settled[h] = "down" => h \notin names /\ h \notin file.hosts

\* The inductive invariant behind the last two, for writers that all take the
\* same lock.  Whoever is at work holds the lock ...
OneLockFile == Mcp = {} /\ \A p, q \in Writers : LockPath[p] = LockPath[q]

Holding == \A p \in Writers :
    /\ pc[p] # "idle" => lock[LockPath[p]] = p
    /\ phase[p] # "none" => pc[p] \in {"apply", "rollback"}

\* ... the host it works on is nobody's finished change ...
Opened == \A p \in Writers : pc[p] \in {"apply", "rollback"} => settled[op[p].host] = "open"

\* ... and while the file is truncated, its content is in the writer's hands.
Kept ==
    ~ torn => \A h \in Hosts :
        /\ settled[h] = "up" =>
            /\ h \in names
            /\ h \in file.hosts \/ \E p \in Writers : phase[p] = "write" /\ h \in buf[p].hosts
        /\ settled[h] = "down" =>
            /\ h \notin names /\ h \notin file.hosts
            /\ \A p \in Writers : phase[p] = "write" => h \notin buf[p].hosts

WritersInv == TypeOK /\ Holding /\ NoInterleavedRewrite /\ Opened /\ Kept

(***************************************************************************)
(* What crenel_apply changes is the change whose id the client confirmed,  *)
(* and the guard it passed: handleApply compares ids and checks the guard  *)
(* on one plan, Engine.Apply makes another.  Whatever other processes do,  *)
(* only one thing can part the two: between them, another writer rewrites  *)
(* the config file or changes the record of the same host (raced).  Then   *)
(* the server, which takes no lock, applies a plan nobody confirmed.       *)
(***************************************************************************)
ConfirmedIsApplied ==
    \A p \in Mcp : pc[p] \in {"confirm", "snapshot", "apply", "rollback"} /\ ~ raced[p] =>
        /\ plan[p] = token[p]
        /\ ~ guardPublicAuth(op[p], plan[p])
        /\ pc[p] \in {"apply", "rollback"} => todo[p] \cup applied[p] \subseteq token[p]

(***************************************************************************)
(* The lock never outlives its holder's work: whoever finds it taken can   *)
(* wait for it (unlock deferred in dispatch, flock dropped with the        *)
(* process).                                                               *)
(***************************************************************************)
LockReleased == \A l \in Paths : lock[l] # Nobody ~> lock[l] = Nobody

(***************************************************************************)
(* Several invocations implement the registry of module Registry: as far   *)
(* as anyone can tell, the three steps of a rewrite are one, and one host  *)
(* at a time is open for change (the lock of dispatch around read and      *)
(* write of a file driver).  While the file is truncated its routes are in *)
(* the hands of the writer.                                                *)
(***************************************************************************)
Routed == file.hosts \cup UNION {buf[p].hosts : p \in {q \in Writers : phase[q] = "write"}}

Open == {op[p].host : p \in {q \in Writers : pc[q] \in {"apply", "rollback"}}}

Abstract == INSTANCE Registry WITH routed <- Routed, named <- names, open <- Open

ImplementsRegistry == Abstract!Spec
=============================================================================
