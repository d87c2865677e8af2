---------------------------- MODULE WritersProofs ----------------------------
(***************************************************************************)
(* For any number of writers that share one lock file, any number of hosts *)
(* and any number of failing calls and kills: rewrites of the config file  *)
(* never interleave, an applied change stays, and the whole implements the *)
(* atomic registry of module Registry.  And for MCP servers, which share   *)
(* no lock with anyone: what they apply is what was confirmed, unless      *)
(* another writer got between.                                             *)
(***************************************************************************)
EXTENDS Writers, TLAPS

PC == {"idle", "guard", "plan", "confirm", "snapshot", "apply", "rollback"}

Outcome == {"none", "busy", "refused", "noop", "declined", "failed", "applied", "killed"}

\* The control state has its type.
ControlType == /\ pc \in [Writers -> PC]
               /\ lock \in [Paths -> Writers \cup {Nobody}]
               /\ outcome \in [Writers -> Outcome]

\* A step of p moves no other writer and takes no lock away from one; p gives
\* up its own only when it returns.
Moves(p) ==
    /\ ControlType'
    /\ \A q \in Writers \ {p} : pc'[q] = pc[q] /\ (\A l \in Paths : lock[l] = q => lock'[l] = q)
    /\ pc'[p] = "idle" \/ lock' = lock

\* The control part of the state is typed when all of it is.
LEMMA ControlTyped == TypeOK => ControlType
BY DEF TypeOK, ControlType, PC, Outcome

\* A writer that returns moves only itself.
LEMMA FinishMoves ==
    ASSUME ControlType, NEW p \in Writers, NEW out \in Outcome, Finish(p, out)
    PROVE  Moves(p) /\ pc'[p] = "idle"
BY DEF ControlType, Finish, Unlocked, Moves, PC

\* So does one that goes on to its next stage,
LEMMA GotoMoves ==
    ASSUME ControlType, NEW p \in Writers, NEW l \in PC, Goto(p, l)
    PROVE  Moves(p) /\ pc'[p] = l
BY DEF ControlType, Goto, Moves

\* and one that stays where it is.
LEMMA StayMoves ==
    ASSUME ControlType, NEW p \in Writers, UNCHANGED <<pc, lock, outcome>>
    PROVE  Moves(p) /\ pc'[p] = pc[p]
BY DEF ControlType, Moves

\* The end of a leg, and of one that fails: the writer keeps applying or
\* undoing, turns to undoing, or returns.
LEMMA AdvanceMoves ==
    ASSUME TypeOK, NEW p \in Writers, NEW l \in Legs, Advance(p, l)
    PROVE  /\ Moves(p)
           /\ pc[p] \in {"apply", "rollback"} /\ pc'[p] \in {"idle", "apply", "rollback"}
           /\ todo' \in [Writers -> SUBSET Legs] /\ applied' \in [Writers -> SUBSET Legs]
<1>1. todo' \in [Writers -> SUBSET Legs] /\ applied' \in [Writers -> SUBSET Legs]
  BY DEF Advance, TypeOK
<1>2. CASE UNCHANGED <<pc, lock, outcome>>
  BY <1>1, <1>2, ControlTyped, StayMoves DEF Advance
<1>3. CASE Finish(p, "failed")
  BY <1>1, <1>3, ControlTyped, FinishMoves DEF Advance, Outcome
<1> QED
  BY <1>2, <1>3 DEF Advance

\* Turning to the compensators, or returning when there are none.
LEMMA RollbackMoves ==
    ASSUME ControlType, NEW p \in Writers, StartRollback(p)
    PROVE  Moves(p) /\ pc'[p] \in {"idle", "rollback"}
BY FinishMoves, GotoMoves DEF StartRollback, Outcome, PC

\* A failing call: the writer turns to undoing, or goes on undoing.
LEMMA LegFailsMoves ==
    ASSUME TypeOK, NEW p \in Writers, NEW l \in Legs, LegFails(p, l)
    PROVE  /\ Moves(p)
           /\ pc[p] \in {"apply", "rollback"} /\ pc'[p] \in {"idle", "apply", "rollback"}
           /\ todo' \in [Writers -> SUBSET Legs] /\ applied' \in [Writers -> SUBSET Legs]
           /\ credit' \in Nat
<1>1. credit' \in Nat
  BY DEF LegFails, Fault, TypeOK
<1>2. CASE pc[p] = "apply" /\ StartRollback(p) /\ UNCHANGED <<todo, applied>>
  BY <1>1, <1>2, ControlTyped, RollbackMoves DEF TypeOK
<1>3. CASE pc[p] = "rollback" /\ Advance(p, l)
  BY <1>1, <1>3, AdvanceMoves
<1> QED
  BY <1>2, <1>3 DEF LegFails

-----------------------------------------------------------------------------
\* Every action of p moves only p, and keeps the types.
LEMMA ChangesType == \A o : Changes(o) \in SUBSET Legs
BY DEF Changes

\* The content a writer is about to write names hosts.
LEMMA EditedType ==
    ASSUME TypeOK, NEW p \in Writers
    PROVE  Edited(p) \in SUBSET Hosts
<1>1. op[p].host \in Hosts /\ buf[p].hosts \in SUBSET Hosts
  BY DEF TypeOK, Op, File
<1> QED
  BY <1>1 DEF Edited

\* Taking the lock and a verb.
LEMMA DispatchType ==
    ASSUME TypeOK, NEW p \in Writers, Dispatch(p)
    PROVE  TypeOK'
<1>1. op' \in [Writers -> Op]
  BY WritersAssumption DEF Dispatch, TypeOK
<1>2. LockPath[p] \in Paths
  BY WritersAssumption
<1> QED
  BY <1>1, <1>2 DEF Dispatch, TypeOK, mcp

\* The two tool calls of the server.
LEMMA McpType ==
    ASSUME TypeOK, NEW p \in Writers, CrenelPlan(p) \/ CrenelApply(p)
    PROVE  TypeOK'
<1>1. CASE CrenelPlan(p)
  <2>1. issued' \in [Writers -> SUBSET PlanId]
    BY <1>1, ChangesType DEF CrenelPlan, TypeOK, PlanId
  <2> QED
    BY <1>1, <2>1 DEF CrenelPlan, TypeOK, txn
<1>2. CASE CrenelApply(p)
  <2>1. PICK t \in issued[p] :
            \/ (Finish(p, "refused") \/ Finish(p, "noop")) /\ UNCHANGED <<op, token, raced>>
            \/ /\ op' = [op EXCEPT ![p] = t.op]
               /\ token' = [token EXCEPT ![p] = t.legs]
               /\ raced' = [raced EXCEPT ![p] = FALSE]
               /\ Goto(p, "plan")
    BY <1>2 DEF CrenelApply
  <2>2. t.op \in Op /\ t.legs \in SUBSET Legs
    BY WritersAssumption DEF TypeOK, PlanId
  <2>3. /\ op' \in [Writers -> Op] /\ token' \in [Writers -> SUBSET Legs]
        /\ raced' \in [Writers -> BOOLEAN]
    BY <2>1, <2>2 DEF TypeOK
  <2>4. ControlType'
    BY <2>1, ControlTyped, FinishMoves, GotoMoves DEF Moves, Outcome, PC
  <2> QED
    BY <1>2, <2>3, <2>4 DEF CrenelApply, TypeOK, ControlType, PC, Outcome
<1> QED
  BY <1>1, <1>2

\* The note that a call overtook a server is one bit for each writer.
LEMMA OvertakesType ==
    ASSUME TypeOK, NEW p \in Writers, NEW S, Overtakes(p, S)
    PROVE  raced' \in [Writers -> BOOLEAN]
BY Zenon DEF Overtakes, TypeOK

\* Every stage of a writer at work.
LEMMA ProceedType ==
    ASSUME TypeOK, NEW p \in Writers, Proceed(p)
    PROVE  TypeOK'
<1>1. CASE Guard(p)
  <2>1. ControlType'
    BY <1>1, ControlTyped, FinishMoves, GotoMoves DEF Guard, Moves, Outcome, PC
  <2> QED
    BY <1>1, <2>1 DEF Guard, TypeOK, ControlType, PC, Outcome, txn, mcp
<1>2. CASE Plan(p)
  <2>1. ControlType'
    BY <1>2, ControlTyped, FinishMoves, GotoMoves DEF Plan, Moves, Outcome, PC
  <2>2. plan' \in [Writers -> SUBSET Legs]
    BY <1>2, ChangesType DEF Plan, TypeOK
  <2> QED
    BY <1>2, <2>1, <2>2 DEF Plan, TypeOK, ControlType, PC, Outcome, mcp
<1>3. CASE Confirm(p)
  <2>1. ControlType'
    BY <1>3, ControlTyped, FinishMoves, GotoMoves DEF Confirm, Moves, Outcome, PC
  <2> QED
    BY <1>3, <2>1 DEF Confirm, TypeOK, ControlType, PC, Outcome, txn, mcp
<1>4. CASE Snapshot(p)
  <2>1. ControlType'
    BY <1>4, ControlTyped, GotoMoves DEF Snapshot, Moves, PC
  <2>2. /\ snap' \in [Writers -> File] /\ todo' \in [Writers -> SUBSET Legs]
        /\ applied' \in [Writers -> SUBSET Legs] /\ settled' \in [Hosts -> {"open", "up", "down"}]
    BY <1>4 DEF Snapshot, TypeOK
  <2> QED
    BY <1>4, <2>1, <2>2 DEF Snapshot, TypeOK, ControlType, PC, Outcome, mcp
<1>5. CASE DnsCall(p)
  <2>1. /\ ControlType' /\ credit' \in Nat
        /\ todo' \in [Writers -> SUBSET Legs] /\ applied' \in [Writers -> SUBSET Legs]
    BY <1>5, AdvanceMoves, LegFailsMoves DEF DnsCall, Moves, Legs, TypeOK
  <2>2. names' \subseteq Hosts
    BY <1>5 DEF DnsCall, TypeOK, Op
  <2>3. raced' \in [Writers -> BOOLEAN]
    BY <1>5, OvertakesType DEF DnsCall, TypeOK
  <2> QED
    BY <1>5, <2>1, <2>2, <2>3 DEF DnsCall, TypeOK, ControlType, PC, Outcome, mcp
<1>6. CASE ReadFile(p)
  <2>1. /\ ControlType' /\ credit' \in Nat
        /\ todo' \in [Writers -> SUBSET Legs] /\ applied' \in [Writers -> SUBSET Legs]
    BY <1>6, ControlTyped, StayMoves, LegFailsMoves DEF ReadFile, Moves, Legs, TypeOK
  <2>2. buf' \in [Writers -> File] /\ phase' \in [Writers -> {"none", "edit", "write"}]
    BY <1>6 DEF ReadFile, TypeOK
  <2> QED
    BY <1>6, <2>1, <2>2 DEF ReadFile, TypeOK, ControlType, PC, Outcome, mcp
<1>7. CASE Truncate(p)
  <2>1. file' \in File /\ phase' \in [Writers -> {"none", "edit", "write"}]
    BY <1>7 DEF Truncate, TypeOK, Torn, File
  <2>2. raced' \in [Writers -> BOOLEAN]
    BY <1>7, OvertakesType DEF Truncate
  <2> QED
    BY <1>7, <2>1, <2>2 DEF Truncate, TypeOK
<1>8. CASE WriteFile(p)
  <2>1. /\ ControlType' /\ credit' \in Nat
        /\ todo' \in [Writers -> SUBSET Legs] /\ applied' \in [Writers -> SUBSET Legs]
    BY <1>8, AdvanceMoves, LegFailsMoves DEF WriteFile, Moves, Legs, TypeOK
  <2>2. file' \in File /\ phase' \in [Writers -> {"none", "edit", "write"}]
    BY <1>8, EditedType DEF WriteFile, TypeOK, File
  <2>3. raced' \in [Writers -> BOOLEAN]
    BY <1>8, OvertakesType DEF WriteFile
  <2> QED
    BY <1>8, <2>1, <2>2, <2>3 DEF WriteFile, TypeOK, ControlType, PC, Outcome
<1>9. CASE Verify(p)
  <2>1. ControlType'
    BY <1>9, ControlTyped, FinishMoves, RollbackMoves DEF Verify, Moves, Outcome
  <2>2. settled' \in [Hosts -> {"open", "up", "down"}]
    BY <1>9 DEF Verify, TypeOK
  <2> QED
    BY <1>9, <2>1, <2>2 DEF Verify, TypeOK, ControlType, PC, Outcome, txn, mcp
<1> QED
  BY <1>1, <1>2, <1>3, <1>4, <1>5, <1>6, <1>7, <1>8, <1>9 DEF Proceed

\* The kill.
LEMMA KillType ==
    ASSUME TypeOK, NEW p \in Writers, Kill(p)
    PROVE  TypeOK'
<1>1. ControlType'
  BY ControlTyped, FinishMoves DEF Kill, Moves, Outcome
<1>2. /\ phase' \in [Writers -> {"none", "edit", "write"}]
      /\ torn' \in BOOLEAN /\ credit' \in Nat
  BY DEF Kill, Fault, TypeOK
<1> QED
  BY <1>1, <1>2 DEF Kill, TypeOK, ControlType, PC, Outcome, mcp

-----------------------------------------------------------------------------
(***************************************************************************)
(* Writers with one lock file.                                             *)
(***************************************************************************)
\* While one writer is at work, the others are not.
LEMMA OthersIdle ==
    ASSUME OneLockFile, TypeOK, Holding, NEW p \in Writers, pc[p] # "idle"
    PROVE  \A q \in Writers \ {p} : pc[q] = "idle" /\ phase[q] = "none"
<1>1. \A q \in Writers : pc[q] # "idle" => q = p
  BY DEF OneLockFile, Holding
<1>2. \A q \in Writers : phase[q] # "none" => pc[q] # "idle"
  BY DEF Holding
<1> QED
  BY <1>1, <1>2

\* A process is inside a call only while it applies or rolls back.
InHand == \A p \in Writers : phase[p] # "none" => pc[p] \in {"apply", "rollback"}

\* A writer at work moves only itself, and keeps its part of InHand.
LEMMA StepMoves ==
    ASSUME TypeOK, NEW p \in Writers, Proceed(p) \/ Kill(p), InHand
    PROVE  /\ Moves(p) /\ pc[p] # "idle"
           /\ \A q \in Writers \ {p} : phase'[q] = phase[q]
           /\ phase'[p] # "none" => pc'[p] \in {"apply", "rollback"}
<1>1. CASE Guard(p) \/ Plan(p) \/ Confirm(p) \/ Snapshot(p)
  <2>1. Moves(p) /\ pc[p] \notin {"idle", "apply", "rollback"} /\ phase' = phase
    BY <1>1, ControlTyped, FinishMoves, GotoMoves
    DEF Guard, Plan, Confirm, Snapshot, Outcome, PC, txn
  <2> QED
    BY <2>1 DEF InHand
<1>2. CASE DnsCall(p)
  <2>1. Moves(p) /\ pc[p] \in {"apply", "rollback"} /\ phase[p] = "none" /\ phase' = phase
    BY <1>2, AdvanceMoves, LegFailsMoves DEF DnsCall, Legs
  <2> QED
    BY <2>1
<1>3. CASE ReadFile(p)
  <2>1. Moves(p) /\ pc[p] \in {"apply", "rollback"}
    BY <1>3, ControlTyped, StayMoves, LegFailsMoves DEF ReadFile, Legs, NextLeg
  <2>2. phase'[p] # "none" => pc' = pc
    BY <1>3 DEF ReadFile, TypeOK
  <2>3. \A q \in Writers \ {p} : phase'[q] = phase[q]
    BY <1>3 DEF ReadFile, TypeOK
  <2> QED
    BY <2>1, <2>2, <2>3
<1>4. CASE Truncate(p)
  <2>1. Moves(p) /\ pc[p] \in {"apply", "rollback"} /\ pc' = pc
    BY <1>4, ControlTyped, StayMoves DEF Truncate, InHand
  <2> QED
    BY <1>4, <2>1 DEF Truncate, TypeOK
<1>5. CASE WriteFile(p)
  <2>1. Moves(p) /\ pc[p] \in {"apply", "rollback"}
    BY <1>5, AdvanceMoves, LegFailsMoves DEF WriteFile, Legs
  <2> QED
    BY <1>5, <2>1 DEF WriteFile, TypeOK
<1>6. CASE Verify(p)
  <2>1. Moves(p) /\ pc[p] = "apply" /\ phase[p] = "none" /\ phase' = phase
    BY <1>6, ControlTyped, FinishMoves, RollbackMoves DEF Verify, Outcome, txn
  <2> QED
    BY <2>1
<1>7. CASE Kill(p)
  <2>1. Moves(p) /\ pc[p] # "idle"
    BY <1>7, ControlTyped, FinishMoves DEF Kill, Outcome
  <2> QED
    BY <1>7, <2>1 DEF Kill, TypeOK
<1> QED
  BY <1>1, <1>2, <1>3, <1>4, <1>5, <1>6, <1>7 DEF Proceed

\* The same under the invariant Holding.
LEMMA WorkMoves ==
    ASSUME TypeOK, NEW p \in Writers, Proceed(p) \/ Kill(p), Holding
    PROVE  /\ Moves(p) /\ pc[p] # "idle"
           /\ \A q \in Writers \ {p} : phase'[q] = phase[q]
           /\ phase'[p] # "none" => pc'[p] \in {"apply", "rollback"}
BY StepMoves DEF Holding, InHand

\* A verb that starts leaves files, records and history alone.
LEMMA DispatchEffect ==
    ASSUME OneLockFile, WritersInv, NEW p \in Writers, Dispatch(p)
    PROVE  WritersInv'
<1>1. TypeOK'
  BY DispatchType DEF WritersInv
<1>2. Holding'
  <2>1. CASE lock[LockPath[p]] = Nobody /\ lock' = [lock EXCEPT ![LockPath[p]] = p]
             /\ pc' = [pc EXCEPT ![p] = "guard"]
    <3>1. \A q \in Writers : pc[q] = "idle"
      BY <2>1, WritersAssumption DEF OneLockFile, WritersInv, Holding
    <3>2. phase' = phase /\ \A q \in Writers : phase[q] = "none"
      BY <3>1 DEF Dispatch, WritersInv, Holding
    <3>3. lock'[LockPath[p]] = p
      BY <2>1, WritersAssumption DEF WritersInv, TypeOK
    <3> QED
      BY <2>1, <3>1, <3>2, <3>3 DEF Holding, WritersInv, TypeOK
  <2>2. CASE UNCHANGED <<lock, pc>>
    BY <2>2 DEF Dispatch, WritersInv, Holding
  <2> QED
    BY <2>1, <2>2 DEF Dispatch
<1>3. NoInterleavedRewrite' /\ Kept'
  BY DEF Dispatch, WritersInv, NoInterleavedRewrite, Kept
<1>4. Opened'
  BY DEF Dispatch, WritersInv, Opened, TypeOK
<1> QED
  BY <1>1, <1>2, <1>3, <1>4 DEF WritersInv

\* Holding is kept by the writer at work.
LEMMA HoldingStep ==
    ASSUME TypeOK, Holding, NEW p \in Writers, Proceed(p) \/ Kill(p)
    PROVE  Holding'
<1>1. \A q \in Writers : LockPath[q] \in Paths
  BY WritersAssumption
<1> QED
  BY <1>1, WorkMoves DEF Moves, Holding

\* So is the file of a rewrite in hand.
LEMMA RewriteStep ==
    ASSUME OneLockFile, WritersInv, NEW p \in Writers, Proceed(p) \/ Kill(p)
    PROVE  NoInterleavedRewrite'
<1>1. /\ \A q \in Writers \ {p} : phase'[q] = "none"
      /\ TypeOK
  BY WorkMoves, OthersIdle DEF WritersInv
<1>2. /\ phase'[p] = "edit" => file' = buf'[p]
      /\ phase'[p] = "write" => file' = Torn
  <2>1. CASE Guard(p) \/ Plan(p) \/ Confirm(p) \/ Snapshot(p) \/ DnsCall(p) \/ Verify(p)
    <3>1. phase' = phase /\ buf' = buf /\ file' = file
      BY <2>1 DEF Guard, Plan, Confirm, Snapshot, DnsCall, Verify, txn
    <3> QED
      BY <3>1 DEF WritersInv, NoInterleavedRewrite
  <2>2. CASE ReadFile(p)
    BY <1>1, <2>2 DEF ReadFile, TypeOK
  <2>3. CASE Truncate(p) \/ WriteFile(p) \/ Kill(p)
    BY <1>1, <2>3 DEF Truncate, WriteFile, Kill, TypeOK
  <2> QED
    BY <2>1, <2>2, <2>3 DEF Proceed
<1> QED
  BY <1>1, <1>2 DEF NoInterleavedRewrite

\* The host at work is open.
LEMMA OpenedStep ==
    ASSUME OneLockFile, WritersInv, NEW p \in Writers, Proceed(p) \/ Kill(p)
    PROVE  Opened'
<1>1. \A q \in Writers \ {p} : pc'[q] = "idle"
  BY WorkMoves, OthersIdle DEF WritersInv, Moves
<1>2. TypeOK /\ op[p].host \in Hosts
  BY DEF WritersInv, TypeOK, Op
<1>3. pc'[p] \in {"apply", "rollback"} => settled'[op'[p].host] = "open"
  <2>1. CASE Guard(p) \/ Plan(p) \/ Confirm(p) \/ Kill(p)
    <3>1. pc'[p] \notin {"apply", "rollback"}
      BY <1>2, <2>1, ControlTyped, FinishMoves, GotoMoves DEF Guard, Plan, Confirm, Kill, Outcome, PC
    <3> QED
      BY <3>1
  <2>2. CASE Snapshot(p)
    BY <1>2, <2>2 DEF Snapshot, TypeOK
  <2>3. CASE Verify(p)
    <3>1. op' = op
      BY <2>3 DEF Verify, txn
    <3>2. CASE Finish(p, "applied")
      BY <1>2, <3>2, ControlTyped, FinishMoves DEF Outcome
    <3>3. CASE UNCHANGED settled
      BY <2>3, <3>1, <3>3 DEF Verify, WritersInv, Opened
    <3> QED
      BY <2>3, <3>2, <3>3 DEF Verify
  <2>4. CASE DnsCall(p) \/ ReadFile(p) \/ Truncate(p) \/ WriteFile(p)
    <3>1. op' = op /\ settled' = settled
      BY <2>4 DEF DnsCall, ReadFile, Truncate, WriteFile
    <3>2. pc[p] \in {"apply", "rollback"}
      BY <1>2, <2>4, AdvanceMoves, LegFailsMoves
      DEF DnsCall, ReadFile, Truncate, WriteFile, NextLeg, Legs, WritersInv, Holding
    <3> QED
      BY <3>1, <3>2 DEF WritersInv, Opened
  <2> QED
    BY <2>1, <2>2, <2>3, <2>4 DEF Proceed
<1> QED
  BY <1>1, <1>3 DEF Opened

\* What is settled is kept.
LEMMA KeptStep ==
    ASSUME OneLockFile, WritersInv, NEW p \in Writers, Proceed(p) \/ Kill(p)
    PROVE  Kept'
<1>1. TypeOK /\ op[p].host \in Hosts /\ buf[p].hosts \in SUBSET Hosts
  BY DEF WritersInv, TypeOK, Op, File
<1>2. \A q \in Writers \ {p} : phase[q] = "none" /\ phase'[q] = "none"
  BY WorkMoves, OthersIdle DEF WritersInv
<1>3. CASE Guard(p) \/ Plan(p) \/ Confirm(p)
  BY <1>3 DEF Guard, Plan, Confirm, WritersInv, Kept, txn
<1>4. CASE Snapshot(p)
  BY <1>1, <1>4 DEF Snapshot, WritersInv, Kept, TypeOK
<1>5. CASE DnsCall(p)
  <2>1. pc[p] \in {"apply", "rollback"}
    BY <1>1, <1>5, AdvanceMoves, LegFailsMoves DEF DnsCall, Legs
  <2>2. settled[op[p].host] = "open"
    BY <2>1 DEF WritersInv, Opened
  <2>3. \A h \in Hosts \ {op[p].host} : h \in names' <=> h \in names
    BY <1>5 DEF DnsCall
  <2> QED
    BY <1>5, <2>2, <2>3 DEF DnsCall, WritersInv, Kept
<1>6. CASE ReadFile(p)
  <2>1. phase[p] = "none" /\ phase'[p] # "write"
    BY <1>1, <1>6 DEF ReadFile, TypeOK
  <2> QED
    BY <1>2, <1>6, <2>1 DEF ReadFile, WritersInv, Kept
<1>7. CASE Truncate(p)
  <2>1. /\ phase[p] = "edit" /\ phase'[p] = "write" /\ buf' = buf /\ buf[p] = file
        /\ file'.hosts = {}
    BY <1>1, <1>7 DEF Truncate, TypeOK, WritersInv, NoInterleavedRewrite, Torn
  <2> QED
    BY <1>2, <1>7, <2>1 DEF Truncate, WritersInv, Kept
<1>8. CASE WriteFile(p)
  <2>1. phase[p] = "write" /\ phase'[p] = "none" /\ file.hosts = {} /\ file'.hosts = Edited(p)
    BY <1>1, <1>8 DEF WriteFile, TypeOK, WritersInv, NoInterleavedRewrite, Torn
  <2>2. settled[op[p].host] = "open"
    BY <2>1 DEF WritersInv, Holding, Opened
  <2>3. \A h \in Hosts \ {op[p].host} : h \in Edited(p) <=> h \in buf[p].hosts
    BY DEF Edited
  <2> QED
    BY <1>2, <1>8, <2>1, <2>2, <2>3 DEF WriteFile, WritersInv, Kept
<1>9. CASE Verify(p)
  <2>1. CASE UNCHANGED settled
    BY <1>9, <2>1 DEF Verify, WritersInv, Kept, txn
  <2>2. CASE /\ VerifyOK(p)
             /\ settled' = [settled EXCEPT ![op[p].host] =
                                IF op[p].verb = "expose" THEN "up" ELSE "down"]
    <3>1. /\ file' = file /\ names' = names /\ phase' = phase /\ buf' = buf /\ torn' = torn
          /\ \A q \in Writers : phase[q] = "none"
      BY <1>2, <1>9 DEF Verify, txn
    <3>2. \A h \in Hosts \ {op[p].host} : settled'[h] = settled[h]
      BY <1>1, <2>2 DEF TypeOK
    <3>3. LET h == op[p].host IN
          /\ settled'[h] = "up" => h \in names /\ h \in file.hosts
          /\ settled'[h] = "down" => h \notin names /\ h \notin file.hosts
      BY <1>1, <2>2 DEF VerifyOK, TypeOK
    <3> QED
      BY <3>1, <3>2, <3>3 DEF WritersInv, Kept
  <2> QED
    BY <1>9, <2>1, <2>2 DEF Verify
<1>10. CASE Kill(p)
  <2>1. phase[p] = "write" => torn'
    BY <1>10 DEF Kill
  <2>2. phase'[p] = "none"
    BY <1>1, <1>10 DEF Kill, TypeOK
  <2>3. torn => torn'
    BY <1>10 DEF Kill
  <2>4. CASE phase[p] # "write"
    <3>1. file' = file /\ names' = names /\ settled' = settled
      BY <1>10 DEF Kill
    <3> QED
      BY <1>2, <2>2, <2>3, <2>4, <3>1 DEF WritersInv, Kept
  <2> QED
    BY <2>1, <2>4 DEF Kept
<1> QED
  BY <1>3, <1>4, <1>5, <1>6, <1>7, <1>8, <1>9, <1>10 DEF Proceed

-----------------------------------------------------------------------------
\* The initial states are typed.
LEMMA InitType == Init => TypeOK
<1> SUFFICES ASSUME Init PROVE TypeOK
  OBVIOUS
<1>1. AnyOp \in Op
  BY WritersAssumption DEF AnyOp
<1>2. file \in File /\ Torn \in File /\ names \subseteq Hosts
  BY DEF Init, Torn, File
<1> QED
  BY <1>1, <1>2, WritersAssumption DEF Init, TypeOK

\* The invariant of writers that share one lock file: whoever is at work holds
\* the lock (dispatch), and settled hosts are kept through every rewrite.
THEOREM LockedWriters ==
    ASSUME OneLockFile
    PROVE  Spec => []WritersInv
<1>1. Init => WritersInv
  <2> SUFFICES ASSUME Init PROVE WritersInv
    OBVIOUS
  <2>1. TypeOK
    BY InitType
  <2> QED
    BY <2>1 DEF Init, WritersInv, Holding, NoInterleavedRewrite, Opened, Kept
<1>2. WritersInv /\ [Next]_vars => WritersInv'
  <2> SUFFICES ASSUME WritersInv, [Next]_vars PROVE WritersInv'
    OBVIOUS
  <2>1. ASSUME NEW p \in Writers, Dispatch(p) PROVE WritersInv'
    BY <2>1, DispatchEffect
  <2>2. ASSUME NEW p \in Writers, CrenelPlan(p) \/ CrenelApply(p) PROVE FALSE
    BY <2>2 DEF CrenelPlan, CrenelApply, OneLockFile
  <2>3. ASSUME NEW p \in Writers, Proceed(p) \/ Kill(p) PROVE WritersInv'
    <3>1. TypeOK'
      BY <2>3, ProceedType, KillType DEF WritersInv
    <3> QED
      BY <2>3, <3>1, HoldingStep, RewriteStep, OpenedStep, KeptStep DEF WritersInv
  <2>4. CASE UNCHANGED vars
    <3>1. TypeOK'
      BY <2>4 DEF vars, txn, mcp, WritersInv, TypeOK
    <3>2. Holding' /\ NoInterleavedRewrite'
      BY <2>4 DEF vars, txn, WritersInv, Holding, NoInterleavedRewrite
    <3>3. Opened' /\ Kept'
      BY <2>4 DEF vars, txn, WritersInv, Opened, Kept
    <3> QED
      BY <3>1, <3>2, <3>3 DEF WritersInv
  <2> QED
    BY <2>1, <2>2, <2>3, <2>4 DEF Next
<1> QED
  BY <1>1, <1>2, PTL DEF Spec

\* Under one lock, no two invocations interleave their rewrites of the config
\* file (read and write in a file driver's Apply).
THEOREM RewritesSerial ==
    ASSUME OneLockFile
    PROVE  Spec => []NoInterleavedRewrite
<1>1. WritersInv => NoInterleavedRewrite
  BY DEF WritersInv
<1> QED
  BY <1>1, LockedWriters, PTL

\* Under one lock, a change reported applied stays until somebody changes the
\* same host, whatever other invocations do, undo or leave undone.
THEOREM AppliedSafe ==
    ASSUME OneLockFile
    PROVE  Spec => []AppliedStays
<1>1. WritersInv => AppliedStays
  BY DEF WritersInv, Kept, AppliedStays, Rewriting
<1> QED
  BY <1>1, LockedWriters, PTL

-----------------------------------------------------------------------------
(***************************************************************************)
(* Refinement of the registry.                                             *)
(***************************************************************************)
\* With one writer at work, the mapping is about that writer.
LEMMA RoutedAlone ==
    ASSUME TypeOK, NEW p \in Writers, \A q \in Writers \ {p} : phase[q] = "none"
    PROVE  Routed = IF phase[p] = "write" THEN file.hosts \cup buf[p].hosts ELSE file.hosts
BY DEF Routed

\* The same for the open host.
LEMMA OpenAlone ==
    ASSUME TypeOK, NEW p \in Writers, \A q \in Writers \ {p} : pc[q] = "idle"
    PROVE  Open = IF pc[p] \in {"apply", "rollback"} THEN {op[p].host} ELSE {}
BY DEF Open

\* The mapped state before and after a step of the writer at work.
LEMMA MappedStep ==
    ASSUME OneLockFile, WritersInv, NEW p \in Writers, Proceed(p) \/ Kill(p)
    PROVE  /\ Routed = IF phase[p] = "write" THEN buf[p].hosts ELSE file.hosts
           /\ Routed' = IF phase'[p] = "write" THEN buf'[p].hosts ELSE file'.hosts
           /\ Open = IF pc[p] \in {"apply", "rollback"} THEN {op[p].host} ELSE {}
           /\ Open' = IF pc'[p] \in {"apply", "rollback"} THEN {op'[p].host} ELSE {}
           /\ op[p].host \in Hosts
<1>1. TypeOK /\ TypeOK' /\ op[p].host \in Hosts
  BY ProceedType, KillType DEF WritersInv, TypeOK, Op
<1>2. /\ \A q \in Writers \ {p} : phase[q] = "none" /\ phase'[q] = "none"
      /\ \A q \in Writers \ {p} : pc[q] = "idle" /\ pc'[q] = "idle"
  BY WorkMoves, OthersIdle DEF WritersInv, Moves
<1>3. /\ phase[p] = "write" => file.hosts = {}
      /\ phase'[p] = "write" => file'.hosts = {}
  BY RewriteStep DEF WritersInv, NoInterleavedRewrite, Torn
<1>4. Routed = IF phase[p] = "write" THEN buf[p].hosts ELSE file.hosts
  BY <1>1, <1>2, <1>3, RoutedAlone
<1>5. Routed' = IF phase'[p] = "write" THEN buf'[p].hosts ELSE file'.hosts
  BY <1>1, <1>2, <1>3 DEF Routed
<1>6. Open = IF pc[p] \in {"apply", "rollback"} THEN {op[p].host} ELSE {}
  BY <1>1, <1>2, OpenAlone
<1>7. Open' = IF pc'[p] \in {"apply", "rollback"} THEN {op'[p].host} ELSE {}
  BY <1>1, <1>2 DEF Open
<1> QED
  BY <1>1, <1>4, <1>5, <1>6, <1>7

\* A writer whose phase and file a step leaves alone leaves the routes alone.
LEMMA SameRoutes ==
    ASSUME OneLockFile, WritersInv, NEW p \in Writers, Proceed(p) \/ Kill(p),
           phase' = phase, buf' = buf, file' = file
    PROVE  Routed' = Routed
BY MappedStep

\* Every step of a writer at work is a step of the registry, or none at all.
LEMMA WorkImplements ==
    ASSUME OneLockFile, WritersInv, NEW p \in Writers, Proceed(p) \/ Kill(p)
    PROVE  Abstract!Next \/ UNCHANGED <<Routed, names, Open>>
<1> DEFINE h == op[p].host
<1>1. h \in Hosts /\ TypeOK /\ TypeOK'
  BY MappedStep, ProceedType, KillType DEF WritersInv
<1>2. CASE Guard(p) \/ Plan(p) \/ Confirm(p)
  <2>1. /\ pc[p] \notin {"apply", "rollback"} /\ pc'[p] \notin {"apply", "rollback"}
        /\ names' = names /\ phase' = phase /\ buf' = buf /\ file' = file
    BY <1>1, <1>2, ControlTyped, FinishMoves, GotoMoves
    DEF Guard, Plan, Confirm, Outcome, PC, txn
  <2> QED
    BY <2>1, MappedStep, SameRoutes
<1>3. CASE Snapshot(p)
  <2>1. /\ pc[p] = "snapshot" /\ pc'[p] = "apply" /\ op' = op
        /\ names' = names /\ phase' = phase /\ buf' = buf /\ file' = file
    BY <1>1, <1>3, ControlTyped, GotoMoves DEF Snapshot, PC
  <2>2. Open = {} /\ Open' = {h} /\ Routed' = Routed
    BY <2>1, MappedStep, SameRoutes
  <2> QED
    BY <1>1, <2>1, <2>2 DEF Abstract!Next, Abstract!Open
<1>4. CASE DnsCall(p)
  <2>1. /\ pc[p] \in {"apply", "rollback"} /\ pc'[p] \in {"idle", "apply", "rollback"}
        /\ op' = op /\ phase' = phase /\ buf' = buf /\ file' = file
    BY <1>1, <1>4, AdvanceMoves, LegFailsMoves DEF DnsCall, Legs
  <2>2. Open = {h} /\ Open' \in {Open, {}} /\ Routed' = Routed
    BY <2>1, MappedStep, SameRoutes
  <2>3. names' \in {names \cup {h}, names \ {h}} \/ names' = names
    BY <1>4 DEF DnsCall
  <2> QED
    BY <1>1, <2>2, <2>3 DEF Abstract!Next, Abstract!SetName, Abstract!Close
<1>5. CASE ReadFile(p)
  <2>1. /\ pc[p] \in {"apply", "rollback"} /\ pc'[p] \in {"idle", "apply", "rollback"}
        /\ op' = op /\ names' = names /\ file' = file
    BY <1>1, <1>5, LegFailsMoves DEF ReadFile, Legs, NextLeg
  <2>2. phase[p] # "write" /\ phase'[p] # "write"
    BY <1>1, <1>5 DEF ReadFile, TypeOK
  <2>3. Open = {h} /\ Open' \in {Open, {}} /\ Routed' = Routed
    BY <2>1, <2>2, MappedStep
  <2> QED
    BY <2>1, <2>3 DEF Abstract!Next, Abstract!Close
<1>6. CASE Truncate(p)
  <2>1. /\ phase[p] = "edit" /\ phase'[p] = "write" /\ buf' = buf /\ buf[p] = file
        /\ names' = names /\ op' = op /\ pc' = pc
    BY <1>1, <1>6 DEF Truncate, TypeOK, WritersInv, NoInterleavedRewrite
  <2> QED
    BY <2>1, MappedStep
<1>7. CASE WriteFile(p)
  <2>1. /\ pc[p] \in {"apply", "rollback"} /\ pc'[p] \in {"idle", "apply", "rollback"}
        /\ op' = op /\ names' = names
    BY <1>1, <1>7, AdvanceMoves, LegFailsMoves DEF WriteFile, Legs
  <2>2. phase[p] = "write" /\ phase'[p] = "none" /\ file'.hosts = Edited(p)
    BY <1>1, <1>7 DEF WriteFile, TypeOK
  <2>3. Edited(p) \in {buf[p].hosts \cup {h}, buf[p].hosts \ {h}} \/ Edited(p) = buf[p].hosts
    BY DEF Edited
  <2>4. Open = {h} /\ Open' \in {Open, {}} /\ Routed = buf[p].hosts /\ Routed' = Edited(p)
    BY <2>1, <2>2, MappedStep
  <2> QED
    BY <1>1, <2>1, <2>3, <2>4 DEF Abstract!Next, Abstract!SetRoute, Abstract!Close
<1>8. CASE Verify(p)
  <2>1. /\ pc[p] = "apply" /\ pc'[p] \in {"idle", "apply", "rollback"}
        /\ op' = op /\ names' = names /\ phase' = phase /\ buf' = buf /\ file' = file
    BY <1>1, <1>8, ControlTyped, FinishMoves, RollbackMoves DEF Verify, Outcome, txn
  <2>2. Open = {h} /\ Open' \in {Open, {}} /\ Routed' = Routed
    BY <2>1, MappedStep, SameRoutes
  <2> QED
    BY <2>1, <2>2 DEF Abstract!Next, Abstract!Close
<1>9. CASE Kill(p)
  <2>1. /\ pc'[p] = "idle" /\ phase'[p] = "none"
        /\ op' = op /\ names' = names /\ buf' = buf /\ file' = file
    BY <1>1, <1>9, ControlTyped, FinishMoves DEF Kill, Outcome, TypeOK
  <2>2. Open' = {} /\ Routed' = file.hosts
    BY <2>1, MappedStep
  <2>3. CASE phase[p] = "write"
    <3>1. Open = {h} /\ file.hosts = {}
      BY <2>3, MappedStep DEF WritersInv, Holding, NoInterleavedRewrite, Torn
    <3> QED
      BY <2>1, <2>2, <3>1 DEF Abstract!Next, Abstract!Tear
  <2>4. CASE phase[p] # "write"
    <3>1. Routed' = Routed
      BY <2>2, <2>4, MappedStep
    <3> QED
      BY <2>1, <2>2, <3>1 DEF Abstract!Next, Abstract!Close
  <2> QED
    BY <2>3, <2>4
<1> QED
  BY <1>2, <1>3, <1>4, <1>5, <1>6, <1>7, <1>8, <1>9 DEF Proceed

\* A verb that starts opens nothing yet.
LEMMA DispatchImplements ==
    ASSUME OneLockFile, WritersInv, NEW p \in Writers, Dispatch(p)
    PROVE  UNCHANGED <<Routed, names, Open>>
<1>1. Routed' = Routed /\ names' = names
  BY DEF Dispatch, Routed
<1>2. \A q \in Writers : pc[q] \in {"apply", "rollback"} <=> pc'[q] \in {"apply", "rollback"}
  BY DEF Dispatch, WritersInv, TypeOK
<1>3. \A q \in Writers : pc[q] \in {"apply", "rollback"} => op'[q].host = op[q].host
  BY DEF Dispatch, WritersInv, TypeOK
<1>4. Open' = Open
  BY <1>2, <1>3 DEF Open
<1> QED
  BY <1>1, <1>4

\* Invocations that share one lock file implement the registry: the truncating
\* rewrite of the config file looks atomic, and only the host of the verb at
\* work changes (dispatch, lock.go; read and write of a file driver's Apply).
THEOREM RegistryImplemented ==
    ASSUME OneLockFile
    PROVE  Spec => ImplementsRegistry
<1>1. Init => Abstract!Init
  <2> SUFFICES ASSUME Init PROVE Abstract!Init
    OBVIOUS
  <2>1. \A q \in Writers : phase[q] = "none" /\ pc[q] = "idle"
    BY DEF Init
  <2>2. Routed = file.hosts /\ Open = {}
    BY <2>1 DEF Routed, Open
  <2>3. file.hosts \in SUBSET Hosts /\ names = file.hosts
    BY DEF Init
  <2> QED
    BY <2>2, <2>3 DEF Abstract!Init
<1>2. WritersInv /\ [Next]_vars => [Abstract!Next]_(Abstract!state)
  <2> SUFFICES ASSUME WritersInv, [Next]_vars
               PROVE  Abstract!Next \/ UNCHANGED <<Routed, names, Open>>
    BY DEF Abstract!state
  <2>1. ASSUME NEW p \in Writers, Dispatch(p) PROVE UNCHANGED <<Routed, names, Open>>
    BY <2>1, DispatchImplements
  <2>2. ASSUME NEW p \in Writers, CrenelPlan(p) \/ CrenelApply(p) PROVE FALSE
    BY <2>2 DEF CrenelPlan, CrenelApply, OneLockFile
  <2>3. ASSUME NEW p \in Writers, Proceed(p) \/ Kill(p)
        PROVE  Abstract!Next \/ UNCHANGED <<Routed, names, Open>>
    BY <2>3, WorkImplements
  <2>4. CASE UNCHANGED vars
    BY <2>4 DEF vars, txn, Routed, Open
  <2> QED
    BY <2>1, <2>2, <2>3, <2>4 DEF Next
<1> QED
  BY <1>1, <1>2, LockedWriters, PTL DEF Spec, ImplementsRegistry, Abstract!Spec

-----------------------------------------------------------------------------
(***************************************************************************)
(* An MCP server among any other processes.                                *)
(***************************************************************************)
\* A server at an edge call of its apply has that leg still to do, has no guard
\* of its own, and, until another writer gets between the comparison of ids and
\* the plan that Engine.Apply makes for itself, would plan what was confirmed.
IdStands(p) ==
    /\ pc[p] # "guard"
    /\ phase[p] # "none" /\ pc[p] = "apply" => "edge" \in todo[p]
    /\ pc[p] = "plan" /\ ~ raced[p] =>
        /\ token[p] = Changes(op[p])
        /\ ~ guardPublicAuth(op[p], token[p])

\* From then on it does what was confirmed.
AsConfirmed(p) ==
    pc[p] \in {"confirm", "snapshot", "apply", "rollback"} /\ ~ raced[p] =>
        /\ plan[p] = token[p]
        /\ ~ guardPublicAuth(op[p], plan[p])
        /\ pc[p] \in {"apply", "rollback"} => todo[p] \cup applied[p] \subseteq token[p]

McpInv == TypeOK /\ InHand /\ \A p \in Mcp : IdStands(p) /\ AsConfirmed(p)

\* What a step of another process leaves of server p: all of its own state, and
\* the host it is about to plan for, unless the step is noted in raced.
Aside(p) ==
    /\ pc'[p] = pc[p] /\ op'[p] = op[p] /\ plan'[p] = plan[p] /\ token'[p] = token[p]
    /\ todo'[p] = todo[p] /\ applied'[p] = applied[p] /\ phase'[p] = phase[p]
    /\ raced[p] => raced'[p]
    /\ pc[p] = "plan" /\ ~ raced'[p] =>
        /\ file' = file
        /\ (op[p].host \in names') = (op[p].host \in names)

\* Legs move from one list of one writer to the other, and only its own.
LEMMA AdvanceAside ==
    ASSUME TypeOK, NEW q \in Writers, NEW l \in Legs, NEW p \in Writers \ {q},
           Advance(q, l) \/ LegFails(q, l)
    PROVE  todo'[p] = todo[p] /\ applied'[p] = applied[p]
BY DEF Advance, LegFails, TypeOK

\* A tool call or verb that starts touches neither file nor record, and only
\* its own process.
LEMMA StartAside ==
    ASSUME TypeOK, NEW q \in Writers, NEW p \in Mcp \ {q},
           Dispatch(q) \/ CrenelPlan(q) \/ CrenelApply(q)
    PROVE  Aside(p)
<1>1. p \in Writers
  BY WritersAssumption
<1>2. CASE Dispatch(q)
  BY <1>1, <1>2 DEF Dispatch, TypeOK, Aside, mcp
<1>3. CASE CrenelPlan(q)
  BY <1>1, <1>3 DEF CrenelPlan, TypeOK, Aside, txn
<1>4. CASE CrenelApply(q)
  <2>1. /\ UNCHANGED <<file, names, plan, todo, applied, phase>>
        /\ pc'[p] = pc[p] /\ op'[p] = op[p] /\ token'[p] = token[p] /\ raced'[p] = raced[p]
    BY <1>1, <1>4 DEF CrenelApply, Finish, Goto, TypeOK
  <2> QED
    BY <2>1 DEF Aside
<1> QED
  BY <1>2, <1>3, <1>4

\* Neither does a writer at work touch another process, and what it writes to
\* the file or to a server's host it writes under the eyes of raced.
LEMMA WorkAside ==
    ASSUME TypeOK, InHand, NEW q \in Writers, NEW p \in Mcp \ {q}, Proceed(q) \/ Kill(q)
    PROVE  Aside(p)
<1>1. p \in Writers /\ p # q
  BY WritersAssumption
<1>2. pc'[p] = pc[p] /\ phase'[p] = phase[p]
  BY <1>1, StepMoves DEF Moves
<1>3. CASE Guard(q) \/ Plan(q) \/ Confirm(q) \/ Snapshot(q) \/ Verify(q) \/ Kill(q)
  <2>1. /\ UNCHANGED <<file, names, op, token, raced>>
        /\ plan'[p] = plan[p] /\ todo'[p] = todo[p] /\ applied'[p] = applied[p]
    BY <1>1, <1>3 DEF Guard, Plan, Confirm, Snapshot, Verify, Kill, TypeOK, txn, mcp
  <2> QED
    BY <1>2, <2>1 DEF Aside
<1>4. CASE DnsCall(q)
  <2>1. /\ UNCHANGED <<file, op, plan, token>>
        /\ todo'[p] = todo[p] /\ applied'[p] = applied[p]
    BY <1>1, <1>4, AdvanceAside DEF DnsCall, Legs
  <2>2. CASE UNCHANGED <<names, raced>>
    BY <1>2, <2>1, <2>2 DEF Aside
  <2>3. CASE /\ names' = IF Wanted(q) THEN names \cup {op[q].host} ELSE names \ {op[q].host}
             /\ Overtakes(q, {s \in Mcp : op[s].host = op[q].host})
    <3>1. raced'[p] = (raced[p] \/ (op[p].host = op[q].host /\ pc[p] = "plan"))
      BY <1>1, <2>3 DEF Overtakes
    <3>2. op[p].host # op[q].host => (op[p].host \in names') = (op[p].host \in names)
      BY <2>3
    <3> QED
      BY <1>2, <2>1, <3>1, <3>2 DEF Aside
  <2> QED
    BY <1>4, <2>2, <2>3 DEF DnsCall
<1>5. CASE ReadFile(q)
  <2>1. /\ UNCHANGED <<file, names, op, plan, token, raced>>
        /\ todo'[p] = todo[p] /\ applied'[p] = applied[p]
    BY <1>1, <1>5, AdvanceAside DEF ReadFile, Legs, mcp
  <2> QED
    BY <1>2, <2>1 DEF Aside
<1>6. CASE Truncate(q) \/ WriteFile(q)
  <2>1. /\ UNCHANGED <<names, op, plan, token>>
        /\ todo'[p] = todo[p] /\ applied'[p] = applied[p]
    BY <1>1, <1>6, AdvanceAside DEF Truncate, WriteFile, Legs
  <2>2. raced'[p] = (raced[p] \/ pc[p] = "plan")
    BY <1>1, <1>6 DEF Truncate, WriteFile, Overtakes
  <2> QED
    BY <1>2, <2>1, <2>2 DEF Aside
<1> QED
  BY <1>3, <1>4, <1>5, <1>6 DEF Proceed

\* A server the step left alone stands where it stood.
LEMMA AsideStands ==
    ASSUME NEW p \in Mcp, IdStands(p), AsConfirmed(p), Aside(p)
    PROVE  IdStands(p)' /\ AsConfirmed(p)'
<1>1. pc[p] = "plan" /\ ~ raced'[p] => Changes(op[p])' = Changes(op[p])
  BY DEF Aside, Changes
<1>2. guardPublicAuth(op[p], token[p])' = guardPublicAuth(op[p], token[p])
  BY DEF Aside, guardPublicAuth, GoesPublic
<1>3. guardPublicAuth(op[p], plan[p])' = guardPublicAuth(op[p], plan[p])
  BY DEF Aside, guardPublicAuth, GoesPublic
<1>4. IdStands(p)'
  BY <1>1, <1>2 DEF IdStands, Aside
<1>5. AsConfirmed(p)'
  BY <1>3 DEF AsConfirmed, Aside
<1> QED
  BY <1>4, <1>5

\* A server that has come to rest owes nothing.
LEMMA IdleStands ==
    ASSUME NEW p \in Mcp, pc'[p] = "idle"
    PROVE  IdStands(p)' /\ AsConfirmed(p)'
BY DEF IdStands, AsConfirmed

\* The tool calls of the server itself.
LEMMA McpToolStep ==
    ASSUME McpInv, NEW p \in Mcp, CrenelPlan(p) \/ CrenelApply(p)
    PROVE  IdStands(p)' /\ AsConfirmed(p)'
<1>1. TypeOK /\ InHand /\ p \in Writers /\ pc[p] = "idle" /\ phase[p] = "none"
  BY WritersAssumption DEF McpInv, InHand, CrenelPlan, CrenelApply
<1>2. CASE CrenelPlan(p)
  <2>1. pc'[p] = "idle"
    BY <1>1, <1>2 DEF CrenelPlan
  <2> QED
    BY <2>1, IdleStands
<1>3. CASE CrenelApply(p)
  <2>1. CASE pc'[p] = "idle"
    BY <2>1, IdleStands
  <2>2. PICK t \in issued[p] :
            \/ Finish(p, "refused") \/ Finish(p, "noop")
            \/ /\ IdMatches(t) /\ ~ guardPublicAuth(t.op, Changes(t.op))
               /\ op' = [op EXCEPT ![p] = t.op]
               /\ token' = [token EXCEPT ![p] = t.legs] /\ Goto(p, "plan")
    BY <1>3 DEF CrenelApply
  <2>3. CASE /\ IdMatches(t) /\ ~ guardPublicAuth(t.op, Changes(t.op))
             /\ op' = [op EXCEPT ![p] = t.op]
             /\ token' = [token EXCEPT ![p] = t.legs] /\ Goto(p, "plan")
    <3>1. pc'[p] = "plan" /\ op'[p] = t.op /\ token'[p] = t.legs
      BY <1>1, <2>3 DEF Goto, TypeOK
    <3>2. file' = file /\ names' = names /\ phase' = phase
      BY <1>3 DEF CrenelApply
    <3>3. t.legs = Changes(t.op)
      BY <2>3 DEF IdMatches
    <3>4. token'[p] = Changes(op[p])'
      BY <3>1, <3>2, <3>3 DEF Changes
    <3>5. ~ guardPublicAuth(op[p], token[p])'
      BY <2>3, <3>1, <3>3 DEF guardPublicAuth, GoesPublic
    <3> QED
      BY <1>1, <3>1, <3>2, <3>4, <3>5 DEF IdStands, AsConfirmed
  <2> QED
    BY <1>1, <2>1, <2>2, <2>3, ControlTyped, FinishMoves DEF Outcome
<1> QED
  BY <1>2, <1>3

\* Within one transaction the two lists of legs together never grow.
LEMMA AdvanceShrinks ==
    ASSUME TypeOK, NEW p \in Writers, NEW l \in Legs, Advance(p, l) \/ LegFails(p, l),
           pc[p] = "apply" => l \in todo[p]
    PROVE  /\ todo'[p] \cup applied'[p] \subseteq todo[p] \cup applied[p]
           /\ pc[p] \in {"apply", "rollback"} /\ pc'[p] \in {"idle", "apply", "rollback"}
<1>1. pc[p] \in {"apply", "rollback"} /\ pc'[p] \in {"idle", "apply", "rollback"}
  BY AdvanceMoves, LegFailsMoves
<1>2. todo'[p] \cup applied'[p] \subseteq todo[p] \cup applied[p]
  BY DEF Advance, LegFails, TypeOK
<1> QED
  BY <1>1, <1>2

\* A step of p's transaction that keeps its plan and grows none of its lists.
Within(p) ==
    /\ pc[p] \in {"apply", "rollback"} /\ pc'[p] \in {"idle", "apply", "rollback"}
    /\ op'[p] = op[p] /\ plan'[p] = plan[p] /\ token'[p] = token[p]
    /\ raced[p] => raced'[p]
    /\ todo'[p] \cup applied'[p] \subseteq todo[p] \cup applied[p]
    /\ phase'[p] # "none" /\ pc'[p] = "apply" => "edge" \in todo'[p]

\* Such a step keeps to what was confirmed.
LEMMA WithinStands ==
    ASSUME NEW p \in Mcp, IdStands(p), AsConfirmed(p), Within(p)
    PROVE  IdStands(p)' /\ AsConfirmed(p)'
<1>1. guardPublicAuth(op[p], plan[p])' = guardPublicAuth(op[p], plan[p])
  BY DEF Within, guardPublicAuth, GoesPublic
<1>2. IdStands(p)'
  BY DEF Within, IdStands
<1>3. AsConfirmed(p)'
  BY <1>1 DEF Within, AsConfirmed
<1> QED
  BY <1>2, <1>3

\* Every call of an apply is such a step.
LEMMA CallWithin ==
    ASSUME McpInv, NEW p \in Mcp,
           DnsCall(p) \/ ReadFile(p) \/ Truncate(p) \/ WriteFile(p) \/ Verify(p)
    PROVE  Within(p)
<1>1. TypeOK /\ InHand /\ IdStands(p) /\ p \in Writers
  BY WritersAssumption DEF McpInv
<1>2. CASE DnsCall(p)
  <2>1. /\ UNCHANGED <<op, plan, token, phase>> /\ phase[p] = "none" /\ (raced[p] => raced'[p])
        /\ Advance(p, "dns") \/ LegFails(p, "dns")
        /\ pc[p] = "apply" => "dns" \in todo[p]
    BY <1>1, <1>2 DEF DnsCall, NextLeg, Overtakes
  <2> QED
    BY <1>1, <2>1, AdvanceShrinks DEF Within, Legs
<1>3. CASE ReadFile(p)
  <2>1. /\ UNCHANGED <<op, plan, token, raced>>
        /\ pc[p] \in {"apply", "rollback"} /\ (pc[p] = "apply" => "edge" \in todo[p])
    BY <1>3 DEF ReadFile, NextLeg, mcp
  <2>2. CASE UNCHANGED <<pc, todo, applied>>
    BY <2>1, <2>2 DEF Within
  <2>3. CASE LegFails(p, "edge") /\ phase' = phase /\ phase[p] = "none"
    BY <1>1, <2>1, <2>3, AdvanceShrinks DEF Within, Legs
  <2> QED
    BY <1>3, <2>2, <2>3 DEF ReadFile
<1>4. CASE Truncate(p)
  BY <1>1, <1>4 DEF Truncate, Within, InHand, IdStands, Overtakes
<1>5. CASE WriteFile(p)
  <2>1. /\ UNCHANGED <<op, plan, token>> /\ phase'[p] = "none" /\ (raced[p] => raced'[p])
        /\ Advance(p, "edge") \/ LegFails(p, "edge")
        /\ pc[p] = "apply" => "edge" \in todo[p]
    BY <1>1, <1>5 DEF WriteFile, Overtakes, IdStands, TypeOK
  <2> QED
    BY <1>1, <2>1, AdvanceShrinks DEF Within, Legs
<1>6. CASE Verify(p)
  <2>1. /\ UNCHANGED <<op, plan, token, raced, todo, applied, phase>>
        /\ pc[p] = "apply" /\ phase[p] = "none"
    BY <1>6 DEF Verify, txn, mcp
  <2>2. pc'[p] \in {"idle", "apply", "rollback"}
    BY <1>1, <1>6, ControlTyped, FinishMoves, RollbackMoves DEF Verify, Outcome
  <2> QED
    BY <2>1, <2>2 DEF Within
<1> QED
  BY <1>2, <1>3, <1>4, <1>5, <1>6

\* So every stage of the server's own apply keeps to what was confirmed.
LEMMA McpWorkStep ==
    ASSUME McpInv, NEW p \in Mcp, Proceed(p) \/ Kill(p)
    PROVE  IdStands(p)' /\ AsConfirmed(p)'
<1>1. TypeOK /\ InHand /\ IdStands(p) /\ AsConfirmed(p) /\ p \in Writers
  BY WritersAssumption DEF McpInv
<1>2. CASE Guard(p)
  BY <1>1, <1>2 DEF Guard, IdStands
<1>3. CASE Plan(p)
  <2>1. /\ pc[p] = "plan" /\ pc'[p] \in {"idle", "confirm"} /\ plan'[p] = Changes(op[p])
        /\ UNCHANGED <<op, token, raced>>
    BY <1>1, <1>3, ControlTyped, FinishMoves, GotoMoves DEF Plan, TypeOK, Outcome, PC, mcp
  <2>2. ~ raced[p] => plan'[p] = token[p] /\ ~ guardPublicAuth(op[p], plan[p])'
    BY <1>1, <2>1 DEF IdStands, guardPublicAuth, GoesPublic
  <2>3. IdStands(p)' /\ AsConfirmed(p)'
    BY <2>1, <2>2 DEF IdStands, AsConfirmed
  <2> QED
    BY <2>3
<1>4. CASE Confirm(p)
  <2>1. /\ pc[p] = "confirm" /\ pc'[p] \in {"idle", "snapshot"}
        /\ UNCHANGED <<op, plan, token, raced>>
    BY <1>1, <1>4, ControlTyped, FinishMoves, GotoMoves DEF Confirm, Outcome, PC, txn, mcp
  <2>2. guardPublicAuth(op[p], plan[p])' = guardPublicAuth(op[p], plan[p])
    BY <2>1 DEF guardPublicAuth, GoesPublic
  <2> QED
    BY <1>1, <2>1, <2>2 DEF IdStands, AsConfirmed
<1>5. CASE Snapshot(p)
  <2>1. /\ pc[p] = "snapshot" /\ pc'[p] = "apply" /\ phase'[p] = "none"
        /\ UNCHANGED <<op, plan, token, raced>>
        /\ todo'[p] = plan[p] /\ applied'[p] = {}
    BY <1>1, <1>5, ControlTyped, GotoMoves DEF Snapshot, InHand, TypeOK, PC, mcp
  <2>2. guardPublicAuth(op[p], plan[p])' = guardPublicAuth(op[p], plan[p])
    BY <2>1 DEF guardPublicAuth, GoesPublic
  <2> QED
    BY <1>1, <2>1, <2>2 DEF IdStands, AsConfirmed
<1>6. CASE DnsCall(p) \/ ReadFile(p) \/ Truncate(p) \/ WriteFile(p) \/ Verify(p)
  BY <1>1, <1>6, CallWithin, WithinStands
<1>7. CASE Kill(p)
  <2>1. pc'[p] = "idle"
    BY <1>1, <1>7, ControlTyped, FinishMoves DEF Kill, Outcome
  <2> QED
    BY <2>1, IdleStands
<1> QED
  BY <1>2, <1>3, <1>4, <1>5, <1>6, <1>7 DEF Proceed

\* Whatever process takes a step, every server keeps to what was confirmed.
LEMMA McpStep ==
    ASSUME McpInv, NEW q \in Writers,
           Dispatch(q) \/ CrenelPlan(q) \/ CrenelApply(q) \/ Proceed(q) \/ Kill(q)
    PROVE  McpInv'
<1>1. TypeOK /\ InHand
  BY DEF McpInv
<1>2. TypeOK'
  BY <1>1, DispatchType, McpType, ProceedType, KillType
<1>3. InHand'
  <2>1. CASE Proceed(q) \/ Kill(q)
    BY <1>1, <2>1, StepMoves DEF InHand, Moves
  <2>2. CASE Dispatch(q) \/ CrenelPlan(q) \/ CrenelApply(q)
    <3>1. /\ phase' = phase /\ phase[q] = "none"
          /\ \A p \in Writers \ {q} : pc'[p] = pc[p]
      BY <1>1, <2>2 DEF Dispatch, CrenelPlan, CrenelApply, Finish, Goto, InHand, TypeOK, txn
    <3> QED
      BY <1>1, <3>1 DEF InHand
  <2> QED
    BY <2>1, <2>2
<1>4. ASSUME NEW p \in Mcp PROVE IdStands(p)' /\ AsConfirmed(p)'
  <2>1. IdStands(p) /\ AsConfirmed(p)
    BY DEF McpInv
  <2>2. CASE p # q
    <3>1. Aside(p)
      BY <1>1, <2>2, StartAside, WorkAside
    <3> QED
      BY <2>1, <3>1, AsideStands
  <2>3. CASE p = q
    <3>1. CASE Dispatch(q)
      BY <2>3, <3>1 DEF Dispatch
    <3>2. CASE CrenelPlan(q) \/ CrenelApply(q)
      BY <2>3, <3>2, McpToolStep
    <3>3. CASE Proceed(q) \/ Kill(q)
      BY <2>3, <3>3, McpWorkStep
    <3> QED
      BY <3>1, <3>2, <3>3
  <2> QED
    BY <2>2, <2>3
<1> QED
  BY <1>2, <1>3, <1>4 DEF McpInv

\* However many processes are at work, with or without the lock: an MCP server
\* applies exactly the change whose id its client confirmed, and one that passed
\* the guard, unless another writer rewrote the file or the host's record between
\* the comparison of ids (handleApply) and the plan Engine.Apply makes.
THEOREM ConfirmedApplied == Spec => []ConfirmedIsApplied
<1>1. Init => McpInv
  <2> SUFFICES ASSUME Init PROVE McpInv
    OBVIOUS
  <2>1. TypeOK
    BY InitType
  <2> QED
    BY <2>1, WritersAssumption DEF Init, McpInv, InHand, IdStands, AsConfirmed
<1>2. McpInv /\ [Next]_vars => McpInv'
  <2> SUFFICES ASSUME McpInv, [Next]_vars PROVE McpInv'
    OBVIOUS
  <2>1. ASSUME NEW q \in Writers,
               Dispatch(q) \/ CrenelPlan(q) \/ CrenelApply(q) \/ Proceed(q) \/ Kill(q)
        PROVE  McpInv'
    BY <2>1, McpStep
  <2>2. CASE UNCHANGED vars
    <3>1. TypeOK' /\ InHand'
      BY <2>2 DEF vars, txn, mcp, McpInv, TypeOK, InHand
    <3>2. ASSUME NEW p \in Mcp PROVE Aside(p) /\ IdStands(p) /\ AsConfirmed(p)
      BY <2>2 DEF vars, txn, mcp, Aside, McpInv
    <3> QED
      BY <3>1, <3>2, AsideStands DEF McpInv
  <2> QED
    BY <2>1, <2>2 DEF Next
<1>3. McpInv => ConfirmedIsApplied
  BY DEF McpInv, AsConfirmed, ConfirmedIsApplied
<1> QED
  BY <1>1, <1>2, <1>3, PTL DEF Spec
=============================================================================
