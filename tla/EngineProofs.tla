---------------------------- MODULE EngineProofs ----------------------------
(***************************************************************************)
(* Theorems about Engine, for any number of processes, configurations, CIDR*)
(* lists and snapshots, and for every set of faults unless one is excluded *)
(* by name.                                                                *)
(***************************************************************************)
EXTENDS Engine, SequenceTheorems, TLAPS

USE DEF Faulty, disk, kernel, control, RedoPoint

-----------------------------------------------------------------------------
(* Helpers of the engine keep the types of what they write. *)

\* What deletePriority leaves is a list of rules again.
LEMMA RemainingType ==
    ASSUME NEW list \in Seq(Lookup), NEW rest \in Remaining(list)
    PROVE  rest \in Seq(Lookup)
<1>1. CASE rest = <<>>
  BY <1>1
<1>2. ASSUME NEW k \in 1..Len(list), rest = SubSeq(list, k, Len(list))
      PROVE  rest \in Seq(Lookup)
  BY <1>2, SubSeqProperties, ElementOfSeq
<1> QED
  BY <1>1, <1>2 DEF Remaining

LEMMA DeletePriorityType ==
    ASSUME rules \in [RuleName -> Seq(Lookup)], NEW r \in RuleName,
           DeletePriority(r)
    PROVE  rules' \in [RuleName -> Seq(Lookup)]
<1>1. PICK rest \in Remaining(rules[r]) : rules' = [rules EXCEPT ![r] = rest]
  BY DEF DeletePriority
<1>2. rest \in Seq(Lookup)
  BY RemainingType
<1> QED
  BY <1>1, <1>2

LEMMA AddRuleType ==
    ASSUME rules \in [RuleName -> Seq(Lookup)], NEW r \in RuleName,
           NEW t \in Lookup, AddRule(r, t)
    PROVE  rules' \in [RuleName -> Seq(Lookup)]
  BY DEF AddRule

LEMMA SetTableType ==
    ASSUME table \in [TableName -> Contents], NEW t \in TableName,
           NEW c \in Contents, SetTable(t, c)
    PROVE  table' \in [TableName -> Contents]
  BY DEF SetTable

\* The contents that the engine and the environment write are contents.
LEMMA ContentsMembers ==
    /\ Empty \in Contents
    /\ Torn \in Contents
    /\ Foreign \in Contents
    /\ WholeLocal \in Contents
    /\ \A c \in Config, d \in Data : Whole(c, d) \in Contents
  BY DEF Contents

LEMMA TargetType == ASSUME NEW prev PROVE Target(prev) \in Slot
  BY DEF Target, Slot

LEMMA FlushFailsType ==
    ASSUME table \in [TableName -> Contents], NEW t \in TableName, FlushFails(t)
    PROVE  table' \in [TableName -> Contents]
  BY SetTableType, ContentsMembers DEF FlushFails

\* Control flow keeps the types of the control variables.
LEMMA ContinueType ==
    ASSUME ControlTypeOK, NEW p \in Proc, NEW point \in Point, Continue(p, point)
    PROVE  ControlTypeOK'
  BY DEF ControlTypeOK, Continue

LEMMA CarryType ==
    ASSUME ControlTypeOK, NEW p \in Proc, NEW point \in Point, NEW f \in Frame,
           Carry(p, point, f)
    PROVE  ControlTypeOK'
  BY DEF ControlTypeOK, Carry

LEMMA NoFrameType == NoFrame \in Frame
  BY DEF NoFrame, Frame, DefaultState, State

LEMMA FinishType ==
    ASSUME ControlTypeOK, NEW p \in Proc, NEW out \in Outcome, Finish(p, out)
    PROVE  ControlTypeOK'
  BY NoFrameType DEF ControlTypeOK, Finish, Point

\* A handler that goes on, its frame unchanged, still has what it needs, as long
\* as it does not skip the step that reads its inputs.
LEMMA HandlerGoesOn ==
    ASSUME ControlTypeOK, \A q \in Proc : HandlerOK(q),
           snapshots \in Seq(Snapshot), snapshots' \in Seq(Snapshot),
           Len(snapshots') >= Len(snapshots),
           NEW p \in Proc, NEW point \in Point, Continue(p, point),
           pc[p] # "rollback", point # "rollback",
           point \in LoadedPoint => pc[p] \in LoadedPoint,
           point \in RedoPoint => Restorable(frame[p].prev),
           point \in RestorePoint => frame[p].op = "rollback"
    PROVE  \A q \in Proc : HandlerOK(q)'
<1> SUFFICES ASSUME NEW q \in Proc PROVE HandlerOK(q)'
  OBVIOUS
<1>1. HandlerOK(p) /\ HandlerOK(q)
  OBVIOUS
<1>2. frame' = frame /\ pc' = [pc EXCEPT ![p] = point]
  BY DEF Continue
<1>3. Len(snapshots) \in Nat /\ Len(snapshots') \in Nat /\ frame[q].snap \in Nat
  BY DEF ControlTypeOK, Frame
<1>4. /\ 1..Len(snapshots) \subseteq 1..Len(snapshots')
      /\ 0..Len(snapshots) \subseteq 0..Len(snapshots')
  BY <1>3
<1>5. CASE q = p
  <2>1. pc'[q] = point
    BY <1>2, <1>5 DEF ControlTypeOK
  <2> QED
    BY <1>1, <1>2, <1>4, <1>5, <2>1 DEF HandlerOK
<1>6. CASE q # p
  <2>1. pc'[q] = pc[q]
    BY <1>2, <1>6 DEF ControlTypeOK
  <2> QED
    BY <1>1, <1>2, <1>4, <2>1 DEF HandlerOK
<1> QED
  BY <1>5, <1>6

\* A handler that ends needs nothing.
LEMMA HandlerEnds ==
    ASSUME ControlTypeOK, \A q \in Proc : HandlerOK(q), UNCHANGED snapshots,
           NEW p \in Proc, NEW out \in Outcome, Finish(p, out)
    PROVE  \A q \in Proc : HandlerOK(q)'
<1> SUFFICES ASSUME NEW q \in Proc PROVE HandlerOK(q)'
  OBVIOUS
<1>1. HandlerOK(q)
  OBVIOUS
<1>2. /\ pc' = [pc EXCEPT ![p] = "idle"]
      /\ frame' = [frame EXCEPT ![p] = NoFrame]
  BY DEF Finish
<1>3. CASE q = p
  BY <1>2, <1>3 DEF ControlTypeOK, HandlerOK, NoFrame, LoadedPoint, RestorePoint,
     ApplyPoint, UndoPoint, DisablePoint, RollbackPoint
<1>4. CASE q # p
  BY <1>1, <1>2, <1>4 DEF ControlTypeOK, HandlerOK
<1> QED
  BY <1>3, <1>4

\* The two ways in which most steps end, for the whole type invariant.
LEMMA TypeGoesOn ==
    ASSUME TypeOK, NEW p \in Proc, NEW point \in Point, Continue(p, point),
           DiskTypeOK', KernelTypeOK', Len(snapshots') >= Len(snapshots),
           pc[p] # "rollback", point # "rollback",
           point \in LoadedPoint => pc[p] \in LoadedPoint,
           point \in RedoPoint => Restorable(frame[p].prev),
           point \in RestorePoint => frame[p].op = "rollback"
    PROVE  TypeOK'
  BY ContinueType, HandlerGoesOn DEF TypeOK, DiskTypeOK

LEMMA TypeEnds ==
    ASSUME TypeOK, NEW p \in Proc, NEW out \in Outcome, Finish(p, out),
           DiskTypeOK', KernelTypeOK', UNCHANGED snapshots
    PROVE  TypeOK'
  BY FinishType, HandlerEnds DEF TypeOK

-----------------------------------------------------------------------------
(* TypeOK is inductive. *)

LEMMA TypeInit == Init => TypeOK
<1> SUFFICES ASSUME Init PROVE TypeOK
  OBVIOUS
<1>1. DiskTypeOK
  BY DEF Init, DiskTypeOK, State, DefaultState
<1>2. KernelTypeOK
  <2>1. <<>> \in Seq(Lookup)
    OBVIOUS
  <2>2. rules \in [RuleName -> Seq(Lookup)]
    BY <2>1 DEF Init
  <2>3. table \in [TableName -> Contents]
    BY ContentsMembers DEF Init
  <2> QED
    BY <2>2, <2>3 DEF Init, KernelTypeOK
<1>3. ControlTypeOK
  BY NoFrameType DEF Init, ControlTypeOK, Point, Outcome
<1>4. \A p \in Proc : HandlerOK(p)
  BY DEF Init, HandlerOK, NoFrame, LoadedPoint, RestorePoint, ApplyPoint,
     UndoPoint, DisablePoint, RollbackPoint
<1> QED
  BY <1>1, <1>2, <1>3, <1>4 DEF TypeOK

LEMMA LenIsNat == ASSUME DiskTypeOK PROVE Len(snapshots) \in Nat
  BY DEF DiskTypeOK

LEMMA TypeError ==
    ASSUME TypeOK, NEW p \in Proc, Finish(p, "error"), UNCHANGED <<disk, kernel>>
    PROVE  TypeOK'
  BY TypeEnds DEF TypeOK, DiskTypeOK, KernelTypeOK, Outcome

LEMMA TypeStart ==
    ASSUME TypeOK, NEW p \in Proc, Start(p)
    PROVE  TypeOK'
<1>1. PICK op \in Operation, path \in 0..Len(snapshots) : Acquire(p, op, path)
  BY LenIsNat DEF Start, Operation, TypeOK
<1>2. /\ lock' = p
      /\ pc' = [pc EXCEPT ![p] = op]
      /\ frame' = [frame EXCEPT ![p].op = op, ![p].snap = path]
      /\ ret' = [ret EXCEPT ![p] = "none"]
      /\ UNCHANGED <<disk, kernel>>
  BY <1>1 DEF Acquire
<1>3. DiskTypeOK' /\ KernelTypeOK'
  BY <1>2 DEF TypeOK, DiskTypeOK, KernelTypeOK
<1>4. path \in Nat
  BY LenIsNat DEF TypeOK
<1>5. ControlTypeOK'
  <2>1. op \in Point
    BY DEF Operation, Point, ApplyPoint, DisablePoint, RollbackPoint
  <2>2. frame' \in [Proc -> Frame]
    <3> DEFINE f == [frame[p] EXCEPT !.op = op, !.snap = path]
    <3>1. frame \in [Proc -> Frame]
      BY DEF TypeOK, ControlTypeOK
    <3>2. f \in Frame
      BY <1>4, <3>1 DEF Frame
    <3>3. frame' = [frame EXCEPT ![p] = f]
      BY <1>2, <3>1 DEF Frame
    <3> QED
      BY <3>1, <3>2, <3>3
  <2> QED
    BY <1>2, <2>1, <2>2 DEF TypeOK, ControlTypeOK, Outcome
<1>6. ASSUME NEW q \in Proc PROVE HandlerOK(q)'
  <2>1. CASE q = p
    <3>1. pc'[q] = op /\ frame'[q].op = op /\ frame'[q].snap = path
      BY <1>2, <2>1 DEF TypeOK, ControlTypeOK, Frame
    <3> QED
      BY <1>2, <3>1 DEF HandlerOK, Operation, LoadedPoint, RestorePoint,
         ApplyPoint, UndoPoint, DisablePoint, RollbackPoint
  <2>2. CASE q # p
    BY <1>2, <2>2 DEF TypeOK, ControlTypeOK, HandlerOK
  <2> QED
    BY <2>1, <2>2
<1> QED
  BY <1>3, <1>5, <1>6 DEF TypeOK

LEMMA TypeReject ==
    ASSUME TypeOK, NEW p \in Proc, Reject(p)
    PROVE  TypeOK'
  BY DEF TypeOK, Reject, DiskTypeOK, KernelTypeOK, ControlTypeOK, HandlerOK, Outcome

LEMMA TypeLoadInputs ==
    ASSUME TypeOK, NEW p \in Proc, NEW from \in {"apply", "disable"},
           NEW to \in {"persist", "dSnapshot"}, LoadInputs(p, from, to)
    PROVE  TypeOK'
<1>1. CASE ReadError(p, from)
  BY <1>1, TypeError DEF ReadError
<1>2. ASSUME pc[p] = from, UNCHANGED <<disk, kernel>>,
             Carry(p, to, [frame[p] EXCEPT !.cfg = configFile, !.prev = stateFile,
                                           !.data = dataFile])
      PROVE  TypeOK'
  <2> DEFINE f == [frame[p] EXCEPT !.cfg = configFile, !.prev = stateFile,
                                   !.data = dataFile]
  <2>1. DiskTypeOK' /\ KernelTypeOK'
    BY <1>2 DEF TypeOK, DiskTypeOK, KernelTypeOK
  <2>2. f \in Frame
    BY DEF TypeOK, DiskTypeOK, ControlTypeOK, Frame
  <2>3. to \in Point
    BY DEF Point, ApplyPoint, DisablePoint
  <2>4. ControlTypeOK'
    BY <1>2, <2>2, <2>3, CarryType DEF TypeOK
  <2>5. ASSUME NEW q \in Proc PROVE HandlerOK(q)'
    <3>1. HandlerOK(p) /\ HandlerOK(q)
      BY DEF TypeOK
    <3>2. pc' = [pc EXCEPT ![p] = to] /\ frame' = [frame EXCEPT ![p] = f]
      BY <1>2 DEF Carry
    <3>3. CASE q = p
      <4>1. pc'[q] = to /\ frame'[q] = f
        BY <3>2, <3>3 DEF TypeOK, ControlTypeOK
      <4>2. /\ frame'[q].cfg = configFile
            /\ frame'[q].data = dataFile
            /\ frame'[q].op = frame[p].op
            /\ frame'[q].snap = frame[p].snap
        BY <4>1 DEF TypeOK, ControlTypeOK, Frame
      <4> QED
        BY <1>2, <3>1, <3>3, <4>1, <4>2 DEF HandlerOK, TypeOK, DiskTypeOK,
           RestorePoint, RollbackPoint
    <3>4. CASE q # p
      BY <1>2, <3>1, <3>2, <3>4 DEF TypeOK, ControlTypeOK, HandlerOK
    <3> QED
      BY <3>3, <3>4
  <2> QED
    BY <2>1, <2>4, <2>5 DEF TypeOK
<1> QED
  BY <1>1, <1>2 DEF LoadInputs

LEMMA TypeWriteSnapshot ==
    ASSUME TypeOK, NEW p \in Proc, NEW from \in {"snapshot", "dSnapshot"},
           NEW to \in {"flush", "dMainRoutes", "dDNS"}, WriteSnapshot(p, from, to)
    PROVE  TypeOK'
<1>1. CASE SaveError(p, from)
  BY <1>1, TypeError DEF SaveError
<1>2. ASSUME pc[p] = from, Continue(p, to),
             AddSnapshot(frame[p].cfg, frame[p].prev, frame[p].data),
             UNCHANGED <<configFile, dataFile, stateFile, kernel>>
      PROVE  TypeOK'
  <2> DEFINE new == [cfg |-> frame[p].cfg, state |-> frame[p].prev,
                     data |-> frame[p].data]
  <2>1. new \in Snapshot
    BY <1>2 DEF TypeOK, HandlerOK, ControlTypeOK, Frame, Snapshot, LoadedPoint,
       ApplyPoint, DisablePoint
  <2>2. snapshots' = Append(snapshots, new)
    BY <1>2 DEF AddSnapshot
  <2>3. /\ snapshots \in Seq(Snapshot)
        /\ snapshots' \in Seq(Snapshot)
        /\ Len(snapshots') = Len(snapshots) + 1
    BY <2>1, <2>2 DEF TypeOK, DiskTypeOK
  <2>4. DiskTypeOK' /\ KernelTypeOK'
    BY <1>2, <2>3 DEF TypeOK, DiskTypeOK, KernelTypeOK
  <2>5. Len(snapshots') >= Len(snapshots)
    BY <2>3
  <2> QED
    BY <1>2, <2>4, <2>5, TypeGoesOn DEF Point, LoadedPoint, RestorePoint,
       ApplyPoint, DisablePoint, RollbackPoint
<1> QED
  BY <1>1, <1>2 DEF WriteSnapshot

\* A step that writes only kernel state and stays inside its handler.
LEMMA TypeKernelStep ==
    ASSUME TypeOK, NEW p \in Proc, UNCHANGED disk, KernelTypeOK',
           pc[p] \in LoadedPoint, NEW to \in LoadedPoint, Continue(p, to),
           to \in RedoPoint => Restorable(frame[p].prev)
    PROVE  TypeOK'
<1>1. DiskTypeOK' /\ Len(snapshots') >= Len(snapshots)
  BY DEF TypeOK, DiskTypeOK
<1>2. /\ to \in Point
      /\ to \notin RestorePoint
      /\ pc[p] # "rollback" /\ to # "rollback"
  BY DEF Point, LoadedPoint, RestorePoint, ApplyPoint, UndoPoint, DisablePoint,
     RollbackPoint
<1> QED
  BY <1>1, <1>2, TypeGoesOn

LEMMA TypeKernelEnd ==
    ASSUME TypeOK, NEW p \in Proc, UNCHANGED disk, KernelTypeOK',
           NEW out \in Outcome, Finish(p, out)
    PROVE  TypeOK'
  BY TypeEnds DEF TypeOK, DiskTypeOK

LEMMA TypePersistConfig ==
    ASSUME TypeOK, NEW p \in Proc, PersistConfig(p)
    PROVE  TypeOK'
<1>1. CASE SaveError(p, "persist")
  BY <1>1, TypeError DEF SaveError
<1>2. CASE /\ pc[p] = "persist"
           /\ configFile' = frame[p].cfg
           /\ Continue(p, "check")
           /\ UNCHANGED <<dataFile, stateFile, snapshots, kernel>>
  <2>1. frame[p].cfg \in Config
    BY <1>2 DEF TypeOK, HandlerOK, LoadedPoint, ApplyPoint
  <2>2. DiskTypeOK' /\ KernelTypeOK' /\ Len(snapshots') >= Len(snapshots)
    BY <1>2, <2>1 DEF TypeOK, DiskTypeOK, KernelTypeOK
  <2> QED
    BY <1>2, <2>2, TypeGoesOn DEF Point, LoadedPoint, RestorePoint, ApplyPoint,
       RollbackPoint
<1> QED
  BY <1>1, <1>2 DEF PersistConfig

LEMMA TypeCheckHost ==
    ASSUME TypeOK, NEW p \in Proc, CheckHost(p)
    PROVE  TypeOK'
<1>1. CASE ReadError(p, "check")
  BY <1>1, TypeError DEF ReadError
<1>2. CASE /\ pc[p] = "check"
           /\ Continue(p, "snapshot")
           /\ UNCHANGED <<disk, kernel>>
  BY <1>2, TypeKernelStep DEF TypeOK, KernelTypeOK, LoadedPoint, ApplyPoint
<1>3. CASE Finish(p, "error") /\ UNCHANGED <<disk, kernel>>
  BY <1>3, TypeError
<1> QED
  BY <1>1, <1>2, <1>3 DEF CheckHost

\* A step that writes one route table keeps the kernel's types.
LEMMA KernelTypeTable ==
    ASSUME KernelTypeOK, UNCHANGED <<rules, dns>>,
           table' \in [TableName -> Contents]
    PROVE  KernelTypeOK'
  BY DEF KernelTypeOK

LEMMA KernelTypeRules ==
    ASSUME KernelTypeOK, UNCHANGED <<table, dns>>,
           rules' \in [RuleName -> Seq(Lookup)]
    PROVE  KernelTypeOK'
  BY DEF KernelTypeOK

LEMMA TypeFlushTarget ==
    ASSUME TypeOK, NEW p \in Proc, FlushTarget(p)
    PROVE  TypeOK'
<1> DEFINE t == Target(frame[p].prev)
<1>1. t \in TableName
  BY TargetType DEF TableName
<1>2. table \in [TableName -> Contents] /\ KernelTypeOK
  BY DEF TypeOK, KernelTypeOK
<1>3. CASE SetTable(t, Empty) /\ Continue(p, "load")
  <2>1. KernelTypeOK'
    BY <1>1, <1>2, <1>3, SetTableType, ContentsMembers, KernelTypeTable
       DEF FlushTarget
  <2> QED
    BY <1>3, <2>1, TypeKernelStep DEF FlushTarget, LoadedPoint, ApplyPoint
<1>4. CASE FlushFails(t) /\ Finish(p, "error")
  <2>1. KernelTypeOK'
    BY <1>1, <1>2, <1>4, FlushFailsType, KernelTypeTable DEF FlushTarget
  <2> QED
    BY <1>4, <2>1, TypeKernelEnd DEF FlushTarget, Outcome
<1> QED
  BY <1>3, <1>4 DEF FlushTarget

LEMMA TypeLoadTarget ==
    ASSUME TypeOK, NEW p \in Proc, LoadTarget(p)
    PROVE  TypeOK'
<1> DEFINE t == Target(frame[p].prev)
<1>1. t \in TableName
  BY TargetType DEF TableName
<1>2. table \in [TableName -> Contents] /\ KernelTypeOK
  BY DEF TypeOK, KernelTypeOK
<1>3. Whole(frame[p].cfg, frame[p].data) \in Contents
  <2>1. frame[p].cfg \in Config /\ frame[p].data \in Data
    BY DEF LoadTarget, TypeOK, HandlerOK, LoadedPoint, ApplyPoint
  <2> QED
    BY <2>1, ContentsMembers
<1>4. CASE SetTable(t, Whole(frame[p].cfg, frame[p].data)) /\ Continue(p, "local")
  <2>1. KernelTypeOK'
    BY <1>1, <1>2, <1>3, <1>4, SetTableType, KernelTypeTable DEF LoadTarget
  <2> QED
    BY <1>4, <2>1, TypeKernelStep DEF LoadTarget, LoadedPoint, ApplyPoint
<1>5. CASE SetTable(t, Torn) /\ Finish(p, "error")
  <2>1. KernelTypeOK'
    BY <1>1, <1>2, <1>5, SetTableType, ContentsMembers, KernelTypeTable
       DEF LoadTarget
  <2> QED
    BY <1>5, <2>1, TypeKernelEnd DEF LoadTarget, Outcome
<1> QED
  BY <1>4, <1>5 DEF LoadTarget

LEMMA TypeLoadLocal ==
    ASSUME TypeOK, NEW p \in Proc, LoadLocal(p)
    PROVE  TypeOK'
<1>1. "Local" \in TableName
  BY DEF TableName
<1>2. table \in [TableName -> Contents] /\ KernelTypeOK
  BY DEF TypeOK, KernelTypeOK
<1>3. table' \in [TableName -> Contents]
  BY <1>1, <1>2, SetTableType, ContentsMembers DEF LoadLocal
<1>4. KernelTypeOK'
  BY <1>2, <1>3, KernelTypeTable DEF LoadLocal
<1>5. CASE Continue(p, "mainRoutes")
  BY <1>4, <1>5, TypeKernelStep DEF LoadLocal, LoadedPoint, ApplyPoint
<1>6. CASE Finish(p, "error")
  BY <1>4, <1>6, TypeKernelEnd DEF LoadLocal, Outcome
<1> QED
  BY <1>5, <1>6 DEF LoadLocal

LEMMA TypeEnsureRule ==
    ASSUME TypeOK, NEW p \in Proc,
           NEW from \in {"mainRoutes", "source"}, NEW to \in {"source", "unset"},
           NEW r \in RuleName, NEW t \in Lookup, EnsureRule(p, from, r, t, to)
    PROVE  TypeOK'
<1>1. rules \in [RuleName -> Seq(Lookup)] /\ KernelTypeOK
  BY DEF TypeOK, KernelTypeOK
<1>2. rules' \in [RuleName -> Seq(Lookup)]
  BY <1>1, AddRuleType DEF EnsureRule
<1>3. KernelTypeOK'
  BY <1>1, <1>2, KernelTypeRules DEF EnsureRule
<1>4. Continue(p, to) \/ Continue(p, "undoMainRoutes")
  BY DEF EnsureRule
<1> QED
  BY <1>3, <1>4, TypeKernelStep DEF EnsureRule, LoadedPoint, ApplyPoint, UndoPoint

\* A step that deletes the rules of one priority.
LEMMA KernelTypeDelete ==
    ASSUME KernelTypeOK, NEW r \in RuleName, DeletePriority(r),
           UNCHANGED <<table, dns>>
    PROVE  KernelTypeOK'
  BY DeletePriorityType, KernelTypeRules DEF KernelTypeOK

LEMMA TypeUnsetMain ==
    ASSUME TypeOK, NEW p \in Proc, UnsetMain(p)
    PROVE  TypeOK'
<1>1. KernelTypeOK'
  BY KernelTypeDelete DEF TypeOK, UnsetMain, RuleName
<1> QED
  BY <1>1, TypeKernelStep DEF UnsetMain, LoadedPoint, ApplyPoint

LEMMA TypeSetMain ==
    ASSUME TypeOK, NEW p \in Proc, SetMain(p)
    PROVE  TypeOK'
<1>1. rules \in [RuleName -> Seq(Lookup)] /\ KernelTypeOK
  BY DEF TypeOK, KernelTypeOK
<1>2. Target(frame[p].prev) \in Lookup
  BY TargetType DEF Lookup, TableName
<1>3. rules' \in [RuleName -> Seq(Lookup)]
  BY <1>1, <1>2, AddRuleType DEF SetMain, RuleName
<1>4. KernelTypeOK'
  BY <1>1, <1>3, KernelTypeRules DEF SetMain
<1> QED
  BY <1>4, TypeKernelStep DEF SetMain, LoadedPoint, ApplyPoint, UndoPoint

LEMMA KernelTypeDNS ==
    ASSUME KernelTypeOK, UNCHANGED <<rules, table>>,
           dns' \in {dns, "system", "partial"} \cup Config
    PROVE  KernelTypeOK'
  BY DEF KernelTypeOK

LEMMA TypeConfigureDNS ==
    ASSUME TypeOK, NEW p \in Proc, ConfigureDNS(p)
    PROVE  TypeOK'
<1>1. frame[p].cfg \in Config
  BY DEF ConfigureDNS, TypeOK, HandlerOK, LoadedPoint, ApplyPoint
<1>2. dns' \in {dns, "system", "partial"} \cup Config
  BY <1>1 DEF ConfigureDNS, RevertOK, RevertFails
<1>3. KernelTypeOK'
  BY <1>2, KernelTypeDNS DEF TypeOK, ConfigureDNS
<1>4. \E to \in {"record", "undoMainRoutes", "undoDNS"} : Continue(p, to)
  BY DEF ConfigureDNS
<1> QED
  BY <1>3, <1>4, TypeKernelStep DEF ConfigureDNS, LoadedPoint, ApplyPoint, UndoPoint

\* A step that only saves the state file.
LEMMA DiskTypeState ==
    ASSUME TypeOK, stateFile' \in State,
           UNCHANGED <<configFile, dataFile, snapshots, kernel>>
    PROVE  DiskTypeOK' /\ KernelTypeOK' /\ Len(snapshots') >= Len(snapshots)
  BY DEF TypeOK, DiskTypeOK, KernelTypeOK

LEMMA TypeRecordApply ==
    ASSUME TypeOK, NEW p \in Proc, RecordApply(p)
    PROVE  TypeOK'
<1>1. Applied(frame[p]) \in State
  <2>1. frame[p].prev \in State /\ frame[p].data \in Data
    BY DEF RecordApply, TypeOK, HandlerOK, ControlTypeOK, Frame, LoadedPoint,
       ApplyPoint
  <2>2. Target(frame[p].prev) \in Slot /\ (frame[p].cfg \in Managed) \in BOOLEAN
    BY TargetType
  <2> QED
    BY <2>1, <2>2 DEF Applied, State
<1>2. stateFile' \in State
  BY <1>1 DEF RecordApply, TypeOK, DiskTypeOK
<1>3. DiskTypeOK' /\ KernelTypeOK' /\ Len(snapshots') >= Len(snapshots)
  BY <1>2, DiskTypeState DEF RecordApply
<1>4. CASE Finish(p, "ok")
  BY <1>3, <1>4, TypeEnds DEF RecordApply, Outcome
<1>5. ASSUME NEW to \in {"undoMainRoutes", "undoDNS"}, Continue(p, to)
      PROVE  TypeOK'
  BY <1>3, <1>5, TypeGoesOn DEF RecordApply, Point, LoadedPoint, RestorePoint,
     ApplyPoint, UndoPoint, RollbackPoint
<1> QED
  BY <1>4, <1>5 DEF RecordApply

LEMMA TypeApplyStep ==
    ASSUME TypeOK, NEW p \in Proc, ApplyStep(p)
    PROVE  TypeOK'
<1>1. CASE LoadInputs(p, "apply", "persist")
  BY <1>1, TypeLoadInputs
<1>2. CASE WriteSnapshot(p, "snapshot", "flush")
  BY <1>2, TypeWriteSnapshot
<1>3. CASE \/ EnsureRule(p, "mainRoutes", "mainRoutes", "main", "source")
           \/ EnsureRule(p, "source", "source", "Local", "unset")
  BY <1>3, TypeEnsureRule DEF RuleName, Lookup, TableName
<1> QED
  BY <1>1, <1>2, <1>3, TypePersistConfig, TypeCheckHost, TypeFlushTarget,
     TypeLoadTarget, TypeLoadLocal, TypeUnsetMain, TypeSetMain, TypeConfigureDNS,
     TypeRecordApply DEF ApplyStep

LEMMA TypeClearRule ==
    ASSUME TypeOK, NEW p \in Proc, NEW from \in LoadedPoint,
           NEW to \in LoadedPoint \ RedoPoint,
           NEW r \in RuleName, ClearRule(p, from, r, to)
    PROVE  TypeOK'
<1>1. KernelTypeOK'
  BY KernelTypeDelete DEF TypeOK, ClearRule
<1> QED
  BY <1>1, TypeKernelStep DEF ClearRule

\* What restoreRules adds is a rule that there can be, since it is reached
\* only with a recorded slot.
LEMMA ExpectedType ==
    ASSUME NEW r \in RuleName, NEW prev \in State,
           r = "main" => prev.active # "none"
    PROVE  Expected(r, prev) \in Lookup
  BY DEF Expected, Lookup, TableName, Slot, RuleName, State

LEMMA TypeUndoMain ==
    ASSUME TypeOK, NEW p \in Proc, UndoMain(p)
    PROVE  TypeOK'
<1>1. KernelTypeOK'
  BY KernelTypeDelete DEF TypeOK, UndoMain, RuleName
<1>2. CASE Restorable(frame[p].prev) /\ Continue(p, "redoMainRoutes")
  BY <1>1, <1>2, TypeKernelStep DEF UndoMain, LoadedPoint, UndoPoint
<1>3. CASE Finish(p, "error")
  BY <1>1, <1>3, TypeKernelEnd DEF UndoMain, Outcome
<1> QED
  BY <1>2, <1>3 DEF UndoMain

LEMMA TryAddRuleType ==
    ASSUME KernelTypeOK, NEW r \in RuleName, NEW t \in Lookup, TryAddRule(r, t),
           UNCHANGED <<table, dns>>
    PROVE  KernelTypeOK'
  BY AddRuleType, KernelTypeRules DEF KernelTypeOK, TryAddRule

\* What is put back at a redo point is a rule there can be.
LEMMA RedoType ==
    ASSUME TypeOK, NEW p \in Proc, pc[p] \in RedoPoint, NEW r \in RuleName
    PROVE  Expected(r, frame[p].prev) \in Lookup
<1>1. frame[p].prev \in State
  BY DEF TypeOK, ControlTypeOK, Frame
<1>2. frame[p].prev.active # "none"
  BY DEF TypeOK, HandlerOK, Restorable
<1> QED
  BY <1>1, <1>2, ExpectedType

LEMMA TypeUndoStep ==
    ASSUME TypeOK, NEW p \in Proc, UndoStep(p)
    PROVE  TypeOK'
<1>1. CASE UndoDNS(p)
  <2>1. KernelTypeOK'
    BY <1>1, KernelTypeDNS DEF TypeOK, UndoDNS, RevertOK, RevertFails
  <2> QED
    BY <1>1, <2>1, TypeKernelStep DEF UndoDNS, LoadedPoint, UndoPoint
<1>2. CASE \/ ClearRule(p, "undoMainRoutes", "mainRoutes", "undoSource")
           \/ ClearRule(p, "undoSource", "source", "undoMain")
  BY <1>2, TypeClearRule DEF RuleName, LoadedPoint, UndoPoint
<1>3. CASE UndoMain(p)
  BY <1>3, TypeUndoMain
<1>4. ASSUME NEW from \in {"redoMainRoutes", "redoSource"},
             NEW to \in {"redoSource", "redoMain"},
             NEW r \in RuleName, RestoreRule(p, from, r, to)
      PROVE  TypeOK'
  <2>1. KernelTypeOK'
    BY <1>4, RedoType, TryAddRuleType DEF RestoreRule, TypeOK
  <2>2. Restorable(frame[p].prev)
    BY <1>4 DEF RestoreRule, TypeOK, HandlerOK
  <2> QED
    BY <1>4, <2>1, <2>2, TypeKernelStep DEF RestoreRule, LoadedPoint, UndoPoint
<1>5. CASE RestoreMain(p)
  <2>1. KernelTypeOK'
    BY <1>5, RedoType, TryAddRuleType DEF RestoreMain, TypeOK, RuleName
  <2> QED
    BY <1>5, <2>1, TypeKernelEnd DEF RestoreMain, Outcome
<1> QED
  BY <1>1, <1>2, <1>3, <1>4, <1>5 DEF UndoStep, RuleName

\* A step of disable that notes a problem in its frame and goes on.
LEMMA TypeNoteProblem ==
    ASSUME TypeOK, NEW p \in Proc, NEW kept \in BOOLEAN,
           UNCHANGED disk, KernelTypeOK', pc[p] \in LoadedPoint,
           NEW to \in LoadedPoint \ RedoPoint,
           Carry(p, to, [frame[p] EXCEPT !.dnsKept = kept, !.problems = TRUE])
    PROVE  TypeOK'
<1> DEFINE f == [frame[p] EXCEPT !.dnsKept = kept, !.problems = TRUE]
<1>1. f \in Frame
  BY DEF TypeOK, ControlTypeOK, Frame
<1>2. ControlTypeOK'
  BY <1>1, CarryType DEF TypeOK, Point, LoadedPoint
<1>3. ASSUME NEW q \in Proc PROVE HandlerOK(q)'
  <2>1. HandlerOK(p) /\ HandlerOK(q)
    BY DEF TypeOK
  <2>2. pc' = [pc EXCEPT ![p] = to] /\ frame' = [frame EXCEPT ![p] = f]
    BY DEF Carry
  <2>3. CASE q = p
    <3>1. pc'[q] = to /\ frame'[q] = f
      BY <2>2, <2>3 DEF TypeOK, ControlTypeOK
    <3>2. /\ f.cfg = frame[p].cfg
          /\ f.data = frame[p].data
          /\ f.op = frame[p].op
          /\ f.snap = frame[p].snap
      BY DEF TypeOK, ControlTypeOK, Frame
    <3>3. pc[p] # "rollback" /\ to # "rollback" /\ to \notin RestorePoint
      BY DEF LoadedPoint, ApplyPoint, UndoPoint, DisablePoint, RollbackPoint,
         RestorePoint
    <3> QED
      BY <2>1, <2>3, <3>1, <3>2, <3>3 DEF HandlerOK
  <2>4. CASE q # p
    BY <2>1, <2>2, <2>4 DEF TypeOK, ControlTypeOK, HandlerOK
  <2> QED
    BY <2>3, <2>4
<1> QED
  BY <1>2, <1>3 DEF TypeOK, DiskTypeOK

LEMMA TypeDisableDNS ==
    ASSUME TypeOK, NEW p \in Proc, DisableDNS(p)
    PROVE  TypeOK'
<1>1. KernelTypeOK'
  BY KernelTypeDNS DEF TypeOK, DisableDNS, RevertOK, RevertFails
<1>2. CASE Continue(p, "dFlushLocal")
  BY <1>1, <1>2, TypeKernelStep DEF DisableDNS, LoadedPoint, DisablePoint
<1>3. CASE Carry(p, "dFlushLocal", [frame[p] EXCEPT !.dnsKept = TRUE,
                                                    !.problems = TRUE])
  BY <1>1, <1>3, TypeNoteProblem DEF DisableDNS, LoadedPoint, DisablePoint
<1> QED
  BY <1>2, <1>3 DEF DisableDNS

LEMMA TypeDisableFlush ==
    ASSUME TypeOK, NEW p \in Proc,
           NEW from \in {"dFlushLocal", "dFlushA", "dFlushB"},
           NEW to \in {"dFlushA", "dFlushB", "dRecord"},
           NEW t \in TableName, DisableFlush(p, from, t, to)
    PROVE  TypeOK'
<1>1. KernelTypeOK'
  BY SetTableType, FlushFailsType, ContentsMembers, KernelTypeTable
     DEF TypeOK, KernelTypeOK, DisableFlush
<1>2. CASE Continue(p, to)
  BY <1>1, <1>2, TypeKernelStep DEF DisableFlush, LoadedPoint, DisablePoint
<1>3. CASE Carry(p, to, [frame[p] EXCEPT !.problems = TRUE])
  <2>1. frame[p] \in Frame /\ frame[p].dnsKept \in BOOLEAN
    BY DEF TypeOK, ControlTypeOK, Frame
  <2>2. [frame[p] EXCEPT !.problems = TRUE]
            = [frame[p] EXCEPT !.dnsKept = frame[p].dnsKept, !.problems = TRUE]
    BY <2>1 DEF Frame
  <2> QED
    BY <1>1, <1>3, <2>1, <2>2, TypeNoteProblem
       DEF DisableFlush, LoadedPoint, DisablePoint
<1> QED
  BY <1>2, <1>3 DEF DisableFlush

LEMMA TypeRecordDisable ==
    ASSUME TypeOK, NEW p \in Proc, RecordDisable(p)
    PROVE  TypeOK'
<1>1. CASE SaveError(p, "dRecord")
  BY <1>1, TypeError DEF SaveError
<1>2. CASE ~SaveError(p, "dRecord")
  <2>1. frame[p].prev \in State /\ frame[p].dnsKept \in BOOLEAN
    BY DEF TypeOK, ControlTypeOK, Frame
  <2>2. stateFile' \in State
    BY <1>2, <2>1 DEF RecordDisable, Disabled, State
  <2>3. DiskTypeOK' /\ KernelTypeOK' /\ Len(snapshots') >= Len(snapshots)
    BY <1>2, <2>2, DiskTypeState DEF RecordDisable
  <2>4. \/ frame[p].op = "rollback" /\ Continue(p, "rConfig")
        \/ Finish(p, "ok")
        \/ Finish(p, "error")
    BY <1>2 DEF RecordDisable
  <2>5. CASE frame[p].op = "rollback" /\ Continue(p, "rConfig")
    <3>1. pc[p] = "dRecord"
      BY <1>2 DEF RecordDisable
    <3> QED
      BY <2>3, <2>5, <3>1, TypeGoesOn DEF Point, LoadedPoint, RestorePoint,
         ApplyPoint, UndoPoint, DisablePoint, RollbackPoint
  <2>6. CASE Finish(p, "ok") \/ Finish(p, "error")
    BY <1>2, <2>3, <2>6, TypeEnds DEF RecordDisable, Outcome
  <2> QED
    BY <2>4, <2>5, <2>6
<1> QED
  BY <1>1, <1>2

LEMMA TypeDisableStep ==
    ASSUME TypeOK, NEW p \in Proc, DisableStep(p)
    PROVE  TypeOK'
<1>1. CASE LoadInputs(p, "disable", "dSnapshot")
  BY <1>1, TypeLoadInputs
<1>2. CASE DisableSnapshot(p)
  BY <1>2, TypeWriteSnapshot DEF DisableSnapshot
<1>3. CASE \/ ClearRule(p, "dMainRoutes", "mainRoutes", "dSource")
           \/ ClearRule(p, "dSource", "source", "dMain")
           \/ ClearRule(p, "dMain", "main", "dDNS")
  BY <1>3, TypeClearRule DEF RuleName, LoadedPoint, DisablePoint
<1>4. CASE \/ DisableFlush(p, "dFlushLocal", "Local", "dFlushA")
           \/ DisableFlush(p, "dFlushA", "A", "dFlushB")
           \/ DisableFlush(p, "dFlushB", "B", "dRecord")
  BY <1>4, TypeDisableFlush DEF TableName, Slot
<1> QED
  BY <1>1, <1>2, <1>3, <1>4, TypeDisableDNS, TypeRecordDisable DEF DisableStep

LEMMA TypeLoadSnapshot ==
    ASSUME TypeOK, NEW p \in Proc, LoadSnapshot(p)
    PROVE  TypeOK'
<1>1. CASE ReadError(p, "rollback") \/ (Finish(p, "error") /\ UNCHANGED <<disk, kernel>>)
  BY <1>1, TypeError DEF ReadError
<1> DEFINE to == IF stateFile.enabled THEN "disable" ELSE "rConfig"
           f == [frame[p] EXCEPT !.snap = Chosen(@)]
<1>2. CASE /\ pc[p] = "rollback"
           /\ snapshots # <<>>
           /\ Carry(p, to, f)
           /\ UNCHANGED <<disk, kernel>>
  <2>1. Len(snapshots) \in Nat \ {0}
    BY <1>2 DEF TypeOK, DiskTypeOK
  <2>2. frame[p] \in Frame /\ frame[p].snap \in 0..Len(snapshots)
    BY <1>2 DEF TypeOK, ControlTypeOK, HandlerOK
  <2>3. f \in Frame /\ f.snap \in 1..Len(snapshots) /\ f.op = frame[p].op
    BY <2>1, <2>2 DEF Chosen, Frame
  <2>4. to \in Point /\ to \notin LoadedPoint /\ to # "rollback"
    BY DEF Point, LoadedPoint, ApplyPoint, UndoPoint, DisablePoint, RollbackPoint
  <2>5. DiskTypeOK' /\ KernelTypeOK'
    BY <1>2 DEF TypeOK, DiskTypeOK, KernelTypeOK
  <2>6. ControlTypeOK'
    BY <1>2, <2>3, <2>4, CarryType DEF TypeOK
  <2>7. ASSUME NEW q \in Proc PROVE HandlerOK(q)'
    <3>1. HandlerOK(p) /\ HandlerOK(q)
      BY DEF TypeOK
    <3>2. pc' = [pc EXCEPT ![p] = to] /\ frame' = [frame EXCEPT ![p] = f]
      BY <1>2 DEF Carry
    <3>3. CASE q = p
      <4>1. pc'[q] = to /\ frame'[q] = f
        BY <3>2, <3>3 DEF TypeOK, ControlTypeOK
      <4>2. frame[p].op = "rollback"
        BY <1>2, <3>1 DEF HandlerOK
      <4> QED
        BY <1>2, <2>3, <2>4, <4>1, <4>2 DEF HandlerOK, LoadedPoint, UndoPoint
    <3>4. CASE q # p
      BY <1>2, <3>1, <3>2, <3>4 DEF TypeOK, ControlTypeOK, HandlerOK
    <3> QED
      BY <3>3, <3>4
  <2> QED
    BY <2>5, <2>6, <2>7 DEF TypeOK
<1> QED
  BY <1>1, <1>2 DEF LoadSnapshot

\* The snapshot a rollback restores from has the types of what it restores.
LEMMA ChosenSnapshot ==
    ASSUME TypeOK, NEW p \in Proc, pc[p] \in RestorePoint
    PROVE  /\ frame[p].op = "rollback"
           /\ snapshots[frame[p].snap] \in Snapshot
<1>1. frame[p].snap \in 1..Len(snapshots) /\ frame[p].op = "rollback"
  BY DEF TypeOK, HandlerOK, RestorePoint
<1> QED
  BY <1>1, ElementOfSeq DEF TypeOK, DiskTypeOK

LEMMA TypeRollbackStep ==
    ASSUME TypeOK, NEW p \in Proc, RollbackStep(p)
    PROVE  TypeOK'
<1> DEFINE s == snapshots[frame[p].snap]
<1>1. CASE LoadSnapshot(p)
  BY <1>1, TypeLoadSnapshot
<1>2. CASE SaveError(p, "rConfig") \/ SaveError(p, "rData") \/ SaveError(p, "rState")
  BY <1>2, TypeError DEF SaveError
<1>3. CASE RestoreConfig(p) /\ ~SaveError(p, "rConfig")
  <2>1. s \in Snapshot /\ frame[p].op = "rollback"
    BY <1>3, ChosenSnapshot DEF RestoreConfig, RestorePoint, RollbackPoint
  <2>2. DiskTypeOK' /\ KernelTypeOK' /\ Len(snapshots') >= Len(snapshots)
    BY <1>3, <2>1 DEF RestoreConfig, TypeOK, DiskTypeOK, KernelTypeOK, Snapshot
  <2> QED
    BY <1>3, <2>1, <2>2, TypeGoesOn DEF RestoreConfig, Point, LoadedPoint,
       ApplyPoint, UndoPoint, DisablePoint, RollbackPoint
<1>4. CASE RestoreData(p) /\ ~SaveError(p, "rData")
  <2>1. s \in Snapshot /\ frame[p].op = "rollback"
    BY <1>4, ChosenSnapshot DEF RestoreData, RestorePoint, RollbackPoint
  <2>2. DiskTypeOK' /\ KernelTypeOK' /\ Len(snapshots') >= Len(snapshots)
    BY <1>4, <2>1 DEF RestoreData, TypeOK, DiskTypeOK, KernelTypeOK, Snapshot
  <2> QED
    BY <1>4, <2>1, <2>2, TypeGoesOn DEF RestoreData, Point, LoadedPoint,
       ApplyPoint, UndoPoint, DisablePoint, RollbackPoint
<1>5. CASE RestoreState(p) /\ ~SaveError(p, "rState")
  <2>1. s \in Snapshot /\ frame[p].op = "rollback" /\ pc[p] = "rState"
    BY <1>5, ChosenSnapshot DEF RestoreState, RestorePoint, RollbackPoint
  <2>2. Restored(s.state) \in State
    BY <2>1 DEF Restored, Snapshot, State
  <2>3. /\ stateFile' = Restored(s.state)
        /\ UNCHANGED <<configFile, dataFile, snapshots, kernel>>
        /\ Continue(p, "apply") \/ Finish(p, "ok")
    BY <1>5 DEF RestoreState
  <2>4. DiskTypeOK' /\ KernelTypeOK' /\ Len(snapshots') >= Len(snapshots)
    BY <2>2, <2>3, DiskTypeState
  <2>5. CASE Continue(p, "apply")
    BY <2>1, <2>4, <2>5, TypeGoesOn DEF Point, LoadedPoint, RestorePoint,
       ApplyPoint, UndoPoint, DisablePoint, RollbackPoint
  <2>6. CASE Finish(p, "ok")
    BY <2>3, <2>4, <2>6, TypeEnds DEF Outcome
  <2> QED
    BY <2>3, <2>5, <2>6
<1> QED
  BY <1>1, <1>2, <1>3, <1>4, <1>5 DEF RollbackStep

LEMMA TypeEngineStep ==
    ASSUME TypeOK, NEW p \in Proc, EngineStep(p)
    PROVE  TypeOK'
  BY TypeApplyStep, TypeUndoStep, TypeDisableStep, TypeRollbackStep DEF EngineStep

LEMMA TypeCrash ==
    ASSUME TypeOK, NEW p \in Proc, Crash(p)
    PROVE  TypeOK'
<1>1. \A t \in Writing(p) : t \in TableName
  BY TargetType DEF Writing, TableName, Slot
<1>2. table' \in [TableName -> Contents]
  BY <1>1, SetTableType, ContentsMembers DEF Crash, TypeOK, KernelTypeOK
<1>3. rules' \in [RuleName -> Seq(Lookup)]
  <2>1. CASE UNCHANGED rules
    BY <2>1 DEF TypeOK, KernelTypeOK
  <2>2. ASSUME NEW r \in Deleting(p), NEW k \in 2..Len(rules[r]),
               rules' = [rules EXCEPT ![r] = SubSeq(@, k, Len(@))]
        PROVE  rules' \in [RuleName -> Seq(Lookup)]
    <3>1. r \in RuleName
      BY DEF Deleting, RuleName
    <3>2. rules[r] \in Seq(Lookup) /\ k \in 1..Len(rules[r])
      BY <3>1 DEF TypeOK, KernelTypeOK
    <3>3. SubSeq(rules[r], k, Len(rules[r])) \in Seq(Lookup)
      BY <3>2, SubSeqProperties, ElementOfSeq
    <3> QED
      BY <2>2, <3>1, <3>3 DEF TypeOK, KernelTypeOK
  <2> QED
    BY <2>1, <2>2 DEF Crash
<1>4. KernelTypeOK'
  BY <1>2, <1>3 DEF Crash, TypeOK, KernelTypeOK
<1> QED
  BY <1>4, TypeKernelEnd DEF Crash, Outcome

LEMMA TypeIntrude ==
    ASSUME TypeOK, Intrude
    PROVE  TypeOK'
<1>1. rules' \in [RuleName -> Seq(Lookup)]
  BY AddRuleType DEF Intrude, Lookup, TypeOK, KernelTypeOK
<1>2. table' \in [TableName -> Contents]
  BY SetTableType, ContentsMembers DEF Intrude, TypeOK, KernelTypeOK
<1> QED
  BY <1>1, <1>2 DEF Intrude, TypeOK, DiskTypeOK, KernelTypeOK, ControlTypeOK,
     HandlerOK

LEMMA TypeReboot ==
    ASSUME TypeOK, Reboot
    PROVE  TypeOK'
<1>1. DiskTypeOK'
  BY DEF TypeOK, DiskTypeOK, Reboot
<1>2. KernelTypeOK'
  <2>1. <<>> \in Seq(Lookup) /\ <<"foreign">> \in Seq(Lookup)
    BY DEF Lookup
  <2>2. rules' \in [RuleName -> Seq(Lookup)]
    BY <2>1 DEF Reboot
  <2>3. table' \in [TableName -> Contents]
    BY ContentsMembers DEF Reboot
  <2> QED
    BY <2>2, <2>3 DEF Reboot, KernelTypeOK
<1>3. ControlTypeOK'
  BY NoFrameType DEF TypeOK, ControlTypeOK, Reboot, Point, Outcome
<1>4. \A q \in Proc : HandlerOK(q)'
  BY DEF Reboot, HandlerOK, NoFrame, LoadedPoint, RestorePoint, ApplyPoint,
     UndoPoint, DisablePoint, RollbackPoint
<1> QED
  BY <1>1, <1>2, <1>3, <1>4 DEF TypeOK

LEMMA TypeNext == TypeOK /\ [Next]_vars => TypeOK'
<1> SUFFICES ASSUME TypeOK, [Next]_vars PROVE TypeOK'
  OBVIOUS
<1>1. ASSUME NEW p \in Proc, Start(p) \/ Reject(p) \/ EngineStep(p) \/ Crash(p)
      PROVE  TypeOK'
  BY <1>1, TypeStart, TypeReject, TypeEngineStep, TypeCrash
<1>2. ASSUME NEW c \in Config, SaveConfig(c)
      PROVE  TypeOK'
  BY <1>2 DEF SaveConfig, TypeOK, DiskTypeOK, KernelTypeOK, ControlTypeOK, HandlerOK
<1>3. ASSUME NEW d \in Data, ImportData(d)
      PROVE  TypeOK'
  BY <1>3 DEF ImportData, TypeOK, DiskTypeOK, KernelTypeOK, ControlTypeOK, HandlerOK
<1>4. CASE Reboot \/ Intrude
  BY <1>4, TypeReboot, TypeIntrude
<1>5. CASE Exhausted \/ UNCHANGED vars
  BY <1>5 DEF Exhausted, vars, TypeOK, DiskTypeOK, KernelTypeOK, ControlTypeOK,
     HandlerOK
<1> QED
  BY <1>1, <1>2, <1>3, <1>4, <1>5 DEF Next

\* Through every interleaving of handlers, kills, reboots and unlocked writes the
\* variables keep their types, a handler past its first step holds the inputs it
\* read, and a rollback the snapshot it chose.
THEOREM TypeCorrect == Spec => []TypeOK
<1>1. Init => TypeOK
  BY TypeInit
<1>2. TypeOK /\ [Next]_vars => TypeOK'
  BY TypeNext
<1> QED
  BY <1>1, <1>2, PTL DEF Spec

-----------------------------------------------------------------------------
(* The lock: at most one handler runs; and, as long as `ip rule del` does what *)
(* it is told, no handler, kill or reboot rebuilds a table that is being used. *)

\* However a handler's step ends, only its own control state changes.
StepEnd(p) ==
    \/ \E point \in Point \ {"idle"} : Continue(p, point)
    \/ \E point \in Point \ {"idle"}, f \in Frame : Carry(p, point, f)
    \/ \E out \in Outcome : Finish(p, out)

LEMMA NotIdle ==
    /\ "idle" \notin ApplyPoint
    /\ "idle" \notin UndoPoint
    /\ "idle" \notin DisablePoint
    /\ "idle" \notin RollbackPoint
  BY DEF ApplyPoint, UndoPoint, DisablePoint, RollbackPoint

LEMMA ApplyStepEnd ==
    ASSUME TypeOK, NEW p \in Proc, ApplyStep(p)
    PROVE  pc[p] # "idle" /\ StepEnd(p)
<1> USE DEF StepEnd, Point, ApplyPoint, UndoPoint, Outcome
<1>1. CASE LoadInputs(p, "apply", "persist")
  <2>1. [frame[p] EXCEPT !.cfg = configFile, !.prev = stateFile, !.data = dataFile]
            \in Frame
    BY DEF TypeOK, DiskTypeOK, ControlTypeOK, Frame
  <2> QED
    BY <1>1, <2>1 DEF LoadInputs, ReadError
<1>2. CASE PersistConfig(p) \/ CheckHost(p) \/ WriteSnapshot(p, "snapshot", "flush")
  BY <1>2 DEF PersistConfig, CheckHost, WriteSnapshot, ReadError, SaveError
<1>3. CASE FlushTarget(p) \/ LoadTarget(p) \/ LoadLocal(p)
  BY <1>3 DEF FlushTarget, LoadTarget, LoadLocal
<1>4. CASE \/ EnsureRule(p, "mainRoutes", "mainRoutes", "main", "source")
           \/ EnsureRule(p, "source", "source", "Local", "unset")
  BY <1>4 DEF EnsureRule
<1>5. CASE UnsetMain(p) \/ SetMain(p)
  BY <1>5 DEF UnsetMain, SetMain
<1>6. CASE ConfigureDNS(p) \/ RecordApply(p)
  BY <1>6 DEF ConfigureDNS, RecordApply
<1> QED
  BY <1>1, <1>2, <1>3, <1>4, <1>5, <1>6 DEF ApplyStep

LEMMA UndoStepEnd ==
    ASSUME TypeOK, NEW p \in Proc, UndoStep(p)
    PROVE  pc[p] # "idle" /\ StepEnd(p)
  BY DEF UndoStep, UndoDNS, ClearRule, UndoMain, RestoreRule, RestoreMain,
     StepEnd, Point, UndoPoint, Outcome

LEMMA DisableStepEnd ==
    ASSUME TypeOK, NEW p \in Proc, DisableStep(p)
    PROVE  pc[p] # "idle" /\ StepEnd(p)
<1> USE DEF StepEnd, Point, DisablePoint, RollbackPoint, Outcome
<1>1. CASE LoadInputs(p, "disable", "dSnapshot")
  <2>1. [frame[p] EXCEPT !.cfg = configFile, !.prev = stateFile, !.data = dataFile]
            \in Frame
    BY DEF TypeOK, DiskTypeOK, ControlTypeOK, Frame
  <2> QED
    BY <1>1, <2>1 DEF LoadInputs, ReadError
<1>2. CASE DisableSnapshot(p)
  BY <1>2 DEF DisableSnapshot, WriteSnapshot, SaveError
<1>3. CASE \/ ClearRule(p, "dMainRoutes", "mainRoutes", "dSource")
           \/ ClearRule(p, "dSource", "source", "dMain")
           \/ ClearRule(p, "dMain", "main", "dDNS")
  BY <1>3 DEF ClearRule
<1>4. /\ [frame[p] EXCEPT !.dnsKept = TRUE, !.problems = TRUE] \in Frame
      /\ [frame[p] EXCEPT !.problems = TRUE] \in Frame
  BY DEF TypeOK, ControlTypeOK, Frame
<1>5. CASE DisableDNS(p)
  BY <1>4, <1>5 DEF DisableDNS
<1>6. CASE \/ DisableFlush(p, "dFlushLocal", "Local", "dFlushA")
           \/ DisableFlush(p, "dFlushA", "A", "dFlushB")
           \/ DisableFlush(p, "dFlushB", "B", "dRecord")
  BY <1>4, <1>6 DEF DisableFlush
<1>7. CASE RecordDisable(p)
  BY <1>7 DEF RecordDisable, SaveError
<1> QED
  BY <1>1, <1>2, <1>3, <1>5, <1>6, <1>7 DEF DisableStep

LEMMA RollbackStepEnd ==
    ASSUME TypeOK, NEW p \in Proc, RollbackStep(p)
    PROVE  pc[p] # "idle" /\ StepEnd(p)
<1> USE DEF StepEnd, Point, ApplyPoint, DisablePoint, RollbackPoint, Outcome
<1>1. CASE LoadSnapshot(p)
  <2>1. Len(snapshots) \in Nat /\ frame[p] \in Frame
    BY DEF TypeOK, DiskTypeOK, ControlTypeOK
  <2>2. [frame[p] EXCEPT !.snap = Chosen(@)] \in Frame
    BY <2>1 DEF Chosen, Frame
  <2> QED
    BY <1>1, <2>2 DEF LoadSnapshot, ReadError
<1>2. CASE RestoreConfig(p) \/ RestoreData(p) \/ RestoreState(p)
  BY <1>2 DEF RestoreConfig, RestoreData, RestoreState, SaveError
<1> QED
  BY <1>1, <1>2 DEF RollbackStep

LEMMA EngineStepEnd ==
    ASSUME TypeOK, NEW p \in Proc, EngineStep(p)
    PROVE  pc[p] # "idle" /\ StepEnd(p)
  BY ApplyStepEnd, UndoStepEnd, DisableStepEnd, RollbackStepEnd DEF EngineStep

LEMMA OneHandlerNext == TypeOK /\ OneHandler /\ [Next]_vars => OneHandler'
<1> SUFFICES ASSUME TypeOK, OneHandler, [Next]_vars, NEW q \in Proc,
                    pc'[q] # "idle"
             PROVE  lock' = q
  BY DEF OneHandler
<1>1. pc \in [Proc -> Point] /\ (pc[q] # "idle" => lock = q)
  BY DEF TypeOK, ControlTypeOK, OneHandler
<1>2. ASSUME NEW p \in Proc, Start(p)
      PROVE  lock' = q
  BY <1>1, <1>2, ProcAssumption DEF Start, Acquire, LockFree
<1>3. ASSUME NEW p \in Proc, EngineStep(p)
      PROVE  lock' = q
  <2>1. pc[p] # "idle" /\ lock = p /\ StepEnd(p)
    BY <1>3, EngineStepEnd DEF OneHandler
  <2> QED
    BY <1>1, <2>1 DEF StepEnd, Continue, Carry, Finish
<1>4. ASSUME NEW p \in Proc, Crash(p)
      PROVE  lock' = q
  BY <1>1, <1>4 DEF Crash, Finish, OneHandler
<1>5. CASE Reboot
  <2>1. pc' = [p \in Proc |-> "idle"]
    BY <1>5 DEF Reboot
  <2> QED
    BY <2>1
<1>6. CASE UNCHANGED <<lock, pc>>
  BY <1>1, <1>6
<1>7. ASSUME NEW p \in Proc, Reject(p)
      PROVE  lock' = q
  BY <1>6, <1>7 DEF Reject
<1>8. CASE \/ \E c \in Config : SaveConfig(c)
           \/ \E d \in Data : ImportData(d)
           \/ Intrude
           \/ Exhausted
           \/ UNCHANGED vars
  BY <1>6, <1>8 DEF SaveConfig, ImportData, Intrude, Exhausted, vars
<1> QED
  BY <1>2, <1>3, <1>4, <1>5, <1>7, <1>8 DEF Next

\* No two handlers ever run at once, whatever is killed or rebooted meanwhile.
THEOREM OneHandlerCorrect == Spec => []OneHandler
<1>1. Init => OneHandler
  BY DEF Init, OneHandler
<1>2. TypeOK /\ OneHandler /\ [Next]_vars => OneHandler'
  BY OneHandlerNext
<1> QED
  BY <1>1, <1>2, TypeCorrect, PTL DEF Spec

-----------------------------------------------------------------------------
(* What the commands do to rules and tables *)

LEMMA EmptyRange == Range(<<>>) = {}
  BY DEF Range

LEMMA SubSeqRange ==
    ASSUME NEW S, NEW list \in Seq(S), NEW k \in 1..Len(list)
    PROVE  Range(SubSeq(list, k, Len(list))) \subseteq Range(list)
<1> DEFINE rest == SubSeq(list, k, Len(list))
<1>1. Len(list) \in Nat /\ k \in Nat
  OBVIOUS
<1>2. /\ DOMAIN rest = 1..(Len(list) - k + 1)
      /\ \A i \in 1..(Len(list) - k + 1) : rest[i] = list[i + k - 1]
  BY <1>1
<1>3. ASSUME NEW i \in DOMAIN rest PROVE rest[i] \in Range(list)
  <2>1. i + k - 1 \in DOMAIN list /\ rest[i] = list[i + k - 1]
    BY <1>1, <1>2, <1>3
  <2> QED
    BY <2>1 DEF Range
<1> QED
  BY <1>3 DEF Range

LEMMA RulesAreSeqs ==
    ASSUME TypeOK
    PROVE  /\ rules \in [RuleName -> Seq(Lookup)]
           /\ table \in [TableName -> Contents]
  BY DEF TypeOK, KernelTypeOK

LEMMA EmptyOrNot ==
    ASSUME NEW S, NEW list \in Seq(S)
    PROVE  list = <<>> <=> Range(list) = {}
<1>1. Len(list) \in Nat /\ DOMAIN list = 1..Len(list)
  OBVIOUS
<1>2. CASE list = <<>>
  BY <1>2, EmptyRange
<1>3. CASE list # <<>>
  <2>1. 1 \in DOMAIN list
    BY <1>1, <1>3
  <2> QED
    BY <1>3, <2>1 DEF Range
<1> QED
  BY <1>2, <1>3

\* Deleting at a priority adds nothing there and changes no other priority.
LEMMA DeleteRange ==
    ASSUME TypeOK, NEW r \in RuleName, DeletePriority(r)
    PROVE  /\ Range(rules'[r]) \subseteq Range(rules[r])
           /\ \A q \in RuleName \ {r} : rules'[q] = rules[q]
<1>1. PICK rest \in Remaining(rules[r]) : rules' = [rules EXCEPT ![r] = rest]
  BY DEF DeletePriority
<1>2. rules'[r] = rest /\ rules[r] \in Seq(Lookup)
  BY <1>1, RulesAreSeqs
<1>3. Range(rest) \subseteq Range(rules[r])
  <2>1. CASE rest = <<>>
    BY <2>1, EmptyRange
  <2>2. CASE rest # <<>>
    <3>1. PICK k \in 1..Len(rules[r]) : rest = SubSeq(rules[r], k, Len(rules[r]))
      BY <1>1, <2>2 DEF Remaining
    <3> QED
      BY <1>2, <3>1, SubSeqRange
  <2> QED
    BY <2>1, <2>2
<1> QED
  BY <1>1, <1>2, <1>3, RulesAreSeqs

\* Unless `ip rule del` fails, nothing is left.
LEMMA DeleteAll ==
    ASSUME TypeOK, "ruleDel" \notin Faults, NEW r \in RuleName, DeletePriority(r)
    PROVE  /\ rules'[r] = <<>> /\ Range(rules'[r]) = {}
           /\ \A q \in RuleName \ {r} : rules'[q] = rules[q]
  BY RulesAreSeqs, EmptyRange DEF DeletePriority, Remaining

LEMMA AddRange ==
    ASSUME TypeOK, NEW r \in RuleName, NEW t \in Lookup, AddRule(r, t)
    PROVE  /\ Range(rules'[r]) = Range(rules[r]) \cup {t}
           /\ \A q \in RuleName \ {r} : rules'[q] = rules[q]
<1>1. rules[r] \in Seq(Lookup) /\ rules'[r] = Append(rules[r], t)
  BY RulesAreSeqs DEF AddRule
<1>2. Range(Append(rules[r], t)) = Range(rules[r]) \cup {t}
  <2> DEFINE list == rules[r]
             more == Append(list, t)
  <2>1. list \in Seq(Lookup)
    BY <1>1
  <2> HIDE DEF list
  <2>2. /\ Len(list) \in Nat
        /\ DOMAIN list = 1..Len(list)
        /\ DOMAIN more = 1..(Len(list) + 1)
        /\ \A i \in 1..Len(list) : more[i] = list[i]
        /\ more[Len(list) + 1] = t
    BY <2>1
  <2> HIDE DEF more
  <2>3. Range(more) = Range(list) \cup {t}
    BY <2>2 DEF Range
  <2> QED
    BY <2>3 DEF more, list
<1> QED
  BY <1>1, <1>2, RulesAreSeqs DEF AddRule

\* However `ip rule add` ends, it adds at most its rule.
LEMMA TryAddRange ==
    ASSUME TypeOK, NEW r \in RuleName, NEW t \in Lookup, TryAddRule(r, t)
    PROVE  /\ Range(rules[r]) \subseteq Range(rules'[r])
           /\ Range(rules'[r]) \subseteq Range(rules[r]) \cup {t}
           /\ \A q \in RuleName \ {r} : rules'[q] = rules[q]
           /\ "ruleAdd" \notin Faults => t \in Range(rules'[r])
  BY AddRange DEF TryAddRule, AddRefused

LEMMA SetTableAt ==
    ASSUME TypeOK, NEW t \in TableName, NEW c, SetTable(t, c)
    PROVE  table'[t] = c /\ \A u \in TableName \ {t} : table'[u] = table[u]
  BY RulesAreSeqs DEF SetTable

\* A kill part way through deletePriority leaves some of that priority's rules.
LEMMA CrashRules ==
    ASSUME TypeOK, NEW p \in Proc, Crash(p), NEW r \in RuleName
    PROVE  /\ Range(rules'[r]) \subseteq Range(rules[r])
           /\ r \notin Deleting(p) => rules'[r] = rules[r]
<1>1. CASE UNCHANGED rules
  BY <1>1
<1>2. ASSUME NEW q \in Deleting(p), NEW k \in 2..Len(rules[q]),
             rules' = [rules EXCEPT ![q] = SubSeq(@, k, Len(@))]
      PROVE  /\ Range(rules'[r]) \subseteq Range(rules[r])
             /\ r \notin Deleting(p) => rules'[r] = rules[r]
  <2>1. q \in RuleName
    BY DEF Deleting, RuleName
  <2>2. rules[q] \in Seq(Lookup) /\ k \in 1..Len(rules[q])
    BY <2>1, RulesAreSeqs
  <2>3. Range(SubSeq(rules[q], k, Len(rules[q]))) \subseteq Range(rules[q])
    BY <2>2, SubSeqRange
  <2> QED
    BY <1>2, <2>1, <2>3, RulesAreSeqs
<1> QED
  BY <1>1, <1>2 DEF Crash

\* Another program changes nothing of irroute's.
LEMMA IntrudeAdds ==
    ASSUME TypeOK, Intrude
    PROVE  /\ UNCHANGED <<disk, dns, control>>
           /\ LockFree \/ "race" \in Faults
           /\ \A r \in RuleName :
                 /\ Range(rules[r]) \subseteq Range(rules'[r])
                 /\ Range(rules'[r]) \subseteq Range(rules[r]) \cup {"foreign"}
           /\ \A t \in TableName :
                 table'[t] = table[t] \/ (table[t] = Empty /\ table'[t] = Foreign)
<1>1. CASE UNCHANGED rules
  BY <1>1, SetTableAt DEF Intrude
<1>2. ASSUME NEW q \in RuleName, AddRule(q, "foreign"), UNCHANGED table
      PROVE  \A r \in RuleName :
                 /\ Range(rules[r]) \subseteq Range(rules'[r])
                 /\ Range(rules'[r]) \subseteq Range(rules[r]) \cup {"foreign"}
  BY <1>2, AddRange DEF Lookup
<1> QED
  BY <1>1, <1>2 DEF Intrude

-----------------------------------------------------------------------------
(* The A/B switch. *)

\* The points at which the main priority is bare, and those at which the target
\* table has been found to be out of use.
UnsetPoint == {"set"} \cup RedoPoint
BuildPoint == {"snapshot", "flush", "load"}

\* One main rule of irroute's at most; none between its removal and its
\* replacement; and the table that apply is about to build is not the one it
\* looks up.
OneSlot == \A s, t \in LiveSlot : s = t
SwitchInv ==
    /\ OneSlot
    /\ \A p \in Proc :
          /\ pc[p] \in UnsetPoint => LiveSlot = {}
          /\ pc[p] \in BuildPoint => Target(frame[p].prev) \notin LiveSlot

LEMMA MainKept ==
    ASSUME rules'["main"] = rules["main"]
    PROVE  LiveSlot' = LiveSlot /\ (OneSlot => OneSlot')
  BY DEF LiveSlot, OneSlot

LEMMA MainIsSeq == ASSUME TypeOK PROVE rules["main"] \in Seq(Lookup)
  BY DEF TypeOK, KernelTypeOK, RuleName

\* A successful deletePriority leaves nothing.
LEMMA DeleteMain ==
    ASSUME TypeOK, "ruleDel" \notin Faults, DeletePriority("main")
    PROVE  LiveSlot' = {} /\ OneSlot'
  BY DeleteAll DEF RuleName, LiveSlot, OneSlot

LEMMA AddMain ==
    ASSUME TypeOK, NEW t \in Lookup, LiveSlot = {}, TryAddRule("main", t)
    PROVE  OneSlot'
<1>1. Range(rules'["main"]) \subseteq Range(rules["main"]) \cup {t}
  BY TryAddRange DEF RuleName
<1> QED
  BY <1>1 DEF LiveSlot, OneSlot

\* While another handler cannot be anywhere, a step of p that leaves p outside
\* the points of interest only has to keep one rule at the main priority.
LEMMA SwitchOutside ==
    ASSUME TypeOK, OneHandler, NEW p \in Proc, pc[p] # "idle",
           OneSlot',
           \A q \in Proc \ {p} : pc'[q] = pc[q],
           pc'[p] \notin BuildPoint, pc'[p] \in UnsetPoint => LiveSlot' = {}
    PROVE  SwitchInv'
<1>1. ASSUME NEW q \in Proc \ {p} PROVE pc'[q] = "idle"
  BY <1>1 DEF OneHandler
<1> QED
  BY <1>1 DEF SwitchInv, UnsetPoint, BuildPoint

LEMMA OthersWait ==
    ASSUME TypeOK, NEW p \in Proc,
           \/ \E point \in Point : Continue(p, point)
           \/ \E point \in Point, f \in Frame : Carry(p, point, f)
           \/ \E out \in Outcome : Finish(p, out)
    PROVE  \A q \in Proc \ {p} : pc'[q] = pc[q]
  BY DEF TypeOK, ControlTypeOK, Continue, Carry, Finish

\* A rule of another priority does not touch the main one.
LEMMA OtherPriority ==
    ASSUME TypeOK, NEW r \in RuleName \ {"main"}, NEW x, DeletePriority(r) \/ AddRule(r, x)
    PROVE  rules'["main"] = rules["main"]
  BY DEF DeletePriority, AddRule, TypeOK, KernelTypeOK, RuleName

\* What CheckHost accepts leaves the target table out of use.
LEMMA AcceptedTargetIdle ==
    ASSUME TypeOK, SwitchInv, NEW prev \in State, HostAccepts(prev)
    PROVE  Target(prev) \notin LiveSlot
<1>1. CASE rules["main"] = <<>>
  BY <1>1, EmptyRange DEF LiveSlot
<1>2. CASE rules["main"] # <<>>
  <2>1. Expected("main", prev) \in Range(rules["main"])
    BY <1>2 DEF HostAccepts, ResourcesFree, ManagedRulesValid, RuleName
  <2>2. Target(prev) # Expected("main", prev)
    BY DEF Target, Expected
  <2>3. Range(rules["main"]) \subseteq Lookup
    BY MainIsSeq DEF Range
  <2>4. Expected("main", prev) \in Slot
    BY <2>1, <2>3 DEF Expected, State, Lookup, TableName, Slot
  <2> QED
    BY <2>1, <2>2, <2>4 DEF SwitchInv, OneSlot, LiveSlot
<1> QED
  BY <1>1, <1>2

LEMMA SwitchApply ==
    ASSUME "ruleDel" \notin Faults, TypeOK, OneHandler, SwitchInv,
           NEW p \in Proc, ApplyStep(p)
    PROVE  SwitchInv'
<1> USE DEF UnsetPoint, BuildPoint
<1>1. pc[p] # "idle" /\ \A q \in Proc \ {p} : pc'[q] = pc[q]
  BY ApplyStepEnd, OthersWait DEF StepEnd
<1>2. pc \in [Proc -> Point] /\ OneSlot
  BY DEF TypeOK, ControlTypeOK, SwitchInv
\* Steps that leave the main priority alone and go on elsewhere.
<1>3. CASE rules'["main"] = rules["main"] /\ pc'[p] \notin BuildPoint \cup UnsetPoint
  BY <1>1, <1>2, <1>3, MainKept, SwitchOutside
<1>4. CASE LoadInputs(p, "apply", "persist") \/ PersistConfig(p)
  BY <1>2, <1>3, <1>4 DEF LoadInputs, ReadError, PersistConfig, SaveError, Carry,
     Continue, Finish
<1>5. CASE LoadTarget(p) \/ LoadLocal(p) \/ ConfigureDNS(p) \/ RecordApply(p)
  BY <1>2, <1>3, <1>5 DEF LoadTarget, LoadLocal, ConfigureDNS, RecordApply,
     Continue, Finish
<1>6. CASE \/ EnsureRule(p, "mainRoutes", "mainRoutes", "main", "source")
           \/ EnsureRule(p, "source", "source", "Local", "unset")
  <2>1. rules'["main"] = rules["main"]
    BY <1>6, OtherPriority DEF EnsureRule, RuleName
  <2>2. pc'[p] \notin BuildPoint \cup UnsetPoint
    BY <1>2, <1>6 DEF EnsureRule, Continue
  <2> QED
    BY <1>3, <2>1, <2>2
\* Steps of the build, its target out of use from the check on.
<1>7. ASSUME UNCHANGED rules, UNCHANGED frame, pc'[p] \in BuildPoint,
             Target(frame[p].prev) \notin LiveSlot
      PROVE  SwitchInv'
  BY <1>1, <1>2, <1>7, MainKept DEF SwitchInv, OneHandler
<1>8. CASE CheckHost(p)
  <2>1. CASE pc'[p] = "idle"
    BY <1>3, <1>8, <2>1 DEF CheckHost, ReadError
  <2>2. CASE pc'[p] # "idle"
    <3>1. HostAccepts(frame[p].prev) /\ Continue(p, "snapshot") /\ UNCHANGED rules
      BY <1>2, <1>8, <2>2 DEF CheckHost, ReadError, Finish
    <3>2. frame[p].prev \in State
      BY DEF TypeOK, ControlTypeOK, Frame
    <3> QED
      BY <1>2, <1>7, <3>1, <3>2, AcceptedTargetIdle DEF Continue
  <2> QED
    BY <2>1, <2>2
<1>9. CASE WriteSnapshot(p, "snapshot", "flush") \/ FlushTarget(p)
  <2>1. CASE pc'[p] = "idle"
    BY <1>3, <1>9, <2>1 DEF WriteSnapshot, FlushTarget, SaveError
  <2>2. CASE pc'[p] # "idle"
    <3>1. /\ pc[p] \in BuildPoint
          /\ Continue(p, "flush") \/ Continue(p, "load")
          /\ UNCHANGED rules
      BY <1>2, <1>9, <2>2 DEF WriteSnapshot, FlushTarget, SaveError, Finish
    <3>2. Target(frame[p].prev) \notin LiveSlot
      BY <3>1 DEF SwitchInv
    <3> QED
      BY <1>2, <1>7, <3>1, <3>2 DEF Continue
  <2> QED
    BY <2>1, <2>2
\* The switch itself.
<1>10. CASE UnsetMain(p)
  <2>1. LiveSlot' = {} /\ OneSlot' /\ pc'[p] = "set"
    BY <1>2, <1>10, DeleteMain DEF UnsetMain, Continue
  <2> QED
    BY <1>1, <2>1, SwitchOutside
<1>11. CASE SetMain(p)
  <2>1. LiveSlot = {}
    BY <1>11 DEF SetMain, SwitchInv
  <2>2. Target(frame[p].prev) \in Lookup
    BY TargetType DEF Lookup, TableName
  <2>3. TryAddRule("main", Target(frame[p].prev))
    BY <1>11 DEF SetMain, TryAddRule
  <2>4. OneSlot'
    BY <2>1, <2>2, <2>3, AddMain
  <2>5. pc'[p] \notin BuildPoint \cup UnsetPoint
    BY <1>2, <1>11 DEF SetMain, Continue
  <2> QED
    BY <1>1, <2>4, <2>5, SwitchOutside
<1> QED
  BY <1>4, <1>5, <1>6, <1>8, <1>9, <1>10, <1>11 DEF ApplyStep

LEMMA SwitchUndo ==
    ASSUME "ruleDel" \notin Faults, TypeOK, OneHandler, SwitchInv,
           NEW p \in Proc, UndoStep(p)
    PROVE  SwitchInv'
<1> USE DEF UnsetPoint, BuildPoint
<1>1. pc[p] # "idle" /\ \A q \in Proc \ {p} : pc'[q] = pc[q]
  BY UndoStepEnd, OthersWait DEF StepEnd
<1>2. pc \in [Proc -> Point] /\ OneSlot
  BY DEF TypeOK, ControlTypeOK, SwitchInv
<1>3. CASE rules'["main"] = rules["main"] /\ pc'[p] \notin BuildPoint \cup UnsetPoint
  BY <1>1, <1>2, <1>3, MainKept, SwitchOutside
<1>4. CASE UndoDNS(p)
  BY <1>2, <1>3, <1>4 DEF UndoDNS, Continue
<1>5. CASE \/ ClearRule(p, "undoMainRoutes", "mainRoutes", "undoSource")
           \/ ClearRule(p, "undoSource", "source", "undoMain")
  <2>1. rules'["main"] = rules["main"]
    BY <1>5, OtherPriority DEF ClearRule, RuleName
  <2>2. pc'[p] \notin BuildPoint \cup UnsetPoint
    BY <1>2, <1>5 DEF ClearRule, Continue
  <2> QED
    BY <1>3, <2>1, <2>2
<1>6. CASE UndoMain(p)
  <2>1. LiveSlot' = {} /\ OneSlot'
    BY <1>6, DeleteMain DEF UndoMain
  <2>2. pc'[p] \notin BuildPoint
    BY <1>2, <1>6 DEF UndoMain, Continue, Finish
  <2> QED
    BY <1>1, <2>1, <2>2, SwitchOutside
<1>7. CASE \/ RestoreRule(p, "redoMainRoutes", "mainRoutes", "redoSource")
           \/ RestoreRule(p, "redoSource", "source", "redoMain")
  <2>1. LiveSlot = {}
    BY <1>7 DEF RestoreRule, SwitchInv
  <2>2. rules'["main"] = rules["main"]
    BY <1>7, OtherPriority DEF RestoreRule, TryAddRule, RuleName
  <2>3. pc'[p] \notin BuildPoint
    BY <1>2, <1>7 DEF RestoreRule, Continue
  <2> QED
    BY <1>1, <1>2, <2>1, <2>2, <2>3, MainKept, SwitchOutside
<1>8. CASE RestoreMain(p)
  <2>1. LiveSlot = {} /\ pc[p] \in RedoPoint
    BY <1>8 DEF RestoreMain, SwitchInv
  <2>2. Expected("main", frame[p].prev) \in Lookup
    BY <2>1, RedoType DEF RuleName
  <2>3. OneSlot'
    BY <1>8, <2>1, <2>2, AddMain DEF RestoreMain
  <2>4. pc'[p] \notin BuildPoint \cup UnsetPoint
    BY <1>2, <1>8 DEF RestoreMain, Finish
  <2> QED
    BY <1>1, <2>3, <2>4, SwitchOutside
<1> QED
  BY <1>4, <1>5, <1>6, <1>7, <1>8 DEF UndoStep

LEMMA SwitchDisable ==
    ASSUME "ruleDel" \notin Faults, TypeOK, OneHandler, SwitchInv,
           NEW p \in Proc, DisableStep(p)
    PROVE  SwitchInv'
<1> USE DEF UnsetPoint, BuildPoint
<1>1. pc[p] # "idle" /\ \A q \in Proc \ {p} : pc'[q] = pc[q]
  BY DisableStepEnd, OthersWait DEF StepEnd
<1>2. pc \in [Proc -> Point] /\ OneSlot
  BY DEF TypeOK, ControlTypeOK, SwitchInv
<1>3. pc'[p] \notin BuildPoint \cup UnsetPoint
  <2>1. CASE LoadInputs(p, "disable", "dSnapshot") \/ DisableSnapshot(p)
    BY <1>2, <2>1 DEF LoadInputs, ReadError, DisableSnapshot, WriteSnapshot,
       SaveError, Carry, Continue, Finish
  <2>2. CASE \/ ClearRule(p, "dMainRoutes", "mainRoutes", "dSource")
             \/ ClearRule(p, "dSource", "source", "dMain")
             \/ ClearRule(p, "dMain", "main", "dDNS")
    BY <1>2, <2>2 DEF ClearRule, Continue
  <2>3. CASE \/ DisableDNS(p)
             \/ DisableFlush(p, "dFlushLocal", "Local", "dFlushA")
             \/ DisableFlush(p, "dFlushA", "A", "dFlushB")
             \/ DisableFlush(p, "dFlushB", "B", "dRecord")
    BY <1>2, <2>3 DEF DisableDNS, DisableFlush, Carry, Continue
  <2>4. CASE RecordDisable(p)
    BY <1>2, <2>4 DEF RecordDisable, SaveError, Continue, Finish
  <2> QED
    BY <2>1, <2>2, <2>3, <2>4 DEF DisableStep
<1>4. OneSlot'
  <2>1. CASE UNCHANGED rules
    BY <1>2, <2>1, MainKept
  <2>2. CASE \/ ClearRule(p, "dMainRoutes", "mainRoutes", "dSource")
             \/ ClearRule(p, "dSource", "source", "dMain")
    BY <1>2, <2>2, OtherPriority, MainKept DEF ClearRule, RuleName
  <2>3. CASE ClearRule(p, "dMain", "main", "dDNS")
    <3>1. LiveSlot' = {} /\ OneSlot'
      BY <2>3, DeleteMain DEF ClearRule
    <3> QED
      BY <3>1
  <2> QED
    BY <2>1, <2>2, <2>3 DEF DisableStep, LoadInputs, ReadError, DisableSnapshot,
       WriteSnapshot, SaveError, DisableDNS, DisableFlush, RecordDisable
<1> QED
  BY <1>1, <1>3, <1>4, SwitchOutside

LEMMA SwitchRollback ==
    ASSUME TypeOK, OneHandler, SwitchInv, NEW p \in Proc, RollbackStep(p)
    PROVE  SwitchInv'
<1>1. pc[p] # "idle" /\ \A q \in Proc \ {p} : pc'[q] = pc[q]
  BY RollbackStepEnd, OthersWait DEF StepEnd
<1>2. pc'[p] \notin BuildPoint \cup UnsetPoint
  BY DEF RollbackStep, LoadSnapshot, ReadError, RestoreConfig, RestoreData,
     RestoreState, SaveError, Carry, Continue, Finish, TypeOK, ControlTypeOK,
     UnsetPoint, BuildPoint
<1>3. UNCHANGED rules
  BY DEF RollbackStep, LoadSnapshot, ReadError, RestoreConfig, RestoreData,
     RestoreState, SaveError
<1> QED
  BY <1>1, <1>2, <1>3, MainKept, SwitchOutside DEF SwitchInv

\* A step that leaves rules and handlers alone.
LEMMA SwitchIdle ==
    ASSUME SwitchInv, UNCHANGED <<rules, pc, frame>>
    PROVE  SwitchInv'
  BY MainKept DEF SwitchInv

LEMMA SwitchNext ==
    ASSUME "ruleDel" \notin Faults, TypeOK, OneHandler, SwitchInv, [Next]_vars
    PROVE  SwitchInv'
<1>1. ASSUME NEW p \in Proc, Start(p)
      PROVE  SwitchInv'
  <2>1. PICK op \in Operation : /\ pc' = [pc EXCEPT ![p] = op]
                                /\ lock = None
                                /\ UNCHANGED rules
    BY <1>1 DEF Start, Acquire, LockFree, Operation
  <2>2. \A q \in Proc : pc[q] = "idle"
    BY <2>1, ProcAssumption DEF OneHandler
  <2>3. \A q \in Proc : pc'[q] \in {"idle", op}
    BY <2>1, <2>2 DEF TypeOK, ControlTypeOK
  <2> QED
    BY <2>1, <2>3, MainKept DEF SwitchInv, UnsetPoint, BuildPoint, Operation
<1>2. ASSUME NEW p \in Proc, EngineStep(p)
      PROVE  SwitchInv'
  BY <1>2, SwitchApply, SwitchUndo, SwitchDisable, SwitchRollback DEF EngineStep
<1>3. ASSUME NEW p \in Proc, Crash(p)
      PROVE  SwitchInv'
  <2>1. pc[p] # "idle" /\ Finish(p, "killed") /\ OneSlot'
    BY <1>3, CrashRules DEF Crash, RuleName, SwitchInv, OneSlot, LiveSlot
  <2>2. \A q \in Proc \ {p} : pc'[q] = pc[q]
    BY <2>1, OthersWait DEF Outcome
  <2>3. pc'[p] = "idle"
    BY <2>1 DEF Finish, TypeOK, ControlTypeOK
  <2> QED
    BY <2>1, <2>2, <2>3, SwitchOutside DEF SwitchInv, UnsetPoint, BuildPoint
<1>4. CASE Reboot
  <2>1. pc' = [q \in Proc |-> "idle"]
    BY <1>4 DEF Reboot
  <2>2. rules'["main"] \in {<<>>, <<"foreign">>}
    BY <1>4 DEF Reboot, RuleName
  <2>3. Range(<<>>) = {} /\ Range(<<"foreign">>) = {"foreign"}
    BY DEF Range
  <2>4. OneSlot'
    BY <2>2, <2>3 DEF OneSlot, LiveSlot, Slot
  <2> QED
    BY <2>1, <2>4 DEF SwitchInv, UnsetPoint, BuildPoint
<1>5. ASSUME NEW p \in Proc, Reject(p)
      PROVE  SwitchInv'
  BY <1>5, SwitchIdle DEF Reject
<1>6. CASE \/ \E c \in Config : SaveConfig(c)
           \/ \E d \in Data : ImportData(d)
           \/ Exhausted
           \/ UNCHANGED vars
  BY <1>6, SwitchIdle DEF SaveConfig, ImportData, Exhausted, vars
<1>7. CASE Intrude
  <2>1. LiveSlot' = LiveSlot /\ UNCHANGED <<pc, frame>>
    BY <1>7, IntrudeAdds DEF LiveSlot, RuleName, Slot
  <2> QED
    BY <2>1 DEF SwitchInv, OneSlot
<1> QED
  BY <1>1, <1>2, <1>3, <1>4, <1>5, <1>6, <1>7 DEF Next

LEMMA SwitchInit == Init => SwitchInv
<1> SUFFICES ASSUME Init PROVE SwitchInv
  OBVIOUS
<1>1. rules["main"] = <<>>
  BY DEF Init, RuleName
<1>2. OneSlot
  BY <1>1, EmptyRange DEF OneSlot, LiveSlot
<1> QED
  BY <1>2 DEF Init, SwitchInv, UnsetPoint, BuildPoint

\* As long as `ip rule del` does what it is told: the main priority holds at
\* most one rule of irroute's, whatever others put there, and apply builds in a table that this rule does not look up.
THEOREM SwitchCorrect ==
    ASSUME "ruleDel" \notin Faults
    PROVE  Spec => []SwitchInv
<1>1. Init => SwitchInv
  BY SwitchInit
<1>2. TypeOK /\ OneHandler /\ SwitchInv /\ [Next]_vars => SwitchInv'
  BY SwitchNext
<1> QED
  BY <1>1, <1>2, TypeCorrect, OneHandlerCorrect, PTL DEF Spec

-----------------------------------------------------------------------------
(* The live table. *)

\* A command that does not write to tables.
LEMMA TableKept == ASSUME UNCHANGED table PROVE LiveTableUntouched
  BY DEF LiveTableUntouched

\* A command that writes to one table which is not a slot in use.
LEMMA OtherTableWritten ==
    ASSUME TypeOK, NEW t \in TableName, NEW c, SetTable(t, c),
           t \notin LiveSlot \/ t = "Local"
    PROVE  LiveTableUntouched
<1> SUFFICES ASSUME NEW s \in LiveSlot PROVE table'[s] = table[s]
  BY DEF LiveTableUntouched
<1>1. s # t /\ s \in TableName
  BY DEF LiveSlot, Slot, TableName
<1> QED
  BY <1>1 DEF SetTable, TypeOK, KernelTypeOK

LEMMA LiveApply ==
    ASSUME TypeOK, SwitchInv, NEW p \in Proc, ApplyStep(p)
    PROVE  LiveTableUntouched
<1>1. Target(frame[p].prev) \in TableName
  BY TargetType DEF TableName
<1>2. CASE FlushTarget(p) \/ LoadTarget(p)
  <2>1. Target(frame[p].prev) \notin LiveSlot
    BY <1>2 DEF FlushTarget, LoadTarget, SwitchInv, BuildPoint
  <2>2. UNCHANGED table \/ \E c : SetTable(Target(frame[p].prev), c)
    BY <1>2 DEF FlushTarget, LoadTarget, FlushFails
  <2> QED
    BY <1>1, <2>1, <2>2, TableKept, OtherTableWritten
<1>3. CASE LoadLocal(p)
  <2>1. UNCHANGED table \/ \E c : SetTable("Local", c)
    BY <1>3 DEF LoadLocal
  <2> QED
    BY <2>1, TableKept, OtherTableWritten DEF TableName
<1>4. CASE UNCHANGED table
  BY <1>4, TableKept
<1> QED
  BY <1>2, <1>3, <1>4 DEF ApplyStep, LoadInputs, ReadError, PersistConfig,
     CheckHost, WriteSnapshot, SaveError, EnsureRule, UnsetMain, SetMain,
     ConfigureDNS, RecordApply

LEMMA LiveDisable ==
    ASSUME TypeOK, NEW p \in Proc, DisableStep(p)
    PROVE  LiveTableUntouched
<1>1. CASE DisableFlush(p, "dFlushLocal", "Local", "dFlushA")
  <2>1. UNCHANGED table \/ \E c : SetTable("Local", c)
    BY <1>1 DEF DisableFlush, FlushFails
  <2> QED
    BY <2>1, TableKept, OtherTableWritten DEF TableName
<1>2. CASE \/ DisableFlush(p, "dFlushA", "A", "dFlushB")
           \/ DisableFlush(p, "dFlushB", "B", "dRecord")
  BY <1>2 DEF DisableFlush, LiveTableUntouched
<1>3. CASE UNCHANGED table
  BY <1>3, TableKept
<1> QED
  BY <1>1, <1>2, <1>3 DEF DisableStep, LoadInputs, ReadError, DisableSnapshot,
     WriteSnapshot, SaveError, ClearRule, DisableDNS, RecordDisable

LEMMA LiveCrash ==
    ASSUME TypeOK, SwitchInv, NEW p \in Proc, Crash(p)
    PROVE  LiveTableUntouched
<1>1. CASE UNCHANGED table
  BY <1>1, TableKept
<1>2. ASSUME NEW t \in Writing(p), SetTable(t, Torn)
      PROVE  LiveTableUntouched
  <2>1. CASE pc[p] \in {"flush", "load"}
    <3>1. t = Target(frame[p].prev) /\ t \in TableName
      BY <1>2, <2>1, TargetType DEF Writing, TableName
    <3>2. t \notin LiveSlot
      BY <2>1, <3>1 DEF SwitchInv, BuildPoint
    <3> QED
      BY <1>2, <3>1, <3>2, OtherTableWritten
  <2>2. CASE pc[p] \in {"local", "dFlushLocal"}
    <3>1. t = "Local" /\ t \in TableName
      BY <1>2, <2>2 DEF Writing, TableName
    <3> QED
      BY <1>2, <3>1, OtherTableWritten
  <2>3. CASE pc[p] \in {"dFlushA", "dFlushB"}
    BY <2>3 DEF LiveTableUntouched
  <2> QED
    BY <1>2, <2>1, <2>2, <2>3 DEF Writing
<1> QED
  BY <1>1, <1>2 DEF Crash

\* A reboot brings back no rule that looks a slot up.
LEMMA LiveReboot == ASSUME Reboot PROVE LiveTableUntouched
<1>1. rules'["main"] \in {<<>>, <<"foreign">>}
  BY DEF Reboot, RuleName
<1>2. Range(<<>>) = {} /\ Range(<<"foreign">>) = {"foreign"}
  BY DEF Range
<1>3. LiveSlot' = {}
  BY <1>1, <1>2 DEF LiveSlot, Slot
<1> QED
  BY <1>3 DEF LiveTableUntouched

LEMMA LiveIntrude == ASSUME TypeOK, Intrude PROVE LiveTableUntouched
  BY IntrudeAdds DEF LiveTableUntouched, LiveSlot, Slot, TableName

\* While `ip rule del` does what it is told, no handler, kill or reboot changes
\* a slot that the main rule looks up, the flushes of disable excepted.
THEOREM NoLiveTableRebuiltCorrect ==
    ASSUME "ruleDel" \notin Faults
    PROVE  Spec => NoLiveTableRebuilt
<1>1. ASSUME TypeOK, SwitchInv, [Next]_vars
      PROVE  LiveTableUntouched
  <2>1. ASSUME NEW p \in Proc, EngineStep(p)
        PROVE  LiveTableUntouched
    <3>1. CASE UndoStep(p) \/ RollbackStep(p)
      BY <3>1, TableKept DEF UndoStep, UndoDNS, ClearRule, UndoMain, RestoreRule,
         RestoreMain, RollbackStep, LoadSnapshot, ReadError, RestoreConfig,
         RestoreData, RestoreState, SaveError
    <3> QED
      BY <1>1, <2>1, <3>1, LiveApply, LiveDisable DEF EngineStep
  <2>2. CASE \/ \E p \in Proc : Start(p) \/ Reject(p)
             \/ \E c \in Config : SaveConfig(c)
             \/ \E d \in Data : ImportData(d)
             \/ Exhausted
             \/ UNCHANGED vars
    BY <2>2, TableKept DEF Start, Acquire, Reject, SaveConfig, ImportData,
       Exhausted, vars
  <2> QED
    BY <1>1, <2>1, <2>2, LiveCrash, LiveReboot, LiveIntrude DEF Next
<1>2. TypeOK /\ SwitchInv /\ [Next]_vars => [LiveTableUntouched]_vars
  BY <1>1
<1> QED
  BY <1>2, TypeCorrect, SwitchCorrect, PTL DEF Spec, NoLiveTableRebuilt

=============================================================================
