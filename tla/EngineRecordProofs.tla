-------------------------- MODULE EngineRecordProofs --------------------------
(***************************************************************************)
(* What holds between commands, and at each step of the one that runs: the *)
(* rules, the tables, DNS and the files agree with the record.  Since one  *)
(* handler runs at a time, each invariant speaks of its control point.     *)
(***************************************************************************)
EXTENDS EngineProofs

USE DEF Faulty, disk, kernel, control, RedoPoint

\* The control point and the local variables of the handler that runs.
at == IF LockFree THEN "idle" ELSE pc[lock]
own == IF LockFree THEN NoFrame ELSE frame[lock]

SwitchPoint == {"local", "mainRoutes", "source", "unset", "set", "dns", "record"}
FlushPoint == {"dFlushLocal", "dFlushA", "dFlushB", "dRecord"}
\* No rule is in force from here to the end of the handler.
BarePoint == {"dDNS"} \cup FlushPoint \cup RestorePoint

-----------------------------------------------------------------------------
(* What any step does to the handler that runs. *)

LEMMA ViewHandler ==
    ASSUME TypeOK, OneHandler, NEW p \in Proc, pc[p] # "idle"
    PROVE  /\ lock = p /\ at = pc[p] /\ own = frame[p]
           /\ \A point : Continue(p, point) => at' = point /\ own' = own
           /\ \A point, f : Carry(p, point, f) => at' = point /\ own' = f
           /\ \A out : Finish(p, out) => at' = "idle"
<1>1. lock = p /\ p # None /\ pc \in [Proc -> Point] /\ frame \in [Proc -> Frame]
  BY ProcAssumption DEF OneHandler, TypeOK, ControlTypeOK
<1>2. at = pc[p] /\ own = frame[p]
  BY <1>1 DEF at, own, LockFree
<1>3. ASSUME NEW point, Continue(p, point)
      PROVE  at' = point /\ own' = own
  BY <1>1, <1>2, <1>3 DEF Continue, at, own, LockFree
<1>4. ASSUME NEW point, NEW f, Carry(p, point, f)
      PROVE  at' = point /\ own' = f
  BY <1>1, <1>4 DEF Carry, at, own, LockFree
<1>5. ASSUME NEW out, Finish(p, out)
      PROVE  at' = "idle"
  BY <1>5 DEF Finish, at, LockFree
<1> QED
  BY <1>1, <1>2, <1>3, <1>4, <1>5

LEMMA ViewStep ==
    ASSUME TypeOK, OneHandler, NEW p \in Proc, EngineStep(p)
    PROVE  pc[p] # "idle" /\ at \in Point /\ own \in Frame
<1>1. pc[p] # "idle" /\ pc \in [Proc -> Point] /\ frame \in [Proc -> Frame]
  BY EngineStepEnd DEF TypeOK, ControlTypeOK
<1> QED
  BY <1>1, ViewHandler

\* The steps that change the handler's local variables, or end in several ways.
Kept == /\ own'.op = own.op /\ own'.snap = own.snap
        /\ own'.cfg = own.cfg /\ own'.prev = own.prev /\ own'.data = own.data

LEMMA ViewLoadInputs ==
    ASSUME TypeOK, OneHandler, NEW p \in Proc, pc[p] # "idle",
           NEW from, NEW to, LoadInputs(p, from, to)
    PROVE  /\ at = from
           /\ UNCHANGED <<disk, kernel>>
           /\ \/ at' = "idle"
              \/ /\ at' = to
                 /\ own'.op = own.op /\ own'.snap = own.snap
                 /\ own'.cfg = configFile /\ own'.prev = stateFile
                 /\ own'.data = dataFile
<1>1. frame[p] \in Frame
  BY DEF TypeOK, ControlTypeOK
<1>2. CASE ReadError(p, from)
  BY <1>2, ViewHandler DEF ReadError
<1>3. CASE ~ReadError(p, from)
  <2> DEFINE f == [frame[p] EXCEPT !.cfg = configFile, !.prev = stateFile,
                                   !.data = dataFile]
  <2>1. pc[p] = from /\ Carry(p, to, f) /\ UNCHANGED <<disk, kernel>>
    BY <1>3 DEF LoadInputs
  <2>2. at = from /\ at' = to /\ own' = f /\ own = frame[p]
    BY <2>1, ViewHandler
  <2>3. /\ f.op = frame[p].op /\ f.snap = frame[p].snap
        /\ f.cfg = configFile /\ f.prev = stateFile /\ f.data = dataFile
    BY <1>1 DEF Frame
  <2> HIDE DEF f
  <2> QED
    BY <2>1, <2>2, <2>3
<1> QED
  BY <1>2, <1>3

LEMMA ViewNote ==
    ASSUME TypeOK, OneHandler, NEW p \in Proc, pc[p] # "idle", NEW to,
           \/ Carry(p, to, [frame[p] EXCEPT !.problems = TRUE])
           \/ Carry(p, to, [frame[p] EXCEPT !.dnsKept = TRUE, !.problems = TRUE])
    PROVE  at' = to /\ Kept /\ own'.problems
<1>1. frame[p] \in Frame
  BY DEF TypeOK, ControlTypeOK
<1>2. own = frame[p]
  BY ViewHandler
<1>3. ASSUME NEW f, Carry(p, to, f), f.problems,
             /\ f.op = own.op /\ f.snap = own.snap /\ f.cfg = own.cfg
             /\ f.prev = own.prev /\ f.data = own.data
      PROVE  at' = to /\ Kept /\ own'.problems
  BY <1>3, ViewHandler DEF Kept
<1> DEFINE f == [frame[p] EXCEPT !.problems = TRUE]
           g == [frame[p] EXCEPT !.dnsKept = TRUE, !.problems = TRUE]
<1>4. /\ f.op = own.op /\ f.snap = own.snap /\ f.cfg = own.cfg
      /\ f.prev = own.prev /\ f.data = own.data /\ f.problems
  BY <1>1, <1>2 DEF Frame
<1>5. /\ g.op = own.op /\ g.snap = own.snap /\ g.cfg = own.cfg
      /\ g.prev = own.prev /\ g.data = own.data /\ g.problems
  BY <1>1, <1>2 DEF Frame
<1>6. Carry(p, to, f) \/ Carry(p, to, g)
  OBVIOUS
<1> HIDE DEF f, g
<1> QED
  BY <1>3, <1>4, <1>5, <1>6

LEMMA ViewDisableFlush ==
    ASSUME TypeOK, OneHandler, NEW p \in Proc, pc[p] # "idle",
           NEW from, NEW t, NEW to, DisableFlush(p, from, t, to)
    PROVE  /\ at = from /\ at' = to /\ Kept
           /\ UNCHANGED <<disk, rules, dns>>
           /\ \/ SetTable(t, Empty) /\ own'.problems = own.problems
              \/ FlushFails(t) /\ own'.problems
  BY ViewHandler, ViewNote DEF DisableFlush, Kept

LEMMA ViewDisableDNS ==
    ASSUME TypeOK, OneHandler, NEW p \in Proc, pc[p] # "idle", DisableDNS(p)
    PROVE  /\ at = "dDNS" /\ at' = "dFlushLocal" /\ Kept
           /\ UNCHANGED <<disk, rules, table>>
           /\ \/ ~own.prev.dnsManaged /\ UNCHANGED dns
              \/ dns' = "system"
              \/ RevertFails
  BY ViewHandler, ViewNote DEF DisableDNS, RevertOK, Kept

LEMMA ViewRecordDisable ==
    ASSUME TypeOK, OneHandler, NEW p \in Proc, pc[p] # "idle", RecordDisable(p)
    PROVE  /\ at = "dRecord"
           /\ UNCHANGED <<configFile, dataFile, snapshots, kernel>>
           /\ \/ Faulty("save") /\ Finish(p, "error") /\ UNCHANGED stateFile
              \/ /\ stateFile' = Disabled(own)
                 /\ \/ Finish(p, "error")
                    \/ /\ ~own.problems /\ own.op = "rollback"
                       /\ Continue(p, "rConfig")
                    \/ ~own.problems /\ own.op # "rollback" /\ Finish(p, "ok")
<1>1. frame[p] \in Frame /\ frame[p].problems \in BOOLEAN
  BY DEF TypeOK, ControlTypeOK, Frame
<1>2. at = pc[p] /\ own = frame[p]
  BY ViewHandler
<1>3. CASE SaveError(p, "dRecord")
  BY <1>2, <1>3 DEF SaveError
<1>4. CASE ~SaveError(p, "dRecord")
  <2>1. \/ frame[p].problems /\ Finish(p, "error")
        \/ ~frame[p].problems /\ frame[p].op = "rollback" /\ Continue(p, "rConfig")
        \/ ~frame[p].problems /\ frame[p].op # "rollback" /\ Finish(p, "ok")
    BY <1>1, <1>4 DEF RecordDisable
  <2>2. /\ pc[p] = "dRecord"
        /\ stateFile' = Disabled(frame[p])
        /\ UNCHANGED <<configFile, dataFile, snapshots, kernel>>
    BY <1>4 DEF RecordDisable
  <2> QED
    BY <1>2, <2>1, <2>2
<1> QED
  BY <1>3, <1>4

LEMMA ViewLoadSnapshot ==
    ASSUME TypeOK, OneHandler, NEW p \in Proc, pc[p] # "idle", LoadSnapshot(p)
    PROVE  /\ at = "rollback"
           /\ UNCHANGED <<disk, kernel>>
           /\ \/ at' = "idle" /\ Finish(p, "error")
              \/ /\ at' = IF stateFile.enabled THEN "disable" ELSE "rConfig"
                 /\ own'.op = own.op /\ own'.snap = Chosen(own.snap)
<1>1. frame[p] \in Frame
  BY DEF TypeOK, ControlTypeOK
<1>2. own = frame[p]
  BY ViewHandler
<1>3. CASE Finish(p, "error")
  BY <1>3, ViewHandler DEF LoadSnapshot, ReadError
<1>4. CASE ~Finish(p, "error")
  BY <1>1, <1>2, <1>4, ViewHandler DEF LoadSnapshot, ReadError, Frame
<1> QED
  BY <1>3, <1>4

LEMMA ViewStart ==
    ASSUME TypeOK, OneHandler, NEW p \in Proc, Start(p)
    PROVE  /\ at = "idle" /\ at' \in Operation /\ own'.op = at'
           /\ at' = "rollback" => MovesOn
           /\ UNCHANGED <<disk, kernel>>
<1>1. PICK op \in Operation, path \in Nat :
         Acquire(p, op, path) /\ (op = "rollback" => MovesOn)
  BY LenIsNat DEF Start, Operation, TypeOK
<1>2. lock = None /\ lock' = p /\ p # None
  BY <1>1, ProcAssumption DEF Acquire, LockFree
<1>3. pc'[p] = op /\ frame'[p].op = op
  BY <1>1 DEF Acquire, TypeOK, ControlTypeOK, Frame
<1>4. at = "idle" /\ at' = op /\ own'.op = op
  BY <1>2, <1>3 DEF at, own, LockFree
<1> QED
  BY <1>1, <1>4 DEF Acquire

\* Nothing happens to the handler, nor to what it works on.
Resting ==
    /\ at' = at /\ own' = own
    /\ UNCHANGED <<stateFile, snapshots, kernel>>
    /\ UNCHANGED <<configFile, dataFile>> \/ at = "idle" \/ SharedStore

LEMMA ViewRest ==
    ASSUME \/ \E p \in Proc : Reject(p)
           \/ \E c \in Config : SaveConfig(c)
           \/ \E d \in Data : ImportData(d)
           \/ Exhausted
           \/ UNCHANGED vars
    PROVE  Resting
<1>1. UNCHANGED <<lock, pc, frame>>
  BY DEF Reject, SaveConfig, ImportData, Exhausted, vars
<1>2. at' = at /\ own' = own
  BY <1>1 DEF at, own, LockFree
<1>3. /\ UNCHANGED <<stateFile, snapshots, kernel>>
      /\ UNCHANGED <<configFile, dataFile>> \/ LockFree \/ SharedStore
  BY DEF Reject, SaveConfig, ImportData, Exhausted, vars
<1> QED
  BY <1>2, <1>3 DEF Resting, at

LEMMA ViewEnd ==
    ASSUME Reboot \/ \E p \in Proc : Crash(p)
    PROVE  at' = "idle" /\ UNCHANGED disk
  BY DEF Reboot, Crash, Finish, at, LockFree

\* Another program adds rules and fills empty tables, between two commands.
Intruded ==
    /\ at' = at /\ own' = own
    /\ UNCHANGED <<disk, dns, LiveSlot>>
    /\ at = "idle" \/ "race" \in Faults
    /\ \A r \in RuleName :
          /\ Range(rules[r]) \subseteq Range(rules'[r])
          /\ Range(rules'[r]) \subseteq Range(rules[r]) \cup {"foreign"}
    /\ \A t \in TableName :
          table'[t] = table[t] \/ (table[t] = Empty /\ table'[t] = Foreign)

LEMMA ViewIntrude == ASSUME TypeOK, Intrude PROVE Intruded
<1>1. at' = at /\ own' = own /\ UNCHANGED <<disk, dns>>
  BY IntrudeAdds DEF at, own, LockFree
<1>2. UNCHANGED LiveSlot
  BY IntrudeAdds DEF LiveSlot, RuleName, Slot
<1>3. at = "idle" \/ "race" \in Faults
  BY IntrudeAdds DEF at
<1> QED
  BY <1>1, <1>2, <1>3, IntrudeAdds DEF Intruded

-----------------------------------------------------------------------------
(* The handler's inputs *)

\* The state that a handler has read is the one on disk until it writes another.
PrevInv == at \in LoadedPoint => own.prev = stateFile

LEMMA PrevNext == ASSUME TypeOK, OneHandler, PrevInv, [Next]_vars PROVE PrevInv'
<1> USE DEF LoadedPoint, ApplyPoint, UndoPoint, DisablePoint
<1>1. ASSUME NEW p \in Proc, EngineStep(p)
      PROVE  PrevInv'
  <2>1. /\ pc[p] # "idle" /\ own \in Frame /\ at = pc[p] /\ own = frame[p]
        /\ \A point : Continue(p, point) => at' = point /\ own' = own
        /\ \A point, f : Carry(p, point, f) => at' = point /\ own' = f
        /\ \A out : Finish(p, out) => at' = "idle"
    BY <1>1, ViewStep, ViewHandler
  <2>2. CASE \/ LoadInputs(p, "apply", "persist")
             \/ LoadInputs(p, "disable", "dSnapshot")
    BY <2>1, <2>2 DEF LoadInputs, ReadError, PrevInv, Frame
  <2>3. CASE ApplyStep(p) /\ ~LoadInputs(p, "apply", "persist")
    BY <2>1, <2>3 DEF ApplyStep, PersistConfig, CheckHost, WriteSnapshot,
       FlushTarget, LoadTarget, LoadLocal, EnsureRule, UnsetMain, SetMain,
       ConfigureDNS, RecordApply, ReadError, SaveError, PrevInv
  <2>4. CASE UndoStep(p)
    BY <2>1, <2>4 DEF UndoStep, UndoDNS, ClearRule, UndoMain, RestoreRule, RestoreMain, PrevInv
  <2>5. CASE DisableStep(p) /\ ~LoadInputs(p, "disable", "dSnapshot")
    <3>1. CASE \/ DisableSnapshot(p)
               \/ ClearRule(p, "dMainRoutes", "mainRoutes", "dSource")
               \/ ClearRule(p, "dSource", "source", "dMain")
               \/ ClearRule(p, "dMain", "main", "dDNS")
      BY <2>1, <3>1 DEF DisableSnapshot, WriteSnapshot, SaveError, ClearRule, PrevInv
    <3>2. CASE \/ DisableDNS(p)
               \/ DisableFlush(p, "dFlushLocal", "Local", "dFlushA")
               \/ DisableFlush(p, "dFlushA", "A", "dFlushB")
               \/ DisableFlush(p, "dFlushB", "B", "dRecord")
      BY <2>1, <3>2, ViewDisableDNS, ViewDisableFlush DEF Kept, PrevInv
    <3>3. CASE RecordDisable(p)
      BY <2>1, <3>3, ViewRecordDisable DEF PrevInv
    <3> QED
      BY <2>5, <3>1, <3>2, <3>3 DEF DisableStep
  <2>6. CASE RollbackStep(p)
    BY <2>1, <2>6 DEF RollbackStep, LoadSnapshot, ReadError, SaveError,
       RestoreConfig, RestoreData, RestoreState, PrevInv
  <2> QED
    BY <1>1, <2>2, <2>3, <2>4, <2>5, <2>6 DEF EngineStep
<1>2. ASSUME NEW p \in Proc, Start(p)
      PROVE  PrevInv'
  BY <1>2, ViewStart DEF PrevInv, Operation
<1>3. CASE Resting
  BY <1>3 DEF Resting, PrevInv
<1>4. CASE Reboot \/ \E p \in Proc : Crash(p)
  BY <1>4, ViewEnd DEF PrevInv
<1>5. CASE Intrude
  BY <1>5, ViewIntrude DEF Intruded, PrevInv
<1> QED
  BY <1>1, <1>2, <1>3, <1>4, <1>5, ViewRest DEF Next

\* A command to the kernel, after which the handler goes on or ends.
KernelStep(p) ==
    \/ CheckHost(p)
    \/ FlushTarget(p) \/ LoadTarget(p) \/ LoadLocal(p)
    \/ EnsureRule(p, "mainRoutes", "mainRoutes", "main", "source")
    \/ EnsureRule(p, "source", "source", "Local", "unset")
    \/ UnsetMain(p) \/ SetMain(p) \/ ConfigureDNS(p)
    \/ UndoStep(p)
    \/ ClearRule(p, "dMainRoutes", "mainRoutes", "dSource")
    \/ ClearRule(p, "dSource", "source", "dMain")
    \/ ClearRule(p, "dMain", "main", "dDNS")
    \/ DisableDNS(p)
    \/ DisableFlush(p, "dFlushLocal", "Local", "dFlushA")
    \/ DisableFlush(p, "dFlushA", "A", "dFlushB")
    \/ DisableFlush(p, "dFlushB", "B", "dRecord")

\* A command to the store.
StoreStep(p) ==
    \/ LoadInputs(p, "apply", "persist") \/ LoadInputs(p, "disable", "dSnapshot")
    \/ PersistConfig(p)
    \/ WriteSnapshot(p, "snapshot", "flush") \/ DisableSnapshot(p)
    \/ RecordApply(p) \/ RecordDisable(p)
    \/ RollbackStep(p)

LEMMA EngineSteps ==
    ASSUME NEW p \in Proc, EngineStep(p)
    PROVE  KernelStep(p) \/ StoreStep(p)
  BY DEF EngineStep, ApplyStep, DisableStep, KernelStep, StoreStep

LEMMA ViewKernelStep ==
    ASSUME TypeOK, OneHandler, NEW p \in Proc, pc[p] # "idle", KernelStep(p)
    PROVE  /\ UNCHANGED disk
           /\ at \in LoadedPoint \ {"persist", "snapshot", "record", "dSnapshot", "dRecord"}
           /\ \/ at' = "idle"
              \/ /\ at' \in LoadedPoint \ {"persist", "dSnapshot", "check"}
                 /\ at' \in Mutating => at \in Mutating
                 /\ at' = "snapshot" => at = "check"
                 /\ Kept
<1> USE DEF LoadedPoint, ApplyPoint, UndoPoint, DisablePoint, Mutating, Kept
<1>1. CASE CheckHost(p)
  BY <1>1, ViewHandler DEF CheckHost, ReadError
<1>2. CASE FlushTarget(p) \/ LoadTarget(p) \/ LoadLocal(p)
  BY <1>2, ViewHandler DEF FlushTarget, LoadTarget, LoadLocal
<1>3. CASE \/ EnsureRule(p, "mainRoutes", "mainRoutes", "main", "source")
           \/ EnsureRule(p, "source", "source", "Local", "unset")
           \/ UnsetMain(p) \/ SetMain(p) \/ ConfigureDNS(p)
  BY <1>3, ViewHandler DEF EnsureRule, UnsetMain, SetMain, ConfigureDNS
<1>4. CASE UndoStep(p)
  BY <1>4, ViewHandler DEF UndoStep, UndoDNS, ClearRule, UndoMain, RestoreRule,
     RestoreMain
<1>5. CASE \/ ClearRule(p, "dMainRoutes", "mainRoutes", "dSource")
           \/ ClearRule(p, "dSource", "source", "dMain")
           \/ ClearRule(p, "dMain", "main", "dDNS")
  BY <1>5, ViewHandler DEF ClearRule
<1>6. CASE \/ DisableDNS(p)
           \/ DisableFlush(p, "dFlushLocal", "Local", "dFlushA")
           \/ DisableFlush(p, "dFlushA", "A", "dFlushB")
           \/ DisableFlush(p, "dFlushB", "B", "dRecord")
  BY <1>6, ViewDisableDNS, ViewDisableFlush
<1> QED
  BY <1>1, <1>2, <1>3, <1>4, <1>5, <1>6 DEF KernelStep

\* The inputs that a handler has read are the files on disk, unless somebody
\* may write those while the lock is held.
InputsInv == at \in LoadedPoint => own.cfg = configFile /\ own.data = dataFile

LEMMA InputsNext ==
    ASSUME ~SharedStore, TypeOK, OneHandler, InputsInv, [Next]_vars
    PROVE  InputsInv'
<1> USE DEF LoadedPoint, ApplyPoint, UndoPoint, DisablePoint
<1>1. ASSUME NEW p \in Proc, EngineStep(p)
      PROVE  InputsInv'
  <2>1. pc[p] # "idle"
    BY <1>1, ViewStep
  <2>2. CASE KernelStep(p)
    BY <2>1, <2>2, ViewKernelStep DEF InputsInv, Kept
  <2>3. CASE LoadInputs(p, "apply", "persist") \/ LoadInputs(p, "disable", "dSnapshot")
    BY <2>1, <2>3, ViewLoadInputs DEF InputsInv
  <2>4. CASE \/ PersistConfig(p)
             \/ WriteSnapshot(p, "snapshot", "flush") \/ DisableSnapshot(p)
             \/ RecordApply(p)
    BY <2>1, <2>4, ViewHandler DEF PersistConfig, WriteSnapshot, DisableSnapshot,
       RecordApply, SaveError, InputsInv
  <2>5. at' \notin LoadedPoint => InputsInv'
    BY DEF InputsInv
  <2>6. CASE RecordDisable(p)
    BY <2>1, <2>5, <2>6, ViewRecordDisable, ViewHandler
  <2>7. CASE RollbackStep(p)
    BY <2>1, <2>5, <2>7, ViewHandler, ViewLoadSnapshot DEF RollbackStep,
       RestoreConfig, RestoreData, RestoreState, SaveError
  <2> QED
    BY <1>1, <2>2, <2>3, <2>4, <2>6, <2>7, EngineSteps DEF StoreStep
<1>2. at' \notin LoadedPoint => InputsInv'
  BY DEF InputsInv
<1>3. ASSUME NEW p \in Proc, Start(p)
      PROVE  InputsInv'
  BY <1>2, <1>3, ViewStart DEF Operation
<1>4. CASE Resting
  BY <1>2, <1>4 DEF Resting, InputsInv
<1>5. CASE Reboot \/ \E p \in Proc : Crash(p)
  BY <1>2, <1>5, ViewEnd
<1>6. CASE Intrude
  BY <1>6, ViewIntrude DEF Intruded, InputsInv
<1> QED
  BY <1>1, <1>3, <1>4, <1>5, <1>6, ViewRest DEF Next

-----------------------------------------------------------------------------
(* The safety point *)

\* SafetyPoint, for the one handler there is.
Saved ==
    /\ snapshots # <<>>
    /\ snapshots[Len(snapshots)] =
           [cfg |-> configFile, state |-> stateFile, data |-> dataFile]
SafetyInv == at \in Mutating => Saved

LEMMA MutatingLoaded == Mutating \subseteq LoadedPoint
  BY DEF Mutating, LoadedPoint, ApplyPoint, UndoPoint, DisablePoint

LEMMA LastAdded ==
    ASSUME NEW S, NEW list \in Seq(S), NEW e \in S
    PROVE  Append(list, e) # <<>> /\ Append(list, e)[Len(Append(list, e))] = e
  OBVIOUS

LEMMA WriteSnapshotSaves ==
    ASSUME TypeOK, OneHandler, PrevInv, InputsInv, NEW p \in Proc,
           NEW from \in {"snapshot", "dSnapshot"}, NEW to, WriteSnapshot(p, from, to)
    PROVE  at' = "idle" \/ (at' = to /\ own' = own /\ Saved')
<1>1. CASE SaveError(p, from)
  BY <1>1, ViewHandler DEF SaveError
<1>2. CASE ~SaveError(p, from)
  <2>1. /\ pc[p] = from
        /\ snapshots' = Append(snapshots, [cfg |-> frame[p].cfg,
                          state |-> frame[p].prev, data |-> frame[p].data])
        /\ Continue(p, to)
        /\ UNCHANGED <<configFile, dataFile, stateFile>>
    BY <1>2 DEF WriteSnapshot, AddSnapshot
  <2>2. /\ at \in LoadedPoint /\ own = frame[p] /\ at' = to /\ own' = own
    BY <2>1, ViewHandler DEF LoadedPoint, ApplyPoint, DisablePoint
  <2>3. snapshots' = Append(snapshots, [cfg |-> configFile, state |-> stateFile,
                                        data |-> dataFile])
    BY <2>1, <2>2 DEF PrevInv, InputsInv
  <2>4. /\ snapshots \in Seq(Snapshot)
        /\ [cfg |-> configFile, state |-> stateFile, data |-> dataFile] \in Snapshot
    BY DEF TypeOK, DiskTypeOK, Snapshot
  <2>5. Saved'
    BY <2>1, <2>3, <2>4, LastAdded DEF Saved
  <2> QED
    BY <2>2, <2>5
<1> QED
  BY <1>1, <1>2

LEMMA SafetyNext ==
    ASSUME ~SharedStore, TypeOK, OneHandler, PrevInv, InputsInv, SafetyInv,
           [Next]_vars
    PROVE  SafetyInv'
<1>1. at' \notin Mutating => SafetyInv'
  BY DEF SafetyInv
<1>2. UNCHANGED disk /\ at \in Mutating => SafetyInv'
  BY DEF SafetyInv, Saved
<1>3. ASSUME NEW p \in Proc, EngineStep(p)
      PROVE  SafetyInv'
  <2>1. pc[p] # "idle"
    BY <1>3, ViewStep
  <2>2. CASE KernelStep(p)
    BY <1>1, <1>2, <2>1, <2>2, ViewKernelStep DEF Mutating, UndoPoint
  <2>3. CASE \/ LoadInputs(p, "apply", "persist")
             \/ LoadInputs(p, "disable", "dSnapshot")
             \/ PersistConfig(p)
    BY <1>1, <2>1, <2>3, ViewLoadInputs, ViewHandler DEF PersistConfig, SaveError,
       Mutating, UndoPoint
  <2>4. CASE WriteSnapshot(p, "snapshot", "flush") \/ DisableSnapshot(p)
    BY <1>1, <2>4, WriteSnapshotSaves DEF DisableSnapshot, SafetyInv, Mutating,
       UndoPoint
  <2>5. CASE RecordApply(p)
    BY <1>1, <1>2, <2>1, <2>5, ViewHandler DEF RecordApply, Mutating, UndoPoint
  <2>6. CASE RecordDisable(p)
    BY <1>1, <2>1, <2>6, ViewRecordDisable, ViewHandler DEF Mutating, UndoPoint
  <2>7. CASE RollbackStep(p)
    BY <1>1, <2>1, <2>7, ViewHandler, ViewLoadSnapshot DEF RollbackStep,
       RestoreConfig, RestoreData, RestoreState, SaveError, Mutating, UndoPoint
  <2> QED
    BY <1>3, <2>2, <2>3, <2>4, <2>5, <2>6, <2>7, EngineSteps DEF StoreStep
<1>4. ASSUME NEW p \in Proc, Start(p)
      PROVE  SafetyInv'
  BY <1>1, <1>4, ViewStart DEF Operation, Mutating, UndoPoint
<1>5. CASE Resting
  BY <1>1, <1>2, <1>5 DEF Resting, Mutating, UndoPoint
<1>6. CASE Reboot \/ \E p \in Proc : Crash(p)
  BY <1>1, <1>6, ViewEnd DEF Mutating, UndoPoint
<1>7. CASE Intrude
  BY <1>7, ViewIntrude DEF Intruded, SafetyInv, Saved
<1> QED
  BY <1>3, <1>4, <1>5, <1>6, <1>7, ViewRest DEF Next

LEMMA InitView == Init => at = "idle" /\ own = NoFrame
  BY DEF Init, at, own, LockFree

LEMMA PrevCorrect == Spec => []PrevInv
<1>1. Init => PrevInv
  BY InitView DEF PrevInv, LoadedPoint, ApplyPoint, UndoPoint, DisablePoint
<1>2. TypeOK /\ OneHandler /\ PrevInv /\ [Next]_vars => PrevInv'
  BY PrevNext
<1> QED
  BY <1>1, <1>2, TypeCorrect, OneHandlerCorrect, PTL DEF Spec

LEMMA InputsCorrect == ASSUME ~SharedStore PROVE Spec => []InputsInv
<1>1. Init => InputsInv
  BY InitView DEF InputsInv, LoadedPoint, ApplyPoint, UndoPoint, DisablePoint
<1>2. TypeOK /\ OneHandler /\ InputsInv /\ [Next]_vars => InputsInv'
  BY InputsNext
<1> QED
  BY <1>1, <1>2, TypeCorrect, OneHandlerCorrect, PTL DEF Spec

\* As long as nobody writes the configuration or the CIDR list under a held lock:
\* from the first route that apply or disable touches to its last command, and
\* through the undo of a failed apply, the newest snapshot is exactly what is on
\* disk, whatever fails and whenever the host reboots or a process is killed.
THEOREM SafetyPointCorrect ==
    ASSUME ~SharedStore
    PROVE  Spec => []SafetyPoint
<1>1. Init => SafetyInv
  BY InitView DEF SafetyInv, Mutating, UndoPoint
<1>2. TypeOK /\ OneHandler /\ PrevInv /\ InputsInv /\ SafetyInv /\ [Next]_vars
        => SafetyInv'
  BY SafetyNext
<1>3. TypeOK /\ OneHandler /\ SafetyInv => SafetyPoint
  <2> SUFFICES ASSUME TypeOK, OneHandler, SafetyInv, NEW p \in Proc,
                      pc[p] \in Mutating
               PROVE  Saved
    BY DEF SafetyPoint, Saved
  <2>1. pc[p] # "idle"
    BY DEF Mutating, UndoPoint
  <2> QED
    BY <2>1, ViewHandler DEF SafetyInv
<1> QED
  BY <1>1, <1>2, <1>3, TypeCorrect, OneHandlerCorrect, PrevCorrect, InputsCorrect,
     PTL DEF Spec

-----------------------------------------------------------------------------
(* What a handler does to rules and to tables *)

DeletePoint == {"unset", "undoMainRoutes", "undoSource", "undoMain",
                "dMainRoutes", "dSource", "dMain"}
FillPoint == {"flush", "load", "local"}
WipePoint == {"dFlushLocal", "dFlushA", "dFlushB"}

\* A handler adds only rules of its own, and deletes only at certain points.
LEMMA RuleStep ==
    ASSUME TypeOK, OneHandler, NEW p \in Proc, EngineStep(p), NEW r \in RuleName
    PROVE  /\ "foreign" \in Range(rules'[r]) => "foreign" \in Range(rules[r])
           /\ at \notin DeletePoint => Range(rules[r]) \subseteq Range(rules'[r])
           /\ \/ Range(rules[r]) \subseteq Range(rules'[r])
              \/ Range(rules'[r]) = {}
              \/ "ruleDel" \in Faults
<1>1. pc[p] # "idle"
  BY ViewStep
<1>2. CASE UNCHANGED rules
  BY <1>2
<1>3. ASSUME NEW q \in RuleName, DeletePriority(q), at \in DeletePoint
      PROVE  /\ "foreign" \in Range(rules'[r]) => "foreign" \in Range(rules[r])
             /\ \/ Range(rules[r]) \subseteq Range(rules'[r])
                \/ Range(rules'[r]) = {}
                \/ "ruleDel" \in Faults
  BY <1>3, DeleteRange, DeleteAll
<1>4. ASSUME NEW q \in RuleName, NEW t \in Lookup \ {"foreign"}, TryAddRule(q, t)
      PROVE  /\ "foreign" \in Range(rules'[r]) => "foreign" \in Range(rules[r])
             /\ Range(rules[r]) \subseteq Range(rules'[r])
  BY <1>4, TryAddRange
<1>5. CASE \/ EnsureRule(p, "mainRoutes", "mainRoutes", "main", "source")
           \/ EnsureRule(p, "source", "source", "Local", "unset")
  BY <1>2, <1>4, <1>5, EmptyRange DEF EnsureRule, TryAddRule, RuleName, Lookup,
     TableName
<1>6. CASE UnsetMain(p)
  BY <1>1, <1>3, <1>6, ViewHandler DEF UnsetMain, DeletePoint, RuleName
<1>7. CASE SetMain(p)
  <2>1. Target(frame[p].prev) \in Lookup \ {"foreign"}
    BY TargetType DEF Slot, Lookup, TableName
  <2> QED
    BY <1>4, <1>7, <2>1 DEF SetMain, TryAddRule, RuleName
<1>8. CASE \/ ClearRule(p, "undoMainRoutes", "mainRoutes", "undoSource")
           \/ ClearRule(p, "undoSource", "source", "undoMain")
           \/ UndoMain(p)
           \/ ClearRule(p, "dMainRoutes", "mainRoutes", "dSource")
           \/ ClearRule(p, "dSource", "source", "dMain")
           \/ ClearRule(p, "dMain", "main", "dDNS")
  BY <1>1, <1>3, <1>8, ViewHandler DEF ClearRule, UndoMain, DeletePoint, RuleName
<1>9. CASE \/ RestoreRule(p, "redoMainRoutes", "mainRoutes", "redoSource")
           \/ RestoreRule(p, "redoSource", "source", "redoMain")
           \/ RestoreMain(p)
  <2>1. pc[p] \in RedoPoint
    BY <1>9 DEF RestoreRule, RestoreMain
  <2>2. \A q \in RuleName : Expected(q, frame[p].prev) \in Lookup \ {"foreign"}
    <3> SUFFICES ASSUME NEW q \in RuleName
                 PROVE  Expected(q, frame[p].prev) \in Lookup \ {"foreign"}
      OBVIOUS
    <3>1. frame[p].prev \in State
      BY DEF TypeOK, ControlTypeOK, Frame
    <3>2. Expected(q, frame[p].prev) # "foreign"
      BY <3>1 DEF Expected, RuleName, State, Slot
    <3> QED
      BY <2>1, <3>2, RedoType
  <2> QED
    BY <1>4, <1>9, <2>2 DEF RestoreRule, RestoreMain, RuleName
<1> QED
  BY <1>2, <1>5, <1>6, <1>7, <1>8, <1>9 DEF EngineStep, ApplyStep, UndoStep,
     DisableStep, RollbackStep, LoadInputs, ReadError, SaveError, PersistConfig,
     CheckHost, WriteSnapshot, FlushTarget, LoadTarget, LoadLocal, ConfigureDNS,
     RecordApply, UndoDNS, DisableSnapshot, DisableDNS, DisableFlush,
     RecordDisable, LoadSnapshot, RestoreConfig, RestoreData, RestoreState

LEMMA ContentsApart ==
    /\ Foreign \notin {Empty, Torn, WholeLocal}
    /\ \A c, d : Whole(c, d) \notin {Empty, Torn, Foreign}
  BY DEF Foreign, Empty, Torn, WholeLocal, Whole

\* A handler writes to tables only at certain points, and only its own contents.
LEMMA TableStep ==
    ASSUME TypeOK, OneHandler, NEW p \in Proc, EngineStep(p), NEW t \in TableName
    PROVE  /\ table'[t] = Foreign => table[t] = Foreign
           /\ at \notin FillPoint \cup WipePoint => UNCHANGED table
<1>1. pc[p] # "idle"
  BY ViewStep
<1>2. CASE UNCHANGED table
  BY <1>2
<1>3. ASSUME NEW u \in TableName, NEW c, SetTable(u, c), c # Foreign
      PROVE  table'[t] = Foreign => table[t] = Foreign
  BY <1>3, SetTableAt
<1>4. CASE FlushTarget(p) \/ LoadTarget(p)
  <2>1. Target(frame[p].prev) \in TableName
    BY TargetType DEF TableName
  <2> QED
    BY <1>1, <1>2, <1>3, <1>4, <2>1, ContentsApart, ViewHandler
       DEF FlushTarget, LoadTarget, FlushFails, FillPoint
<1>5. CASE LoadLocal(p)
  BY <1>1, <1>2, <1>3, <1>5, ContentsApart, ViewHandler
     DEF LoadLocal, FillPoint, TableName
<1>6. CASE \/ DisableFlush(p, "dFlushLocal", "Local", "dFlushA")
           \/ DisableFlush(p, "dFlushA", "A", "dFlushB")
           \/ DisableFlush(p, "dFlushB", "B", "dRecord")
  BY <1>1, <1>2, <1>3, <1>6, ContentsApart, ViewHandler
     DEF DisableFlush, FlushFails, WipePoint, TableName, Slot
<1> QED
  BY <1>2, <1>4, <1>5, <1>6 DEF EngineStep, ApplyStep, UndoStep,
     DisableStep, RollbackStep, LoadInputs, ReadError, SaveError, PersistConfig,
     CheckHost, WriteSnapshot, EnsureRule, UnsetMain, SetMain, ConfigureDNS,
     RecordApply, UndoDNS, ClearRule, UndoMain, RestoreRule, RestoreMain,
     DisableSnapshot, DisableDNS, RecordDisable, LoadSnapshot, RestoreConfig,
     RestoreData, RestoreState

-----------------------------------------------------------------------------
(* The control flow, and the steps that change the record *)

Flow ==
    \/ at = "apply" /\ at' = "persist"
    \/ at = "persist" /\ at' = "check"
    \/ at = "check" /\ at' = "snapshot" /\ HostAccepts(own.prev)
    \/ at = "snapshot" /\ at' = "flush"
    \/ at = "flush" /\ at' = "load"
    \/ at = "load" /\ at' = "local"
    \/ at = "local" /\ at' = "mainRoutes"
    \/ at = "mainRoutes" /\ at' = "source"
    \/ at = "source" /\ at' = "unset"
    \/ at = "unset" /\ at' = "set"
    \/ at = "set" /\ at' = "dns"
    \/ at = "dns" /\ at' = "record"
    \/ at \in {"mainRoutes", "source", "set"} /\ at' = "undoMainRoutes"
    \/ at \in {"dns", "record"} /\ at' = "undoMainRoutes" /\ own.prev.dnsManaged
    \/ at \in {"dns", "record"} /\ at' = "undoDNS" /\ ~own.prev.dnsManaged
    \/ at = "undoDNS" /\ at' = "undoMainRoutes"
    \/ at = "undoMainRoutes" /\ at' = "undoSource"
    \/ at = "undoSource" /\ at' = "undoMain"
    \/ at = "undoMain" /\ at' = "redoMainRoutes" /\ Restorable(own.prev)
    \/ at = "redoMainRoutes" /\ at' = "redoSource"
    \/ at = "redoSource" /\ at' = "redoMain"
    \/ at = "disable" /\ at' = "dSnapshot"
    \/ at = "dSnapshot" /\ at' = IF own.prev.enabled THEN "dMainRoutes" ELSE "dDNS"
    \/ at = "dMainRoutes" /\ at' = "dSource"
    \/ at = "dSource" /\ at' = "dMain"
    \/ at = "dMain" /\ at' = "dDNS"
    \/ at = "dDNS" /\ at' = "dFlushLocal"
    \/ at = "dFlushLocal" /\ at' = "dFlushA"
    \/ at = "dFlushA" /\ at' = "dFlushB"
    \/ at = "dFlushB" /\ at' = "dRecord"
    \/ at = "dRecord" /\ at' = "rConfig" /\ own.op = "rollback" /\ ~own.problems
    \/ at = "rollback" /\ at' = IF stateFile.enabled THEN "disable" ELSE "rConfig"
    \/ at = "rConfig" /\ at' = "rData"
    \/ at = "rData" /\ at' = "rState"
    \/ at = "rState" /\ at' = "apply" /\ snapshots[own.snap].state.enabled

\* Where a handler can end.
EndPoint == {"apply", "persist", "check", "snapshot", "flush", "load", "local",
             "record", "undoMain", "redoMain", "disable", "dSnapshot", "dRecord"}
                \cup RollbackPoint

LEMMA FlowStep ==
    ASSUME TypeOK, OneHandler, NEW p \in Proc, EngineStep(p)
    PROVE  /\ at # "idle"
           /\ Flow \/ (at' = "idle" /\ at \in EndPoint)
           /\ at' = "idle" /\ at = "undoMain" => ~Restorable(own.prev)
           /\ at \notin {"apply", "disable", "rollback"} /\ at' # "idle" => Kept
           /\ at' # "idle" => own'.op = own.op
           /\ at' # "idle" /\ at # "rollback" => own'.snap = own.snap
<1> USE DEF Flow, EndPoint, RollbackPoint, Kept
<1>1. pc[p] # "idle" /\ at = pc[p] /\ own = frame[p]
  BY ViewStep, ViewHandler
<1>2. CASE \/ LoadInputs(p, "apply", "persist")
           \/ LoadInputs(p, "disable", "dSnapshot")
  BY <1>1, <1>2, ViewLoadInputs
<1>3. CASE PersistConfig(p) \/ CheckHost(p) \/ WriteSnapshot(p, "snapshot", "flush")
  BY <1>1, <1>3, ViewHandler DEF PersistConfig, CheckHost, WriteSnapshot,
     SaveError, ReadError, Kept
<1>4. CASE FlushTarget(p) \/ LoadTarget(p) \/ LoadLocal(p)
  BY <1>1, <1>4, ViewHandler DEF FlushTarget, LoadTarget, LoadLocal, Kept
<1>5. CASE \/ EnsureRule(p, "mainRoutes", "mainRoutes", "main", "source")
           \/ EnsureRule(p, "source", "source", "Local", "unset")
           \/ UnsetMain(p) \/ SetMain(p)
  BY <1>1, <1>5, ViewHandler DEF EnsureRule, UnsetMain, SetMain, Kept
<1>6. CASE ConfigureDNS(p) \/ RecordApply(p)
  BY <1>1, <1>6, ViewHandler DEF ConfigureDNS, RecordApply, Kept
<1>7. CASE \/ UndoDNS(p)
           \/ ClearRule(p, "undoMainRoutes", "mainRoutes", "undoSource")
           \/ ClearRule(p, "undoSource", "source", "undoMain")
           \/ ClearRule(p, "dMainRoutes", "mainRoutes", "dSource")
           \/ ClearRule(p, "dSource", "source", "dMain")
           \/ ClearRule(p, "dMain", "main", "dDNS")
  BY <1>1, <1>7, ViewHandler DEF UndoDNS, ClearRule, Kept
<1>8. CASE UndoMain(p)
  BY <1>1, <1>8, ViewHandler DEF UndoMain, Kept
<1>9. CASE \/ RestoreRule(p, "redoMainRoutes", "mainRoutes", "redoSource")
           \/ RestoreRule(p, "redoSource", "source", "redoMain")
           \/ RestoreMain(p)
  BY <1>1, <1>9, ViewHandler DEF RestoreRule, RestoreMain, Kept
<1>10. CASE DisableSnapshot(p)
  BY <1>1, <1>10, ViewHandler DEF DisableSnapshot, WriteSnapshot, SaveError, Kept
<1>11. CASE \/ DisableDNS(p)
            \/ DisableFlush(p, "dFlushLocal", "Local", "dFlushA")
            \/ DisableFlush(p, "dFlushA", "A", "dFlushB")
            \/ DisableFlush(p, "dFlushB", "B", "dRecord")
  BY <1>1, <1>11, ViewDisableDNS, ViewDisableFlush
<1>12. CASE RecordDisable(p)
  BY <1>1, <1>12, ViewRecordDisable, ViewHandler DEF Kept
<1>13. CASE LoadSnapshot(p)
  BY <1>1, <1>13, ViewLoadSnapshot
<1>14. CASE RestoreConfig(p) \/ RestoreData(p) \/ RestoreState(p)
  BY <1>1, <1>14, ViewHandler DEF RestoreConfig, RestoreData, RestoreState,
     SaveError, Kept
<1> QED
  BY <1>2, <1>3, <1>4, <1>5, <1>6, <1>7, <1>8, <1>9, <1>10, <1>11, <1>12, <1>13,
     <1>14 DEF EngineStep, ApplyStep, UndoStep, DisableStep, RollbackStep

-----------------------------------------------------------------------------
(* What belongs to other programs *)

CheckedPoint == {"snapshot", "mainRoutes", "source", "set", "dns", "record", "unset"}
                    \cup FillPoint \cup UndoPoint
DownPoint == {"dMainRoutes", "dSource", "dMain"}

\* From its check on an apply meets rules of others only where its own are, and
\* routes of others only if the record says enabled; disable deletes rules only
\* if the record does.
Beside(prev) ==
    /\ \A r \in RuleName : "foreign" \in Range(rules[r]) =>
          prev.enabled /\ Expected(r, prev) \in Range(rules[r])
    /\ ~prev.enabled => \A t \in TableName : table[t] # Foreign
YieldInv ==
    /\ at \in CheckedPoint => Beside(own.prev)
    /\ at \in DownPoint => own.prev.enabled

LEMMA CheckedBeside ==
    ASSUME NEW prev \in State, HostAccepts(prev)
    PROVE  Beside(prev)
<1>1. Range(<<>>) = {}
  BY EmptyRange
<1> QED
  BY <1>1, ContentsApart DEF HostAccepts, ManagedRulesValid, ResourcesFree, Beside

LEMMA YieldNext ==
    ASSUME {"ruleDel", "race"} \cap Faults = {}, TypeOK, OneHandler, YieldInv,
           [Next]_vars
    PROVE  YieldInv'
<1> USE DEF CheckedPoint, DownPoint, FillPoint, UndoPoint
<1>1. at' \notin CheckedPoint \cup DownPoint => YieldInv'
  BY DEF YieldInv
<1>2. ASSUME NEW p \in Proc, EngineStep(p)
      PROVE  YieldInv'
  <2>1. at # "idle" /\ own \in Frame /\ at = pc[p] /\ own = frame[p]
    BY <1>2, FlowStep, ViewStep, ViewHandler
  <2>2. CASE at \in CheckedPoint /\ at' \in CheckedPoint
    <3>1. own'.prev = own.prev /\ Beside(own.prev)
      BY <1>2, <2>2, FlowStep DEF Kept, YieldInv
    <3>2. \A r \in RuleName : "foreign" \in Range(rules'[r]) =>
             own.prev.enabled /\ Expected(r, own.prev) \in Range(rules'[r])
      BY <1>2, <3>1, RuleStep DEF Beside
    <3>3. \A t \in TableName : table'[t] = Foreign => table[t] = Foreign
      BY <1>2, TableStep
    <3> QED
      BY <2>2, <3>1, <3>2, <3>3 DEF YieldInv, Beside, Expected
  <2>3. CASE at = "check" /\ at' = "snapshot"
    <3>1. own'.prev = own.prev /\ HostAccepts(own.prev) /\ own.prev \in State
      BY <1>2, <2>1, <2>3, FlowStep DEF Kept, Flow, Frame
    <3>2. UNCHANGED <<rules, table>>
      BY <1>2, <2>1, <2>3 DEF EngineStep, ApplyStep, LoadInputs, ReadError, SaveError,
         PersistConfig, CheckHost, WriteSnapshot, FlushTarget, LoadTarget, LoadLocal,
         EnsureRule, UnsetMain, SetMain, ConfigureDNS, RecordApply, UndoStep, UndoDNS,
         ClearRule, UndoMain, RestoreRule, RestoreMain, DisableStep, DisableSnapshot,
         DisableDNS, DisableFlush, RecordDisable, RollbackStep, LoadSnapshot,
         RestoreConfig, RestoreData, RestoreState
    <3> QED
      BY <2>3, <3>1, <3>2, CheckedBeside DEF YieldInv, Beside, Expected
  <2>4. CASE at' \in DownPoint
    <3>1. own'.prev = own.prev /\ own.prev.enabled
      BY <1>2, <2>4, FlowStep DEF Kept, Flow, YieldInv
    <3> QED
      BY <2>4, <3>1 DEF YieldInv
  <2> QED
    BY <1>1, <1>2, <2>2, <2>3, <2>4, FlowStep DEF Flow
<1>3. ASSUME NEW p \in Proc, Start(p)
      PROVE  YieldInv'
  BY <1>1, <1>3, ViewStart DEF Operation
<1>4. CASE Resting
  BY <1>4 DEF Resting, YieldInv, Beside, Expected
<1>5. CASE Reboot \/ \E p \in Proc : Crash(p)
  BY <1>1, <1>5, ViewEnd
<1>6. CASE Intrude
  <2>1. LockFree /\ UNCHANGED lock
    BY <1>6, IntrudeAdds
  <2> QED
    BY <1>1, <2>1 DEF at, LockFree
<1> QED
  BY <1>2, <1>3, <1>4, <1>5, <1>6, ViewRest DEF Next

\* As long as `ip rule del` does what it is told and others act between commands,
\* and whatever else fails, is killed or edited meanwhile, however often the host
\* reboots: a rule of another program is deleted only under a record that says
\* enabled, by a disable or beside irroute's own rule; its routes go only with an
\* apply under such a record or a disable.
THEOREM NoForeignLossCorrect ==
    ASSUME {"ruleDel", "race"} \cap Faults = {}
    PROVE  Spec => NoForeignLoss
<1>1. Init => YieldInv
  BY InitView DEF YieldInv, CheckedPoint, DownPoint, FillPoint, UndoPoint
<1>2. TypeOK /\ OneHandler /\ YieldInv /\ [Next]_vars => YieldInv'
  BY YieldNext
<1>3. ASSUME TypeOK, OneHandler, YieldInv, [Next]_vars
      PROVE  ForeignKept
  <2>1. UNCHANGED <<rules, table>> => ForeignKept
    BY DEF ForeignKept
  <2>2. ASSUME NEW p \in Proc, pc[p] # "idle", pc[p] \in DeletePoint,
               NEW r \in RuleName, "foreign" \in Range(rules[r])
        PROVE  Owned(p, r)
    BY <1>3, <2>2, ViewHandler DEF Owned, YieldInv, Beside, DeletePoint,
       CheckedPoint, DownPoint, UndoPoint
  <2>3. ASSUME NEW p \in Proc, pc[p] # "idle", pc[p] \in FillPoint \cup WipePoint,
               NEW t \in TableName, table[t] = Foreign
        PROVE  MayFlush(p)
    BY <1>3, <2>3, ViewHandler DEF MayFlush, YieldInv, Beside, CheckedPoint, WipePoint
  <2>4. ASSUME NEW p \in Proc, EngineStep(p)
        PROVE  ForeignKept
    <3>1. pc[p] # "idle" /\ at = pc[p]
      BY <1>3, <2>4, ViewStep, ViewHandler
    <3>2. \A r \in RuleName : pc[p] \notin DeletePoint =>
             Range(rules[r]) \subseteq Range(rules'[r])
      BY <1>3, <2>4, <3>1, RuleStep
    <3>3. pc[p] \notin FillPoint \cup WipePoint => UNCHANGED table
      BY <1>3, <2>4, <3>1, TableStep DEF TableName
    <3> QED
      BY <2>2, <2>3, <3>1, <3>2, <3>3 DEF ForeignKept
  <2>5. ASSUME NEW p \in Proc, Crash(p)
        PROVE  ForeignKept
    <3>1. pc[p] # "idle"
      BY <2>5 DEF Crash
    <3>2. \A r \in RuleName : pc[p] \notin DeletePoint => rules'[r] = rules[r]
      BY <1>3, <2>5, CrashRules DEF Deleting, DeletePoint
    <3>3. pc[p] \notin FillPoint \cup WipePoint => UNCHANGED table
      BY <2>5 DEF Crash, Writing, FillPoint, WipePoint
    <3> QED
      BY <2>2, <2>3, <3>1, <3>2, <3>3 DEF ForeignKept
  <2>6. CASE Reboot
    <3>1. \A r \in RuleName : "foreign" \in Range(rules[r]) =>
             rules'[r] = <<"foreign">>
      BY <2>6 DEF Reboot
    <3>2. "foreign" \in Range(<<"foreign">>)
      BY DEF Range
    <3>3. \A t \in TableName : table[t] = Foreign => table'[t] = Foreign
      BY <2>6 DEF Reboot
    <3> QED
      BY <3>1, <3>2, <3>3 DEF ForeignKept
  <2>7. ASSUME NEW p \in Proc, Start(p) PROVE ForeignKept
    BY <1>3, <2>1, <2>7, ViewStart
  <2>8. CASE Intrude
    BY <1>3, <2>8, IntrudeAdds, ContentsApart DEF ForeignKept
  <2> QED
    BY <1>3, <2>1, <2>4, <2>5, <2>6, <2>7, <2>8, ViewRest DEF Next, Resting
<1>4. TypeOK /\ OneHandler /\ YieldInv /\ [Next]_vars => [ForeignKept]_vars
  BY <1>3
<1> QED
  BY <1>1, <1>2, <1>4, TypeCorrect, OneHandlerCorrect, PTL DEF Spec, NoForeignLoss

-----------------------------------------------------------------------------
(* The steps that change the record *)

\* The record changes at three points.
LEMMA RecordStep ==
    ASSUME TypeOK, OneHandler, NEW p \in Proc, EngineStep(p)
    PROVE  \/ UNCHANGED stateFile /\ (at \in {"record", "dRecord"} => Faulty("save"))
                                  /\ ~(at = "record" /\ at' = "idle")
                                  /\ ~(at = "dRecord" /\ at' = "rConfig")
                                  /\ ~(at = "rState" /\ at' = "apply")
           \/ at = "record" /\ at' = "idle" /\ stateFile' = Applied(own)
           \/ at = "dRecord" /\ at' \in {"idle", "rConfig"} /\ stateFile' = Disabled(own)
           \/ /\ at = "rState" /\ own.op = "rollback"
              /\ snapshots[own.snap] \in Snapshot
              /\ stateFile' = Restored(snapshots[own.snap].state)
              /\ at' = IF snapshots[own.snap].state.enabled THEN "apply" ELSE "idle"
<1>1. pc[p] # "idle" /\ at = pc[p] /\ own = frame[p]
  BY ViewStep, ViewHandler
<1>2. CASE KernelStep(p)
  BY <1>1, <1>2, ViewKernelStep DEF LoadedPoint, ApplyPoint, UndoPoint, DisablePoint
<1>3. CASE \/ LoadInputs(p, "apply", "persist")
           \/ LoadInputs(p, "disable", "dSnapshot")
  BY <1>1, <1>3, ViewLoadInputs
<1>4. CASE \/ PersistConfig(p)
           \/ WriteSnapshot(p, "snapshot", "flush") \/ DisableSnapshot(p)
  BY <1>1, <1>4, ViewHandler DEF PersistConfig, WriteSnapshot, DisableSnapshot,
     SaveError
<1>5. CASE RecordApply(p)
  BY <1>1, <1>5, ViewHandler DEF RecordApply
<1>6. CASE RecordDisable(p)
  BY <1>1, <1>6, ViewRecordDisable, ViewHandler
<1>7. CASE LoadSnapshot(p)
  BY <1>1, <1>7, ViewLoadSnapshot
<1>8. CASE RestoreConfig(p) \/ RestoreData(p)
  BY <1>1, <1>8, ViewHandler DEF RestoreConfig, RestoreData, SaveError
<1>9. CASE SaveError(p, "rState")
  BY <1>1, <1>9, ViewHandler DEF SaveError
<1>10. CASE RestoreState(p) /\ ~SaveError(p, "rState")
  <2>1. own.op = "rollback" /\ snapshots[own.snap] \in Snapshot
    BY <1>1, <1>10, ChosenSnapshot DEF RestoreState, RestorePoint, RollbackPoint
  <2> QED
    BY <1>1, <1>10, <2>1, ViewHandler DEF RestoreState
<1> QED
  BY <1>2, <1>3, <1>4, <1>5, <1>6, <1>7, <1>8, <1>9, <1>10, EngineSteps
     DEF StoreStep, RollbackStep

-----------------------------------------------------------------------------
(* The live slot and the record *)

\* A state on disk is enabled exactly when it names a slot.
RecordInv == stateFile.enabled <=> stateFile.active \in Slot

LEMMA RecordedStates ==
    ASSUME NEW f \in Frame
    PROVE  /\ Applied(f).enabled /\ Applied(f).active = Target(f.prev)
           /\ Applied(f).sha = f.data /\ Applied(f).dnsManaged = (f.cfg \in Managed)
           /\ ~Disabled(f).enabled /\ Disabled(f).active = "none"
           /\ Disabled(f).dnsManaged = f.dnsKept
  BY DEF Applied, Disabled, Frame, State

LEMMA RestoredStates ==
    ASSUME NEW s \in Snapshot
    PROVE  /\ ~Restored(s.state).enabled /\ Restored(s.state).active = "none"
           /\ Restored(s.state).dnsManaged = s.state.dnsManaged
  BY DEF Restored, Snapshot, State

LEMMA RecordNext ==
    ASSUME TypeOK, OneHandler, RecordInv, [Next]_vars
    PROVE  RecordInv'
<1>1. UNCHANGED stateFile => RecordInv'
  BY DEF RecordInv
<1>2. ASSUME NEW p \in Proc, EngineStep(p)
      PROVE  RecordInv'
  BY <1>1, <1>2, RecordStep, RecordedStates, RestoredStates, ViewStep, TargetType
     DEF RecordInv, Slot
<1>3. ASSUME NEW p \in Proc, Start(p)
      PROVE  RecordInv'
  BY <1>1, <1>3, ViewStart
<1>4. CASE Intrude
  BY <1>1, <1>4, ViewIntrude DEF Intruded
<1> QED
  BY <1>1, <1>2, <1>3, <1>4, ViewRest, ViewEnd DEF Next, Resting

\* The main priority changes at five points.
LEMMA MainStep ==
    ASSUME TypeOK, OneHandler, NEW p \in Proc, EngineStep(p)
    PROVE  /\ at \notin {"unset", "set", "undoMain", "redoMain", "dMain"}
                 => UNCHANGED LiveSlot
           /\ at \in {"unset", "undoMain", "dMain"} => DeletePriority("main")
           /\ at = "set" =>
                 \/ AddRule("main", Target(own.prev)) /\ at' = "dns"
                 \/ UNCHANGED rules /\ at' = "undoMainRoutes"
           /\ at = "redoMain" => TryAddRule("main", Expected("main", own.prev))
<1>1. pc[p] # "idle" /\ at = pc[p] /\ own = frame[p]
  BY ViewStep, ViewHandler
<1>2. rules'["main"] = rules["main"] => UNCHANGED LiveSlot
  BY DEF LiveSlot
<1>3. CASE UNCHANGED rules /\ pc[p] \notin {"unset", "set", "undoMain", "redoMain", "dMain"}
  BY <1>1, <1>2, <1>3
<1>4. CASE \/ EnsureRule(p, "mainRoutes", "mainRoutes", "main", "source")
           \/ EnsureRule(p, "source", "source", "Local", "unset")
           \/ ClearRule(p, "undoMainRoutes", "mainRoutes", "undoSource")
           \/ ClearRule(p, "undoSource", "source", "undoMain")
           \/ RestoreRule(p, "redoMainRoutes", "mainRoutes", "redoSource")
           \/ RestoreRule(p, "redoSource", "source", "redoMain")
           \/ ClearRule(p, "dMainRoutes", "mainRoutes", "dSource")
           \/ ClearRule(p, "dSource", "source", "dMain")
  BY <1>1, <1>2, <1>4, OtherPriority DEF EnsureRule, ClearRule, RestoreRule,
     TryAddRule, RuleName
<1>5. CASE UnsetMain(p) \/ UndoMain(p) \/ ClearRule(p, "dMain", "main", "dDNS")
  BY <1>1, <1>5 DEF UnsetMain, UndoMain, ClearRule
<1>6. CASE SetMain(p) \/ RestoreMain(p)
  BY <1>1, <1>6, ViewHandler DEF SetMain, RestoreMain
<1> QED
  BY <1>3, <1>4, <1>5, <1>6 DEF EngineStep, ApplyStep, UndoStep, DisableStep,
     RollbackStep, LoadInputs, ReadError, SaveError, PersistConfig, CheckHost,
     WriteSnapshot, FlushTarget, LoadTarget, LoadLocal, ConfigureDNS, RecordApply,
     UndoDNS, DisableSnapshot, DisableDNS, DisableFlush, RecordDisable,
     LoadSnapshot, RestoreConfig, RestoreData, RestoreState

\* The slots that a main rule may look up at each point.
OnRecord == {stateFile.active} \cap Slot
MayBeLive ==
    CASE at \in {"set"} \cup RedoPoint \cup BarePoint -> {}
      [] at \in {"dns", "record"} -> {Target(stateFile)}
      [] at \in UndoPoint \ RedoPoint -> OnRecord \cup {Target(stateFile)}
      [] OTHER -> OnRecord
LiveInv ==
    /\ LiveSlot \subseteq MayBeLive
    /\ at \in {"dns", "record"} => LiveSlot # {}

LEMMA MayBeLiveAt ==
    /\ at \in {"set"} \cup RedoPoint \cup BarePoint => MayBeLive = {}
    /\ at \in {"dns", "record"} => MayBeLive = {Target(stateFile)}
    /\ at \in UndoPoint \ RedoPoint => MayBeLive = OnRecord \cup {Target(stateFile)}
    /\ at \notin {"set", "dns", "record"} \cup UndoPoint \cup BarePoint
          => MayBeLive = OnRecord
  BY DEF MayBeLive, UndoPoint, BarePoint, RedoPoint, FlushPoint, RestorePoint,
     RollbackPoint

LEMMA LiveNext ==
    ASSUME {"ruleDel", "crash"} \cap Faults = {}, TypeOK, OneHandler, PrevInv,
           RecordInv, LiveInv, [Next]_vars
    PROVE  LiveInv'
<1> USE DEF UndoPoint, BarePoint, RedoPoint, FlushPoint, RestorePoint, RollbackPoint
<1>2. LiveSlot' = {} /\ at' \notin {"dns", "record"} => LiveInv'
  BY DEF LiveInv
<1>3. LiveSlot' \subseteq OnRecord' /\ at' \notin
         {"set", "dns", "record"} \cup RedoPoint \cup BarePoint => LiveInv'
  BY MayBeLiveAt DEF LiveInv, MayBeLive
<1>4. ASSUME NEW p \in Proc, EngineStep(p)
      PROVE  LiveInv'
  <2>1. CASE at \in {"unset", "undoMain", "dMain"}
    <3>1. LiveSlot' = {}
      BY <1>4, <2>1, MainStep, DeleteAll DEF LiveSlot, RuleName
    <3> QED
      BY <1>2, <1>4, <2>1, <3>1, FlowStep DEF Flow
  <2>2. CASE at \in {"set", "redoMain"}
    <3>1. own \in Frame /\ own.prev = stateFile /\ UNCHANGED stateFile
      BY <1>4, <2>2, ViewStep, RecordStep DEF PrevInv, LoadedPoint, ApplyPoint
    <3>2. LiveSlot = {}
      BY <2>2, MayBeLiveAt DEF LiveInv
    <3>3. CASE at = "set" /\ at' = "dns"
      <4>1. AddRule("main", Target(stateFile)) /\ Target(stateFile) \in Slot
        BY <1>4, <3>1, <3>3, MainStep, TargetType
      <4>2. LiveSlot' = {Target(stateFile)}
        BY <3>2, <4>1, AddRange DEF LiveSlot, RuleName, Lookup, TableName
      <4> QED
        BY <3>1, <3>3, <4>2 DEF LiveInv, MayBeLive, Target
    <3>4. CASE at = "set" /\ at' # "dns"
      BY <1>2, <1>4, <3>2, <3>4, MainStep DEF LiveSlot
    <3>5. CASE at = "redoMain"
      <4>1. TryAddRule("main", stateFile.active) /\ at' = "idle"
        BY <1>4, <3>1, <3>5, MainStep, FlowStep DEF Flow, Expected
      <4>2. stateFile.active \in Lookup
        BY <1>4, <3>1, <3>5, ViewStep, ViewHandler, RedoType DEF RuleName, Expected
      <4>3. LiveSlot' \subseteq OnRecord
        BY <3>2, <4>1, <4>2, TryAddRange DEF LiveSlot, OnRecord, RuleName
      <4> QED
        BY <1>3, <3>1, <4>1, <4>3 DEF OnRecord
    <3> QED
      BY <2>2, <3>3, <3>4, <3>5
  <2>3. CASE at = "record" /\ at' = "idle"
    <3>1. own \in Frame /\ own.prev = stateFile /\ stateFile' = Applied(own)
      BY <1>4, <2>3, ViewStep, RecordStep DEF PrevInv, LoadedPoint, ApplyPoint
    <3>2. LiveSlot' \subseteq {Target(stateFile)} /\ stateFile'.active = Target(stateFile)
      BY <1>4, <2>3, <3>1, MainStep, MayBeLiveAt, RecordedStates
         DEF LiveInv
    <3> QED
      BY <1>3, <2>3, <3>2, TargetType DEF OnRecord
  <2>4. CASE /\ at \notin {"unset", "undoMain", "dMain", "set", "redoMain"}
             /\ ~(at = "record" /\ at' = "idle")
    <3>1. UNCHANGED LiveSlot /\ (Flow \/ (at' = "idle" /\ at \in EndPoint))
      BY <1>4, <2>4, MainStep, FlowStep
    <3>2. CASE UNCHANGED stateFile
      <4>1. at = "dSnapshot" => own.prev = stateFile
        BY DEF PrevInv, LoadedPoint, DisablePoint
      <4>2. ~stateFile.enabled => OnRecord = {}
        BY DEF RecordInv, OnRecord
      <4>3. UNCHANGED <<OnRecord, Target(stateFile)>>
        BY <3>2 DEF OnRecord
      <4> QED
        BY <2>4, <3>1, <4>1, <4>2, <4>3 DEF Flow, EndPoint, LiveInv, MayBeLive
    <3>3. CASE ~UNCHANGED stateFile
      <4>1. at \in {"dRecord", "rState"} /\ at' \in {"idle", "rConfig", "apply"}
        BY <1>4, <2>4, <3>3, RecordStep
      <4>2. LiveSlot' = {}
        BY <3>1, <4>1, MayBeLiveAt DEF LiveInv
      <4> QED
        BY <1>2, <4>1, <4>2
    <3> QED
      BY <3>2, <3>3
  <2> QED
    BY <2>1, <2>2, <2>3, <2>4
<1>5. UNCHANGED <<rules, stateFile>> => UNCHANGED <<LiveSlot, OnRecord>>
  BY DEF LiveSlot, OnRecord
<1>6. ASSUME NEW p \in Proc, Start(p)
      PROVE  LiveInv'
  BY <1>3, <1>5, <1>6, ViewStart, MayBeLiveAt DEF Operation, LiveInv
<1>7. CASE Resting
  BY <1>5, <1>7 DEF Resting, LiveInv, MayBeLive, Target
<1>8. CASE Reboot
  <2>1. LiveSlot' = {}
    <3>1. rules'["main"] \in {<<>>, <<"foreign">>}
      BY <1>8 DEF Reboot, RuleName
    <3>2. Range(<<>>) = {} /\ Range(<<"foreign">>) = {"foreign"}
      BY DEF Range
    <3> QED
      BY <3>1, <3>2 DEF LiveSlot, Slot
  <2> QED
    BY <1>2, <1>8, <2>1, ViewEnd
<1>9. CASE Intrude
  <2>1. at' = at /\ UNCHANGED <<LiveSlot, stateFile>>
    BY <1>9, ViewIntrude DEF Intruded
  <2> QED
    BY <2>1 DEF LiveInv, MayBeLive, OnRecord, Target
<1> QED
  BY <1>4, <1>6, <1>7, <1>8, <1>9, ViewRest DEF Next, Crash

-----------------------------------------------------------------------------
(* The table that is live *)

\* The tables change at six points.
LEMMA TableFlow ==
    ASSUME TypeOK, OneHandler, NEW p \in Proc, EngineStep(p)
    PROVE  /\ at = "flush" =>
                 \/ SetTable(Target(own.prev), Empty)
                 \/ FlushFails(Target(own.prev)) /\ at' = "idle"
           /\ at = "load" =>
                 \/ SetTable(Target(own.prev), Whole(own.cfg, own.data)) /\ at' = "local"
                 \/ SetTable(Target(own.prev), Torn) /\ at' = "idle"
           /\ at = "local" =>
                 \/ SetTable("Local", WholeLocal)
                 \/ /\ at' = "idle"
                    /\ IF table["Local"] = WholeLocal THEN UNCHANGED table
                                                      ELSE SetTable("Local", Torn)
           /\ at = "dFlushLocal" => \/ SetTable("Local", Empty)
                                    \/ FlushFails("Local") /\ own'.problems
           /\ at = "dFlushA" => \/ SetTable("A", Empty)
                                \/ FlushFails("A") /\ own'.problems
           /\ at = "dFlushB" => \/ SetTable("B", Empty)
                                \/ FlushFails("B") /\ own'.problems
           /\ at \in WipePoint /\ own.problems => own'.problems
           /\ at \notin FillPoint \cup WipePoint => UNCHANGED table
<1> USE DEF FillPoint, WipePoint
<1>1. pc[p] # "idle" /\ at = pc[p] /\ own = frame[p]
  BY ViewStep, ViewHandler
<1>2. CASE FlushTarget(p) \/ LoadTarget(p) \/ LoadLocal(p)
  BY <1>1, <1>2, ViewHandler DEF FlushTarget, LoadTarget, LoadLocal
<1>3. CASE \/ DisableFlush(p, "dFlushLocal", "Local", "dFlushA")
           \/ DisableFlush(p, "dFlushA", "A", "dFlushB")
           \/ DisableFlush(p, "dFlushB", "B", "dRecord")
  BY <1>1, <1>3, ViewDisableFlush
<1>4. CASE UNCHANGED table /\ pc[p] \notin FillPoint \cup WipePoint
  BY <1>1, <1>4
<1> QED
  BY <1>1, <1>2, <1>3, <1>4, ViewDisableDNS, ViewRecordDisable, ViewLoadInputs,
     ViewLoadSnapshot DEF EngineStep, ApplyStep, UndoStep, DisableStep,
     RollbackStep, LoadInputs, ReadError, SaveError, PersistConfig, CheckHost,
     WriteSnapshot, EnsureRule, UnsetMain, SetMain, ConfigureDNS, RecordApply,
     UndoDNS, ClearRule, UndoMain, RestoreRule, RestoreMain, DisableSnapshot,
     DisableDNS, RestoreConfig, RestoreData, RestoreState

\* From its batch on, apply's target table holds what apply was asked for.
BuiltInv ==
    at \in SwitchPoint \cup UndoPoint =>
        table[Target(stateFile)] = Whole(own.cfg, own.data)

LEMMA SlotNotLocal ==
    ASSUME NEW prev
    PROVE  /\ Target(prev) # "Local" /\ Target(prev) \in TableName
           /\ "Local" \in TableName
  BY TargetType DEF Slot, TableName

LEMMA BuiltNext ==
    ASSUME TypeOK, OneHandler, PrevInv, BuiltInv, [Next]_vars
    PROVE  BuiltInv'
<1> USE DEF SwitchPoint, UndoPoint
<1>1. at' \notin SwitchPoint \cup UndoPoint => BuiltInv'
  BY DEF BuiltInv
<1>2. ASSUME NEW p \in Proc, EngineStep(p), at' \in SwitchPoint \cup UndoPoint
      PROVE  BuiltInv'
  <2>1. at \in {"load"} \cup SwitchPoint \cup UndoPoint /\ Kept
    BY <1>2, FlowStep DEF Flow
  <2>2. UNCHANGED stateFile
    BY <1>2, <2>1, RecordStep
  <2>3. CASE at = "load"
    <3>1. own.prev = stateFile
      BY <2>3 DEF PrevInv, LoadedPoint, ApplyPoint
    <3>2. SetTable(Target(stateFile), Whole(own.cfg, own.data))
      BY <1>2, <2>3, <3>1, TableFlow
    <3>3. table'[Target(stateFile)] = Whole(own.cfg, own.data)
      BY <3>2, SlotNotLocal, SetTableAt
    <3> QED
      BY <2>1, <2>2, <3>3 DEF BuiltInv, Kept, Target
  <2>4. CASE at = "local"
    <3>1. SetTable("Local", WholeLocal) \/ UNCHANGED table
      BY <1>2, <2>4, TableFlow
    <3>2. table'[Target(stateFile)] = table[Target(stateFile)]
      BY <3>1, SlotNotLocal, SetTableAt
    <3> QED
      BY <2>1, <2>2, <2>4, <3>2 DEF BuiltInv, Kept, Target
  <2>5. CASE at \notin {"load", "local"}
    <3>1. UNCHANGED table
      BY <1>2, <2>1, <2>5, TableFlow DEF FillPoint, WipePoint
    <3> QED
      BY <2>1, <2>2, <2>5, <3>1 DEF BuiltInv, Kept, Target
  <2> QED
    BY <2>3, <2>4, <2>5
<1>3. ASSUME NEW p \in Proc, Start(p)
      PROVE  BuiltInv'
  BY <1>1, <1>3, ViewStart DEF Operation
<1>4. CASE Resting
  BY <1>4 DEF Resting, BuiltInv, Target
<1>5. CASE Intrude
  <2>1. at' = at /\ own' = own /\ UNCHANGED stateFile
    BY <1>5, ViewIntrude DEF Intruded
  <2>2. \A c, d : table[Target(stateFile)] = Whole(c, d)
           => table'[Target(stateFile)] = Whole(c, d)
    BY <1>5, ViewIntrude, SlotNotLocal, ContentsApart DEF Intruded
  <2> QED
    BY <2>1, <2>2 DEF BuiltInv, Target
<1> QED
  BY <1>1, <1>2, <1>3, <1>4, <1>5, ViewRest, ViewEnd DEF Next

\* The recorded table holds the recorded list, but for the last steps of disable.
TableInv ==
    stateFile.enabled =>
        /\ stateFile.sha \in Data
        /\ at \notin {"dFlushB", "dRecord"} => RecordedGeneration(stateFile.active)

LEMMA OwnInputs ==
    ASSUME TypeOK, OneHandler, at \in LoadedPoint
    PROVE  own \in Frame /\ own.cfg \in Config /\ own.data \in Data
<1>1. lock # None /\ at = pc[lock] /\ own = frame[lock] /\ lock \in Proc
  BY DEF at, own, LockFree, LoadedPoint, ApplyPoint, UndoPoint, DisablePoint,
     TypeOK, ControlTypeOK
<1> QED
  BY <1>1 DEF TypeOK, ControlTypeOK, HandlerOK

LEMMA TableNext ==
    ASSUME {"save", "crash"} \cap Faults = {}, TypeOK, OneHandler, PrevInv,
           RecordInv, BuiltInv, TableInv, [Next]_vars
    PROVE  TableInv'
<1>1. ~stateFile'.enabled => TableInv'
  BY DEF TableInv
<1>2. ASSUME UNCHANGED stateFile,
             stateFile.enabled => table'[stateFile.active] = table[stateFile.active],
             at \in {"dFlushB", "dRecord"} => at' \in {"dFlushB", "dRecord"}
      PROVE  TableInv'
  BY <1>2 DEF TableInv, RecordedGeneration
<1>3. stateFile.enabled => stateFile.active \in TableName \ {"Local"}
  BY DEF RecordInv, Slot, TableName
<1>4. ASSUME NEW p \in Proc, EngineStep(p)
      PROVE  TableInv'
  <2>1. CASE at \in {"flush", "load"}
    <3>1. own.prev = stateFile /\ UNCHANGED stateFile
      BY <1>4, <2>1, RecordStep DEF PrevInv, LoadedPoint, ApplyPoint
    <3>2. UNCHANGED table \/ \E c : SetTable(Target(stateFile), c)
      BY <1>4, <2>1, <3>1, TableFlow DEF FlushFails
    <3>3. stateFile.enabled => stateFile.active # Target(stateFile)
      BY <1>3 DEF Target
    <3> QED
      BY <1>2, <1>3, <2>1, <3>1, <3>2, <3>3, SetTableAt, SlotNotLocal
  <2>2. CASE at \in {"local", "dFlushLocal"}
    <3>1. UNCHANGED stateFile
      BY <1>4, <2>2, RecordStep
    <3>2. UNCHANGED table \/ \E c : SetTable("Local", c)
      BY <1>4, <2>2, TableFlow DEF FlushFails
    <3> QED
      BY <1>2, <1>3, <2>2, <3>1, <3>2, SetTableAt, SlotNotLocal
  <2>3. CASE at \in {"dFlushA", "dFlushB"}
    <3>1. UNCHANGED stateFile /\ at' \in {"dFlushB", "dRecord"}
      BY <1>4, <2>3, RecordStep, FlowStep DEF Flow, EndPoint, RollbackPoint
    <3> QED
      BY <3>1 DEF TableInv
  <2>4. CASE at = "record" /\ at' = "idle"
    <3>1. /\ own.prev = stateFile /\ stateFile' = Applied(own)
          /\ own \in Frame /\ own.cfg \in Config /\ own.data \in Data
          /\ UNCHANGED table
      BY <1>4, <2>4, RecordStep, OwnInputs, TableFlow DEF PrevInv, LoadedPoint,
         ApplyPoint, FillPoint, WipePoint
    <3>2. /\ stateFile'.active = Target(stateFile) /\ stateFile'.sha = own.data
          /\ stateFile'.enabled
      BY <3>1, RecordedStates
    <3>3. table'[stateFile'.active] = Whole(own.cfg, stateFile'.sha)
      BY <2>4, <3>1, <3>2 DEF BuiltInv, SwitchPoint
    <3> QED
      BY <3>1, <3>2, <3>3, ContentsApart DEF TableInv, RecordedGeneration
  <2>5. CASE at \in {"dRecord", "rState"}
    <3>1. CASE ~stateFile'.enabled
      BY <1>1, <3>1
    <3>2. CASE stateFile'.enabled
      <4>1. at = "rState" /\ UNCHANGED stateFile
        BY <1>4, <2>5, <3>2, RecordStep, RecordedStates, RestoredStates, ViewStep
      <4>2. UNCHANGED table
        BY <1>4, <4>1, TableFlow DEF FillPoint, WipePoint
      <4> QED
        BY <1>2, <4>1, <4>2
    <3> QED
      BY <3>1, <3>2
  <2>6. CASE /\ at \notin FillPoint \cup WipePoint \cup {"dRecord", "rState"}
             /\ ~(at = "record" /\ at' = "idle")
    BY <1>2, <1>4, <2>6, RecordStep, TableFlow DEF WipePoint
  <2> QED
    BY <2>1, <2>2, <2>3, <2>4, <2>5, <2>6 DEF FillPoint, WipePoint
<1>5. ASSUME NEW p \in Proc, Start(p)
      PROVE  TableInv'
  BY <1>2, <1>5, ViewStart DEF Operation
<1>6. CASE Resting
  BY <1>2, <1>6 DEF Resting
<1>7. CASE Reboot
  <2>1. UNCHANGED stateFile /\ Faulty("reboot")
    BY <1>7 DEF Reboot
  <2>2. stateFile.enabled => table'[stateFile.active] \in {Empty, Foreign}
    BY <1>3, <1>7 DEF Reboot
  <2> QED
    BY <2>1, <2>2, ContentsApart DEF TableInv, RecordedGeneration
<1>8. CASE Intrude
  <2>1. at' = at /\ UNCHANGED stateFile
    BY <1>8, ViewIntrude DEF Intruded
  <2>2. \A t \in TableName :
           table'[t] = table[t] \/ (table[t] = Empty /\ table'[t] = Foreign)
    BY <1>8, ViewIntrude DEF Intruded
  <2> QED
    BY <1>3, <2>1, <2>2, ContentsApart DEF TableInv, RecordedGeneration
<1> QED
  BY <1>4, <1>5, <1>6, <1>7, <1>8, ViewRest DEF Next, Crash

LEMMA RecordCorrect == Spec => []RecordInv
<1>1. Init => RecordInv
  BY DEF Init, DefaultState, RecordInv, Slot
<1>2. TypeOK /\ OneHandler /\ RecordInv /\ [Next]_vars => RecordInv'
  BY RecordNext
<1> QED
  BY <1>1, <1>2, TypeCorrect, OneHandlerCorrect, PTL DEF Spec

LEMMA LiveInit == Init => LiveSlot = {}
  BY EmptyRange DEF Init, LiveSlot, RuleName

LEMMA LiveCorrect ==
    ASSUME {"ruleDel", "crash"} \cap Faults = {}
    PROVE  Spec => []LiveInv
<1>1. Init => LiveInv
  BY InitView, LiveInit DEF LiveInv
<1>2. TypeOK /\ OneHandler /\ PrevInv /\ RecordInv /\ LiveInv /\ [Next]_vars
        => LiveInv'
  BY LiveNext
<1> QED
  BY <1>1, <1>2, TypeCorrect, OneHandlerCorrect, PrevCorrect, RecordCorrect,
     PTL DEF Spec

LEMMA BuiltCorrect == Spec => []BuiltInv
<1>1. Init => BuiltInv
  BY InitView DEF BuiltInv, SwitchPoint, UndoPoint
<1>2. TypeOK /\ OneHandler /\ PrevInv /\ BuiltInv /\ [Next]_vars => BuiltInv'
  BY BuiltNext
<1> QED
  BY <1>1, <1>2, TypeCorrect, OneHandlerCorrect, PrevCorrect, PTL DEF Spec

LEMMA TableCorrect ==
    ASSUME {"save", "crash"} \cap Faults = {}
    PROVE  Spec => []TableInv
<1>1. Init => TableInv
  BY DEF Init, DefaultState, TableInv
<1>2. TypeOK /\ OneHandler /\ PrevInv /\ RecordInv /\ BuiltInv /\ TableInv
        /\ [Next]_vars => TableInv'
  BY TableNext
<1> QED
  BY <1>1, <1>2, TypeCorrect, OneHandlerCorrect, PrevCorrect, RecordCorrect,
     BuiltCorrect, PTL DEF Spec

\* Where a slot is live, it is the recorded one or the one just built.
LEMMA LiveContents ==
    ASSUME RecordInv, LiveInv, BuiltInv, TableInv, NEW s \in LiveSlot
    PROVE  \/ RecordedGeneration(s)
           \/ /\ at \in SwitchPoint \cup UndoPoint
              /\ s = Target(stateFile) /\ table[s] = Whole(own.cfg, own.data)
<1> USE DEF SwitchPoint, UndoPoint, RedoPoint, BarePoint, FlushPoint
<1>1. s \in MayBeLive
  BY DEF LiveInv
<1>2. CASE at \in {"dns", "record"}
  BY <1>1, <1>2, MayBeLiveAt DEF BuiltInv
<1>3. CASE s \in OnRecord /\ at \notin {"dFlushB", "dRecord"}
  BY <1>3 DEF OnRecord, RecordInv, TableInv
<1>4. CASE at \in UndoPoint \ RedoPoint
  BY <1>1, <1>3, <1>4, MayBeLiveAt DEF BuiltInv
<1>5. CASE at \in {"set"} \cup RedoPoint \cup BarePoint
  BY <1>1, <1>5, MayBeLiveAt
<1> QED
  BY <1>1, <1>2, <1>3, <1>4, <1>5, MayBeLiveAt

\* As long as `ip rule del` and the store's writes do what they are told and no
\* handler is killed, traffic never follows a half-loaded table, whichever other
\* command fails and whenever the host reboots.
THEOREM PolicyWholeCorrect ==
    ASSUME {"save", "ruleDel", "crash"} \cap Faults = {}
    PROVE  Spec => []PolicyWhole
<1>1. {"ruleDel", "crash"} \cap Faults = {} /\ {"save", "crash"} \cap Faults = {}
  OBVIOUS
<1>2. RecordInv /\ LiveInv /\ BuiltInv /\ TableInv => PolicyWhole
  BY LiveContents, ContentsApart DEF PolicyWhole, RecordedGeneration, Empty, Torn
<1> QED
  BY <1>1, <1>2, RecordCorrect, LiveCorrect, BuiltCorrect, TableCorrect, PTL

\* Under the same conditions the main rule that is in force between commands is
\* for the table on record, and the table holds the recorded CIDR list.
THEOREM LiveMatchesRecordCorrect ==
    ASSUME {"save", "ruleDel", "crash"} \cap Faults = {}
    PROVE  Spec => []LiveMatchesRecord
<1>1. {"ruleDel", "crash"} \cap Faults = {} /\ {"save", "crash"} \cap Faults = {}
  OBVIOUS
<1>2. RecordInv /\ LiveInv /\ BuiltInv /\ TableInv => LiveMatchesRecord
  BY LiveContents DEF LiveMatchesRecord, at, SwitchPoint, UndoPoint
<1> QED
  BY <1>1, <1>2, RecordCorrect, LiveCorrect, BuiltCorrect, TableCorrect, PTL

-----------------------------------------------------------------------------
(* The three rules *)

\* The rules change at twelve points.
LEMMA RuleFlow ==
    ASSUME TypeOK, OneHandler, NEW p \in Proc, EngineStep(p)
    PROVE  /\ at = "mainRoutes" =>
                 \/ rules["mainRoutes"] # <<>> /\ UNCHANGED rules
                 \/ rules["mainRoutes"] = <<>> /\ AddRule("mainRoutes", "main")
                 \/ UNCHANGED rules /\ at' = "undoMainRoutes"
           /\ at = "source" =>
                 \/ rules["source"] # <<>> /\ UNCHANGED rules
                 \/ rules["source"] = <<>> /\ AddRule("source", "Local")
                 \/ UNCHANGED rules /\ at' = "undoMainRoutes"
           /\ at = "set" =>
                 \/ AddRule("main", Target(own.prev)) /\ at' = "dns"
                 \/ UNCHANGED rules /\ at' = "undoMainRoutes"
           /\ at \in {"undoMainRoutes", "dMainRoutes"} => DeletePriority("mainRoutes")
           /\ at \in {"undoSource", "dSource"} => DeletePriority("source")
           /\ at \in {"unset", "undoMain", "dMain"} => DeletePriority("main")
           /\ at = "redoMainRoutes" => TryAddRule("mainRoutes", "main")
           /\ at = "redoSource" => TryAddRule("source", "Local")
           /\ at = "redoMain" => TryAddRule("main", own.prev.active)
           /\ at \notin {"mainRoutes", "source", "set"} \cup DeletePoint \cup RedoPoint
                 => UNCHANGED rules
<1> USE DEF DeletePoint
<1>1. pc[p] # "idle" /\ at = pc[p] /\ own = frame[p]
  BY ViewStep, ViewHandler
<1>2. CASE \/ EnsureRule(p, "mainRoutes", "mainRoutes", "main", "source")
           \/ EnsureRule(p, "source", "source", "Local", "unset")
  BY <1>1, <1>2, ViewHandler DEF EnsureRule
<1>3. CASE UnsetMain(p) \/ SetMain(p)
  BY <1>1, <1>3, ViewHandler DEF UnsetMain, SetMain
<1>4. CASE \/ ClearRule(p, "undoMainRoutes", "mainRoutes", "undoSource")
           \/ ClearRule(p, "undoSource", "source", "undoMain")
           \/ UndoMain(p)
           \/ ClearRule(p, "dMainRoutes", "mainRoutes", "dSource")
           \/ ClearRule(p, "dSource", "source", "dMain")
           \/ ClearRule(p, "dMain", "main", "dDNS")
  BY <1>1, <1>4 DEF ClearRule, UndoMain
<1>5. CASE \/ RestoreRule(p, "redoMainRoutes", "mainRoutes", "redoSource")
           \/ RestoreRule(p, "redoSource", "source", "redoMain")
           \/ RestoreMain(p)
  BY <1>1, <1>5 DEF RestoreRule, RestoreMain, Expected
<1>6. CASE UNCHANGED rules /\ pc[p] \notin
             {"mainRoutes", "source", "set"} \cup DeletePoint \cup RedoPoint
  BY <1>1, <1>6
<1> QED
  BY <1>2, <1>3, <1>4, <1>5, <1>6 DEF EngineStep, ApplyStep, UndoStep, DisableStep,
     RollbackStep, LoadInputs, ReadError, SaveError, PersistConfig, CheckHost,
     WriteSnapshot, FlushTarget, LoadTarget, LoadLocal, ConfigureDNS, RecordApply,
     UndoDNS, DisableSnapshot, DisableDNS, DisableFlush, RecordDisable,
     LoadSnapshot, RestoreConfig, RestoreData, RestoreState

\* None of irroute's rules at a priority.
Bare(r) == Range(rules[r]) \subseteq {"foreign"}

\* The priorities that a disable or an undo has cleared so far.
Cleared ==
    CASE at \in {"dSource", "undoSource"} -> {"mainRoutes"}
      [] at \in {"dMain", "undoMain"} -> {"mainRoutes", "source"}
      [] at \in BarePoint \cup {"redoMainRoutes"} -> RuleName
      [] OTHER -> {}
\* The points at which rules of a generation that is not on record may exist.
RulePoint == (SwitchPoint \ {"local", "mainRoutes"}) \cup UndoPoint
CleanInv ==
    /\ \A r \in Cleared : Bare(r)
    /\ at \notin RulePoint /\ ~stateFile.enabled => \A r \in RuleName : Bare(r)

LEMMA ClearedAt ==
    /\ at \in {"dSource", "undoSource"} => Cleared = {"mainRoutes"}
    /\ at \in {"dMain", "undoMain"} => Cleared = {"mainRoutes", "source"}
    /\ at \in BarePoint \cup {"redoMainRoutes"} => Cleared = RuleName
    /\ at \notin {"dSource", "undoSource", "dMain", "undoMain", "redoMainRoutes"}
              \cup BarePoint => Cleared = {}
    /\ Cleared \subseteq RuleName
  BY DEF Cleared, BarePoint, FlushPoint, RestorePoint, RollbackPoint, RuleName

LEMMA CleanNext ==
    ASSUME {"ruleDel", "crash"} \cap Faults = {}, TypeOK, OneHandler, PrevInv,
           CleanInv, [Next]_vars
    PROVE  CleanInv'
<1> USE DEF BarePoint, FlushPoint, RestorePoint, RollbackPoint, RulePoint,
            SwitchPoint, UndoPoint, RedoPoint
<1>1. (\A r \in RuleName : Bare(r)') => CleanInv'
  <2>1. Cleared' \subseteq RuleName
    BY DEF Cleared, RuleName
  <2> QED
    BY <2>1 DEF CleanInv
<1>2. UNCHANGED rules => \A r \in RuleName : Bare(r)' = Bare(r)
  BY DEF Bare
<1>3. ASSUME UNCHANGED <<rules, stateFile, at>>
      PROVE  CleanInv'
  BY <1>3 DEF CleanInv, Bare, Cleared
<1>4. ASSUME UNCHANGED <<rules, stateFile>>, at \notin RulePoint,
             at' \notin {"dSource", "undoSource", "dMain", "undoMain",
                         "redoMainRoutes"} \cup BarePoint
      PROVE  CleanInv'
  <2>1. Cleared' = {}
    BY <1>4 DEF Cleared
  <2> QED
    BY <1>2, <1>4, <2>1 DEF CleanInv
<1>5. ASSUME NEW p \in Proc, EngineStep(p)
      PROVE  CleanInv'
  <2>1. at # "idle" /\ (Flow \/ (at' = "idle" /\ at \in EndPoint))
    BY <1>5, FlowStep
  <2>2. at \in BarePoint => CleanInv'
    BY <1>1, <1>2, <1>5, ClearedAt, RuleFlow DEF CleanInv, DeletePoint
  <2>3. CASE at \in {"unset", "set", "dns", "redoMainRoutes", "redoSource", "undoDNS"}
    <3>1. (at' \in RulePoint /\ Cleared' = {}) \/ at' = "undoMainRoutes"
      BY <2>1, <2>3 DEF Flow, EndPoint, Cleared
    <3> QED
      BY <3>1 DEF CleanInv, Cleared
  <2>4. CASE at \in {"mainRoutes", "source"}
    <3>1. at' \in {"source", "unset", "undoMainRoutes"}
      BY <2>1, <2>4 DEF Flow, EndPoint
    <3> QED
      BY <3>1 DEF CleanInv, Cleared
  <2>5. CASE at = "record"
    <3>1. CASE at' = "idle"
      <4>1. stateFile'.enabled /\ Cleared' = {}
        BY <1>5, <2>5, <3>1, RecordStep, RecordedStates, ViewStep DEF Cleared
      <4> QED
        BY <4>1 DEF CleanInv
    <3>2. CASE at' # "idle"
      BY <2>1, <2>5, <3>2 DEF Flow, CleanInv, Cleared
    <3> QED
      BY <3>1, <3>2
  <2>6. CASE at \in {"undoMainRoutes", "undoSource", "undoMain",
                     "dMainRoutes", "dSource", "dMain"}
    <3>1. \A r \in RuleName : Bare(r) => Bare(r)'
      <4>1. \A r \in RuleName : Range(rules'[r]) \subseteq Range(rules[r])
        BY <1>5, <2>6, RuleFlow, DeleteRange DEF RuleName
      <4> QED
        BY <4>1 DEF Bare
    <3>2. \A r \in Cleared' : Bare(r)'
      <4>1. at \in {"undoMainRoutes", "dMainRoutes"} => Bare("mainRoutes")'
        BY <1>5, RuleFlow, DeleteAll DEF Bare, RuleName
      <4>2. at \in {"undoSource", "dSource"} => Bare("source")'
        BY <1>5, RuleFlow, DeleteAll DEF Bare, RuleName
      <4>3. at \in {"undoMain", "dMain"} => Bare("main")'
        BY <1>5, RuleFlow, DeleteAll DEF Bare, RuleName
      <4>4. \A r \in Cleared : Bare(r)'
        BY <3>1, ClearedAt DEF CleanInv
      <4> QED
        BY <2>1, <2>6, <4>1, <4>2, <4>3, <4>4, ClearedAt
           DEF Flow, EndPoint, Cleared, RuleName
    <3>3. CASE at' \notin RulePoint /\ ~stateFile'.enabled
      <4>1. UNCHANGED stateFile
        BY <1>5, <2>6, RecordStep
      <4>2. CASE at \notin RulePoint
        BY <1>1, <3>1, <3>3, <4>1, <4>2 DEF CleanInv
      <4>3. CASE at = "undoMain"
        <5>1. Bare("main")'
          BY <1>5, <4>3, RuleFlow, DeleteAll DEF Bare, RuleName
        <5>2. Bare("mainRoutes")' /\ Bare("source")'
          BY <3>1, <4>3, ClearedAt DEF CleanInv, RuleName
        <5> QED
          BY <1>1, <5>1, <5>2 DEF RuleName, CleanInv
      <4> QED
        BY <2>1, <2>6, <3>2, <3>3, <4>2, <4>3 DEF Flow, EndPoint, CleanInv
    <3> QED
      BY <3>2, <3>3 DEF CleanInv
  <2>7. CASE at = "redoMain"
    <3>1. stateFile.enabled /\ UNCHANGED stateFile
      <4>1. own.prev = stateFile /\ UNCHANGED stateFile
        BY <1>5, <2>7, RecordStep DEF PrevInv, LoadedPoint
      <4>2. pc[p] = "redoMain" /\ own = frame[p]
        BY <1>5, <2>7, ViewStep, ViewHandler
      <4> QED
        BY <4>1, <4>2 DEF TypeOK, HandlerOK, Restorable
    <3>2. at' = "idle"
      BY <2>1, <2>7 DEF Flow
    <3> QED
      BY <3>1, <3>2 DEF CleanInv, Cleared
  <2>8. CASE at = "dSnapshot" \/ at = "rollback"
    <3>1. UNCHANGED <<rules, stateFile>>
      BY <1>5, <2>8, RecordStep, RuleFlow DEF DeletePoint
    <3>2. at = "dSnapshot" => own.prev = stateFile
      BY DEF PrevInv, LoadedPoint, DisablePoint
    <3>3. CASE ~stateFile.enabled
      BY <1>1, <1>2, <2>8, <3>1, <3>3 DEF CleanInv
    <3>4. CASE stateFile.enabled
      BY <1>4, <2>1, <2>8, <3>1, <3>2, <3>4 DEF Flow, EndPoint
    <3> QED
      BY <3>3, <3>4
  <2>9. CASE at \in {"apply", "persist", "check", "snapshot", "flush", "load",
                     "local", "disable"}
    <3>1. UNCHANGED <<rules, stateFile>>
      BY <1>5, <2>9, RecordStep, RuleFlow DEF DeletePoint
    <3> QED
      BY <1>4, <2>1, <2>9, <3>1 DEF Flow, EndPoint
  <2> QED
    BY <2>1, <2>2, <2>3, <2>4, <2>5, <2>6, <2>7, <2>8, <2>9 DEF Flow, EndPoint
<1>6. ASSUME NEW p \in Proc, Start(p)
      PROVE  CleanInv'
  BY <1>4, <1>6, ViewStart DEF Operation
<1>7. CASE Resting
  BY <1>3, <1>7 DEF Resting
<1>8. CASE Reboot
  <2>1. \A r \in RuleName : rules'[r] \in {<<>>, <<"foreign">>}
    BY <1>8 DEF Reboot
  <2>2. Range(<<>>) = {} /\ Range(<<"foreign">>) = {"foreign"}
    BY DEF Range
  <2> QED
    BY <1>1, <2>1, <2>2 DEF Bare
<1>9. CASE Intrude
  <2>1. at' = at /\ UNCHANGED stateFile
    BY <1>9, ViewIntrude DEF Intruded
  <2>2. \A r \in RuleName : Bare(r) => Bare(r)'
    BY <1>9, ViewIntrude DEF Intruded, Bare
  <2>3. Cleared' = Cleared /\ Cleared \subseteq RuleName
    BY <2>1, ClearedAt DEF Cleared
  <2> QED
    BY <2>1, <2>2, <2>3 DEF CleanInv
<1> QED
  BY <1>5, <1>6, <1>7, <1>8, <1>9, ViewRest DEF Next, Crash

LEMMA CleanCorrect ==
    ASSUME {"ruleDel", "crash"} \cap Faults = {}
    PROVE  Spec => []CleanInv
<1>1. Init => CleanInv
  <2> SUFFICES ASSUME Init PROVE CleanInv
    OBVIOUS
  <2>1. \A r \in RuleName : Range(rules[r]) = {}
    BY EmptyRange DEF Init
  <2> QED
    BY <2>1, ClearedAt DEF Bare, CleanInv
<1>2. TypeOK /\ OneHandler /\ PrevInv /\ CleanInv /\ [Next]_vars => CleanInv'
  BY CleanNext
<1> QED
  BY <1>1, <1>2, TypeCorrect, OneHandlerCorrect, PrevCorrect, PTL DEF Spec

\* The local table is complete from its batch to the end of the handler.
ReplyInv ==
    /\ ReplyPathWhole
    /\ at \in (SwitchPoint \ {"local"}) \cup UndoPoint => table["Local"] = WholeLocal

LEMMA ReplyNext ==
    ASSUME {"ruleDel", "crash"} \cap Faults = {}, TypeOK, OneHandler, CleanInv,
           ReplyInv, [Next]_vars
    PROVE  ReplyInv'
<1> USE DEF SwitchPoint, UndoPoint
<1>1. table'["Local"] = WholeLocal => ReplyInv'
  BY DEF ReplyInv, ReplyPathWhole
<1>2. ASSUME "Local" \notin Range(rules'["source"]),
             at' \notin (SwitchPoint \ {"local"}) \cup UndoPoint
      PROVE  ReplyInv'
  BY <1>2 DEF ReplyInv, ReplyPathWhole
<1>3. ASSUME UNCHANGED table,
             "Local" \in Range(rules'["source"]) => "Local" \in Range(rules["source"]),
             at' \in (SwitchPoint \ {"local"}) \cup UndoPoint
                 => at \in (SwitchPoint \ {"local"}) \cup UndoPoint
      PROVE  ReplyInv'
  BY <1>3 DEF ReplyInv, ReplyPathWhole
<1>4. ASSUME NEW p \in Proc, EngineStep(p)
      PROVE  ReplyInv'
  <2>1. Flow \/ (at' = "idle" /\ at \in EndPoint)
    BY <1>4, FlowStep
  <2>2. CASE at \in (SwitchPoint \ {"local"}) \cup UndoPoint
    <3>1. UNCHANGED table
      BY <1>4, <2>2, TableFlow DEF FillPoint, WipePoint
    <3> QED
      BY <1>1, <2>2, <3>1 DEF ReplyInv
  <2>3. CASE at = "local"
    <3>1. UNCHANGED rules
      BY <1>4, <2>3, RuleFlow DEF DeletePoint, RedoPoint
    <3>2. CASE SetTable("Local", WholeLocal)
      BY <1>1, <3>2, SlotNotLocal, SetTableAt
    <3>3. CASE at' = "idle" /\ table["Local"] = WholeLocal /\ UNCHANGED table
      BY <1>1, <3>3
    <3>4. CASE at' = "idle" /\ table["Local"] # WholeLocal
      BY <1>2, <3>1, <3>4 DEF ReplyInv, ReplyPathWhole
    <3> QED
      BY <1>4, <2>3, <3>2, <3>3, <3>4, TableFlow
  <2>4. CASE at \in {"flush", "load", "dFlushA", "dFlushB"}
    <3>1. UNCHANGED rules
      BY <1>4, <2>4, RuleFlow DEF DeletePoint, RedoPoint
    <3>2. UNCHANGED table \/ \E t \in TableName \ {"Local"} : \E c : SetTable(t, c)
      BY <1>4, <2>4, TableFlow, SlotNotLocal DEF FlushFails, TableName, Slot
    <3>3. table'["Local"] = table["Local"]
      BY <3>2, SlotNotLocal, SetTableAt
    <3>4. at' \notin (SwitchPoint \ {"local"}) \cup UndoPoint
      BY <2>1, <2>4 DEF Flow
    <3> QED
      BY <3>1, <3>3, <3>4 DEF ReplyInv, ReplyPathWhole
  <2>5. CASE at = "dFlushLocal"
    <3>1. UNCHANGED rules
      BY <1>4, <2>5, RuleFlow DEF DeletePoint, RedoPoint
    <3>2. "Local" \notin Range(rules["source"])
      BY <2>5, ClearedAt DEF CleanInv, Bare, BarePoint, FlushPoint, RuleName
    <3>3. at' = "dFlushA"
      BY <2>1, <2>5 DEF Flow, EndPoint, RollbackPoint
    <3> QED
      BY <1>2, <3>1, <3>2, <3>3
  <2>6. CASE at \notin FillPoint \cup WipePoint \cup SwitchPoint \cup UndoPoint
    <3>1. UNCHANGED table
      BY <1>4, <2>6, TableFlow
    <3>2. Range(rules'["source"]) \subseteq Range(rules["source"])
      BY <1>4, <2>6, RuleFlow, DeleteRange DEF DeletePoint, RedoPoint, RuleName
    <3>3. at' \notin (SwitchPoint \ {"local"}) \cup UndoPoint
      BY <2>1, <2>6 DEF Flow, FillPoint
    <3> QED
      BY <1>3, <3>1, <3>2, <3>3
  <2> QED
    BY <2>2, <2>3, <2>4, <2>5, <2>6 DEF FillPoint, WipePoint
<1>5. ASSUME NEW p \in Proc, Start(p)
      PROVE  ReplyInv'
  BY <1>3, <1>5, ViewStart DEF Operation
<1>6. CASE Resting
  BY <1>3, <1>6 DEF Resting
<1>7. CASE Reboot
  <2>1. rules'["source"] \in {<<>>, <<"foreign">>}
    BY <1>7 DEF Reboot, RuleName
  <2>2. Range(<<>>) = {} /\ Range(<<"foreign">>) = {"foreign"}
    BY DEF Range
  <2> QED
    BY <1>2, <1>7, <2>1, <2>2, ViewEnd
<1>8. CASE Intrude
  <2>1. at' = at
    BY <1>8, ViewIntrude DEF Intruded
  <2>2. "Local" \in Range(rules'["source"]) => "Local" \in Range(rules["source"])
    BY <1>8, ViewIntrude DEF Intruded, RuleName
  <2>3. table["Local"] = WholeLocal => table'["Local"] = WholeLocal
    BY <1>8, ViewIntrude DEF Intruded, TableName, Empty, WholeLocal
  <2> QED
    BY <2>1, <2>2, <2>3 DEF ReplyInv, ReplyPathWhole
<1> QED
  BY <1>4, <1>5, <1>6, <1>7, <1>8, ViewRest DEF Next, Crash

\* As long as `ip rule del` does what it is told and no handler is killed: while
\* the source rule looks the local table up, the table is complete, through every
\* reload, every failure and every reboot.
THEOREM ReplyPathWholeCorrect ==
    ASSUME {"ruleDel", "crash"} \cap Faults = {}
    PROVE  Spec => []ReplyPathWhole
<1>1. Init => ReplyInv
  <2> SUFFICES ASSUME Init PROVE ReplyInv
    OBVIOUS
  <2>1. Range(rules["source"]) = {}
    BY EmptyRange DEF Init, RuleName
  <2> QED
    BY <2>1, InitView DEF ReplyInv, ReplyPathWhole, SwitchPoint, UndoPoint
<1>2. TypeOK /\ OneHandler /\ CleanInv /\ ReplyInv /\ [Next]_vars => ReplyInv'
  BY ReplyNext
<1>3. ReplyInv => ReplyPathWhole
  BY DEF ReplyInv
<1> QED
  BY <1>1, <1>2, <1>3, TypeCorrect, OneHandlerCorrect, CleanCorrect, PTL DEF Spec

-----------------------------------------------------------------------------
(* Success *)

\* Only the step that ends a command says how it ended.
WaitInv == \A p \in Proc : pc[p] # "idle" => ret[p] = "none"

LEMMA WaitNext ==
    ASSUME TypeOK, OneHandler, WaitInv, [Next]_vars
    PROVE  WaitInv'
<1>1. pc \in [Proc -> Point] /\ ret \in [Proc -> Outcome]
  BY DEF TypeOK, ControlTypeOK
<1>2. ASSUME NEW p \in Proc, EngineStep(p)
      PROVE  WaitInv'
  <2>1. pc[p] # "idle" /\ StepEnd(p)
    BY <1>2, EngineStepEnd
  <2> QED
    BY <1>1, <2>1 DEF StepEnd, Continue, Carry, Finish, WaitInv
<1>3. ASSUME NEW p \in Proc, Start(p)
      PROVE  WaitInv'
  <2>1. PICK op \in Operation :
           pc' = [pc EXCEPT ![p] = op] /\ ret' = [ret EXCEPT ![p] = "none"]
    BY <1>3 DEF Start, Acquire, Operation
  <2> QED
    BY <1>1, <2>1 DEF WaitInv
<1>4. ASSUME NEW p \in Proc, Reject(p)
      PROVE  WaitInv'
  BY <1>1, <1>4 DEF Reject, WaitInv
<1>5. ASSUME NEW p \in Proc, Crash(p)
      PROVE  WaitInv'
  BY <1>1, <1>5 DEF Crash, Finish, WaitInv
<1>6. CASE Reboot
  <2>1. \A p \in Proc : pc'[p] = "idle"
    BY <1>6 DEF Reboot
  <2> QED
    BY <2>1 DEF WaitInv
<1>7. CASE UNCHANGED <<pc, ret>>
  BY <1>7 DEF WaitInv
<1> QED
  BY <1>2, <1>3, <1>4, <1>5, <1>6, <1>7 DEF Next, SaveConfig, ImportData,
     Exhausted, Intrude, vars

\* The three steps with which a command succeeds.
LEMMA OkStep ==
    ASSUME TypeOK, OneHandler, WaitInv, NEW p \in Proc, EngineStep(p),
           ret'[p] = "ok"
    PROVE  /\ pc[p] # "idle" /\ at = pc[p] /\ own = frame[p]
           /\ UNCHANGED <<configFile, dataFile, snapshots, kernel>>
           /\ \/ at = "record" /\ stateFile' = Applied(own)
              \/ /\ at = "dRecord" /\ stateFile' = Disabled(own)
                 /\ ~own.problems /\ own.op # "rollback"
              \/ /\ at = "rState" /\ own.op = "rollback"
                 /\ snapshots[own.snap] \in Snapshot
                 /\ ~snapshots[own.snap].state.enabled
                 /\ stateFile' = Restored(snapshots[own.snap].state)
<1>1. pc[p] # "idle" /\ at = pc[p] /\ own = frame[p] /\ ret[p] = "none"
  BY ViewStep, ViewHandler DEF WaitInv
<1>2. ret \in [Proc -> Outcome]
  BY DEF TypeOK, ControlTypeOK
<1>3. /\ \A point : ~Continue(p, point)
      /\ \A point, f : ~Carry(p, point, f)
      /\ ~Finish(p, "error")
  BY <1>1, <1>2 DEF Continue, Carry, Finish
<1>4. CASE ApplyStep(p)
  BY <1>1, <1>3, <1>4 DEF ApplyStep, LoadInputs, PersistConfig, CheckHost,
     WriteSnapshot, FlushTarget, LoadTarget, LoadLocal, EnsureRule, UnsetMain,
     SetMain, ConfigureDNS, RecordApply, ReadError, SaveError
<1>5. CASE UndoStep(p)
  BY <1>3, <1>5 DEF UndoStep, UndoDNS, ClearRule, UndoMain, RestoreRule, RestoreMain
<1>6. CASE DisableStep(p)
  <2>1. RecordDisable(p)
    BY <1>3, <1>6 DEF DisableStep, LoadInputs, DisableSnapshot, WriteSnapshot,
       ClearRule, DisableDNS, DisableFlush, ReadError, SaveError
  <2> QED
    BY <1>1, <1>3, <2>1, ViewRecordDisable
<1>7. CASE RollbackStep(p)
  <2>1. RestoreState(p) /\ ~SaveError(p, "rState")
    BY <1>3, <1>7 DEF RollbackStep, LoadSnapshot, RestoreConfig, RestoreData,
       ReadError, SaveError
  <2>2. own.op = "rollback" /\ snapshots[own.snap] \in Snapshot
    BY <1>1, <2>1, ChosenSnapshot DEF RestoreState, RestorePoint, RollbackPoint
  <2> QED
    BY <1>1, <1>3, <2>1, <2>2 DEF RestoreState
<1> QED
  BY <1>4, <1>5, <1>6, <1>7 DEF EngineStep

\* The tables that disable has emptied so far.
Flushed ==
    CASE at = "dFlushA" -> {"Local"}
      [] at = "dFlushB" -> {"Local", "A"}
      [] at = "dRecord" -> TableName
      [] OTHER -> {}
FlushInv == ~own.problems => \A t \in Flushed : table[t] = Empty

\* A disable is never at a point of apply.
OpInv == at \in ApplyPoint \cup UndoPoint => own.op # "disable"

LEMMA FlushNext ==
    ASSUME "race" \notin Faults, TypeOK, OneHandler, FlushInv, [Next]_vars
    PROVE  FlushInv'
<1>1. at' \notin {"dFlushA", "dFlushB", "dRecord"} => FlushInv'
  BY DEF FlushInv, Flushed
<1>2. ASSUME NEW p \in Proc, EngineStep(p)
      PROVE  FlushInv'
  <2>1. CASE at' \in {"dFlushA", "dFlushB", "dRecord"}
    <3>1. \/ at = "dFlushLocal" /\ at' = "dFlushA"
          \/ at = "dFlushA" /\ at' = "dFlushB"
          \/ at = "dFlushB" /\ at' = "dRecord"
      BY <1>2, <2>1, FlowStep DEF Flow
    <3>2. own.problems => own'.problems
      BY <1>2, <3>1, TableFlow DEF WipePoint
    <3>3. ASSUME ~own'.problems PROVE \A t \in Flushed' : table'[t] = Empty
      <4>1. \/ at = "dFlushLocal" /\ SetTable("Local", Empty)
            \/ at = "dFlushA" /\ SetTable("A", Empty)
            \/ at = "dFlushB" /\ SetTable("B", Empty)
        BY <1>2, <3>1, <3>3, TableFlow
      <4>2. \A t \in Flushed : table[t] = Empty
        BY <3>2, <3>3 DEF FlushInv
      <4> QED
        BY <3>1, <4>1, <4>2, SetTableAt DEF Flushed, TableName, Slot
    <3> QED
      BY <3>3 DEF FlushInv
  <2> QED
    BY <1>1, <2>1
<1>3. ASSUME NEW p \in Proc, Start(p)
      PROVE  FlushInv'
  BY <1>1, <1>3, ViewStart DEF Operation
<1>4. CASE Resting
  BY <1>4 DEF Resting, FlushInv, Flushed
<1>5. CASE Intrude
  <2>1. at' = "idle"
    BY <1>5, ViewIntrude DEF Intruded
  <2> QED
    BY <1>1, <2>1
<1> QED
  BY <1>1, <1>2, <1>3, <1>4, <1>5, ViewRest, ViewEnd DEF Next

LEMMA OpNext ==
    ASSUME TypeOK, OneHandler, OpInv, [Next]_vars
    PROVE  OpInv'
<1> USE DEF ApplyPoint, UndoPoint
<1>1. at' \notin ApplyPoint \cup UndoPoint => OpInv'
  BY DEF OpInv
<1>2. ASSUME NEW p \in Proc, EngineStep(p), at' \in ApplyPoint \cup UndoPoint
      PROVE  OpInv'
  <2>1. own'.op = own.op /\ (at \in ApplyPoint \cup UndoPoint
                               \/ (at = "rState" /\ at' = "apply"))
    BY <1>2, FlowStep DEF Flow
  <2>2. at = "rState" /\ at' = "apply" => own.op = "rollback"
    BY <1>2, RecordStep
  <2> QED
    BY <2>1, <2>2 DEF OpInv
<1>3. ASSUME NEW p \in Proc, Start(p)
      PROVE  OpInv'
  BY <1>3, ViewStart DEF OpInv, Operation
<1>4. CASE Resting
  BY <1>4 DEF Resting, OpInv
<1>5. CASE Intrude
  BY <1>5, ViewIntrude DEF Intruded, OpInv
<1> QED
  BY <1>1, <1>2, <1>3, <1>4, <1>5, ViewRest, ViewEnd DEF Next

LEMMA WaitCorrect == Spec => []WaitInv
<1>1. Init => WaitInv
  BY DEF Init, WaitInv
<1>2. TypeOK /\ OneHandler /\ WaitInv /\ [Next]_vars => WaitInv'
  BY WaitNext
<1> QED
  BY <1>1, <1>2, TypeCorrect, OneHandlerCorrect, PTL DEF Spec

LEMMA FlushCorrect == ASSUME "race" \notin Faults PROVE Spec => []FlushInv
<1>1. Init => FlushInv
  BY InitView DEF FlushInv, Flushed
<1>2. TypeOK /\ OneHandler /\ FlushInv /\ [Next]_vars => FlushInv'
  BY FlushNext
<1> QED
  BY <1>1, <1>2, TypeCorrect, OneHandlerCorrect, PTL DEF Spec

LEMMA OpCorrect == Spec => []OpInv
<1>1. Init => OpInv
  BY InitView DEF OpInv, ApplyPoint, UndoPoint
<1>2. TypeOK /\ OneHandler /\ OpInv /\ [Next]_vars => OpInv'
  BY OpNext
<1> QED
  BY <1>1, <1>2, TypeCorrect, OneHandlerCorrect, PTL DEF Spec

\* A command that runs can end well only by a step of its own handler.
LEMMA OkIsOwnStep ==
    ASSUME TypeOK, OneHandler, WaitInv, NEW p \in Proc, [Next]_vars,
           pc[p] # "idle", ret'[p] = "ok"
    PROVE  EngineStep(p)
<1>1. ret[p] = "none" /\ ret \in [Proc -> Outcome] /\ lock = p /\ p # None
  BY ProcAssumption DEF WaitInv, TypeOK, ControlTypeOK, OneHandler
<1>2. ASSUME NEW q \in Proc, Start(q) \/ Reject(q) PROVE FALSE
  BY <1>1, <1>2 DEF Start, Acquire, Reject, LockFree
<1>3. ASSUME NEW q \in Proc, Crash(q) PROVE FALSE
  BY <1>1, <1>3 DEF Crash, Finish
<1>4. ASSUME Reboot PROVE FALSE
  BY <1>1, <1>4 DEF Reboot
<1>5. ASSUME \/ \E c \in Config : SaveConfig(c)
             \/ \E d \in Data : ImportData(d)
             \/ Exhausted
             \/ Intrude
             \/ UNCHANGED vars
      PROVE  FALSE
  BY <1>1, <1>5 DEF SaveConfig, ImportData, Exhausted, Intrude, vars
<1>6. ASSUME NEW q \in Proc, EngineStep(q) PROVE q = p
  BY <1>1, <1>6, ViewStep DEF OneHandler
<1> QED
  BY <1>2, <1>3, <1>4, <1>5, <1>6 DEF Next

\* As long as `ip rule del` does what it is told, no handler is killed and others
\* act between commands, a disable that reports success has left none of irroute's
\* rules and an empty table of each kind.
THEOREM DisableCleansCorrect ==
    ASSUME {"ruleDel", "crash", "race"} \cap Faults = {}
    PROVE  Spec => DisableCleans
<1> {"ruleDel", "crash"} \cap Faults = {} /\ "race" \notin Faults
  OBVIOUS
<1>1. ASSUME TypeOK, OneHandler, WaitInv, FlushInv, OpInv, CleanInv, [Next]_vars,
             NEW p \in Proc, DisableSucceeds(p)
      PROVE  ManagedGone'
  <2>1. EngineStep(p)
    BY <1>1, OkIsOwnStep DEF DisableSucceeds
  <2>2. /\ at = "dRecord" /\ ~own.problems /\ UNCHANGED <<rules, table>>
    BY <1>1, <2>1, OkStep DEF DisableSucceeds, OpInv, ApplyPoint
  <2>3. \A t \in TableName : table[t] = Empty
    BY <1>1, <2>2 DEF FlushInv, Flushed
  <2>4. \A r \in RuleName : Bare(r)
    BY <1>1, <2>2, ClearedAt DEF CleanInv, BarePoint, FlushPoint
  <2> QED
    BY <2>2, <2>3, <2>4 DEF ManagedGone, Bare
<1>2. TypeOK /\ OneHandler /\ WaitInv /\ FlushInv /\ OpInv /\ CleanInv
        /\ [Next]_vars => [\A p \in Proc : DisableSucceeds(p) => ManagedGone']_vars
  BY <1>1
<1> QED
  BY <1>2, TypeCorrect, OneHandlerCorrect, WaitCorrect, FlushCorrect, OpCorrect,
     CleanCorrect, PTL DEF Spec, DisableCleans

-----------------------------------------------------------------------------
(* The rules that guard the main one *)

Routed == "main" \in Range(rules["mainRoutes"])
Sourced == "Local" \in Range(rules["source"])
AcceptedPoint == {"snapshot", "flush", "load", "local", "mainRoutes"}

\* Apply goes on only with guards that are missing, to be added, or right; from
\* there on each is there, and none goes away under a live main rule.
GuardInv ==
    /\ at \in AcceptedPoint => rules["mainRoutes"] = <<>> \/ Routed
    /\ at \in AcceptedPoint \cup {"source"} => rules["source"] = <<>> \/ Sourced
    /\ at \in {"source", "unset", "set", "dns", "record", "redoSource", "redoMain"}
          => Routed
    /\ at \in {"unset", "set", "dns", "record", "redoMain"} => Sourced
    /\ LiveSlot # {} /\ at \notin UndoPoint \cup {"dSource", "dMain"}
          => Routed /\ Sourced

LEMMA AcceptedGuards ==
    ASSUME TypeOK, NEW prev \in State, HostAccepts(prev)
    PROVE  /\ rules["mainRoutes"] = <<>> \/ Routed
           /\ rules["source"] = <<>> \/ Sourced
<1>1. CASE prev.enabled
  BY <1>1 DEF HostAccepts, ManagedRulesValid, Expected, RuleName, Routed, Sourced
<1>2. CASE ~prev.enabled
  BY <1>2 DEF HostAccepts, ResourcesFree, RuleName
<1> QED
  BY <1>1, <1>2

LEMMA GuardNext ==
    ASSUME {"ruleAdd", "ruleDel", "crash", "race"} \cap Faults = {}, TypeOK, OneHandler,
           GuardInv, [Next]_vars
    PROVE  GuardInv'
<1> USE DEF UndoPoint, RedoPoint, AcceptedPoint
<1>1. UNCHANGED rules => UNCHANGED <<LiveSlot, Routed, Sourced>>
  BY DEF LiveSlot, Routed, Sourced
<1>2. "ruleAdd" \notin Faults /\ "ruleDel" \notin Faults
  OBVIOUS
<1>3. ASSUME NEW p \in Proc, EngineStep(p)
      PROVE  GuardInv'
  <2>1. Flow \/ (at' = "idle" /\ at \in EndPoint)
    BY <1>3, FlowStep
  <2>2. CASE UNCHANGED rules /\ at = "check"
    <3>1. own.prev \in State
      BY <1>3, ViewStep DEF Frame
    <3> QED
      BY <1>1, <2>1, <2>2, <3>1, AcceptedGuards DEF Flow, GuardInv
  <2>3. CASE UNCHANGED rules /\ at \in {"mainRoutes", "source"}
    <3>1. \/ at' = "undoMainRoutes"
          \/ at = "mainRoutes" /\ at' = "source" /\ rules["mainRoutes"] # <<>>
          \/ at = "source" /\ at' = "unset" /\ rules["source"] # <<>>
      <4>1. rules["mainRoutes"] \in Seq(Lookup) /\ rules["source"] \in Seq(Lookup)
        BY RulesAreSeqs DEF RuleName
      <4>2. ASSUME AddRule("mainRoutes", "main") PROVE Routed'
        BY <4>2, AddRange DEF Routed, RuleName, Lookup
      <4>3. ASSUME AddRule("source", "Local") PROVE Sourced'
        BY <4>3, AddRange DEF Sourced, RuleName, Lookup, TableName
      <4> QED
        BY <1>1, <1>3, <2>1, <2>3, <4>1, <4>2, <4>3, RuleFlow, EmptyRange
           DEF Flow, EndPoint, RollbackPoint, Routed, Sourced
    <3> QED
      BY <1>1, <2>3, <3>1 DEF GuardInv
  <2>4. CASE UNCHANGED rules /\ at \notin {"check", "mainRoutes", "source", "unset",
              "redoMainRoutes", "redoSource", "undoMain", "dMain"}
    BY <1>1, <2>1, <2>4 DEF Flow, EndPoint, RollbackPoint, GuardInv
  <2>5. CASE at = "mainRoutes" /\ AddRule("mainRoutes", "main")
    <3>1. Routed' /\ UNCHANGED <<LiveSlot, Sourced, rules["source"]>>
      BY <2>5, AddRange DEF Routed, Sourced, LiveSlot, RuleName, Lookup
    <3> QED
      BY <2>1, <2>5, <3>1 DEF Flow, EndPoint, RollbackPoint, GuardInv
  <2>6. CASE at = "source" /\ AddRule("source", "Local")
    <3>1. Sourced' /\ UNCHANGED <<LiveSlot, Routed>>
      BY <2>6, AddRange DEF Routed, Sourced, LiveSlot, RuleName, Lookup, TableName
    <3> QED
      BY <2>1, <2>6, <3>1 DEF Flow, EndPoint, RollbackPoint, GuardInv
  <2>7. CASE at \in {"unset", "undoMain", "dMain"}
    <3>1. LiveSlot' = {} /\ UNCHANGED <<Routed, Sourced>>
      BY <1>2, <1>3, <2>7, RuleFlow, DeleteAll DEF LiveSlot, Routed, Sourced, RuleName
    <3> QED
      BY <2>1, <2>7, <3>1 DEF Flow, EndPoint, RollbackPoint, GuardInv
  <2>8. CASE at = "set" /\ AddRule("main", Target(own.prev))
    <3>1. UNCHANGED <<Routed, Sourced>>
      BY <2>8, AddRange, TargetType DEF Routed, Sourced, RuleName, Lookup, TableName
    <3> QED
      BY <2>1, <2>8, <3>1 DEF Flow, EndPoint, RollbackPoint, GuardInv
  <2>9. CASE at \in {"undoMainRoutes", "undoSource", "dMainRoutes", "dSource"}
    <3>1. at' \in {"undoSource", "undoMain", "dSource", "dMain"}
      BY <2>1, <2>9 DEF Flow, EndPoint, RollbackPoint
    <3> QED
      BY <3>1 DEF GuardInv
  <2>10. CASE at = "redoMainRoutes"
    <3>1. Routed' /\ at' = "redoSource"
      BY <1>2, <1>3, <2>1, <2>10, RuleFlow, TryAddRange
         DEF Flow, EndPoint, RollbackPoint, Routed, RuleName, Lookup
    <3> QED
      BY <3>1 DEF GuardInv
  <2>11. CASE at = "redoSource"
    <3>1. Sourced' /\ UNCHANGED Routed /\ at' = "redoMain"
      BY <1>2, <1>3, <2>1, <2>11, RuleFlow, TryAddRange
         DEF Flow, EndPoint, RollbackPoint, Routed, Sourced, RuleName, Lookup, TableName
    <3> QED
      BY <2>11, <3>1 DEF GuardInv
  <2>12. CASE at = "redoMain"
    <3>1. own.prev.active \in Lookup
      BY <1>3, <2>12, ViewStep, ViewHandler, RedoType DEF Expected, RuleName
    <3>2. UNCHANGED <<Routed, Sourced>> /\ at' = "idle"
      BY <1>3, <2>1, <2>12, <3>1, RuleFlow, TryAddRange
         DEF Flow, EndPoint, RollbackPoint, Routed, Sourced, RuleName
    <3> QED
      BY <2>12, <3>2 DEF GuardInv
  <2> QED
    BY <1>3, <2>2, <2>3, <2>4, <2>5, <2>6, <2>7, <2>8, <2>9, <2>10, <2>11, <2>12,
       RuleFlow DEF DeletePoint
<1>4. ASSUME NEW p \in Proc, Start(p)
      PROVE  GuardInv'
  BY <1>1, <1>4, ViewStart DEF Operation, GuardInv
<1>5. CASE Resting
  BY <1>1, <1>5 DEF Resting, GuardInv
<1>6. CASE Reboot
  <2>1. rules'["main"] \in {<<>>, <<"foreign">>}
    BY <1>6 DEF Reboot, RuleName
  <2>2. Range(<<>>) = {} /\ Range(<<"foreign">>) = {"foreign"}
    BY DEF Range
  <2>3. LiveSlot' = {}
    BY <2>1, <2>2 DEF LiveSlot, Slot
  <2> QED
    BY <1>6, <2>3, ViewEnd DEF GuardInv
<1>7. CASE Intrude
  <2>1. at = "idle" /\ at' = "idle" /\ UNCHANGED LiveSlot
    BY <1>7, ViewIntrude DEF Intruded
  <2>2. (Routed => Routed') /\ (Sourced => Sourced')
    BY <1>7, ViewIntrude DEF Intruded, Routed, Sourced, RuleName
  <2> QED
    BY <2>1, <2>2 DEF GuardInv
<1> QED
  BY <1>3, <1>4, <1>5, <1>6, <1>7, ViewRest DEF Next, Crash

\* As long as `ip rule add` and `ip rule del` do what they are told, no handler is
\* killed and others act between commands, a main rule that is in force between
\* commands has with it the rule for the main table's routes and the one for the
\* public address.
THEOREM GuardedPolicyCorrect ==
    ASSUME {"ruleAdd", "ruleDel", "crash", "race"} \cap Faults = {}
    PROVE  Spec => []GuardedPolicy
<1>1. Init => GuardInv
  BY InitView, LiveInit DEF GuardInv, AcceptedPoint, UndoPoint
<1>2. TypeOK /\ OneHandler /\ GuardInv /\ [Next]_vars => GuardInv'
  BY GuardNext
<1>3. GuardInv => GuardedPolicy
  BY DEF GuardInv, GuardedPolicy, at, UndoPoint, Routed, Sourced
<1> QED
  BY <1>1, <1>2, <1>3, TypeCorrect, OneHandlerCorrect, PTL DEF Spec

-----------------------------------------------------------------------------
(* DNS *)

\* DNS changes at three points.
LEMMA DNSFlow ==
    ASSUME TypeOK, OneHandler, NEW p \in Proc, EngineStep(p)
    PROVE  /\ at = "dns" /\ at' = "record" =>
                 \/ own.cfg \in Managed /\ dns' = own.cfg
                 \/ own.cfg \notin Managed /\ dns' = "system"
                 \/ /\ own.cfg \notin Managed /\ ~own.prev.dnsManaged
                    /\ UNCHANGED dns
           /\ at = "undoDNS" => dns' = "system" \/ RevertFails
           /\ at = "dDNS" => \/ ~own.prev.dnsManaged /\ UNCHANGED dns
                             \/ dns' = "system"
                             \/ RevertFails
           /\ at \notin {"dns", "undoDNS", "dDNS"} => UNCHANGED dns
<1>1. pc[p] # "idle" /\ at = pc[p] /\ own = frame[p]
  BY ViewStep, ViewHandler
<1>2. CASE ConfigureDNS(p)
  BY <1>1, <1>2, ViewHandler DEF ConfigureDNS, RevertOK
<1>3. CASE UndoDNS(p)
  BY <1>1, <1>3 DEF UndoDNS, RevertOK
<1>4. CASE DisableDNS(p)
  BY <1>1, <1>4, ViewDisableDNS
<1>5. CASE UNCHANGED dns /\ pc[p] \notin {"dns", "undoDNS", "dDNS"}
  BY <1>1, <1>5
<1> QED
  BY <1>2, <1>3, <1>4, <1>5 DEF EngineStep, ApplyStep, UndoStep, DisableStep,
     RollbackStep, LoadInputs, ReadError, SaveError, PersistConfig, CheckHost,
     WriteSnapshot, FlushTarget, LoadTarget, LoadLocal, EnsureRule, UnsetMain,
     SetMain, RecordApply, ClearRule, UndoMain, RestoreRule, RestoreMain,
     DisableSnapshot, DisableFlush, RecordDisable, LoadSnapshot, RestoreConfig,
     RestoreData, RestoreState

\* DNS of irroute's is on record, but while apply sets it; disable and the
\* restoring part of a rollback find the network's own.
DNSInv ==
    /\ at \in FlushPoint \cup RestorePoint => dns = "system"
    /\ at = "record" => dns = IF own.cfg \in Managed THEN own.cfg ELSE "system"
    /\ at = "undoDNS" => ~stateFile.dnsManaged
    /\ at = "rollback" => stateFile.enabled \/ ~stateFile.dnsManaged
    /\ at \notin {"record", "undoDNS"} => dns = "system" \/ stateFile.dnsManaged

LEMMA DNSNext ==
    ASSUME Heeding, {"dnsRevert", "crash"} \cap Faults = {}, TypeOK, OneHandler,
           PrevInv, DNSInv, [Next]_vars
    PROVE  DNSInv'
<1> USE DEF FlushPoint, RestorePoint, RollbackPoint
<1>1. dns' = "system" /\ at' \notin {"record", "undoDNS", "rollback"} => DNSInv'
  BY DEF DNSInv
<1>2. "dnsRevert" \notin Faults
  OBVIOUS
<1>3. ASSUME NEW p \in Proc, EngineStep(p)
      PROVE  DNSInv'
  <2>1. Flow \/ (at' = "idle" /\ at \in EndPoint)
    BY <1>3, FlowStep
  <2>2. CASE at = "dns"
    <3>2. own.prev = stateFile /\ UNCHANGED stateFile
      BY <1>3, <2>2, RecordStep DEF PrevInv, LoadedPoint, ApplyPoint
    <3>3. CASE at' = "record"
      <4>1. own'.cfg = own.cfg
        BY <1>3, <2>2, <3>3, FlowStep DEF Kept
      <4> QED
        BY <1>3, <2>2, <3>2, <3>3, <4>1, DNSFlow DEF DNSInv
    <3>4. CASE at' # "record"
      BY <2>1, <2>2, <3>2, <3>4 DEF Flow, EndPoint, DNSInv
    <3> QED
      BY <3>3, <3>4
  <2>3. CASE at \in {"undoDNS", "dDNS"}
    <3>1. at' \in {"undoMainRoutes", "dFlushLocal"}
      BY <2>1, <2>3 DEF Flow, EndPoint
    <3>2. at = "dDNS" => own.prev = stateFile
      BY DEF PrevInv, LoadedPoint, DisablePoint
    <3>3. dns' = "system"
      BY <1>2, <1>3, <2>3, <3>2, DNSFlow DEF DNSInv, RevertFails
    <3> QED
      BY <1>1, <3>1, <3>3
  <2>4. CASE at = "record" /\ at' = "idle"
    <3>1. stateFile'.dnsManaged = (own.cfg \in Managed) /\ UNCHANGED dns
      BY <1>3, <2>4, RecordStep, RecordedStates, ViewStep, DNSFlow
    <3> QED
      BY <2>4, <3>1 DEF DNSInv
  <2>5. CASE at = "record" /\ at' # "idle"
    <3>1. own.prev = stateFile /\ UNCHANGED stateFile
      BY <1>3, <2>5, RecordStep DEF PrevInv, LoadedPoint, ApplyPoint
    <3> QED
      BY <2>1, <2>5, <3>1 DEF Flow, DNSInv
  <2>6. CASE at \in FlushPoint \cup RestorePoint
    <3>1. dns' = "system"
      BY <1>3, <2>6, DNSFlow DEF DNSInv
    <3> QED
      BY <1>1, <2>1, <2>6, <3>1 DEF Flow
  <2>7. CASE at \notin {"dns", "undoDNS", "dDNS", "record"}
                         \cup FlushPoint \cup RestorePoint
    <3>1. UNCHANGED <<stateFile, dns>>
      BY <1>3, <2>7, RecordStep, DNSFlow
    <3> QED
      BY <2>1, <2>7, <3>1 DEF Flow, DNSInv
  <2> QED
    BY <2>2, <2>3, <2>4, <2>5, <2>6, <2>7
<1>4. ASSUME NEW p \in Proc, Start(p)
      PROVE  DNSInv'
  BY <1>4, ViewStart DEF Operation, DNSInv, MovesOn
<1>5. CASE Resting
  BY <1>5 DEF Resting, DNSInv
<1>6. CASE Reboot
  BY <1>1, <1>6, ViewEnd DEF Reboot
<1>7. CASE Intrude
  BY <1>7, ViewIntrude DEF Intruded, DNSInv
<1> QED
  BY <1>3, <1>4, <1>5, <1>6, <1>7, ViewRest DEF Next, Crash

LEMMA DNSCorrect ==
    ASSUME Heeding, {"dnsRevert", "crash"} \cap Faults = {}
    PROVE  Spec => []DNSInv
<1>1. Init => DNSInv
  BY InitView DEF Init, DNSInv, FlushPoint, RestorePoint, RollbackPoint
<1>2. TypeOK /\ OneHandler /\ PrevInv /\ DNSInv /\ [Next]_vars => DNSInv'
  BY DNSNext
<1> QED
  BY <1>1, <1>2, TypeCorrect, OneHandlerCorrect, PrevCorrect, PTL DEF Spec

\* As long as `resolvectl revert` does what it is told, no handler is killed and
\* nobody rolls back over DNS that a failed command has left set: between commands
\* DNS that irroute set is on record as managed.
THEOREM NoOrphanDNSCorrect ==
    ASSUME Heeding, {"dnsRevert", "crash"} \cap Faults = {}
    PROVE  Spec => []NoOrphanDNS
<1>1. DNSInv => NoOrphanDNS
  BY DEF DNSInv, NoOrphanDNS, at
<1> QED
  BY <1>1, DNSCorrect, PTL

-----------------------------------------------------------------------------
(* What a rollback restores *)

\* What a rollback has restored stays restored until it ends.
RestoreInv ==
    own.op = "rollback" =>
        LET s == snapshots[own.snap] IN
        /\ at \in {"rData", "rState"} \cup ApplyPoint \cup UndoPoint
              => configFile = s.cfg
        /\ at \in {"rState"} \cup ApplyPoint \cup UndoPoint => dataFile = s.data
        /\ at \in ApplyPoint \cup UndoPoint => s.state.enabled

\* The files change at four points; a snapshot, once written, never does.
LEMMA FileStep ==
    ASSUME TypeOK, OneHandler, NEW p \in Proc, EngineStep(p)
    PROVE  /\ at \notin {"persist", "rConfig"} => UNCHANGED configFile
           /\ at # "rData" => UNCHANGED dataFile
           /\ at = "persist" => at' = "idle" \/ configFile' = own.cfg
           /\ at = "rConfig" => at' = "idle" \/ configFile' = snapshots[own.snap].cfg
           /\ at = "rData" => at' = "idle" \/ dataFile' = snapshots[own.snap].data
           /\ \/ UNCHANGED snapshots
              \/ \E s \in Snapshot : snapshots' = Append(snapshots, s)
<1>1. pc[p] # "idle" /\ at = pc[p] /\ own = frame[p]
  BY ViewStep, ViewHandler
<1>2. CASE KernelStep(p)
  BY <1>1, <1>2, ViewKernelStep DEF LoadedPoint, ApplyPoint, UndoPoint, DisablePoint
<1>3. CASE \/ LoadInputs(p, "apply", "persist")
           \/ LoadInputs(p, "disable", "dSnapshot")
           \/ RecordDisable(p)
           \/ LoadSnapshot(p)
  BY <1>1, <1>3, ViewLoadInputs, ViewRecordDisable, ViewLoadSnapshot
<1>4. CASE PersistConfig(p) \/ RecordApply(p)
  BY <1>1, <1>4, ViewHandler DEF PersistConfig, RecordApply, SaveError
<1>5. CASE WriteSnapshot(p, "snapshot", "flush") \/ DisableSnapshot(p)
  <2>1. pc[p] \in LoadedPoint
    BY <1>5 DEF WriteSnapshot, DisableSnapshot, SaveError, LoadedPoint, ApplyPoint,
       DisablePoint
  <2>2. /\ frame[p].cfg \in Config /\ frame[p].prev \in State
        /\ frame[p].data \in Data
    BY <2>1 DEF TypeOK, ControlTypeOK, HandlerOK, Frame
  <2> QED
    BY <1>1, <1>5, <2>2 DEF WriteSnapshot, DisableSnapshot, SaveError, AddSnapshot,
       Snapshot
<1>6. CASE RestoreConfig(p) \/ RestoreData(p) \/ RestoreState(p)
  BY <1>1, <1>6, ViewHandler DEF RestoreConfig, RestoreData, RestoreState, SaveError
<1> QED
  BY <1>2, <1>3, <1>4, <1>5, <1>6, EngineSteps DEF StoreStep, RollbackStep

LEMMA SnapshotKept ==
    ASSUME TypeOK, OneHandler, NEW p \in Proc, EngineStep(p),
           own.op = "rollback", at # "rollback"
    PROVE  snapshots'[own.snap] = snapshots[own.snap]
<1>1. own.snap \in 1..Len(snapshots)
  BY ViewStep, ViewHandler DEF TypeOK, HandlerOK
<1>2. CASE UNCHANGED snapshots
  BY <1>2
<1>3. ASSUME NEW s \in Snapshot, snapshots' = Append(snapshots, s)
      PROVE  snapshots'[own.snap] = snapshots[own.snap]
  BY <1>1, <1>3 DEF TypeOK, DiskTypeOK
<1> QED
  BY <1>2, <1>3, FileStep

LEMMA RestoreNext ==
    ASSUME ~SharedStore, TypeOK, OneHandler, InputsInv, RestoreInv, [Next]_vars
    PROVE  RestoreInv'
<1> USE DEF ApplyPoint, UndoPoint
<1>1. at' \notin {"rData", "rState"} \cup ApplyPoint \cup UndoPoint => RestoreInv'
  BY DEF RestoreInv
<1>2. ASSUME NEW p \in Proc, EngineStep(p), own'.op = "rollback",
             at' \in {"rData", "rState"} \cup ApplyPoint \cup UndoPoint
      PROVE  RestoreInv'
  <2>1. /\ own.op = "rollback" /\ own'.snap = own.snap
        /\ at \in {"rConfig", "rData", "rState"} \cup ApplyPoint \cup UndoPoint
    BY <1>2, FlowStep DEF Flow
  <2>2. snapshots'[own'.snap] = snapshots[own.snap]
    BY <1>2, <2>1, SnapshotKept
  <2>3. CASE at = "rConfig"
    BY <1>2, <2>1, <2>2, <2>3, FlowStep, FileStep DEF Flow, RestoreInv
  <2>4. CASE at = "rData"
    BY <1>2, <2>1, <2>2, <2>4, FlowStep, FileStep DEF Flow, RestoreInv
  <2>5. CASE at = "rState"
    BY <1>2, <2>1, <2>2, <2>5, FlowStep, FileStep DEF Flow, RestoreInv
  <2>6. CASE at = "persist"
    <3>1. configFile' = configFile /\ dataFile' = dataFile
      BY <1>2, <2>6, FileStep DEF InputsInv, LoadedPoint
    <3> QED
      BY <2>1, <2>2, <2>6, <3>1 DEF RestoreInv
  <2>7. CASE at \in (ApplyPoint \ {"persist"}) \cup UndoPoint
    <3>1. configFile' = configFile /\ dataFile' = dataFile
      BY <1>2, <2>7, FileStep
    <3> QED
      BY <2>1, <2>2, <2>7, <3>1 DEF RestoreInv
  <2> QED
    BY <2>1, <2>3, <2>4, <2>5, <2>6, <2>7
<1>3. own'.op # "rollback" => RestoreInv'
  BY DEF RestoreInv
<1>4. ASSUME NEW p \in Proc, Start(p)
      PROVE  RestoreInv'
  BY <1>1, <1>3, <1>4, ViewStart DEF Operation
<1>5. CASE Resting
  BY <1>1, <1>5 DEF Resting, RestoreInv
<1>6. CASE Intrude
  BY <1>6, ViewIntrude DEF Intruded, RestoreInv
<1> QED
  BY <1>1, <1>2, <1>3, <1>4, <1>5, <1>6, ViewRest, ViewEnd DEF Next

LEMMA RestoreCorrect == ASSUME ~SharedStore PROVE Spec => []RestoreInv
<1>1. Init => RestoreInv
  BY InitView DEF RestoreInv, NoFrame
<1>2. TypeOK /\ OneHandler /\ InputsInv /\ RestoreInv /\ [Next]_vars => RestoreInv'
  BY RestoreNext
<1> QED
  BY <1>1, <1>2, TypeCorrect, OneHandlerCorrect, InputsCorrect, PTL DEF Spec

\* As long as rules and DNS are removed when irroute says so, no handler is killed
\* and nobody writes the files under a held lock or rolls back over DNS that a
\* failed command has left set: a rollback that reports success has brought back
\* the snapshot's configuration, list and state, with a live table made of them or
\* with none, and the DNS that goes with it.
THEOREM RollbackRestoresCorrect ==
    ASSUME ~SharedStore, Heeding, {"ruleDel", "dnsRevert", "crash"} \cap Faults = {}
    PROVE  Spec => RollbackRestores
<1>1. /\ {"ruleDel", "crash"} \cap Faults = {}
      /\ {"dnsRevert", "crash"} \cap Faults = {}
  OBVIOUS
<1>2. ASSUME TypeOK, OneHandler, WaitInv, InputsInv, LiveInv, BuiltInv,
             DNSInv, RestoreInv, [Next]_vars, NEW p \in Proc, RollbackSucceeds(p)
      PROVE  RestoredFrom(snapshots[frame[p].snap])
  <2> DEFINE s == snapshots[frame[p].snap]
  <2>1. EngineStep(p)
    BY <1>2, OkIsOwnStep DEF RollbackSucceeds
  <2>2. /\ at = pc[p] /\ own = frame[p] /\ own.op = "rollback"
        /\ UNCHANGED <<configFile, dataFile, snapshots, kernel>>
    BY <1>2, <2>1, OkStep DEF RollbackSucceeds
  <2>3. UNCHANGED LiveSlot
    BY <2>2 DEF LiveSlot
  <2>4. CASE at = "record" /\ stateFile' = Applied(own)
    <3>1. own.cfg = configFile /\ own.data = dataFile /\ own \in Frame
      BY <1>2, <2>1, <2>4, ViewStep DEF InputsInv, LoadedPoint, ApplyPoint
    <3>2. configFile = s.cfg /\ dataFile = s.data /\ s.state.enabled
      BY <1>2, <2>2, <2>4 DEF RestoreInv, ApplyPoint
    <3>3. s.state.enabled = TRUE /\ stateFile'.enabled = TRUE
      <4>1. snapshots[own.snap] \in Snapshot
        <5>1. own.snap \in 1..Len(snapshots)
          BY <1>2, <2>2, <2>4 DEF TypeOK, HandlerOK
        <5> QED
          BY <1>2, <5>1, ElementOfSeq DEF TypeOK, DiskTypeOK
      <4>2. s.state.enabled \in BOOLEAN
        BY <2>2, <4>1 DEF Snapshot, State
      <4>3. stateFile'.enabled = TRUE
        BY <2>4, <3>1 DEF Applied, Frame, State
      <4> QED
        BY <3>2, <4>2, <4>3
    <3>4. dns = IF s.cfg \in Managed THEN s.cfg ELSE "system"
      BY <1>2, <2>4, <3>1, <3>2 DEF DNSInv
    <3>5. \E slot \in Slot : LiveSlot = {slot} /\ table[slot] = Whole(s.cfg, s.data)
      <4>1. LiveSlot = {Target(stateFile)} /\ Target(stateFile) \in Slot
        BY <1>2, <2>4, MayBeLiveAt, TargetType DEF LiveInv
      <4>2. table[Target(stateFile)] = Whole(s.cfg, s.data)
        BY <1>2, <2>4, <3>1, <3>2 DEF BuiltInv, SwitchPoint
      <4> QED
        BY <4>1, <4>2
    <3> QED
      BY <2>2, <2>3, <3>2, <3>3, <3>4, <3>5 DEF RestoredFrom
  <2>5. CASE /\ at = "rState" /\ ~s.state.enabled /\ s \in Snapshot
             /\ stateFile' = Restored(s.state)
    <3>1. configFile = s.cfg /\ dataFile = s.data
      BY <1>2, <2>2, <2>5 DEF RestoreInv
    <3>2. s.state.enabled = FALSE /\ stateFile'.enabled = FALSE
      BY <2>5 DEF Restored, Snapshot, State
    <3>3. dns = "system"
      BY <1>2, <2>5 DEF DNSInv, RestorePoint, RollbackPoint
    <3>4. LiveSlot = {}
      BY <1>2, <2>5, MayBeLiveAt DEF LiveInv, BarePoint, RestorePoint, RollbackPoint
    <3> QED
      BY <2>2, <2>3, <3>1, <3>2, <3>3, <3>4 DEF RestoredFrom
  <2> QED
    BY <1>2, <2>1, <2>2, <2>4, <2>5, OkStep DEF RollbackSucceeds
<1>3. TypeOK /\ OneHandler /\ WaitInv /\ InputsInv /\ LiveInv
        /\ BuiltInv /\ DNSInv /\ RestoreInv /\ [Next]_vars
        => [\A p \in Proc : RollbackSucceeds(p) =>
               RestoredFrom(snapshots[frame[p].snap])]_vars
  BY <1>2
<1> QED
  BY <1>1, <1>3, TypeCorrect, OneHandlerCorrect, WaitCorrect, InputsCorrect,
     LiveCorrect, BuiltCorrect, DNSCorrect, RestoreCorrect, PTL
     DEF Spec, RollbackRestores

-----------------------------------------------------------------------------
(* The double buffer *)

Generations == {Whole(c, d) : c \in Config, d \in Data}

LEMMA FollowedAt ==
    /\ LiveSlot = {} => Followed = "off"
    /\ \A s : LiveSlot = {s} => Followed = s
    /\ Followed \in LiveSlot \cup {"off"}
  BY DEF Followed

LEMMA BufferUnchanged ==
    ASSUME UNCHANGED <<LiveSlot, stateFile>>,
           \A s \in Slot : table'[s] = table[s]
    PROVE  UNCHANGED <<Held, Followed, Recorded>>
<1>1. UNCHANGED Held
  BY DEF Held
<1>2. UNCHANGED <<Followed, Recorded>>
  BY DEF Followed, Recorded
<1> QED
  BY <1>1, <1>2

\* A write to a slot is a write to it alone.
LEMMA HeldWritten ==
    ASSUME TypeOK, NEW s \in Slot, NEW c, c # Foreign, SetTable(s, c)
    PROVE  Held' = [Held EXCEPT ![s] = c]
<1>1. s \in TableName /\ Slot \subseteq TableName
  BY DEF TableName
<1>2. table'[s] = c /\ \A u \in Slot \ {s} : table'[u] = table[u]
  BY <1>1, SetTableAt
<1> QED
  BY <1>2 DEF Held

LEMMA HeldWhole ==
    ASSUME NEW s \in Slot, NEW c \in Config, NEW d \in Data, table[s] = Whole(c, d)
    PROVE  Held[s] \in Generations
  BY ContentsApart DEF Held, Generations

\* Each step of a handler builds, clears, selects, unselects or records a slot, or
\* touches none.
LEMMA BufferHandler ==
    ASSUME {"save", "ruleDel", "crash"} \cap Faults = {}, TypeOK, OneHandler,
           PrevInv, RecordInv, LiveInv, BuiltInv, TableInv,
           NEW p \in Proc, EngineStep(p)
    PROVE  Buffer!Next \/ UNCHANGED Buffer!vars
<1> USE DEF UndoPoint, RedoPoint, BarePoint, FlushPoint, RestorePoint, RollbackPoint
<1>1. ASSUME UNCHANGED <<Held, Followed, Recorded>>
      PROVE  UNCHANGED Buffer!vars
  BY <1>1 DEF Buffer!vars
<1>2. UNCHANGED stateFile => UNCHANGED Recorded
  BY DEF Recorded
<1>3. UNCHANGED LiveSlot => UNCHANGED Followed
  BY DEF Followed
<1>4. UNCHANGED table => UNCHANGED Held
  BY DEF Held
<1>5. CASE at \in {"flush", "load"}
  <2> DEFINE t == Target(stateFile)
  <2>1. own.prev = stateFile /\ UNCHANGED stateFile /\ UNCHANGED LiveSlot
    BY <1>5, RecordStep, MainStep DEF PrevInv, LoadedPoint, ApplyPoint
  <2>2. t \in Slot /\ t # "off" /\ t # stateFile.active
    BY TargetType DEF Slot, Target
  <2>3. t # Recorded /\ t # Followed
    BY <1>5, <2>2, FollowedAt, MayBeLiveAt DEF Recorded, LiveInv, OnRecord
  <2>4. UNCHANGED table \/ \E c \in Generations \cup {Empty, Torn} : SetTable(t, c)
    <3>1. Whole(own.cfg, own.data) \in Generations
      BY <1>5, OwnInputs DEF Generations, LoadedPoint, ApplyPoint
    <3> QED
      BY <1>5, <2>1, <3>1, TableFlow DEF FlushFails
  <2>5. CASE UNCHANGED table
    BY <1>1, <1>2, <1>3, <1>4, <2>1, <2>5
  <2>6. ASSUME NEW c \in Generations \cup {Empty, Torn}, SetTable(t, c)
        PROVE  Buffer!Build(t)
    <3>1. Held' = [Held EXCEPT ![t] = c]
      <4>1. c # Foreign
        BY ContentsApart DEF Generations
      <4> QED
        BY <2>2, <2>6, <4>1, HeldWritten
    <3>2. Held' \in {[Held EXCEPT ![t] = e] : e \in Generations \cup {Empty, Torn}}
      BY <2>6, <3>1
    <3> HIDE DEF t
    <3> QED
      BY <1>2, <1>3, <2>1, <2>3, <3>2 DEF Buffer!Build, Generations
  <2> QED
    BY <2>2, <2>4, <2>5, <2>6 DEF Buffer!Next
<1>6. CASE at \in {"local", "dFlushLocal"}
  <2>1. UNCHANGED stateFile /\ UNCHANGED LiveSlot
    BY <1>6, RecordStep, MainStep
  <2>2. UNCHANGED table \/ \E c : SetTable("Local", c)
    BY <1>6, TableFlow DEF FlushFails
  <2>3. \A s \in Slot : table'[s] = table[s]
    BY <2>2, SetTableAt, SlotNotLocal DEF Slot, TableName
  <2> QED
    BY <1>1, <2>1, <2>3, BufferUnchanged
<1>7. ASSUME NEW s \in Slot, at = IF s = "A" THEN "dFlushA" ELSE "dFlushB"
      PROVE  Buffer!Next \/ UNCHANGED Buffer!vars
  <2>1. UNCHANGED stateFile /\ UNCHANGED LiveSlot /\ Followed = "off"
    BY <1>7, RecordStep, MainStep, MayBeLiveAt, FollowedAt DEF LiveInv
  <2>2. UNCHANGED table \/ \E c \in {Empty, Torn} : SetTable(s, c)
    BY <1>7, TableFlow DEF FlushFails, Slot
  <2>3. CASE UNCHANGED table
    BY <1>1, <1>2, <1>3, <1>4, <2>1, <2>3
  <2>4. ASSUME NEW c \in {Empty, Torn}, SetTable(s, c)
        PROVE  Buffer!Clear(s)
    <3>1. Held' = [Held EXCEPT ![s] = c]
      BY <2>4, ContentsApart, HeldWritten
    <3> QED
      BY <1>2, <1>3, <2>1, <3>1 DEF Buffer!Clear
  <2> QED
    BY <2>2, <2>3, <2>4 DEF Buffer!Next
<1>8. CASE at \in {"unset", "undoMain", "dMain"}
  <2>1. LiveSlot' = {} /\ UNCHANGED table
    BY <1>8, MainStep, DeleteAll, TableFlow DEF LiveSlot, RuleName, FillPoint, WipePoint
  <2>2. UNCHANGED stateFile /\ Followed' = "off"
    BY <1>8, <2>1, RecordStep DEF Followed
  <2> QED
    BY <1>1, <1>2, <1>4, <2>1, <2>2 DEF Buffer!Next, Buffer!Unselect
<1>9. CASE at \in {"set", "redoMain"}
  <2>1. /\ UNCHANGED stateFile /\ UNCHANGED table
        /\ LiveSlot = {} /\ Followed = "off" /\ own.prev = stateFile
    BY <1>9, RecordStep, TableFlow, MayBeLiveAt, FollowedAt
       DEF LiveInv, FillPoint, WipePoint, PrevInv, LoadedPoint, ApplyPoint
  <2>2. ASSUME NEW s \in Slot, LiveSlot' = {s},
               Held[s] \in Generations \/ (s = Recorded /\ Held[s] = Empty)
        PROVE  Buffer!Next
    <3>1. Followed' = s
      BY <2>2 DEF Followed
    <3> QED
      BY <1>2, <1>4, <2>1, <2>2, <3>1 DEF Buffer!Next, Buffer!Select, Generations
  <2>3. UNCHANGED rules => UNCHANGED LiveSlot
    BY DEF LiveSlot
  <2>4. CASE at = "set"
    <3>1. CASE UNCHANGED rules
      BY <1>1, <1>2, <1>3, <1>4, <2>1, <2>3, <3>1
    <3>2. CASE AddRule("main", Target(stateFile))
      <4>1. Target(stateFile) \in Slot
        BY TargetType
      <4>2. LiveSlot' = {Target(stateFile)}
        BY <2>1, <3>2, <4>1, AddRange DEF LiveSlot, RuleName, Lookup, TableName
      <4>3. Held[Target(stateFile)] \in Generations
        <5>1. own.cfg \in Config /\ own.data \in Data
          BY <2>4, OwnInputs DEF LoadedPoint, ApplyPoint
        <5> QED
          BY <2>4, <4>1, <5>1, HeldWhole DEF BuiltInv, SwitchPoint
      <4> QED
        BY <2>2, <4>1, <4>2, <4>3
    <3> QED
      BY <2>1, <2>4, <3>1, <3>2, MainStep
  <2>5. CASE at = "redoMain"
    <3>1. /\ TryAddRule("main", stateFile.active)
          /\ stateFile.enabled /\ stateFile.active \in Slot
      <4>1. Restorable(own.prev)
        BY <2>5, ViewStep, ViewHandler DEF TypeOK, HandlerOK
      <4> QED
        BY <2>1, <2>5, <4>1, MainStep DEF Expected, Restorable, RecordInv
    <3>2. LiveSlot' = {} \/ LiveSlot' = {stateFile.active}
      BY <2>1, <3>1, TryAddRange DEF LiveSlot, RuleName, Lookup, TableName
    <3>3. CASE LiveSlot' = {}
      BY <1>1, <1>2, <1>3, <1>4, <2>1, <3>3
    <3>4. CASE LiveSlot' = {stateFile.active}
      <4>1. RecordedGeneration(stateFile.active) /\ stateFile.sha \in Data
        BY <2>5, <3>1 DEF TableInv
      <4>2. \/ Held[stateFile.active] \in Generations
            \/ Held[stateFile.active] = Empty
        BY <3>1, <4>1, HeldWhole DEF RecordedGeneration, Held
      <4> QED
        BY <2>2, <3>1, <3>4, <4>2 DEF Recorded
    <3> QED
      BY <3>2, <3>3, <3>4
  <2> QED
    BY <1>9, <2>4, <2>5
<1>10. CASE at \in {"record", "dRecord", "rState"}
  <2>1. UNCHANGED LiveSlot /\ UNCHANGED table
    BY <1>10, MainStep, TableFlow DEF FillPoint, WipePoint
  <2>2. UNCHANGED stateFile \/ Recorded' = Followed
    <3>1. CASE at = "record"
      <4>1. LiveSlot = {Target(stateFile)}
        BY <3>1, MayBeLiveAt DEF LiveInv
      <4>2. own \in Frame /\ own.prev = stateFile
        BY <3>1, ViewStep DEF PrevInv, LoadedPoint, ApplyPoint
      <4> QED
        BY <3>1, <4>1, <4>2, RecordStep, RecordedStates, FollowedAt DEF Recorded
    <3>2. CASE at \in {"dRecord", "rState"}
      <4>1. Followed = "off"
        BY <3>2, MayBeLiveAt, FollowedAt DEF LiveInv
      <4>2. UNCHANGED stateFile \/ ~stateFile'.enabled
        BY <3>2, RecordStep, RecordedStates, RestoredStates, ViewStep
      <4> QED
        BY <4>1, <4>2 DEF Recorded
    <3> QED
      BY <1>10, <3>1, <3>2
  <2> QED
    BY <1>1, <1>2, <1>3, <1>4, <2>1, <2>2 DEF Buffer!Next, Buffer!Record
<1>11. CASE at \notin {"flush", "load", "local", "dFlushLocal", "dFlushA", "dFlushB",
                       "unset", "undoMain", "dMain", "set", "redoMain",
                       "record", "dRecord", "rState"}
  <2>1. UNCHANGED stateFile /\ UNCHANGED LiveSlot /\ UNCHANGED table
    BY <1>11, RecordStep, MainStep, TableFlow DEF FillPoint, WipePoint
  <2> QED
    BY <1>1, <1>2, <1>3, <1>4, <2>1
<1>12. CASE at = "dFlushA"
  <2>1. "A" \in Slot
    BY DEF Slot
  <2> QED
    BY <1>7, <1>12, <2>1
<1>13. CASE at = "dFlushB"
  <2>1. "B" \in Slot
    BY DEF Slot
  <2> QED
    BY <1>7, <1>13, <2>1
<1> QED
  BY <1>5, <1>6, <1>8, <1>9, <1>10, <1>11, <1>12, <1>13

LEMMA BufferNext ==
    ASSUME {"save", "ruleDel", "crash"} \cap Faults = {}, TypeOK, OneHandler,
           PrevInv, RecordInv, LiveInv, BuiltInv, TableInv, [Next]_vars
    PROVE  [Buffer!Next]_Buffer!vars
<1>1. UNCHANGED <<rules, table, stateFile>> => UNCHANGED Buffer!vars
  <2> SUFFICES ASSUME UNCHANGED <<rules, table, stateFile>>
               PROVE  UNCHANGED Buffer!vars
    OBVIOUS
  <2>1. UNCHANGED LiveSlot
    BY DEF LiveSlot
  <2> QED
    BY <2>1, BufferUnchanged DEF Buffer!vars
<1>2. CASE Reboot
  <2>1. \A s \in Slot : table'[s] \in {Empty, Foreign}
    BY <1>2 DEF Reboot, TableName
  <2>2. Held' = [s \in Slot |-> Empty]
    BY <2>1 DEF Held
  <2>3. LiveSlot' = {}
    <3>1. rules'["main"] \in {<<>>, <<"foreign">>}
      BY <1>2 DEF Reboot, RuleName
    <3>2. Range(<<>>) = {} /\ Range(<<"foreign">>) = {"foreign"}
      BY DEF Range
    <3> QED
      BY <3>1, <3>2 DEF LiveSlot, Slot
  <2>4. Followed' = "off" /\ UNCHANGED Recorded
    BY <1>2, <2>3 DEF Followed, Recorded, Reboot
  <2> QED
    BY <2>2, <2>4 DEF Buffer!Next, Buffer!Lose
<1>3. ASSUME NEW p \in Proc, Start(p)
      PROVE  UNCHANGED Buffer!vars
  BY <1>1, <1>3, ViewStart
<1>4. CASE Intrude
  <2>1. UNCHANGED <<LiveSlot, stateFile>>
    BY <1>4, ViewIntrude DEF Intruded
  <2>2. \A s \in Slot : table'[s] = table[s] \/ (table[s] = Empty /\ table'[s] = Foreign)
    BY <1>4, ViewIntrude DEF Intruded, TableName
  <2>3. UNCHANGED Held
    BY <2>2 DEF Held
  <2> QED
    BY <2>1, <2>3 DEF Followed, Recorded, Buffer!vars
<1> QED
  BY <1>1, <1>2, <1>3, <1>4, BufferHandler, ViewRest DEF Next, Crash, Resting

\* Under the same conditions the engine implements the double buffer: it builds
\* only in a slot that is neither live nor on record, lets traffic follow only a
\* complete one, and records only what is live.
THEOREM ImplementsDoubleBufferCorrect ==
    ASSUME {"save", "ruleDel", "crash"} \cap Faults = {}
    PROVE  Spec => ImplementsDoubleBuffer
<1>1. Init => Buffer!Init
  <2> SUFFICES ASSUME Init PROVE Buffer!Init
    OBVIOUS
  <2>1. Held = [s \in Slot |-> Empty]
    BY DEF Init, Held, TableName
  <2>2. Followed = "off" /\ Recorded = "off"
    BY LiveInit, FollowedAt DEF Init, Recorded, DefaultState
  <2> QED
    BY <2>1, <2>2 DEF Buffer!Init
<1>2. TypeOK /\ OneHandler /\ PrevInv /\ RecordInv /\ LiveInv /\ BuiltInv
        /\ TableInv /\ [Next]_vars => [Buffer!Next]_Buffer!vars
  BY BufferNext
<1>3. {"ruleDel", "crash"} \cap Faults = {} /\ {"save", "crash"} \cap Faults = {}
  OBVIOUS
<1> QED
  BY <1>1, <1>2, <1>3, TypeCorrect, OneHandlerCorrect, PrevCorrect, RecordCorrect,
     LiveCorrect, BuiltCorrect, TableCorrect, PTL
     DEF Spec, ImplementsDoubleBuffer, Buffer!Spec

=============================================================================
