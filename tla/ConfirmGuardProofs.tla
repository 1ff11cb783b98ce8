------------------------- MODULE ConfirmGuardProofs -------------------------
(***************************************************************************)
(* An activation has its timer until it is confirmed: GuardHeld, for any   *)
(* number of sessions and timers that overlap in any way, as long as an    *)
(* apply does not outlast its own timer, rollbacks that run succeed, the   *)
(* host stays up and nothing but the engine writes state.json.  The        *)
(* instances ClaimSlowApply, ClaimReboot and ClaimDisableRace show what    *)
(* happens otherwise.                                                      *)
(***************************************************************************)
EXTENDS ConfirmProofs

USE DEF Faulty, At, Pending

\* No apply outlasts its timer, no reboot, no rollback that fails once it runs,
\* no command that writes state.json itself.
Guarded ==
    /\ ~Slow
    /\ "reboot" \notin Faults
    /\ "rollback" \notin Faults
    /\ Commands \cap {"import", "setup"} = {}

\* What is in force is on record, and so is the guard's existence.
VerdictOK ==
    /\ live # None => enabled
    /\ verdict \in Unit => enabled /\ units[verdict].status # "gone"

\* A timer belongs to the command that scheduled it.
OwnersOK ==
    \A p, q \in Session :
        local[p].unit \in Unit /\ local[p].unit = local[q].unit => p = q

\* Until its activation is in force a command has an armed timer of its own that
\* guards nothing yet; the engine's inputs are the state on record.
StageOK(p) ==
    /\ local[p].op \notin {"import", "setup"}
    /\ pc[p] # "digest"
    /\ pc[p] \in {"engine", "running", "cancel"} /\ local[p].unit \in Unit =>
          verdict # local[p].unit
    /\ pc[p] \in {"engine", "running"} /\ local[p].op \in Interactive =>
          units[local[p].unit].status = "armed"
    /\ pc[p] = "running" => local[p].loaded.enabled = enabled

GuardInv == VerdictOK /\ OwnersOK /\ \A p \in Session : StageOK(p)

-----------------------------------------------------------------------------

\* A step of one session leaves the guards of the others alone.
LEMMA SessionStep ==
    ASSUME TypeOK, GuardInv, NEW p \in Session,
           \A q \in Session : q # p => pc'[q] = pc[q] /\ local'[q] = local[q],
           \/ local'[p].unit = local[p].unit
           \/ local'[p].unit = None
           \/ Owner(local'[p].unit) = {},
           \A u \in Unit : units'[u] = units[u] \/ u = local[p].unit \/ Owner(u) = {},
           verdict' = verdict \/ verdict' = local[p].unit \/ verdict' \notin Unit,
           enabled' = enabled \/ pc[p] = "running",
           VerdictOK', StageOK(p)'
    PROVE  GuardInv'
<1>1. ASSUME NEW q \in Session, q # p PROVE StageOK(q)'
  <2>1. pc'[q] = pc[q] /\ local'[q] = local[q] /\ StageOK(q)
    BY <1>1 DEF GuardInv
  <2>2. enabled' = enabled \/ pc[q] # "running"
    BY <1>1 DEF TypeOK, HolderOK
  <2>3. local[q].unit \in Unit =>
            local[q].unit # local[p].unit /\ units'[local[q].unit] = units[local[q].unit]
    BY <1>1 DEF GuardInv, OwnersOK, Owner
  <2>4. pc[q] \in {"engine", "running"} /\ local[q].op \in Interactive =>
            local[q].unit \in Unit
    BY LocalType DEF Ready
  <2> QED
    BY <2>1, <2>2, <2>3, <2>4 DEF StageOK
<1>2. ASSUME NEW q \in Session, NEW r \in Session,
             local'[q].unit \in Unit, local'[q].unit = local'[r].unit
      PROVE  q = r
  BY <1>2, ActorAssumption DEF GuardInv, OwnersOK, Owner
<1> QED
  BY <1>1, <1>2 DEF GuardInv, OwnersOK

\* The command has no timer at the points it may go to, or returns.
LEMMA SessionMove ==
    ASSUME TypeOK, GuardInv, NEW p \in Session,
           UNCHANGED <<enabled, live, verdict, units>>,
           \/ Return(p)
           \/ \E point \in {"check", "schedule", "revert", "prompt", "stop", "persist"} :
                 Go(p, point)
           \/ pc[p] = "engine" /\ Go(p, "cancel")
           \/ pc[p] = "running" /\ Go(p, "cancel")
    PROVE  GuardInv'
<1>1. local \in [Session -> Local] /\ pc \in [Session -> Point]
  BY DEF TypeOK, ControlTypeOK
<1>2. VerdictOK' /\ StageOK(p)
  BY DEF GuardInv, VerdictOK
<1>3. CASE Return(p)
  <2>1. /\ local'[p] = NoLocal /\ pc'[p] = "idle"
        /\ \A q \in Session : q # p => pc'[q] = pc[q] /\ local'[q] = local[q]
    BY <1>1, <1>3 DEF Return
  <2>2. StageOK(p)' /\ local'[p].unit = None
    BY <2>1 DEF StageOK, NoLocal
  <2> QED
    BY <1>2, <2>1, <2>2, SessionStep
<1>4. ASSUME NEW point \in {"check", "schedule", "revert", "prompt", "stop", "persist", "cancel"},
             Go(p, point), point = "cancel" => pc[p] \in {"engine", "running"}
      PROVE  GuardInv'
  <2>1. /\ local'[p] = local[p] /\ pc'[p] = point
        /\ \A q \in Session : q # p => pc'[q] = pc[q] /\ local'[q] = local[q]
    BY <1>1, <1>4 DEF Go
  <2>2. StageOK(p)'
    BY <1>2, <1>4, <2>1 DEF StageOK
  <2> QED
    BY <1>2, <2>1, <2>2, SessionStep
<1> QED
  BY <1>3, <1>4

-----------------------------------------------------------------------------
(* Commands *)

LEMMA BeginGuard ==
    ASSUME Guarded, TypeOK, GuardInv, NEW p \in Session, NEW op, NEW new, NEW snap,
           NEW point \in {"save", "schedule", "engine"},
           Begin(p, op, new, snap, point),
           point = "engine" => op \notin Interactive
    PROVE  GuardInv'
<1>1. local \in [Session -> Local] /\ pc \in [Session -> Point]
  BY DEF TypeOK, ControlTypeOK
<1>2. /\ local'[p].op = op /\ local'[p].unit = None /\ pc'[p] = point
      /\ \A q \in Session : q # p => pc'[q] = pc[q] /\ local'[q] = local[q]
  BY <1>1 DEF Begin
<1>3. op \notin {"import", "setup"}
  BY DEF Guarded, Begin
<1>4. StageOK(p)'
  BY <1>2, <1>3, ActorAssumption DEF StageOK
<1>5. UNCHANGED <<enabled, live, verdict, units>>
  BY DEF Begin, policy
<1>6. VerdictOK'
  BY <1>5 DEF GuardInv, VerdictOK
<1> QED
  BY <1>2, <1>4, <1>5, <1>6, SessionStep

LEMMA TypedGuard ==
    ASSUME Guarded, TypeOK, GuardInv, NEW p \in Session, Typed(p) PROVE GuardInv'
<1>1. CASE Change(p)
  BY <1>1, BeginGuard DEF Change
<1>2. CASE Import(p)
  BY <1>2, BeginGuard DEF Import
<1>3. CASE Setup(p)
  BY <1>3, BeginGuard DEF Setup
<1>4. CASE Activate(p)
  BY <1>4, BeginGuard DEF Activate
<1>5. CASE ActivateUnattended(p)
  BY <1>5, BeginGuard DEF ActivateUnattended, Interactive
<1>6. CASE Disable(p)
  BY <1>6, BeginGuard DEF Disable, Interactive
<1>7. CASE RollbackLatest(p)
  BY <1>7, BeginGuard DEF RollbackLatest, Interactive
<1> QED
  BY <1>1, <1>2, <1>3, <1>4, <1>5, <1>6, <1>7 DEF Typed

LEMMA ControlGuard ==
    ASSUME TypeOK, GuardInv, NEW p \in Session,
           \/ Save(p) \/ SaveError(p) \/ Check(p) \/ CheckDisabled(p) \/ Revert(p)
           \/ ScheduleError(p) \/ Rejected(p) \/ ApplyFailed(p) \/ Answer(p)
           \/ StopError(p) \/ Persist(p) \/ Lost(p)
    PROVE  GuardInv'
<1>1. StageOK(p) /\ Ready(pc[p], local[p])
  BY LocalType DEF GuardInv
<1>2. CASE Save(p)
  BY <1>2, SessionMove DEF Save, record, policy
<1>3. CASE SaveError(p)
  BY <1>3, SessionMove DEF SaveError, record, policy
<1>4. CASE Check(p)
  BY <1>4, SessionMove DEF Check, record, policy
<1>5. CASE CheckDisabled(p)
  <2>1. local[p].op = "change"
    BY <1>1, <1>5 DEF CheckDisabled, Ready, StageOK
  <2> QED
    BY <1>5, <2>1, SessionMove DEF CheckDisabled, record, policy
<1>6. CASE Revert(p)
  BY <1>6, SessionMove DEF Revert, record, policy
<1>7. CASE ScheduleError(p)
  BY <1>7, SessionMove DEF ScheduleError, Undo, record, policy
<1>8. CASE Rejected(p)
  BY <1>8, SessionMove DEF Rejected, record, policy
<1>9. CASE ApplyFailed(p)
  BY <1>9, SessionMove DEF ApplyFailed, NotActivated, Running, policy
<1>10. CASE Answer(p)
  BY <1>10, SessionMove DEF Answer, record, policy
<1>11. CASE StopError(p)
  BY <1>11, SessionMove DEF StopError, record, policy
<1>12. CASE Persist(p)
  BY <1>12, SessionMove DEF Persist, record, policy
<1>13. CASE Lost(p)
  BY <1>13, SessionMove DEF Lost, record, policy
<1> QED
  BY <1>2, <1>3, <1>4, <1>5, <1>6, <1>7, <1>8, <1>9, <1>10, <1>11, <1>12, <1>13

LEMMA AcquireLockGuard ==
    ASSUME TypeOK, GuardInv, NEW p \in Session, AcquireLock(p) PROVE GuardInv'
<1>1. /\ local \in [Session -> Local] /\ pc \in [Session -> Point]
      /\ StageOK(p) /\ pc[p] = "engine"
  BY DEF TypeOK, ControlTypeOK, GuardInv, AcquireLock
<1>2. /\ local'[p].op = local[p].op /\ local'[p].unit = local[p].unit
      /\ local'[p].loaded = Current /\ pc'[p] = "running"
      /\ \A q \in Session : q # p => pc'[q] = pc[q] /\ local'[q] = local[q]
  BY <1>1 DEF AcquireLock, Local
<1>3. UNCHANGED <<enabled, live, verdict, units>>
  BY DEF AcquireLock, record, policy
<1>4. Current.enabled = enabled
  BY DEF Current
<1>5. StageOK(p)'
  BY <1>1, <1>2, <1>3, <1>4 DEF StageOK
<1>6. VerdictOK'
  BY <1>3 DEF GuardInv, VerdictOK
<1> QED
  BY <1>2, <1>3, <1>5, <1>6, SessionStep

\* The engine's record is what was loaded, so what disable and rollback take for
\* granted is so, and a rollback does not fail.
LEMMA OutcomeGuard ==
    ASSUME Guarded, DataTypeOK, VerdictOK, NEW s \in Snapshot
    PROVE  /\ Disabled(enabled) => ~enabled' /\ live' = None /\ verdict' \notin Unit
           /\ RolledBack(s) => (live' # None => enabled') /\ verdict' \notin Unit
           /\ ~NotRolledBack(s)
<1>1. /\ enabled \in BOOLEAN /\ (live # None => enabled)
      /\ verdict \in Verdict \cup Unit /\ (verdict \in Unit => enabled)
  BY DEF DataTypeOK, VerdictOK
<1>2. "none" \notin Unit /\ "restored" \notin Unit
  BY ActorAssumption DEF Verdict
<1>3. Disabled(enabled) => ~enabled' /\ live' = None /\ verdict' \notin Unit
  BY <1>1, <1>2 DEF Disabled
<1>4. RolledBack(s) => (live' # None => enabled') /\ verdict' \notin Unit
  BY <1>2, <1>3 DEF RolledBack
<1>5. ~NotRolledBack(s)
  BY <1>1 DEF NotRolledBack, Guarded
<1> QED
  BY <1>3, <1>4, <1>5

LEMMA OperationGuard ==
    ASSUME Guarded, TypeOK, GuardInv, NEW p \in Session,
           \/ Applied(p) \/ AppliedUnattended(p)
           \/ DisableEnd(p) \/ DisableFailed(p) \/ RollbackLatestEnd(p)
    PROVE  GuardInv'
<1>1. /\ pc[p] = "running" /\ units' = units
      /\ StageOK(p) /\ VerdictOK /\ DataTypeOK /\ Ready("running", local[p])
      /\ local \in [Session -> Local] /\ pc \in [Session -> Point]
  BY LocalType DEF TypeOK, ControlTypeOK, GuardInv, Running, Applied, AppliedUnattended,
     DisableEnd, DisableFailed, RollbackLatestEnd
<1>2. local[p].loaded \in Snapshot /\ local[p].loaded.enabled = enabled
  BY <1>1 DEF Ready, StageOK
<1>3. /\ \A q \in Session : q # p => pc'[q] = pc[q] /\ local'[q] = local[q]
      /\ pc'[p] \in {"prompt", "persist", "idle"}
      /\ local'[p] = local[p] \/ local'[p] = NoLocal
  BY <1>1 DEF Applied, AppliedUnattended, DisableEnd, DisableFailed, RollbackLatestEnd,
     Go, Return
<1>4. StageOK(p)'
  BY <1>1, <1>3 DEF StageOK, NoLocal
<1>5. /\ local'[p].unit = local[p].unit \/ local'[p].unit = None
  BY <1>3 DEF NoLocal
<1>6. CASE Applied(p)
  <2>1. /\ local[p].unit \in Unit /\ units[local[p].unit].status = "armed"
    BY <1>1, <1>6 DEF Applied, Running, Ready, StageOK
  <2>2. enabled' /\ verdict' = local[p].unit
    BY <1>6 DEF Applied, Activated
  <2>3. VerdictOK'
    BY <1>1, <2>1, <2>2 DEF VerdictOK
  <2> QED
    BY <1>1, <1>3, <1>4, <1>5, <2>2, <2>3, SessionStep
<1>7. CASE AppliedUnattended(p)
  <2>1. enabled' /\ verdict' \notin Unit
    BY <1>7, ActorAssumption DEF AppliedUnattended, Activated, Verdict
  <2>2. VerdictOK'
    BY <2>1 DEF VerdictOK
  <2> QED
    BY <1>1, <1>3, <1>4, <1>5, <2>1, <2>2, SessionStep
<1>8. CASE DisableEnd(p)
  <2>1. live' = None /\ verdict' \notin Unit
    BY <1>1, <1>2, <1>8, OutcomeGuard DEF DisableEnd
  <2>2. VerdictOK'
    BY <2>1 DEF VerdictOK
  <2> QED
    BY <1>1, <1>3, <1>4, <1>5, <2>1, <2>2, SessionStep
<1>9. CASE RollbackLatestEnd(p)
  <2>1. local[p].snap \in Snapshot
    BY <1>1, <1>9 DEF RollbackLatestEnd, Running, Ready
  <2>2. (live' # None => enabled') /\ verdict' \notin Unit
    BY <1>1, <1>9, <2>1, OutcomeGuard DEF RollbackLatestEnd
  <2>3. VerdictOK'
    BY <2>2 DEF VerdictOK
  <2> QED
    BY <1>1, <1>3, <1>4, <1>5, <2>2, <2>3, SessionStep
<1>10. CASE DisableFailed(p)
  <2>1. CASE RulesLost(local[p].loaded.enabled)
    <3>1. live' = None /\ verdict' \notin Unit
      BY <2>1, ActorAssumption DEF RulesLost, Verdict
    <3>2. VerdictOK'
      BY <3>1 DEF VerdictOK
    <3> QED
      BY <1>1, <1>3, <1>4, <1>5, <3>1, <3>2, SessionStep
  <2>2. CASE UNCHANGED <<enabled, policy>>
    <3>1. verdict' = verdict /\ VerdictOK'
      BY <1>1, <2>2 DEF VerdictOK, policy
    <3> QED
      BY <1>1, <1>3, <1>4, <1>5, <3>1, SessionStep
  <2> QED
    BY <1>10, <2>1, <2>2 DEF DisableFailed
<1> QED
  BY <1>6, <1>7, <1>8, <1>9, <1>10

LEMMA ScheduleGuard ==
    ASSUME TypeOK, GuardInv, NEW p \in Session, Schedule(p) PROVE GuardInv'
<1>1. PICK u \in Unit :
          /\ Owner(u) = {}
          /\ verdict # u
          /\ units' = [units EXCEPT ![u] = [status |-> "armed", snap |-> local[p].snap]]
          /\ local' = [local EXCEPT ![p].unit = u]
  BY DEF Schedule
<1>2. /\ local \in [Session -> Local] /\ pc \in [Session -> Point]
      /\ units \in [Unit -> Timer] /\ StageOK(p)
  BY DEF TypeOK, ControlTypeOK, GuardInv
<1>3. /\ local'[p].unit = u /\ local'[p].op = local[p].op
      /\ \A q \in Session : q # p => pc'[q] = pc[q] /\ local'[q] = local[q]
      /\ pc'[p] = "engine"
  BY <1>1, <1>2 DEF Schedule, Local
<1>4. /\ units'[u].status = "armed"
      /\ \A v \in Unit : v # u => units'[v] = units[v]
  BY <1>1, <1>2
<1>5. UNCHANGED <<enabled, live, verdict>>
  BY DEF Schedule, record, policy
<1>6. StageOK(p)'
  BY <1>1, <1>2, <1>3, <1>4, <1>5 DEF StageOK
<1>7. VerdictOK'
  BY <1>1, <1>4, <1>5 DEF GuardInv, VerdictOK
<1> QED
  BY <1>1, <1>3, <1>4, <1>5, <1>6, <1>7, SessionStep

\* Nobody stops the timer that guards the generation in force but to confirm it.
LEMMA StopGuard ==
    ASSUME TypeOK, GuardInv, NEW p \in Session, Cancel(p) \/ Stop(p) PROVE GuardInv'
<1> DEFINE u == local[p].unit
<1>1. /\ local \in [Session -> Local] /\ pc \in [Session -> Point]
      /\ units \in [Unit -> Timer] /\ StageOK(p) /\ VerdictOK
  BY DEF TypeOK, ControlTypeOK, GuardInv
<1>2. \A v \in Unit : v # u => units'[v] = units[v]
  BY <1>1 DEF Cancel, Stop, StopTimer
<1>3. /\ \A q \in Session : q # p => pc'[q] = pc[q] /\ local'[q] = local[q]
      /\ pc'[p] \in {"revert", "persist", "idle"}
      /\ local'[p] = local[p] \/ local'[p] = NoLocal
  BY <1>1 DEF Cancel, Stop, Undo, AfterConfirm, Go, Return
<1>4. StageOK(p)'
  BY <1>1, <1>3 DEF StageOK, NoLocal
<1>5. local'[p].unit = local[p].unit \/ local'[p].unit = None
  BY <1>3 DEF NoLocal
<1>6. UNCHANGED <<enabled, live>> /\ "confirmed" \notin Unit
  BY ActorAssumption DEF Cancel, Stop, record, policy, Verdict
<1>7. (verdict' = verdict \/ verdict' \notin Unit) /\ (verdict' \in Unit => verdict' # u)
  <2>1. CASE Cancel(p)
    BY <1>1, <2>1 DEF Cancel, StageOK, policy
  <2>2. CASE Stop(p)
    BY <1>6, <2>2 DEF Stop, Keep
  <2> QED
    BY <2>1, <2>2
<1>8. VerdictOK'
  BY <1>1, <1>2, <1>6, <1>7 DEF VerdictOK
<1> QED
  BY <1>2, <1>3, <1>4, <1>5, <1>6, <1>7, <1>8, SessionStep

LEMMA CommandGuard ==
    ASSUME Guarded, TypeOK, GuardInv, NEW p \in Session, Command(p) PROVE GuardInv'
<1>1. ~Digest(p)
  BY DEF Digest, GuardInv, StageOK
<1> QED
  BY <1>1, ControlGuard, AcquireLockGuard, OperationGuard, ScheduleGuard, StopGuard
  DEF Command

-----------------------------------------------------------------------------
(* Timers and reboots *)

LEMMA TimerGuard ==
    ASSUME Guarded, TypeOK, GuardInv, NEW u \in Unit, TimerStep(u) PROVE GuardInv'
<1>1. /\ units \in [Unit -> Timer] /\ UNCHANGED <<pc, local>>
      /\ VerdictOK /\ DataTypeOK
  BY DEF TypeOK, ControlTypeOK, GuardInv, TimerStep, Fire, FireRejected, RollbackEnd
<1>2. OwnersOK'
  BY <1>1 DEF GuardInv, OwnersOK
<1>3. CASE Fire(u) \/ FireRejected(u)
  <2>1. /\ Owner(u) = {} /\ UNCHANGED <<enabled, live, verdict>>
        /\ units'[u].status # "gone"
        /\ \A v \in Unit : v # u => units'[v] = units[v]
    BY <1>1, <1>3 DEF Fire, FireRejected, Elapsed, Guarded, record, policy, Timer
  <2>2. VerdictOK'
    BY <1>1, <2>1 DEF VerdictOK
  <2>3. ASSUME NEW p \in Session PROVE StageOK(p)'
    <3>1. StageOK(p) /\ Ready(pc[p], local[p])
      BY LocalType DEF GuardInv
    <3>2. pc[p] \in {"engine", "running"} /\ local[p].op \in Interactive =>
              local[p].unit \in Unit /\ local[p].unit # u
      BY <2>1, <3>1 DEF Ready, Owner
    <3> QED
      BY <1>1, <2>1, <3>1, <3>2 DEF StageOK
  <2> QED
    BY <1>2, <2>2, <2>3 DEF GuardInv
<1>4. CASE RollbackEnd(u)
  <2>1. units[u].status = "running" /\ units[u].snap \in Snapshot /\ lock = u
    BY <1>4 DEF RollbackEnd, TypeOK, HolderOK
  <2>2. (live' # None => enabled') /\ verdict' \notin Unit
    BY <1>1, <1>4, <2>1, OutcomeGuard DEF RollbackEnd
  <2>3. VerdictOK'
    BY <2>2 DEF VerdictOK
  <2>4. ASSUME NEW p \in Session PROVE StageOK(p)'
    <3>1. StageOK(p) /\ Ready(pc[p], local[p]) /\ pc[p] # "running"
      BY <2>1, LocalType, ActorAssumption DEF GuardInv, TypeOK, HolderOK
    <3>2. pc[p] = "engine" /\ local[p].op \in Interactive =>
              /\ local[p].unit \in Unit /\ units[local[p].unit].status = "armed"
              /\ units'[local[p].unit] = units[local[p].unit]
      BY <1>1, <1>4, <2>1, <3>1 DEF Ready, StageOK, RollbackEnd
    <3> QED
      BY <1>1, <2>2, <3>1, <3>2 DEF StageOK
  <2> QED
    BY <1>2, <2>3, <2>4 DEF GuardInv
<1> QED
  BY <1>3, <1>4 DEF TimerStep

LEMMA BootApplyGuard == ASSUME TypeOK, GuardInv, BootApply PROVE GuardInv'
<1>1. CASE LockFree /\ live' = OnDisk /\ enabled' = TRUE
  <2>1. \A p \in Session : pc[p] # "running"
    BY <1>1, ActorAssumption DEF TypeOK, HolderOK, LockFree
  <2> QED
    BY <1>1, <2>1 DEF BootApply, GuardInv, VerdictOK, OwnersOK, StageOK
<1>2. CASE UNCHANGED <<live, record>>
  BY <1>2 DEF BootApply, GuardInv, VerdictOK, OwnersOK, StageOK, record
<1>3. CASE UNCHANGED <<enabled, policy>>
  BY <1>3 DEF BootApply, GuardInv, VerdictOK, OwnersOK, StageOK, policy
<1> QED
  BY <1>1, <1>2, <1>3 DEF BootApply, NotActivated

-----------------------------------------------------------------------------

LEMMA InitGuard == Init => GuardInv
<1> SUFFICES ASSUME Init PROVE GuardInv
  OBVIOUS
<1>1. VerdictOK
  BY ActorAssumption DEF Init, VerdictOK, Verdict
<1>2. OwnersOK
  BY ActorAssumption DEF Init, OwnersOK, NoLocal
<1>3. \A p \in Session : StageOK(p)
  BY DEF Init, StageOK, NoLocal
<1> QED
  BY <1>1, <1>2, <1>3 DEF GuardInv

LEMMA StepGuard == Guarded /\ TypeOK /\ GuardInv /\ [Next]_vars => GuardInv'
<1> SUFFICES ASSUME Guarded, TypeOK, GuardInv, [Next]_vars PROVE GuardInv'
  OBVIOUS
<1>1. CASE UNCHANGED vars
  BY <1>1 DEF vars, record, policy, GuardInv, VerdictOK, OwnersOK, StageOK
<1>2. CASE Next
  <2>1. ~Reboot
    BY DEF Reboot, Guarded
  <2> QED
    BY <1>2, <2>1, TypedGuard, CommandGuard, ControlGuard, TimerGuard, BootApplyGuard
    DEF Next
<1> QED
  BY <1>1, <1>2

\* Until it is confirmed an activation has its timer, whatever other sessions
\* and their timers do; the timer is lost only to the lock.
THEOREM GuardHeldCorrect ==
    ASSUME Guarded
    PROVE  Spec => []GuardHeld
<1>1. Init => GuardInv
  BY InitGuard
<1>2. TypeOK /\ GuardInv /\ [Next]_vars => GuardInv'
  BY StepGuard
<1>3. GuardInv => GuardHeld
  BY DEF GuardInv, VerdictOK, GuardHeld
<1> QED
  BY <1>1, <1>2, <1>3, ConfirmTypeCorrect, PTL DEF Spec
=============================================================================
