-------------------------- MODULE ConfirmSoloProofs --------------------------
(***************************************************************************)
(* One operator, who lets a pending timer run out before the next command: *)
(* what is confirmed stays, what is not confirmed is undone to what it     *)
(* replaced, and the files are those of the generation in force.           *)
(***************************************************************************)
EXTENDS ConfirmProofs

USE DEF Faulty, At, Pending

\* One terminal, no command while a timer is pending, no apply that outlasts its
\* timer, no reboot, no rollback or disable that fails once it runs.
Solo ==
    /\ \A p, q \in Session : p = q
    /\ Patient
    /\ ~Slow
    /\ {"rollback", "disable", "reboot"} \cap Faults = {}

\* Where a command may have a timer, and where its generation is in force.
TimerPoint == {"engine", "running", "cancel", "revert", "prompt", "stop"}
InForcePoint == {"prompt", "stop", "persist"}

-----------------------------------------------------------------------------
(* Who waits for whom *)

\* The record agrees with the kernel, and an activation that is not confirmed
\* has its timer.
RecordOK ==
    /\ enabled <=> live # None
    /\ verdict \in Unit => enabled /\ Pending(verdict)
    /\ ~booting

\* There is one timer at most, of the command in progress or of the last one.
TimersWait ==
    /\ \A u, v \in Unit : Pending(u) /\ Pending(v) => u = v
    /\ \A u \in Unit, p \in Session :
          Pending(u) /\ pc[p] # "idle" =>
              /\ pc[p] \in TimerPoint
              /\ local[p].op \in Interactive
              /\ local[p].unit = u
              /\ units[u].status = "armed"

\* A command's timer waits as it was scheduled; it guards nothing before the
\* activation and the activation from then on; what was read is what is there.
SessionOK(p) ==
    /\ pc[p] \in {"engine", "running", "prompt", "stop"} /\ local[p].op \in Interactive =>
          units[local[p].unit] = [status |-> "armed", snap |-> local[p].snap]
    /\ pc[p] \notin {"idle", "prompt", "stop"} => verdict \notin Unit
    /\ pc[p] \in {"prompt", "stop"} => verdict = local[p].unit
    /\ pc[p] \in {"digest", "running"} => local[p].loaded = Current

SoloInv == RecordOK /\ TimersWait /\ \A p \in Session : SessionOK(p)

-----------------------------------------------------------------------------
(* The boot unit *)

\* What a command would go back to is enabled if the boot unit is; disable has
\* switched the unit off before it disables.
BootOK(p) ==
    pc[p] # "idle" =>
        /\ local[p].op \in Interactive /\ local[p].snap \in Snapshot /\ persistent =>
              local[p].snap.enabled
        /\ local[p].op = "disable" => ~persistent
        /\ local[p].op # "rollback"
        /\ pc[p] = "persist" => enabled

\* The boot unit is enabled on enabled systems only, and neither a pending rollback
\* nor a command goes back to a disabled one under it.
BootInv ==
    /\ persistent => enabled
    /\ \A u \in Unit : Pending(u) /\ persistent => units[u].snap.enabled
    /\ \A p \in Session : BootOK(p)

-----------------------------------------------------------------------------
(* The files *)

\* A command is on its way from what it found to its activation, or back.
Underway(p) == pc[p] \notin {"idle"} \cup InForcePoint
Editing(p) == Underway(p) /\ local[p].op \in {"change", "import"}

\* The snapshot of a command is of what it found; a command that changes a file
\* leaves the other alone, and what it found is in force until its activation.
EditOK(p) ==
    /\ Underway(p) /\ local[p].op \in Interactive =>
          local[p].snap = [cfg |-> local[p].old.cfg, data |-> local[p].old.data,
                           enabled |-> enabled]
    /\ Underway(p) /\ local[p].op \in {"enable", "apply"} => OnDisk = local[p].old
    /\ Editing(p) =>
          /\ live # None => live = local[p].old
          /\ local[p].op = "change" => dataFile = local[p].old.data
          /\ local[p].op = "import" => configFile = local[p].old.cfg
    /\ Underway(p) /\ local[p].op = "setup" => ~enabled
    /\ pc[p] = "digest" => ~enabled

\* What is in force is on disk, but while a command edits the files.
InForceOK == live # None => live = OnDisk \/ \E p \in Session : Editing(p)

\* The timer of an activation goes back to what the activation replaced.
UndoOK ==
    verdict \in Unit =>
        /\ units[verdict].snap.enabled <=> before # None
        /\ before # None => before = FilesOf(units[verdict].snap)

EditInv == InForceOK /\ UndoOK /\ \A p \in Session : EditOK(p)

\* A timer that does not guard the generation in force, of a command that has yet
\* to activate or of one that failed, goes back to what is in force.
GoesBack(u) ==
    /\ units[u].snap.enabled <=> enabled
    /\ live # None => live = FilesOf(units[u].snap)
LeftOK == \A u \in Unit : Pending(u) => verdict = u \/ GoesBack(u)

\* The stop of a failed activation's timer, and one that fails.
Stopped(p) == Cancel(p) /\ StopTimer(local[p].unit)
LeftArmed(p) == Cancel(p) /\ UNCHANGED units

\* Nor is a session lost, a write refused, a snapshot missing.
Plain == {"lost", "store", "snapshot"} \cap Faults = {}

-----------------------------------------------------------------------------
(* Steps of control *)

LEMMA Views ==
    ASSUME TypeOK, NEW p \in Session
    PROVE  /\ \A point : Go(p, point) => pc'[p] = point /\ local'[p] = local[p]
           /\ Return(p) => pc'[p] = "idle" /\ local'[p] = NoLocal
           /\ pc \in [Session -> Point] /\ local \in [Session -> Local]
           /\ units \in [Unit -> Timer] /\ local[p] \in Local
           /\ Ready(pc[p], local[p])
  BY DEF TypeOK, ControlTypeOK, Go, Return

\* With one session, what it does is all that happens at terminals.
LEMMA SessionMoves ==
    ASSUME Solo, SoloInv, NEW p \in Session, RecordOK', SessionOK(p)',
           \A u, v \in Unit : Pending(u)' /\ Pending(v)' => u = v,
           \A u \in Unit : Pending(u)' /\ pc'[p] # "idle" =>
               /\ pc'[p] \in TimerPoint
               /\ local'[p].op \in Interactive
               /\ local'[p].unit = u
               /\ units'[u].status = "armed"
    PROVE  SoloInv'
<1>1. \A q \in Session : q = p
  BY DEF Solo
<1>2. TimersWait'
  BY <1>1 DEF TimersWait
<1> QED
  BY <1>1, <1>2 DEF SoloInv

LEMMA SoloAt ==
    ASSUME SoloInv, NEW p \in Session
    PROVE  /\ RecordOK /\ SessionOK(p)
           /\ \A u, v \in Unit : Pending(u) /\ Pending(v) => u = v
           /\ \A u \in Unit : Pending(u) /\ pc[p] # "idle" =>
                  /\ pc[p] \in TimerPoint
                  /\ local[p].op \in Interactive
                  /\ local[p].unit = u
                  /\ units[u].status = "armed"
  BY DEF SoloInv, TimersWait

\* A command goes on or returns, and touches neither timers nor the engine.
LEMMA ControlSolo ==
    ASSUME Solo, TypeOK, SoloInv, NEW p \in Session, pc[p] # "idle",
           UNCHANGED <<enabled, live, verdict, units, booting>>,
           \/ Return(p)
           \/ pc[p] \in {"save", "check", "schedule"} /\
                 \E point \in {"check", "schedule", "revert"} : Go(p, point)
           \/ pc[p] \in {"engine", "running", "cancel"} /\
                 \E point \in {"cancel", "revert"} : Go(p, point)
           \/ pc[p] = "prompt" /\ Go(p, "stop")
    PROVE  SoloInv'
<1> USE DEF TimerPoint, SessionOK
<1>1. RecordOK' /\ UNCHANGED units
  BY DEF SoloInv, RecordOK
<1>2. CASE Return(p)
  BY <1>1, <1>2, Views, SoloAt, SessionMoves
<1>3. ASSUME NEW point \in {"check", "schedule", "revert"}, Go(p, point),
             pc[p] \in {"save", "check", "schedule"}
      PROVE  SoloInv'
  BY <1>1, <1>3, Views, SoloAt, SessionMoves
<1>4. ASSUME NEW point \in {"cancel", "revert"}, Go(p, point),
             pc[p] \in {"engine", "running", "cancel"}
      PROVE  SoloInv'
  <2>1. pc'[p] = point /\ local'[p] = local[p]
    BY <1>4, Views DEF Go
  <2>2. SessionOK(p)'
    BY <1>1, <1>4, <2>1, SoloAt
  <2>3. \A u \in Unit : Pending(u)' =>
            /\ pc'[p] \in TimerPoint
            /\ local'[p].op \in Interactive
            /\ local'[p].unit = u
            /\ units'[u].status = "armed"
    <3> SUFFICES ASSUME NEW u \in Unit, Pending(u)
                 PROVE  /\ local[p].op \in Interactive
                        /\ local[p].unit = u
                        /\ units[u].status = "armed"
      BY <1>1, <2>1
    <3> QED
      BY SoloAt
  <2>4. \A u, v \in Unit : Pending(u)' /\ Pending(v)' => u = v
    BY <1>1, SoloAt
  <2> QED
    BY <1>1, <2>2, <2>3, <2>4, SessionMoves
<1>5. CASE pc[p] = "prompt" /\ Go(p, "stop")
  <2>1. pc'[p] = "stop" /\ local'[p] = local[p]
    BY <1>5, Views DEF Go
  <2>2. SessionOK(p)'
    BY <1>1, <1>5, <2>1, SoloAt
  <2>3. \A u \in Unit : Pending(u)' =>
            /\ pc'[p] \in TimerPoint
            /\ local'[p].op \in Interactive
            /\ local'[p].unit = u
            /\ units'[u].status = "armed"
    <3> SUFFICES ASSUME NEW u \in Unit, Pending(u)
                 PROVE  /\ local[p].op \in Interactive
                        /\ local[p].unit = u
                        /\ units[u].status = "armed"
      BY <1>1, <2>1
    <3> QED
      BY SoloAt
  <2>4. \A u, v \in Unit : Pending(u)' /\ Pending(v)' => u = v
    BY <1>1, SoloAt
  <2> QED
    BY <1>1, <2>2, <2>3, <2>4, SessionMoves
<1> QED
  BY <1>2, <1>3, <1>4, <1>5

LEMMA ControlSteps ==
    ASSUME Solo, TypeOK, SoloInv, NEW p \in Session,
           \/ Save(p) \/ SaveError(p) \/ Check(p) \/ Revert(p) \/ ScheduleError(p)
           \/ Rejected(p) \/ ApplyFailed(p) \/ LeftArmed(p) \/ Answer(p)
           \/ StopError(p) \/ Persist(p) \/ Lost(p)
    PROVE  SoloInv'
<1> USE DEF record, policy, boot, Undo
<1>1. CASE Save(p) \/ SaveError(p)
  BY <1>1, ControlSolo DEF Save, SaveError
<1>2. CASE Check(p) \/ Revert(p)
  BY <1>2, ControlSolo DEF Check, Revert
<1>3. CASE ScheduleError(p) \/ Rejected(p)
  BY <1>3, ControlSolo DEF ScheduleError, Rejected
<1>4. CASE ApplyFailed(p)
  BY <1>4, ControlSolo DEF ApplyFailed, NotActivated, Running
<1>5. CASE Answer(p) \/ StopError(p)
  BY <1>5, ControlSolo DEF Answer, StopError
<1>6. CASE Persist(p) \/ Lost(p)
  BY <1>6, ControlSolo DEF Persist, Lost
<1>7. CASE LeftArmed(p)
  BY <1>7, ControlSolo DEF LeftArmed, Cancel
<1> QED
  BY <1>1, <1>2, <1>3, <1>4, <1>5, <1>6, <1>7

\* A command that begins finds no timer.
LEMMA BeginSolo ==
    ASSUME Solo, TypeOK, SoloInv, NEW p \in Session, NEW op, NEW new, NEW snap,
           NEW point \in {"save", "schedule", "engine"},
           Begin(p, op, new, snap, point), booting' = booting \/ booting' = FALSE,
           point = "engine" => op \notin Interactive
    PROVE  /\ SoloInv'
           /\ \A u \in Unit : ~Pending(u) /\ ~Pending(u)'
           /\ pc[p] = "idle" /\ pc'[p] = point
           /\ local'[p] = [op |-> op, old |-> OnDisk, new |-> new, snap |-> snap,
                           unit |-> None, loaded |-> None]
<1>1. /\ local'[p] = [op |-> op, old |-> OnDisk, new |-> new, snap |-> snap,
                      unit |-> None, loaded |-> None]
      /\ pc'[p] = point /\ pc[p] = "idle" /\ units' = units
  BY Views DEF Begin
<1>2. \A u \in Unit : ~Pending(u) /\ ~Pending(u)'
  BY <1>1 DEF Begin, Solo
<1>3. verdict \notin Unit
  BY <1>2 DEF SoloInv, RecordOK
<1>4. RecordOK'
  BY <1>3 DEF Begin, policy, SoloInv, RecordOK
<1>5. SessionOK(p)'
  BY <1>1, <1>3 DEF SessionOK, Begin, policy
<1> QED
  BY <1>1, <1>2, <1>4, <1>5, SessionMoves

LEMMA TypedSolo ==
    ASSUME Solo, TypeOK, SoloInv, NEW p \in Session, Typed(p) PROVE SoloInv'
<1>1. UNCHANGED boot => booting' = booting
  BY DEF boot
<1>2. CASE Change(p) \/ Import(p) \/ Setup(p)
  BY <1>1, <1>2, BeginSolo DEF Change, Import, Setup
<1>3. CASE Activate(p) \/ ActivateUnattended(p)
  BY <1>1, <1>3, BeginSolo DEF Activate, ActivateUnattended, Interactive
<1>4. CASE Disable(p) \/ RollbackLatest(p)
  BY <1>1, <1>4, BeginSolo DEF Disable, RollbackLatest, Interactive
<1> QED
  BY <1>2, <1>3, <1>4 DEF Typed

-----------------------------------------------------------------------------
(* Steps that read, and the engine's *)

LEMMA CheckDisabledSolo ==
    ASSUME Solo, TypeOK, SoloInv, NEW p \in Session, CheckDisabled(p) PROVE SoloInv'
<1>1. CASE Return(p)
  BY <1>1, ControlSolo DEF CheckDisabled, record, policy, boot
<1>2. CASE /\ pc' = [pc EXCEPT ![p] = "digest"]
           /\ local' = [local EXCEPT ![p].loaded = Current]
  <2>1. /\ pc'[p] = "digest" /\ local'[p].loaded = Current /\ pc[p] = "check"
        /\ UNCHANGED <<files, record, policy, lock, units, boot>>
    BY <1>2, Views DEF CheckDisabled, Local
  <2>2. \A u \in Unit : ~Pending(u)
    BY <2>1 DEF SoloInv, TimersWait, TimerPoint
  <2>3. Current' = Current
    BY <2>1 DEF Current, files, record
  <2>4. SessionOK(p)'
    BY <2>1, <2>3 DEF SoloInv, SessionOK, policy
  <2>5. RecordOK'
    BY <2>1 DEF SoloInv, RecordOK, record, policy, boot
  <2> QED
    BY <2>1, <2>2, <2>4, <2>5, SessionMoves
<1> QED
  BY <1>1, <1>2 DEF CheckDisabled

\* Nobody else writes between the look at state.json and the digest.
LEMMA DigestKeeps ==
    ASSUME TypeOK, SoloInv, NEW p \in Session, Digest(p) PROVE enabled' = enabled
<1>1. local[p].loaded = Current
  BY DEF SoloInv, SessionOK, Digest
<1> QED
  BY <1>1 DEF Digest, Current

LEMMA DigestSolo ==
    ASSUME Solo, TypeOK, SoloInv, NEW p \in Session, Digest(p) PROVE SoloInv'
  BY DigestKeeps, ControlSolo DEF Digest, policy, boot

LEMMA AcquireLockSolo ==
    ASSUME Solo, TypeOK, SoloInv, NEW p \in Session, AcquireLock(p)
    PROVE  /\ SoloInv'
           /\ pc[p] = "engine" /\ pc'[p] = "running"
           /\ \A f \in {"op", "old", "new", "unit"} : local'[p][f] = local[p][f]
           /\ local[p].op # "rollback" => local'[p].snap = local[p].snap
           /\ UNCHANGED <<files, record, policy, units, boot>>
<1>1. /\ pc[p] = "engine" /\ pc'[p] = "running" /\ local'[p].loaded = Current
      /\ \A f \in {"op", "old", "new", "unit"} : local'[p][f] = local[p][f]
      /\ local[p].op # "rollback" => local'[p].snap = local[p].snap
      /\ UNCHANGED <<files, record, policy, units, boot>>
  BY Views DEF AcquireLock, Local
<1>2. Current' = Current
  BY <1>1 DEF Current, files, record
<1>3. SessionOK(p)'
  BY <1>1, <1>2 DEF SoloInv, SessionOK, policy, Interactive
<1>4. RecordOK'
  BY <1>1 DEF SoloInv, RecordOK, record, policy, boot
<1> QED
  BY <1>1, <1>3, <1>4, SessionMoves DEF SoloInv, TimersWait, TimerPoint

\* What the engine's operations do to the record and to what is in force.
LEMMA OutcomeSolo ==
    ASSUME Solo, DataTypeOK, RecordOK, NEW s \in Snapshot
    PROVE  /\ \A g : Activated(s, g) => enabled' /\ live' # None /\ verdict' = g
           /\ Disabled(enabled) =>
                 ~enabled' /\ live' = None /\ verdict' \notin Unit
           /\ RolledBack(s) =>
                 /\ enabled' <=> s.enabled
                 /\ live' = IF s.enabled THEN FilesOf(s) ELSE None
                 /\ OnDisk' = FilesOf(s)
                 /\ enabled' <=> live' # None
                 /\ verdict' \notin Unit
           /\ ~NotRolledBack(s)
<1>1. FilesOf(s) # None /\ enabled \in BOOLEAN /\ s.enabled \in BOOLEAN
  BY FilesOfType, ValueAssumption DEF DataTypeOK, Snapshot
<1>2. "none" \notin Unit /\ "restored" \notin Unit
  BY ActorAssumption DEF Verdict
<1>3. ASSUME NEW g, Activated(s, g) PROVE enabled' /\ live' # None /\ verdict' = g
  BY <1>1, <1>3 DEF Activated
<1>4. ASSUME Disabled(enabled)
      PROVE  ~enabled' /\ live' = None /\ verdict' \notin Unit
  BY <1>1, <1>2, <1>4 DEF Disabled, RecordOK
<1>5. ASSUME RolledBack(s)
      PROVE  /\ enabled' <=> s.enabled
             /\ live' = IF s.enabled THEN FilesOf(s) ELSE None
             /\ OnDisk' = FilesOf(s)
             /\ enabled' <=> live' # None
             /\ verdict' \notin Unit
  <2>1. OnDisk' = FilesOf(s)
    BY <1>5 DEF RolledBack, OnDisk, FilesOf
  <2>2. CASE s.enabled
    BY <1>1, <1>2, <1>5, <2>1, <2>2 DEF RolledBack
  <2>3. CASE ~s.enabled
    BY <1>1, <1>4, <1>5, <2>1, <2>3 DEF RolledBack
  <2> QED
    BY <2>2, <2>3
<1>6. ~NotRolledBack(s)
  BY DEF NotRolledBack, Solo, RecordOK
<1> QED
  BY <1>3, <1>4, <1>5, <1>6

LEMMA OperationSolo ==
    ASSUME Solo, TypeOK, SoloInv, NEW p \in Session,
           \/ Applied(p) \/ AppliedUnattended(p) \/ DisableEnd(p) \/ RollbackLatestEnd(p)
    PROVE  SoloInv'
<1>1. /\ pc[p] = "running" /\ UNCHANGED <<units, boot>> /\ DataTypeOK /\ RecordOK
      /\ Ready("running", local[p]) /\ SessionOK(p)
      /\ local[p].loaded = Current /\ local[p].loaded \in Snapshot
  BY Views DEF Applied, AppliedUnattended, DisableEnd, RollbackLatestEnd, Running,
     TypeOK, SoloInv, SessionOK, Ready
<1>2. CASE Applied(p)
  <2>1. /\ local[p].op \in Interactive /\ local[p].unit \in Unit
        /\ pc'[p] = "prompt" /\ local'[p] = local[p]
    BY <1>1, <1>2, Views DEF Applied, Running, Ready
  <2>2. enabled' /\ live' # None /\ verdict' = local[p].unit
    BY <1>1, <1>2, OutcomeSolo DEF Applied
  <2>3. units[local[p].unit] = [status |-> "armed", snap |-> local[p].snap]
    BY <1>1, <2>1 DEF SessionOK
  <2>4. RecordOK' /\ SessionOK(p)'
    BY <1>1, <2>1, <2>2, <2>3 DEF RecordOK, SessionOK, boot
  <2> QED
    BY <1>1, <2>1, <2>4, SessionMoves DEF SoloInv, TimersWait, TimerPoint
<1>3. CASE ~Applied(p)
  <2>1. local[p].op \notin Interactive /\ pc'[p] \in {"idle", "persist"}
    BY <1>3, Views DEF AppliedUnattended, DisableEnd, RollbackLatestEnd, Running, Interactive
  <2>2. \A u \in Unit : ~Pending(u)
    BY <1>1, <2>1 DEF SoloInv, TimersWait
  <2>3. verdict \notin Unit /\ "unguarded" \notin Unit /\ "none" \notin Unit
    BY <1>1, ActorAssumption DEF SessionOK, Verdict
  <2>4. (enabled' <=> live' # None) /\ verdict' \notin Unit
    <3>1. CASE AppliedUnattended(p)
      BY <1>1, <2>3, <3>1, OutcomeSolo DEF AppliedUnattended
    <3>2. CASE DisableEnd(p)
      BY <1>1, <2>3, <3>2, OutcomeSolo DEF DisableEnd, Current
    <3>3. CASE RollbackLatestEnd(p)
      BY <1>1, <3>3, OutcomeSolo DEF RollbackLatestEnd, Running, Ready
    <3> QED
      BY <1>3, <3>1, <3>2, <3>3
  <2>5. RecordOK' /\ SessionOK(p)'
    BY <1>1, <2>1, <2>4 DEF RecordOK, SessionOK, boot
  <2> QED
    BY <1>1, <2>2, <2>5, SessionMoves
<1> QED
  BY <1>2, <1>3

-----------------------------------------------------------------------------
(* Steps of timers *)

\* Where a command begins to have a timer there is none.
LEMMA NoTimerYet ==
    ASSUME SoloInv, NEW p \in Session, pc[p] \notin {"idle"} \cup TimerPoint
    PROVE  \A u \in Unit : ~Pending(u)
  BY SoloAt

LEMMA ScheduleSolo ==
    ASSUME Solo, TypeOK, SoloInv, NEW p \in Session, Schedule(p)
    PROVE  /\ SoloInv'
           /\ pc[p] = "schedule" /\ pc'[p] = "engine"
           /\ local[p].op \in Interactive
           /\ \A f \in {"op", "old", "new", "snap"} : local'[p][f] = local[p][f]
           /\ local'[p].unit \in Unit
           /\ verdict \notin Unit
           /\ \A u \in Unit : ~Pending(u)
           /\ \A u \in Unit : Pending(u)' =>
                  /\ u = local'[p].unit
                  /\ units'[u] = [status |-> "armed", snap |-> local[p].snap]
<1>1. PICK u \in Unit :
          /\ units' = [units EXCEPT ![u] = [status |-> "armed", snap |-> local[p].snap]]
          /\ local' = [local EXCEPT ![p].unit = u]
  BY DEF Schedule
<1>2. /\ pc[p] = "schedule" /\ pc'[p] = "engine" /\ local'[p].unit = u
      /\ \A f \in {"op", "old", "new", "snap"} : local'[p][f] = local[p][f]
      /\ local[p].op \in Interactive
  BY <1>1, Views DEF Schedule, Local, Ready
<1>3. /\ units'[u] = [status |-> "armed", snap |-> local[p].snap]
      /\ \A v \in Unit : v # u => units'[v] = units[v]
  BY <1>1, Views
<1>4. \A v \in Unit : ~Pending(v)
  BY <1>2, NoTimerYet DEF TimerPoint
<1>5. \A v \in Unit : Pending(v)' => v = u
  BY <1>3, <1>4
<1>6. verdict \notin Unit /\ UNCHANGED <<enabled, live, verdict, booting>>
  BY <1>2, SoloAt DEF SessionOK, Schedule, record, policy, boot
<1>7. RecordOK'
  BY <1>6 DEF SoloInv, RecordOK
<1>8. SessionOK(p)'
  BY <1>2, <1>3, <1>6 DEF SessionOK
<1> QED
  BY <1>2, <1>3, <1>4, <1>5, <1>6, <1>7, <1>8, SessionMoves DEF TimerPoint

\* The command's timer is the only one, and it has not begun: it stops.
LEMMA StopSolo ==
    ASSUME Solo, TypeOK, SoloInv, NEW p \in Session, Stopped(p) \/ Stop(p)
    PROVE  /\ SoloInv'
           /\ \A u \in Unit : ~Pending(u)'
           /\ pc'[p] \in {"idle", "revert", "persist"}
           /\ pc'[p] = "idle" \/ local'[p] = local[p]
           /\ pc'[p] = "idle" \/ (pc'[p] = "revert" <=> Stopped(p))
           /\ Stopped(p) /\ local[p].op \in {"change", "import"} => pc'[p] = "revert"
           /\ verdict' \notin Unit
           /\ UNCHANGED <<files, record, live, before, boot>>
<1>1. /\ pc[p] \in {"cancel", "stop"} /\ pc'[p] \in {"idle", "revert", "persist"}
      /\ pc'[p] = "idle" \/ local'[p] = local[p]
      /\ pc'[p] = "idle" \/ (pc'[p] = "revert" <=> Stopped(p))
      /\ Stopped(p) /\ local[p].op \in {"change", "import"} => pc'[p] = "revert"
  BY Views DEF Stopped, Cancel, Stop, Undo, AfterConfirm
<1>2. UNCHANGED <<files, record, live, before, boot>>
  BY DEF Stopped, Cancel, Stop, policy
<1>3. \A u \in Unit : ~Pending(u)'
  <2> SUFFICES ASSUME NEW u \in Unit, Pending(u)' PROVE FALSE
    OBVIOUS
  <2>1. \A v \in Unit : Pending(v) => v = local[p].unit /\ units[v].status = "armed"
    BY <1>1, SoloAt
  <2>2. units' = IF local[p].unit \in Unit /\ units[local[p].unit].status = "armed"
                 THEN [units EXCEPT ![local[p].unit] = NoTimer] ELSE units
    BY DEF Stopped, Stop, StopTimer
  <2> QED
    BY <2>1, <2>2, Views DEF NoTimer
<1>4. verdict' \notin Unit
  <2>1. CASE Stopped(p)
    BY <2>1, SoloAt DEF SessionOK, Stopped, Cancel, policy
  <2>2. CASE Stop(p)
    BY <2>2, SoloAt, ActorAssumption DEF SessionOK, Stop, Keep, Verdict
  <2> QED
    BY <2>1, <2>2
<1>5. RecordOK'
  BY <1>2, <1>4 DEF SoloInv, RecordOK, record, boot
<1>6. SessionOK(p)'
  BY <1>1, <1>4 DEF SessionOK
<1> QED
  BY <1>1, <1>2, <1>3, <1>4, <1>5, <1>6, SessionMoves

LEMMA CancelCases ==
    ASSUME NEW p \in Session, Cancel(p) PROVE Stopped(p) \/ LeftArmed(p)
  BY DEF Cancel, Stopped, LeftArmed

LEMMA CommandSolo ==
    ASSUME Solo, TypeOK, SoloInv, NEW p \in Session, Command(p) PROVE SoloInv'
<1>1. ~DisableFailed(p)
  BY DEF DisableFailed, Solo
<1> QED
  BY <1>1, ControlSteps, CheckDisabledSolo, DigestSolo, AcquireLockSolo, OperationSolo,
     ScheduleSolo, StopSolo, CancelCases DEF Command

\* A timer that is due, or whose rollback runs, has no command waiting.
LEMMA DueAlone ==
    ASSUME Solo, TypeOK, SoloInv, NEW u \in Unit, TimerStep(u)
    PROVE  /\ \A p \in Session : pc[p] = "idle"
           /\ \A v \in Unit : Pending(v) <=> v = u
           /\ UNCHANGED <<pc, local, boot>>
           /\ \A v \in Unit : v # u => units'[v] = units[v]
           /\ ~FireRejected(u)
<1>1. /\ Pending(u) /\ (units[u].status = "running" \/ Owner(u) = {})
      /\ UNCHANGED <<pc, local, boot>> /\ units \in [Unit -> Timer]
  BY DEF TimerStep, Fire, FireRejected, RollbackEnd, Elapsed, Solo, TypeOK, ControlTypeOK
<1>2. \A p \in Session : pc[p] = "idle"
  BY <1>1, SoloAt DEF Owner
<1>3. \A v \in Unit : Pending(v) <=> v = u
  BY <1>1 DEF SoloInv, TimersWait
<1>4. \A v \in Unit : v # u => units'[v] = units[v]
  BY <1>1 DEF TimerStep, Fire, FireRejected, RollbackEnd
<1>5. ~FireRejected(u)
  BY <1>2, <1>3 DEF FireRejected, Elapsed, LockFree, TypeOK, ControlTypeOK, HolderOK
<1> QED
  BY <1>1, <1>2, <1>3, <1>4, <1>5

LEMMA TimerSolo ==
    ASSUME Solo, TypeOK, SoloInv, NEW u \in Unit, TimerStep(u) PROVE SoloInv'
<1>1. /\ \A p \in Session : pc'[p] = "idle"
      /\ \A v \in Unit : Pending(v)' => v = u
  BY DueAlone
<1>2. TimersWait' /\ \A p \in Session : SessionOK(p)'
  BY <1>1 DEF TimersWait, SessionOK
<1>3. RecordOK'
  <2>1. CASE Fire(u)
    <3>1. \A v \in Unit : Pending(v) => Pending(v)'
      BY <2>1, DueAlone DEF Fire, TypeOK, ControlTypeOK, Timer
    <3> QED
      BY <2>1, <3>1 DEF Fire, SoloInv, RecordOK, record, policy, boot
  <2>2. CASE RollbackEnd(u)
    <3>1. units[u].snap \in Snapshot /\ DataTypeOK /\ RecordOK
      BY <2>2 DEF RollbackEnd, TypeOK, SoloInv
    <3>2. (enabled' <=> live' # None) /\ verdict' \notin Unit
      BY <2>2, <3>1, OutcomeSolo DEF RollbackEnd
    <3> QED
      BY <2>2, <3>1, <3>2 DEF RollbackEnd, RecordOK, boot
  <2> QED
    BY <2>1, <2>2, DueAlone DEF TimerStep
<1> QED
  BY <1>2, <1>3 DEF SoloInv

LEMMA SoloCorrect == ASSUME Solo PROVE Spec => []SoloInv
<1>1. Init => SoloInv
  <2> SUFFICES ASSUME Init PROVE SoloInv
    OBVIOUS
  <2>1. RecordOK
    BY ActorAssumption DEF Init, RecordOK, Verdict
  <2>2. TimersWait /\ \A p \in Session : SessionOK(p)
    BY DEF Init, TimersWait, SessionOK, NoTimer
  <2> QED
    BY <2>1, <2>2 DEF SoloInv
<1>2. TypeOK /\ SoloInv /\ [Next]_vars => SoloInv'
  <2> SUFFICES ASSUME TypeOK, SoloInv, [Next]_vars PROVE SoloInv'
    OBVIOUS
  <2>1. CASE UNCHANGED vars
    BY <2>1 DEF vars, files, record, policy, boot, SoloInv, RecordOK, TimersWait,
       SessionOK, Current
  <2>2. ~Reboot /\ ~BootApply
    BY DEF Reboot, BootApply, Solo, SoloInv, RecordOK
  <2> QED
    BY <2>1, <2>2, TypedSolo, CommandSolo, ControlSteps, TimerSolo DEF Next
<1> QED
  BY <1>1, <1>2, ConfirmTypeCorrect, PTL DEF Spec

-----------------------------------------------------------------------------
(* The boot unit is enabled on enabled systems only *)

LEMMA SessionBoots ==
    ASSUME Solo, NEW p \in Session, BootOK(p)', persistent' => enabled',
           \A u \in Unit : Pending(u)' /\ persistent' => units'[u].snap.enabled
    PROVE  BootInv'
  BY DEF Solo, BootInv

LEMMA KeptBoot ==
    ASSUME Solo, BootInv, NEW p \in Session, pc[p] # "idle",
           UNCHANGED <<enabled, persistent, units>>,
           \/ pc'[p] = "idle"
           \/ /\ local'[p].op = local[p].op
              /\ local'[p].snap = local[p].snap
              /\ pc'[p] # "persist"
    PROVE  BootInv'
<1>1. BootOK(p) /\ (persistent => enabled)
      /\ \A u \in Unit : Pending(u) /\ persistent => units[u].snap.enabled
  BY DEF BootInv
<1>2. BootOK(p)'
  BY <1>1 DEF BootOK
<1> QED
  BY <1>1, <1>2, SessionBoots

LEMMA TypedBoot ==
    ASSUME Solo, "rollback" \notin Commands, TypeOK, SoloInv, BootInv,
           NEW p \in Session, Typed(p)
    PROVE  BootInv'
<1>1. (persistent => enabled) /\ Current.enabled = enabled /\ None \notin Snapshot
  BY ValueAssumption DEF BootInv, Current
<1>2. ASSUME NEW op, NEW new, NEW snap \in {Current, None},
             NEW point \in {"save", "schedule", "engine"},
             Begin(p, op, new, snap, point), booting' = booting \/ booting' = FALSE,
             point = "engine" => op \notin Interactive,
             persistent' = persistent \/ ~persistent',
             op = "disable" => ~persistent'
      PROVE  BootInv'
  <2>1. /\ \A u \in Unit : ~Pending(u)'
        /\ pc'[p] = point
        /\ local'[p] = [op |-> op, old |-> OnDisk, new |-> new, snap |-> snap,
                        unit |-> None, loaded |-> None]
    BY <1>2, BeginSolo
  <2>2. op # "rollback" /\ enabled' = enabled
    BY <1>2 DEF Begin
  <2>3. BootOK(p)'
    BY <1>1, <1>2, <2>1, <2>2 DEF BootOK
  <2> QED
    BY <1>1, <1>2, <2>1, <2>2, <2>3, SessionBoots
<1>3. UNCHANGED boot => booting' = booting /\ persistent' = persistent
  BY DEF boot
<1>4. SafetySnapshot \subseteq {Current, None}
  BY DEF SafetySnapshot
<1>5. CASE Change(p) \/ Import(p) \/ Setup(p)
  <2>1. booting' = booting /\ persistent' = persistent
    BY <1>3, <1>5 DEF Change, Import, Setup
  <2>2. ASSUME NEW op \in {"change", "import", "setup"}, NEW new,
               NEW snap \in {Current, None}, Begin(p, op, new, snap, "save")
        PROVE  BootInv'
    BY <1>2, <2>1, <2>2
  <2> QED
    BY <1>4, <1>5, <2>2 DEF Change, Import, Setup
<1>6. CASE Activate(p) \/ ActivateUnattended(p)
  <2>1. booting' = booting /\ persistent' = persistent
    BY <1>3, <1>6 DEF Activate, ActivateUnattended
  <2>2. ASSUME NEW op \in {"enable", "apply"}, Begin(p, op, None, Current, "schedule")
        PROVE  BootInv'
    BY <1>2, <2>1, <2>2
  <2>3. ASSUME Begin(p, "unattended", None, None, "engine") PROVE BootInv'
    BY <1>2, <2>1, <2>3 DEF Interactive
  <2> QED
    BY <1>6, <2>2, <2>3 DEF Activate, ActivateUnattended
<1>7. CASE Disable(p)
  BY <1>2, <1>7 DEF Disable, Interactive
<1>8. CASE RollbackLatest(p)
  BY <1>8 DEF RollbackLatest, Begin
<1> QED
  BY <1>5, <1>6, <1>7, <1>8 DEF Typed

LEMMA CommandBoot ==
    ASSUME Solo, TypeOK, SoloInv, BootInv, NEW p \in Session, Command(p) \/ Lost(p)
    PROVE  BootInv'
<1> USE DEF record, policy, boot
<1>1. BootOK(p) /\ (persistent => enabled)
      /\ \A u \in Unit : Pending(u) /\ persistent => units[u].snap.enabled
  BY DEF BootInv
<1>2. CASE Save(p) \/ SaveError(p) \/ Check(p) \/ Revert(p)
  BY <1>2, Views, KeptBoot DEF Save, SaveError, Check, Revert
<1>3. CASE ScheduleError(p) \/ Rejected(p) \/ ApplyFailed(p)
  BY <1>3, Views, KeptBoot DEF ScheduleError, Rejected, ApplyFailed, NotActivated,
     Running, Undo
<1>4. CASE Answer(p) \/ StopError(p) \/ Lost(p) \/ LeftArmed(p)
  BY <1>4, Views, KeptBoot DEF Answer, StopError, Lost, LeftArmed, Cancel, Undo
<1>5. CASE CheckDisabled(p)
  <2>1. pc'[p] = "idle" \/ (pc'[p] = "digest" /\ local'[p].op = local[p].op
                              /\ local'[p].snap = local[p].snap)
    BY <1>5, Views DEF CheckDisabled, Local
  <2> QED
    BY <1>5, <2>1, KeptBoot DEF CheckDisabled
<1>6. CASE Digest(p)
  BY <1>6, Views, DigestKeeps, KeptBoot DEF Digest
<1>7. CASE AcquireLock(p)
  <2>1. local[p].op # "rollback" /\ pc[p] # "idle"
    BY <1>1, <1>7 DEF BootOK, AcquireLock
  <2>2. \A f \in {"op", "old", "new", "unit"} : local'[p][f] = local[p][f]
    BY <1>7, AcquireLockSolo
  <2>3. local'[p].op = local[p].op
    BY <2>2
  <2>4. local'[p].snap = local[p].snap /\ pc'[p] = "running"
    BY <1>7, <2>1, AcquireLockSolo
  <2>5. UNCHANGED <<enabled, persistent, units>>
    BY <1>7, AcquireLockSolo
  <2> QED
    BY <2>1, <2>3, <2>4, <2>5, KeptBoot
<1>8. CASE Schedule(p)
  <2>1. BootOK(p)' /\ UNCHANGED <<enabled, persistent>>
    BY <1>1, <1>8, ScheduleSolo DEF BootOK, Schedule
  <2>2. local[p].snap \in Snapshot
    BY <1>8, Views DEF Schedule, Ready
  <2>3. persistent => local[p].snap.enabled
    BY <1>1, <1>8, <2>2, ScheduleSolo DEF BootOK
  <2>4. ASSUME NEW u \in Unit, Pending(u)' PROVE units'[u].snap = local[p].snap
    <3>1. units'[u] = [status |-> "armed", snap |-> local[p].snap]
      BY <1>8, <2>4, ScheduleSolo
    <3> QED
      BY <3>1
  <2> QED
    BY <1>1, <2>1, <2>3, <2>4, SessionBoots
<1>9. CASE Applied(p) \/ AppliedUnattended(p)
  <2>1. enabled' /\ UNCHANGED <<units, persistent>>
    BY <1>9 DEF Applied, AppliedUnattended, Activated
  <2>2. pc[p] # "idle" /\ (pc'[p] = "idle" \/ local'[p] = local[p])
    BY <1>9, Views DEF Applied, AppliedUnattended, Running
  <2>3. BootOK(p)'
    BY <1>1, <2>1, <2>2 DEF BootOK
  <2> QED
    BY <1>1, <2>1, <2>3, SessionBoots
<1>10. CASE DisableEnd(p) \/ RollbackLatestEnd(p)
  <2>1. ~persistent' /\ pc'[p] = "idle" /\ UNCHANGED units
    BY <1>1, <1>10, Views DEF DisableEnd, RollbackLatestEnd, Running, BootOK
  <2>2. BootOK(p)'
    BY <2>1 DEF BootOK
  <2> QED
    BY <2>1, <2>2, SessionBoots
<1>11. CASE Stopped(p) \/ Stop(p)
  <2>1. /\ \A u \in Unit : ~Pending(u)'
        /\ UNCHANGED <<enabled, persistent>> /\ pc[p] # "idle"
        /\ pc'[p] = "idle" \/ local'[p] = local[p]
    BY <1>11, StopSolo DEF Stopped, Cancel, Stop
  <2>2. pc'[p] = "persist" => enabled
    <3>1. SUFFICES ASSUME pc'[p] = "persist" PROVE enabled
      OBVIOUS
    <3>2. pc[p] = "stop" /\ local[p].unit \in Unit
      BY <1>11, <3>1, StopSolo, Views DEF Stop, Ready
    <3> QED
      BY <3>2, SoloAt DEF SessionOK, RecordOK
  <2>3. BootOK(p)'
    BY <1>1, <2>1, <2>2 DEF BootOK
  <2> QED
    BY <1>1, <2>1, <2>3, SessionBoots
<1>12. CASE Persist(p)
  <2>1. enabled /\ pc'[p] = "idle" /\ UNCHANGED <<enabled, units>> /\ pc[p] = "persist"
    BY <1>1, <1>12, Views DEF Persist, BootOK
  <2>2. \A u \in Unit : ~Pending(u)
    BY <2>1, NoTimerYet DEF TimerPoint
  <2>3. BootOK(p)'
    BY <2>1 DEF BootOK
  <2> QED
    BY <2>1, <2>2, <2>3, SessionBoots
<1>13. ~DisableFailed(p)
  BY DEF DisableFailed, Solo
<1> QED
  BY <1>2, <1>3, <1>4, <1>5, <1>6, <1>7, <1>8, <1>9, <1>10, <1>11, <1>12, <1>13,
     CancelCases DEF Command

LEMMA TimerBoot ==
    ASSUME Solo, TypeOK, SoloInv, BootInv, NEW u \in Unit, TimerStep(u) PROVE BootInv'
<1>1. /\ \A p \in Session : pc'[p] = "idle"
      /\ \A v \in Unit : Pending(v)' => v = u
      /\ persistent' = persistent /\ (persistent => enabled)
      /\ persistent => units[u].snap.enabled
  BY DueAlone DEF boot, BootInv
<1>2. \A p \in Session : BootOK(p)'
  BY <1>1 DEF BootOK
<1>3. CASE Fire(u)
  <2>1. units'[u].snap = units[u].snap /\ enabled' = enabled
    BY <1>3 DEF Fire, TypeOK, ControlTypeOK, Timer, record
  <2> QED
    BY <1>1, <1>2, <2>1 DEF BootInv
<1>4. CASE RollbackEnd(u)
  <2>1. units[u].snap \in Snapshot /\ DataTypeOK /\ RecordOK
    BY <1>4 DEF RollbackEnd, TypeOK, SoloInv
  <2>2. enabled' <=> units[u].snap.enabled
    BY <1>4, <2>1, OutcomeSolo DEF RollbackEnd
  <2>3. ~Pending(u)'
    BY <1>4 DEF RollbackEnd, TypeOK, ControlTypeOK, NoTimer
  <2> QED
    BY <1>1, <1>2, <2>2, <2>3 DEF BootInv
<1> QED
  BY <1>3, <1>4, DueAlone DEF TimerStep

\* With one operator who never rolls back to an earlier snapshot by hand, the boot
\* unit is enabled on enabled systems only, whichever command fails and wherever
\* the session is lost.
THEOREM BootOnlyEnabledCorrect ==
    ASSUME Solo, "rollback" \notin Commands
    PROVE  Spec => []BootOnlyEnabled
<1>1. Init => BootInv
  BY DEF Init, BootInv, BootOK, NoTimer
<1>2. TypeOK /\ SoloInv /\ BootInv /\ [Next]_vars => BootInv'
  <2> SUFFICES ASSUME TypeOK, SoloInv, BootInv, [Next]_vars PROVE BootInv'
    OBVIOUS
  <2>1. CASE UNCHANGED vars
    BY <2>1 DEF vars, files, record, policy, boot, BootInv, BootOK
  <2>2. ~Reboot /\ ~BootApply
    BY DEF Reboot, BootApply, Solo, SoloInv, RecordOK
  <2> QED
    BY <2>1, <2>2, TypedBoot, CommandBoot, TimerBoot DEF Next
<1>3. BootInv => BootOnlyEnabled
  BY DEF BootInv, BootOnlyEnabled
<1> QED
  BY <1>1, <1>2, <1>3, ConfirmTypeCorrect, SoloCorrect, PTL DEF Spec

\* With one operator an activation has its timer until it is confirmed, whatever
\* else is typed: setup and the import of a list included.
THEOREM SoloGuardHeldCorrect == ASSUME Solo PROVE Spec => []GuardHeld
<1>1. SoloInv => GuardHeld
  BY DEF SoloInv, RecordOK, GuardHeld
<1> QED
  BY <1>1, SoloCorrect, PTL

-----------------------------------------------------------------------------
(* What is in force is on disk *)

LEMMA EditMoves ==
    ASSUME Solo, NEW p \in Session, EditOK(p)', UndoOK',
           live' # None => live' = OnDisk' \/ Editing(p)'
    PROVE  EditInv'
<1>1. \A q \in Session : q = p
  BY DEF Solo
<1> QED
  BY <1>1 DEF EditInv, InForceOK

LEMMA EditAt ==
    ASSUME Solo, EditInv, NEW p \in Session
    PROVE  /\ EditOK(p) /\ UndoOK
           /\ live # None /\ ~Editing(p) => live = OnDisk
<1>1. \A q \in Session : q = p
  BY DEF Solo
<1> QED
  BY <1>1 DEF EditInv, InForceOK

\* A command ends, or its generation is in force.
LEMMA EditEnds ==
    ASSUME Solo, NEW p \in Session, pc'[p] \in {"idle"} \cup InForcePoint, UndoOK',
           live' # None => live' = OnDisk'
    PROVE  EditInv'
<1>1. EditOK(p)'
  BY DEF EditOK, Underway, Editing, InForcePoint
<1> QED
  BY <1>1, EditMoves

\* A command goes on, with the record and the files as they are.
LEMMA EditGoes ==
    ASSUME Solo, SoloInv, EditInv, NEW p \in Session, Underway(p), Underway(p)',
           UNCHANGED <<files, enabled, live, verdict>>,
           local'[p].op = local[p].op, local'[p].old = local[p].old,
           local'[p].snap = local[p].snap,
           pc'[p] = "digest" => ~enabled
    PROVE  EditInv'
<1>1. EditOK(p) /\ UndoOK /\ (live # None /\ ~Editing(p) => live = OnDisk)
  BY EditAt
<1>2. verdict \notin Unit
  BY SoloAt DEF SessionOK, Underway, InForcePoint
<1>3. Editing(p)' <=> Editing(p)
  BY DEF Editing
<1>4. OnDisk' = OnDisk /\ UNCHANGED <<configFile, dataFile>>
  BY DEF OnDisk, files
<1>5. EditOK(p)'
  BY <1>1, <1>3, <1>4 DEF EditOK
<1>6. UndoOK'
  BY <1>2 DEF UndoOK
<1> QED
  BY <1>1, <1>3, <1>4, <1>5, <1>6, EditMoves

LEMMA TypedEdit ==
    ASSUME Solo, Plain, TypeOK, SoloInv, EditInv, NEW p \in Session, Typed(p)
    PROVE  EditInv'
<1>1. SoloInv' /\ SafetySnapshot = {Current}
  BY TypedSolo DEF SafetySnapshot, Plain
<1>2. ASSUME NEW op, NEW new, NEW snap, NEW point \in {"save", "schedule", "engine"},
             Begin(p, op, new, snap, point), op \in Interactive => snap = Current,
             op = "setup" => ~enabled
      PROVE  EditInv'
  <2>1. /\ local'[p] = [op |-> op, old |-> OnDisk, new |-> new, snap |-> snap,
                        unit |-> None, loaded |-> None]
        /\ pc'[p] = point /\ pc[p] = "idle"
        /\ UNCHANGED <<files, enabled, policy, configFile, dataFile, live, verdict>>
    BY <1>2, Views DEF Begin, files, policy
  <2>2. live # None => live = OnDisk
    BY <2>1, EditAt DEF Editing, Underway
  <2>3. OnDisk' = OnDisk /\ OnDisk.cfg = configFile /\ OnDisk.data = dataFile
    BY <2>1 DEF OnDisk
  <2>4. EditOK(p)'
    BY <1>2, <2>1, <2>2, <2>3 DEF EditOK, Editing, Current
  <2>5. UndoOK'
    BY <1>1, <2>1, SoloAt DEF SoloInv, SessionOK, UndoOK
  <2> QED
    BY <2>1, <2>2, <2>3, <2>4, <2>5, EditMoves
<1>3. CASE Change(p) \/ Import(p) \/ Setup(p)
  <2>1. ASSUME NEW op \in {"change", "import"}, NEW new, Begin(p, op, new, Current, "save")
        PROVE  EditInv'
    BY <1>2, <2>1
  <2>2. ASSUME NEW new, Begin(p, "setup", new, None, "save"), ~enabled PROVE EditInv'
    BY <1>2, <2>2 DEF Interactive
  <2> QED
    BY <1>1, <1>3, <2>1, <2>2 DEF Change, Import, Setup
<1>4. CASE Activate(p) \/ ActivateUnattended(p)
  BY <1>2, <1>4 DEF Activate, ActivateUnattended, Interactive
<1>5. CASE Disable(p) \/ RollbackLatest(p)
  BY <1>2, <1>5 DEF Disable, RollbackLatest, Interactive
<1> QED
  BY <1>3, <1>4, <1>5 DEF Typed

LEMMA SaveEdit ==
    ASSUME Solo, TypeOK, SoloInv, EditInv, NEW p \in Session, Save(p) PROVE EditInv'
<1>1. /\ pc[p] = "save" /\ EditOK(p) /\ (live # None /\ ~Editing(p) => live = OnDisk)
      /\ verdict \notin Unit /\ (enabled <=> live # None)
      /\ UNCHANGED <<enabled, live, verdict>>
  BY EditAt, SoloAt DEF Save, SessionOK, RecordOK, record, policy
<1>2. UndoOK'
  BY <1>1 DEF UndoOK
<1>3. CASE local[p].op = "setup"
  <2>1. live' = None /\ ~enabled' /\ pc'[p] \in {"idle", "check"}
        /\ (pc'[p] = "idle" \/ local'[p] = local[p])
    BY <1>1, <1>3, Views DEF Save, EditOK, Underway, InForcePoint
  <2>2. EditOK(p)'
    BY <1>3, <2>1 DEF EditOK, Underway, Editing, Interactive
  <2> QED
    BY <1>2, <2>1, <2>2, EditMoves
<1>4. CASE local[p].op # "setup"
  <2>1. /\ local[p].op \in {"change", "import"} /\ pc'[p] = "check" /\ local'[p] = local[p]
        /\ local[p].op = "change" => dataFile' = dataFile
        /\ local[p].op = "import" => configFile' = configFile
    BY <1>1, <1>4, Views DEF Save
  <2>2. Editing(p) /\ Editing(p)' /\ Underway(p)
    BY <1>1, <2>1 DEF Editing, Underway, InForcePoint
  <2>3. EditOK(p)'
    BY <1>1, <2>1, <2>2 DEF EditOK
  <2> QED
    BY <1>2, <2>2, <2>3, EditMoves
<1> QED
  BY <1>3, <1>4

\* What a command finds before its activation.
LEMMA EditBefore ==
    ASSUME Solo, SoloInv, EditInv, NEW p \in Session, Underway(p)
    PROVE  /\ EditOK(p) /\ verdict \notin Unit /\ (enabled <=> live # None)
           /\ live # None /\ ~Editing(p) => live = OnDisk
  BY EditAt, SoloAt DEF SessionOK, RecordOK, Underway, InForcePoint

LEMMA CheckEdit ==
    ASSUME Solo, Plain, TypeOK, SoloInv, EditInv, NEW p \in Session,
           Check(p) \/ CheckDisabled(p) \/ Digest(p)
    PROVE  EditInv'
<1>1. Underway(p) /\ pc[p] \in {"check", "digest"}
  BY DEF Check, CheckDisabled, Digest, Underway, InForcePoint
<1>2. EditOK(p) /\ verdict \notin Unit /\ (enabled <=> live # None)
  BY <1>1, EditBefore
<1>3. UNCHANGED <<files, enabled, live, verdict>>
  BY DigestKeeps DEF Check, CheckDisabled, Digest, record, policy
<1>4. UndoOK'
  BY <1>2, <1>3 DEF UndoOK
<1>5. CASE Check(p)
  <2>1. local[p].op \in {"change", "import"}
    BY <1>5, Views DEF Check, Ready
  <2>2. local[p].snap # None
    <3>1. local[p].snap = [cfg |-> local[p].old.cfg, data |-> local[p].old.data,
                           enabled |-> enabled]
      BY <1>1, <1>2, <2>1 DEF EditOK, Interactive
    <3>2. local[p].old \in Files /\ enabled \in BOOLEAN
      BY <1>1, Views DEF Ready, TypeOK, DataTypeOK
    <3> QED
      BY <3>1, <3>2, ValueAssumption DEF Files, Snapshot
  <2>3. pc'[p] = "schedule" /\ local'[p] = local[p]
    BY <1>5, <2>2, Views DEF Check
  <2> QED
    BY <1>1, <1>3, <2>3, EditGoes DEF Underway, InForcePoint
<1>6. CASE CheckDisabled(p)
  <2>1. ~enabled
    BY <1>1, <1>2, <1>6 DEF CheckDisabled, EditOK
  <2>2. \/ pc'[p] = "idle"
        \/ pc'[p] = "digest" /\ \A f \in {"op", "old", "snap"} : local'[p][f] = local[p][f]
    BY <1>6, Views DEF CheckDisabled, Local
  <2>3. CASE pc'[p] = "idle"
    BY <1>2, <1>3, <1>4, <2>1, <2>3, EditEnds
  <2>4. CASE pc'[p] = "digest" /\ \A f \in {"op", "old", "snap"} : local'[p][f] = local[p][f]
    <3>1. local'[p].op = local[p].op /\ local'[p].old = local[p].old
          /\ local'[p].snap = local[p].snap
      BY <2>4
    <3> QED
      BY <1>1, <1>3, <2>1, <2>4, <3>1, EditGoes DEF Underway, InForcePoint
  <2> QED
    BY <2>2, <2>3, <2>4
<1>7. CASE Digest(p)
  <2>1. pc'[p] = "idle" /\ live' = None
    BY <1>1, <1>2, <1>3, <1>7, Views DEF Digest, EditOK
  <2> QED
    BY <1>4, <2>1, EditEnds
<1> QED
  BY <1>5, <1>6, <1>7

\* A change that goes back finds its file to put back, and the other as it was.
LEMMA RevertEdit ==
    ASSUME Solo, Plain, TypeOK, SoloInv, EditInv, NEW p \in Session, Revert(p)
    PROVE  EditInv'
<1>1. /\ Underway(p) /\ pc[p] = "revert" /\ pc'[p] = "idle"
      /\ UNCHANGED <<enabled, live, verdict>>
      /\ configFile' = IF local[p].op = "change" THEN local[p].old.cfg ELSE configFile
      /\ dataFile' = IF local[p].op = "import" THEN local[p].old.data ELSE dataFile
  BY Views DEF Revert, Plain, Underway, InForcePoint, record, policy
<1>2. EditOK(p) /\ verdict \notin Unit /\ (live # None /\ ~Editing(p) => live = OnDisk)
  BY <1>1, EditBefore
<1>3. live' # None => live' = OnDisk'
  <2>1. CASE Editing(p)
    <3>1. local[p].old \in Files
      BY <1>1, Views DEF Ready
    <3>2. /\ live # None => live = local[p].old
          /\ configFile' = local[p].old.cfg /\ dataFile' = local[p].old.data
      BY <1>1, <1>2, <2>1 DEF EditOK, Editing
    <3>3. OnDisk' = local[p].old
      BY <3>1, <3>2 DEF OnDisk, Files
    <3> QED
      BY <1>1, <3>2, <3>3
  <2>2. CASE ~Editing(p)
    <3>1. OnDisk' = OnDisk
      BY <1>1, <2>2 DEF OnDisk, Editing
    <3> QED
      BY <1>1, <1>2, <2>2, <3>1
  <2> QED
    BY <2>1, <2>2
<1>4. UndoOK'
  BY <1>1, <1>2 DEF UndoOK
<1> QED
  BY <1>1, <1>3, <1>4, EditEnds

\* An activation that is refused or fails: change and import go back, and no other
\* command has written a file.
LEMMA FailureEdit ==
    ASSUME Solo, SoloInv, EditInv, TypeOK, NEW p \in Session,
           Underway(p), UNCHANGED <<files, enabled, live, verdict>>,
           \/ Return(p) /\ local[p].op \notin {"change", "import"}
           \/ \E point \in {"revert", "cancel"} : Go(p, point)
    PROVE  EditInv'
<1>1. CASE Return(p) /\ local[p].op \notin {"change", "import"}
  <2>1. verdict \notin Unit /\ (live # None => live = OnDisk)
    BY <1>1, EditBefore DEF Editing
  <2>2. UndoOK' /\ OnDisk' = OnDisk
    BY <2>1 DEF UndoOK, OnDisk, files
  <2> QED
    BY <1>1, <2>1, <2>2, Views, EditEnds
<1>2. ASSUME NEW point \in {"revert", "cancel"}, Go(p, point) PROVE EditInv'
  <2>1. pc'[p] = point /\ local'[p] = local[p]
    BY <1>2, Views
  <2> QED
    BY <1>2, <2>1, EditGoes DEF Underway, InForcePoint
<1> QED
  BY <1>1, <1>2

LEMMA FailedEdit ==
    ASSUME Solo, SoloInv, EditInv, TypeOK, NEW p \in Session,
           ScheduleError(p) \/ Rejected(p) \/ ApplyFailed(p) \/ Cancel(p)
    PROVE  EditInv'
<1>1. Underway(p) /\ UNCHANGED <<files, enabled, live, verdict>>
  BY DEF ScheduleError, Rejected, ApplyFailed, NotActivated, Cancel, Running, Underway,
     InForcePoint, record, policy
<1>2. \/ Return(p) /\ local[p].op \notin {"change", "import"}
      \/ \E point \in {"revert", "cancel"} : Go(p, point)
  BY DEF ScheduleError, Rejected, ApplyFailed, Cancel, Undo
<1> QED
  BY <1>1, <1>2, FailureEdit

LEMMA TowardsEdit ==
    ASSUME Solo, TypeOK, SoloInv, EditInv, NEW p \in Session,
           Schedule(p) \/ AcquireLock(p)
    PROVE  EditInv'
<1>1. Underway(p) /\ Underway(p)' /\ pc'[p] # "digest"
  BY Views DEF Schedule, AcquireLock, Underway, InForcePoint
<1>2. UNCHANGED <<files, enabled, live, verdict>>
  BY DEF Schedule, AcquireLock, record, policy
<1>3. \A f \in {"op", "old"} : local'[p][f] = local[p][f]
  BY ScheduleSolo, AcquireLockSolo
<1>4. local'[p].op = local[p].op /\ local'[p].old = local[p].old
  BY <1>3
<1>5. CASE local'[p].snap = local[p].snap
  BY <1>1, <1>2, <1>4, <1>5, EditGoes
<1>6. CASE AcquireLock(p) /\ local[p].op = "rollback"
  <2>1. verdict \notin Unit /\ (live # None => live = OnDisk)
    BY <1>1, <1>6, EditBefore DEF Editing
  <2>2. UndoOK' /\ OnDisk' = OnDisk
    BY <1>2, <2>1 DEF UndoOK, OnDisk, files
  <2>3. EditOK(p)'
    BY <1>1, <1>4, <1>6 DEF EditOK, Editing, Interactive
  <2> QED
    BY <1>2, <2>1, <2>2, <2>3, EditMoves
<1>7. Schedule(p) => local'[p].snap = local[p].snap
  BY Views DEF Schedule, Local
<1> QED
  BY <1>5, <1>6, <1>7, AcquireLockSolo

\* The activation: what was in force is what the command found, and its timer goes
\* back to that.
LEMMA AppliedEdit ==
    ASSUME Solo, TypeOK, SoloInv, EditInv, NEW p \in Session, Applied(p)
    PROVE  EditInv'
<1>1. /\ Underway(p) /\ pc'[p] = "prompt" /\ local[p].op \in Interactive
      /\ local[p].unit \in Unit /\ local[p].loaded = Current /\ local[p].old \in Files
      /\ units[local[p].unit] = [status |-> "armed", snap |-> local[p].snap]
  BY Views, SoloAt DEF Applied, Running, Ready, SessionOK, Underway, InForcePoint
<1>2. /\ live' = FilesOf(Current) /\ verdict' = local[p].unit /\ before' = live
      /\ UNCHANGED <<files, configFile, dataFile, units>>
  BY <1>1 DEF Applied, Activated, files
<1>3. live' = OnDisk'
  BY <1>2 DEF FilesOf, Current, OnDisk
<1>4. /\ EditOK(p) /\ (enabled <=> live # None)
      /\ live # None /\ ~Editing(p) => live = OnDisk
  BY <1>1, EditBefore
<1>5. local[p].snap = [cfg |-> local[p].old.cfg, data |-> local[p].old.data,
                       enabled |-> enabled]
  BY <1>1, <1>4 DEF EditOK
<1>6. live # None => live = local[p].old
  BY <1>1, <1>4 DEF EditOK, Editing, Interactive
<1>7. FilesOf(local[p].snap) = local[p].old
  BY <1>1, <1>5 DEF FilesOf, Files
<1>8. units[local[p].unit].snap = local[p].snap /\ (local[p].snap.enabled <=> enabled)
  BY <1>1, <1>5
<1>9. UndoOK'
  BY <1>1, <1>2, <1>4, <1>6, <1>7, <1>8 DEF UndoOK
<1> QED
  BY <1>1, <1>3, <1>9, EditEnds DEF InForcePoint

LEMMA OperationEdit ==
    ASSUME Solo, TypeOK, SoloInv, EditInv, NEW p \in Session,
           AppliedUnattended(p) \/ DisableEnd(p) \/ RollbackLatestEnd(p)
    PROVE  EditInv'
<1>1. /\ local[p].loaded = Current /\ pc'[p] \in {"idle", "persist"}
      /\ DataTypeOK /\ RecordOK /\ Ready("running", local[p])
  BY Views, SoloAt DEF AppliedUnattended, DisableEnd, RollbackLatestEnd, Running,
     SessionOK, TypeOK
<1>2. verdict' \notin Unit /\ (live' # None => live' = OnDisk')
  <2>1. CASE AppliedUnattended(p)
    <3>1. live' = FilesOf(Current) /\ verdict' = "unguarded" /\ OnDisk' = OnDisk
      BY <1>1, <2>1 DEF AppliedUnattended, Activated, OnDisk, files
    <3>2. FilesOf(Current) = OnDisk
      BY DEF FilesOf, Current, OnDisk
    <3> QED
      BY <3>1, <3>2, ActorAssumption DEF Verdict
  <2>2. CASE DisableEnd(p)
    <3>1. Disabled(enabled) /\ Current \in Snapshot
      BY <1>1, <2>2, CurrentType DEF DisableEnd, Current
    <3> QED
      BY <1>1, <3>1, OutcomeSolo
  <2>3. CASE RollbackLatestEnd(p)
    <3>1. local[p].snap \in Snapshot
      BY <1>1, <2>3 DEF RollbackLatestEnd, Running, Ready
    <3> QED
      BY <1>1, <2>3, <3>1, OutcomeSolo DEF RollbackLatestEnd
  <2> QED
    BY <2>1, <2>2, <2>3
<1>3. UndoOK'
  BY <1>2 DEF UndoOK
<1> QED
  BY <1>1, <1>2, <1>3, EditEnds DEF InForcePoint

LEMMA ConfirmedEdit ==
    ASSUME Solo, TypeOK, SoloInv, EditInv, NEW p \in Session,
           Answer(p) \/ Stop(p) \/ StopError(p) \/ Persist(p)
    PROVE  EditInv'
<1>1. /\ ~Editing(p) /\ pc'[p] \in {"idle"} \cup InForcePoint
      /\ UNCHANGED <<files, live, before>>
  BY Views DEF Answer, Stop, StopError, Persist, AfterConfirm, Editing, Underway,
     InForcePoint, policy
<1>2. UndoOK /\ (live # None => live = OnDisk) /\ OnDisk' = OnDisk
  BY <1>1, EditAt DEF OnDisk, files
<1>3. UndoOK'
  <2>1. CASE Stop(p)
    BY <2>1, StopSolo DEF UndoOK
  <2>2. CASE ~Stop(p)
    BY <1>2, <2>2 DEF UndoOK, Answer, StopError, Persist, policy
  <2> QED
    BY <2>1, <2>2
<1> QED
  BY <1>1, <1>2, <1>3, EditEnds

LEMMA CommandEdit ==
    ASSUME Solo, Plain, TypeOK, SoloInv, EditInv, NEW p \in Session,
           Command(p) \/ Lost(p)
    PROVE  EditInv'
<1>1. ~SaveError(p) /\ ~Lost(p) /\ ~DisableFailed(p)
  BY DEF SaveError, Lost, DisableFailed, Plain, Solo
<1> QED
  BY <1>1, SaveEdit, CheckEdit, RevertEdit, FailedEdit, TowardsEdit, AppliedEdit,
     OperationEdit, ConfirmedEdit DEF Command

LEMMA TimerEdit ==
    ASSUME Solo, TypeOK, SoloInv, EditInv, NEW u \in Unit, TimerStep(u)
    PROVE  EditInv'
<1>1. /\ \A p \in Session : pc[p] = "idle" /\ pc'[p] = "idle"
      /\ \A v \in Unit : v # u => units'[v] = units[v]
  BY DueAlone
<1>2. \A p \in Session : EditOK(p)'
  BY <1>1 DEF EditOK, Underway, Editing, InForcePoint
<1>3. CASE Fire(u)
  <2>1. live # None => live = OnDisk
    BY <1>1 DEF EditInv, InForceOK, Editing, Underway
  <2>2. OnDisk' = OnDisk /\ UNCHANGED <<live, verdict, before>>
    BY <1>3 DEF Fire, OnDisk, files, policy
  <2>3. units'[u].snap = units[u].snap
    BY <1>3 DEF Fire, TypeOK, ControlTypeOK, Timer
  <2>4. UndoOK'
    <3>1. \A v \in Unit : units'[v].snap = units[v].snap
      BY <1>1, <2>3
    <3> QED
      BY <2>2, <3>1 DEF EditInv, UndoOK
  <2> QED
    BY <1>2, <2>1, <2>2, <2>4 DEF EditInv, InForceOK
<1>4. CASE RollbackEnd(u)
  <2>1. units[u].snap \in Snapshot /\ DataTypeOK /\ RecordOK
    BY <1>4 DEF RollbackEnd, TypeOK, SoloInv
  <2>2. verdict' \notin Unit /\ (live' # None => live' = OnDisk')
    BY <1>4, <2>1, OutcomeSolo DEF RollbackEnd
  <2> QED
    BY <1>2, <2>2 DEF EditInv, InForceOK, UndoOK
<1> QED
  BY <1>3, <1>4, DueAlone DEF TimerStep

LEMMA EditCorrect ==
    ASSUME Solo, Plain PROVE Spec => [](TypeOK /\ SoloInv /\ EditInv)
<1>1. Init => EditInv
  <2> SUFFICES ASSUME Init PROVE EditInv
    OBVIOUS
  <2>1. live = None /\ verdict \notin Unit /\ \A p \in Session : pc[p] = "idle"
    BY ActorAssumption DEF Init, Verdict
  <2> QED
    BY <2>1 DEF EditInv, InForceOK, UndoOK, EditOK, Underway, Editing, InForcePoint
<1>2. TypeOK /\ SoloInv /\ EditInv /\ [Next]_vars => EditInv'
  <2> SUFFICES ASSUME TypeOK, SoloInv, EditInv, [Next]_vars PROVE EditInv'
    OBVIOUS
  <2>1. CASE UNCHANGED vars
    BY <2>1 DEF vars, files, record, policy, EditInv, InForceOK, UndoOK, EditOK, Underway,
       Editing, OnDisk
  <2>2. ~Reboot /\ ~BootApply
    BY DEF Reboot, BootApply, Solo, SoloInv, RecordOK
  <2> QED
    BY <2>1, <2>2, TypedEdit, CommandEdit, TimerEdit DEF Next
<1> QED
  BY <1>1, <1>2, ConfirmTypeCorrect, SoloCorrect, PTL DEF Spec

\* With one operator, and activations, timers and the boot unit failing as they may,
\* the files between commands are those of the generation in force.
THEOREM LiveMatchesFilesCorrect ==
    ASSUME Solo, Plain
    PROVE  Spec => []LiveMatchesFiles
<1>1. EditInv => LiveMatchesFiles
  BY DEF EditInv, InForceOK, LiveMatchesFiles, Quiet, Editing, Underway
<1> QED
  BY <1>1, EditCorrect, PTL

\* Under the same assumptions the rollback of an activation that is not confirmed
\* brings back exactly what was in force before it, a policy or none.
THEOREM PreviousRestoredCorrect ==
    ASSUME Solo, Plain
    PROVE  Spec => PreviousRestored
<1>1. TypeOK /\ SoloInv /\ EditInv /\ [Next]_vars
      => [\A u \in Unit :
             RollbackEnd(u) /\ RolledBack(units[u].snap) /\ verdict = u
             => live' = before]_vars
  <2> SUFFICES ASSUME TypeOK, SoloInv, EditInv, NEW u \in Unit, RollbackEnd(u),
                      RolledBack(units[u].snap), verdict = u
               PROVE  live' = before
    OBVIOUS
  <2>1. units[u].snap \in Snapshot /\ DataTypeOK /\ RecordOK
    BY DEF RollbackEnd, TypeOK, SoloInv
  <2>2. live' = IF units[u].snap.enabled THEN FilesOf(units[u].snap) ELSE None
    BY <2>1, OutcomeSolo
  <2> QED
    BY <2>2 DEF EditInv, UndoOK
<1> QED
  BY <1>1, EditCorrect, PTL DEF Spec, PreviousRestored

-----------------------------------------------------------------------------
(* Timers that are left armed *)

LEMMA LeftStep ==
    ASSUME Solo, Plain, TypeOK, SoloInv, EditInv, LeftOK, NEW p \in Session,
           Command(p) \/ Lost(p)
    PROVE  LeftOK'
<1>1. ~SaveError(p) /\ ~Lost(p) /\ ~DisableFailed(p)
  BY DEF SaveError, Lost, DisableFailed, Plain, Solo
<1>2. CASE UNCHANGED <<units, enabled, live, verdict>>
  BY <1>2 DEF LeftOK, GoesBack
<1>3. CASE \/ Save(p) \/ Check(p) \/ CheckDisabled(p) \/ Digest(p) \/ Revert(p)
           \/ ScheduleError(p) \/ Rejected(p) \/ ApplyFailed(p) \/ LeftArmed(p)
           \/ AcquireLock(p) \/ Answer(p) \/ StopError(p) \/ Persist(p)
  <2>1. UNCHANGED <<units, enabled, live, verdict>>
    BY <1>3, DigestKeeps DEF Save, Check, CheckDisabled, Digest, Revert, ScheduleError,
       Rejected, ApplyFailed, NotActivated, LeftArmed, Cancel, AcquireLock, Answer,
       StopError, Persist, record, policy
  <2> QED
    BY <1>2, <2>1
<1>4. CASE Stopped(p) \/ Stop(p)
  BY <1>4, StopSolo DEF LeftOK
\* The timer is made to go back to what the command found, which is in force.
<1>5. CASE Schedule(p)
  <2>1. /\ pc[p] = "schedule" /\ local[p].op \in Interactive /\ Underway(p)
        /\ UNCHANGED <<enabled, live>> /\ local[p].old \in Files
    BY <1>5, ScheduleSolo, Views DEF Schedule, Ready, Underway, InForcePoint, record, policy
  <2>2. EditOK(p) /\ (live # None /\ ~Editing(p) => live = OnDisk)
    BY <2>1, EditBefore
  <2>3. local[p].snap = [cfg |-> local[p].old.cfg, data |-> local[p].old.data,
                         enabled |-> enabled]
    BY <2>1, <2>2 DEF EditOK
  <2>4. live # None => live = local[p].old
    BY <2>1, <2>2 DEF EditOK, Editing, Interactive
  <2>5. FilesOf(local[p].snap) = local[p].old /\ (local[p].snap.enabled <=> enabled)
    BY <2>1, <2>3 DEF FilesOf, Files
  <2>6. ASSUME NEW u \in Unit, Pending(u)' PROVE units'[u].snap = local[p].snap
    <3>1. units'[u] = [status |-> "armed", snap |-> local[p].snap]
      BY <1>5, <2>6, ScheduleSolo
    <3> QED
      BY <3>1
  <2> QED
    BY <2>1, <2>4, <2>5, <2>6 DEF LeftOK, GoesBack, FilesOf
<1>6. CASE Applied(p)
  <2>1. \A u \in Unit : Pending(u) => u = local[p].unit
    BY <1>6, SoloAt DEF Applied, Running
  <2>2. units' = units /\ verdict' = local[p].unit
    BY <1>6 DEF Applied, Activated
  <2> QED
    BY <2>1, <2>2 DEF LeftOK
<1>7. CASE AppliedUnattended(p) \/ DisableEnd(p) \/ RollbackLatestEnd(p)
  <2>1. pc[p] # "idle" /\ local[p].op \notin Interactive /\ units' = units
    BY <1>7 DEF AppliedUnattended, DisableEnd, RollbackLatestEnd, Running, Interactive
  <2>2. \A u \in Unit : ~Pending(u)
    BY <2>1, SoloAt
  <2> QED
    BY <2>1, <2>2 DEF LeftOK
<1> QED
  BY <1>1, <1>3, <1>4, <1>5, <1>6, <1>7, CancelCases DEF Command

LEMMA LeftTyped ==
    ASSUME Solo, TypeOK, SoloInv, NEW p \in Session, Typed(p) PROVE LeftOK'
<1>1. ASSUME NEW op, NEW new, NEW snap, NEW point, Begin(p, op, new, snap, point)
      PROVE  \A u \in Unit : ~Pending(u)'
  BY <1>1 DEF Begin, Solo
<1>2. \A u \in Unit : ~Pending(u)'
  BY <1>1 DEF Typed, Change, Import, Setup, Activate, ActivateUnattended, Disable,
     RollbackLatest
<1> QED
  BY <1>2 DEF LeftOK

LEMMA LeftTimer ==
    ASSUME Solo, TypeOK, SoloInv, LeftOK, NEW u \in Unit, TimerStep(u) PROVE LeftOK'
<1>1. /\ \A v \in Unit : Pending(v)' => v = u
      /\ \A v \in Unit : Pending(v) <=> v = u
  BY DueAlone
<1>2. CASE Fire(u)
  <2>1. units'[u].snap = units[u].snap /\ UNCHANGED <<enabled, live, verdict>>
    BY <1>2 DEF Fire, TypeOK, ControlTypeOK, Timer, record, policy
  <2> QED
    BY <1>1, <2>1 DEF LeftOK, GoesBack
<1>3. CASE RollbackEnd(u)
  BY <1>1, <1>3 DEF LeftOK, RollbackEnd, TypeOK, ControlTypeOK, NoTimer
<1> QED
  BY <1>2, <1>3, DueAlone DEF TimerStep

LEMMA LeftCorrect ==
    ASSUME Solo, Plain PROVE Spec => [](TypeOK /\ SoloInv /\ LeftOK)
<1>1. Init => LeftOK
  BY DEF Init, LeftOK, NoTimer
<1>2. TypeOK /\ SoloInv /\ EditInv /\ LeftOK /\ [Next]_vars => LeftOK'
  <2> SUFFICES ASSUME TypeOK, SoloInv, EditInv, LeftOK, [Next]_vars PROVE LeftOK'
    OBVIOUS
  <2>1. CASE UNCHANGED vars
    BY <2>1 DEF vars, record, policy, LeftOK, GoesBack
  <2>2. ~Reboot /\ ~BootApply
    BY DEF Reboot, BootApply, Solo, SoloInv, RecordOK
  <2> QED
    BY <2>1, <2>2, LeftStep, LeftTyped, LeftTimer DEF Next
<1> QED
  BY <1>1, <1>2, EditCorrect, PTL DEF Spec

\* With one operator who waits for pending timers, and store writes, rollbacks and
\* sessions that do not fail, no timer changes what was confirmed: the one of the
\* confirmed change is stopped, and one that a failed change left armed, because
\* its stop failed too, brings back the files that are in force.
THEOREM ConfirmedStaysCorrect ==
    ASSUME Solo, Plain
    PROVE  Spec => ConfirmedStays
<1>1. TypeOK /\ SoloInv /\ LeftOK /\ [Next]_vars
      => [\A u \in Unit : RollbackEnd(u) /\ verdict = "confirmed" => live' = live]_vars
  <2> SUFFICES ASSUME TypeOK, SoloInv, LeftOK, NEW u \in Unit, RollbackEnd(u),
                      verdict = "confirmed"
               PROVE  live' = live
    OBVIOUS
  <2>1. verdict # u /\ Pending(u)
    BY ActorAssumption DEF Verdict, RollbackEnd
  <2>2. GoesBack(u)
    BY <2>1 DEF LeftOK
  <2>3. units[u].snap \in Snapshot /\ DataTypeOK /\ RecordOK
    BY DEF RollbackEnd, TypeOK, SoloInv
  <2>4. live' = IF units[u].snap.enabled THEN FilesOf(units[u].snap) ELSE None
    BY <2>3, OutcomeSolo DEF RollbackEnd
  <2> QED
    BY <2>2, <2>3, <2>4 DEF GoesBack, RecordOK
<1> QED
  BY <1>1, LeftCorrect, PTL DEF Spec, ConfirmedStays

=============================================================================
