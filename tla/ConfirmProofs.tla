--------------------------- MODULE ConfirmProofs ---------------------------
(***************************************************************************)
(* Theorems about Confirm, for any sessions, timer units, configurations   *)
(* and lists, whatever commands are typed, whatever fails and however slow *)
(* an apply is.                                                            *)
(***************************************************************************)
EXTENDS Confirm, TLAPS

USE DEF Faulty, At, Pending

TimersOK == \A u \in Unit : Pending(u) => units[u].snap \in Snapshot
CommandsOK == \A p \in Session : Ready(pc[p], local[p])

\* The same timers run a rollback as before.
SameRunning ==
    \A u \in Unit : units'[u].status = "running" <=> units[u].status = "running"

-----------------------------------------------------------------------------
(* Values that the steps write *)

LEMMA CurrentType ==
    ASSUME DataTypeOK
    PROVE  Current \in Snapshot /\ OnDisk \in Files
  BY DEF DataTypeOK, Current, OnDisk, Snapshot, Files

LEMMA FilesOfType == ASSUME NEW s \in Snapshot PROVE FilesOf(s) \in Files
  BY DEF FilesOf, Snapshot, Files

LEMMA NoLocalType == NoLocal \in Local
  BY DEF NoLocal, Local

LEMMA NoTimerType == NoTimer \in Timer
  BY DEF NoTimer, Timer

-----------------------------------------------------------------------------
(* How control moves *)

\* A session moves from one point to another, with other locals perhaps, and
\* takes the lock, keeps what it has of it or lets it go.
LEMMA Move ==
    ASSUME TypeOK, NEW p \in Session, NEW point \in Point,
           pc' = [pc EXCEPT ![p] = point],
           local' \in [Session -> Local],
           \A q \in Session : q # p => local'[q] = local[q],
           Ready(point, local[p])',
           newest \in Snapshot => newest' \in Snapshot,
           DataTypeOK', TimersOK', units' \in [Unit -> Timer], SameRunning,
           \/ lock' = lock /\ pc[p] # "running" /\ point # "running"
           \/ LockFree /\ lock' = p /\ point = "running"
           \/ pc[p] = "running" /\ lock' = None /\ point # "running"
    PROVE  TypeOK'
<1>1. pc'[p] = point /\ \A q \in Session : q # p => pc'[q] = pc[q]
  BY DEF TypeOK, ControlTypeOK
<1>2. ControlTypeOK'
  BY DEF TypeOK, ControlTypeOK
<1>3. \A q \in Session : Ready(pc[q], local[q])'
  <2> SUFFICES ASSUME NEW q \in Session PROVE Ready(pc[q], local[q])'
    OBVIOUS
  <2>1. CASE q = p
    BY <1>1, <2>1 DEF Ready
  <2>2. CASE q # p
    BY <1>1, <2>2 DEF TypeOK, Ready
  <2> QED
    BY <2>1, <2>2
<1>4. HolderOK'
  BY <1>1, ActorAssumption DEF TypeOK, HolderOK, LockFree, SameRunning
<1> QED
  BY <1>2, <1>3, <1>4 DEF TypeOK, TimersOK

\* The command goes on, its locals unchanged.
LEMMA GoesOn ==
    ASSUME TypeOK, NEW p \in Session, NEW point \in Point, Go(p, point),
           Ready(point, local[p])',
           newest \in Snapshot => newest' \in Snapshot,
           DataTypeOK', TimersOK', units' \in [Unit -> Timer], SameRunning,
           \/ lock' = lock /\ pc[p] # "running"
           \/ lock' = None /\ pc[p] = "running",
           point # "running"
    PROVE  TypeOK'
<1>1. local' \in [Session -> Local] /\ \A q \in Session : local'[q] = local[q]
  BY DEF Go, TypeOK, ControlTypeOK
<1> QED
  BY <1>1, Move DEF Go

\* The command is over.
LEMMA Ends ==
    ASSUME TypeOK, NEW p \in Session, Return(p),
           newest \in Snapshot => newest' \in Snapshot,
           DataTypeOK', TimersOK', units' \in [Unit -> Timer], SameRunning,
           \/ lock' = lock /\ pc[p] # "running"
           \/ lock' = None /\ pc[p] = "running"
    PROVE  TypeOK'
<1>1. /\ local' \in [Session -> Local]
      /\ \A q \in Session : q # p => local'[q] = local[q]
  BY NoLocalType DEF Return, TypeOK, ControlTypeOK
<1>2. "idle" \in Point /\ Ready("idle", local[p])'
  BY DEF Ready, Point
<1> QED
  BY <1>1, <1>2, Move DEF Return

\* What a step leaves alone keeps its type.
LEMMA Untouched ==
    /\ TypeOK => DataTypeOK /\ ControlTypeOK /\ HolderOK /\ CommandsOK /\ TimersOK
    /\ TypeOK /\ UNCHANGED <<files, record, policy, boot>> => DataTypeOK'
    /\ TypeOK /\ UNCHANGED units =>
          TimersOK' /\ units' \in [Unit -> Timer] /\ SameRunning
<1>1. TypeOK => DataTypeOK /\ ControlTypeOK /\ HolderOK /\ CommandsOK /\ TimersOK
  BY DEF TypeOK, CommandsOK, TimersOK
<1>2. DataTypeOK /\ UNCHANGED <<files, record, policy, boot>> => DataTypeOK'
  BY DEF DataTypeOK, files, record, policy, boot
<1>3. TimersOK /\ ControlTypeOK /\ UNCHANGED units =>
          TimersOK' /\ units' \in [Unit -> Timer] /\ SameRunning
  BY DEF TimersOK, ControlTypeOK, SameRunning
<1> QED
  BY <1>1, <1>2, <1>3

-----------------------------------------------------------------------------
(* Commands that are typed *)

LEMMA BeginType ==
    ASSUME TypeOK, NEW p \in Session, NEW op \in Operation,
           NEW new \in Files \cup {None}, NEW snap \in Snapshot \cup {None},
           NEW point \in {"save", "schedule", "engine"},
           Begin(p, op, new, snap, point),
           persistent' \in BOOLEAN, booting' \in BOOLEAN,
           point = "save" => op \in {"change", "import", "setup"} /\ new \in Files,
           point = "schedule" => op \in Interactive /\ snap \in Snapshot,
           point = "engine" => op \notin Interactive,
           op = "rollback" => newest \in Snapshot
    PROVE  TypeOK'
<1> DEFINE l == [op |-> op, old |-> OnDisk, new |-> new, snap |-> snap,
                 unit |-> None, loaded |-> None]
<1>1. l \in Local /\ OnDisk \in Files
  BY CurrentType, Untouched DEF Local
<1>2. local \in [Session -> Local]
  BY Untouched DEF ControlTypeOK
<1>3. local' = [local EXCEPT ![p] = l]
  BY DEF Begin
<1>4. /\ local' \in [Session -> Local]
      /\ local'[p] = l
      /\ \A q \in Session : q # p => local'[q] = local[q]
  BY <1>1, <1>2, <1>3
<1>5. newest \in Snapshot => newest' \in Snapshot
  BY DEF Begin
<1>6. newest' \in Snapshot \cup {None}
  BY Untouched DEF Begin, DataTypeOK
<1>7. DataTypeOK'
  BY <1>6, Untouched DEF Begin, DataTypeOK, files, policy
<1>8. Ready(point, local[p])'
  <2>1. /\ l.op = op /\ l.old \in Files /\ l.new = new /\ l.snap = snap
        /\ op # "none"
    BY <1>1 DEF Operation, Interactive
  <2>2. op = "rollback" => newest' \in Snapshot
    BY <1>5
  <2> HIDE DEF l
  <2> QED
    BY <1>4, <2>1, <2>2 DEF Ready
<1>9. TimersOK' /\ units' \in [Unit -> Timer] /\ SameRunning
  BY Untouched DEF Begin
<1> QED
  BY <1>4, <1>5, <1>7, <1>8, <1>9, Move DEF Begin, Point

LEMMA TypedType ==
    ASSUME TypeOK, NEW p \in Session, Typed(p) PROVE TypeOK'
<1>1. DataTypeOK /\ Current \in Snapshot /\ OnDisk \in Files
  BY CurrentType, Untouched
<1>2. SafetySnapshot \subseteq Snapshot \cup {None}
  BY <1>1 DEF SafetySnapshot
<1>3. UNCHANGED boot => persistent' \in BOOLEAN /\ booting' \in BOOLEAN
  BY <1>1 DEF DataTypeOK, boot
<1>4. CASE Change(p)
  <2>1. PICK c \in Config \ {configFile}, snap \in SafetySnapshot :
            Begin(p, "change", [cfg |-> c, data |-> dataFile], snap, "save")
    BY <1>4 DEF Change
  <2>2. [cfg |-> c, data |-> dataFile] \in Files
    BY <1>1 DEF DataTypeOK, Files
  <2> QED
    BY <1>2, <1>3, <1>4, <2>1, <2>2, BeginType DEF Change, Operation, Interactive
<1>5. CASE Import(p)
  <2>1. PICK d \in Data, snap \in SafetySnapshot :
            Begin(p, "import", [cfg |-> configFile, data |-> d], snap, "save")
    BY <1>5 DEF Import
  <2>2. [cfg |-> configFile, data |-> d] \in Files
    BY <1>1 DEF DataTypeOK, Files
  <2> QED
    BY <1>2, <1>3, <1>5, <2>1, <2>2, BeginType DEF Import, Operation, Interactive
<1>6. CASE Setup(p)
  BY <1>3, <1>6, BeginType DEF Setup, Operation
<1>7. CASE Activate(p)
  BY <1>1, <1>3, <1>7, BeginType DEF Activate, Operation, Interactive
<1>8. CASE ActivateUnattended(p)
  BY <1>3, <1>8, BeginType DEF ActivateUnattended, Operation, Interactive
<1>9. CASE Disable(p)
  BY <1>9, BeginType DEF Disable, Operation, Interactive
<1>10. CASE RollbackLatest(p)
  BY <1>1, <1>3, <1>10, BeginType DEF RollbackLatest, Operation, Interactive, DataTypeOK
<1> QED
  BY <1>4, <1>5, <1>6, <1>7, <1>8, <1>9, <1>10 DEF Typed

-----------------------------------------------------------------------------
(* Commands: the files *)

\* What a command that is under way has.
LEMMA LocalType ==
    ASSUME TypeOK, NEW p \in Session
    PROVE  /\ local[p].op \in Operation \cup {"none"}
           /\ local[p].old \in Files \cup {None}
           /\ local[p].new \in Files \cup {None}
           /\ local[p].snap \in Snapshot \cup {None}
           /\ local[p].unit \in Unit \cup {None}
           /\ local[p].loaded \in Snapshot \cup {None}
           /\ Ready(pc[p], local[p])
  BY DEF TypeOK, ControlTypeOK, Local

LEMMA SaveType == ASSUME TypeOK, NEW p \in Session, Save(p) PROVE TypeOK'
<1>1. pc[p] = "save" /\ local[p].new \in Files /\ local[p].old \in Files
  BY LocalType DEF Save, Ready
<1>2. DataTypeOK'
  BY <1>1, Untouched DEF Save, DataTypeOK, Files, record, policy, boot
<1>3. TimersOK' /\ units' \in [Unit -> Timer] /\ SameRunning
  BY Untouched DEF Save
<1>4. newest' = newest /\ lock' = lock
  BY DEF Save, record
<1>5. CASE Return(p)
  BY <1>1, <1>2, <1>3, <1>4, <1>5, Ends
<1>6. CASE Go(p, "check")
  <2>1. local'[p] = local[p] /\ local[p].op \in {"change", "import", "setup"}
    BY <1>1, <1>6, LocalType DEF Go, Ready
  <2>2. Ready("check", local[p])'
    BY <1>1, <2>1 DEF Ready
  <2> QED
    BY <1>1, <1>2, <1>3, <1>4, <1>6, <2>2, GoesOn DEF Point
<1> QED
  BY <1>5, <1>6 DEF Save

LEMMA SaveErrorType == ASSUME TypeOK, NEW p \in Session, SaveError(p) PROVE TypeOK'
<1>1. pc[p] = "save" /\ local[p].new \in Files
  BY LocalType DEF SaveError, Ready
<1>2. DataTypeOK'
  BY <1>1, Untouched DEF SaveError, DataTypeOK, Files, record, policy, boot
<1>3. TimersOK' /\ units' \in [Unit -> Timer] /\ SameRunning
  BY Untouched DEF SaveError
<1> QED
  BY <1>1, <1>2, <1>3, Ends DEF SaveError, record

\* A step that changes nothing but the session's control.
LEMMA ControlStep ==
    ASSUME TypeOK, NEW p \in Session, pc[p] # "running",
           UNCHANGED <<files, record, policy, lock, units, boot>>,
           \/ Return(p)
           \/ \E point \in Point \ {"running"} : Go(p, point) /\ Ready(point, local[p])
    PROVE  TypeOK'
<1>1. /\ DataTypeOK' /\ TimersOK' /\ units' \in [Unit -> Timer] /\ SameRunning
      /\ newest' = newest /\ lock' = lock
  BY Untouched DEF record
<1>2. CASE Return(p)
  BY <1>1, <1>2, Ends
<1>3. ASSUME NEW point \in Point \ {"running"}, Go(p, point), Ready(point, local[p])
      PROVE  TypeOK'
  <2>1. Ready(point, local[p])'
    BY <1>1, <1>3 DEF Go, Ready
  <2> QED
    BY <1>1, <1>3, <2>1, GoesOn
<1> QED
  BY <1>2, <1>3

LEMMA CheckType == ASSUME TypeOK, NEW p \in Session, Check(p) PROVE TypeOK'
<1>1. /\ pc[p] = "check" /\ local[p].op \in {"change", "import"}
      /\ local[p].snap \in Snapshot \cup {None}
      /\ Ready("check", local[p])
  BY LocalType DEF Check, Ready
<1>2. Ready("revert", local[p]) /\ (local[p].snap # None => Ready("schedule", local[p]))
  BY <1>1 DEF Ready, Interactive
<1> QED
  BY <1>1, <1>2, ControlStep DEF Check, Point

LEMMA CheckDisabledType == ASSUME TypeOK, NEW p \in Session, CheckDisabled(p) PROVE TypeOK'
<1>1. pc[p] = "check" /\ local[p].op # "none" /\ local[p].old \in Files
  BY LocalType DEF CheckDisabled, Ready
<1>2. CASE Return(p)
  BY <1>1, <1>2, ControlStep DEF CheckDisabled
<1>3. CASE /\ pc' = [pc EXCEPT ![p] = "digest"]
           /\ local' = [local EXCEPT ![p].loaded = Current]
  <2>1. Current \in Snapshot /\ local \in [Session -> Local]
    BY CurrentType, Untouched DEF ControlTypeOK
  <2>2. [local[p] EXCEPT !.loaded = Current] \in Local
    BY <2>1 DEF Local
  <2>3. /\ local' \in [Session -> Local]
        /\ local'[p] = [local[p] EXCEPT !.loaded = Current]
        /\ \A q \in Session : q # p => local'[q] = local[q]
    BY <1>3, <2>1, <2>2
  <2>4. /\ local'[p].loaded = Current /\ local'[p].op = local[p].op
        /\ local'[p].old = local[p].old
    BY <2>1, <2>3 DEF Local
  <2>5. Ready("digest", local[p])'
    BY <1>1, <2>1, <2>4 DEF Ready
  <2>6. /\ DataTypeOK' /\ TimersOK' /\ units' \in [Unit -> Timer] /\ SameRunning
        /\ newest' = newest /\ lock' = lock
    BY Untouched DEF CheckDisabled, record
  <2> QED
    BY <1>1, <1>3, <2>3, <2>5, <2>6, Move DEF Point
<1> QED
  BY <1>2, <1>3 DEF CheckDisabled

LEMMA DigestType == ASSUME TypeOK, NEW p \in Session, Digest(p) PROVE TypeOK'
<1>1. pc[p] = "digest" /\ local[p].loaded \in Snapshot
  BY LocalType DEF Digest, Ready
<1>2. DataTypeOK'
  BY <1>1, Untouched DEF Digest, DataTypeOK, Snapshot, files, policy, boot
<1>3. TimersOK' /\ units' \in [Unit -> Timer] /\ SameRunning
  BY Untouched DEF Digest
<1> QED
  BY <1>1, <1>2, <1>3, Ends DEF Digest

LEMMA RevertType == ASSUME TypeOK, NEW p \in Session, Revert(p) PROVE TypeOK'
<1>1. pc[p] = "revert" /\ local[p].old \in Files
  BY LocalType DEF Revert, Ready
<1>2. DataTypeOK'
  BY <1>1, Untouched DEF Revert, DataTypeOK, Files, files, record, policy, boot
<1>3. TimersOK' /\ units' \in [Unit -> Timer] /\ SameRunning
  BY Untouched DEF Revert
<1> QED
  BY <1>1, <1>2, <1>3, Ends DEF Revert, record

-----------------------------------------------------------------------------
(* Commands: the engine *)

\* What the engine's operations write.
LEMMA OutcomeType ==
    ASSUME DataTypeOK, NEW s \in Snapshot, UNCHANGED boot
    PROVE  /\ \A g \in Verdict \cup Unit :
                 Activated(s, g) /\ UNCHANGED files => DataTypeOK' /\ newest' \in Snapshot
           /\ NotActivated(s) /\ UNCHANGED files
                 => DataTypeOK' /\ (newest \in Snapshot => newest' \in Snapshot)
           /\ \A was \in BOOLEAN :
                 /\ Disabled(was) \/ RulesLost(was)
                 /\ newest' = s
                 /\ UNCHANGED files
                 => DataTypeOK'
           /\ RolledBack(s) \/ NotRolledBack(s)
                 => DataTypeOK' /\ (newest \in Snapshot => newest' \in Snapshot)
<1>1. /\ FilesOf(s) \in Files /\ Current \in Snapshot /\ OnDisk \in Files
      /\ s.cfg \in Config /\ s.data \in Data /\ s.enabled \in BOOLEAN
      /\ [s EXCEPT !.enabled = FALSE] \in Snapshot
      /\ [cfg |-> s.cfg, data |-> dataFile] \in Files
  BY FilesOfType, CurrentType DEF Snapshot, Files, DataTypeOK
<1>2. persistent' \in BOOLEAN /\ booting' \in BOOLEAN
  BY DEF DataTypeOK, boot
<1>3. ASSUME NEW g \in Verdict \cup Unit, Activated(s, g), UNCHANGED files
      PROVE  DataTypeOK' /\ newest' \in Snapshot
  BY <1>1, <1>2, <1>3 DEF Activated, DataTypeOK, files
<1>4. ASSUME NotActivated(s), UNCHANGED files
      PROVE  DataTypeOK' /\ (newest \in Snapshot => newest' \in Snapshot)
  BY <1>2, <1>4 DEF NotActivated, DataTypeOK, files, policy
<1>5. ASSUME NEW was \in BOOLEAN, Disabled(was) \/ RulesLost(was)
      PROVE  /\ enabled' \in BOOLEAN /\ live' \in Files \cup {None}
             /\ before' \in Files \cup {None} /\ verdict' \in Verdict \cup Unit
  BY <1>5 DEF Disabled, RulesLost, DataTypeOK, Verdict
<1>6. ASSUME NEW was \in BOOLEAN, Disabled(was) \/ RulesLost(was),
             newest' = s, UNCHANGED files
      PROVE  DataTypeOK'
  BY <1>2, <1>5, <1>6 DEF DataTypeOK, files
<1>7. enabled \in BOOLEAN
  BY DEF DataTypeOK
<1>8. ASSUME RolledBack(s)
      PROVE  DataTypeOK' /\ (newest \in Snapshot => newest' \in Snapshot)
  <2>1. CASE s.enabled
    BY <1>1, <1>2, <1>8, <2>1 DEF RolledBack, DataTypeOK, Verdict
  <2>2. CASE ~s.enabled
    BY <1>1, <1>2, <1>5, <1>7, <1>8, <2>2 DEF RolledBack, DataTypeOK
  <2> QED
    BY <2>1, <2>2
<1>9. ASSUME NotRolledBack(s)
      PROVE  DataTypeOK' /\ (newest \in Snapshot => newest' \in Snapshot)
  <2>1. CASE UNCHANGED <<files, record, policy>>
    BY <1>2, <2>1 DEF DataTypeOK, files, record, policy
  <2>2. CASE /\ \E f \in {OnDisk, [cfg |-> s.cfg, data |-> dataFile], FilesOf(s)} :
                   configFile' = f.cfg /\ dataFile' = f.data
             /\ Disabled(enabled)
             /\ newest' \in {IF enabled THEN Current ELSE newest, [s EXCEPT !.enabled = FALSE]}
    <3>1. configFile' \in Config /\ dataFile' \in Data
      BY <1>1, <2>2 DEF Files
    <3> QED
      BY <1>1, <1>2, <1>5, <1>7, <2>2, <3>1 DEF DataTypeOK
  <2>3. CASE RulesLost(enabled) /\ newest' = Current /\ UNCHANGED files
    BY <1>1, <1>2, <1>5, <1>7, <2>3 DEF DataTypeOK, files
  <2> QED
    BY <1>9, <2>1, <2>2, <2>3 DEF NotRolledBack
<1> QED
  BY <1>3, <1>4, <1>6, <1>8, <1>9

LEMMA AcquireLockType == ASSUME TypeOK, NEW p \in Session, AcquireLock(p) PROVE TypeOK'
<1> DEFINE l == [local[p] EXCEPT !.loaded = Current,
                                 !.snap = IF local[p].op = "rollback" THEN newest ELSE @]
<1>1. /\ Current \in Snapshot /\ local \in [Session -> Local]
      /\ newest \in Snapshot \cup {None} /\ Ready("engine", local[p])
  BY CurrentType, LocalType, Untouched DEF ControlTypeOK, DataTypeOK, AcquireLock
<1>2. /\ l \in Local /\ l.op = local[p].op /\ l.old = local[p].old
      /\ l.unit = local[p].unit /\ l.loaded = Current
      /\ l.op = "rollback" => l.snap = newest
  BY <1>1 DEF Local
<1>3. local' = [local EXCEPT ![p] = l]
  BY DEF AcquireLock
<1> HIDE DEF l
<1>4. /\ local' \in [Session -> Local] /\ local'[p] = l
      /\ \A q \in Session : q # p => local'[q] = local[q]
  BY <1>1, <1>2, <1>3
<1>5. Ready("running", local[p])'
  BY <1>1, <1>2, <1>4 DEF Ready
<1>6. /\ DataTypeOK' /\ TimersOK' /\ units' \in [Unit -> Timer] /\ SameRunning
      /\ newest' = newest
  BY Untouched DEF AcquireLock, record
<1> QED
  BY <1>4, <1>5, <1>6, Move DEF AcquireLock, Point

LEMMA RejectedType == ASSUME TypeOK, NEW p \in Session, Rejected(p) PROVE TypeOK'
<1>1. pc[p] = "engine" /\ Ready("engine", local[p])
  BY LocalType DEF Rejected
<1>2. Ready("cancel", local[p])
  BY <1>1 DEF Ready
<1> QED
  BY <1>1, <1>2, ControlStep DEF Rejected, Point

\* An operation of a command is over; the command goes on or returns.
LEMMA OperationEnds ==
    ASSUME TypeOK, NEW p \in Session, pc[p] = "running", lock' = None,
           UNCHANGED units, DataTypeOK',
           newest \in Snapshot => newest' \in Snapshot,
           \/ Return(p)
           \/ \E point \in {"cancel", "persist"} : Go(p, point)
           \/ Go(p, "prompt") /\ local[p].op \in Interactive
    PROVE  TypeOK'
<1>1. TimersOK' /\ units' \in [Unit -> Timer] /\ SameRunning
  BY Untouched
<1>2. Ready("running", local[p])
  BY LocalType
<1>3. CASE Return(p)
  BY <1>1, <1>3, Ends
<1>4. ASSUME NEW point \in {"cancel", "persist"}, Go(p, point) PROVE TypeOK'
  <2>1. Ready(point, local[p])'
    BY <1>2, <1>4 DEF Go, Ready
  <2> QED
    BY <1>1, <1>4, <2>1, GoesOn DEF Point
<1>5. CASE Go(p, "prompt") /\ local[p].op \in Interactive
  <2>1. Ready("prompt", local[p])'
    BY <1>2, <1>5 DEF Go, Ready
  <2> QED
    BY <1>1, <1>5, <2>1, GoesOn DEF Point
<1> QED
  BY <1>3, <1>4, <1>5

LEMMA OperationType ==
    ASSUME TypeOK, NEW p \in Session,
           \/ Applied(p) \/ AppliedUnattended(p) \/ ApplyFailed(p)
           \/ DisableEnd(p) \/ DisableFailed(p) \/ RollbackLatestEnd(p)
    PROVE  TypeOK'
<1>1. /\ DataTypeOK /\ Ready(pc[p], local[p])
      /\ pc[p] = "running" /\ local[p].loaded \in Snapshot
      /\ local[p].op \in Interactive => local[p].unit \in Unit
      /\ local[p].op = "rollback" => local[p].snap \in Snapshot
  BY LocalType, Untouched DEF Ready, Running, Applied, AppliedUnattended,
     ApplyFailed, DisableEnd, DisableFailed, RollbackLatestEnd
<1>2. CASE Applied(p)
  <2>1. DataTypeOK' /\ newest' \in Snapshot
    BY <1>1, <1>2, OutcomeType DEF Applied, Running
  <2> QED
    BY <1>1, <1>2, <2>1, OperationEnds DEF Applied, Running
<1>3. CASE AppliedUnattended(p)
  <2>1. DataTypeOK' /\ newest' \in Snapshot
    BY <1>1, <1>3, OutcomeType DEF AppliedUnattended, Verdict
  <2> QED
    BY <1>1, <1>3, <2>1, OperationEnds DEF AppliedUnattended
<1>4. CASE ApplyFailed(p)
  <2>1. DataTypeOK' /\ (newest \in Snapshot => newest' \in Snapshot)
    BY <1>1, <1>4, OutcomeType DEF ApplyFailed
  <2> QED
    BY <1>1, <1>4, <2>1, OperationEnds DEF ApplyFailed
<1>5. CASE DisableEnd(p)
  <2>1. local[p].loaded.enabled \in BOOLEAN
    BY <1>1 DEF Snapshot
  <2>2. DataTypeOK'
    BY <1>1, <1>5, <2>1, OutcomeType DEF DisableEnd
  <2> QED
    BY <1>1, <1>5, <2>2, OperationEnds DEF DisableEnd
<1>6. CASE RollbackLatestEnd(p)
  <2>1. DataTypeOK' /\ (newest \in Snapshot => newest' \in Snapshot)
    BY <1>1, <1>6, OutcomeType DEF RollbackLatestEnd, Running
  <2> QED
    BY <1>1, <1>6, <2>1, OperationEnds DEF RollbackLatestEnd
<1>7. CASE DisableFailed(p)
  <2>1. local[p].loaded.enabled \in BOOLEAN
    BY <1>1 DEF Snapshot
  <2>2. DataTypeOK'
    <3>1. CASE RulesLost(local[p].loaded.enabled) /\ newest' = local[p].loaded
      BY <1>1, <1>7, <2>1, <3>1, OutcomeType DEF DisableFailed
    <3>2. CASE newest' \in {newest, local[p].loaded} /\ UNCHANGED <<enabled, policy>>
      BY <1>1, <1>7, <3>2 DEF DisableFailed, DataTypeOK, files, policy, boot
    <3> QED
      BY <1>7, <3>1, <3>2 DEF DisableFailed
  <2>3. newest \in Snapshot => newest' \in Snapshot
    BY <1>1, <1>7 DEF DisableFailed
  <2> QED
    BY <1>1, <1>7, <2>2, <2>3, OperationEnds DEF DisableFailed
<1> QED
  BY <1>2, <1>3, <1>4, <1>5, <1>6, <1>7

-----------------------------------------------------------------------------
(* Commands: the confirmation *)

\* `systemctl stop` keeps the timers' types and touches none that runs.
LEMMA StopTimerType ==
    ASSUME TypeOK, NEW u, StopTimer(u)
    PROVE  TimersOK' /\ units' \in [Unit -> Timer] /\ SameRunning
<1>1. units \in [Unit -> Timer] /\ TimersOK
  BY Untouched DEF ControlTypeOK
<1>2. CASE u \in Unit /\ units[u].status = "armed"
  <2>1. units' = [units EXCEPT ![u] = NoTimer]
    BY <1>2 DEF StopTimer
  <2> QED
    BY <1>1, <1>2, <2>1, NoTimerType DEF TimersOK, SameRunning, NoTimer
<1>3. CASE ~(u \in Unit /\ units[u].status = "armed")
  BY <1>3, Untouched DEF StopTimer
<1> QED
  BY <1>2, <1>3

LEMMA ScheduleType == ASSUME TypeOK, NEW p \in Session, Schedule(p) PROVE TypeOK'
<1>1. PICK u \in Unit :
          /\ ~Pending(u)
          /\ units' = [units EXCEPT ![u] = [status |-> "armed", snap |-> local[p].snap]]
          /\ local' = [local EXCEPT ![p].unit = u]
  BY DEF Schedule
<1>2. /\ local \in [Session -> Local] /\ units \in [Unit -> Timer] /\ TimersOK
      /\ pc[p] = "schedule" /\ Ready("schedule", local[p])
  BY LocalType, Untouched DEF ControlTypeOK, Schedule
<1>3. local[p].snap \in Snapshot /\ local[p].op \in Interactive
  BY <1>2 DEF Ready
<1>4. [status |-> "armed", snap |-> local[p].snap] \in Timer
  BY <1>3 DEF Timer
<1>5. units' \in [Unit -> Timer] /\ TimersOK' /\ SameRunning
  BY <1>1, <1>2, <1>3, <1>4 DEF TimersOK, SameRunning
<1>6. [local[p] EXCEPT !.unit = u] \in Local
  BY <1>2 DEF Local
<1>7. /\ local' \in [Session -> Local] /\ local'[p] = [local[p] EXCEPT !.unit = u]
      /\ \A q \in Session : q # p => local'[q] = local[q]
  BY <1>1, <1>2, <1>6
<1>8. /\ local'[p].op = local[p].op /\ local'[p].old = local[p].old
      /\ local'[p].unit = u
  BY <1>2, <1>7 DEF Local
<1>9. local[p].op # "rollback"
  BY <1>3 DEF Interactive
<1>10. Ready("engine", local[p])'
  BY <1>2, <1>8, <1>9 DEF Ready
<1>11. DataTypeOK' /\ newest' = newest /\ lock' = lock
  BY Untouched DEF Schedule, record
<1> QED
  BY <1>2, <1>5, <1>7, <1>10, <1>11, Move DEF Schedule, Point

LEMMA ScheduleErrorType == ASSUME TypeOK, NEW p \in Session, ScheduleError(p) PROVE TypeOK'
<1>1. pc[p] = "schedule" /\ Ready("schedule", local[p])
  BY LocalType DEF ScheduleError
<1>2. Ready("revert", local[p])
  BY <1>1 DEF Ready
<1> QED
  BY <1>1, <1>2, ControlStep DEF ScheduleError, Undo, Point

LEMMA CancelType == ASSUME TypeOK, NEW p \in Session, Cancel(p) PROVE TypeOK'
<1>1. pc[p] = "cancel" /\ Ready("cancel", local[p])
  BY LocalType DEF Cancel
<1>2. /\ TimersOK' /\ units' \in [Unit -> Timer] /\ SameRunning /\ DataTypeOK'
      /\ newest' = newest /\ lock' = lock
  BY StopTimerType, Untouched DEF Cancel, record
<1>3. CASE Return(p)
  BY <1>1, <1>2, <1>3, Ends
<1>4. CASE Go(p, "revert")
  <2>1. Ready("revert", local[p])'
    BY <1>1, <1>4 DEF Go, Ready
  <2> QED
    BY <1>1, <1>2, <1>4, <2>1, GoesOn DEF Point
<1> QED
  BY <1>3, <1>4 DEF Cancel, Undo

LEMMA AnswerType == ASSUME TypeOK, NEW p \in Session, Answer(p) PROVE TypeOK'
<1>1. pc[p] = "prompt" /\ Ready("prompt", local[p])
  BY LocalType DEF Answer
<1>2. Ready("stop", local[p])
  BY <1>1 DEF Ready
<1> QED
  BY <1>1, <1>2, ControlStep DEF Answer, Point

LEMMA StopType == ASSUME TypeOK, NEW p \in Session, Stop(p) PROVE TypeOK'
<1>1. pc[p] = "stop" /\ Ready("stop", local[p])
  BY LocalType DEF Stop
<1>2. /\ TimersOK' /\ units' \in [Unit -> Timer] /\ SameRunning
      /\ newest' = newest /\ lock' = lock
  BY StopTimerType DEF Stop, record
<1>3. DataTypeOK'
  BY Untouched DEF Stop, Keep, DataTypeOK, Verdict, files, record, boot
<1>4. CASE Return(p)
  BY <1>1, <1>2, <1>3, <1>4, Ends
<1>5. CASE Go(p, "persist")
  <2>1. Ready("persist", local[p])'
    BY <1>1, <1>5 DEF Go, Ready
  <2> QED
    BY <1>1, <1>2, <1>3, <1>5, <2>1, GoesOn DEF Point
<1> QED
  BY <1>4, <1>5 DEF Stop, AfterConfirm

LEMMA StopErrorType == ASSUME TypeOK, NEW p \in Session, StopError(p) PROVE TypeOK'
  BY ControlStep DEF StopError

LEMMA PersistType == ASSUME TypeOK, NEW p \in Session, Persist(p) PROVE TypeOK'
<1>1. DataTypeOK'
  BY Untouched DEF Persist, DataTypeOK, files, record, policy
<1>2. TimersOK' /\ units' \in [Unit -> Timer] /\ SameRunning
  BY Untouched DEF Persist
<1> QED
  BY <1>1, <1>2, Ends DEF Persist, record

LEMMA CommandType == ASSUME TypeOK, NEW p \in Session, Command(p) PROVE TypeOK'
  BY SaveType, SaveErrorType, CheckType, CheckDisabledType, DigestType, RevertType,
     ScheduleType, ScheduleErrorType, AcquireLockType, RejectedType, OperationType,
     CancelType, AnswerType, StopType, StopErrorType, PersistType
  DEF Command

-----------------------------------------------------------------------------
(* Timers, lost sessions, reboots *)

\* A step of a timer leaves the sessions where they are.
LEMMA TimerMove ==
    ASSUME TypeOK, NEW u \in Unit, NEW t \in Timer,
           units' = [units EXCEPT ![u] = t], UNCHANGED <<pc, local>>,
           t.status \in {"armed", "running"} => t.snap \in Snapshot,
           newest \in Snapshot => newest' \in Snapshot, DataTypeOK',
           \/ /\ LockFree /\ lock' = u /\ t.status = "running"
           \/ /\ units[u].status = "running" /\ lock' = None /\ t.status # "running"
           \/ /\ units[u].status # "running" /\ lock' = lock /\ t.status # "running"
    PROVE  TypeOK'
<1>1. /\ units' \in [Unit -> Timer] /\ units'[u] = t
      /\ \A v \in Unit : v # u => units'[v] = units[v]
  BY DEF TypeOK, ControlTypeOK
<1>2. ControlTypeOK'
  BY <1>1 DEF TypeOK, ControlTypeOK
<1>3. \A v \in Unit : (Pending(v) => units[v].snap \in Snapshot)'
  BY <1>1 DEF TypeOK
<1>4. \A p \in Session : Ready(pc[p], local[p])'
  BY DEF TypeOK, Ready
<1>5. HolderOK'
  BY <1>1, ActorAssumption DEF TypeOK, HolderOK, LockFree
<1> QED
  BY <1>2, <1>3, <1>4, <1>5 DEF TypeOK

LEMMA TimerType == ASSUME TypeOK, NEW u \in Unit, TimerStep(u) PROVE TypeOK'
<1>1. /\ units \in [Unit -> Timer] /\ DataTypeOK
      /\ Pending(u) => units[u].snap \in Snapshot
  BY DEF TypeOK, ControlTypeOK
<1>2. CASE Fire(u)
  <2> DEFINE t == [units[u] EXCEPT !.status = "running"]
  <2>1. t \in Timer /\ t.status = "running" /\ t.snap = units[u].snap
    BY <1>1 DEF Timer
  <2>2. units[u].snap \in Snapshot
    BY <1>1, <1>2 DEF Fire, Elapsed
  <2>3. units' = [units EXCEPT ![u] = t]
    BY <1>2 DEF Fire
  <2>4. DataTypeOK' /\ newest' = newest
    BY <1>2, Untouched DEF Fire, record
  <2> HIDE DEF t
  <2> QED
    BY <1>2, <2>1, <2>2, <2>3, <2>4, TimerMove DEF Fire
<1>3. CASE FireRejected(u)
  <2>1. [status |-> "lost", snap |-> None] \in Timer
    BY DEF Timer
  <2>2. DataTypeOK' /\ newest' = newest
    BY <1>3, Untouched DEF FireRejected, record
  <2> QED
    BY <1>3, <2>1, <2>2, TimerMove DEF FireRejected, Elapsed
<1>4. CASE RollbackEnd(u)
  <2>1. DataTypeOK' /\ (newest \in Snapshot => newest' \in Snapshot)
    BY <1>1, <1>4, OutcomeType DEF RollbackEnd
  <2> QED
    BY <1>4, <2>1, NoTimerType, TimerMove DEF RollbackEnd, NoTimer
<1> QED
  BY <1>2, <1>3, <1>4 DEF TimerStep

LEMMA LostType == ASSUME TypeOK, NEW p \in Session, Lost(p) PROVE TypeOK'
  BY ControlStep DEF Lost

LEMMA RebootType == ASSUME TypeOK, Reboot PROVE TypeOK'
<1>1. DataTypeOK'
  BY DEF Reboot, TypeOK, DataTypeOK, files, record
<1>2. ControlTypeOK'
  BY NoLocalType, NoTimerType DEF Reboot, TypeOK, ControlTypeOK, Point
<1>3. HolderOK'
  BY ActorAssumption DEF Reboot, LockFree, HolderOK, NoTimer
<1>4. \A p \in Session : Ready(pc[p], local[p])'
  BY DEF Reboot, Ready
<1>5. \A u \in Unit : (Pending(u) => units[u].snap \in Snapshot)'
  BY DEF Reboot, NoTimer
<1> QED
  BY <1>1, <1>2, <1>3, <1>4, <1>5 DEF TypeOK

LEMMA BootApplyType == ASSUME TypeOK, BootApply PROVE TypeOK'
<1>1. Current \in Snapshot /\ OnDisk \in Files
  BY CurrentType, Untouched
<1>2. DataTypeOK' /\ (newest \in Snapshot => newest' \in Snapshot)
  BY <1>1 DEF BootApply, NotActivated, TypeOK, DataTypeOK, files, record, policy
<1>3. ControlTypeOK' /\ HolderOK'
  BY DEF BootApply, TypeOK, ControlTypeOK, HolderOK
<1>4. \A p \in Session : Ready(pc[p], local[p])'
  BY <1>2 DEF BootApply, TypeOK, Ready
<1>5. \A u \in Unit : (Pending(u) => units[u].snap \in Snapshot)'
  BY DEF BootApply, TypeOK
<1> QED
  BY <1>2, <1>3, <1>4, <1>5 DEF TypeOK

-----------------------------------------------------------------------------

LEMMA InitType == Init => TypeOK
<1> SUFFICES ASSUME Init PROVE TypeOK
  OBVIOUS
<1>1. DataTypeOK
  BY DEF Init, DataTypeOK, Verdict
<1>2. ControlTypeOK
  BY NoLocalType, NoTimerType DEF Init, ControlTypeOK, Point
<1>3. HolderOK
  BY ActorAssumption DEF Init, HolderOK, NoTimer
<1>4. \A p \in Session : Ready(pc[p], local[p])
  BY DEF Init, Ready
<1> QED
  BY <1>1, <1>2, <1>3, <1>4 DEF TypeOK, Init, NoTimer

LEMMA StepType == TypeOK /\ [Next]_vars => TypeOK'
<1> SUFFICES ASSUME TypeOK, [Next]_vars PROVE TypeOK'
  OBVIOUS
<1>1. CASE UNCHANGED vars
  BY <1>1 DEF vars, files, record, policy, boot, TypeOK, DataTypeOK, ControlTypeOK,
     HolderOK, Ready
<1>2. CASE Next
  BY <1>2, TypedType, CommandType, LostType, TimerType, RebootType, BootApplyType
  DEF Next
<1> QED
  BY <1>1, <1>2

\* Types hold, the lock is held by exactly the operation that runs, a pending
\* timer has its snapshot and each command has what its next step uses, for any
\* sessions, timers, configurations, lists, commands and faults.
THEOREM ConfirmTypeCorrect == Spec => []TypeOK
  BY InitType, StepType, PTL DEF Spec
=============================================================================
