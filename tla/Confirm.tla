------------------------------- MODULE Confirm -------------------------------
(***************************************************************************)
(* internal/app/app.go: how a change of the configuration or of the CIDR   *)
(* list is made, confirmed and undone.  Commands at terminals edit the     *)
(* files without a lock, a transient systemd timer per change waits to     *)
(* undo it, and all of them use the engine, whose operations begin (lock,  *)
(* inputs) and end here: module Engine has the inside of them, with its    *)
(* failures and kills.                                                     *)
(***************************************************************************)
EXTENDS Naturals, FiniteSets

CONSTANTS
    Session,    \* terminals at which irroute commands are typed
    Unit,       \* bound: timer units that are pending or referred to at once
    Config, Data,
    Commands,   \* bound: the commands that are typed
    Faults,     \* what may go wrong
    Patient,    \* bound: TRUE if no command is typed while a timer is pending
    Slow,       \* TRUE if 120 s may have passed before the prompt is over
    None

Interactive == {"change", "import", "enable", "apply"}
Operation == Interactive \cup {"unattended", "setup", "disable", "rollback"}
FaultKind ==
    {"apply", "disable", "rollback", "store", "snapshot", "schedule", "stop", "service",
     "lost", "reboot"}

Verdict == {"none", "unguarded", "confirmed", "restored"}

ASSUME ActorAssumption ==
    /\ None \notin Session \cup Unit \cup Config \cup Data
    /\ Session \cap Unit = {}
    /\ Unit \cap Verdict = {}
ASSUME SwitchAssumption ==
    /\ Commands \subseteq Operation
    /\ Faults \subseteq FaultKind
    /\ Patient \in BOOLEAN
    /\ Slow \in BOOLEAN

VARIABLES
    configFile, dataFile,   \* the store's files
    enabled,                \* state.json, as far as it is branched on
    newest,                 \* the newest snapshot, or None
    live,                   \* the files of the generation in force, or None
    lock,                   \* the session or unit whose engine operation runs
    units,                  \* the timers
    persistent,             \* irroute.service is enabled
    booting,                \* irroute.service has yet to run after a boot
    pc, local,              \* the point in a session's command, its locals
    verdict, before         \* history: the unit that guards the generation in
                            \* force or what became of it; its predecessor

files == <<configFile, dataFile>>
record == <<enabled, newest>>
policy == <<live, verdict, before>>
boot == <<persistent, booting>>
vars == <<files, record, policy, lock, units, boot, pc, local>>

Files == [cfg : Config, data : Data]
Snapshot == [cfg : Config, data : Data, enabled : BOOLEAN]
OnDisk == [cfg |-> configFile, data |-> dataFile]
Current == [cfg |-> configFile, data |-> dataFile, enabled |-> enabled]
FilesOf(s) == [cfg |-> s.cfg, data |-> s.data]

ASSUME ValueAssumption == None \notin Files \cup Snapshot

Point == {"idle", "save", "check", "digest", "schedule", "engine", "running",
          "cancel", "revert", "prompt", "stop", "persist"}
Local == [op : Operation \cup {"none"}, old : Files \cup {None},
          new : Files \cup {None}, snap : Snapshot \cup {None},
          unit : Unit \cup {None}, loaded : Snapshot \cup {None}]
NoLocal == [op |-> "none", old |-> None, new |-> None, snap |-> None,
            unit |-> None, loaded |-> None]
Timer == [status : {"gone", "armed", "running", "lost"}, snap : Snapshot \cup {None}]
NoTimer == [status |-> "gone", snap |-> None]

Faulty(kind) == kind \in Faults
Pending(u) == units[u].status \in {"armed", "running"}
Owner(u) == {p \in Session : local[p].unit = u}
At(p, point) == pc[p] = point
Go(p, point) == pc' = [pc EXCEPT ![p] = point] /\ UNCHANGED local
Return(p) ==
    /\ pc' = [pc EXCEPT ![p] = "idle"]
    /\ local' = [local EXCEPT ![p] = NoLocal]

LockIgnored == TRUE                                                 \* mutant

LockFree == lock = None

Init ==
    /\ configFile \in Config
    /\ dataFile \in Data
    /\ enabled = FALSE
    /\ newest = None
    /\ live = None
    /\ lock = None
    /\ units = [u \in Unit |-> NoTimer]
    /\ persistent = FALSE
    /\ booting = FALSE
    /\ pc = [p \in Session |-> "idle"]
    /\ local = [p \in Session |-> NoLocal]
    /\ verdict = "none"
    /\ before = None

-----------------------------------------------------------------------------
(* A command is typed *)

Begin(p, op, new, snap, point) ==
    /\ At(p, "idle")
    /\ op \in Commands
    /\ Patient => \A u \in Unit : ~Pending(u)
    /\ local' = [local EXCEPT ![p] =
          [op |-> op, old |-> OnDisk, new |-> new, snap |-> snap,
           unit |-> None, loaded |-> None]]
    /\ pc' = [pc EXCEPT ![p] = point]
    /\ newest' = IF snap = None THEN newest ELSE snap
    /\ UNCHANGED <<files, enabled, policy, lock, units>>

\* A snapshot that cannot be written is noticed only if it is needed.
SafetySnapshot == {Current} \cup (IF Faulty("snapshot") THEN {None} ELSE {})

\* The old configuration shares its lists with the new one.
ChangeUncloned(p) ==                                                \* mutant
    /\ \E c \in Config \ {configFile}, snap \in SafetySnapshot :
          Begin(p, "change", [cfg |-> c, data |-> dataFile],
                IF snap = None THEN None ELSE [snap EXCEPT !.cfg = c], "save")
    /\ UNCHANGED boot

\* force add, force remove, dns set, dns system
Change(p) ==
    /\ \E c \in Config \ {configFile}, snap \in SafetySnapshot :
          Begin(p, "change", [cfg |-> c, data |-> dataFile], snap, "save")
    /\ UNCHANGED boot

Import(p) ==
    /\ \E d \in Data, snap \in SafetySnapshot :
          Begin(p, "import", [cfg |-> configFile, data |-> d], snap, "save")
    /\ UNCHANGED boot

\* The answers come long after the look at state.json.
Setup(p) ==
    /\ ~enabled
    /\ \E new \in Files : Begin(p, "setup", new, None, "save")
    /\ UNCHANGED boot

\* enable and apply; without a snapshot they stop here.
Activate(p) ==
    /\ \E op \in {"enable", "apply"} : Begin(p, op, None, Current, "schedule")
    /\ UNCHANGED boot

\* enable and apply with --no-confirm
ActivateUnattended(p) ==
    /\ Begin(p, "unattended", None, None, "engine")
    /\ UNCHANGED boot

DisableKeepsService(p) ==                                           \* mutant
    /\ Begin(p, "disable", None, None, "engine")
    /\ UNCHANGED boot

\* `systemctl disable --now` comes first; if it fails nothing else is done.
Disable(p) ==
    /\ Begin(p, "disable", None, None, "engine")
    /\ persistent' = FALSE
    /\ booting' = FALSE

RollbackLatest(p) ==
    /\ newest # None
    /\ Begin(p, "rollback", None, None, "engine")
    /\ UNCHANGED boot

-----------------------------------------------------------------------------
(* saveAndMaybeApply, importData and setup: the files *)

Save(p) ==
    /\ At(p, "save")
    /\ \/ /\ local[p].op = "change"
          /\ configFile' = local[p].new.cfg
          /\ UNCHANGED dataFile
          /\ Go(p, "check")
       \/ /\ local[p].op = "import"
          /\ dataFile' = local[p].new.data
          /\ UNCHANGED configFile
          /\ Go(p, "check")
       \/ /\ local[p].op = "setup"
          /\ configFile' = local[p].new.cfg
          /\ dataFile' = local[p].new.data
          /\ IF local[p].new.data = local[p].old.data THEN Return(p) ELSE Go(p, "check")
    /\ UNCHANGED <<record, policy, lock, units, boot>>

\* setup writes the configuration before it fails to import the list.
SaveError(p) ==
    /\ Faulty("store")
    /\ At(p, "save")
    /\ configFile' \in {configFile} \cup (IF local[p].op = "setup" THEN {local[p].new.cfg} ELSE {})
    /\ Return(p)
    /\ UNCHANGED <<dataFile, record, policy, lock, units, boot>>

\* Is there a generation to replace?  A change without a snapshot goes back,
\* an import does not.
Check(p) ==
    /\ At(p, "check")
    /\ local[p].op # "setup"
    /\ enabled
    /\ \/ local[p].snap # None /\ Go(p, "schedule")
       \/ local[p].snap = None /\ local[p].op = "change" /\ Go(p, "revert")
       \/ local[p].snap = None /\ local[p].op = "import" /\ Return(p)
    /\ UNCHANGED <<files, record, policy, lock, units, boot>>

\* The new list's digest goes into a state that is read here and written later.
CheckDisabled(p) ==
    /\ At(p, "check")
    /\ local[p].op = "setup" \/ ~enabled
    /\ IF local[p].op = "change"
       THEN Return(p)
       ELSE /\ pc' = [pc EXCEPT ![p] = "digest"]
            /\ local' = [local EXCEPT ![p].loaded = Current]
    /\ UNCHANGED <<files, record, policy, lock, units, boot>>

Digest(p) ==
    /\ At(p, "digest")
    /\ enabled' = local[p].loaded.enabled \/ (Faulty("store") /\ UNCHANGED enabled)
    /\ Return(p)
    /\ UNCHANGED <<files, newest, policy, lock, units, boot>>

GiveUp(p) == Return(p)                                              \* mutant

\* Failed changes and imports put their file back.
Undo(p) == IF local[p].op \in {"change", "import"} THEN Go(p, "revert") ELSE Return(p)

Revert(p) ==
    /\ At(p, "revert")
    /\ \/ /\ configFile' = IF local[p].op = "change" THEN local[p].old.cfg ELSE configFile
          /\ dataFile' = IF local[p].op = "import" THEN local[p].old.data ELSE dataFile
       \/ Faulty("store") /\ UNCHANGED files
    /\ Return(p)
    /\ UNCHANGED <<record, policy, lock, units, boot>>

-----------------------------------------------------------------------------
(* The engine, from a command *)

\* What an apply of the inputs s leaves behind.
Activated(s, guard) ==
    /\ s.enabled \/ live = None
    /\ live' = FilesOf(s)
    /\ enabled' = TRUE
    /\ newest' = s
    /\ verdict' = guard
    /\ before' = live

\* A first activation is refused over rules that are in force.  The snapshot
\* of an apply that fails may be there.
NotActivated(s) ==
    /\ Faulty("apply") \/ (~s.enabled /\ live # None)
    /\ newest' \in {newest, s}
    /\ UNCHANGED <<enabled, policy>>

\* The state after disable, and after rollback has gone back to snapshot s: it
\* disables what state.json says is enabled and applies s if that was enabled;
\* both halves write a snapshot, the second one of a disabled system.
Disabled(was) ==
    /\ enabled' = FALSE
    /\ live' = IF was THEN None ELSE live
    /\ verdict' = IF was THEN "none" ELSE verdict
    /\ before' = IF was THEN None ELSE before

\* A disable whose state.json cannot be written: the rules are gone, and it is
\* still on record that they are there.
RulesLost(was) ==
    /\ was
    /\ live' = None
    /\ verdict' = "none"
    /\ before' = None
    /\ UNCHANGED enabled

RolledBack(s) ==
    /\ s.enabled => enabled \/ live = None
    /\ configFile' = s.cfg
    /\ dataFile' = s.data
    /\ IF s.enabled
       THEN /\ live' = FilesOf(s)
            /\ enabled' = TRUE
            /\ verdict' = "restored"
            /\ before' = None
            /\ newest' = [s EXCEPT !.enabled = FALSE]
       ELSE Disabled(enabled) /\ newest' = IF enabled THEN Current ELSE newest

\* It fails before it changes anything, inside the disable, after it, with the
\* files restored one after the other, or in its apply.
NotRolledBack(s) ==
    /\ Faulty("rollback") \/ (s.enabled /\ ~enabled /\ live # None)
    /\ \/ UNCHANGED <<files, record, policy>>
       \/ RulesLost(enabled) /\ newest' = Current /\ UNCHANGED files
       \/ /\ \E f \in {OnDisk, [cfg |-> s.cfg, data |-> dataFile], FilesOf(s)} :
                configFile' = f.cfg /\ dataFile' = f.data
          /\ Disabled(enabled)
          /\ newest' \in {IF enabled THEN Current ELSE newest, [s EXCEPT !.enabled = FALSE]}

AcquireLock(p) ==
    /\ At(p, "engine")
    /\ LockFree
    /\ lock' = p
    /\ pc' = [pc EXCEPT ![p] = "running"]
    /\ local' = [local EXCEPT ![p].loaded = Current,
                              ![p].snap = IF local[p].op = "rollback" THEN newest ELSE @]
    /\ UNCHANGED <<files, record, policy, units, boot>>

\* The lock is not waited for.
Rejected(p) ==
    /\ At(p, "engine")
    /\ ~LockFree
    /\ IF local[p].op \in {"disable", "rollback"} THEN Return(p) ELSE Go(p, "cancel")
    /\ UNCHANGED <<files, record, policy, lock, units, boot>>

Running(p, ops) == At(p, "running") /\ local[p].op \in ops

Applied(p) ==
    /\ Running(p, Interactive)
    /\ Activated(local[p].loaded, local[p].unit)
    /\ lock' = None
    /\ Go(p, "prompt")
    /\ UNCHANGED <<files, units, boot>>

AppliedUnattended(p) ==
    /\ Running(p, {"unattended"})
    /\ Activated(local[p].loaded, "unguarded")
    /\ lock' = None
    /\ Go(p, "persist") \/ Return(p)
    /\ UNCHANGED <<files, units, boot>>

ApplyFailed(p) ==
    /\ Running(p, Interactive \cup {"unattended"})
    /\ NotActivated(local[p].loaded)
    /\ lock' = None
    /\ Go(p, "cancel")
    /\ UNCHANGED <<files, units, boot>>

\* Also one that reports tables or DNS it could not clean up.
DisableEnd(p) ==
    /\ Running(p, {"disable"})
    /\ Disabled(local[p].loaded.enabled)
    /\ newest' = local[p].loaded
    /\ lock' = None
    /\ Return(p)
    /\ UNCHANGED <<files, units, boot>>

\* It failed before the first rule or at state.json; the boot unit stays off.
DisableFailed(p) ==
    /\ Faulty("disable")
    /\ Running(p, {"disable"})
    /\ \/ RulesLost(local[p].loaded.enabled) /\ newest' = local[p].loaded
       \/ newest' \in {newest, local[p].loaded} /\ UNCHANGED <<enabled, policy>>
    /\ lock' = None
    /\ Return(p)
    /\ UNCHANGED <<files, units, boot>>

RollbackLatestEnd(p) ==
    /\ Running(p, {"rollback"})
    /\ RolledBack(local[p].snap) \/ NotRolledBack(local[p].snap)
    /\ lock' = None
    /\ Return(p)
    /\ UNCHANGED <<units, boot>>

-----------------------------------------------------------------------------
(* The confirmation *)

\* A unit's name is a timestamp: never that of a unit still referred to.
Schedule(p) ==
    /\ At(p, "schedule")
    /\ \E u \in Unit :
          /\ ~Pending(u)
          /\ Owner(u) = {}
          /\ verdict # u
          /\ units' = [units EXCEPT ![u] = [status |-> "armed", snap |-> local[p].snap]]
          /\ local' = [local EXCEPT ![p].unit = u]
    /\ pc' = [pc EXCEPT ![p] = "engine"]
    /\ UNCHANGED <<files, record, policy, lock, boot>>

ScheduleError(p) ==
    /\ Faulty("schedule")
    /\ At(p, "schedule")
    /\ Undo(p)
    /\ UNCHANGED <<files, record, policy, lock, units, boot>>

\* `systemctl stop unit.timer`: a rollback that has begun goes on.
StopTimer(u) ==
    units' = IF u \in Unit /\ units[u].status = "armed"
             THEN [units EXCEPT ![u] = NoTimer] ELSE units

\* What the stop of a failed activation's timer returns is ignored.
Cancel(p) ==
    /\ At(p, "cancel")
    /\ StopTimer(local[p].unit) \/ (Faulty("stop") /\ UNCHANGED units)
    /\ Undo(p)
    /\ UNCHANGED <<files, record, policy, lock, boot>>

AnswerCancels(p) ==                                                 \* mutant
    /\ At(p, "prompt")
    /\ Go(p, "stop") \/ Go(p, "cancel")
    /\ UNCHANGED <<files, record, policy, lock, units, boot>>

\* CONFIRM, or another answer or none in 90 s.
Answer(p) ==
    /\ At(p, "prompt")
    /\ Go(p, "stop") \/ Return(p)
    /\ UNCHANGED <<files, record, policy, lock, units, boot>>

Keep(u) == verdict' = IF verdict = u THEN "confirmed" ELSE verdict
AfterConfirm(p) == IF local[p].op = "enable" THEN Go(p, "persist") ELSE Return(p)

Stop(p) ==
    /\ At(p, "stop")
    /\ Pending(local[p].unit)
    /\ StopTimer(local[p].unit)
    /\ Keep(local[p].unit)
    /\ AfterConfirm(p)
    /\ UNCHANGED <<files, record, live, before, lock, boot>>

\* The unit was collected, there is nothing to stop; or the stop of a timer that
\* is armed fails, CONFIRM is refused and the rollback still comes.
StopError(p) ==
    /\ At(p, "stop")
    /\ ~Pending(local[p].unit) \/ Faulty("stop")
    /\ Return(p)
    /\ UNCHANGED <<files, record, policy, lock, units, boot>>

Persist(p) ==
    /\ At(p, "persist")
    /\ persistent' = TRUE \/ (Faulty("service") /\ UNCHANGED persistent)
    /\ Return(p)
    /\ UNCHANGED <<files, record, policy, lock, units, booting>>

-----------------------------------------------------------------------------
(* The timers, lost sessions and reboots *)

Elapsed(u) ==
    /\ units[u].status = "armed"
    /\ Slow \/ Owner(u) = {}

Fire(u) ==
    /\ Elapsed(u)
    /\ LockFree
    /\ lock' = u
    /\ units' = [units EXCEPT ![u].status = "running"]
    /\ UNCHANGED <<files, record, policy, boot, pc, local>>

\* The rollback meets the lock, and nobody tries it again.
FireRejected(u) ==
    /\ Elapsed(u)
    /\ ~LockFree
    /\ units' = [units EXCEPT ![u] = [status |-> "lost", snap |-> None]]
    /\ UNCHANGED <<files, record, policy, lock, boot, pc, local>>

RollbackEnd(u) ==
    /\ units[u].status = "running"
    /\ RolledBack(units[u].snap) \/ NotRolledBack(units[u].snap)
    /\ lock' = None
    /\ units' = [units EXCEPT ![u] = NoTimer]
    /\ UNCHANGED <<boot, pc, local>>

LostTakesTimer(p) ==                                                \* mutant
    /\ Faulty("lost")
    /\ pc[p] \notin {"idle", "running"}
    /\ StopTimer(local[p].unit)
    /\ Return(p)
    /\ UNCHANGED <<files, record, policy, lock, boot>>

\* The SSH session ends, anywhere but inside the engine (see Engine for that).
Lost(p) ==
    /\ Faulty("lost")
    /\ pc[p] \notin {"idle", "running"}
    /\ Return(p)
    /\ UNCHANGED <<files, record, policy, lock, units, boot>>

Reboot ==
    /\ Faulty("reboot")
    /\ LockFree
    /\ live' = None
    /\ units' = [u \in Unit |-> NoTimer]
    /\ pc' = [p \in Session |-> "idle"]
    /\ local' = [p \in Session |-> NoLocal]
    /\ booting' = persistent
    /\ UNCHANGED <<files, record, lock, verdict, before, persistent>>

\* apply --boot does not ask whether irroute was enabled, or confirmed; nobody
\* tries it again.
BootApply ==
    /\ booting
    /\ \/ /\ LockFree
          /\ enabled \/ live = None
          /\ live' = OnDisk
          /\ enabled' = TRUE
          /\ newest' = Current
       \/ LockFree /\ NotActivated(Current)
       \/ ~LockFree /\ UNCHANGED <<live, record>>
    /\ booting' = FALSE
    /\ UNCHANGED <<files, verdict, before, lock, units, persistent, pc, local>>

-----------------------------------------------------------------------------

Typed(p) ==
    \/ Change(p) \/ Import(p) \/ Setup(p) \/ Activate(p)
    \/ ActivateUnattended(p) \/ Disable(p) \/ RollbackLatest(p)

Command(p) ==
    \/ Save(p) \/ SaveError(p) \/ Check(p) \/ CheckDisabled(p) \/ Digest(p)
    \/ Revert(p) \/ Schedule(p) \/ ScheduleError(p) \/ AcquireLock(p)
    \/ Rejected(p) \/ Applied(p) \/ AppliedUnattended(p) \/ ApplyFailed(p)
    \/ DisableEnd(p) \/ DisableFailed(p) \/ RollbackLatestEnd(p) \/ Cancel(p)
    \/ Answer(p) \/ Stop(p) \/ StopError(p) \/ Persist(p)

TimerStep(u) == Fire(u) \/ FireRejected(u) \/ RollbackEnd(u)

Next ==
    \/ \E p \in Session : Typed(p) \/ Command(p) \/ Lost(p)
    \/ \E u \in Unit : TimerStep(u)
    \/ Reboot
    \/ BootApply

Spec == Init /\ [][Next]_vars

\* Commands go on (the prompt gives up after 90 s), systemd runs what is due.
Fairness ==
    /\ \A p \in Session : WF_vars(Command(p))
    /\ \A u \in Unit : WF_vars(TimerStep(u))
    /\ WF_vars(BootApply)

FairSpec == Spec /\ Fairness

-----------------------------------------------------------------------------
(* Properties *)

\* What a command at a point, with these locals, relies on.
Ready(point, l) ==
    /\ point # "idle" => l.op # "none" /\ l.old \in Files
    /\ point \in {"save", "check"} =>
          l.op \in {"change", "import", "setup"} /\ l.new \in Files
    /\ point = "schedule" => l.snap \in Snapshot
    /\ point \in {"digest", "running"} => l.loaded \in Snapshot
    /\ point \in {"schedule", "prompt", "stop"} => l.op \in Interactive
    /\ point \in {"engine", "running", "prompt", "stop"} /\ l.op \in Interactive =>
          l.unit \in Unit
    /\ point = "engine" /\ l.op = "rollback" => newest \in Snapshot
    /\ point = "running" /\ l.op = "rollback" => l.snap \in Snapshot

DataTypeOK ==
    /\ configFile \in Config
    /\ dataFile \in Data
    /\ enabled \in BOOLEAN
    /\ newest \in Snapshot \cup {None}
    /\ live \in Files \cup {None}
    /\ before \in Files \cup {None}
    /\ verdict \in Verdict \cup Unit
    /\ persistent \in BOOLEAN
    /\ booting \in BOOLEAN

ControlTypeOK ==
    /\ units \in [Unit -> Timer]
    /\ pc \in [Session -> Point]
    /\ local \in [Session -> Local]
    /\ lock \in Session \cup Unit \cup {None}

\* The lock is held by exactly the operation that runs.
HolderOK ==
    /\ \A p \in Session : lock = p <=> At(p, "running")
    /\ \A u \in Unit : lock = u <=> units[u].status = "running"

\* Types, and: the lock has its holder, a timer that is pending knows what to
\* restore, each command has what its next step needs.
TypeOK ==
    /\ DataTypeOK
    /\ ControlTypeOK
    /\ HolderOK
    /\ \A p \in Session : Ready(pc[p], local[p])
    /\ \A u \in Unit : Pending(u) => units[u].snap \in Snapshot

Quiet == lock = None /\ \A p \in Session : At(p, "idle")

\* An activation that is not confirmed does not stay in force for ever
\* (README.md:26).
UnconfirmedUndone == \A u \in Unit : ~<>[](verdict = u /\ live # None)

\* A timer that is left to one operator who waits for it never changes what was
\* confirmed: the timer of a change that failed, whose stop failed too, is still
\* armed, and its rollback finds a confirmed generation in force and has to bring
\* back the very same files; the timer of the confirmed change itself is stopped
\* (app.go:592, app.go:714, app.go:725).
ConfirmedStays ==
    [][\A u \in Unit : RollbackEnd(u) /\ verdict = "confirmed" => live' = live]_vars

\* The rollback of an unconfirmed activation that succeeds brings back what was
\* in force before it, a policy or none (app.go:369, app.go:616).
PreviousRestored ==
    [][\A u \in Unit :
          RollbackEnd(u) /\ RolledBack(units[u].snap) /\ verdict = u => live' = before]_vars

\* Between commands the files are those of the generation in force: changes
\* that failed put back what they wrote (app.go:592, app.go:639).
LiveMatchesFiles == Quiet /\ live # None => live = OnDisk

\* The boot unit is enabled only on a system that is (app.go:393, app.go:402).
BootOnlyEnabled == Quiet /\ persistent => enabled

\* Until it is confirmed an activation has its timer, whatever other sessions
\* do; a timer is lost only to the lock (app.go:632, app.go:706).
GuardHeld == \A u \in Unit : verdict = u => units[u].status # "gone"
=============================================================================
