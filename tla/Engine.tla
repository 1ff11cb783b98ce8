------------------------------- MODULE Engine -------------------------------
(***************************************************************************)
(* internal/engine/engine.go: apply, disable and rollback, one action per  *)
(* command the engine gives to the kernel, to systemd-resolved or to its   *)
(* store.  Between two actions another process may run, an `irroute` may   *)
(* be killed, the host may reboot.  A handler that calls another (rollback *)
(* calls disable and apply) goes on at the callee's first control point.   *)
(***************************************************************************)
EXTENDS Naturals, Sequences, Functions

CONSTANTS
    Proc,           \* processes that may run an irroute command
    Config,         \* configurations that pass config.Validate
    Managed,        \* those of them whose DNS mode is "managed"
    Data,           \* normalised Iran CIDR lists
    Faults,         \* what the host may do to the engine, see FaultKind
    MaxSnapshots,   \* bound: no command starts once this many snapshots exist
    SharedStore,    \* TRUE: config and data files may change under a held lock
    Heeding,        \* TRUE: see MovesOn
    None            \* no process, no value

FaultKind == {"read", "save", "flush", "load", "ruleAdd", "ruleDel",
              "dnsSet", "dnsRevert", "crash", "reboot", "intruder", "race"}

ASSUME ProcAssumption == None \notin Proc
ASSUME ConfigAssumption ==
    /\ Managed \subseteq Config
    /\ None \notin Config
    /\ {"system", "partial"} \cap Config = {}
ASSUME DataAssumption == None \notin Data
ASSUME BoundAssumption ==
    /\ Faults \subseteq FaultKind
    /\ MaxSnapshots \in Nat
    /\ SharedStore \in BOOLEAN
    /\ Heeding \in BOOLEAN

VARIABLES
    configFile,     \* /etc/irroute/config.json
    dataFile,       \* the Iran CIDR list
    stateFile,      \* state.json, a State
    snapshots,      \* the backup directory in the order of its file names
    rules,          \* per priority, the tables looked up, first match first
    table,          \* per route table, its contents
    dns,            \* systemd-resolved: "system", "partial" or a config
    lock,           \* the process that holds irroute.lock
    pc,             \* per process, the engine command it gives next
    frame,          \* per process, the local variables of its handlers
    ret             \* per process, how its last command ended

disk == <<configFile, dataFile, stateFile, snapshots>>
kernel == <<rules, table, dns>>
control == <<lock, pc, frame, ret>>
vars == <<disk, kernel, control>>

-----------------------------------------------------------------------------
(* Values *)

Slot == {"A", "B"}
TableName == {"Local"} \cup Slot
RuleName == {"mainRoutes", "source", "main"}
Lookup == {"main", "foreign"} \cup TableName

\* The contents of a route table.  A whole target table was built from one
\* configuration and one CIDR list; the local table depends on neither.
Empty == [fill |-> "empty", gen |-> None]
Foreign == [fill |-> "foreign", gen |-> None]
Torn == [fill |-> "torn", gen |-> None]
WholeLocal == [fill |-> "whole", gen |-> None]
Whole(c, d) == [fill |-> "whole", gen |-> [cfg |-> c, data |-> d]]
Contents == {Empty, Foreign, Torn, WholeLocal}
                \cup {Whole(c, d) : c \in Config, d \in Data}

State == [enabled : BOOLEAN, active : Slot \cup {"none"},
          sha : Data \cup {None}, dnsManaged : BOOLEAN]
DefaultState == [enabled |-> FALSE, active |-> "none",
                 sha |-> None, dnsManaged |-> FALSE]
Snapshot == [cfg : Config, state : State, data : Data]

Operation == {"apply", "disable", "rollback"}
\* The control points of each handler.
ApplyPoint == {"apply", "persist", "check", "snapshot", "flush", "load",
               "local", "mainRoutes", "source", "unset", "set", "dns", "record"}
UndoPoint == {"undoDNS", "undoMainRoutes", "undoSource", "undoMain",
              "redoMainRoutes", "redoSource", "redoMain"}
DisablePoint == {"disable", "dSnapshot", "dMainRoutes", "dSource", "dMain",
                 "dDNS", "dFlushLocal", "dFlushA", "dFlushB", "dRecord"}
RollbackPoint == {"rollback", "rConfig", "rData", "rState"}
Point == ApplyPoint \cup UndoPoint \cup DisablePoint \cup RollbackPoint
             \cup {"idle"}

Frame == [op : Operation \cup {"none"}, snap : Nat, cfg : Config \cup {None},
          prev : State, data : Data \cup {None},
          dnsKept : BOOLEAN, problems : BOOLEAN]
NoFrame == [op |-> "none", snap |-> 0, cfg |-> None, prev |-> DefaultState,
            data |-> None, dnsKept |-> FALSE, problems |-> FALSE]
Outcome == {"none", "ok", "error", "busy", "killed"}

-----------------------------------------------------------------------------
(* Control flow *)

Faulty(kind) == kind \in Faults

Continue(p, point) ==
    /\ pc' = [pc EXCEPT ![p] = point]
    /\ UNCHANGED <<lock, frame, ret>>

Carry(p, point, f) ==
    /\ pc' = [pc EXCEPT ![p] = point]
    /\ frame' = [frame EXCEPT ![p] = f]
    /\ UNCHANGED <<lock, ret>>

\* The handler returns and its deferred lock.Release runs.
Finish(p, outcome) ==
    /\ pc' = [pc EXCEPT ![p] = "idle"]
    /\ frame' = [frame EXCEPT ![p] = NoFrame]
    /\ ret' = [ret EXCEPT ![p] = outcome]
    /\ lock' = None

-----------------------------------------------------------------------------
(* The engine's helpers *)

TargetAlwaysA(prev) == "A"                                          \* mutant

\* The table a new generation is built in.
Target(prev) == IF prev.active = "A" THEN "B" ELSE "A"

\* What a live rule looks up when it matches the saved state.
Expected(r, prev) ==
    CASE r = "mainRoutes" -> "main"
      [] r = "source" -> "Local"
      [] r = "main" -> prev.active

TablesFree == \A t \in TableName : table[t] = Empty                   \* mutant

\* First activation: nothing may occupy the priorities and the tables.
ResourcesFree ==
    /\ \A r \in RuleName : rules[r] = <<>>
    /\ \A t \in TableName : table[t] = Empty

\* A later one: a missing rule is tolerated, one for another table is not.
ManagedRulesValid(prev) ==
    \A r \in RuleName : rules[r] = <<>> \/ Expected(r, prev) \in Range(rules[r])

HostAccepts(prev) ==
    IF prev.enabled THEN ManagedRulesValid(prev) ELSE ResourcesFree

\* What deletePriority can leave of a priority's rules: it deletes them from
\* the first one on and stops, without a word, at the first command that fails.
Remaining(list) ==
    {<<>>} \cup (IF Faulty("ruleDel")
                 THEN {SubSeq(list, k, Len(list)) : k \in 1..Len(list)}
                 ELSE {})

DeletePriority(r) ==
    \E rest \in Remaining(rules[r]) : rules' = [rules EXCEPT ![r] = rest]

\* `ip rule add`: the new rule comes after those of the same priority.
AddRule(r, t) == rules' = [rules EXCEPT ![r] = Append(@, t)]

\* The kernel refuses a rule that is there already.
AddRefused(r, t) == t \in Range(rules[r]) \/ Faulty("ruleAdd")

SetTable(t, contents) == table' = [table EXCEPT ![t] = contents]

\* A flush that fails part way may have removed some of the routes.
FlushFails(t) ==
    /\ Faulty("flush")
    /\ \/ UNCHANGED table
       \/ table[t] # Empty /\ SetTable(t, Torn)

\* resolvectl revert for both links, then flush-caches; any may fail.
RevertOK == dns' = "system"
RevertFails == Faulty("dnsRevert") /\ dns' \in {dns, "partial", "system"}

SnapshotSortsFirst(c, s, d) ==                                      \* mutant
    snapshots' = <<[cfg |-> c, state |-> s, data |-> d]>> \o snapshots

\* The new snapshot's name is a timestamp, so it sorts last.
AddSnapshot(c, s, d) ==
    snapshots' = Append(snapshots, [cfg |-> c, state |-> s, data |-> d])

-----------------------------------------------------------------------------
(* Starting a command *)

Init ==
    /\ configFile \in Config
    /\ dataFile \in Data
    /\ stateFile = DefaultState
    /\ snapshots = <<>>
    /\ rules = [r \in RuleName |-> <<>>]
    /\ table = [t \in TableName |-> Empty]
    /\ dns = "system"
    /\ lock = None
    /\ pc = [p \in Proc |-> "idle"]
    /\ frame = [p \in Proc |-> NoFrame]
    /\ ret = [p \in Proc |-> "none"]

LockIgnored == TRUE                                                 \* mutant

LockFree == lock = None

\* Apply, Disable and Rollback take the lock and run the handler; Rollback's
\* argument is "latest" (0) or one of the snapshots there are.
Acquire(p, op, path) ==
    /\ pc[p] = "idle"
    /\ LockFree
    /\ Len(snapshots) < MaxSnapshots
    /\ lock' = p
    /\ pc' = [pc EXCEPT ![p] = op]
    /\ frame' = [frame EXCEPT ![p].op = op, ![p].snap = path]
    /\ ret' = [ret EXCEPT ![p] = "none"]
    /\ UNCHANGED <<disk, kernel>>

\* An operator who was told of DNS that could not be set or reverted repeats the
\* enable or the disable, instead of going on to a rollback.
MovesOn == Heeding => stateFile.enabled \/ ~stateFile.dnsManaged

Start(p) ==
    \/ Acquire(p, "apply", 0)
    \/ Acquire(p, "disable", 0)
    \/ MovesOn /\ \E path \in 0..Len(snapshots) : Acquire(p, "rollback", path)

\* The lock is not waited for.
Reject(p) ==
    /\ pc[p] = "idle"
    /\ ~LockFree
    /\ ret' = [ret EXCEPT ![p] = "busy"]
    /\ UNCHANGED <<disk, kernel, lock, pc, frame>>

\* A read-only check, a load or a show command fails: the handler returns.
ReadError(p, point) ==
    /\ pc[p] = point
    /\ Faulty("read")
    /\ Finish(p, "error")
    /\ UNCHANGED <<disk, kernel>>

\* A store write fails and the handler returns.
SaveError(p, point) ==
    /\ pc[p] = point
    /\ Faulty("save")
    /\ Finish(p, "error")
    /\ UNCHANGED <<disk, kernel>>

\* requireHostAccess and load, then on to the next point.
LoadInputs(p, from, to) ==
    \/ ReadError(p, from)
    \/ /\ pc[p] = from
       /\ Carry(p, to, [frame[p] EXCEPT !.cfg = configFile,
                                        !.prev = stateFile,
                                        !.data = dataFile])
       /\ UNCHANGED <<disk, kernel>>

WriteSnapshot(p, from, to) ==
    \/ SaveError(p, from)
    \/ /\ pc[p] = from
       /\ AddSnapshot(frame[p].cfg, frame[p].prev, frame[p].data)
       /\ Continue(p, to)
       /\ UNCHANGED <<configFile, dataFile, stateFile, kernel>>

-----------------------------------------------------------------------------
(* apply *)

PersistConfig(p) ==
    \/ SaveError(p, "persist")
    \/ /\ pc[p] = "persist"
       /\ configFile' = frame[p].cfg
       /\ Continue(p, "check")
       /\ UNCHANGED <<dataFile, stateFile, snapshots, kernel>>

\* preflightNetwork and the comparison of the live rules with the state.
CheckHost(p) ==
    \/ ReadError(p, "check")
    \/ /\ pc[p] = "check"
       /\ IF HostAccepts(frame[p].prev) THEN Continue(p, "snapshot")
                                        ELSE Finish(p, "error")
       /\ UNCHANGED <<disk, kernel>>

FlushTarget(p) ==
    /\ pc[p] = "flush"
    /\ \/ SetTable(Target(frame[p].prev), Empty) /\ Continue(p, "load")
       \/ FlushFails(Target(frame[p].prev)) /\ Finish(p, "error")
    /\ UNCHANGED <<disk, rules, dns>>

LoadTargetUnchecked(p) ==                                           \* mutant
    /\ pc[p] = "load"
    /\ LET t == Target(frame[p].prev) IN
       \/ SetTable(t, Whole(frame[p].cfg, frame[p].data))
       \/ Faulty("load") /\ SetTable(t, Torn)
    /\ Continue(p, "local")
    /\ UNCHANGED <<disk, rules, dns>>

\* `ip -batch` stops at the first line that fails.
LoadTarget(p) ==
    /\ pc[p] = "load"
    /\ LET t == Target(frame[p].prev) IN
       \/ /\ SetTable(t, Whole(frame[p].cfg, frame[p].data))
          /\ Continue(p, "local")
       \/ Faulty("load") /\ SetTable(t, Torn) /\ Finish(p, "error")
    /\ UNCHANGED <<disk, rules, dns>>

LoadLocalFlushing(p) ==                                             \* mutant
    /\ pc[p] = "local"
    /\ \/ SetTable("Local", WholeLocal) /\ Continue(p, "mainRoutes")
       \/ Faulty("load") /\ SetTable("Local", Torn) /\ Finish(p, "error")
    /\ UNCHANGED <<disk, rules, dns>>

\* The local routes are replaced in place: a failure does not empty the table.
LoadLocal(p) ==
    /\ pc[p] = "local"
    /\ \/ SetTable("Local", WholeLocal) /\ Continue(p, "mainRoutes")
       \/ /\ Faulty("load")
          /\ IF table["Local"] = WholeLocal THEN UNCHANGED table
                                            ELSE SetTable("Local", Torn)
          /\ Finish(p, "error")
    /\ UNCHANGED <<disk, rules, dns>>

\* switchRules: a rule that is missing is added, any that is there is kept.
EnsureRule(p, from, r, t, to) ==
    /\ pc[p] = from
    /\ \/ rules[r] # <<>> /\ UNCHANGED rules /\ Continue(p, to)
       \/ rules[r] = <<>> /\ AddRule(r, t) /\ Continue(p, to)
       \/ /\ Faulty("read") \/ (rules[r] = <<>> /\ Faulty("ruleAdd"))
          /\ UNCHANGED rules
          /\ Continue(p, "undoMainRoutes")
    /\ UNCHANGED <<disk, table, dns>>

UnsetMainSkipped(p) ==                                              \* mutant
    /\ pc[p] = "unset"
    /\ Continue(p, "set")
    /\ UNCHANGED <<disk, kernel>>

\* switchRules: the old main rules go, whatever they look up ...
UnsetMain(p) ==
    /\ pc[p] = "unset"
    /\ DeletePriority("main")
    /\ Continue(p, "set")
    /\ UNCHANGED <<disk, table, dns>>

\* ... and a rule for the new table comes.
SetMain(p) ==
    /\ pc[p] = "set"
    /\ LET t == Target(frame[p].prev) IN
       \/ /\ t \notin Range(rules["main"])
          /\ AddRule("main", t)
          /\ Continue(p, "dns")
       \/ AddRefused("main", t) /\ UNCHANGED rules /\ Continue(p, "undoMainRoutes")
    /\ UNCHANGED <<disk, table, dns>>

\* configureDNS.  On failure DNS that irroute did not manage before is
\* reverted; DNS that it did manage stays as the failed command left it.
ConfigureDNS(p) ==
    /\ pc[p] = "dns"
    /\ LET c == frame[p].cfg
           wasManaged == frame[p].prev.dnsManaged
       IN
       \/ c \in Managed /\ dns' = c /\ Continue(p, "record")
       \/ c \notin Managed /\ wasManaged /\ RevertOK /\ Continue(p, "record")
       \/ c \notin Managed /\ ~wasManaged /\ UNCHANGED dns /\ Continue(p, "record")
       \/ /\ c \notin Managed /\ wasManaged
          /\ RevertFails
          /\ Continue(p, "undoMainRoutes")
       \/ /\ c \in Managed /\ Faulty("dnsSet")
          /\ dns' \in {dns, "partial", c}
          /\ Continue(p, IF wasManaged THEN "undoMainRoutes" ELSE "undoDNS")
    /\ UNCHANGED <<disk, rules, table>>

AppliedOldDigest(f) ==                                              \* mutant
    [f.prev EXCEPT !.enabled = TRUE, !.active = Target(f.prev),
                   !.dnsManaged = f.cfg \in Managed]

\* The state that apply records.
Applied(f) ==
    [f.prev EXCEPT !.enabled = TRUE, !.active = Target(f.prev),
                   !.sha = f.data, !.dnsManaged = f.cfg \in Managed]

RecordApplyKeepDNS(p) ==                                            \* mutant
    /\ pc[p] = "record"
    /\ \/ stateFile' = Applied(frame[p]) /\ Finish(p, "ok")
       \/ /\ Faulty("save")
          /\ UNCHANGED stateFile
          /\ Continue(p, "undoMainRoutes")
    /\ UNCHANGED <<configFile, dataFile, snapshots, kernel>>

RecordApply(p) ==
    /\ pc[p] = "record"
    /\ \/ stateFile' = Applied(frame[p]) /\ Finish(p, "ok")
       \/ /\ Faulty("save")
          /\ UNCHANGED stateFile
          /\ Continue(p, IF frame[p].prev.dnsManaged THEN "undoMainRoutes"
                                                     ELSE "undoDNS")
    /\ UNCHANGED <<configFile, dataFile, snapshots, kernel>>

\* restoreSystemDNS on the way out of a failed apply: its errors are ignored.
UndoDNS(p) ==
    /\ pc[p] = "undoDNS"
    /\ RevertOK \/ RevertFails
    /\ Continue(p, "undoMainRoutes")
    /\ UNCHANGED <<disk, rules, table>>

-----------------------------------------------------------------------------
(* restoreRules *)

ClearRule(p, from, r, to) ==
    /\ pc[p] = from
    /\ DeletePriority(r)
    /\ Continue(p, to)
    /\ UNCHANGED <<disk, table, dns>>

\* Only rules of a recorded generation are put back.
Restorable(prev) == prev.enabled /\ prev.active # "none"

UndoMain(p) ==
    /\ pc[p] = "undoMain"
    /\ DeletePriority("main")
    /\ IF Restorable(frame[p].prev) THEN Continue(p, "redoMainRoutes")
                                    ELSE Finish(p, "error")
    /\ UNCHANGED <<disk, table, dns>>

\* `ip rule add`, its error ignored.
TryAddRule(r, t) ==
    \/ t \notin Range(rules[r]) /\ AddRule(r, t)
    \/ AddRefused(r, t) /\ UNCHANGED rules

RestoreRuleSkipped(p, from, r, to) ==                               \* mutant
    /\ pc[p] = from
    /\ Continue(p, to)
    /\ UNCHANGED <<disk, kernel>>

RestoreRule(p, from, r, to) ==
    /\ pc[p] = from
    /\ TryAddRule(r, Expected(r, frame[p].prev))
    /\ Continue(p, to)
    /\ UNCHANGED <<disk, table, dns>>

RestoreMain(p) ==
    /\ pc[p] = "redoMain"
    /\ TryAddRule("main", Expected("main", frame[p].prev))
    /\ Finish(p, "error")
    /\ UNCHANGED <<disk, table, dns>>

-----------------------------------------------------------------------------
(* disable *)

\* Rules are deleted only when the state says that they are there.
DisableSnapshot(p) ==
    WriteSnapshot(p, "dSnapshot",
                  IF frame[p].prev.enabled THEN "dMainRoutes" ELSE "dDNS")

DisableDNS(p) ==
    /\ pc[p] = "dDNS"
    /\ \/ /\ ~frame[p].prev.dnsManaged
          /\ UNCHANGED dns
          /\ Continue(p, "dFlushLocal")
       \/ /\ frame[p].prev.dnsManaged
          /\ RevertOK
          /\ Continue(p, "dFlushLocal")
       \/ /\ frame[p].prev.dnsManaged
          /\ RevertFails
          /\ Carry(p, "dFlushLocal", [frame[p] EXCEPT !.dnsKept = TRUE,
                                                      !.problems = TRUE])
    /\ UNCHANGED <<disk, rules, table>>

DisableFlushQuiet(p, from, t, to) ==                                \* mutant
    /\ pc[p] = from
    /\ SetTable(t, Empty) \/ FlushFails(t)
    /\ Continue(p, to)
    /\ UNCHANGED <<disk, rules, dns>>

\* A flush that fails is noted, and the handler goes on.
DisableFlush(p, from, t, to) ==
    /\ pc[p] = from
    /\ \/ SetTable(t, Empty) /\ Continue(p, to)
       \/ /\ FlushFails(t)
          /\ Carry(p, to, [frame[p] EXCEPT !.problems = TRUE])
    /\ UNCHANGED <<disk, rules, dns>>

\* The state that disable records.
Disabled(f) ==
    [f.prev EXCEPT !.enabled = FALSE, !.active = "none", !.dnsManaged = f.dnsKept]

\* Cleanup problems are an error, but only after the state was saved.
RecordDisable(p) ==
    \/ SaveError(p, "dRecord")
    \/ /\ pc[p] = "dRecord"
       /\ stateFile' = Disabled(frame[p])
       /\ CASE frame[p].problems -> Finish(p, "error")
            [] ~frame[p].problems /\ frame[p].op = "rollback" ->
                 Continue(p, "rConfig")
            [] ~frame[p].problems /\ frame[p].op # "rollback" -> Finish(p, "ok")
       /\ UNCHANGED <<configFile, dataFile, snapshots, kernel>>

-----------------------------------------------------------------------------
(* rollback *)

ChosenSecondLast(path) == IF path = 0 THEN Len(snapshots) - 1 ELSE path   \* mutant

\* "latest" is the snapshot whose name sorts last.
Chosen(path) == IF path = 0 THEN Len(snapshots) ELSE path

LoadSnapshot(p) ==
    \/ ReadError(p, "rollback")
    \/ /\ pc[p] = "rollback"
       /\ snapshots = <<>>
       /\ Finish(p, "error")
       /\ UNCHANGED <<disk, kernel>>
    \/ /\ pc[p] = "rollback"
       /\ snapshots # <<>>
       /\ Carry(p, IF stateFile.enabled THEN "disable" ELSE "rConfig",
                [frame[p] EXCEPT !.snap = Chosen(@)])
       /\ UNCHANGED <<disk, kernel>>

RestoreConfigOnly(p) ==                                             \* mutant
    \/ SaveError(p, "rConfig")
    \/ /\ pc[p] = "rConfig"
       /\ configFile' = snapshots[frame[p].snap].cfg
       /\ Continue(p, "rState")
       /\ UNCHANGED <<dataFile, stateFile, snapshots, kernel>>

RestoreConfig(p) ==
    \/ SaveError(p, "rConfig")
    \/ /\ pc[p] = "rConfig"
       /\ configFile' = snapshots[frame[p].snap].cfg
       /\ Continue(p, "rData")
       /\ UNCHANGED <<dataFile, stateFile, snapshots, kernel>>

RestoreData(p) ==
    \/ SaveError(p, "rData")
    \/ /\ pc[p] = "rData"
       /\ dataFile' = snapshots[frame[p].snap].data
       /\ Continue(p, "rState")
       /\ UNCHANGED <<configFile, stateFile, snapshots, kernel>>

\* The snapshot's state, disabled: apply activates it if it was enabled.
Restored(s) == [s EXCEPT !.enabled = FALSE, !.active = "none"]

RestoreState(p) ==
    \/ SaveError(p, "rState")
    \/ LET s == snapshots[frame[p].snap].state IN
       /\ pc[p] = "rState"
       /\ stateFile' = Restored(s)
       /\ IF s.enabled THEN Continue(p, "apply") ELSE Finish(p, "ok")
       /\ UNCHANGED <<configFile, dataFile, snapshots, kernel>>

-----------------------------------------------------------------------------
(* The environment *)

\* The table that the command in progress writes to.
Writing(p) ==
    CASE pc[p] \in {"flush", "load"} -> {Target(frame[p].prev)}
      [] pc[p] \in {"local", "dFlushLocal"} -> {"Local"}
      [] pc[p] = "dFlushA" -> {"A"}
      [] pc[p] = "dFlushB" -> {"B"}
      [] OTHER -> {}

MayTear(p, t) ==
    CASE pc[p] = "load" -> TRUE
      [] pc[p] = "local" -> table[t] # WholeLocal
      [] OTHER -> table[t] # Empty

\* The priority that the command in progress deletes the rules of.
Deleting(p) ==
    CASE pc[p] \in {"undoMainRoutes", "dMainRoutes"} -> {"mainRoutes"}
      [] pc[p] \in {"undoSource", "dSource"} -> {"source"}
      [] pc[p] \in {"unset", "undoMain", "dMain"} -> {"main"}
      [] OTHER -> {}

\* The process is killed, between two commands or during one; the kernel
\* keeps what was done and lets go of the lock.
Crash(p) ==
    /\ Faulty("crash")
    /\ pc[p] # "idle"
    /\ Finish(p, "killed")
    /\ \/ UNCHANGED table
       \/ \E t \in Writing(p) : MayTear(p, t) /\ SetTable(t, Torn)
    /\ \/ UNCHANGED dns
       \/ pc[p] \in {"dns", "undoDNS", "dDNS"} /\ dns' = "partial"
    /\ \/ UNCHANGED rules
       \/ \E r \in Deleting(p) : \E k \in 2..Len(rules[r]) :
             rules' = [rules EXCEPT ![r] = SubSeq(@, k, Len(@))]
    /\ UNCHANGED disk

\* Rules, routes and per-link DNS are lost; another program's come back.
Reboot ==
    /\ Faulty("reboot")
    /\ rules' = [r \in RuleName |-> IF "foreign" \in Range(rules[r])
                                    THEN <<"foreign">> ELSE <<>>]
    /\ table' = [t \in TableName |-> IF table[t] = Foreign THEN Foreign ELSE Empty]
    /\ dns' = "system"
    /\ lock' = None
    /\ pc' = [p \in Proc |-> "idle"]
    /\ frame' = [p \in Proc |-> NoFrame]
    /\ ret' = [p \in Proc |-> IF pc[p] = "idle" THEN ret[p] ELSE "killed"]
    /\ UNCHANGED disk

\* Another program adds a rule at one of the priorities or routes to an empty
\* reserved table, between two commands, or ("race") during one.
Intrude ==
    /\ Faulty("intruder")
    /\ LockFree \/ Faulty("race")
    /\ \/ \E r \in RuleName :
             "foreign" \notin Range(rules[r]) /\ AddRule(r, "foreign") /\ UNCHANGED table
       \/ \E t \in TableName :
             table[t] = Empty /\ SetTable(t, Foreign) /\ UNCHANGED rules
    /\ UNCHANGED <<disk, dns, control>>

\* The config and data files are written without the lock.  (Of state.json the
\* application rewrites only what no action here reads; that it may write back
\* an old one is left to module Confirm.)
SaveConfig(c) ==
    /\ LockFree \/ SharedStore
    /\ configFile' = c
    /\ UNCHANGED <<dataFile, stateFile, snapshots, kernel, control>>

ImportData(d) ==
    /\ LockFree \/ SharedStore
    /\ dataFile' = d
    /\ UNCHANGED <<configFile, stateFile, snapshots, kernel, control>>

\* With MaxSnapshots snapshots no further command starts: the model rests.
Exhausted ==
    /\ LockFree
    /\ Len(snapshots) >= MaxSnapshots
    /\ UNCHANGED vars

-----------------------------------------------------------------------------

ApplyStep(p) ==
    \/ LoadInputs(p, "apply", "persist")
    \/ PersistConfig(p)
    \/ CheckHost(p)
    \/ WriteSnapshot(p, "snapshot", "flush")
    \/ FlushTarget(p)
    \/ LoadTarget(p)
    \/ LoadLocal(p)
    \/ EnsureRule(p, "mainRoutes", "mainRoutes", "main", "source")
    \/ EnsureRule(p, "source", "source", "Local", "unset")
    \/ UnsetMain(p)
    \/ SetMain(p)
    \/ ConfigureDNS(p)
    \/ RecordApply(p)

UndoStep(p) ==
    \/ UndoDNS(p)
    \/ ClearRule(p, "undoMainRoutes", "mainRoutes", "undoSource")
    \/ ClearRule(p, "undoSource", "source", "undoMain")
    \/ UndoMain(p)
    \/ RestoreRule(p, "redoMainRoutes", "mainRoutes", "redoSource")
    \/ RestoreRule(p, "redoSource", "source", "redoMain")
    \/ RestoreMain(p)

DisableStep(p) ==
    \/ LoadInputs(p, "disable", "dSnapshot")
    \/ DisableSnapshot(p)
    \/ ClearRule(p, "dMainRoutes", "mainRoutes", "dSource")
    \/ ClearRule(p, "dSource", "source", "dMain")
    \/ ClearRule(p, "dMain", "main", "dDNS")
    \/ DisableDNS(p)
    \/ DisableFlush(p, "dFlushLocal", "Local", "dFlushA")
    \/ DisableFlush(p, "dFlushA", "A", "dFlushB")
    \/ DisableFlush(p, "dFlushB", "B", "dRecord")
    \/ RecordDisable(p)

RollbackStep(p) ==
    \/ LoadSnapshot(p)
    \/ RestoreConfig(p)
    \/ RestoreData(p)
    \/ RestoreState(p)

EngineStep(p) ==
    \/ ApplyStep(p)
    \/ UndoStep(p)
    \/ DisableStep(p)
    \/ RollbackStep(p)

Next ==
    \/ \E p \in Proc : Start(p) \/ Reject(p) \/ EngineStep(p) \/ Crash(p)
    \/ \E c \in Config : SaveConfig(c)
    \/ \E d \in Data : ImportData(d)
    \/ Reboot
    \/ Intrude
    \/ Exhausted

Spec == Init /\ [][Next]_vars

-----------------------------------------------------------------------------
(* Properties *)

\* Every variable has its type; a handler that has read its inputs holds a
\* configuration and a CIDR list; rules are put back only with a recorded slot;
\* a rollback that has chosen its snapshot holds one that is there, through the
\* disable and the apply it calls.
DiskTypeOK ==
    /\ configFile \in Config
    /\ dataFile \in Data
    /\ stateFile \in State
    /\ snapshots \in Seq(Snapshot)

KernelTypeOK ==
    /\ rules \in [RuleName -> Seq(Lookup)]
    /\ table \in [TableName -> Contents]
    /\ dns \in {"system", "partial"} \cup Config

ControlTypeOK ==
    /\ lock \in Proc \cup {None}
    /\ pc \in [Proc -> Point]
    /\ frame \in [Proc -> Frame]
    /\ ret \in [Proc -> Outcome]

LoadedPoint == (ApplyPoint \cup UndoPoint \cup DisablePoint) \ {"apply", "disable"}
RestorePoint == RollbackPoint \ {"rollback"}
RedoPoint == {"redoMainRoutes", "redoSource", "redoMain"}

HandlerOK(p) ==
    /\ pc[p] \in LoadedPoint => frame[p].cfg \in Config /\ frame[p].data \in Data
    /\ pc[p] \in RedoPoint => Restorable(frame[p].prev)
    /\ pc[p] \in RestorePoint => frame[p].op = "rollback"
    /\ pc[p] = "rollback" => /\ frame[p].op = "rollback"
                             /\ frame[p].snap \in 0..Len(snapshots)
    /\ frame[p].op = "rollback" /\ pc[p] # "rollback"
          => frame[p].snap \in 1..Len(snapshots)

TypeOK ==
    /\ DiskTypeOK
    /\ KernelTypeOK
    /\ ControlTypeOK
    /\ \A p \in Proc : HandlerOK(p)

\* The slots the main policy rules look up.
LiveSlot == Slot \cap Range(rules["main"])

\* Traffic follows the main policy rule.
PolicyLive == rules["main"] # <<>> /\ rules["main"] # <<"foreign">>

\* A table that live traffic is routed by is never rebuilt in place: while a
\* main rule looks a slot up, no step changes the slot, except that disable may
\* flush it and another program add to it (README.md:23, the A/B choice of Build
\* and the switch).
LiveTableUntouched ==
    \A s \in LiveSlot \cap LiveSlot' :
        \/ table'[s] = table[s]
        \/ \E p \in Proc : pc[p] \in {"dFlushA", "dFlushB"}
        \/ table'[s] = Foreign
NoLiveTableRebuilt == [][LiveTableUntouched]_vars

\* Live traffic never meets a half-loaded table, whatever fails: apply switches
\* to a table only after its batch went through, and restoreRules goes back to
\* one that did (or that a reboot emptied, which falls through to main).
PolicyWhole == \A s \in LiveSlot : table[s] # Torn

\* Replies from the public local address never lose their table: it is replaced
\* in place while the source rule looks it up, and flushed only after that rule
\* is gone (docs/architecture.md:40).
ReplyPathWhole ==
    "Local" \in Range(rules["source"]) => table["Local"] = WholeLocal

\* Between commands the kernel agrees with state.json: the main rule in force,
\* if any, is for the recorded table of an enabled state, and that table holds
\* the CIDR list whose digest the state has (unless a reboot emptied it).
RecordedGeneration(s) ==
    /\ stateFile.enabled
    /\ s = stateFile.active
    /\ \/ Faulty("reboot") /\ table[s] \in {Empty, Foreign}
       \/ \E c \in Config : table[s] = Whole(c, stateFile.sha)
LiveMatchesRecord == LockFree => \A s \in LiveSlot : RecordedGeneration(s)

\* Between commands a policy that is in force has all three of its rules: main
\* never stays without the source rule and the main-routes rule that protect
\* replies and connected networks (README.md:21-22).
GuardedPolicy ==
    LockFree /\ LiveSlot # {} =>
        "main" \in Range(rules["mainRoutes"]) /\ "Local" \in Range(rules["source"])

\* Between commands DNS that irroute configured is on record as managed, so
\* that a later disable knows to revert it.
NoOrphanDNS == LockFree /\ dns # "system" => stateFile.dnsManaged

\* From the first route it touches on, an apply or disable leaves as the newest
\* snapshot exactly what is on disk: a "latest" rollback after a crash or an
\* error part way returns to the configuration, data and state it began from.
Mutating == {"flush", "load", "local", "mainRoutes", "source", "unset", "set",
             "dns", "record", "dMainRoutes", "dSource", "dMain", "dDNS",
             "dFlushLocal", "dFlushA", "dFlushB", "dRecord"} \cup UndoPoint
SafetyPoint ==
    \A p \in Proc : pc[p] \in Mutating =>
        /\ snapshots # <<>>
        /\ snapshots[Len(snapshots)] =
               [cfg |-> configFile, state |-> stateFile, data |-> dataFile]

\* At most one handler runs, and it is the lock's: no apply, disable or rollback
\* ever races another (docs/architecture.md:70).
OneHandler == \A p \in Proc : pc[p] # "idle" => lock = p

\* What another program has put at irroute's priorities, at any time but during a
\* command, is deleted only by a command that has found state.json enabled: by a
\* disable, or by an apply together with irroute's own rule of that priority.  In
\* the reserved tables it is removed by these and by every disable.  So a first
\* activation and its undoing, a kill part way and a reboot leave it
\* (README.md:27, engine.go:67, engine.go:73, engine.go:569).
Owned(p, r) ==
    /\ frame[p].prev.enabled
    /\ \/ pc[p] \in {"dMainRoutes", "dSource", "dMain"}
       \/ Expected(r, frame[p].prev) \in Range(rules[r])
MayFlush(p) ==
    \/ pc[p] \in {"dFlushLocal", "dFlushA", "dFlushB"}
    \/ pc[p] # "idle" /\ frame[p].prev.enabled
ForeignKept ==
    /\ \A r \in RuleName :
          "foreign" \in Range(rules[r]) =>
              \/ "foreign" \in Range(rules'[r])
              \/ \E p \in Proc : pc[p] # "idle" /\ Owned(p, r)
    /\ \A t \in TableName :
          table[t] = Foreign =>
              \/ table'[t] = Foreign
              \/ \E p \in Proc : MayFlush(p)
NoForeignLoss == [][ForeignKept]_vars

\* A rollback that reports success has restored its snapshot: files, state and,
\* when the snapshot was of an enabled system, a live table built from them,
\* and DNS is the snapshot configuration's or the network's own (README.md:157).
RestoredFrom(s) ==
    /\ configFile' = s.cfg
    /\ dataFile' = s.data
    /\ stateFile'.enabled = s.state.enabled
    /\ dns' = IF s.state.enabled /\ s.cfg \in Managed THEN s.cfg ELSE "system"
    /\ IF s.state.enabled
       THEN \E slot \in Slot : /\ LiveSlot' = {slot}
                               /\ table'[slot] = Whole(s.cfg, s.data)
       ELSE LiveSlot' = {}
RollbackSucceeds(p) ==
    /\ pc[p] # "idle"
    /\ frame[p].op = "rollback"
    /\ ret'[p] = "ok"
RollbackRestores ==
    [][\A p \in Proc : RollbackSucceeds(p) =>
           RestoredFrom(snapshots[frame[p].snap])]_vars

\* A disable that reports success leaves none of irroute's rules and routes.
ManagedGone ==
    /\ \A r \in RuleName : Range(rules[r]) \subseteq {"foreign"}
    /\ \A t \in TableName : table[t] = Empty
DisableSucceeds(p) ==
    /\ pc[p] # "idle"
    /\ frame[p].op = "disable"
    /\ ret'[p] = "ok"
DisableCleans ==
    [][\A p \in Proc : DisableSucceeds(p) => ManagedGone']_vars

-----------------------------------------------------------------------------
(* The engine implements the double buffer. *)

\* What each slot holds of irroute's, the slot that traffic follows, if any, and
\* the slot on record.
Held == [s \in Slot |-> IF table[s] = Foreign THEN Empty ELSE table[s]]
Followed == IF LiveSlot = {} THEN "off" ELSE CHOOSE s \in LiveSlot : TRUE
Recorded == IF stateFile.enabled THEN stateFile.active ELSE "off"

Buffer == INSTANCE DoubleBuffer WITH
    Generation <- {Whole(c, d) : c \in Config, d \in Data},
    Blank <- Empty,
    Broken <- Torn,
    Off <- "off",
    content <- Held,
    selected <- Followed,
    recorded <- Recorded

\* Whatever command fails and whenever the host reboots, apply, disable and
\* rollback keep the promise of the A/B tables: they build only in a slot that
\* is neither live nor recorded, switch only to a complete one, and record only
\* what is live (README.md:23, docs/architecture.md:34).
ImplementsDoubleBuffer == Buffer!Spec

=============================================================================
