# A verification of irroute

irroute sends the host's traffic to Iranian destinations through a *local*
interface and all other traffic through an *international* one. It does so with
three policy rules, a small table for replies and two large tables, A and B, one
of which is live while the next generation is built in the other. This directory
holds TLA+ models of that machinery, the TLC runs that check them and proofs
that TLAPS checks. All line numbers are lines of the files under `src/`.

## The system

| component | state | operations | talks to |
| --- | --- | --- | --- |
| engine (`internal/engine`) | none of its own: the kernel's rules and tables, per-link DNS, and the store's files | `Apply`, `Disable`, `Rollback`; read-only `Plan`, `Doctor`, `Status` | kernel and resolver through `Runner`, the store |
| store (`internal/store`) | `config.json`, the CIDR list, `state.json`, the backup directory, `irroute.lock` | load and save of each, `WriteSnapshot`, `LoadSnapshot`, `AcquireLock` | file system |
| routing plan (`internal/routing/plan.go`) | none | `Build`, the batches | prefix arithmetic, configuration rules |
| prefix arithmetic (`internal/routing/prefixes.go`) | none | `Normalize`, `SubtractAll`, `ParseIPv4Prefix` | |
| application (`internal/app`) | a timer unit of systemd per unconfirmed change, the boot unit's enablement | the commands and the menu; `saveAndMaybeApply`, `importData`, the confirmation protocol | engine, store, systemd |
| configuration rules (`internal/config`) | none | `Validate` | |
| data model (`internal/model`) | none | `DefaultConfig`, `NormalizeConfig` | |
| host interface (`internal/system`) | none | `Runner`, `InterfaceExists`, `InterfaceHasAddress`, discovery | `ip`, `sysctl`, `resolvectl` |
| packaging, scripts | none while irroute runs | installers, a oneshot boot unit that runs `irroute apply --boot` | |

Several irroute processes exist at once: administrators at terminals, a rollback
timer, the boot unit. They share the files, the kernel and the lock, and nothing
else. Apply, Disable and Rollback hold the lock from start to end and a second
one is rejected, not queued (`store.go:80`). The application reads and writes the
configuration and the CIDR list *without* the lock (`app.go:274`, `app.go:571`,
`app.go:618`).

What is hard:

* **Partial failure.** A handler is a list of fifteen to twenty external
  commands, each of which may fail with part of its effect, over state that
  outlives the process. Some errors abort, some undo, some are collected and some
  are dropped (`deletePriority`, `restoreRules`).
* **Crashes.** A lost SSH session kills the process between any two commands; the
  kernel keeps what was done, `state.json` knows nothing of it. A reboot loses
  the kernel's part and keeps the files.
* **Two records of one truth.** Which table is live is in the kernel's rule and in
  `state.json`; which DNS is set is in systemd-resolved and in `dns_managed`. The
  next command trusts the files.
* **Files and power.** The store replaces files by renaming a new one over them;
  a process may be killed at any step of that, and a power loss takes whatever was
  not flushed.
* **Configurations outlive what they made.** Rules and DNS settings are taken down
  by what `config.json` says at that time, not by what it said when they were made;
  setup, rollback and an upgrade change it in between.
* **Shared files and timers.** Files change under a running handler; a timer of an
  earlier change may fire during or after a later one.

What makes each component correct:

* engine: a live table is never rebuilt in place and never half loaded; replies
  from the public address keep their table; kernel and record agree between
  commands; DNS that was set is on record; the newest snapshot is the state
  before the change; success of disable and rollback means what it says; another
  program's rules and routes go only with irroute's own; the lock comes free.
* store: mutual exclusion of handlers; a file is replaced as a whole or not at all,
  whoever reads it and whenever the power fails; "latest" is the newest snapshot.
* configuration rules, data model and the wizard: whatever a configuration made,
  the configuration of the day can take down; rules come before the system's own;
  traffic leaves by the devices that were chosen.
* routing plan and prefixes: each address leaves where the lists say, and the
  batch has no destination twice.
* application: a change that is not confirmed is undone, one that is confirmed
  stays, a change that failed leaves the old files.

`PROJECT.json` lists the hazards at their lines.

## Modules

| module | what it is |
| --- | --- |
| `Engine` | apply, disable and rollback, one action per external command, over the store's files and the kernel |
| `DoubleBuffer` | what the A/B tables promise, abstractly |
| `MCEngine` | symmetry for TLC |
| `EngineClaims` | sentences of the documentation that the engine does not live up to |
| `EngineProofs` | `Spec => []TypeOK`; one handler at a time; no live table is rebuilt |
| `EngineRecordProofs` | rules, tables, DNS and files agree with the record; the double buffer is implemented |
| `Confirm` | the application's commands, the confirmation prompt, the timers and the boot unit |
| `MCConfirm` | symmetry for TLC |
| `ConfirmClaims` | sentences of the documentation that the application does not live up to |
| `ConfirmProofs` | `Spec => []TypeOK` |
| `ConfirmGuardProofs` | an activation keeps its timer until it is confirmed, with any number of operators |
| `ConfirmSoloProofs` | one operator: what is confirmed stays, what is not is undone to what it replaced |
| `Store` | loads, saves and snapshots, `writeFileAtomic` step by step over inodes and directory entries |
| `AtomicFiles` | what the store promises of its files, abstractly |
| `MCStore` | symmetry and view for TLC |
| `StoreProofs` | the store keeps its promise |
| `Setup` | the links, priorities and DNS mode of configurations: the wizard, migration, upgrades, renamed interfaces |
| `MCSetup` | symmetry for TLC |
| `SetupProofs` | what one configuration made, the configuration of the day takes down |
| `RoutePlan` | prefix arithmetic, the routes of a generation and the commands that edit the lists |
| `MCRoutePlan` | eight addresses, four CIDR files |
| `RoutePlanProofs` | what the prefix arithmetic returns; each address leaves where the lists say |

Operators marked `mutant` are wrong on purpose: each is a plausible bug put in
place of the definition after it to see that a property notices. They are not
part of the models.

### Engine

| model | code |
| --- | --- |
| `configFile`, `dataFile`, `stateFile`, `snapshots` | the store's files; a snapshot's name is a timestamp, so the sequence is the directory in name order (`store.go:219`, `242`) |
| `rules[r]` | the rules at a priority, in the order in which the kernel looks them up |
| `table[t]` | `Empty`, `Foreign`, `Torn` (part of a batch or of a flush), `WholeLocal`, or `Whole(c, d)`: built from configuration `c` and list `d` |
| `dns` | `"system"`, the configuration that set it, or `"partial"` |
| `lock` | the holder of `irroute.lock` |
| `pc[p]`, `frame[p]` | where the handler of process `p` is, and its locals: `cfg`, `previous`, `cidrs`, the snapshot, `dnsRestored`, `cleanupProblems` |
| `ret[p]` | how the last command ended |

Each control point is one external effect: a file written, a command given. The
action of a point has a disjunct for success and one for each way the effect can
fail, and goes where the code goes: return, undo (`restoreRules`, with its own
points, since it too can be interrupted) or carry on with the problem noted.
`rollback` runs on into the points of `disable` and of `apply` under the same
lock, as the calls do. `Crash` ends a process between or during commands, also between
two `ip rule del` of one
`deletePriority` (`Deleting`), `Reboot` ends all and leaves of the kernel's part
only what other programs put back, `SaveConfig` and `ImportData` are the
application's writes. `Intrude` is another program: with the fault `"intruder"` it
adds a rule at one of irroute's priorities, or routes to a table of irroute's that
is empty, at any time between commands; with `"race"` also while one runs. The
constant `Faults` says which kinds of effect may fail and which of these may happen;
`Heeding` says that nobody rolls back while a failed command has left DNS set on a
system that is recorded as disabled (`MovesOn`), but repeats the enable or the
disable, as the error that was reported asks for.

Abstractions, each a choice to know about:

* All configurations have the same links, tables and priorities: setup refuses to
  change them while irroute is enabled (`app.go:181`). `Setup` is about the others.
* `Generation`, `LastAppliedAt`, `LastSnapshot` and reasons are left out: nothing
  branches on them. The digest of the list is the list.
* A write of a file happens or fails, and the latest snapshot is the newest: what
  `Store` shows of `writeFileAtomic` and `LoadSnapshot`.
* `deletePriority` tries sixteen times; a priority never has more than two or
  three rules in the model.
* Another program adds one rule per priority, and routes only to a table that is
  empty; it takes nothing away, and a reboot brings back what it had added.
* Of the application's three writes without the lock two are here. The third, of
  `state.json` (`SaveState` at `app.go:602` and in setup), writes back fields that no
  action reads, unless it is overtaken by an engine command; that case is
  `Confirm`'s (`ClaimDisableRace`), and the theorems below do not cover it.
* A killed irroute's child may go on for a moment; the model lets the interrupted
  command's effect be partial, but not later than the kill.

### Confirm

| model | code |
| --- | --- |
| `configFile`, `dataFile`, `enabled`, `newest` | the store's files; of `state.json` only what the application branches on, of the backups only the newest |
| `live` | the files that the generation in force was built from |
| `lock` | the session or timer whose engine operation runs |
| `units[u]` | a transient timer of `systemd-run`: pending, its rollback running, lost to the lock, or gone; with the snapshot in its command line |
| `persistent`, `booting` | `irroute.service` is enabled; has yet to run after a boot |
| `pc[p]`, `local[p]` | where the command typed at terminal `p` is, and its locals: `oldConfig` or `oldData`, the new ones, `rollbackSnapshot`, `rollbackUnit`, what the engine loaded |
| `verdict`, `before` | history variables: which unit guards the generation in force, or what became of it; what was in force before it |

`Change` is `force add`, `force remove`, `dns set` and `dns system`, which all end
in `saveAndMaybeApply`; `Import`, `Setup`, `Activate` (enable, apply),
`ActivateUnattended` (the same with `--no-confirm`), `Disable` and
`RollbackLatest` are the other commands. Each then takes the steps of its
handler, one per write of a file, call of systemctl or systemd-run, and taking
and release of the lock, with the ways out in between: `Cancel` stops the timer,
`Undo` and `Revert` put the file back. A failed operation leaves what the code
leaves (`NotActivated`, `NotRolledBack`, `DisableFailed`): a disable stops before the
first flush with the rules gone (`RulesLost`) and the record enabled, or after it with
the record disabled and the rest reported as problems. `systemctl stop` may fail with
the timer armed: `Cancel` does not look (`app.go:725`), `Stop` returns the error
(`StopError`). `Fire`, `FireRejected` and `RollbackEnd` are the timer's `irroute
rollback <snapshot>`; `BootApply` is `irroute apply --boot`, which may fail as any
apply may.

Abstractions:

* The engine's operations begin, with the lock and the inputs they load, and end,
  with an outcome. Their inside, kills within them and an `ip rule del` that
  leaves rules are `Engine`'s subject. apply writes back the configuration it has
  just loaded; that is taken as one step with loading it.
* Reading files and writing the safety snapshot are one step at the start of a
  command; reads do not fail.
* A rollback writes three files at its start; here they appear when it ends. It
  goes to the newest snapshot or to the timer's, not to one named by hand.
* A reboot happens while nobody holds the lock. systemd forgets transient units.
* A unit's name is a timestamp and is never used twice; the model reuses a unit
  only when nothing refers to it.
* Time: a timer fires when its command is over, or, if `Slow`, at any point of it.
  120 s are counted from before the apply and 90 s from after it, so without
  `Slow` an apply takes less than the 30 s between.
* The prompt has two outcomes, CONFIRM and everything else.

### Store

| model | code |
| --- | --- |
| `data[i]`, `synced` | the bytes of inode `i` as a reader sees them: a whole version, or `Torn`, which is empty or cut off; the inodes whose bytes are on the disk |
| `entry[n]`, `onDisk[n]` | the inode that name `n` stands for; the entries that a power loss may leave, since the directory is written in the file system's own time |
| `temp` | inodes with a name that `CreateTemp` drew |
| `pc[p]`, `file[p]`, `target[p]`, `text[p]` | where the call of process `p` is, its open file, the name it will replace, what it writes |
| `result[p]` | how the last call of `p` ended |
| `clock`, `taken`, `orphans` | the last timestamp given; history: which snapshots were there when one was begun, and which temporary files belong to killed processes |

`Save` (`SaveConfig`, `SaveState`, `RestoreData`, `ImportIranCIDRs`) and
`WriteSnapshot` begin with `CreateTemp`; `Write`, `Sync` and `Rename` are the steps
of `writeFileAtomic`, and `WriteFails` the way out of each, with the deferred
removal. `Open` and `Decode` are the two steps of a read, between which the file
may be replaced. `Kill`, `Settle` and `PowerLoss` are the environment's.

`AtomicFiles` promises that each file is a register: replaced as a whole in the
step that reports it, read in one step, unchanged by a call that fails or is
killed, and after a power loss back at a version that it held. It does not promise
the last version, because the directory is never flushed. The refinement mapping
takes a reader's result from the file it has open, so that a read takes effect at
`Open`, and leaves temporary files out of sight.

Abstractions: no two calls draw the same temporary name, and the removal of a
temporary file succeeds; no two snapshots are begun in the same nanosecond; the
names in the backup directory are listed and the last is opened in one step
(nothing removes a snapshot); the clock is looked at only when a snapshot is
begun.

### Setup

| model | code |
| --- | --- |
| `configFile` | the links (interface name, MAC address if pinned), priorities and DNS mode of `config.json`; of a link also the device that the operator meant, which is history when it is not pinned. Devices in `Addressless` (tun, wireguard) have no MAC address, and a link over one is never pinned (`engine.go:371`) |
| `state`, `backup` | `enabled` and `dns_managed`; any one of the snapshots so far |
| `rules`, `routes`, `dns` | irroute's rules, by priority; the devices that the tables in force send traffic to; the interfaces with irroute's DNS settings |
| `device` | which device has an interface name, until the next boot |
| `pc[p]`, `draft[p]` | a wizard between its check and its save, with what it read; a rollback before its apply |

Here apply, disable and rollback are one step or two, and what counts is that they
act by the configuration of the moment: which priorities are cleared, which
interfaces are reverted. `Normalize` is `NormalizeConfig`, `Valid` what `Validate`
asks of interfaces and priorities, `Preflight` and `HostAccepts` the checks of
apply. `Init` is a host without irroute or with version 0.1.0, whose rules had other
priorities. `Heeding` names the commands that the operator does not type while a
failed DNS revert is on record; who was told of it repeats the disable.

Abstractions: the inside of apply, disable and rollback and of their failures is
`Engine`'s, the lock and the import at the end of setup are `Confirm`'s; addresses
and gateways go with the interface name, as a host's network configuration gives
them; table IDs never change (setup does not ask for them); a rule stands for its
priority and contents.

### RoutePlan

An address has `Bits` bits; prefixes, masking, `Normalize`, `Subtract` and
`SubtractAll` are the code's algorithms on sets of prefixes (the order of routes
in a batch has no effect). `Table` is `Build`'s target table; `Matching` and
`Best` are the kernel's longest match. The state is the networks of the two
links and the three lists; the actions are setup's choice of links (`SetLinks`), any
two networks, since `Validate` asks only for different interfaces (`config.go:23`),
and `force add`, `force remove` and `data import`, refused as `Validate` refuses
them. Each link adds the route of its network (`ConnectedRoutes`, `plan.go:79`), so
that two links in one network give one destination twice. `Span` and what `Normalize`
and `Subtract` are built on are recursive functions, so that they can be proved
about: the span of a prefix is twice that of its halves.

The main-routes rule has every route of table main but the default looked up first
(`engine.go:527`): the connected networks, and whatever other networks the host has
routes for. The properties speak of the addresses outside the connected networks;
other routes of table main are left out.

## Runs

| run | checks | bounds and faults |
| --- | --- | --- |
| `kernel` | `PolicyWhole`, `LiveMatchesRecord`, `ImplementsDoubleBuffer` | 2 processes, 2 configurations (one with managed DNS), 2 lists, commands start while there are fewer than 3 snapshots; reads, flushes, loads, `rule add`, `resolvectl` fail, the host reboots |
| `faults` | `NoOrphanDNS`, `SafetyPoint`, `ReplyPathWhole`, `GuardedPolicy`, `RollbackRestores`, `DisableCleans` | the same without reboots and failing `rule add`, with failing file writes |
| `crash` | `TypeOK`, `OneHandler`, `NoLiveTableRebuilt`, `NoForeignLoss` | 1 list, 2 snapshots; all faults except `rule del`, kills, reboots, files edited under the lock, another program between commands |
| `confirm_all` | `TypeOK` | 1 session, 2 timers, 2 configurations, every command, every kind of fault in `Faults`, commands typed while timers are pending, slow applies |
| `confirm_lost` | `UnconfirmedUndone`, `BootOnlyEnabled`, `GuardHeld` | 1 patient session, 2 lists, `FairSpec`; all faults but reboots and failing rollbacks; no rollback command |
| `confirm_files` | `LiveMatchesFiles`, `PreviousRestored`, `ConfirmedStays` | 1 patient session, 2 lists; failing apply, scheduling, `systemctl stop` and `systemctl enable` |
| `store` | `TypeOK`, `FailureLeavesNothing`, `LatestIsNewest`, `ImplementsAtomicFiles` | 2 processes, 1 file, 2 values, 2 snapshots, 3 inodes; failures and kills at every step, power losses |
| `setup` | `TypeOK`, `DisabledMeansClean`, `UndoCoversAll`, `RulesEffective`, `LiveOnChosen` | 1 session, 3 interfaces, 3 devices of which one has no MAC address, fresh host or disabled 0.1.0; failing apply and DNS revert, interfaces renamed at a reboot |
| `routes` | `TypeOK`, `EgressAsIntended`, `BatchLoads`, `NoOverlap` | 3-bit addresses, all pairs of 3 networks for the links, all force lists of up to 2 entries, 4 CIDR files |

Why the bounds suffice. A command that changes anything writes a snapshot first, so
bounding snapshots bounds the commands with effect: three admit enable, change
and a third command (rollback, disable or another apply) in every combination,
and a rollback writes up to two more on its way. Two processes show rejection and
every interleaving the lock permits; a third adds nothing while only one handler
runs. Two configurations, one per DNS mode, and two lists tell generations apart.
Where a property fails under a fault, the fault is left out and the failure is
shown by itself (next section), or named here:

* `PolicyWhole` and `LiveMatchesRecord` need store writes that succeed. If
  `disable` cannot write `state.json` after flushing (`engine.go:165`), the state
  still says enabled, and an apply that then fails puts back a main rule for the
  flushed table (`ClaimStateWrite`).
* `NoForeignLoss` needs an `ip rule del` that does what it is told and others that act
  between commands. It says when a rule of another program may go: under a record
  that says enabled, by a disable or beside irroute's own rule at that priority; its
  routes, with an apply under such a record or a disable. That such a rule does go,
  with every `deletePriority` at its priority, is `ClaimForeign`.
* Most properties need an `ip rule del` that does what it is told; see
  `ClaimInactiveTable` and `ClaimDisableRules`.
* `RollbackRestores` and `NoOrphanDNS` need `resolvectl revert` to succeed
  (`ClaimRollbackDNS`), and `Heeding`: a rollback skips `disable` when the record says
  disabled (`engine.go:198`) and then overwrites `dns_managed` (`engine.go:210`), so
  one that follows a failed apply of another rollback orphans the DNS that apply had
  set (`ClaimRollbackAgain`). It takes four snapshots; the proof of `NoOrphanDNS`
  found it.
* `GuardedPolicy` needs an `ip rule add` that succeeds: `restoreRules` is best effort
  (docs/architecture.md:44).

In `Confirm` nothing grows: timers are reused, so no bound cuts a behaviour short.
Two timers are one more than one session's command has, enough for an older timer
to meet a later change. Two configurations, or lists, tell old from new. `Patient`
means that nobody types a command while a timer is pending; `Slow` that a timer
may fire before its prompt is over. What each property needs is what its run
leaves out:

* `UnconfirmedUndone` needs applies that do not outlast the timer (`ClaimSlowApply`),
  a host that stays up (`reboot`), one command at a time and rollbacks that
  succeed.
* `LiveMatchesFiles` needs file writes that succeed (`ClaimImport`), one
  operator (`ClaimTwoOperators`) and sessions that last: one lost between the write of
  the configuration and the timer leaves the new file behind (`app.go:618`).
* `PreviousRestored` and `ConfirmedStays` need a host that stays up
  (`ClaimAfterReboot`) and one change at a time (`ClaimOlderTimer`).
* `ConfirmedStays` moreover needs file writes that succeed (`ClaimStop`). A failed
  activation whose `systemctl stop` fails too leaves its timer armed, and that timer
  fires over a generation that was confirmed earlier. It brings back what is in force
  only because the failed change put its file back.
* `BootOnlyEnabled` fails with `rollback latest` to a disabled snapshot, which
  leaves the boot unit enabled (`app.go:69`), and with a disable by a second
  operator between the prompt and `systemctl enable` of an enable (`app.go:393`).

`Store` needs two processes to share a name, two snapshots to confuse, and two
values to tell versions apart. Three inodes let a version be in force, another be
the one that a power loss brings back, and a third be written; with all three in use
further writes wait for a file to go. The property that says most is proved for any
number. `MCStore`'s view leaves out the bytes of free inodes, which `CreateTemp`
truncates before anybody sees them.

Three interfaces let `Setup` move both links to others and leave one behind. What
its properties need:

* `DisabledMeansClean` needs an operator who heeds a failed DNS revert
  (`ClaimSetupDNS`, `ClaimRollbackDNS`).
* It and `UndoCoversAll` need one operator (`ClaimSetupRace`), and an upgrade of a
  disabled system (`ClaimUpgrade`).
* `LiveOnChosen` speaks of links that are pinned; those over a device without a MAC
  address, or saved when the discovery failed, are not (`ClaimUnpinned`).

`LatestIsNewest` needs a clock that is never set back (`StoreClock`).

Eight addresses are enough for prefixes to nest three deep, for an exclusion to
lie wider than, within and beside a base, and for both connected networks to be
inside a listed one; three networks, for two links to share one. What the run checks is
proved for any number of bits.

### Where the code and its documentation disagree

Three runs expect a violation, each of a sentence of the documentation:

| run | sentence | what happens |
| --- | --- | --- |
| `lost_session` | docs/architecture.md:54 | apply of a first activation is killed after the switch; the state says disabled, so the timer's rollback skips `disable` and reports success with the rules in force |
| `reboot` | README.md:26 | a reboot forgets the timer of an unconfirmed change, and the boot unit applies the changed file |
| `latest` | app.go:106 | the newest snapshot after a change is the one apply wrote, of the changed configuration |

Further instances, kept to be run by hand (`tlc -config ClaimReplies.cfg
EngineClaims`), each violated too, most of them of a sentence likewise:

| instance of | configuration | sentence or property | what happens |
| --- | --- | --- | --- |
| `EngineClaims` | `ClaimInactiveTable` | README.md:23 | `deletePriority` takes a failing `ip rule del` for "no more rules"; a switch leaves the old main rule in front of the new one, and the next apply rebuilds the table it looks up |
| `EngineClaims` | `ClaimDoctor` | engine.go:259 | after a reboot without boot persistence the record says enabled and there are no rules; doctor skips priorities without a rule (`engine.go:510`) and reports live rules that match |
| `EngineClaims` | `ClaimDisableRules` | docs/test-server.md:117 | the first `ip rule del` fails; disable flushes the tables and reports success with the rules in force |
| `EngineClaims` | `ClaimRollbackDNS` | README.md:157 | a disable that could not revert DNS keeps `dns_managed`; a rollback overwrites it with the snapshot's and reports success |
| `EngineClaims` | `ClaimRollbackAgain` | README.md:157 | a rollback to a system with managed DNS fails to set DNS and says so, with `dns_managed` restored but disabled; the next rollback, to a disabled system, skips `disable`, overwrites `dns_managed` and reports success with irroute's DNS in place |
| `EngineClaims` | `ClaimForeign` | docs/test-server.md:117 | another program adds a rule at one of irroute's priorities while irroute is enabled; disable deletes every rule at the priority (`engine.go:569`), that one included |
| `EngineClaims` | `ClaimStateWrite` | `LiveMatchesRecord` itself | disable has flushed the tables and cannot write `state.json`; the next apply trusts it, fails, and puts back a main rule for the flushed table |
| `EngineClaims` | `ClaimReplies` | README.md:22 | while disable runs, the source rule is gone and the main rule is not |
| `ConfirmClaims` | `ClaimSlowApply` | README.md:26 | an apply that runs for over 120 s holds the lock when its timer fires; the rollback is rejected and never tried again |
| `ConfirmClaims` | `ClaimAfterReboot` | docs/test-server.md:94 | after a reboot without boot persistence `state.json` says enabled; the snapshot before the next enable says so too, and its rollback applies what was not confirmed |
| `ConfirmClaims` | `ClaimOlderTimer` | app.go:699 | a change times out, the next one is confirmed, and the first one's timer undoes both |
| `ConfirmClaims` | `ClaimStop` | app.go:699 | a change of a confirmed system fails and its file cannot be put back; a later enable fails too, and so does the stop of its timer; the timer replaces the confirmed generation by the file left behind |
| `ConfirmClaims` | `ClaimTwoOperators` | docs/architecture.md:70 | a change rejected by the lock writes back the configuration it had read over the one that won |
| `ConfirmClaims` | `ClaimImport` | README.md:322 | an import whose safety snapshot fails returns with the list replaced and not activated |
| `ConfirmClaims` | `ClaimDisableRace` | README.md:258 | an import overwrites an enable's state with the disabled one it had read; disable then skips the rules |
| `MCStore` | `StoreClock` | store.go:236-242 | the clock is set back between two snapshots; "latest" is the older one |
| `MCSetup` | `ClaimSetupDNS` | docs/architecture.md:50 | a disable cannot revert DNS; setup, which asks only for `enabled`, moves to other interfaces; the next disable reverts those and reports success |
| `MCSetup` | `ClaimSetupRace` | app.go:181 | an enable while the wizard prompts; setup then saves other links, and disable leaves the rules and DNS of the old ones |
| `MCSetup` | `ClaimUpgrade` | docs/test-server.md:117 | 0.1.0 is enabled when it is upgraded; the configuration is migrated at its next load, and disable clears the new priorities |
| `MCSetup` | `ClaimUnpinned` | README.md:28 | the discovery of interfaces fails (or the device has no MAC address), so the link is not pinned, and after a reboot its name is another device |

`MCConfirmTwo.cfg` is a larger instance of `MCConfirm` that passes: `GuardHeld` with two
operators whose commands and timers overlap, which the proof covers for any number.

## Fairness

Only `Confirm` has a liveness property. In the engine every handler ends and
`defer lock.Release()` lets go of the lock. `Store` and `Setup` promise nothing that
must happen: a file system may put off a directory entry for ever, and nobody has to
type a command.

`Confirm`'s `FairSpec` has weak fairness of each session's command (its programs
return, and the prompt ends by itself after 90 s, `app.go:711`), of each timer
(systemd starts what is due, `--on-active=120s`) and of the boot unit. Typing
commands, losing sessions and reboots are not fair.

## Proofs

TLAPS checks each theorem for every set of processes, sessions, timers,
configurations and lists, and every bound. Most invariants of the runs are not
inductive; what is proved is an invariant that says what each control point may
rely on, and the property follows from it. What a theorem assumes of `Faults` is what
its run assumes, and the instances above show that it is needed.

### Engine

One handler runs at a time, so apart from types the invariants speak of the control
point and the locals of the one that holds the lock: `at` and `own` in
`EngineRecordProofs`, where each lemma about a step says what it does to these.

* `TypeCorrect`: `Spec => []TypeOK`, for any faults. `TypeOK` is inductive because
  its last part, `HandlerOK`, says what each control point may rely on: inputs
  that were read, a recorded slot for rules that are put back, a snapshot that is
  there throughout a rollback.
* `OneHandlerCorrect`: `Spec => []OneHandler`, for any faults. A step either keeps
  the handler's process at a point other than idle and the lock with it, or ends
  the handler and releases the lock.
* `NoForeignLossCorrect`: `Spec => NoForeignLoss`, without `"ruleDel"` and `"race"`, but
  with other programs at work between commands, kills, reboots and files edited under
  the lock. `YieldInv`: from its check on, an apply meets another program's rule
  only at a priority where its own is and under a record that says enabled, and its
  routes only under such a record (`Beside`); a disable deletes rules only under one.
* `SafetyPointCorrect`: `Spec => []SafetyPoint`, for any faults, unless the files are
  written under a held lock. `PrevInv` and `InputsInv` say that what a handler has
  read is still what is on disk; then the snapshot it takes is of the files.
* `NoLiveTableRebuiltCorrect`: `Spec => NoLiveTableRebuilt`, provided `"ruleDel"` is
  not among the faults. What makes the property true is an invariant about the time
  between the check and the switch, `SwitchInv`: there is one main rule at most; none
  between its removal and its replacement; and from the comparison of the rules with
  the state until the load is over, the target table is not the one looked up.
  Rules of others do not count, so they may come at any time.
* `PolicyWholeCorrect`, `LiveMatchesRecordCorrect`: `Spec => []PolicyWhole` and
  `Spec => []LiveMatchesRecord` without `"save"`, `"ruleDel"` and `"crash"`. Four
  invariants carry them: a record is enabled exactly if it names a slot
  (`RecordInv`); which slots a main rule may look up at each point, the recorded one,
  the target, both while an apply is undone, or none (`LiveInv`); the target holds
  what was asked for from its load on (`BuiltInv`); the recorded slot holds the
  recorded list (`TableInv`).
* `ImplementsDoubleBufferCorrect`: `Spec => ImplementsDoubleBuffer` under the same
  conditions. With those invariants each step maps to a step of `DoubleBuffer` or to
  none: a load to a build in a slot that is neither live nor recorded, `ip rule add`
  to a switch to a complete one, the last write to a record of what is live.
* `ReplyPathWholeCorrect` and `DisableCleansCorrect`, without `"ruleDel"` and
  `"crash"`; the second also without `"race"`, since a rule that another program adds
    behind a disable's back stays. `ReplyInv` adds that the local table is complete from
  its batch on, which
  is why undoing an apply may put back the source rule. `CleanInv` says which rules are
  gone at each point, and that there are none while the record says disabled;
  `FlushInv` which tables are empty if no problem was noted; `WaitInv` that only the
  last step reports success.
* `GuardedPolicyCorrect`, without `"ruleAdd"`, `"ruleDel"`, `"crash"` and `"race"`. `GuardInv`: the
  rule for connected networks and the one for replies are put in place before the main
  rule and taken away after it, through apply, its undo and disable.
* `NoOrphanDNSCorrect`, with `Heeding` and without `"dnsRevert"` and `"crash"`. `DNSInv`:
  DNS of irroute's is on record at every point but between setting it and the
  record, disable has reverted it when it goes on to flush, and a rollback that skips
  disable finds the network's own.
* `RollbackRestoresCorrect`, under the conditions of the last two and an unshared
  store. `RestoreInv` says which files are the snapshot's at each point of a rollback;
  the rest is in the invariants above.

### Confirm

* `ConfirmTypeCorrect`: `Spec => []TypeOK`, for any sessions, timers, files, commands and
    kinds of fault in `Faults`. Its parts other than types are `HolderOK`, the lock is
  held by exactly the
  operation that runs, and `Ready`, what each control point may rely on.
* `GuardHeldCorrect`: `Spec => []GuardHeld` under `Guarded`: applies do not outlast
  their timers, no reboot, rollbacks succeed once they run, and no command writes
  `state.json` past the lock (`ClaimSlowApply`, `reboot` and `ClaimDisableRace` show
  what happens without these). The invariant is `GuardInv`: what is in force is on
  record as enabled (`VerdictOK`), a timer belongs to one command (`OwnersOK`), and
  a command whose activation is not yet in force has an armed timer that guards
  nothing (`StageOK`), which is why a `Cancel` never stops the timer of somebody's
  activation.

The other theorems assume `Solo`: one operator, who types nothing while a timer is
pending, applies that do not outlast their timers, no reboot, rollbacks and disables
that succeed once they run. (`confirm_lost` has failing disables besides.) Their invariant is
`SoloInv`: the record agrees with the kernel and an unconfirmed activation has its
timer (`RecordOK`), there is one timer at most and it is that of the command in
progress or of the last one (`TimersWait`), and a command's timer guards nothing before
its activation and the activation from then on (`SessionOK`). A timer that fires
therefore meets neither a command nor the lock (`DueAlone`).

* `SoloGuardHeldCorrect`: `Spec => []GuardHeld`, imports and setups included.
* `BootOnlyEnabledCorrect`: `Spec => []BootOnlyEnabled` without the rollback command,
  with sessions lost and any write failing. `BootInv`: while the boot unit is enabled the
  snapshots that a command or its timer would go back to are of an enabled system.
* `LiveMatchesFilesCorrect`, `PreviousRestoredCorrect`: `Spec => []LiveMatchesFiles` and
  `Spec => PreviousRestored` if moreover no session is lost and file writes and
  snapshots succeed (`Plain`).
  `EditInv`: what is in force is on disk, but while a change or an import is under
  way, which then knows the files it started from; its snapshot is of those
  (`EditOK`); the timer of an activation goes back to what it replaced (`UndoOK`).
* `ConfirmedStaysCorrect`: `Spec => ConfirmedStays`, also under `Solo` and `Plain`. A
  failed activation whose timer could not be stopped leaves it to fire over what was
  confirmed before. `LeftOK`: a pending timer that does not guard the generation in
  force goes back to that very generation (`GoesBack`), because its snapshot was taken
  of the files in force and the failed change has put its file back.

### Store

* `StoreTypeCorrect`: `Spec => []TypeOK` of `Store`. Beyond types it says that what a
  name stands for, or may stand for after a power loss, is a whole flushed file that
  is nobody's temporary one (`Published`); that a writer's file is open nowhere else
  (`Private`); and that a reader's is whole (`Readable`). It is inductive as it is.
* `ImplementsAtomicFilesCorrect`: `Spec => ImplementsAtomicFiles`. Every step maps to a
  step of `AtomicFiles` or to none; `Published` is why a power loss brings back
  versions and why filling a temporary file is not seen, `Private` and `Readable` why
  a reader's result is settled when it opens the file.
* `NothingLeftCorrect`: `Spec => []FailureLeavesNothing`.
* `LatestIsNewestCorrect`: `Spec => LatestIsNewest` if the clock is never set back. The
  invariant is `ClockInv`: names that stand or may come back are no later than the
  clock, a snapshot is later than those it found, and no two names share a file.

### Setup

* `SetupTypeCorrect`: `Spec => []TypeOK` of `Setup`, for any sessions, interfaces,
  devices, upgrades and faults.
* `UndoCoversAllCorrect`, `DisabledMeansCleanCorrect`, `RulesEffectiveCorrect`:
  `Spec => []...` of each under `Careful`: one operator, who heeds a failed DNS
  revert, and no upgrade of an enabled system (`ClaimSetupRace`, `ClaimSetupDNS` and
  `ClaimUpgrade` show what happens without). None of the three is inductive; their
  invariant is `SetupInv`: rules are those of the configuration on file and only
  while it is on record as enabled (`RulesOK`), DNS settings are on its interfaces
  and on record (`DNSOK`), and while a wizard asks there are neither (`WizardOK`),
  which is why its answers may replace the links.
* `LiveOnChosenCorrect`: `Spec => []LiveOnChosen` under `Careful`, whether discovery
  fails and whichever devices have no MAC address: the property is about the links
  that are pinned. `LiveInv` adds that tables in force follow the links on file.

### RoutePlan

For every width of an address, 32 included, and all lists of any length.

* `NormalizeCorrect`: what `Normalize` returns is part of its argument, does not overlap,
  and covers the same addresses. `SubtractAllCorrect`: what `SubtractAll` returns
  does not overlap and covers exactly the addresses that a base covers and no
  exclusion does. No prefix of it is shorter than every base, which is why a route for
  all addresses only ever comes from a list.
* `RoutesTypeCorrect`: `Spec => []TypeOK`. The inductive invariant of all four theorems
  is `Lists`: `TypeOK` and what `Validate` asks, force lists that do not overlap.
* `NoOverlapCorrect`, `BatchLoadsCorrect`, `EgressCorrect`: `Spec => []...` of each, for any
  networks of the links, equal ones included. `BatchLoads` is an equivalence: it says
  when the batch fails as well. By the two results above the local destinations cover
  what is forced local, or listed and not forced away; the others what is forced
  international. As the force lists
  do not overlap, no address is covered by both (`KindsApart`), so the longest match
  never has to choose between them.

The arithmetic is first-order: `SpanDivides` and `Halves` say that the halves of a prefix
are prefixes and share its addresses between them, `Nested` that a shorter prefix
does not tell apart what a longer one does not, `OverlapShared` that the code's test
for overlapping is that there is a common address. The library's theorems on
recursion and induction take operators, which the provers cannot instantiate; so
`Induction` is about a set of numbers and `Recursion` about a function whose values
are determined by those of lower rank (`Determined`). Both follow from the library's
`NatLessThanWellFounded` and `WFMin`. Each recursive definition is shown to exist with
the second (`SpanDefined`, `NormalizeKept`, `SubtractRest`, `SubtractAllIter`, the last
unfolding the library's `FoldSet`), and what it computes with the first.

### Assumptions, and what is only model-checked

Apart from the conditions above the theorems rest on the assumptions named in the
modules: model values are distinct from each other and from records of them, managed
configurations are configurations, switches have the values they may have.

Only model-checked: `UnconfirmedUndone`, since liveness is out of the prover's reach.
The claims are about counterexamples, which TLC finds.

## Not modelled

Parsing and printing of CIDR text and of `ip -j` output; `Doctor`, `Status` and
`Plan`, which only read (what `Doctor` concludes is in `ClaimDoctor`); who reads which
line of the terminal, with the goroutine of a timed-out prompt that takes the menu's
next line (`app.go:701`); rollbacks of `Confirm` to a snapshot named by hand;
`Validate` apart from interfaces, priorities and the conflict of force lists: its
other rules refuse values that no model has; a disk that fills up with snapshots,
which are never removed (`store.go:215`); the installers.

## Plan

1. Done: `Engine`, `DoubleBuffer`, `RoutePlan` and `Confirm` with their runs.
2. Done: `Store` and `AtomicFiles` with the refinement proved; `Setup` with its
   invariants proved for one operator.
3. Done: every safety property that a run checks, and the refinements of
   `DoubleBuffer` and `AtomicFiles`, proved.
4. The prompt's reader and the menu's: two readers of one terminal.
5. `Confirm`'s engine operations as an abstraction of `Engine`: that apply,
   disable and rollback of `Engine` begin and end as `Confirm` says.
6. Proofs: `ConfirmedStays` for several operators whose changes do not overlap.
