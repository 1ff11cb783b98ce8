-------------------------------- MODULE Setup --------------------------------
(***************************************************************************)
(* What Engine takes as fixed: the links, the priorities of the rules and  *)
(* the DNS mode of a configuration.  The setup wizard writes them while    *)
(* irroute is disabled, NormalizeConfig rewrites those of version 0.1.0,   *)
(* rollback brings old ones back, and the host may rename its interfaces   *)
(* at a reboot.  apply, disable and rollback are one or two steps here and *)
(* go by whatever config.json says at the time.                            *)
(***************************************************************************)
EXTENDS Integers

CONSTANTS
    Session,    \* terminals
    Nic,        \* names of network interfaces
    Device,     \* network devices
    Addressless,\* devices without a MAC address: tunnels
    Installed,  \* what an earlier version left: "nothing", "disabled", "enabled"
    Faults,     \* what may go wrong, see FaultKind
    Heeding,    \* commands not typed while a failed DNS revert is on record
    None        \* no configuration, no links

FaultKind == {"apply", "dnsRevert", "discover", "rename"}

ASSUME DeviceAssumption == Addressless \subseteq Device
ASSUME InstalledAssumption == Installed \subseteq {"nothing", "disabled", "enabled"}
ASSUME FaultAssumption == Faults \subseteq FaultKind
ASSUME HeedingAssumption == Heeding \subseteq {"setup", "rollback"}

VARIABLES
    configFile, \* config.json, or None
    state,      \* the enabled and dns_managed of state.json
    backup,     \* a snapshot in the backup directory, or None
    rules,      \* irroute's rules in the kernel
    routes,     \* the devices that the tables in force send traffic to, or None
    dns,        \* the interfaces that have DNS settings of irroute's
    device,     \* per interface name, the device that has the name
    pc,         \* per session, where its command is
    draft       \* per session, the configuration that its wizard edits

files == <<configFile, state, backup>>
host == <<rules, routes, dns, device>>
session == <<pc, draft>>
vars == <<files, host, session>>

Faulty(kind) == kind \in Faults

-----------------------------------------------------------------------------
(* Configurations *)

\* A link has its interface's name and, if pinned, the MAC address of its
\* device.  The device that the operator meant is history when it is not.
Link == [name : Nic, device : Device, pinned : BOOLEAN]
RuleName == {"mainRoutes", "source", "main"}
Priorities == [RuleName -> Nat]
Config == [local : Link, international : Link,
           routing : Priorities, managed : BOOLEAN]
State == [enabled : BOOLEAN, dnsManaged : BOOLEAN]

ASSUME NoneAssumption == None \notin Config

At(mainRoutes, source, main) ==
    [r \in RuleName |-> CASE r = "mainRoutes" -> mainRoutes
                          [] r = "source" -> source
                          [] r = "main" -> main]

DefaultPriorities == At(10000, 10010, 10020)

\* Version 0.1.0 had no main-routes rule: its default, an administrator's own
\* choices that can be migrated, and two that cannot.
OldPriorities == {At(0, 51800, 51810), At(0, 20000, 20010),
                  At(0, 51800, 51815), At(0, 5, 20)}

NormalizeUnguarded(r) ==                                            \* mutant
    IF r = At(0, 51800, 51810) THEN DefaultPriorities
    ELSE IF r["mainRoutes"] = 0
    THEN [r EXCEPT !["mainRoutes"] = r["source"] - 10]
    ELSE r

\* NormalizeConfig, at every load: the default of 0.1.0 becomes today's, any
\* other gets a main-routes rule in front of its source rule.
Normalize(r) ==
    IF r = At(0, 51800, 51810) THEN DefaultPriorities
    ELSE IF r["mainRoutes"] = 0 /\ r["source"] > 10
    THEN [r EXCEPT !["mainRoutes"] = r["source"] - 10]
    ELSE r

\* The rule that sends everything to the main table.
SystemMain == 32766

ValidAnyMain(c) ==                                                  \* mutant
    /\ c.local.name # c.international.name
    /\ \A r \in RuleName : c.routing[r] > 0
    /\ c.routing["mainRoutes"] < c.routing["source"]
    /\ c.routing["source"] < c.routing["main"]

\* Validate, of links and priorities.
Valid(c) ==
    /\ c.local.name # c.international.name
    /\ \A r \in RuleName : c.routing[r] > 0
    /\ c.routing["mainRoutes"] < c.routing["source"]
    /\ c.routing["source"] < c.routing["main"]
    /\ c.routing["main"] < SystemMain

HasMAC(d) == d \notin Addressless

Names(c) == {c.local.name, c.international.name}
Loaded == [configFile EXCEPT !.routing = Normalize(@)]
Loadable == configFile # None /\ Valid(Loaded)

\* The devices that have a configuration's interface names now.
Devices(c) == <<device[c.local.name], device[c.international.name]>>
Chosen(c) == <<c.local.device, c.international.device>>

\* The source rule is for the local link's address, which goes with the name.
Rule == [name : RuleName, at : Nat, link : Nic \cup {None}]
RulesOf(c) == {[name |-> r, at |-> c.routing[r],
                link |-> IF r = "source" THEN c.local.name ELSE None] :
                  r \in RuleName}
PlacedAt(at) == {rule \in rules : rule.at = at}
Placed(c) == UNION {PlacedAt(c.routing[r]) : r \in RuleName}

-----------------------------------------------------------------------------
(* Initial states *)

OldConfig ==
    {[local |-> [name |-> l, device |-> device[l], pinned |-> HasMAC(device[l])],
      international |-> [name |-> i, device |-> device[i], pinned |-> HasMAC(device[i])],
      routing |-> r, managed |-> FALSE] :
        l \in Nic, i \in Nic, r \in OldPriorities}

\* A host without irroute, or with version 0.1.0, which had no managed DNS.
Init ==
    /\ device \in {f \in [Nic -> Device] : \A m, n \in Nic : f[m] = f[n] => m = n}
    /\ \E old \in Installed :
          /\ configFile \in IF old = "nothing" THEN {None}
                            ELSE {c \in OldConfig : c.local.name # c.international.name}
          /\ state = [enabled |-> old = "enabled", dnsManaged |-> FALSE]
          /\ rules = IF old = "enabled"
                     THEN {rule \in RulesOf(configFile) : rule.name # "mainRoutes"}
                     ELSE {}
          /\ routes = IF old = "enabled" THEN Devices(configFile) ELSE None
    /\ backup = None
    /\ dns = {}
    /\ pc = [p \in Session |-> "idle"]
    /\ draft = [p \in Session |-> None]

\* No handler of the engine is between two of its steps, and holds the lock.
LockFree == \A p \in Session : pc[p] # "activate"

Ready(p) == pc[p] = "idle" /\ LockFree

\* The operator who was told of a failed revert repeats the disable first.
MovesOn(command) == command \in Heeding => state.enabled \/ ~state.dnsManaged

\* Every command with an effect leaves snapshots of the state before it; one of
\* all is remembered, so that a rollback may go to any.
TakeSnapshot(configs) ==
    backup' \in {backup} \cup [cfg : configs, state : {state}]

-----------------------------------------------------------------------------
(* The setup wizard *)

\* The existing configuration or the default, which has no links yet.
Current == IF configFile = None
           THEN [routing |-> DefaultPriorities, managed |-> TRUE]
           ELSE [routing |-> Loaded.routing, managed |-> Loaded.managed]

SetupAlways(p) ==                                                   \* mutant
    /\ pc[p] = "idle"
    /\ pc' = [pc EXCEPT ![p] = "setup"]
    /\ draft' = [draft EXCEPT ![p] = Current]
    /\ UNCHANGED <<files, host>>

\* Only a host that is on record as disabled may be set up.
SetupStart(p) ==
    /\ pc[p] = "idle"
    /\ ~state.enabled
    /\ MovesOn("setup")
    /\ pc' = [pc EXCEPT ![p] = "setup"]
    /\ draft' = [draft EXCEPT ![p] = Current]
    /\ UNCHANGED <<files, host>>

\* A link that is chosen from the interfaces discovered is pinned if its device
\* has an address; when there are none to choose from the name is typed and there
\* is no MAC address.
Selected(n) ==
    {[name |-> n, device |-> device[n], pinned |-> b] :
        b \in {HasMAC(device[n])} \cup (IF Faulty("discover") THEN {FALSE} ELSE {})}

\* The answers are valid and are saved, before the CIDR list is imported (Confirm
\* has that part).  Priorities stay what they were.
SetupSave(p) ==
    /\ pc[p] = "setup"
    /\ \E l, i \in Nic, managed \in BOOLEAN :
       \E local \in Selected(l), international \in Selected(i) :
          LET c == [local |-> local, international |-> international,
                    routing |-> draft[p].routing, managed |-> managed] IN
          /\ Valid(c)
          /\ configFile' = c
    /\ pc' = [pc EXCEPT ![p] = "idle"]
    /\ draft' = [draft EXCEPT ![p] = None]
    /\ UNCHANGED <<state, backup, host>>

\* An answer is refused or the session is lost before anything is saved.
SetupAbort(p) ==
    /\ pc[p] = "setup"
    /\ pc' = [pc EXCEPT ![p] = "idle"]
    /\ draft' = [draft EXCEPT ![p] = None]
    /\ UNCHANGED <<files, host>>

-----------------------------------------------------------------------------
(* apply *)

PreflightNamesOnly(c) == Names(c) \subseteq Nic                     \* mutant

\* The interfaces exist, have their addresses and the MAC addresses they are
\* pinned to.
Preflight(c) ==
    \A link \in {c.local, c.international} :
        link.pinned => device[link.name] = link.device

\* The priorities are free or, on a live system, those that are in use have
\* the rule that belongs there.
HostAccepts(c) ==
    IF state.enabled
    THEN \A rule \in RulesOf(c) : PlacedAt(rule.at) = {} \/ rule \in rules
    ELSE Placed(c) = {}

\* switchRules: a rule is added where there is none, the main rule replaced.
SwitchRules(c) ==
    rules' = (rules \ PlacedAt(c.routing["main"]))
                 \cup {rule \in RulesOf(c) : \/ rule.name = "main"
                                             \/ PlacedAt(rule.at) = {}}

\* DNS is set on both links, or given back if it was managed.
Activate(c) ==
    /\ Preflight(c)
    /\ HostAccepts(c)
    /\ SwitchRules(c)
    /\ routes' = Devices(c)
    /\ dns' = CASE c.managed -> dns \cup Names(c)
                [] ~c.managed /\ state.dnsManaged -> dns \ Names(c)
                [] ~c.managed /\ ~state.dnsManaged -> dns
    /\ state' = [enabled |-> TRUE, dnsManaged |-> c.managed]

\* An apply that fails has put the host back (Engine looks at how).
NotActivated(c) ==
    /\ ~Preflight(c) \/ ~HostAccepts(c) \/ Faulty("apply")
    /\ UNCHANGED <<state, rules, routes, dns>>

\* enable, apply, the boot unit, or the end of a rollback.  The configuration is
\* written back normalised before anything else is looked at.
Apply(p) ==
    /\ pc[p] = "activate" \/ Ready(p)
    /\ Loadable
    /\ configFile' = Loaded
    /\ Activate(Loaded) \/ NotActivated(Loaded)
    /\ TakeSnapshot({Loaded})
    /\ pc' = [pc EXCEPT ![p] = "idle"]
    /\ UNCHANGED <<device, draft>>

\* dns set, dns system: a configuration whose apply fails is put back.
ChangeDNS(p) ==
    LET c == [Loaded EXCEPT !.managed = ~@] IN
    /\ Ready(p)
    /\ Loadable
    /\ \/ ~state.enabled /\ configFile' = c /\ UNCHANGED <<state, rules, routes, dns>>
       \/ state.enabled /\ configFile' = c /\ Activate(c)
       \/ state.enabled /\ configFile' = Loaded /\ NotActivated(c)
    /\ TakeSnapshot({Loaded, c})
    /\ UNCHANGED <<device, session>>

-----------------------------------------------------------------------------
(* disable and rollback *)

DeleteTwoRules(c) ==                                                \* mutant
    rules' = rules \ (PlacedAt(c.routing["source"]) \cup PlacedAt(c.routing["main"]))

\* The three priorities of the configuration are cleared, as they are today.
DeleteRules(c) == rules' = rules \ Placed(c)

\* resolvectl revert, for the two interfaces of the configuration.
RevertDNS(c) == dns' = dns \ Names(c)

\* disable of a configuration, but for its record.
TakeDown(c) ==
    /\ TakeSnapshot({c})
    /\ \/ state.enabled /\ DeleteRules(c) /\ routes' = None
       \/ ~state.enabled /\ UNCHANGED <<rules, routes>>

DNSReturned(c) == IF state.dnsManaged THEN RevertDNS(c) ELSE UNCHANGED dns

\* DNS that could not be reverted stays on record.
DNSKept == state.dnsManaged /\ Faulty("dnsRevert") /\ UNCHANGED dns

Disable(p) ==
    /\ Ready(p)
    /\ Loadable
    /\ TakeDown(Loaded)
    /\ \/ DNSReturned(Loaded) /\ state' = [enabled |-> FALSE, dnsManaged |-> FALSE]
       \/ DNSKept /\ state' = [enabled |-> FALSE, dnsManaged |-> TRUE]
    /\ UNCHANGED <<configFile, device, session>>

\* The snapshot's files come back; if it was enabled, apply follows.
Restore(p) ==
    /\ configFile' = backup.cfg
    /\ state' = [backup.state EXCEPT !.enabled = FALSE]
    /\ pc' = [pc EXCEPT ![p] = IF backup.state.enabled THEN "activate" ELSE "idle"]
    /\ UNCHANGED <<device, draft>>

\* A live configuration is disabled first, by its own links and priorities; a
\* failed disable is the end of it.
Rollback(p) ==
    /\ Ready(p)
    /\ MovesOn("rollback")
    /\ backup # None
    /\ Valid(backup.cfg)
    /\ \/ /\ ~state.enabled
          /\ Restore(p)
          /\ UNCHANGED <<backup, rules, routes, dns>>
       \/ /\ state.enabled
          /\ Loadable
          /\ TakeDown(Loaded)
          /\ DNSReturned(Loaded)
          /\ Restore(p)
       \/ /\ state.enabled
          /\ Loadable
          /\ TakeDown(Loaded)
          /\ DNSKept
          /\ state' = [enabled |-> FALSE, dnsManaged |-> TRUE]
          /\ UNCHANGED <<configFile, device, session>>

-----------------------------------------------------------------------------
(* The environment *)

\* Rules, routes and DNS settings are gone; names may have changed hands.
Reboot ==
    /\ rules' = {}
    /\ routes' = None
    /\ dns' = {}
    /\ \/ UNCHANGED device
       \/ /\ Faulty("rename")
          /\ \E m, n \in Nic : /\ m # n
                               /\ device' = [device EXCEPT ![m] = device[n],
                                                           ![n] = device[m]]
    /\ pc' = [p \in Session |-> "idle"]
    /\ draft' = [p \in Session |-> None]
    /\ UNCHANGED files

Next ==
    \/ \E p \in Session :
          \/ SetupStart(p) \/ SetupSave(p) \/ SetupAbort(p)
          \/ Apply(p) \/ ChangeDNS(p) \/ Disable(p) \/ Rollback(p)
    \/ Reboot

Spec == Init /\ [][Next]_vars

-----------------------------------------------------------------------------
(* Properties *)

Draft == [routing : Priorities, managed : BOOLEAN]

\* Every variable has its type, and a wizard has a draft.
TypeOK ==
    /\ configFile \in Config \cup {None}
    /\ state \in State
    /\ backup \in [cfg : Config, state : State] \cup {None}
    /\ rules \subseteq Rule
    /\ routes \in (Device \X Device) \cup {None}
    /\ dns \subseteq Nic
    /\ device \in [Nic -> Device]
    /\ pc \in [Session -> {"idle", "setup", "activate"}]
    /\ draft \in [Session -> Draft \cup {None}]
    /\ \A p \in Session : pc[p] = "setup" => draft[p] \in Draft

\* When the record says that irroute is off and manages no DNS, none of its
\* rules is left at any priority and none of its DNS settings on any interface,
\* whatever the configuration was when they were made (docs/architecture.md:50,
\* docs/test-server.md:117).
DisabledMeansClean ==
    LockFree /\ ~state.enabled /\ ~state.dnsManaged => rules = {} /\ dns = {}

\* A system that is on record as enabled can be disabled: its configuration
\* loads, has the priorities of every rule that is there and the interfaces of
\* every DNS setting (engine.go:139-147 go by the file and by nothing else).
UndoCoversAll ==
    state.enabled => /\ Loadable
                     /\ rules \subseteq RulesOf(Loaded)
                     /\ dns \subseteq Names(Loaded)

\* Rules that are in force are all three, in their order, before the system's
\* rule for the main table (docs/architecture.md:28).
RulesEffective ==
    rules # {} =>
        \E first, second, third \in rules :
            /\ rules = {first, second, third}
            /\ first.name = "mainRoutes" /\ second.name = "source" /\ third.name = "main"
            /\ first.at < second.at /\ second.at < third.at
            /\ third.at < SystemMain

\* Traffic in force leaves by the devices that the operator chose, whatever
\* names they have got since, if setup could pin them to a MAC address
\* (README.md:28).
LiveOnChosen ==
    routes # None =>
        /\ configFile.local.pinned => routes[1] = configFile.local.device
        /\ configFile.international.pinned => routes[2] = configFile.international.device
=============================================================================
