------------------------------ MODULE SetupProofs ------------------------------
(***************************************************************************)
(* What one configuration made, the configuration of the day takes down:   *)
(* the invariants of Setup for one operator, who heeds a DNS revert that   *)
(* failed, on a host that was not enabled when it was upgraded.  The       *)
(* instances ClaimSetupRace, ClaimSetupDNS and ClaimUpgrade show what      *)
(* happens otherwise.                                                      *)
(***************************************************************************)
EXTENDS Setup, TLAPS

Careful ==
    /\ \A p, q \in Session : p = q
    /\ "enabled" \notin Installed
    /\ Heeding = {"setup", "rollback"}

\* Rules are in force on record only, and are those of the configuration on file.
RulesOK ==
    /\ state.enabled => Loadable
    /\ rules = {} \/ (state.enabled /\ rules = RulesOf(Loaded))

\* DNS settings are on record, on the interfaces of the configuration on file.
DNSOK ==
    /\ ~state.dnsManaged => dns = {}
    /\ dns # {} => configFile # None /\ dns \subseteq Names(configFile)

\* While a wizard asks its questions, the host has neither.
WizardOK == \A p \in Session : pc[p] = "setup" => ~state.enabled /\ ~state.dnsManaged

SetupInv == RulesOK /\ DNSOK /\ WizardOK

-----------------------------------------------------------------------------
(* Configurations *)

\* Migrated priorities are numbers again.
LEMMA NormalizeType == \A r \in Priorities : Normalize(r) \in Priorities
<1> SUFFICES ASSUME NEW r \in Priorities PROVE Normalize(r) \in Priorities
    OBVIOUS
<1>1. DefaultPriorities \in Priorities
      BY DEF DefaultPriorities, At, Priorities, RuleName
<1>2. ASSUME r["source"] > 10
      PROVE  [r EXCEPT !["mainRoutes"] = r["source"] - 10] \in Priorities
  <2>1. r["source"] \in Nat
        BY DEF Priorities, RuleName
  <2>2. r["source"] - 10 \in Nat
        BY <1>2, <2>1
  <2> QED BY <2>2 DEF Priorities
<1> QED BY <1>1, <1>2 DEF Normalize

\* Valid priorities are not migrated again.
LEMMA NormalizeValid ==
    ASSUME NEW c \in Config, Valid(c)
    PROVE  Normalize(c.routing) = c.routing
<1>1. c.routing["mainRoutes"] # 0
      BY DEF Valid, RuleName, Config, Priorities
<1>2. At(0, 51800, 51810)["mainRoutes"] = 0
      BY DEF At, RuleName
<1> QED BY <1>1, <1>2 DEF Normalize

\* What is loaded differs from what is on file by its priorities at most.
LEMMA LoadedType ==
    ASSUME configFile \in Config
    PROVE  /\ Loaded \in Config
           /\ Loaded.local = configFile.local
           /\ Loaded.international = configFile.international
           /\ Loaded.managed = configFile.managed
           /\ Loaded.routing = Normalize(configFile.routing)
BY NormalizeType DEF Loaded, Config

\* A valid configuration is loaded as it was saved.
LEMMA SavedIsLoaded ==
    ASSUME NEW c \in Config, Valid(c), configFile' = c
    PROVE  Loadable' /\ Loaded' = c
<1>1. Loaded' = c
      BY NormalizeValid DEF Loaded, Config
<1> QED BY <1>1, NoneAssumption DEF Loadable, Valid

\* Rules at three different priorities.
LEMMA RulesOfType == ASSUME NEW c \in Config PROVE RulesOf(c) \subseteq Rule
BY DEF RulesOf, Rule, Config, Priorities, Link

\* Clearing the priorities of a configuration clears its rules.
LEMMA PlacedAll ==
    ASSUME NEW c, rules \subseteq RulesOf(c)
    PROVE  rules \ Placed(c) = {}
<1> SUFFICES ASSUME NEW rule \in rules PROVE rule \in Placed(c)
    OBVIOUS
<1>1. PICK r \in RuleName : rule.at = c.routing[r]
      BY DEF RulesOf
<1> QED BY <1>1 DEF Placed, PlacedAt

\* switchRules completes the rules of a configuration.
LEMMA Switched ==
    ASSUME NEW c \in Config, Valid(c), rules \subseteq RulesOf(c), SwitchRules(c)
    PROVE  rules' = RulesOf(c)
<1>1. \A r, q \in RuleName : c.routing[r] = c.routing[q] => r = q
      BY DEF Valid, RuleName, Config, Priorities
<1>2. ASSUME NEW r \in RuleName, NEW rule \in rules, rule.at = c.routing[r]
      PROVE  rule.name = r /\ \A other \in RulesOf(c) : other.name = r => other = rule
      BY <1>1, <1>2 DEF RulesOf
<1>3. ASSUME NEW rule \in RulesOf(c) PROVE rule \in rules'
  <2>1. rule.name \in RuleName /\ rule.at = c.routing[rule.name]
        BY DEF RulesOf
  <2>2. CASE rule.name = "main" \/ PlacedAt(rule.at) = {}
        BY <2>2 DEF SwitchRules
  <2>3. CASE rule.name # "main" /\ PlacedAt(rule.at) # {}
    <3>1. rule \in rules
          BY <1>2, <2>1, <2>3 DEF PlacedAt
    <3>2. rule \notin PlacedAt(c.routing["main"])
          BY <1>1, <2>1, <2>3 DEF PlacedAt, RuleName
    <3> QED BY <3>1, <3>2 DEF SwitchRules
  <2> QED BY <2>2, <2>3
<1>4. rules' \subseteq RulesOf(c)
      BY DEF SwitchRules
<1> QED BY <1>3, <1>4

-----------------------------------------------------------------------------
(* Types *)

LEMMA SetupInitTypeOK == Init => TypeOK
<1> SUFFICES ASSUME Init PROVE TypeOK
    OBVIOUS
<1>1. OldPriorities \subseteq Priorities
      BY DEF OldPriorities, At, Priorities, RuleName
<1>2. device \in [Nic -> Device]
      BY DEF Init
<1>3. OldConfig \subseteq Config
  <2> SUFFICES ASSUME NEW c \in OldConfig PROVE c \in Config
      OBVIOUS
  <2>1. PICK l \in Nic, i \in Nic, r \in OldPriorities :
            c = [local |-> [name |-> l, device |-> device[l], pinned |-> HasMAC(device[l])],
                 international |->
                     [name |-> i, device |-> device[i], pinned |-> HasMAC(device[i])],
                 routing |-> r, managed |-> FALSE]
        BY DEF OldConfig
  <2>2. device[l] \in Device /\ device[i] \in Device /\ r \in Priorities
        BY <1>1, <1>2, <2>1
  <2>3. c.local \in Link /\ c.international \in Link
        BY <2>1, <2>2 DEF Link, HasMAC
  <2> QED BY <2>1, <2>2, <2>3 DEF Config
<1>4. configFile \in Config \cup {None}
      BY <1>3 DEF Init
<1>5. rules \subseteq Rule /\ routes \in (Device \X Device) \cup {None}
  <2>1. PICK old \in Installed :
            /\ configFile \in IF old = "nothing" THEN {None}
                              ELSE {c \in OldConfig : c.local.name # c.international.name}
            /\ rules = IF old = "enabled"
                       THEN {rule \in RulesOf(configFile) : rule.name # "mainRoutes"}
                       ELSE {}
            /\ routes = IF old = "enabled" THEN Devices(configFile) ELSE None
        BY DEF Init
  <2>2. CASE old = "enabled"
    <3>1. configFile \in Config
          BY <1>3, <2>1, <2>2
    <3>2. Devices(configFile) \in Device \X Device
          BY <1>2, <3>1 DEF Devices, Config, Link
    <3> QED BY <2>1, <2>2, <3>1, <3>2, RulesOfType
  <2> QED BY <2>1, <2>2
<1>6. state \in State
      BY DEF Init, State
<1> QED BY <1>2, <1>4, <1>5, <1>6 DEF Init, TypeOK

\* A configuration in force.
LEMMA ActivateType ==
    ASSUME TypeOK, NEW c \in Config, Activate(c)
    PROVE  /\ state' \in State /\ rules' \subseteq Rule /\ dns' \subseteq Nic
           /\ routes' \in (Device \X Device) \cup {None}
<1>1. c.managed \in BOOLEAN /\ Names(c) \subseteq Nic
      BY DEF Config, Link, Names
<1>2. state' \in State
      BY <1>1 DEF Activate, State
<1>3. rules' \subseteq Rule
      BY RulesOfType DEF Activate, SwitchRules, TypeOK
<1>4. dns' \subseteq dns \cup Names(c)
  <2>1. CASE c.managed BY <2>1 DEF Activate
  <2>2. CASE ~c.managed /\ state.dnsManaged BY <2>2 DEF Activate
  <2>3. CASE ~c.managed /\ ~state.dnsManaged BY <2>3 DEF Activate
  <2> QED BY <2>1, <2>2, <2>3
<1>5. routes' \in Device \X Device
      BY DEF Activate, Devices, TypeOK, Config, Link
<1> QED BY <1>1, <1>2, <1>3, <1>4, <1>5 DEF TypeOK

LEMMA BackupType ==
    ASSUME TypeOK, NEW cs \in SUBSET Config, TakeSnapshot(cs)
    PROVE  backup' \in [cfg : Config, state : State] \cup {None}
BY DEF TakeSnapshot, TypeOK

LEMMA CurrentType ==
    ASSUME TypeOK
    PROVE  Current \in Draft
<1>1. CASE configFile = None
  <2>1. DefaultPriorities \in Priorities
        BY DEF DefaultPriorities, At, Priorities, RuleName
  <2> QED BY <1>1, <2>1 DEF Current, Draft
<1>2. CASE configFile \in Config
  <2>1. Loaded.routing \in Priorities /\ Loaded.managed \in BOOLEAN
        BY <1>2, LoadedType DEF Config
  <2> QED BY <1>2, <2>1, NoneAssumption DEF Current, Draft
<1> QED BY <1>1, <1>2 DEF TypeOK

\* What loads is a valid configuration.
LEMMA LoadableType ==
    ASSUME TypeOK, Loadable
    PROVE  configFile \in Config /\ Loaded \in Config /\ Valid(Loaded)
BY LoadedType DEF TypeOK, Loadable

\* The DNS mode of a configuration is neither its links nor its priorities.
LEMMA OtherMode ==
    ASSUME NEW c \in Config, NEW m, m = [c EXCEPT !.managed = ~@]
    PROVE  /\ m \in Config
           /\ Valid(m) <=> Valid(c)
           /\ RulesOf(m) = RulesOf(c)
           /\ Names(m) = Names(c)
           /\ Chosen(m) = Chosen(c)
           /\ m.local = c.local /\ m.international = c.international
<1>1. m \in Config /\ m.local = c.local /\ m.international = c.international
          /\ m.routing = c.routing
      BY DEF Config
<1> QED BY <1>1 DEF Valid, RulesOf, Names, Chosen

LEMMA SetupStartType == ASSUME TypeOK, NEW p \in Session, SetupStart(p) PROVE TypeOK'
<1>1. Current \in Draft
      BY CurrentType
<1> QED BY <1>1 DEF SetupStart, TypeOK, files, host

LEMMA SetupSaveType == ASSUME TypeOK, NEW p \in Session, SetupSave(p) PROVE TypeOK'
<1>1. PICK l \in Nic, i \in Nic, managed \in BOOLEAN :
         \E local \in Selected(l), international \in Selected(i) :
            configFile' = [local |-> local, international |-> international,
                           routing |-> draft[p].routing, managed |-> managed]
      BY DEF SetupSave
<1>2. draft[p].routing \in Priorities
      BY DEF SetupSave, TypeOK, Draft
<1>3. \A n \in Nic : Selected(n) \subseteq Link
  <2> SUFFICES ASSUME NEW n \in Nic, NEW link \in Selected(n) PROVE link \in Link
      OBVIOUS
  <2>1. PICK b \in BOOLEAN : link = [name |-> n, device |-> device[n], pinned |-> b]
        BY DEF Selected, HasMAC
  <2>2. device[n] \in Device
        BY DEF TypeOK
  <2> QED BY <2>1, <2>2 DEF Link
<1>4. PICK local \in Selected(l), international \in Selected(i) :
         configFile' = [local |-> local, international |-> international,
                        routing |-> draft[p].routing, managed |-> managed]
      BY <1>1
<1>5. local \in Link /\ international \in Link
      BY <1>3
<1>6. configFile' \in Config
      BY <1>2, <1>4, <1>5 DEF Config
<1> QED BY <1>6 DEF SetupSave, TypeOK, host

LEMMA SetupAbortType == ASSUME TypeOK, NEW p \in Session, SetupAbort(p) PROVE TypeOK'
BY DEF SetupAbort, TypeOK, files, host

LEMMA ApplyType == ASSUME TypeOK, NEW p \in Session, Apply(p) PROVE TypeOK'
<1>1. Loaded \in Config
      BY LoadableType DEF Apply
<1>2. backup' \in [cfg : Config, state : State] \cup {None}
      BY <1>1, BackupType DEF Apply
<1>3. /\ state' \in State /\ rules' \subseteq Rule /\ dns' \subseteq Nic
      /\ routes' \in (Device \X Device) \cup {None}
      BY <1>1, ActivateType DEF Apply, NotActivated, TypeOK
<1> QED BY <1>1, <1>2, <1>3 DEF Apply, TypeOK

LEMMA ChangeDNSType == ASSUME TypeOK, NEW p \in Session, ChangeDNS(p) PROVE TypeOK'
<1> DEFINE c == [Loaded EXCEPT !.managed = ~@]
<1>1. Loaded \in Config /\ c \in Config
      BY LoadableType, OtherMode DEF ChangeDNS
<1> HIDE DEF c
<1>2. backup' \in [cfg : Config, state : State] \cup {None}
      BY <1>1, BackupType DEF ChangeDNS, c
<1>3. /\ state' \in State /\ rules' \subseteq Rule /\ dns' \subseteq Nic
      /\ routes' \in (Device \X Device) \cup {None}
  <2>1. CASE Activate(c)
        BY <1>1, <2>1, ActivateType
  <2>2. CASE UNCHANGED <<state, rules, routes, dns>>
        BY <2>2 DEF TypeOK
  <2> QED BY <2>1, <2>2 DEF ChangeDNS, NotActivated, c
<1>4. configFile' \in Config
      BY <1>1 DEF ChangeDNS, c
<1>5. UNCHANGED <<device, pc, draft>>
      BY DEF ChangeDNS, session
<1> QED BY <1>2, <1>3, <1>4, <1>5 DEF TypeOK

\* Taking a configuration down leaves less of everything.
LEMMA TakeDownType ==
    ASSUME TypeOK, NEW c \in Config, TakeDown(c), DNSReturned(c) \/ DNSKept
    PROVE  /\ backup' \in [cfg : Config, state : State] \cup {None}
           /\ rules' \subseteq Rule /\ dns' \subseteq Nic
           /\ routes' \in (Device \X Device) \cup {None}
<1>1. backup' \in [cfg : Config, state : State] \cup {None}
      BY BackupType DEF TakeDown
<1> QED BY <1>1 DEF TakeDown, DeleteRules, DNSReturned, DNSKept, RevertDNS, TypeOK

LEMMA DisableType == ASSUME TypeOK, NEW p \in Session, Disable(p) PROVE TypeOK'
<1>1. Loaded \in Config
      BY LoadableType DEF Disable
<1>2. /\ backup' \in [cfg : Config, state : State] \cup {None}
      /\ rules' \subseteq Rule /\ dns' \subseteq Nic
      /\ routes' \in (Device \X Device) \cup {None}
      BY <1>1, TakeDownType DEF Disable
<1>3. \E b \in BOOLEAN : state' = [enabled |-> FALSE, dnsManaged |-> b]
      BY DEF Disable
<1>4. UNCHANGED <<configFile, device, pc, draft>>
      BY DEF Disable, session
<1> QED BY <1>2, <1>3, <1>4 DEF TypeOK, State

\* The snapshot of a rollback.
LEMMA SnapshotType ==
    ASSUME TypeOK, backup # None
    PROVE  backup.cfg \in Config /\ backup.state \in State
BY DEF TypeOK

LEMMA RestoreType ==
    ASSUME TypeOK, backup # None, NEW p \in Session, Restore(p)
    PROVE  /\ configFile' \in Config /\ state' \in State
           /\ pc' \in [Session -> {"idle", "setup", "activate"}]
           /\ pc'[p] # "setup" /\ \A q \in Session : q # p => pc'[q] = pc[q]
           /\ UNCHANGED <<device, draft>>
<1>1. backup.cfg \in Config /\ backup.state \in State
      BY SnapshotType
<1> QED BY <1>1 DEF Restore, State, TypeOK

LEMMA RollbackType == ASSUME TypeOK, NEW p \in Session, Rollback(p) PROVE TypeOK'
<1>1. CASE Restore(p) /\ UNCHANGED <<backup, rules, routes, dns>>
      BY <1>1, RestoreType DEF Rollback, TypeOK
<1>2. CASE Loadable /\ TakeDown(Loaded) /\ (DNSReturned(Loaded) \/ DNSKept)
  <2>1. Loaded \in Config
        BY <1>2, LoadableType
  <2>2. /\ backup' \in [cfg : Config, state : State] \cup {None}
        /\ rules' \subseteq Rule /\ dns' \subseteq Nic
        /\ routes' \in (Device \X Device) \cup {None}
        BY <1>2, <2>1, TakeDownType
  <2>3. CASE Restore(p)
        BY <2>2, <2>3, RestoreType DEF Rollback, TypeOK
  <2>4. CASE /\ state' = [enabled |-> FALSE, dnsManaged |-> TRUE]
             /\ UNCHANGED <<configFile, device, session>>
    <3>1. state' \in State
          BY <2>4 DEF State
    <3>2. UNCHANGED <<configFile, device, pc, draft>>
          BY <2>4 DEF session
    <3> QED BY <2>2, <3>1, <3>2 DEF TypeOK
  <2> QED BY <2>3, <2>4, <1>2 DEF Rollback, Restore
<1> QED BY <1>1, <1>2 DEF Rollback

LEMMA RebootType == ASSUME TypeOK, Reboot PROVE TypeOK'
<1>1. device' \in [Nic -> Device]
      BY DEF Reboot, TypeOK
<1>2. pc' \in [Session -> {"idle", "setup", "activate"}] /\ \A p \in Session : pc'[p] # "setup"
      BY DEF Reboot
<1>3. draft' \in [Session -> Draft \cup {None}]
      BY DEF Reboot
<1> QED BY <1>1, <1>2, <1>3 DEF Reboot, files, TypeOK

\* Every variable of Setup keeps its type.
THEOREM SetupTypeCorrect == Spec => []TypeOK
<1>1. Init => TypeOK
      BY SetupInitTypeOK
<1>2. TypeOK /\ [Next]_vars => TypeOK'
  <2> SUFFICES ASSUME TypeOK, [Next]_vars PROVE TypeOK'
      OBVIOUS
  <2>1. CASE UNCHANGED vars
        BY <2>1 DEF vars, files, host, session, TypeOK
  <2>2. ASSUME NEW p \in Session,
               \/ SetupStart(p) \/ SetupSave(p) \/ SetupAbort(p)
               \/ Apply(p) \/ ChangeDNS(p) \/ Disable(p) \/ Rollback(p)
        PROVE  TypeOK'
        BY <2>2, SetupStartType, SetupSaveType, SetupAbortType, ApplyType,
           ChangeDNSType, DisableType, RollbackType
  <2>3. CASE Reboot
        BY <2>3, RebootType
  <2> QED BY <2>1, <2>2, <2>3 DEF Next
<1> QED BY <1>1, <1>2, PTL DEF Spec

-----------------------------------------------------------------------------
(* What the configuration on file takes down *)

LEMMA SetupInitInv == ASSUME Careful, Init PROVE SetupInv
<1>1. PICK old \in Installed :
          /\ state = [enabled |-> old = "enabled", dnsManaged |-> FALSE]
          /\ rules = IF old = "enabled"
                     THEN {rule \in RulesOf(configFile) : rule.name # "mainRoutes"}
                     ELSE {}
      BY DEF Init
<1>2. old # "enabled"
      BY DEF Careful
<1>3. ~state.enabled /\ ~state.dnsManaged /\ rules = {}
      BY <1>1, <1>2
<1> QED BY <1>3 DEF Init, SetupInv, RulesOK, DNSOK, WizardOK

\* Rules and DNS settings are covered by the configuration that is loaded.
LEMMA Covered ==
    ASSUME TypeOK, SetupInv, Loadable
    PROVE  /\ rules \subseteq RulesOf(Loaded) /\ dns \subseteq Names(Loaded)
           /\ ~state.enabled => rules = {}
<1>1. Names(Loaded) = Names(configFile)
      BY LoadableType, LoadedType DEF Names
<1> QED BY <1>1 DEF SetupInv, RulesOK, DNSOK

\* A configuration that is put in force over the rules and DNS settings of one
\* that differs by its DNS mode at most.
LEMMA ActivateInv ==
    ASSUME TypeOK, SetupInv, NEW c \in Config, Valid(c), Activate(c), configFile' = c,
           rules \subseteq RulesOf(c), dns \subseteq Names(c)
    PROVE  RulesOK' /\ DNSOK'
<1>1. Loadable' /\ Loaded' = c
      BY SavedIsLoaded
<1>2. rules' = RulesOf(c)
      BY Switched DEF Activate
<1>3. state'.enabled /\ state'.dnsManaged = c.managed
      BY DEF Activate
<1>4. RulesOf(Loaded)' = RulesOf(c)
      BY <1>1 DEF RulesOf
<1>5. dns' \subseteq Names(c) /\ (~c.managed => dns' = {})
  <2>1. c.managed \in BOOLEAN
        BY DEF Config
  <2>2. CASE c.managed
        BY <2>2 DEF Activate
  <2>3. CASE ~c.managed /\ state.dnsManaged
        BY <2>3 DEF Activate
  <2>4. CASE ~c.managed /\ ~state.dnsManaged
        BY <2>4 DEF Activate, SetupInv, DNSOK
  <2> QED BY <2>1, <2>2, <2>3, <2>4
<1>6. Names(configFile)' = Names(c) /\ c # None
      BY NoneAssumption DEF Names
<1> QED BY <1>1, <1>2, <1>3, <1>4, <1>5, <1>6 DEF RulesOK, DNSOK

\* Such a configuration is saved and nothing else happens.
LEMMA KeptInv ==
    ASSUME TypeOK, SetupInv, Loadable, NEW c \in Config, Valid(c), configFile' = c,
           RulesOf(c) = RulesOf(Loaded), Names(c) = Names(Loaded),
           UNCHANGED <<state, rules, dns>>
    PROVE  RulesOK' /\ DNSOK'
<1>1. Loadable' /\ Loaded' = c
      BY SavedIsLoaded
<1>2. RulesOf(Loaded)' = RulesOf(c) /\ Names(configFile)' = Names(c) /\ c # None
      BY <1>1, NoneAssumption DEF RulesOf, Names
<1>3. dns \subseteq Names(Loaded)
      BY Covered
<1> QED BY <1>1, <1>2, <1>3 DEF SetupInv, RulesOK, DNSOK

LEMMA ApplyInv ==
    ASSUME Careful, TypeOK, SetupInv, NEW p \in Session, Apply(p)
    PROVE  SetupInv'
<1>1. Loadable /\ Loaded \in Config /\ Valid(Loaded)
      BY LoadableType DEF Apply
<1>2. rules \subseteq RulesOf(Loaded) /\ dns \subseteq Names(Loaded)
      BY <1>1, Covered
<1>3. RulesOK' /\ DNSOK'
  <2>1. CASE Activate(Loaded)
        BY <1>1, <1>2, <2>1, ActivateInv DEF Apply
  <2>2. CASE NotActivated(Loaded)
        BY <1>1, <2>2, KeptInv DEF Apply, NotActivated
  <2> QED BY <2>1, <2>2 DEF Apply
<1>4. WizardOK'
      BY DEF Apply, Careful, WizardOK, TypeOK
<1> QED BY <1>3, <1>4 DEF SetupInv

LEMMA ChangeDNSInv ==
    ASSUME Careful, TypeOK, SetupInv, NEW p \in Session, ChangeDNS(p)
    PROVE  SetupInv'
<1> DEFINE c == [Loaded EXCEPT !.managed = ~@]
<1>1. Loadable /\ Loaded \in Config /\ Valid(Loaded)
      BY LoadableType DEF ChangeDNS
<1>2. /\ c \in Config /\ Valid(c)
      /\ RulesOf(c) = RulesOf(Loaded) /\ Names(c) = Names(Loaded)
      BY <1>1, OtherMode
<1>3. rules \subseteq RulesOf(c) /\ dns \subseteq Names(c)
      BY <1>1, <1>2, Covered
<1>4. RulesOK' /\ DNSOK'
  <2>1. \/ configFile' = c /\ UNCHANGED <<state, rules, dns>>
        \/ configFile' = c /\ Activate(c)
        \/ configFile' = Loaded /\ UNCHANGED <<state, rules, dns>>
        BY DEF ChangeDNS, NotActivated
  <2> HIDE DEF c
  <2> QED BY <2>1, <1>1, <1>2, <1>3, ActivateInv, KeptInv
<1>5. WizardOK'
      BY DEF ChangeDNS, Ready, Careful, WizardOK, session
<1> QED BY <1>4, <1>5 DEF SetupInv

\* Nothing is left of a configuration that is taken down with its DNS.
LEMMA TakenDown ==
    ASSUME TypeOK, SetupInv, Loadable, TakeDown(Loaded)
    PROVE  rules' = {} /\ (DNSReturned(Loaded) => dns' = {})
<1>1. rules \subseteq RulesOf(Loaded) /\ dns \subseteq Names(Loaded)
          /\ (~state.enabled => rules = {})
      BY Covered
<1>2. rules' = {}
      BY <1>1, PlacedAll DEF TakeDown, DeleteRules
<1>3. ASSUME DNSReturned(Loaded) PROVE dns' = {}
      BY <1>1, <1>3 DEF DNSReturned, RevertDNS, SetupInv, DNSOK
<1> QED BY <1>2, <1>3

LEMMA DisableInv ==
    ASSUME Careful, TypeOK, SetupInv, NEW p \in Session, Disable(p)
    PROVE  SetupInv'
<1>1. rules' = {} /\ (DNSReturned(Loaded) => dns' = {}) /\ ~state'.enabled
      BY TakenDown DEF Disable
<1>2. DNSOK'
  <2>1. CASE DNSReturned(Loaded)
        BY <1>1, <2>1 DEF DNSOK
  <2>2. CASE DNSKept /\ state' = [enabled |-> FALSE, dnsManaged |-> TRUE]
        BY <2>2 DEF DNSKept, Disable, SetupInv, DNSOK, Names
  <2> QED BY <2>1, <2>2 DEF Disable
<1>3. WizardOK'
      BY DEF Disable, Ready, Careful, WizardOK, session
<1> QED BY <1>1, <1>2, <1>3 DEF SetupInv, RulesOK

LEMMA RollbackInv ==
    ASSUME Careful, TypeOK, SetupInv, NEW p \in Session, Rollback(p)
    PROVE  SetupInv'
<1>1. \A q \in Session : pc'[q] # "setup"
  <2>1. pc[p] = "idle" /\ \A q \in Session : q = p
        BY DEF Rollback, Ready, Careful
  <2>2. CASE Restore(p)
        BY <2>1, <2>2, RestoreType DEF Rollback
  <2>3. CASE UNCHANGED session
        BY <2>1, <2>3 DEF session
  <2> QED BY <2>2, <2>3 DEF Rollback
<1>2. CASE ~state.enabled /\ Restore(p) /\ UNCHANGED <<backup, rules, routes, dns>>
  <2>1. rules = {} /\ dns = {}
        BY <1>2 DEF Rollback, MovesOn, Careful, SetupInv, RulesOK, DNSOK
  <2>2. ~state'.enabled
        BY <1>2, SnapshotType DEF Rollback, Restore, State
  <2> QED BY <1>1, <1>2, <2>1, <2>2 DEF SetupInv, RulesOK, DNSOK, WizardOK
<1>3. CASE Loadable /\ TakeDown(Loaded) /\ DNSReturned(Loaded) /\ Restore(p)
  <2>1. rules' = {} /\ dns' = {}
        BY <1>3, TakenDown
  <2>2. ~state'.enabled
        BY <1>3, SnapshotType DEF Rollback, Restore, State
  <2> QED BY <1>1, <2>1, <2>2 DEF SetupInv, RulesOK, DNSOK, WizardOK
<1>4. CASE /\ Loadable /\ TakeDown(Loaded) /\ DNSKept
           /\ state' = [enabled |-> FALSE, dnsManaged |-> TRUE]
           /\ UNCHANGED configFile
  <2>1. rules' = {}
        BY <1>4, TakenDown
  <2>2. DNSOK'
        BY <1>4 DEF DNSKept, SetupInv, DNSOK, Names
  <2> QED BY <1>1, <1>4, <2>1, <2>2 DEF SetupInv, RulesOK, WizardOK
<1> QED BY <1>2, <1>3, <1>4 DEF Rollback

LEMMA SetupNextInv == ASSUME Careful, TypeOK, SetupInv, [Next]_vars PROVE SetupInv'
<1>1. CASE UNCHANGED vars
  <2>1. UNCHANGED <<configFile, state, rules, dns, pc>>
        BY <1>1 DEF vars, files, host, session
  <2> QED BY <2>1 DEF SetupInv, RulesOK, DNSOK, WizardOK, Loadable, Loaded, RulesOf, Names
<1>2. ASSUME NEW p \in Session, SetupStart(p) PROVE SetupInv'
  <2>1. UNCHANGED <<configFile, state, rules, dns>>
        BY <1>2 DEF SetupStart, files, host
  <2>2. WizardOK'
        BY <1>2, <2>1 DEF SetupStart, MovesOn, Careful, WizardOK
  <2> QED BY <2>1, <2>2 DEF SetupInv, RulesOK, DNSOK, Loadable, Loaded, RulesOf, Names
<1>3. ASSUME NEW p \in Session, SetupSave(p) PROVE SetupInv'
  <2>1. ~state.enabled /\ rules = {} /\ dns = {}
        BY <1>3 DEF SetupSave, SetupInv, RulesOK, DNSOK, WizardOK
  <2>2. UNCHANGED <<state, rules, dns>>
        BY <1>3 DEF SetupSave, host
  <2>3. WizardOK'
        BY <1>3 DEF SetupSave, Careful, WizardOK, TypeOK
  <2> QED BY <2>1, <2>2, <2>3 DEF SetupInv, RulesOK, DNSOK
<1>4. ASSUME NEW p \in Session, SetupAbort(p) PROVE SetupInv'
  <2>1. UNCHANGED <<configFile, state, rules, dns>>
        BY <1>4 DEF SetupAbort, files, host
  <2>2. WizardOK'
        BY <1>4, <2>1 DEF SetupAbort, Careful, WizardOK, TypeOK
  <2> QED BY <2>1, <2>2 DEF SetupInv, RulesOK, DNSOK, Loadable, Loaded, RulesOf, Names
<1>5. CASE Reboot
  <2>1. /\ UNCHANGED <<configFile, state>> /\ rules' = {} /\ dns' = {}
        /\ \A p \in Session : pc'[p] # "setup"
        BY <1>5 DEF Reboot, files
  <2> QED BY <2>1 DEF SetupInv, RulesOK, DNSOK, WizardOK, Loadable, Loaded
<1> QED BY <1>1, <1>2, <1>3, <1>4, <1>5, ApplyInv, ChangeDNSInv, DisableInv,
           RollbackInv DEF Next

LEMMA SetupInvariant == ASSUME Careful PROVE Spec => [](TypeOK /\ SetupInv)
<1>1. Init => SetupInv
      BY SetupInitInv
<1>2. TypeOK /\ SetupInv /\ [Next]_vars => SetupInv'
      BY SetupNextInv
<1> QED BY <1>1, <1>2, SetupTypeCorrect, PTL DEF Spec

\* One operator who heeds what disable says can always disable: the
\* configuration on file covers every rule and DNS setting there is.
THEOREM UndoCoversAllCorrect == ASSUME Careful PROVE Spec => []UndoCoversAll
<1>1. TypeOK /\ SetupInv => UndoCoversAll
      BY Covered DEF SetupInv, RulesOK, UndoCoversAll
<1> QED BY <1>1, SetupInvariant, PTL

\* A host on record as disabled, with no DNS to give back, has nothing left of
\* any configuration it ever had.
THEOREM DisabledMeansCleanCorrect ==
    ASSUME Careful
    PROVE  Spec => []DisabledMeansClean
<1>1. SetupInv => DisabledMeansClean
      BY DEF SetupInv, RulesOK, DNSOK, DisabledMeansClean
<1> QED BY <1>1, SetupInvariant, PTL

\* Rules that are in force come in their order before the system's.
THEOREM RulesEffectiveCorrect == ASSUME Careful PROVE Spec => []RulesEffective
<1>1. TypeOK /\ SetupInv => RulesEffective
  <2> SUFFICES ASSUME TypeOK, SetupInv, rules # {} PROVE RulesEffective
      BY DEF RulesEffective
  <2>1. Loadable /\ rules = RulesOf(Loaded)
        BY DEF SetupInv, RulesOK
  <2>2. Valid(Loaded)
        BY <2>1 DEF Loadable
  <2> DEFINE rule(r) == [name |-> r, at |-> Loaded.routing[r],
                         link |-> IF r = "source" THEN Loaded.local.name ELSE None]
  <2>3. rules = {rule("mainRoutes"), rule("source"), rule("main")}
        BY <2>1 DEF RulesOf, RuleName
  <2> QED BY <2>2, <2>3 DEF RulesEffective, Valid
<1> QED BY <1>1, SetupInvariant, PTL

-----------------------------------------------------------------------------
(* Traffic by the devices that were chosen *)

\* The pinned links of a configuration lead to its devices.
Follows(rs, c) ==
    /\ c.local.pinned => rs[1] = c.local.device
    /\ c.international.pinned => rs[2] = c.international.device

\* Tables are in force on record only, and for the links on file.
LiveInv == routes # None => state.enabled /\ Follows(routes, configFile)

\* A configuration with the same links.
LEMMA SameLinks ==
    ASSUME NEW c, NEW d, NEW rs, c.local = d.local, c.international = d.international
    PROVE  Follows(rs, c) <=> Follows(rs, d)
BY DEF Follows

\* Preflight has found the devices of the links that are pinned.
LEMMA ActivateLive ==
    ASSUME NEW c, Activate(c)
    PROVE  state'.enabled /\ Follows(routes', c)
<1>1. /\ c.local.pinned => device[c.local.name] = c.local.device
      /\ c.international.pinned => device[c.international.name] = c.international.device
      BY DEF Activate, Preflight
<1> QED BY <1>1 DEF Activate, Devices, Follows

LEMMA LiveApply == ASSUME TypeOK, LiveInv, NEW p \in Session, Apply(p) PROVE LiveInv'
<1>1. Loaded.local = configFile.local /\ Loaded.international = configFile.international
      BY LoadableType, LoadedType DEF Apply
<1>2. configFile' = Loaded
      BY DEF Apply
<1>3. CASE Activate(Loaded)
      BY <1>2, <1>3, ActivateLive DEF LiveInv
<1>4. CASE UNCHANGED <<state, routes>>
      BY <1>1, <1>2, <1>4, SameLinks DEF LiveInv
<1> QED BY <1>3, <1>4 DEF Apply, NotActivated

LEMMA LiveChangeDNS ==
    ASSUME TypeOK, LiveInv, NEW p \in Session, ChangeDNS(p)
    PROVE  LiveInv'
<1> DEFINE c == [Loaded EXCEPT !.managed = ~@]
<1>1. /\ Loaded \in Config
      /\ Loaded.local = configFile.local /\ Loaded.international = configFile.international
      BY LoadableType, LoadedType DEF ChangeDNS
<1>2. c.local = Loaded.local /\ c.international = Loaded.international
      BY <1>1, OtherMode
<1>3. \/ configFile' = c /\ UNCHANGED <<state, routes>>
      \/ configFile' = c /\ Activate(c)
      \/ configFile' = Loaded /\ UNCHANGED <<state, routes>>
      BY DEF ChangeDNS, NotActivated
<1> HIDE DEF c
<1>4. CASE configFile' = c /\ Activate(c)
      BY <1>4, ActivateLive DEF LiveInv
<1>5. CASE configFile' \in {c, Loaded} /\ UNCHANGED <<state, routes>>
      BY <1>1, <1>2, <1>5, SameLinks DEF LiveInv
<1> QED BY <1>3, <1>4, <1>5

\* Nothing is in force after a disable.
LEMMA LiveTakeDown == ASSUME LiveInv, TakeDown(Loaded) PROVE routes' = None
BY DEF TakeDown, LiveInv

\* Traffic in force leaves by the devices of the links that are pinned, whatever
\* names these have got.
THEOREM LiveOnChosenCorrect ==
    ASSUME Careful
    PROVE  Spec => []LiveOnChosen
<1>1. Init => LiveInv
      BY DEF Init, Careful, LiveInv
<1>2. TypeOK /\ SetupInv /\ LiveInv /\ [Next]_vars => LiveInv'
  <2> SUFFICES ASSUME TypeOK, SetupInv, LiveInv, [Next]_vars PROVE LiveInv'
      OBVIOUS
  <2>1. ASSUME UNCHANGED files, UNCHANGED routes \/ routes' = None PROVE LiveInv'
        BY <2>1 DEF files, LiveInv
  <2>2. CASE UNCHANGED vars
        BY <2>1, <2>2 DEF vars, host
  <2>3. ASSUME NEW p \in Session, SetupStart(p) \/ SetupAbort(p) PROVE LiveInv'
        BY <2>1, <2>3 DEF SetupStart, SetupAbort, host
  <2>4. ASSUME NEW p \in Session, SetupSave(p) PROVE LiveInv'
        BY <2>4 DEF SetupSave, SetupInv, WizardOK, host, LiveInv
  <2>5. ASSUME NEW p \in Session, Disable(p) PROVE LiveInv'
        BY <2>5, LiveTakeDown DEF Disable, LiveInv
  <2>6. ASSUME NEW p \in Session, Rollback(p) PROVE LiveInv'
    <3>1. CASE ~state.enabled /\ UNCHANGED routes
          BY <3>1 DEF LiveInv
    <3>2. CASE TakeDown(Loaded)
          BY <3>2, LiveTakeDown DEF LiveInv
    <3> QED BY <2>6, <3>1, <3>2 DEF Rollback
  <2>7. CASE Reboot
        BY <2>1, <2>7 DEF Reboot
  <2> QED BY <2>2, <2>3, <2>4, <2>5, <2>6, <2>7, LiveApply, LiveChangeDNS DEF Next
<1>3. LiveInv => LiveOnChosen
      BY DEF LiveInv, Follows, LiveOnChosen
<1> QED BY <1>1, <1>2, <1>3, SetupInvariant, PTL DEF Spec
=============================================================================
