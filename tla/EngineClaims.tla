---------------------------- MODULE EngineClaims ----------------------------
(***************************************************************************)
(* Sentences of the documentation that the engine does not live up to, each*)
(* checked with the one fault (or none) under which it fails.              *)
(***************************************************************************)
EXTENDS Engine

\* "This timer runs independently from the SSH session.  A lost session
\* therefore does not prevent rollback." (docs/architecture.md:54): a rollback
\* that reports success has taken the rules of the change with it.
LostSessionRollback ==
    [][\A p \in Proc :
          RollbackSucceeds(p) /\ ~snapshots[frame[p].snap].state.enabled
              => LiveSlot' = {}]_vars

\* "Disable removes only the three managed rules and flushes only the three
\* reserved routing tables." (docs/test-server.md:117): a disable that reports
\* success has removed them.
DisableRemovesRules ==
    [][\A p \in Proc : DisableSucceeds(p) => LiveSlot' = {}]_vars

\* The same sentence: a disable removes no rule that another program has added
\* at one of the three priorities.
DisableOnlyManaged ==
    [][\A p \in Proc, r \in RuleName :
          pc[p] \in {"dMainRoutes", "dSource", "dMain"} =>
              ("foreign" \in Range(rules[r]) => "foreign" \in Range(rules'[r]))]_vars

\* "A new route generation is loaded into an inactive A/B table before the
\* active rule is switched." (README.md:23): the table that the first main rule
\* looks up is not the one apply flushes and loads.
InactiveTableLoaded ==
    \A p \in Proc :
        pc[p] \in {"flush", "load"} /\ rules["main"] # <<>>
            => Head(rules["main"]) # Target(frame[p].prev)

\* "Disable and rollback restore the network-provided per-link DNS
\* configuration." (README.md:157): after a rollback to a disabled system that
\* reports success DNS is the network's.
RollbackRevertsDNS ==
    [][\A p \in Proc :
          RollbackSucceeds(p) /\ ~snapshots[frame[p].snap].state.enabled
              => dns' = "system"]_vars

\* "Traffic sourced from the public local address always returns through the
\* local public gateway." (README.md:22): whenever a main rule sends traffic to
\* an A/B table the source rule is there to take replies out of it.
RepliesAlwaysLocal == LiveSlot # {} => "Local" \in Range(rules["source"])

\* "live rules match saved state" (engine.go:259, of doctor, while the record
\* says enabled): the three rules are there and are the recorded ones.
DoctorHonest ==
    LockFree /\ stateFile.enabled /\ HostAccepts(stateFile)
        => \A r \in RuleName : Expected(r, stateFile) \in Range(rules[r])
=============================================================================
