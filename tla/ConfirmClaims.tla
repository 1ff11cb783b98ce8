---------------------------- MODULE ConfirmClaims ----------------------------
(***************************************************************************)
(* Sentences of the documentation that the application does not live up    *)
(* to, each checked with the one circumstance under which it fails.        *)
(***************************************************************************)
EXTENDS Confirm

\* "The operator must type CONFIRM within 90 seconds or the previous snapshot is
\* restored after 120 seconds." (README.md:26): what is activated for
\* confirmation and not confirmed does not stay.
UnconfirmedRestored == UnconfirmedUndone

\* "If connectivity is lost or confirmation is not entered, systemd restores the
\* pre-change snapshot" (docs/test-server.md:94): with it returns the policy, or
\* the absence of one, of the time before the change.
PreChangeRestored == PreviousRestored

\* "Type CONFIRM within 90 seconds to keep this configuration" (app.go:699): no
\* timer takes it away again.
ConfirmKeeps == ConfirmedStays

\* "A concurrent apply, disable, or rollback is rejected instead of racing
\* another route generation." (docs/architecture.md:70): a command that was
\* rejected, and has put its file back, leaves the files of the generation that
\* won.
RejectedLeavesFiles ==
    [][\A p \in Session :
          Revert(p) /\ Quiet' /\ live # None => live = OnDisk']_vars

\* "When routing is enabled, importing data creates a new A/B generation and
\* requires confirmation." (README.md:322): between commands the list in the file
\* is the one in force.
ImportActivates == Quiet /\ live # None => live.data = dataFile

\* "Disable managed routing and boot persistence" (README.md:258): a disable that
\* reports success leaves no policy in force.
DisableRemovesPolicy == [][\A p \in Session : DisableEnd(p) => live' = None]_vars

\* "Roll back latest change" (app.go:106): after a confirmed change of the
\* files it brings back the generation before it.
LatestUndone ==
    [][\A p \in Session :
          RollbackLatestEnd(p) /\ verdict = "confirmed" /\ before \notin {None, live}
              => live' = before]_vars
=============================================================================
