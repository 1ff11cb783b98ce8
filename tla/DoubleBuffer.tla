---------------------------- MODULE DoubleBuffer ----------------------------
(***************************************************************************)
(* What the A/B tables promise, without a word about how: one slot at most *)
(* is selected, a generation is built where nobody looks, and a selection  *)
(* only ever falls on a slot that is fit to be looked at.                  *)
(***************************************************************************)
CONSTANTS
    Slot,           \* the two buffers
    Generation,     \* complete contents
    Blank,          \* contents of an empty slot
    Broken,         \* contents of a slot that is half written
    Off             \* no slot

VARIABLES
    content,        \* per slot, what it holds
    selected,       \* the slot that readers follow, or Off
    recorded        \* the slot that is on record, or Off

vars == <<content, selected, recorded>>

Init ==
    /\ content = [s \in Slot |-> Blank]
    /\ selected = Off
    /\ recorded = Off

\* A slot that is neither followed nor on record is written, in any number of
\* steps and with any result.
Build(s) ==
    /\ s # selected
    /\ s # recorded
    /\ content' \in {[content EXCEPT ![s] = c] :
                        c \in Generation \cup {Blank, Broken}}
    /\ UNCHANGED <<selected, recorded>>

\* With no slot selected any slot may be emptied, not always completely.
Clear(s) ==
    /\ selected = Off
    /\ content' \in {[content EXCEPT ![s] = c] : c \in {Blank, Broken}}
    /\ UNCHANGED <<selected, recorded>>

\* A new generation is followed, or the one on record again.
Select(s) ==
    /\ selected = Off
    /\ content[s] \in Generation \/ (s = recorded /\ content[s] = Blank)
    /\ selected' = s
    /\ UNCHANGED <<content, recorded>>

Unselect ==
    /\ selected # Off
    /\ selected' = Off
    /\ UNCHANGED <<content, recorded>>

\* What goes on record is what is followed.
Record ==
    /\ recorded' = selected
    /\ UNCHANGED <<content, selected>>

\* The machine restarts: the record outlives the slots.
Lose ==
    /\ content' = [s \in Slot |-> Blank]
    /\ selected' = Off
    /\ UNCHANGED recorded

Next ==
    \/ \E s \in Slot : Build(s) \/ Clear(s) \/ Select(s)
    \/ Unselect
    \/ Record
    \/ Lose

Spec == Init /\ [][Next]_vars
=============================================================================
