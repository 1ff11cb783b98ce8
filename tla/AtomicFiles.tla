----------------------------- MODULE AtomicFiles -----------------------------
(***************************************************************************)
(* What the store promises of its files: each is a register.  A file is    *)
(* replaced as a whole or not at all, whoever reads it gets one version    *)
(* that it held, and a power loss brings back a version that it held.  The *)
(* last version is not promised to survive: only the file is flushed, not  *)
(* the directory.                                                          *)
(***************************************************************************)
CONSTANTS
    Proc,       \* the processes that use the store
    Name,       \* file names
    Version,    \* what a file may hold
    Missing     \* there is no such file

VARIABLES
    shown,      \* per name, the version that a reader gets
    durable,    \* per name, the versions that a power loss may leave
    result      \* per process, how its last call ended

vars == <<shown, durable, result>>

NoResult == [status |-> "none", text |-> Missing]
Ok == [status |-> "ok", text |-> Missing]
Error == [status |-> "error", text |-> Missing]
Got(v) == [status |-> "read", text |-> v]

Init ==
    /\ shown = [n \in Name |-> Missing]
    /\ durable = [n \in Name |-> {Missing}]
    /\ result = [p \in Proc |-> NoResult]

Return(p, r) == result' = [result EXCEPT ![p] = r]

\* The file is replaced, in the very step that reports it.
Write(p, n, v) ==
    /\ shown' = [shown EXCEPT ![n] = v]
    /\ durable' = [durable EXCEPT ![n] = @ \cup {v}]
    /\ Return(p, Ok)

\* A call that fails has changed no file; one that is killed neither.
Fail(p) == Return(p, Error) /\ UNCHANGED <<shown, durable>>
Forget(p) == Return(p, NoResult) /\ UNCHANGED <<shown, durable>>

Read(p, n) == Return(p, Got(shown[n])) /\ UNCHANGED <<shown, durable>>

\* The file system gets round to writing a directory entry.
Settle(n) ==
    /\ durable' = [durable EXCEPT ![n] = {shown[n]}]
    /\ UNCHANGED <<shown, result>>

PowerLoss ==
    /\ \E left \in [Name -> Version \cup {Missing}] :
          /\ \A n \in Name : left[n] \in durable[n]
          /\ shown' = left
          /\ durable' = [n \in Name |-> {left[n]}]
    /\ result' = [p \in Proc |-> NoResult]

Next ==
    \/ \E p \in Proc : Fail(p) \/ Forget(p)
    \/ \E p \in Proc, n \in Name : Read(p, n)
    \/ \E p \in Proc, n \in Name, v \in Version : Write(p, n, v)
    \/ \E n \in Name : Settle(n)
    \/ PowerLoss

Spec == Init /\ [][Next]_vars
=============================================================================
