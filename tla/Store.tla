-------------------------------- MODULE Store --------------------------------
(***************************************************************************)
(* internal/store/store.go: the files of irroute as several processes read *)
(* and replace them, most of them without the lock, while processes are    *)
(* killed and the power fails.  writeFileAtomic goes step by step over a   *)
(* file system of inodes and directory entries.                            *)
(***************************************************************************)
EXTENDS Naturals

CONSTANTS
    Proc,       \* processes that run an irroute command
    File,       \* config.json, state.json, the CIDR list
    Value,      \* what a file or a snapshot may say
    Inode,      \* the inodes of the file system
    MaxStamp,   \* bound: so many snapshots are taken
    ClockBack,  \* TRUE: the clock may be set back
    None        \* no value, no inode

ASSUME NameAssumption == None \notin Nat /\ \A f \in File : f \notin Nat
ASSUME NoneAssumption == None \notin Value \cup Inode
ASSUME BoundAssumption == MaxStamp \in Nat /\ ClockBack \in BOOLEAN

VARIABLES
    data,       \* per inode, the bytes that a reader sees
    synced,     \* the inodes whose bytes are on the disk
    entry,      \* per name, the inode that it stands for, or None
    onDisk,     \* per name, the entries that a power loss may leave
    temp,       \* the inodes that have a temporary name
    pc,         \* per process, where its call is
    file,       \* per process, the inode that it has open
    target,     \* per process, the name that it writes
    text,       \* per process, the value that it writes
    result,     \* per process, how its last call ended
    clock,      \* the last timestamp given to a snapshot
    taken,      \* history: per snapshot, those there when it was begun
    orphans     \* history: temporary files of processes that were killed

disk == <<data, synced, entry, onDisk, temp>>
call == <<pc, file, target, text, result>>
history == <<clock, taken, orphans>>
vars == <<disk, call, history>>

-----------------------------------------------------------------------------
(* Names, contents and results *)

\* A snapshot's name is its timestamp; names sort as the timestamps do.
Stamp == 1..MaxStamp
Name == File \cup Stamp

\* Torn is a file that is empty or cut off.
Missing == [fill |-> "missing", value |-> None]
Torn == [fill |-> "torn", value |-> None]
Whole(v) == [fill |-> "whole", value |-> v]
Version == {Whole(v) : v \in Value}

Shown(i) == IF i = None THEN Missing ELSE data[i]

NoResult == [status |-> "none", text |-> Missing]
Ok == [status |-> "ok", text |-> Missing]
Error == [status |-> "error", text |-> Missing]
Got(c) == [status |-> "read", text |-> c]

\* The points of writeFileAtomic after CreateTemp, Write and Sync, and a file
\* that is open for reading.
Writing == {"created", "written", "synced"}
Point == {"idle", "reading"} \cup Writing

Init ==
    /\ data = [i \in Inode |-> Torn]
    /\ synced = {}
    /\ entry = [n \in Name |-> None]
    /\ onDisk = [n \in Name |-> {None}]
    /\ temp = {}
    /\ pc = [p \in Proc |-> "idle"]
    /\ file = [p \in Proc |-> None]
    /\ target = [p \in Proc |-> None]
    /\ text = [p \in Proc |-> None]
    /\ result = [p \in Proc |-> NoResult]
    /\ clock = 0
    /\ taken = [s \in Stamp |-> {}]
    /\ orphans = {}

Continue(p, point) ==
    /\ pc' = [pc EXCEPT ![p] = point]
    /\ UNCHANGED <<file, target, text, result>>

\* The call returns: its file is closed and its locals are gone.
Finish(p, r) ==
    /\ pc' = [pc EXCEPT ![p] = "idle"]
    /\ file' = [file EXCEPT ![p] = None]
    /\ target' = [target EXCEPT ![p] = None]
    /\ text' = [text EXCEPT ![p] = None]
    /\ result' = [result EXCEPT ![p] = r]

-----------------------------------------------------------------------------
(* Writing *)

\* An inode is free when no name, open file or old entry refers to it.
Free == {i \in Inode : /\ i \notin temp
                       /\ \A p \in Proc : file[p] # i
                       /\ \A n \in Name : i \notin onDisk[n]}

InPlace(n) == IF entry[n] = None THEN Free ELSE {entry[n]}          \* mutant

\* What a new version of file n may be written to.
Fresh(n) == Free

\* EnsureDirectories, CreateTemp and Chmod: an empty file under its own name.
CreateTemp(p, n, v) ==
    /\ pc[p] = "idle"
    /\ \E i \in Fresh(n) :
          /\ data' = [data EXCEPT ![i] = Torn]
          /\ synced' = synced \ {i}
          /\ temp' = temp \cup {i}
          /\ file' = [file EXCEPT ![p] = i]
    /\ pc' = [pc EXCEPT ![p] = "created"]
    /\ target' = [target EXCEPT ![p] = n]
    /\ text' = [text EXCEPT ![p] = v]
    /\ result' = [result EXCEPT ![p] = NoResult]
    /\ UNCHANGED <<entry, onDisk, orphans>>

\* SaveConfig, SaveState, RestoreData and, of a source that it could read and
\* found usable, ImportIranCIDRs.
Save(p, n, v) ==
    /\ CreateTemp(p, n, v)
    /\ UNCHANGED <<clock, taken>>

\* WriteSnapshot names the file by the time, to the nanosecond: no two snapshots
\* get the same name.
WriteSnapshot(p, v) ==
    \E s \in IF ClockBack THEN Stamp ELSE Stamp \cap {clock + 1} :
        /\ entry[s] = None
        /\ \A q \in Proc : target[q] # s
        /\ CreateTemp(p, s, v)
        /\ clock' = s
        /\ taken' = [taken EXCEPT ![s] = {m \in Stamp : entry[m] # None}]

\* No directory, no space, no snapshot, or a source without a usable network.
Refuse(p) ==
    /\ pc[p] = "idle"
    /\ Finish(p, Error)
    /\ UNCHANGED <<disk, history>>

Write(p) ==
    /\ pc[p] = "created"
    /\ data' = [data EXCEPT ![file[p]] = Whole(text[p])]
    /\ Continue(p, "written")
    /\ UNCHANGED <<synced, entry, onDisk, temp, history>>

SyncSkipped(p) ==                                                   \* mutant
    /\ pc[p] = "written"
    /\ Continue(p, "synced")
    /\ UNCHANGED <<disk, history>>

Sync(p) ==
    /\ pc[p] = "written"
    /\ synced' = synced \cup {file[p]}
    /\ Continue(p, "synced")
    /\ UNCHANGED <<data, entry, onDisk, temp, history>>

\* The name now stands for the new file.  The directory is not flushed, so the
\* disk may still have the old entry.
Rename(p) ==
    /\ pc[p] = "synced"
    /\ entry' = [entry EXCEPT ![target[p]] = file[p]]
    /\ onDisk' = [onDisk EXCEPT ![target[p]] = @ \cup {file[p]}]
    /\ temp' = temp \ {file[p]}
    /\ Finish(p, Ok)
    /\ UNCHANGED <<data, synced, history>>

FailKeepsTemp(p) ==                                                 \* mutant
    /\ pc[p] \in Writing
    /\ Finish(p, Error)
    /\ UNCHANGED <<disk, history>>

\* Write, Sync, Close or Rename fails; the deferred Remove deletes the file.
WriteFails(p) ==
    /\ pc[p] \in Writing
    /\ temp' = temp \ {file[p]}
    /\ Finish(p, Error)
    /\ UNCHANGED <<data, synced, entry, onDisk, history>>

-----------------------------------------------------------------------------
(* Reading *)

\* The file is opened, or there is none: LoadState then returns the default
\* state and the other loads an error.
Open(p, n) ==
    /\ pc[p] = "idle"
    /\ IF entry[n] = None
       THEN Finish(p, Got(Missing))
       ELSE /\ pc' = [pc EXCEPT ![p] = "reading"]
            /\ file' = [file EXCEPT ![p] = entry[n]]
            /\ UNCHANGED <<target, text, result>>
    /\ UNCHANGED <<disk, history>>

Load(p) == \E n \in File : Open(p, n)

LoadOldest(p) ==                                                    \* mutant
    \E s \in Stamp :
        /\ entry[s] # None
        /\ \A m \in Stamp : entry[m] # None => s <= m
        /\ Open(p, s)

\* LoadSnapshot("latest"): of the names that Glob finds, the one that sorts last.
LoadLatest(p) ==
    \E s \in Stamp :
        /\ entry[s] # None
        /\ \A m \in Stamp : entry[m] # None => m <= s
        /\ Open(p, s)

\* The file is read and decoded.  JSON that is cut off is an error, a CIDR list
\* that is cut off is a shorter list.
Decode(p) ==
    /\ pc[p] = "reading"
    /\ \/ Finish(p, Got(data[file[p]]))
       \/ Finish(p, Error)
    /\ UNCHANGED <<disk, history>>

-----------------------------------------------------------------------------
(* The environment *)

\* A killed process leaves its temporary file, which nothing ever removes.
Kill(p) ==
    /\ pc[p] # "idle"
    /\ orphans' = orphans \cup (temp \cap {file[p]})
    /\ Finish(p, NoResult)
    /\ UNCHANGED <<disk, clock, taken>>

\* The file system writes a directory entry in its own time.
Settle(n) ==
    /\ onDisk' = [onDisk EXCEPT ![n] = {entry[n]}]
    /\ UNCHANGED <<data, synced, entry, temp, call, history>>

\* Bytes that were not flushed may be lost; so may entries that were made since
\* the directory was last written, temporary ones included.
PowerLoss ==
    /\ \E left \in [Name -> UNION {onDisk[n] : n \in Name}] :
          /\ \A n \in Name : left[n] \in onDisk[n]
          /\ entry' = left
          /\ onDisk' = [n \in Name |-> {left[n]}]
    /\ \E lost \in SUBSET (Inode \ synced) :
          data' = [i \in Inode |-> IF i \in lost THEN Torn ELSE data[i]]
    /\ temp' \in SUBSET temp
    /\ orphans' = temp'
    /\ synced' = Inode
    /\ pc' = [p \in Proc |-> "idle"]
    /\ file' = [p \in Proc |-> None]
    /\ target' = [p \in Proc |-> None]
    /\ text' = [p \in Proc |-> None]
    /\ result' = [p \in Proc |-> NoResult]
    /\ UNCHANGED <<clock, taken>>

WriteStep(p) == Write(p) \/ Sync(p) \/ Rename(p) \/ WriteFails(p)
ReadStep(p) == Load(p) \/ LoadLatest(p) \/ Decode(p)

Next ==
    \/ \E p \in Proc, n \in File, v \in Value : Save(p, n, v)
    \/ \E p \in Proc, v \in Value : WriteSnapshot(p, v)
    \/ \E p \in Proc : Refuse(p) \/ WriteStep(p) \/ ReadStep(p) \/ Kill(p)
    \/ \E n \in Name : Settle(n)
    \/ PowerLoss

Spec == Init /\ [][Next]_vars

-----------------------------------------------------------------------------
(* Properties *)

TypesOK ==
    /\ data \in [Inode -> Version \cup {Torn}]
    /\ synced \subseteq Inode
    /\ entry \in [Name -> Inode \cup {None}]
    /\ onDisk \in [Name -> SUBSET (Inode \cup {None})]
    /\ temp \subseteq Inode
    /\ pc \in [Proc -> Point]
    /\ file \in [Proc -> Inode \cup {None}]
    /\ target \in [Proc -> Name \cup {None}]
    /\ text \in [Proc -> Value \cup {None}]
    /\ result \in [Proc -> {NoResult, Ok, Error}
                              \cup {Got(c) : c \in Version \cup {Missing}}]
    /\ clock \in Stamp \cup {0}
    /\ taken \in [Stamp -> SUBSET Stamp]
    /\ orphans \subseteq Inode

\* What a name stands for, now or after a power loss, is whole and flushed.
Published(n) ==
    /\ entry[n] \in onDisk[n]
    /\ \A i \in onDisk[n] \ {None} :
          data[i] \in Version /\ i \in synced /\ i \notin temp

\* The file of a writer has no name but its temporary one and no other user.
Private(p) ==
    /\ file[p] \in temp
    /\ target[p] \in Name
    /\ text[p] \in Value
    /\ \A q \in Proc \ {p} : file[q] # file[p]
    /\ pc[p] \in {"written", "synced"} => data[file[p]] = Whole(text[p])
    /\ pc[p] = "synced" => file[p] \in synced

\* The file of a reader is whole and is nobody's temporary file.
Readable(p) ==
    /\ file[p] \in Inode \ temp
    /\ data[file[p]] \in Version

\* Every variable has its type; names stand for whole files; writers have theirs
\* to themselves; readers never have one that is being written.
TypeOK ==
    /\ TypesOK
    /\ \A n \in Name : Published(n)
    /\ \A p \in Proc :
          /\ pc[p] \in Writing => Private(p)
          /\ pc[p] = "reading" => Readable(p)
          /\ pc[p] = "idle" => file[p] = None

\* A call that failed, at whatever step, leaves no temporary file behind: those
\* in the directories belong to a running call or to a killed one
\* (store.go:324, the deferred Remove).
FailureLeavesNothing ==
    temp \subseteq orphans \cup {file[p] : p \in {q \in Proc : pc[q] \in Writing}}

\* "latest" never goes back past a snapshot: no snapshot that is there was begun
\* when the one it picks was there already (store.go:236-242).
NothingNewer(s) ==
    \A m \in Stamp : entry[m] # None => s \notin taken[m]
LatestIsNewest ==
    [][\A p \in Proc : LoadLatest(p) =>
           \A s \in Stamp : entry[s] # None /\ entry[s] = file'[p]
                                => NothingNewer(s)]_vars

\* Seen from outside, each file is a register, a reader's call takes effect when
\* it opens the file, and an error means that nothing was changed.
Registers == INSTANCE AtomicFiles WITH
    shown <- [n \in Name |-> Shown(entry[n])],
    durable <- [n \in Name |-> {Shown(i) : i \in onDisk[n]}],
    result <- [p \in Proc |-> IF pc[p] = "reading" THEN Got(data[file[p]])
                                                  ELSE result[p]]

\* Killed at any step, with the power lost at any time and other processes
\* reading and writing, the store keeps the promise (store.go:317, and
\* docs/architecture.md:42 for the generation on record).
ImplementsAtomicFiles == Registers!Spec
=============================================================================
