------------------------------ MODULE StoreProofs ------------------------------
(***************************************************************************)
(* The store keeps its promise, for any processes, files, values, inodes   *)
(* and snapshots: its invariant, and the refinement of AtomicFiles.        *)
(***************************************************************************)
EXTENDS Store, TLAPS

\* The parts of TypeOK that speak of one process.
CallOK(p) ==
    /\ pc[p] \in Writing => Private(p)
    /\ pc[p] = "reading" => Readable(p)
    /\ pc[p] = "idle" => file[p] = None

-----------------------------------------------------------------------------
(* Lemmas *)

\* A value that is written whole is a version that may be read.
LEMMA WholeIsVersion == \A v \in Value : Whole(v) \in Version
BY DEF Version

\* The five points of a call are different.
LEMMA Points ==
    /\ Writing \subseteq Point
    /\ "idle" \in Point \ Writing /\ "reading" \in Point \ Writing
    /\ {"created", "written", "synced"} = Writing
    /\ \A x \in Point : x = "idle" \/ x = "reading" \/ x \in Writing
BY DEF Point, Writing

\* The names of files are not timestamps, and None is neither.
LEMMA Names == Stamp \subseteq Name /\ File \subseteq Name /\ None \notin Stamp
BY NameAssumption, BoundAssumption DEF Name, Stamp

\* What a name stands for is among the entries that a power loss may leave.
LEMMA EntryOnDisk == ASSUME TypeOK, NEW n \in Name PROVE entry[n] \in onDisk[n]
BY DEF TypeOK, Published

\* Such an entry is None or an inode with a version, and no temporary file.
LEMMA EntryShown ==
    ASSUME TypeOK, NEW n \in Name, NEW i \in onDisk[n]
    PROVE  /\ i # None => /\ i \in Inode /\ i \in synced /\ i \notin temp
                          /\ data[i] \in Version
           /\ Shown(i) \in Version \cup {Missing}
<1>1. onDisk[n] \subseteq Inode \cup {None}
      BY DEF TypeOK, TypesOK
<1>2. i # None => /\ i \in Inode /\ i \in synced /\ i \notin temp
                  /\ data[i] \in Version
      BY <1>1 DEF TypeOK, Published
<1> QED BY <1>2 DEF Shown

\* The file of a writer is open nowhere else and stands under no name.
LEMMA Apart ==
    ASSUME TypeOK, NEW p \in Proc, pc[p] \in Writing
    PROVE  /\ file[p] \in Inode /\ file[p] # None /\ file[p] \in temp
           /\ \A q \in Proc \ {p} : file[q] # file[p]
           /\ \A n \in Name : file[p] \notin onDisk[n]
<1>1. /\ file[p] \in temp /\ temp \subseteq Inode
      /\ \A q \in Proc \ {p} : file[q] # file[p]
      BY DEF TypeOK, TypesOK, Private
<1> QED BY <1>1, NoneAssumption, EntryShown

\* A step of p that leaves the file of q as it was leaves the call of q in order.
LEMMA OtherCall ==
    ASSUME TypeOK, NEW p \in Proc, NEW q \in Proc \ {p},
           pc'[q] = pc[q], target'[q] = target[q], text'[q] = text[q],
           \A r \in Proc \ {p} : file'[r] = file[r],
           pc[q] \in Writing => file'[p] # file[q],
           file[q] # None => /\ data'[file[q]] = data[file[q]]
                             /\ file[q] \in temp' <=> file[q] \in temp
                             /\ file[q] \in synced => file[q] \in synced'
    PROVE  CallOK(q)'
<1>1. pc[q] \in Writing => Private(q)'
  <2> SUFFICES ASSUME pc[q] \in Writing PROVE Private(q)'
      OBVIOUS
  <2>1. Private(q) /\ file[q] # None
        BY Apart DEF TypeOK
  <2> QED BY <2>1 DEF Private
<1>2. pc[q] = "reading" => Readable(q)'
  <2>1. pc[q] = "reading" => Readable(q) /\ file[q] # None
        BY NoneAssumption DEF TypeOK, Readable
  <2> QED BY <2>1 DEF Readable
<1>3. pc[q] = "idle" => file'[q] = None
      BY DEF TypeOK
<1> QED BY <1>1, <1>2, <1>3 DEF CallOK

\* A step that adds no entry and leaves named files as they were.
LEMMA SameNames ==
    ASSUME TypeOK, UNCHANGED <<entry, onDisk>>,
           \A n \in Name : \A i \in onDisk[n] \ {None} :
               data'[i] = data[i] /\ i \in synced' /\ i \notin temp'
    PROVE  \A n \in Name : Published(n)'
BY DEF TypeOK, Published

-----------------------------------------------------------------------------
(* The invariant *)

\* At first there are no files and no calls.
LEMMA InitTypeOK == Init => TypeOK
<1> SUFFICES ASSUME Init PROVE TypeOK
    OBVIOUS
<1>1. TypesOK
      BY Points, BoundAssumption DEF Init, TypesOK, Stamp, Writing
<1>2. \A n \in Name : Published(n)
      BY NoneAssumption DEF Init, Published
<1>3. \A p \in Proc : CallOK(p)
      BY Points DEF Init, CallOK
<1> QED BY <1>1, <1>2, <1>3 DEF TypeOK, CallOK

\* A new temporary file is nobody else's and has no name.
LEMMA CreateTempTypeOK ==
    ASSUME TypeOK, NEW p \in Proc, NEW n \in Name, NEW v \in Value,
           CreateTemp(p, n, v),
           clock' \in Stamp \cup {0}, taken' \in [Stamp -> SUBSET Stamp]
    PROVE  TypeOK'
<1>1. PICK i \in Free :
          /\ data' = [data EXCEPT ![i] = Torn]
          /\ synced' = synced \ {i}
          /\ temp' = temp \cup {i}
          /\ file' = [file EXCEPT ![p] = i]
      BY DEF CreateTemp, Fresh
<1>2. /\ i \in Inode /\ i # None /\ i \notin temp
      /\ \A q \in Proc : file[q] # i
      /\ \A m \in Name : i \notin onDisk[m]
      BY NoneAssumption DEF Free
<1>3. TypesOK'
      BY <1>1, <1>2, Points DEF CreateTemp, TypeOK, TypesOK, Writing
<1>4. \A m \in Name : Published(m)'
  <2>1. ASSUME NEW m \in Name, NEW j \in onDisk[m] \ {None}
        PROVE  data'[j] = data[j] /\ j \in synced' /\ j \notin temp'
        BY <1>1, <1>2, EntryShown DEF TypeOK, TypesOK
  <2> QED BY <2>1, SameNames DEF CreateTemp
<1>5. CallOK(p)'
  <2>1. file'[p] = i /\ pc'[p] = "created" /\ target'[p] = n /\ text'[p] = v
        BY <1>1 DEF CreateTemp, TypeOK, TypesOK
  <2>2. \A r \in Proc \ {p} : file'[r] # i
        BY <1>1, <1>2 DEF TypeOK, TypesOK
  <2> QED BY <1>1, <2>1, <2>2 DEF CallOK, Private, Writing
<1>6. ASSUME NEW q \in Proc \ {p} PROVE CallOK(q)'
  <2>1. /\ pc'[q] = pc[q] /\ target'[q] = target[q] /\ text'[q] = text[q]
        /\ \A r \in Proc \ {p} : file'[r] = file[r]
        /\ file'[p] # file[q]
        BY <1>1, <1>2 DEF CreateTemp, TypeOK, TypesOK
  <2>2. file[q] # None => /\ data'[file[q]] = data[file[q]]
                          /\ file[q] \in temp' <=> file[q] \in temp
                          /\ file[q] \in synced => file[q] \in synced'
        BY <1>1, <1>2 DEF TypeOK, TypesOK
  <2> QED BY <2>1, <2>2, OtherCall
<1> QED BY <1>3, <1>4, <1>5, <1>6 DEF TypeOK, CallOK

\* Files, snapshots: both begin with a temporary file.
LEMMA SaveTypeOK ==
    ASSUME TypeOK, NEW p \in Proc, NEW n \in File, NEW v \in Value, Save(p, n, v)
    PROVE  TypeOK'
BY CreateTempTypeOK, Names DEF Save, TypeOK, TypesOK

LEMMA WriteSnapshotTypeOK ==
    ASSUME TypeOK, NEW p \in Proc, NEW v \in Value, WriteSnapshot(p, v)
    PROVE  TypeOK'
<1>1. PICK s \in Stamp :
          /\ CreateTemp(p, s, v)
          /\ clock' = s
          /\ taken' = [taken EXCEPT ![s] = {m \in Stamp : entry[m] # None}]
      BY DEF WriteSnapshot
<1>2. s \in Name /\ clock' \in Stamp \cup {0} /\ taken' \in [Stamp -> SUBSET Stamp]
      BY <1>1, Names DEF TypeOK, TypesOK
<1> QED BY <1>1, <1>2, CreateTempTypeOK

\* A call that ends leaves no file open; the others go on.
LEMMA FinishTypeOK ==
    ASSUME TypeOK, NEW p \in Proc, NEW r, Finish(p, r),
           r \in {NoResult, Ok, Error} \cup {Got(c) : c \in Version \cup {Missing}},
           UNCHANGED <<data, synced>>,
           temp' = temp \/ (temp' = temp \ {file[p]} /\ pc[p] \in Writing),
           UNCHANGED <<clock, taken>>, orphans' \subseteq Inode,
           entry' \in [Name -> Inode \cup {None}],
           onDisk' \in [Name -> SUBSET (Inode \cup {None})],
           \A n \in Name : Published(n)'
    PROVE  TypeOK'
<1>1. TypesOK'
      BY Points DEF Finish, TypeOK, TypesOK
<1>2. CallOK(p)'
      BY Points DEF Finish, TypeOK, TypesOK, CallOK
<1>3. ASSUME NEW q \in Proc \ {p} PROVE CallOK(q)'
  <2>1. /\ pc'[q] = pc[q] /\ target'[q] = target[q] /\ text'[q] = text[q]
        /\ \A s \in Proc \ {p} : file'[s] = file[s]
        /\ file'[p] = None
        BY DEF Finish, TypeOK, TypesOK
  <2>2. pc[q] \in Writing => file[q] # None
        BY Apart
  <2>3. file[q] \in temp' <=> file[q] \in temp
        BY Apart
  <2> QED BY <2>1, <2>2, <2>3, OtherCall
<1> QED BY <1>1, <1>2, <1>3 DEF TypeOK, CallOK

\* A call whose files and entries stay as they are may end in these ways.
LEMMA ReturnTypeOK ==
    ASSUME TypeOK, NEW p \in Proc, NEW r, Finish(p, r),
           r \in {NoResult, Ok, Error} \cup {Got(c) : c \in Version \cup {Missing}},
           UNCHANGED disk, UNCHANGED <<clock, taken>>, orphans' \subseteq Inode
    PROVE  TypeOK'
<1>1. /\ UNCHANGED <<data, synced, temp>>
      /\ entry' \in [Name -> Inode \cup {None}]
      /\ onDisk' \in [Name -> SUBSET (Inode \cup {None})]
      /\ \A n \in Name : Published(n)'
      BY DEF disk, TypeOK, TypesOK, Published
<1> QED BY <1>1, FinishTypeOK

LEMMA RefuseTypeOK == ASSUME TypeOK, NEW p \in Proc, Refuse(p) PROVE TypeOK'
BY ReturnTypeOK DEF Refuse, history, TypeOK, TypesOK

\* Only the writer's own file changes.
LEMMA WriteTypeOK == ASSUME TypeOK, NEW p \in Proc, Write(p) PROVE TypeOK'
<1>1. pc[p] \in Writing /\ Private(p)
      BY DEF Write, Writing, TypeOK
<1>2. data' = [data EXCEPT ![file[p]] = Whole(text[p])] /\ Whole(text[p]) \in Version
      BY <1>1, WholeIsVersion DEF Write, Private
<1>3. TypesOK'
  <2>1. data' \in [Inode -> Version \cup {Torn}]
        BY <1>2 DEF TypeOK, TypesOK
  <2>2. pc' \in [Proc -> Point]
        BY Points DEF Write, Continue, TypeOK, TypesOK
  <2> QED BY <2>1, <2>2 DEF Write, Continue, history, TypeOK, TypesOK
<1>4. \A n \in Name : Published(n)'
  <2>1. ASSUME NEW n \in Name, NEW i \in onDisk[n] \ {None}
        PROVE  data'[i] = data[i] /\ i \in synced' /\ i \notin temp'
        BY <1>1, <1>2, Apart, EntryShown DEF Write, TypeOK, TypesOK
  <2> QED BY <2>1, SameNames DEF Write
<1>5. CallOK(p)'
  <2>1. pc'[p] = "written" /\ data'[file[p]] = Whole(text[p])
        BY <1>1, <1>2, Apart DEF Write, Continue, TypeOK, TypesOK
  <2> QED BY <1>1, <2>1 DEF Write, Continue, CallOK, Private, Writing
<1>6. ASSUME NEW q \in Proc \ {p} PROVE CallOK(q)'
  <2>1. pc'[q] = pc[q] /\ file[q] # file[p]
        BY <1>1, Apart DEF Write, Continue, TypeOK, TypesOK
  <2>2. file[q] # None => data'[file[q]] = data[file[q]]
        BY <1>2, <2>1 DEF TypeOK, TypesOK
  <2> QED BY <2>1, <2>2, OtherCall DEF Write, Continue
<1> QED BY <1>3, <1>4, <1>5, <1>6 DEF TypeOK, CallOK

LEMMA SyncTypeOK == ASSUME TypeOK, NEW p \in Proc, Sync(p) PROVE TypeOK'
<1>1. pc[p] \in Writing /\ Private(p)
      BY DEF Sync, Writing, TypeOK
<1>2. TypesOK'
      BY <1>1, Apart, Points DEF Sync, Continue, history, TypeOK, TypesOK
<1>3. \A n \in Name : Published(n)'
  <2>1. ASSUME NEW n \in Name, NEW i \in onDisk[n] \ {None}
        PROVE  data'[i] = data[i] /\ i \in synced' /\ i \notin temp'
        BY EntryShown DEF Sync
  <2> QED BY <2>1, SameNames DEF Sync
<1>4. CallOK(p)'
  <2>1. pc'[p] = "synced" /\ file[p] \in synced' /\ data[file[p]] = Whole(text[p])
        BY <1>1 DEF Sync, Continue, Private, TypeOK, TypesOK
  <2> QED BY <1>1, <2>1 DEF Sync, Continue, CallOK, Private, Writing
<1>5. ASSUME NEW q \in Proc \ {p} PROVE CallOK(q)'
  <2>1. pc'[q] = pc[q] /\ file[q] # file[p]
        BY <1>1, Apart DEF Sync, Continue, TypeOK, TypesOK
  <2> QED BY <2>1, OtherCall DEF Sync, Continue
<1> QED BY <1>2, <1>3, <1>4, <1>5 DEF TypeOK, CallOK

\* The name gets a file that is whole, flushed and nobody's temporary file.
LEMMA RenameTypeOK == ASSUME TypeOK, NEW p \in Proc, Rename(p) PROVE TypeOK'
<1>1. /\ pc[p] \in Writing /\ file[p] \in synced /\ file[p] \in Inode
      /\ target[p] \in Name /\ data[file[p]] \in Version
      BY Apart, WholeIsVersion DEF Rename, Writing, TypeOK, Private
<1>2. /\ entry' \in [Name -> Inode \cup {None}]
      /\ onDisk' \in [Name -> SUBSET (Inode \cup {None})]
      BY <1>1 DEF Rename, TypeOK, TypesOK
<1>3. ASSUME NEW n \in Name PROVE Published(n)'
  <2>1. ASSUME NEW i \in onDisk[n] \ {None}
        PROVE  data'[i] \in Version /\ i \in synced' /\ i \notin temp'
        BY EntryShown DEF Rename
  <2>2. CASE n = target[p]
    <3>1. entry'[n] = file[p] /\ onDisk'[n] = onDisk[n] \cup {file[p]}
          BY <1>1, <2>2 DEF Rename, TypeOK, TypesOK
    <3> QED BY <1>1, <2>1, <3>1 DEF Rename, Published
  <2>3. CASE n # target[p]
    <3>1. entry'[n] = entry[n] /\ onDisk'[n] = onDisk[n]
          BY <1>1, <2>3 DEF Rename, TypeOK, TypesOK
    <3> QED BY <2>1, <3>1, EntryOnDisk DEF Published
  <2> QED BY <2>2, <2>3
<1>4. Finish(p, Ok) /\ UNCHANGED <<data, synced, clock, taken, orphans>>
      /\ temp' = temp \ {file[p]}
      BY DEF Rename, history
<1> QED BY <1>1, <1>2, <1>3, <1>4, FinishTypeOK DEF TypeOK, TypesOK

LEMMA WriteFailsTypeOK == ASSUME TypeOK, NEW p \in Proc, WriteFails(p) PROVE TypeOK'
<1>1. /\ pc[p] \in Writing /\ temp' = temp \ {file[p]} /\ Finish(p, Error)
      /\ UNCHANGED <<data, synced, entry, onDisk, clock, taken, orphans>>
      BY DEF WriteFails, history
<1>2. \A n \in Name : Published(n)'
      BY <1>1, EntryShown, SameNames
<1> QED BY <1>1, <1>2, FinishTypeOK DEF TypeOK, TypesOK

\* The file that a reader gets is one that a name stands for.
LEMMA OpenTypeOK == ASSUME TypeOK, NEW p \in Proc, NEW n \in Name, Open(p, n)
                    PROVE  TypeOK'
<1>1. CASE entry[n] = None
      BY <1>1, ReturnTypeOK DEF Open, history, TypeOK, TypesOK
<1>2. CASE entry[n] # None
  <2>1. /\ pc' = [pc EXCEPT ![p] = "reading"] /\ file' = [file EXCEPT ![p] = entry[n]]
        /\ UNCHANGED <<target, text, result, data, synced, entry, onDisk, temp,
                       clock, taken, orphans>>
        BY <1>2 DEF Open, disk, history
  <2>2. entry[n] \in Inode \ temp /\ data[entry[n]] \in Version
        BY <1>2, EntryOnDisk, EntryShown
  <2>3. TypesOK'
        BY <2>1, <2>2, Points DEF TypeOK, TypesOK
  <2>4. \A m \in Name : Published(m)'
        BY <2>1 DEF TypeOK, Published
  <2>5. CallOK(p)'
        BY <2>1, <2>2, Points DEF CallOK, Readable, TypeOK, TypesOK
  <2>6. ASSUME NEW q \in Proc \ {p} PROVE CallOK(q)'
    <3>1. /\ pc'[q] = pc[q] /\ file'[p] = entry[n]
          /\ \A r \in Proc \ {p} : file'[r] = file[r]
          BY <2>1 DEF TypeOK, TypesOK
    <3> QED BY <2>1, <2>2, <3>1, Apart, OtherCall
  <2> QED BY <2>3, <2>4, <2>5, <2>6 DEF TypeOK, CallOK
<1> QED BY <1>1, <1>2

LEMMA DecodeTypeOK == ASSUME TypeOK, NEW p \in Proc, Decode(p) PROVE TypeOK'
<1>1. data[file[p]] \in Version
      BY DEF Decode, TypeOK, Readable
<1> QED BY <1>1, ReturnTypeOK DEF Decode, history, TypeOK, TypesOK

LEMMA KillTypeOK == ASSUME TypeOK, NEW p \in Proc, Kill(p) PROVE TypeOK'
BY ReturnTypeOK DEF Kill, TypeOK, TypesOK

LEMMA SettleTypeOK == ASSUME TypeOK, NEW n \in Name, Settle(n) PROVE TypeOK'
<1>1. TypesOK'
      BY DEF Settle, call, history, TypeOK, TypesOK
<1>2. ASSUME NEW m \in Name PROVE Published(m)'
  <2>1. entry'[m] = entry[m] /\ onDisk'[m] \subseteq onDisk[m] /\ entry[m] \in onDisk'[m]
        BY EntryOnDisk DEF Settle, TypeOK, TypesOK
  <2> QED BY <2>1 DEF Settle, TypeOK, Published
<1>3. \A p \in Proc : CallOK(p)'
      BY DEF Settle, call, TypeOK, CallOK, Private, Readable
<1> QED BY <1>1, <1>2, <1>3 DEF TypeOK, CallOK

\* What a power loss may bring back was whole and flushed.
LEMMA PowerLossTypeOK == ASSUME TypeOK, PowerLoss PROVE TypeOK'
<1>1. PICK left \in [Name -> UNION {onDisk[n] : n \in Name}] :
          /\ \A n \in Name : left[n] \in onDisk[n]
          /\ entry' = left
          /\ onDisk' = [n \in Name |-> {left[n]}]
      BY DEF PowerLoss
<1>2. PICK lost \in SUBSET (Inode \ synced) :
          data' = [i \in Inode |-> IF i \in lost THEN Torn ELSE data[i]]
      BY DEF PowerLoss
<1>3. TypesOK'
  <2>1. entry' \in [Name -> Inode \cup {None}]
        BY <1>1 DEF TypeOK, TypesOK
  <2>2. onDisk' \in [Name -> SUBSET (Inode \cup {None})]
        BY <1>1 DEF TypeOK, TypesOK
  <2>3. temp' \subseteq Inode /\ orphans' \subseteq Inode
        BY DEF PowerLoss, TypeOK, TypesOK
  <2> QED BY <1>2, <2>1, <2>2, <2>3, Points DEF PowerLoss, TypeOK, TypesOK
<1>4. ASSUME NEW n \in Name PROVE Published(n)'
  <2>1. entry'[n] = left[n] /\ onDisk'[n] = {left[n]} /\ left[n] \in onDisk[n]
        BY <1>1
  <2>2. left[n] # None => /\ data'[left[n]] \in Version
                          /\ left[n] \in synced' /\ left[n] \notin temp'
        BY <1>2, <2>1, EntryShown DEF PowerLoss
  <2> QED BY <2>1, <2>2 DEF Published
<1>5. \A p \in Proc : CallOK(p)'
      BY Points DEF PowerLoss, CallOK
<1> QED BY <1>3, <1>4, <1>5 DEF TypeOK, CallOK

\* Every step keeps the invariant.
LEMMA NextTypeOK == TypeOK /\ [Next]_vars => TypeOK'
<1> SUFFICES ASSUME TypeOK, [Next]_vars PROVE TypeOK'
    OBVIOUS
<1>1. ASSUME NEW p \in Proc, NEW n \in File, NEW v \in Value, Save(p, n, v) PROVE TypeOK'
      BY <1>1, SaveTypeOK
<1>2. ASSUME NEW p \in Proc, NEW v \in Value, WriteSnapshot(p, v) PROVE TypeOK'
      BY <1>2, WriteSnapshotTypeOK
<1>3. ASSUME NEW p \in Proc, Refuse(p) \/ WriteStep(p) \/ ReadStep(p) \/ Kill(p)
      PROVE  TypeOK'
  <2>1. CASE Refuse(p) BY <2>1, RefuseTypeOK
  <2>2. CASE WriteStep(p)
        BY <2>2, WriteTypeOK, SyncTypeOK, RenameTypeOK, WriteFailsTypeOK DEF WriteStep
  <2>3. CASE ReadStep(p)
        BY <2>3, OpenTypeOK, DecodeTypeOK, Names DEF ReadStep, Load, LoadLatest
  <2>4. CASE Kill(p) BY <2>4, KillTypeOK
  <2> QED BY <1>3, <2>1, <2>2, <2>3, <2>4
<1>4. ASSUME NEW n \in Name, Settle(n) PROVE TypeOK'
      BY <1>4, SettleTypeOK
<1>5. CASE PowerLoss
      BY <1>5, PowerLossTypeOK
<1>6. CASE UNCHANGED vars
      BY <1>6 DEF vars, disk, call, history, TypeOK, TypesOK, Published, Private, Readable
<1> QED BY <1>1, <1>2, <1>3, <1>4, <1>5, <1>6 DEF Next

\* Names stand for whole, flushed files; a writer has its file to itself; a
\* reader never has one that is being written (store.go:317).
THEOREM StoreTypeCorrect == Spec => []TypeOK
BY InitTypeOK, NextTypeOK, PTL DEF Spec

-----------------------------------------------------------------------------
(* Temporary files *)

\* A call that goes on, or ends with its temporary file renamed, removed or
\* counted among those of killed processes, leaves nothing else behind.
LEMMA NothingLeftStep == TypeOK /\ FailureLeavesNothing /\ [Next]_vars => FailureLeavesNothing'
<1> SUFFICES ASSUME TypeOK, FailureLeavesNothing, [Next]_vars,
                    NEW i \in temp', i \notin orphans'
             PROVE  \E p \in Proc : pc'[p] \in Writing /\ file'[p] = i
    BY DEF FailureLeavesNothing
<1> DEFINE Owned == \E p \in Proc : pc'[p] \in Writing /\ file'[p] = i
<1>1. i \in temp => i \in orphans \/ \E p \in Proc : pc[p] \in Writing /\ file[p] = i
      BY DEF FailureLeavesNothing
<1>2. ASSUME NEW p \in Proc, NEW n, NEW v, CreateTemp(p, n, v) PROVE Owned
  <2>1. PICK j \in Free : temp' = temp \cup {j} /\ file' = [file EXCEPT ![p] = j]
        BY <1>2 DEF CreateTemp, Fresh
  <2>2. pc' = [pc EXCEPT ![p] = "created"] /\ pc[p] = "idle" /\ orphans' = orphans
        BY <1>2 DEF CreateTemp
  <2>3. CASE i = j
        BY <2>1, <2>2, <2>3, Points DEF TypeOK, TypesOK
  <2>4. CASE i # j
    <3>1. PICK q \in Proc : pc[q] \in Writing /\ file[q] = i
          BY <1>1, <2>1, <2>2, <2>4
    <3> QED BY <2>1, <2>2, <3>1, Points DEF TypeOK, TypesOK
  <2> QED BY <2>3, <2>4
<1>3. ASSUME NEW p \in Proc, NEW r, Finish(p, r), temp' \subseteq temp,
             orphans \subseteq orphans',
             pc[p] \in Writing => i # file[p]
      PROVE  Owned
  <2>1. PICK q \in Proc : pc[q] \in Writing /\ file[q] = i
        BY <1>1, <1>3
  <2> QED BY <1>3, <2>1 DEF Finish, TypeOK, TypesOK
<1>4. ASSUME NEW p \in Proc, NEW point \in Writing, pc[p] \in Writing, Continue(p, point),
             UNCHANGED <<temp, orphans>>
      PROVE  Owned
      BY <1>1, <1>4 DEF Continue, TypeOK, TypesOK
<1>5. ASSUME NEW p \in Proc, Refuse(p) PROVE Owned
      BY <1>3, <1>5, Points DEF Refuse, disk, history
<1>6. ASSUME NEW p \in Proc, WriteStep(p) PROVE Owned
  <2>1. CASE Write(p) BY <1>4, <2>1 DEF Write, history, Writing
  <2>2. CASE Sync(p) BY <1>4, <2>2 DEF Sync, history, Writing
  <2>3. CASE Rename(p) BY <1>3, <2>3 DEF Rename, history
  <2>4. CASE WriteFails(p) BY <1>3, <2>4 DEF WriteFails, history
  <2> QED BY <1>6, <2>1, <2>2, <2>3, <2>4 DEF WriteStep
<1>7. ASSUME NEW p \in Proc, ReadStep(p) PROVE Owned
  <2>1. ASSUME NEW n \in Name, Open(p, n) PROVE Owned
    <3>1. pc[p] = "idle" /\ UNCHANGED <<temp, orphans>>
          BY <2>1 DEF Open, disk, history
    <3>2. CASE entry[n] = None
          BY <1>3, <2>1, <3>1, <3>2, Points DEF Open
    <3>3. CASE entry[n] # None
          BY <1>1, <2>1, <3>1, <3>3, Points DEF Open, TypeOK, TypesOK
    <3> QED BY <3>2, <3>3
  <2>2. CASE Decode(p)
        BY <1>3, <2>2, Points DEF Decode, disk, history
  <2> QED BY <1>7, <2>1, <2>2, Names DEF ReadStep, Load, LoadLatest
<1>8. ASSUME NEW p \in Proc, Kill(p) PROVE Owned
  <2>1. Finish(p, NoResult) /\ temp' = temp /\ orphans' = orphans \cup (temp \cap {file[p]})
        BY <1>8 DEF Kill, disk
  <2> QED BY <1>3, <2>1
<1>9. ASSUME NEW n \in Name, Settle(n) PROVE Owned
      BY <1>1, <1>9 DEF Settle, call, history
<1>10. CASE PowerLoss
      BY <1>10 DEF PowerLoss
<1>11. CASE UNCHANGED vars
      BY <1>1, <1>11 DEF vars, disk, call, history
<1> QED BY <1>2, <1>5, <1>6, <1>7, <1>8, <1>9, <1>10, <1>11 DEF Next, Save, WriteSnapshot

\* A call that fails at any step takes its temporary file with it; only killed
\* processes leave theirs (store.go:324).
THEOREM NothingLeftCorrect == Spec => []FailureLeavesNothing
<1>1. Init => FailureLeavesNothing
      BY DEF Init, FailureLeavesNothing
<1> QED BY <1>1, NothingLeftStep, StoreTypeCorrect, PTL DEF Spec

-----------------------------------------------------------------------------
(* Snapshots *)

\* While the clock only goes forward: names that stand or may come back are no
\* later than it, a snapshot came after all it found, and no two names share a file.
ClockInv ==
    /\ \A s \in Stamp : onDisk[s] \subseteq {None} \/ s <= clock
    /\ \A p \in Proc : target[p] \in Stamp => target[p] <= clock
    /\ \A s \in Stamp : \A m \in taken[s] : m < s
    /\ \A m, n \in Name : m # n => onDisk[m] \cap onDisk[n] \subseteq {None}

\* A step that begins no snapshot, renames nothing and only drops old entries.
LEMMA ClockKept ==
    ASSUME ClockInv, UNCHANGED <<clock, taken>>,
           \A n \in Name : onDisk'[n] \subseteq onDisk[n],
           \A p \in Proc : target'[p] = target[p] \/ target'[p] \in File \cup {None}
    PROVE  ClockInv'
<1>1. \A p \in Proc : target'[p] \in Stamp => target'[p] = target[p]
      BY NameAssumption, Names DEF Stamp
<1> QED BY <1>1, Names DEF ClockInv

\* A snapshot is later than those it finds and than everything named so far.
LEMMA SnapshotClock ==
    ASSUME TypeOK, ClockInv, ~ClockBack, NEW p \in Proc, NEW v \in Value,
           WriteSnapshot(p, v)
    PROVE  ClockInv'
<1>1. PICK s \in Stamp : /\ s = clock + 1
                         /\ CreateTemp(p, s, v)
                         /\ clock' = s
                         /\ taken' = [taken EXCEPT ![s] = {m \in Stamp : entry[m] # None}]
      BY DEF WriteSnapshot
<1>2. clock \in Nat /\ s \in Nat /\ Stamp \subseteq Nat
      BY <1>1, BoundAssumption DEF Stamp, TypeOK, TypesOK
<1>3. \A m \in Stamp : m <= clock => m < s /\ m <= clock'
      BY <1>1, <1>2
<1>4. \A m \in Stamp : entry[m] # None => m < s
  <2>1. \A m \in Stamp : entry[m] # None => ~(onDisk[m] \subseteq {None})
        BY EntryOnDisk, Names
  <2> QED BY <1>3, <2>1 DEF ClockInv
<1>5. UNCHANGED onDisk /\ target' = [target EXCEPT ![p] = s]
      BY <1>1 DEF CreateTemp
<1>6. \A q \in Proc : target'[q] \in Stamp => target'[q] <= clock'
  <2>1. \A q \in Proc : target'[q] \in Stamp => target'[q] = s \/ target'[q] = target[q]
        BY <1>5 DEF TypeOK, TypesOK
  <2>2. \A q \in Proc : target[q] \in Stamp => target[q] <= clock
        BY DEF ClockInv
  <2>3. s <= clock'
        BY <1>1, <1>2
  <2> QED BY <1>3, <2>1, <2>2, <2>3
<1>7. \A t \in Stamp : \A m \in taken'[t] : m < t
      BY <1>1, <1>4 DEF ClockInv, TypeOK, TypesOK
<1> QED BY <1>3, <1>5, <1>6, <1>7 DEF ClockInv

\* A temporary file that gets a name had none before.
LEMMA RenameClock ==
    ASSUME TypeOK, ClockInv, NEW p \in Proc, Rename(p)
    PROVE  ClockInv'
<1>1. /\ target[p] \in Name
      /\ \A n \in Name : file[p] \notin onDisk[n]
      BY Apart DEF Rename, Writing, TypeOK, Private
<1>2. \A n \in Name : onDisk'[n] = IF n = target[p] THEN onDisk[n] \cup {file[p]}
                                                    ELSE onDisk[n]
      BY DEF Rename, TypeOK, TypesOK
<1>3. \A q \in Proc : target'[q] \in {target[q], None}
      BY DEF Rename, Finish, TypeOK, TypesOK
<1>4. \A s \in Stamp : onDisk'[s] \subseteq {None} \/ s <= clock'
      BY <1>2, Names DEF ClockInv, Rename, history
<1>5. \A q \in Proc : target'[q] \in Stamp => target'[q] <= clock'
  <2>1. \A q \in Proc : target[q] \in Stamp => target[q] <= clock
        BY DEF ClockInv
  <2>2. \A q \in Proc : target'[q] \in Stamp => target'[q] = target[q]
        BY <1>3, Names
  <2> QED BY <2>1, <2>2 DEF Rename, history
<1>6. \A m, n \in Name : m # n => onDisk'[m] \cap onDisk'[n] \subseteq {None}
  <2>1. ASSUME NEW m \in Name, NEW n \in Name, m # n,
               NEW i \in onDisk'[m], i \in onDisk'[n], i # None
        PROVE  FALSE
    <3>1. onDisk[m] \cap onDisk[n] \subseteq {None}
          BY <2>1 DEF ClockInv
    <3> QED BY <1>1, <1>2, <2>1, <3>1
  <2> QED BY <2>1
<1>7. \A s \in Stamp : \A m \in taken'[s] : m < s
      BY DEF ClockInv, Rename, history
<1> QED BY <1>4, <1>5, <1>6, <1>7 DEF ClockInv

LEMMA ClockNext ==
    ASSUME TypeOK, ClockInv, ~ClockBack, [Next]_vars
    PROVE  ClockInv'
<1>1. ASSUME NEW p \in Proc, NEW n \in File, NEW v \in Value, Save(p, n, v) PROVE ClockInv'
  <2>1. /\ UNCHANGED <<onDisk, clock, taken>>
        /\ target' = [target EXCEPT ![p] = n]
        BY <1>1 DEF Save, CreateTemp
  <2> QED BY <2>1, ClockKept DEF TypeOK, TypesOK
<1>2. ASSUME NEW p \in Proc, NEW v \in Value, WriteSnapshot(p, v) PROVE ClockInv'
      BY <1>2, SnapshotClock
<1>3. ASSUME NEW p \in Proc, Refuse(p) \/ WriteStep(p) \/ ReadStep(p) \/ Kill(p)
      PROVE  ClockInv'
  <2>1. CASE Rename(p) BY <2>1, RenameClock
  <2>2. CASE ~Rename(p)
    <3>1. /\ UNCHANGED <<onDisk, clock, taken>>
          /\ target' = target \/ target' = [target EXCEPT ![p] = None]
          BY <1>3, <2>2 DEF Refuse, WriteStep, ReadStep, Kill, Write, Sync, WriteFails,
             Load, LoadLatest, Open, Decode, Continue, Finish, disk, history
    <3> QED BY <3>1, ClockKept DEF TypeOK, TypesOK
  <2> QED BY <2>1, <2>2
<1>4. ASSUME NEW n \in Name, Settle(n) PROVE ClockInv'
      BY <1>4, ClockKept, EntryOnDisk DEF Settle, call, history, TypeOK, TypesOK
<1>5. CASE PowerLoss
  <2>1. PICK left : /\ \A n \in Name : left[n] \in onDisk[n]
                    /\ onDisk' = [n \in Name |-> {left[n]}]
        BY <1>5 DEF PowerLoss
  <2>2. target' = [p \in Proc |-> None] /\ UNCHANGED <<clock, taken>>
        BY <1>5 DEF PowerLoss
  <2> QED BY <2>1, <2>2, ClockKept
<1>6. CASE UNCHANGED vars
      BY <1>6, ClockKept DEF vars, disk, call, history
<1> QED BY <1>1, <1>2, <1>3, <1>4, <1>5, <1>6 DEF Next

\* While the clock is not set back, "latest" picks a snapshot that no other
\* snapshot in the directory came after (store.go:236-242).
THEOREM LatestIsNewestCorrect ==
    ASSUME ~ClockBack
    PROVE  Spec => LatestIsNewest
<1>1. Init => ClockInv
      BY NameAssumption, NoneAssumption, Names DEF Init, ClockInv
<1>2. ASSUME TypeOK, ClockInv, NEW p \in Proc, LoadLatest(p),
             NEW s \in Stamp, entry[s] # None, entry[s] = file'[p]
      PROVE  NothingNewer(s)
  <2>1. PICK last \in Stamp : /\ entry[last] # None
                              /\ \A m \in Stamp : entry[m] # None => m <= last
                              /\ Open(p, last)
        BY <1>2 DEF LoadLatest
  <2>2. entry[s] = entry[last]
        BY <1>2, <2>1 DEF Open, TypeOK, TypesOK
  <2>3. s = last
        BY <1>2, <2>2, EntryOnDisk, Names DEF ClockInv
  <2>4. ASSUME NEW m \in Stamp, entry[m] # None, s \in taken[m] PROVE FALSE
    <3>1. s < m /\ m <= s
          BY <1>2, <2>1, <2>3, <2>4 DEF ClockInv
    <3> QED BY <3>1, BoundAssumption DEF Stamp
  <2> QED BY <2>4 DEF NothingNewer
<1>3. TypeOK /\ ClockInv /\ [Next]_vars =>
          [\A p \in Proc : LoadLatest(p) =>
               \A s \in Stamp : entry[s] # None /\ entry[s] = file'[p]
                                    => NothingNewer(s)]_vars
      BY <1>2
<1>4. TypeOK /\ ClockInv /\ [Next]_vars => ClockInv'
      BY ClockNext
<1> QED BY <1>1, <1>3, <1>4, StoreTypeCorrect, PTL DEF Spec, LatestIsNewest

-----------------------------------------------------------------------------
(* The refinement of AtomicFiles *)

\* What AtomicFiles sees: a reader has its result when it has opened the file.
Seen == [n \in Name |-> Shown(entry[n])]
Kept == [n \in Name |-> {Shown(i) : i \in onDisk[n]}]
Outcome == [p \in Proc |-> IF pc[p] = "reading" THEN Got(data[file[p]]) ELSE result[p]]

\* A step of p that leaves named files and the files of readers as they were.
LEMMA OutcomeOf ==
    ASSUME TypeOK, NEW p \in Proc,
           \A q \in Proc \ {p} : /\ pc'[q] = pc[q] /\ result'[q] = result[q]
                                 /\ file'[q] = file[q],
           \A q \in Proc \ {p} : pc[q] = "reading" => data'[file[q]] = data[file[q]]
    PROVE  Outcome' = [Outcome EXCEPT ![p] = IF pc'[p] = "reading"
                                             THEN Got(data'[file'[p]]) ELSE result'[p]]
<1>1. ASSUME NEW q \in Proc \ {p} PROVE Outcome'[q] = Outcome[q]
      BY DEF Outcome
<1> QED BY <1>1 DEF Outcome

LEMMA SeenKept ==
    ASSUME TypeOK, UNCHANGED <<entry, onDisk>>,
           \A n \in Name : \A i \in onDisk[n] \ {None} : data'[i] = data[i]
    PROVE  Seen' = Seen /\ Kept' = Kept
<1>1. \A n \in Name : \A i \in onDisk[n] : Shown(i)' = Shown(i)
      BY DEF Shown
<1>2. ASSUME NEW n \in Name PROVE Seen'[n] = Seen[n]
      BY <1>1, EntryOnDisk DEF Seen
<1>3. ASSUME NEW n \in Name PROVE Kept'[n] = Kept[n]
      BY <1>1 DEF Kept
<1> QED BY <1>2, <1>3 DEF Seen, Kept

\* A call that ends without having changed a name.
LEMMA FinishSeen ==
    ASSUME TypeOK, NEW p \in Proc, NEW r, Finish(p, r), UNCHANGED <<data, entry, onDisk>>
    PROVE  /\ Seen' = Seen /\ Kept' = Kept
           /\ Outcome' = [Outcome EXCEPT ![p] = r]
<1>1. /\ \A q \in Proc \ {p} : /\ pc'[q] = pc[q] /\ result'[q] = result[q]
                               /\ file'[q] = file[q]
      /\ pc'[p] = "idle" /\ result'[p] = r
      BY DEF Finish, TypeOK, TypesOK
<1>2. Outcome' = [Outcome EXCEPT ![p] = r]
      BY <1>1, OutcomeOf
<1> QED BY <1>2, SeenKept

\* The abstract steps, in these terms.
LEMMA AbstractFail ==
    ASSUME NEW p \in Proc, Seen' = Seen, Kept' = Kept,
           Outcome' = [Outcome EXCEPT ![p] = Error]
    PROVE  Registers!Next
BY DEF Registers!Next, Registers!Fail, Registers!Return, Registers!Error, Error,
   Seen, Kept, Outcome

LEMMA AbstractForget ==
    ASSUME NEW p \in Proc, Seen' = Seen, Kept' = Kept,
           Outcome' = [Outcome EXCEPT ![p] = NoResult]
    PROVE  Registers!Next
BY DEF Registers!Next, Registers!Forget, Registers!Return, Registers!NoResult, NoResult,
   Seen, Kept, Outcome

LEMMA AbstractRead ==
    ASSUME NEW p \in Proc, NEW n \in Name, Seen' = Seen, Kept' = Kept,
           Outcome' = [Outcome EXCEPT ![p] = Got(Shown(entry[n]))]
    PROVE  Registers!Next
<1>1. Seen[n] = Shown(entry[n])
      BY DEF Seen
<1> QED BY <1>1 DEF Registers!Next, Registers!Read, Registers!Return, Registers!Got, Got,
           Seen, Kept, Outcome

LEMMA AbstractWrite ==
    ASSUME NEW p \in Proc, NEW n \in Name, NEW v \in Version,
           Seen' = [Seen EXCEPT ![n] = v],
           Kept' = [Kept EXCEPT ![n] = @ \cup {v}],
           Outcome' = [Outcome EXCEPT ![p] = Ok]
    PROVE  Registers!Next
<1>1. Registers!Write(p, n, v)
      BY DEF Registers!Write, Registers!Return, Registers!Ok, Ok, Seen, Kept, Outcome
<1> QED BY <1>1 DEF Registers!Next

LEMMA AbstractStutter ==
    ASSUME Seen' = Seen, Kept' = Kept, Outcome' = Outcome
    PROVE  UNCHANGED Registers!vars
BY DEF Registers!vars, Seen, Kept, Outcome

-----------------------------------------------------------------------------
(* Each step is a step of AtomicFiles, or none *)

\* A new call forgets the result of the one before.
LEMMA CreateTempMaps ==
    ASSUME TypeOK, NEW p \in Proc, NEW n, NEW v, CreateTemp(p, n, v)
    PROVE  Registers!Next
<1>1. PICK i \in Free : data' = [data EXCEPT ![i] = Torn] /\ file' = [file EXCEPT ![p] = i]
      BY DEF CreateTemp, Fresh
<1>2. /\ \A q \in Proc : file[q] # i
      /\ \A m \in Name : i \notin onDisk[m]
      BY DEF Free
<1>3. /\ UNCHANGED <<entry, onDisk>>
      /\ pc' = [pc EXCEPT ![p] = "created"]
      /\ result' = [result EXCEPT ![p] = NoResult]
      BY DEF CreateTemp
<1>4. Seen' = Seen /\ Kept' = Kept
  <2>1. \A m \in Name : \A j \in onDisk[m] \ {None} : data'[j] = data[j]
        BY <1>1, <1>2 DEF TypeOK, TypesOK
  <2> QED BY <1>3, <2>1, SeenKept
<1>5. Outcome' = [Outcome EXCEPT ![p] = NoResult]
  <2>1. \A q \in Proc \ {p} : /\ pc'[q] = pc[q] /\ result'[q] = result[q]
                             /\ file'[q] = file[q]
        BY <1>1, <1>3 DEF TypeOK, TypesOK
  <2>2. \A q \in Proc \ {p} : pc[q] = "reading" => data'[file[q]] = data[file[q]]
        BY <1>1, <1>2 DEF TypeOK, TypesOK, Readable
  <2>3. pc'[p] = "created" /\ result'[p] = NoResult
        BY <1>3 DEF TypeOK, TypesOK
  <2> QED BY <2>1, <2>2, <2>3, OutcomeOf
<1> QED BY <1>4, <1>5, AbstractForget

\* Nobody sees a temporary file being filled and flushed.
LEMMA WriteMaps ==
    ASSUME TypeOK, NEW p \in Proc, Write(p) \/ Sync(p)
    PROVE  UNCHANGED Registers!vars
<1>1. pc[p] \in Writing
      BY DEF Write, Sync, Writing
<1>2. /\ UNCHANGED <<entry, onDisk, file, result>>
      /\ \A i \in Inode : i # file[p] => data'[i] = data[i]
      /\ \E point \in Writing : pc' = [pc EXCEPT ![p] = point]
      BY DEF Write, Sync, Continue, Writing, TypeOK, TypesOK
<1>3. Seen' = Seen /\ Kept' = Kept
  <2>1. \A n \in Name : \A i \in onDisk[n] \ {None} : data'[i] = data[i]
        BY <1>1, <1>2, Apart, EntryShown
  <2> QED BY <1>2, <2>1, SeenKept
<1>4. Outcome' = Outcome
  <2>1. \A q \in Proc \ {p} : pc'[q] = pc[q]
        BY <1>2 DEF TypeOK, TypesOK
  <2>2. \A q \in Proc \ {p} : pc[q] = "reading" => data'[file[q]] = data[file[q]]
        BY <1>1, <1>2, Apart DEF TypeOK, Readable
  <2>3. pc'[p] # "reading" /\ pc[p] # "reading"
        BY <1>1, <1>2, Points DEF TypeOK, TypesOK
  <2> QED BY <1>2, <2>1, <2>2, <2>3 DEF Outcome
<1> QED BY <1>3, <1>4, AbstractStutter

\* The rename is the moment at which the file is replaced.
LEMMA RenameMaps ==
    ASSUME TypeOK, NEW p \in Proc, Rename(p)
    PROVE  Registers!Next
<1> DEFINE n == target[p]
           v == data[file[p]]
<1>1. n \in Name /\ v \in Version /\ file[p] # None
      BY Apart, WholeIsVersion DEF Rename, Writing, TypeOK, Private
<1>2. \A i : Shown(i)' = Shown(i)
      BY DEF Rename, Shown
<1>3. Shown(file[p]) = v
      BY <1>1 DEF Shown
<1>4. Seen' = [Seen EXCEPT ![n] = v]
  <2>1. entry' = [entry EXCEPT ![n] = file[p]]
        BY DEF Rename
  <2>2. ASSUME NEW m \in Name PROVE Seen'[m] = IF m = n THEN v ELSE Seen[m]
        BY <1>1, <1>2, <1>3, <2>1 DEF Seen, TypeOK, TypesOK
  <2> QED BY <2>2 DEF Seen
<1>5. Kept' = [Kept EXCEPT ![n] = @ \cup {v}]
  <2>1. onDisk' = [onDisk EXCEPT ![n] = @ \cup {file[p]}]
        BY DEF Rename
  <2>2. ASSUME NEW m \in Name
        PROVE  Kept'[m] = IF m = n THEN Kept[m] \cup {v} ELSE Kept[m]
    <3>1. Kept'[m] = {Shown(i) : i \in onDisk'[m]}
          BY <1>2 DEF Kept
    <3>2. onDisk'[m] = IF m = n THEN onDisk[m] \cup {file[p]} ELSE onDisk[m]
          BY <2>1 DEF TypeOK, TypesOK
    <3> QED BY <1>3, <3>1, <3>2 DEF Kept
  <2> QED BY <1>1, <2>2 DEF Kept
<1>6. Outcome' = [Outcome EXCEPT ![p] = Ok]
  <2>1. /\ \A q \in Proc \ {p} : /\ pc'[q] = pc[q] /\ result'[q] = result[q]
                                 /\ file'[q] = file[q]
        /\ pc'[p] = "idle" /\ result'[p] = Ok /\ UNCHANGED data
        BY DEF Rename, Finish, TypeOK, TypesOK
  <2> QED BY <2>1, OutcomeOf
<1> QED BY <1>1, <1>4, <1>5, <1>6, AbstractWrite

LEMMA OpenMaps ==
    ASSUME TypeOK, NEW p \in Proc, NEW n \in Name, Open(p, n)
    PROVE  Registers!Next
<1>1. UNCHANGED <<data, entry, onDisk>>
      BY DEF Open, disk
<1>2. CASE entry[n] = None
      BY <1>1, <1>2, FinishSeen, AbstractRead DEF Open, Shown
<1>3. CASE entry[n] # None
  <2>1. /\ \A q \in Proc \ {p} : /\ pc'[q] = pc[q] /\ result'[q] = result[q]
                                 /\ file'[q] = file[q]
        /\ pc'[p] = "reading" /\ file'[p] = entry[n]
        BY <1>3 DEF Open, TypeOK, TypesOK
  <2>2. Outcome' = [Outcome EXCEPT ![p] = Got(Shown(entry[n]))]
        BY <1>1, <1>3, <2>1, OutcomeOf DEF Shown
  <2> QED BY <1>1, <2>2, SeenKept, AbstractRead
<1> QED BY <1>2, <1>3

\* The reader had its result when it opened the file, unless it cannot use it.
LEMMA DecodeMaps ==
    ASSUME TypeOK, NEW p \in Proc, Decode(p)
    PROVE  Registers!Next \/ UNCHANGED Registers!vars
<1>1. pc[p] = "reading" /\ UNCHANGED <<data, entry, onDisk>>
      BY DEF Decode, disk
<1>2. CASE Finish(p, Error)
      BY <1>1, <1>2, FinishSeen, AbstractFail
<1>3. CASE Finish(p, Got(data[file[p]]))
  <2>1. Outcome[p] = Got(data[file[p]])
        BY <1>1 DEF Outcome
  <2>2. Outcome' = Outcome
        BY <1>1, <1>3, <2>1, FinishSeen DEF Outcome
  <2> QED BY <1>1, <1>3, <2>2, FinishSeen, AbstractStutter
<1> QED BY <1>2, <1>3 DEF Decode

LEMMA SettleMaps ==
    ASSUME TypeOK, NEW n \in Name, Settle(n)
    PROVE  Registers!Next
<1>1. /\ onDisk' = [onDisk EXCEPT ![n] = {entry[n]}]
      /\ UNCHANGED <<data, entry, pc, file, result>>
      BY DEF Settle, call, history
<1>2. Seen' = Seen /\ Outcome' = Outcome
      BY <1>1 DEF Seen, Outcome, Shown
<1>3. Kept' = [Kept EXCEPT ![n] = {Seen[n]}]
  <2>1. ASSUME NEW m \in Name PROVE Kept'[m] = IF m = n THEN {Seen[n]} ELSE Kept[m]
    <3>1. onDisk'[m] = IF m = n THEN {entry[n]} ELSE onDisk[m]
          BY <1>1 DEF TypeOK, TypesOK
    <3>2. Kept'[m] = {Shown(i) : i \in onDisk'[m]}
          BY <1>1 DEF Kept, Shown
    <3> QED BY <3>1, <3>2 DEF Kept, Seen
  <2> QED BY <2>1 DEF Kept
<1> QED BY <1>2, <1>3 DEF Registers!Next, Registers!Settle, Seen, Kept, Outcome

\* Whatever entries a power loss brings back, their files were flushed.
LEMMA PowerLossMaps ==
    ASSUME TypeOK, PowerLoss
    PROVE  Registers!Next
<1>1. PICK left \in [Name -> UNION {onDisk[n] : n \in Name}] :
          /\ \A n \in Name : left[n] \in onDisk[n]
          /\ entry' = left
          /\ onDisk' = [n \in Name |-> {left[n]}]
      BY DEF PowerLoss
<1> DEFINE seen == [n \in Name |-> Shown(left[n])]
<1>2. ASSUME NEW n \in Name PROVE Shown(left[n])' = Shown(left[n])
  <2>1. left[n] # None => left[n] \in Inode /\ left[n] \in synced
        BY <1>1, EntryShown
  <2>2. left[n] # None => data'[left[n]] = data[left[n]]
        BY <2>1 DEF PowerLoss
  <2> QED BY <2>2 DEF Shown
<1>3. Seen' = seen
      BY <1>1, <1>2 DEF Seen
<1>4. Kept' = [n \in Name |-> {seen[n]}]
  <2>1. ASSUME NEW n \in Name PROVE Kept'[n] = {seen[n]}
        BY <1>1, <1>2 DEF Kept
  <2> QED BY <2>1 DEF Kept
<1>5. /\ seen \in [Name -> Version \cup {Missing}]
      /\ \A n \in Name : seen[n] \in Kept[n]
      BY <1>1, EntryShown DEF Kept
<1>6. Outcome' = [p \in Proc |-> NoResult]
      BY DEF PowerLoss, Outcome
<1>7. Registers!PowerLoss
      BY <1>3, <1>4, <1>5, <1>6 DEF Registers!PowerLoss, Registers!NoResult, NoResult,
         Seen, Kept, Outcome
<1> QED BY <1>7 DEF Registers!Next

LEMMA NextMaps == TypeOK /\ [Next]_vars => [Registers!Next]_(Registers!vars)
<1> SUFFICES ASSUME TypeOK, [Next]_vars
             PROVE  Registers!Next \/ UNCHANGED Registers!vars
    OBVIOUS
<1>1. ASSUME NEW p \in Proc, NEW n \in File, NEW v \in Value, Save(p, n, v)
      PROVE  Registers!Next
      BY <1>1, CreateTempMaps DEF Save
<1>2. ASSUME NEW p \in Proc, NEW v \in Value, WriteSnapshot(p, v) PROVE Registers!Next
      BY <1>2, CreateTempMaps DEF WriteSnapshot
<1>3. ASSUME NEW p \in Proc, Refuse(p) \/ WriteStep(p) \/ ReadStep(p) \/ Kill(p)
      PROVE  Registers!Next \/ UNCHANGED Registers!vars
  <2>1. CASE Refuse(p)
        BY <2>1, FinishSeen, AbstractFail DEF Refuse, disk
  <2>2. CASE WriteFails(p)
        BY <2>2, FinishSeen, AbstractFail DEF WriteFails
  <2>3. CASE Kill(p)
        BY <2>3, FinishSeen, AbstractForget DEF Kill, disk
  <2>4. CASE WriteStep(p)
        BY <2>2, <2>4, WriteMaps, RenameMaps DEF WriteStep
  <2>5. CASE ReadStep(p)
        BY <2>5, OpenMaps, DecodeMaps, Names DEF ReadStep, Load, LoadLatest
  <2> QED BY <1>3, <2>1, <2>3, <2>4, <2>5
<1>4. ASSUME NEW n \in Name, Settle(n) PROVE Registers!Next
      BY <1>4, SettleMaps
<1>5. CASE PowerLoss
      BY <1>5, PowerLossMaps
<1>6. CASE UNCHANGED vars
      BY <1>6, AbstractStutter DEF vars, disk, call, history, Seen, Kept, Outcome, Shown
<1> QED BY <1>1, <1>2, <1>3, <1>4, <1>5, <1>6 DEF Next

LEMMA InitMaps == Init => Registers!Init
<1> SUFFICES ASSUME Init PROVE Registers!Init
    OBVIOUS
<1>1. \A n \in Name : Shown(entry[n]) = Missing /\ {Shown(i) : i \in onDisk[n]} = {Missing}
      BY DEF Init, Shown
<1>2. \A p \in Proc : pc[p] # "reading" /\ result[p] = NoResult
      BY DEF Init
<1> QED BY <1>1, <1>2 DEF Registers!Init, Registers!NoResult, NoResult

\* writeFileAtomic keeps its promise: whoever reads and whatever is killed or
\* powered off, a file is replaced as a whole or not at all (store.go:317).
THEOREM ImplementsAtomicFilesCorrect == Spec => ImplementsAtomicFiles
BY InitMaps, NextMaps, StoreTypeCorrect, PTL
   DEF Spec, ImplementsAtomicFiles, Registers!Spec
=============================================================================
