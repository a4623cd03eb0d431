-------------------------- MODULE HistoryFileProofs --------------------------
(***************************************************************************)
(* The history file loses no record and is never torn, for any number of   *)
(* processes and records, and however often calls fail, processes die, the *)
(* power goes and the file is damaged.                                     *)
(***************************************************************************)
EXTENDS HistoryFile, TLAPS

\* Records that are not lost.
Kept == Stored(Names) \cup overwritten \cup undone

\* Whoever is between lock_exclusive and unlock has the lock, and a record.
Exclusive ==
    \A p \in Proc : /\ pc[p] \in Critical => lock = p
                    /\ pc[p] # "idle" => record[p] \in Record

\* Nothing is added to history.json between a process's load and its rename.
Loaded ==
    \A p \in Proc : pc[p] \in {"open", "write", "sync", "rename"} => Recs(path) \subseteq mem[p]

\* The temporary file holds what was loaded, and the new record.
Written ==
    \A p \in Proc :
        /\ pc[p] \in {"sync", "rename"} =>
               tmp # None /\ tmp.form = "whole" /\ tmp.recs = mem[p] \cup {record[p]}
        /\ pc[p] = "rename" => tmp.synced

\* A record in place is there before it is reported.
Renamed == \A p \in Proc : pc[p] = "unlock" => record[p] \in Kept

\* A history.json, also one a power loss may bring back, is fsynced and parses
\* unless something else has damaged it.
Sound(f) == f # None => f.synced /\ (f.form = "broken" => damage > 0)

OnDisk ==
    /\ Sound(path)
    /\ Sound(disk.path)
    /\ \A s \in 0 .. MaxClock : disk.quarantine[s] # None => s <= clock

IInv ==
    /\ TypeOK
    /\ Exclusive
    /\ Loaded
    /\ Written
    /\ Renamed
    /\ OnDisk
    /\ NoRecordLost


-----------------------------------------------------------------------------
\* The records in a directory, one by one.
LEMMA StoredMeans ==
    ASSUME NEW n, NEW r
    PROVE  r \in Stored(n) <=>
               r \in Recs(n.path) \/ \E s \in 0 .. MaxClock : r \in Recs(n.quarantine[s])
  BY DEF Stored

\* A step that leaves the named files alone keeps the records in them.
LEMMA KeptSame ==
    ASSUME UNCHANGED <<path, quarantine, overwritten, undone>>
    PROVE  Kept' = Kept
  BY DEF Kept, Stored, Names, Recs

LEMMA InitIInv == Init => IInv
<1> SUFFICES ASSUME Init PROVE IInv
  OBVIOUS
<1>1. TypeOK
  <2>1. EmptyFile \in File
    BY DEF EmptyFile, File
  <2>2. path \in File \cup {None}
    BY <2>1 DEF Init
  <2>3. quarantine \in [0 .. MaxClock -> File \cup {None}]
    BY DEF Init
  <2>4. disk \in [path : File \cup {None}, quarantine : [0 .. MaxClock -> File \cup {None}]]
    BY <2>2, <2>3 DEF Init
  <2> QED BY <2>2, <2>3, <2>4, HistoryAssumption DEF Init, TypeOK, Record, Critical
<1>2. OnDisk
  BY HistoryAssumption DEF Init, OnDisk, Sound, EmptyFile
<1>3. Exclusive /\ Loaded /\ Written /\ Renamed /\ NoRecordLost
  BY DEF Init, Exclusive, Loaded, Written, Renamed, NoRecordLost, Critical
<1> QED BY <1>1, <1>2, <1>3 DEF IInv

-----------------------------------------------------------------------------
(* The steps of a process. *)

LEMMA RecordTransferKeeps ==
    ASSUME IInv, NEW p \in Proc, record_transfer(p)
    PROVE  IInv'
<1> USE DEF record_transfer, Step, fileVars, diskVars, readVars
<1>1. TypeOK'
  BY HistoryAssumption DEF IInv, TypeOK, Record
<1>2. Kept' = Kept /\ NoRecordLost'
  BY KeptSame DEF IInv, NoRecordLost, Kept
<1>3. Exclusive'
  BY HistoryAssumption DEF IInv, TypeOK, Exclusive, Record, Critical
<1>4. Loaded' /\ Written' /\ Renamed'
  BY <1>2 DEF IInv, TypeOK, Loaded, Written, Renamed, Recs
<1>5. OnDisk'
  BY DEF IInv, OnDisk, Sound
<1> QED BY <1>1, <1>2, <1>3, <1>4, <1>5 DEF IInv

LEMMA LockKeeps ==
    ASSUME IInv, NEW p \in Proc, lock_exclusive(p)
    PROVE  IInv'
<1> USE DEF lock_exclusive, Step, fileVars, diskVars, readVars
<1>1. TypeOK'
  BY DEF IInv, TypeOK, Critical
<1>2. Kept' = Kept /\ NoRecordLost'
  BY KeptSame DEF IInv, NoRecordLost, Kept
<1>3. Exclusive'
  BY HistoryAssumption DEF IInv, TypeOK, Exclusive, Critical
<1>4. Loaded' /\ Written' /\ Renamed'
  BY <1>2 DEF IInv, TypeOK, Loaded, Written, Renamed, Recs
<1>5. OnDisk'
  BY DEF IInv, OnDisk, Sound
<1> QED BY <1>1, <1>2, <1>3, <1>4, <1>5 DEF IInv

\* The records of a file of the model are records.
LEMMA RecsType ==
    ASSUME NEW f \in File \cup {None}
    PROVE  Recs(f) \in SUBSET Record
  BY DEF Recs, File

LEMMA LoadKeeps ==
    ASSUME IInv, NEW p \in Proc, Load(p)
    PROVE  IInv'
<1> USE DEF Load, Step, fileVars, diskVars, readVars
<1>0. Recs(path) \in SUBSET Record
  BY RecsType DEF IInv, TypeOK
<1>1. TypeOK'
  BY <1>0 DEF IInv, TypeOK, Critical
<1>2. Kept' = Kept /\ NoRecordLost'
  BY KeptSame DEF IInv, NoRecordLost, Kept
<1>3. Exclusive'
  BY DEF IInv, TypeOK, Exclusive, Critical
<1>4. Loaded' /\ Written' /\ Renamed'
  BY <1>2 DEF IInv, TypeOK, Loaded, Written, Renamed, Recs
<1>5. OnDisk'
  BY DEF IInv, OnDisk, Sound
<1> QED BY <1>1, <1>2, <1>3, <1>4, <1>5 DEF IInv

\* The renamed file's records stay: what its name led to before is noted.
LEMMA QuarantineKeeps ==
    ASSUME IInv, NEW p \in Proc, Quarantine(p)
    PROVE  IInv'
<1> USE DEF Quarantine, Step, diskVars, readVars
<1>0. now_secs \in 0 .. MaxClock /\ now_secs = clock
  BY DEF IInv, TypeOK, now_secs
<1>1. TypeOK'
  <2>1. path \in File /\ quarantine[now_secs] \in File \cup {None}
    BY <1>0 DEF IInv, TypeOK, Broken
  <2>2. Recs(quarantine[now_secs]) \in SUBSET Record
    BY <2>1, RecsType
  <2>3. quarantine' \in [0 .. MaxClock -> File \cup {None}]
    BY <1>0, <2>1 DEF IInv, TypeOK
  <2>4. \A s \in 0 .. MaxClock : quarantine'[s] # None => s <= clock'
    BY <1>0 DEF IInv, TypeOK
  <2> QED BY <2>2, <2>3, <2>4 DEF IInv, TypeOK, Critical
<1>2. Kept \subseteq Kept'
  <2> SUFFICES ASSUME NEW r \in Stored(Names)
               PROVE  r \in Stored(Names)' \/ r \in overwritten'
    BY DEF Kept
  <2>1. CASE r \in Recs(path)
    <3>1. quarantine'[now_secs] = path
      BY <1>0 DEF IInv, TypeOK
    <3> QED BY <1>0, <2>1, <3>1 DEF Stored, Names, Recs
  <2>2. CASE \E s \in 0 .. MaxClock : r \in Recs(quarantine[s])
    <3>1. PICK s \in 0 .. MaxClock : r \in Recs(quarantine[s])
      BY <2>2
    <3>2. CASE s = now_secs
      BY <3>1, <3>2
    <3>3. CASE s # now_secs
      <4>1. quarantine'[s] = quarantine[s]
        BY <1>0, <3>1, <3>3 DEF IInv, TypeOK
      <4> QED BY <3>1, <4>1 DEF Stored, Names, Recs
    <3> QED BY <3>2, <3>3
  <2> QED BY <2>1, <2>2, StoredMeans DEF Names
<1>3. NoRecordLost'
  BY <1>2 DEF IInv, NoRecordLost, Kept
<1>4. Exclusive'
  BY DEF IInv, TypeOK, Exclusive, Critical
<1>5. Loaded' /\ Written' /\ Renamed'
  BY <1>2 DEF IInv, TypeOK, Exclusive, Loaded, Written, Renamed, Recs, Critical
<1>6. OnDisk'
  BY DEF IInv, OnDisk, Sound
<1> QED BY <1>1, <1>3, <1>4, <1>5, <1>6 DEF IInv

LEMMA OpenTmpKeeps ==
    ASSUME IInv, NEW p \in Proc, OpenTmp(p)
    PROVE  IInv'
<1> USE DEF OpenTmp, Step, diskVars, readVars
<1>1. TypeOK'
  BY DEF IInv, TypeOK, Critical, EmptyFile, File
<1>2. Kept' = Kept /\ NoRecordLost'
  BY KeptSame DEF IInv, NoRecordLost, Kept
<1>3. Exclusive'
  BY DEF IInv, TypeOK, Exclusive, Critical
<1>4. Loaded' /\ Written' /\ Renamed'
  BY <1>2, HistoryAssumption DEF IInv, TypeOK, Exclusive, Loaded, Written, Renamed, Recs, Critical
<1>5. OnDisk'
  BY DEF IInv, OnDisk, Sound
<1> QED BY <1>1, <1>2, <1>3, <1>4, <1>5 DEF IInv

LEMMA WriteTmpKeeps ==
    ASSUME IInv, NEW p \in Proc, WriteTmp(p)
    PROVE  IInv'
<1> USE DEF WriteTmp, Step, diskVars, readVars
<1>0. tmp' \in File
  BY DEF IInv, TypeOK, Exclusive, File
<1>1. TypeOK'
  BY <1>0 DEF IInv, TypeOK, Critical
<1>2. Kept' = Kept /\ NoRecordLost'
  BY KeptSame DEF IInv, NoRecordLost, Kept
<1>3. Exclusive'
  BY DEF IInv, TypeOK, Exclusive, Critical
<1>4. Written'
  BY <1>0, NoFile DEF IInv, TypeOK, Exclusive, Written, Critical
<1>5. Loaded' /\ Renamed'
  BY <1>2 DEF IInv, TypeOK, Loaded, Renamed, Recs
<1>6. OnDisk'
  BY DEF IInv, OnDisk, Sound
<1> QED BY <1>1, <1>2, <1>3, <1>4, <1>5, <1>6 DEF IInv

LEMMA SyncTmpKeeps ==
    ASSUME IInv, NEW p \in Proc, SyncTmp(p)
    PROVE  IInv'
<1> USE DEF SyncTmp, Step, diskVars, readVars
<1>0. /\ tmp \in File /\ tmp' \in File
      /\ tmp'.form = tmp.form /\ tmp'.recs = tmp.recs /\ tmp'.synced
  BY DEF IInv, TypeOK, Written, File
<1>1. TypeOK'
  BY <1>0 DEF IInv, TypeOK, Critical
<1>2. Kept' = Kept /\ NoRecordLost'
  BY KeptSame DEF IInv, NoRecordLost, Kept
<1>3. Exclusive'
  BY DEF IInv, TypeOK, Exclusive, Critical
<1>4. Written'
  BY <1>0, NoFile DEF IInv, TypeOK, Exclusive, Written, Critical
<1>5. Loaded' /\ Renamed'
  BY <1>2 DEF IInv, TypeOK, Loaded, Renamed, Recs
<1>6. OnDisk'
  BY DEF IInv, OnDisk, Sound
<1> QED BY <1>1, <1>2, <1>3, <1>4, <1>5, <1>6 DEF IInv

\* history.json is replaced by all it held and the new record.
LEMMA RenameKeeps ==
    ASSUME IInv, NEW p \in Proc, Rename(p)
    PROVE  IInv'
<1> USE DEF Rename, Step, diskVars, readVars
<1>0. /\ path' \in File /\ path'.form = "whole" /\ path'.synced
      /\ path'.recs = mem[p] \cup {record[p]}
      /\ Recs(path) \subseteq mem[p]
  BY DEF IInv, TypeOK, Loaded, Written
<1>1. TypeOK'
  BY <1>0 DEF IInv, TypeOK, Critical
<1>2. Kept \subseteq Kept' /\ record[p] \in Kept'
  <2>1. Recs(path') = path'.recs
    BY <1>0, NoFile DEF Recs
  <2>2. Stored(Names) \subseteq Stored(Names)' /\ record[p] \in Stored(Names)'
    BY <1>0, <2>1 DEF Stored, Names, Recs
  <2> QED BY <2>2 DEF Kept
<1>3. NoRecordLost'
  BY <1>2 DEF IInv, NoRecordLost, Kept
<1>4. Exclusive'
  BY DEF IInv, TypeOK, Exclusive, Critical
<1>5. Loaded' /\ Written'
  BY DEF IInv, TypeOK, Exclusive, Loaded, Written, Critical
<1>6. Renamed'
  BY <1>2 DEF IInv, TypeOK, Renamed
<1>7. OnDisk'
  BY <1>0 DEF IInv, OnDisk, Sound
<1> QED BY <1>1, <1>3, <1>4, <1>5, <1>6, <1>7 DEF IInv

LEMMA UnlockKeeps ==
    ASSUME IInv, NEW p \in Proc, Unlock(p)
    PROVE  IInv'
<1> USE DEF Unlock, Step, fileVars, diskVars, readVars
<1>0. record[p] \in Record /\ record[p] \in Kept
  BY DEF IInv, Exclusive, Renamed
<1>1. TypeOK'
  BY <1>0 DEF IInv, TypeOK, Critical
<1>2. Kept' = Kept
  BY KeptSame
<1>3. NoRecordLost'
  BY <1>0, <1>2 DEF IInv, NoRecordLost, Kept
<1>4. Exclusive'
  BY DEF IInv, TypeOK, Exclusive, Critical
<1>5. Loaded' /\ Written' /\ Renamed'
  BY <1>2 DEF IInv, TypeOK, Loaded, Written, Renamed, Recs
<1>6. OnDisk'
  BY DEF IInv, OnDisk, Sound
<1> QED BY <1>1, <1>3, <1>4, <1>5, <1>6 DEF IInv

LEMMA StopsKeeps ==
    ASSUME IInv, NEW p \in Proc, Stops(p)
    PROVE  IInv'
<1> USE DEF Stops, fileVars, diskVars, readVars
<1>1. TypeOK'
  BY DEF IInv, TypeOK, Critical
<1>2. Kept' = Kept /\ NoRecordLost'
  BY KeptSame DEF IInv, NoRecordLost, Kept
<1>3. Exclusive'
  BY DEF IInv, TypeOK, Exclusive, Critical
<1>4. Loaded' /\ Written' /\ Renamed'
  BY <1>2 DEF IInv, TypeOK, Loaded, Written, Renamed, Recs
<1>5. OnDisk'
  BY DEF IInv, OnDisk, Sound
<1> QED BY <1>1, <1>2, <1>3, <1>4, <1>5 DEF IInv

-----------------------------------------------------------------------------
(* The history command, and what happens to the files and the machine. *)

LEMMA ReaderKeeps ==
    ASSUME IInv, HistoryStarts \/ HistoryReads
    PROVE  IInv'
<1> USE DEF HistoryStarts, HistoryReads, fileVars, diskVars, procVars
<1>1. TypeOK'
  BY DEF IInv, TypeOK
<1>2. Kept' = Kept /\ NoRecordLost'
  BY KeptSame DEF IInv, NoRecordLost, Kept
<1>3. Exclusive' /\ Loaded' /\ Written' /\ Renamed'
  BY <1>2 DEF IInv, Exclusive, Loaded, Written, Renamed, Recs
<1>4. OnDisk'
  BY DEF IInv, OnDisk, Sound
<1> QED BY <1>1, <1>2, <1>3, <1>4 DEF IInv

LEMMA TickKeeps ==
    ASSUME IInv, Tick
    PROVE  IInv'
<1> USE DEF Tick, fileVars, diskVars, procVars, readVars
<1>1. TypeOK'
  BY HistoryAssumption DEF IInv, TypeOK
<1>2. Kept' = Kept /\ NoRecordLost'
  BY KeptSame DEF IInv, NoRecordLost, Kept
<1>3. Exclusive' /\ Loaded' /\ Written' /\ Renamed'
  BY <1>2 DEF IInv, Exclusive, Loaded, Written, Renamed, Recs
<1>4. OnDisk'
  BY HistoryAssumption DEF IInv, TypeOK, OnDisk, Sound
<1> QED BY <1>1, <1>2, <1>3, <1>4 DEF IInv

\* Damage does not take the bytes of the records away.
LEMMA DamagedKeeps ==
    ASSUME IInv, Damaged
    PROVE  IInv'
<1> USE DEF Damaged, procVars, readVars
<1>0. /\ path \in File /\ path' \in File
      /\ path'.recs = path.recs /\ path'.synced = path.synced
      /\ damage' > 0 /\ damage' \in 0 .. MaxDamage
  <2>1. path \in File
    BY DEF IInv, TypeOK
  <2>2. path' \in File /\ path'.recs = path.recs /\ path'.synced = path.synced
    BY <2>1 DEF File
  <2>3. damage' > 0 /\ damage' \in 0 .. MaxDamage
    BY HistoryAssumption DEF IInv, TypeOK
  <2> QED BY <2>1, <2>2, <2>3
<1>1. disk' \in [path : File \cup {None}, quarantine : [0 .. MaxClock -> File \cup {None}]]
      /\ disk'.quarantine = disk.quarantine /\ disk'.path \in {disk.path, path'}
  BY <1>0 DEF IInv, TypeOK
<1>2. TypeOK'
  BY <1>0, <1>1 DEF IInv, TypeOK
<1>3. Recs(path') = Recs(path)
  BY <1>0, NoFile DEF Recs
<1>4. Kept' = Kept
  <2>1. Names'.path = path' /\ Names'.quarantine = Names.quarantine /\ Names.path = path
    BY DEF Names
  <2>2. Stored(Names)' = Stored(Names)
    BY <1>3, <2>1 DEF Stored
  <2> QED BY <2>2 DEF Kept
<1>5. NoRecordLost'
  BY <1>4 DEF IInv, NoRecordLost, Kept
<1>6. Exclusive' /\ Loaded' /\ Written' /\ Renamed'
  BY <1>3, <1>4 DEF IInv, Exclusive, Loaded, Written, Renamed, Recs
<1>7. OnDisk'
  BY <1>0, <1>1 DEF IInv, OnDisk, Sound
<1> QED BY <1>2, <1>5, <1>6, <1>7 DEF IInv

LEMMA WritebackKeeps ==
    ASSUME IInv, Writeback
    PROVE  IInv'
<1> USE DEF Writeback, fileVars, procVars, readVars
<1>1. TypeOK'
  BY DEF IInv, TypeOK, Names
<1>2. Kept' = Kept /\ NoRecordLost'
  BY KeptSame DEF IInv, NoRecordLost, Kept
<1>3. Exclusive' /\ Loaded' /\ Written' /\ Renamed'
  BY <1>2 DEF IInv, Exclusive, Loaded, Written, Renamed, Recs
<1>4. OnDisk'
  BY DEF IInv, TypeOK, OnDisk, Sound, Names
<1> QED BY <1>1, <1>2, <1>3, <1>4 DEF IInv

\* Every history.json a power loss may leave has been fsynced, so it survives
\* as it is; what else is not there any more is noted as undone.
LEMMA PowerLossKeeps ==
    ASSUME IInv, PowerLoss
    PROVE  IInv'
<1> USE DEF PowerLoss
<1>1. PICK names \in {Names, disk} :
           /\ path' \in Surviving(names.path)
           /\ quarantine' = names.quarantine
           /\ disk' = [path |-> path', quarantine |-> quarantine']
           /\ undone' = undone \cup (Stored(Names) \ Stored(names))
  OBVIOUS
<1>2. /\ names.path \in File \cup {None} /\ Sound(names.path)
      /\ names.quarantine \in [0 .. MaxClock -> File \cup {None}]
      /\ \A s \in 0 .. MaxClock : names.quarantine[s] # None => s <= clock
  <2>1. CASE names = Names
    <3>1. names.path = path /\ names.quarantine = quarantine
      BY <2>1 DEF Names
    <3> QED BY <3>1 DEF IInv, TypeOK, OnDisk
  <2>2. CASE names = disk
    BY <2>2 DEF IInv, TypeOK, OnDisk
  <2> QED BY <2>1, <2>2
<1>3. path' = names.path
  BY <1>1, <1>2 DEF Surviving, Sound
<1>4. tmp' \in File \cup {None}
  <2>1. [form |-> "broken", recs |-> {}, synced |-> TRUE] \in File
    BY DEF File
  <2> QED BY <2>1 DEF IInv, TypeOK, Surviving
<1>5. Stored(Names) \subseteq Record
  BY RecsType DEF IInv, TypeOK, Stored, Names
<1>6. TypeOK'
  BY <1>1, <1>2, <1>3, <1>4, <1>5 DEF IInv, TypeOK
<1>7. NoRecordLost'
  <2>1. Stored(Names)' = Stored(names)
    BY <1>1, <1>3 DEF Stored, Names
  <2> QED BY <1>1, <2>1 DEF IInv, NoRecordLost
<1>8. Exclusive' /\ Loaded' /\ Written' /\ Renamed'
  BY DEF Exclusive, Loaded, Written, Renamed, Critical
<1>9. OnDisk'
  BY <1>1, <1>2, <1>3 DEF OnDisk, Sound
<1> QED BY <1>6, <1>7, <1>8, <1>9 DEF IInv

-----------------------------------------------------------------------------
LEMMA NextKeeps == IInv /\ [Next]_vars => IInv'
<1> SUFFICES ASSUME IInv, [Next]_vars PROVE IInv'
  OBVIOUS
<1>1. CASE Next
  BY <1>1, RecordTransferKeeps, LockKeeps, LoadKeeps, QuarantineKeeps, OpenTmpKeeps,
     WriteTmpKeeps, SyncTmpKeeps, RenameKeeps, UnlockKeeps, StopsKeeps, ReaderKeeps,
     DamagedKeeps, WritebackKeeps, PowerLossKeeps, TickKeeps DEF Next, Append
<1>2. CASE UNCHANGED vars
  <2> USE <1>2 DEF vars
  <2>1. TypeOK'
    BY DEF IInv, TypeOK
  <2>2. Kept' = Kept /\ NoRecordLost'
    BY KeptSame DEF IInv, NoRecordLost, Kept
  <2>3. Exclusive' /\ Loaded' /\ Written' /\ Renamed'
    BY <2>2 DEF IInv, Exclusive, Loaded, Written, Renamed, Recs
  <2>4. OnDisk'
    BY DEF IInv, OnDisk, Sound
  <2> QED BY <2>1, <2>2, <2>3, <2>4 DEF IInv
<1> QED BY <1>1, <1>2

\* Every process that appends, reads or is killed, and every loss of power, keeps
\* the inductive invariant.
THEOREM Invariance == Spec => []IInv
  BY InitIInv, NextKeeps, PTL DEF Spec

\* The files, the lock and the processes keep their types; a file set aside has
\* a second that has come.
THEOREM TypeCorrect == Spec => []TypeOK
<1>1. IInv => TypeOK
  BY DEF IInv
<1> QED BY <1>1, Invariance, PTL

\* record_transfer never loses a record it has reported, except to a name taken
\* twice in a second or to a power loss before the directory is written back.
THEOREM RecordsNotLost == Spec => []NoRecordLost
<1>1. IInv => NoRecordLost
  BY DEF IInv
<1> QED BY <1>1, Invariance, PTL

\* Only something else can make history.json unreadable.
THEOREM HistoryNeverTorn == Spec => []NeverTorn
<1>1. IInv => NeverTorn
  BY DEF IInv, OnDisk, Sound, NeverTorn, Broken
<1> QED BY <1>1, Invariance, PTL

-----------------------------------------------------------------------------
(* The history command. Its reads are complete because nothing is set       *)
(* aside while history.json is undamaged: all that is kept is in there.     *)

NoneSetAside ==
    damage = 0 => /\ overwritten = {}
                  /\ \A s \in 0 .. MaxClock : quarantine[s] = None /\ disk.quarantine[s] = None

\* An empty file holds no records.
NothingIn(f) == f # None => (f.form = "empty" => f.recs = {})

Reading == reader = "read" /\ damage = 0 => due \subseteq Recs(path)

RInv ==
    /\ NoneSetAside
    /\ NothingIn(path)
    /\ NothingIn(disk.path)
    /\ Reading

LEMMA InitReads == Init => RInv
  BY DEF Init, RInv, NoneSetAside, NothingIn, Reading, EmptyFile

\* A step that leaves the named files and the reader alone.
LEMMA ReadsSame ==
    ASSUME RInv, UNCHANGED <<path, quarantine, overwritten, disk, damage, reader, due>>
    PROVE  RInv'
  BY DEF RInv, NoneSetAside, NothingIn, Reading, Recs

LEMMA RenameReads ==
    ASSUME IInv, RInv, NEW p \in Proc, Rename(p)
    PROVE  RInv'
<1> USE DEF Rename, Step, diskVars, readVars
<1>1. /\ path' # None /\ path'.form = "whole"
      /\ path'.recs = mem[p] \cup {record[p]} /\ Recs(path) \subseteq mem[p]
  BY DEF IInv, Loaded, Written
<1>2. Recs(path) \subseteq Recs(path')
  BY <1>1 DEF Recs
<1>3. Reading'
  BY <1>2 DEF RInv, Reading, Recs
<1>4. NothingIn(path)'
  BY <1>1 DEF NothingIn
<1>5. NothingIn(disk.path)' /\ NoneSetAside'
  BY DEF RInv, NothingIn, NoneSetAside
<1> QED BY <1>3, <1>4, <1>5 DEF RInv

\* What is reported and not undone is in an undamaged history.json.
LEMMA StartReads ==
    ASSUME IInv, RInv, HistoryStarts
    PROVE  RInv'
<1> USE DEF HistoryStarts, fileVars, diskVars, procVars
<1>1. ASSUME damage = 0 PROVE reported \ undone \subseteq Recs(path)
  <2> SUFFICES ASSUME NEW r \in reported, r \notin undone
               PROVE  r \in Recs(path)
    OBVIOUS
  <2>1. r \in Stored(Names)
    BY <1>1 DEF IInv, NoRecordLost, RInv, NoneSetAside
  <2>2. \A s \in 0 .. MaxClock : Recs(Names.quarantine[s]) = {}
    BY <1>1 DEF RInv, NoneSetAside, Names, Recs
  <2>3. Names.path = path
    BY DEF Names
  <2> QED BY <2>1, <2>2, <2>3, StoredMeans
<1>2. Reading'
  BY <1>1 DEF Reading, Recs
<1> QED BY <1>2 DEF RInv, NoneSetAside, NothingIn

LEMMA DamagedReads ==
    ASSUME IInv, RInv, Damaged
    PROVE  RInv'
<1> USE DEF Damaged, procVars, readVars
<1>1. path \in File /\ damage' > 0
  BY DEF IInv, TypeOK
<1>2. path'.form = "broken"
  BY <1>1 DEF File
<1>3. disk'.path \in {disk.path, path'}
  BY DEF IInv, TypeOK
<1>4. NothingIn(path)' /\ NothingIn(disk.path)'
  BY <1>2, <1>3 DEF RInv, NothingIn
<1>5. NoneSetAside' /\ Reading'
  BY <1>1 DEF NoneSetAside, Reading
<1> QED BY <1>4, <1>5 DEF RInv

LEMMA PowerLossReads ==
    ASSUME IInv, RInv, PowerLoss
    PROVE  RInv'
<1> USE DEF PowerLoss
<1>1. PICK names \in {Names, disk} :
           /\ path' \in Surviving(names.path)
           /\ quarantine' = names.quarantine
           /\ disk' = [path |-> path', quarantine |-> quarantine']
  OBVIOUS
<1>2. /\ NothingIn(names.path)
      /\ damage = 0 => \A s \in 0 .. MaxClock : names.quarantine[s] = None
  BY DEF RInv, NoneSetAside, Names
<1>3. NothingIn(path')
  BY <1>1, <1>2 DEF Surviving, NothingIn
<1>4. disk'.path = path' /\ disk'.quarantine = quarantine'
  BY <1>1
<1>5. NoneSetAside'
  BY <1>1, <1>2, <1>4 DEF RInv, NoneSetAside
<1>6. Reading'
  BY DEF Reading
<1> QED BY <1>3, <1>4, <1>5, <1>6 DEF RInv, NothingIn

LEMMA NextReads == IInv /\ RInv /\ [Next]_vars => RInv'
<1> SUFFICES ASSUME IInv, RInv, [Next]_vars PROVE RInv'
  OBVIOUS
<1>1. ASSUME NEW p \in Proc,
             \/ record_transfer(p) \/ lock_exclusive(p) \/ Load(p) \/ OpenTmp(p)
             \/ WriteTmp(p) \/ SyncTmp(p) \/ Unlock(p) \/ Stops(p)
      PROVE  RInv'
  BY <1>1, ReadsSame DEF record_transfer, lock_exclusive, Load, OpenTmp, WriteTmp,
     SyncTmp, Unlock, Stops, fileVars, diskVars, readVars
<1>2. ASSUME NEW p \in Proc, Quarantine(p) PROVE RInv'
  <2>1. damage > 0
    BY <1>2 DEF Quarantine, Broken, IInv, OnDisk, Sound
  <2>2. NothingIn(path)' /\ NothingIn(disk.path)'
    BY <1>2 DEF Quarantine, diskVars, RInv, NothingIn
  <2> QED BY <1>2, <2>1, <2>2 DEF Quarantine, RInv, NoneSetAside, Reading
<1>3. CASE HistoryReads
  BY <1>3 DEF HistoryReads, fileVars, diskVars, RInv, NoneSetAside, NothingIn, Reading
<1>4. CASE Writeback
  BY <1>4 DEF Writeback, fileVars, readVars, RInv, NoneSetAside, NothingIn, Reading,
     Names, Recs
<1>5. CASE Tick \/ UNCHANGED vars
  BY <1>5, ReadsSame DEF Tick, vars, fileVars, diskVars, readVars
<1> QED BY <1>1, <1>2, <1>3, <1>4, <1>5, RenameReads, StartReads, DamagedReads,
           PowerLossReads DEF Next, Append

\* The unlocked history command misses no record reported before it started.
THEOREM HistoryReadsComplete == Spec => ReadsAreComplete
<1>1. IInv /\ RInv /\ [Next]_vars =>
          [HistoryReads /\ damage = 0 => due \subseteq Listed]_vars
  <2> SUFFICES ASSUME IInv, RInv, HistoryReads, damage = 0 PROVE due \subseteq Listed
    OBVIOUS
  <2>1. due \subseteq Recs(path)
    BY DEF RInv, Reading, HistoryReads
  <2>2. path # None => path.form \in {"whole", "empty", "broken"} /\ path.form # "broken"
    BY DEF IInv, TypeOK, File, OnDisk, Sound
  <2> QED BY <2>1, <2>2 DEF RInv, NothingIn, Listed, Recs
<1> QED BY <1>1, InitReads, NextReads, Invariance, PTL DEF Spec, ReadsAreComplete
=============================================================================
