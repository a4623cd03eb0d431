----------------------------- MODULE HistoryFile -----------------------------
(***************************************************************************)
(* The transfer history on disk. Several command-line processes append to  *)
(* one history.json with record_transfer: under an exclusive lock on a     *)
(* sibling file they load it (setting a damaged one aside), write the      *)
(* extended history to a temporary file, fsync that and rename it over     *)
(* history.json. The history command reads without the lock.               *)
(*                                                                         *)
(* Any system call may fail, any process may die, the power may go, and    *)
(* something else may damage history.json. Nobody syncs the directory: a   *)
(* rename lasts from when the file system writes it back.                  *)
(***************************************************************************)
EXTENDS Naturals

CONSTANTS
    Proc,              \* processes that append
    None,              \* no process, no file
    MaxRecords,        \* bound of the model: records ever appended
    MaxDamage,         \* bound of the model: times history.json is damaged
    MaxClock           \* bound of the model: seconds watched

ASSUME HistoryAssumption ==
    /\ MaxRecords \in Nat /\ MaxDamage \in Nat /\ MaxClock \in Nat
    /\ None \notin Proc

\* Transfer records, numbered as they come up.
Record == 1 .. MaxRecords

\* What is on disk under a name: a history that parses, a file of no bytes,
\* bytes that do not parse; the records whose bytes it holds; and whether it
\* has been fsynced.
File == [form : {"whole", "empty", "broken"}, recs : SUBSET Record, synced : BOOLEAN]

ASSUME NoFile == None \notin File

VARIABLES
    path,         \* history.json
    tmp,          \* history.json.tmp
    quarantine,   \* history.json.corrupt-<second>
    disk,         \* path and quarantine as the directory has been written back
    lock,         \* owner of the lock on history.json.lock
    pc,           \* per process: the system call it is at
    mem,          \* per process: the history it has loaded
    record,       \* per process: the record it appends, 0 if none
    begun,        \* records so far
    reported,     \* records for which record_transfer returned Ok
    overwritten,  \* records in set-aside files replaced by a later one of that second
    undone,       \* records whose rename a power loss has undone
    reader,       \* what the history command is at
    due,          \* records reported when it started
    damage,       \* times history.json was damaged so far
    clock         \* now_secs()

fileVars == <<path, tmp, quarantine, overwritten>>
diskVars == <<disk, undone>>
procVars == <<lock, pc, mem, record, begun, reported>>
readVars == <<reader, due>>
vars == <<path, tmp, quarantine, disk, lock, pc, mem, record, begun, reported,
          overwritten, undone, reader, due, damage, clock>>

\* append_record_locked between lock_exclusive and unlock.
Critical == {"load", "open", "write", "sync", "rename", "unlock"}

TypeOK ==
    /\ path \in File \cup {None} /\ tmp \in File \cup {None}
    /\ quarantine \in [0 .. MaxClock -> File \cup {None}]
    /\ disk \in [path : File \cup {None}, quarantine : [0 .. MaxClock -> File \cup {None}]]
    /\ lock \in Proc \cup {None}
    /\ pc \in [Proc -> Critical \cup {"idle", "lock"}]
    /\ mem \in [Proc -> SUBSET Record]
    /\ record \in [Proc -> Record \cup {0}] /\ begun \in 0 .. MaxRecords
    /\ reported \subseteq Record /\ overwritten \subseteq Record /\ undone \subseteq Record
    /\ reader \in {"idle", "read"} /\ due \subseteq Record
    /\ damage \in 0 .. MaxDamage
    /\ clock \in 0 .. MaxClock
    /\ \A s \in 0 .. MaxClock : quarantine[s] # None => s <= clock

EmptyFile == [form |-> "empty", recs |-> {}, synced |-> TRUE]

Init ==
    /\ path \in {None, EmptyFile} /\ tmp = None
    /\ quarantine = [s \in 0 .. MaxClock |-> None]
    /\ disk = [path |-> path, quarantine |-> quarantine]
    /\ lock = None
    /\ pc = [p \in Proc |-> "idle"]
    /\ mem = [p \in Proc |-> {}]
    /\ record = [p \in Proc |-> 0] /\ begun = 0
    /\ reported = {} /\ overwritten = {} /\ undone = {}
    /\ reader = "idle" /\ due = {}
    /\ damage = 0 /\ clock = 0

Recs(f) == IF f = None THEN {} ELSE f.recs

\* What the directory leads to, and the records in there.
Names == [path |-> path, quarantine |-> quarantine]
Stored(n) == Recs(n.path) \cup UNION {Recs(n.quarantine[s]) : s \in 0 .. MaxClock}

Broken(f) == f # None /\ f.form = "broken"

-----------------------------------------------------------------------------
(* append_record_locked, one system call after the other. *)

Step(p, here, there) == pc[p] = here /\ pc' = [pc EXCEPT ![p] = there]

\* A transfer ends; its record is to be appended.
record_transfer(p) ==
    /\ begun < MaxRecords
    /\ Step(p, "idle", "lock")
    /\ begun' = begun + 1
    /\ record' = [record EXCEPT ![p] = begun + 1]
    /\ UNCHANGED <<fileVars, diskVars, lock, mem, reported, readVars, damage, clock>>

\* Mutant of lock_exclusive: a shared lock.
lock_shared(p) ==
    /\ Step(p, "lock", "load")
    /\ lock' = p
    /\ UNCHANGED <<fileVars, diskVars, mem, record, begun, reported, readVars, damage, clock>>

lock_exclusive(p) ==
    /\ lock = None
    /\ Step(p, "lock", "load")
    /\ lock' = p
    /\ UNCHANGED <<fileVars, diskVars, mem, record, begun, reported, readVars, damage, clock>>

now_secs == clock

\* history.json is absent, empty or parses.
Load(p) ==
    /\ ~Broken(path)
    /\ Step(p, "load", "open")
    /\ mem' = [mem EXCEPT ![p] = Recs(path)]
    /\ UNCHANGED <<fileVars, diskVars, lock, record, begun, reported, readVars, damage, clock>>

\* history.json does not parse: it is renamed aside, over a file that was set
\* aside in the same second, and the history starts afresh.
Quarantine(p) ==
    /\ Broken(path)
    /\ Step(p, "load", "open")
    /\ quarantine' = [quarantine EXCEPT ![now_secs] = path]
    /\ overwritten' = overwritten \cup Recs(quarantine[now_secs])
    /\ path' = None
    /\ mem' = [mem EXCEPT ![p] = {}]
    /\ UNCHANGED <<tmp, diskVars, lock, record, begun, reported, readVars, damage, clock>>

\* Mutant of OpenTmp: history.json itself is truncated, to be written in place.
OpenInPlace(p) ==
    /\ Step(p, "open", "write")
    /\ path' = [EmptyFile EXCEPT !.synced = FALSE]
    /\ UNCHANGED <<tmp, quarantine, overwritten, diskVars, lock, mem, record, begun, reported,
                   readVars, damage, clock>>

\* The temporary file is opened and truncated.
OpenTmp(p) ==
    /\ Step(p, "open", "write")
    /\ tmp' = [EmptyFile EXCEPT !.synced = FALSE]
    /\ UNCHANGED <<path, quarantine, overwritten, diskVars, lock, mem, record, begun, reported,
                   readVars, damage, clock>>

WriteTmp(p) ==
    /\ Step(p, "write", "sync")
    /\ tmp' = [form |-> "whole", recs |-> mem[p] \cup {record[p]}, synced |-> FALSE]
    /\ UNCHANGED <<path, quarantine, overwritten, diskVars, lock, mem, record, begun, reported,
                   readVars, damage, clock>>

SyncTmp(p) ==
    /\ Step(p, "sync", "rename")
    /\ tmp' = [tmp EXCEPT !.synced = TRUE]
    /\ UNCHANGED <<path, quarantine, overwritten, diskVars, lock, mem, record, begun, reported,
                   readVars, damage, clock>>

Rename(p) ==
    /\ Step(p, "rename", "unlock")
    /\ path' = tmp
    /\ tmp' = None
    /\ UNCHANGED <<quarantine, overwritten, diskVars, lock, mem, record, begun, reported,
                   readVars, damage, clock>>

\* record_transfer returns Ok, even if the unlock itself fails: the handle goes.
Unlock(p) ==
    /\ Step(p, "unlock", "idle")
    /\ lock' = None
    /\ reported' = reported \cup {record[p]}
    /\ mem' = [mem EXCEPT ![p] = {}] /\ record' = [record EXCEPT ![p] = 0]
    /\ UNCHANGED <<fileVars, diskVars, begun, readVars, damage, clock>>

\* Mutant of Stops: the lock is a file that whoever stops early leaves behind.
StopsHoldingLock(p) ==
    /\ pc[p] # "idle"
    /\ pc' = [pc EXCEPT ![p] = "idle"]
    /\ mem' = [mem EXCEPT ![p] = {}] /\ record' = [record EXCEPT ![p] = 0]
    /\ UNCHANGED <<fileVars, diskVars, lock, begun, reported, readVars, damage, clock>>

\* A system call fails and record_transfer returns its error, or the process
\* dies; either way the lock goes with the file handle, and files stay as they are.
Stops(p) ==
    /\ pc[p] # "idle"
    /\ pc' = [pc EXCEPT ![p] = "idle"]
    /\ lock' = IF lock = p THEN None ELSE lock
    /\ mem' = [mem EXCEPT ![p] = {}] /\ record' = [record EXCEPT ![p] = 0]
    /\ UNCHANGED <<fileVars, diskVars, begun, reported, readVars, damage, clock>>

-----------------------------------------------------------------------------
(* The history command, which takes no lock. *)

\* It looks whether the file exists (if not, it says so and ends) ...
HistoryStarts ==
    /\ reader = "idle"
    /\ path # None
    /\ reader' = "read" /\ due' = reported \ undone
    /\ UNCHANGED <<fileVars, diskVars, procVars, damage, clock>>

\* ... and then loads it, to list what it holds or to fail.
HistoryReads ==
    /\ reader = "read"
    /\ reader' = "idle" /\ due' = {}
    /\ UNCHANGED <<fileVars, diskVars, procVars, damage, clock>>

\* What the command lists if it reads now: an empty or damaged file does not parse.
Listed == IF path # None /\ path.form = "whole" THEN path.recs ELSE {}

-----------------------------------------------------------------------------
(* What happens to the files and the machine. *)

\* Some other program, or the disk, damages history.json; most of its bytes stay.
Damaged ==
    /\ damage < MaxDamage
    /\ path # None
    /\ path' = [path EXCEPT !.form = "broken"]
    /\ disk' = IF disk.path = path THEN [disk EXCEPT !.path = path'] ELSE disk
    /\ damage' = damage + 1
    /\ UNCHANGED <<tmp, quarantine, overwritten, undone, procVars, readVars, clock>>

\* The file system writes the directory back.
Writeback ==
    /\ disk # Names
    /\ disk' = Names
    /\ UNCHANGED <<fileVars, undone, procVars, readVars, damage, clock>>

\* What a power loss may leave of a file: all of it once it is fsynced.
Surviving(f) ==
    IF f = None \/ f.synced THEN {f}
    ELSE {f, [form |-> "broken", recs |-> {}, synced |-> TRUE]}

\* The machine stops: renames not written back yet are undone with it.
PowerLoss ==
    /\ disk # Names \/ \E p \in Proc : pc[p] # "idle"
    /\ pc' = [p \in Proc |-> "idle"]
    /\ mem' = [p \in Proc |-> {}] /\ record' = [p \in Proc |-> 0]
    /\ lock' = None
    /\ \E names \in {Names, disk} :
           /\ path' \in Surviving(names.path)
           /\ quarantine' = names.quarantine
           /\ disk' = [path |-> path', quarantine |-> quarantine']
           /\ undone' = undone \cup (Stored(Names) \ Stored(names))
    /\ tmp' \in Surviving(tmp)
    /\ reader' = "idle" /\ due' = {}
    /\ UNCHANGED <<overwritten, begun, reported, damage, clock>>

Tick ==
    /\ clock < MaxClock
    /\ clock' = clock + 1
    /\ UNCHANGED <<fileVars, diskVars, procVars, readVars, damage>>

Append(p) ==
    \/ lock_exclusive(p)
    \/ Load(p)
    \/ Quarantine(p)
    \/ OpenTmp(p)
    \/ WriteTmp(p)
    \/ SyncTmp(p)
    \/ Rename(p)
    \/ Unlock(p)

Next ==
    \/ \E p \in Proc : record_transfer(p) \/ Append(p) \/ Stops(p)
    \/ HistoryStarts
    \/ HistoryReads
    \/ Damaged
    \/ Writeback
    \/ PowerLoss
    \/ Tick

Spec == Init /\ [][Next]_vars

\* A process that runs gets its system calls done, and the lock in its turn.
FairSpec == Spec /\ \A p \in Proc : SF_vars(Append(p))

-----------------------------------------------------------------------------
(* Properties. *)

\* A record reported as written is never lost, whatever other processes do and
\* wherever they or the machine stop: it is in history.json or in a file set
\* aside, with two exceptions. A later damaged file of the same second takes the
\* name of one set aside, and a power loss undoes a rename not yet written back.
NoRecordLost ==
    reported \subseteq Stored(Names) \cup overwritten \cup undone

\* Nothing the processes or a power loss do leaves a history.json that does
\* not parse: without damage from outside it is absent, empty as it was found,
\* or whole.
NeverTorn ==
    Broken(path) => damage > 0

\* The history command, which takes no lock, lists every record reported before
\* it started, unless the file is damaged, and so fails on an empty one only
\* while there is nothing to list.
ReadsAreComplete == [][HistoryReads /\ damage = 0 => due \subseteq Listed]_vars

\* Whoever waits for the lock gets on: every append ends.
AppendsEnd == \A p \in Proc : pc[p] # "idle" ~> pc[p] = "idle"
=============================================================================
