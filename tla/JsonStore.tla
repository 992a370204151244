----------------------------- MODULE JsonStore -----------------------------
(***************************************************************************)
(* One file kept by lib/json-store.js, and the processes that use it (the  *)
(* server and the recovery command).  An operation waits in its process's  *)
(* promise chain, takes the SQLite mutex, which the system releases when   *)
(* the process dies, then the PID lock, a file that stays; under both it   *)
(* reads, changes and replaces the file.  A load takes no lock.  A         *)
(* Critical store keeps a backup of what it replaces, refuses a corrupt    *)
(* file, and refuses a missing one once its marker exists.                 *)
(*                                                                         *)
(* A value is the set of tags written to the file; a file that does not    *)
(* parse is Corrupt.  A file that parses but fails its validator is left   *)
(* out: the code refuses it as it does a corrupt one, without a copy.      *)
(***************************************************************************)
EXTENDS Naturals, FiniteSets, Sequences

CONSTANTS
  Procs,     \* process slots
  Pids,      \* process ids the system hands out
  ReusePids, \* a process may start with the id in a lock left behind
  Tasks,     \* calls of load, save, update and restore
  Home,      \* Home[t]: the process of t
  Kind,      \* Kind[t]: load, save, update or restore
  Tag,       \* Tag[t]: what t writes
  Critical,  \* createCriticalStore
  Budget,    \* Budget[k]: how many kills, power losses, faults and damages
  Missing, Corrupt, Nobody

NoPid == 0
Lockers == {t \in Tasks : Kind[t] # "load"}
Content == SUBSET {Tag[t] : t \in Lockers}

ASSUME StoreAssumption ==
  /\ Pids \subseteq Nat \ {NoPid}
  /\ ReusePids \in BOOLEAN /\ Critical \in BOOLEAN
  /\ Home \in [Tasks -> Procs]
  /\ Kind \in [Tasks -> {"load", "save", "update", "restore"}]
  /\ DOMAIN Tag = Tasks
  /\ Budget \in [{"kill", "power", "fault", "damage"} -> Nat]
  /\ Missing # Corrupt /\ Missing \notin Content /\ Corrupt \notin Content
  /\ Nobody \notin Tasks

VARIABLES
  file,       \* what a read finds
  maybe,      \* what a power loss may leave of it
  marker,     \* the .initialized file: no, unsynced, yes
  quarantine, \* the .corrupt copy: none, partial, whole
  backups,    \* the contents of the backup directory
  mutex,      \* the task whose SQLite transaction is open
  pidlock,    \* the id in the lock file
  pid,        \* pid[p]: the id of the process in slot p
  chain,      \* chain[p]: its tasks on the file's promise chain, oldest first
  pc,         \* pc[t]: where t is; see Idle .. Ended
  data,       \* data[t]: what t read, then what it will write
  left        \* what is left of Budget

disk == <<file, maybe, marker, quarantine, backups>>
locks == <<mutex, pidlock, pid, chain>>
vars == <<disk, locks, pc, data, left>>

Ended == {"ok", "skipped", "failed", "lost"}
Waiting == {"queued", "claim"}
Reading == {"read", "check", "quarantine"}
Writing == {"mutate", "preserve", "write", "sync", "mark"}
Leaving == {"succeed", "skip", "fail"}
Places == {"idle", "confirm"} \union Waiting \union Reading \union Writing \union Leaving \union Ended

TypeOK ==
  /\ file \in Content \union {Missing, Corrupt}
  /\ maybe \subseteq Content \union {Missing, Corrupt}
  /\ marker \in {"no", "unsynced", "yes"}
  /\ quarantine \in {"none", "partial", "whole"}
  /\ backups \subseteq Content \union {Corrupt}
  /\ mutex \in Tasks \union {Nobody}
  /\ pidlock \in Pids \union {NoPid}
  /\ pid \in [Procs -> Pids \union {NoPid}]
  /\ chain \in [Procs -> Seq(Tasks)]
  /\ pc \in [Tasks -> Places]
  /\ data \in [Tasks -> Content]
  /\ left \in [DOMAIN Budget -> Nat]

Init ==
  /\ file \in {Missing, {}} /\ maybe = {file}
  /\ marker = "no" /\ quarantine = "none" /\ backups = {}
  /\ mutex = Nobody /\ pidlock = NoPid
  /\ pid = [p \in Procs |-> NoPid]
  /\ chain = [p \in Procs |-> <<>>]
  /\ pc = [t \in Tasks |-> "idle"]
  /\ data = [t \in Tasks |-> {}]
  /\ left = Budget

Goto(t, where) == pc' = [pc EXCEPT ![t] = where]
Set(t, v) == data' = [data EXCEPT ![t] = v]
Spend(k) == left[k] > 0 /\ left' = [left EXCEPT ![k] = @ - 1]

LivePids == {pid[p] : p \in Procs} \ {NoPid}
AtHead(t) == chain[Home[t]] # <<>> /\ Head(chain[Home[t]]) = t
Unchained(t) == chain' = [chain EXCEPT ![Home[t]] = Tail(@)]

-----------------------------------------------------------------------------
(* Locks.                                                                  *)

Call(t) ==
  /\ pc[t] = "idle" /\ pid[Home[t]] # NoPid
  /\ IF Kind[t] = "load"
     THEN Goto(t, "read") /\ UNCHANGED chain
     ELSE Goto(t, "queued") /\ chain' = [chain EXCEPT ![Home[t]] = Append(@, t)]
  /\ UNCHANGED <<disk, mutex, pidlock, pid, data, left>>

EnterMutex(t) ==
  /\ pc[t] = "queued" /\ AtHead(t) /\ mutex = Nobody
  /\ mutex' = t
  /\ Goto(t, "claim")
  /\ UNCHANGED <<disk, pidlock, pid, chain, data, left>>

Claim(t) ==
  /\ pc[t] = "claim" /\ pidlock = NoPid
  /\ pidlock' = pid[Home[t]]
  /\ Goto(t, IF Kind[t] = "save" THEN "mutate" ELSE "read")
  /\ UNCHANGED <<disk, mutex, pid, chain, data, left>>

(* Fault: takes only a lock whose content is no process id. *)
Steal_OnlyInvalid(t) ==
  /\ pc[t] = "claim" /\ pidlock \notin Pids \union {NoPid}
  /\ pidlock' = NoPid
  /\ UNCHANGED <<disk, mutex, pid, chain, pc, data, left>>

(* stealStaleProcessLock: the owner is another process, and it is gone.    *)
Steal(t) ==
  /\ pc[t] = "claim" /\ pidlock \notin LivePids \union {NoPid}
  /\ pidlock' = NoPid
  /\ UNCHANGED <<disk, mutex, pid, chain, pc, data, left>>

(* The mutex or the lock file cannot be opened or created.                 *)
LockFault(t) ==
  /\ Spend("fault")
  /\ \/ pc[t] = "queued" /\ AtHead(t) /\ mutex' = mutex
     \/ pc[t] = "claim" /\ mutex' = Nobody
  /\ Unchained(t)
  /\ Goto(t, "failed")
  /\ UNCHANGED <<disk, pidlock, pid, data>>

Release(t) ==
  /\ pc[t] \in Leaving
  /\ mutex' = Nobody /\ pidlock' = NoPid
  /\ Unchained(t)
  /\ Goto(t, CASE pc[t] = "skip" -> "skipped"
               [] pc[t] = "fail" -> "failed"
               [] OTHER -> IF Critical /\ Kind[t] = "restore" THEN "confirm" ELSE "ok")
  /\ UNCHANGED <<disk, pid, data, left>>

-----------------------------------------------------------------------------
(* Reading: load(), called by itself or by an update that holds the locks. *)

AfterFailure(t) == IF Kind[t] = "load" THEN "failed" ELSE "fail"
Failed(t) == Goto(t, AfterFailure(t))
Loaded(t, v) == Set(t, v) /\ Goto(t, IF Kind[t] = "load" THEN "ok" ELSE "mutate")
Reads(t) == pc[t] = "read" /\ Kind[t] # "restore"

ReadValid(t) ==
  /\ Reads(t) /\ file \in Content
  /\ Loaded(t, file)
  /\ marker' = IF Critical /\ marker = "no" THEN "unsynced" ELSE marker
  /\ UNCHANGED <<file, maybe, quarantine, backups, locks, left>>

ReadMissing(t) ==
  /\ Reads(t) /\ file = Missing
  /\ IF Critical THEN Goto(t, "check") /\ UNCHANGED data ELSE Loaded(t, {})
  /\ UNCHANGED <<disk, locks, left>>

CheckMarker(t) ==
  /\ pc[t] = "check"
  /\ IF marker = "no" THEN Loaded(t, {}) ELSE Failed(t) /\ UNCHANGED data
  /\ UNCHANGED <<disk, locks, left>>

(* What load does once the corrupt bytes are kept.                         *)
Salvaged(t) == IF Critical THEN Failed(t) /\ UNCHANGED data ELSE Loaded(t, {})

(* Fault: takes any file of that name for the copy. *)
ReadCorrupt_AnyCopy(t) ==
  /\ Reads(t) /\ file = Corrupt
  /\ IF quarantine = "none"
     THEN quarantine' = "partial" /\ Goto(t, "quarantine") /\ UNCHANGED data
     ELSE Salvaged(t) /\ UNCHANGED quarantine
  /\ UNCHANGED <<file, maybe, marker, backups, locks, left>>

(* The copy is created exclusively; one that exists must hold the bytes.   *)
ReadCorrupt(t) ==
  /\ Reads(t) /\ file = Corrupt
  /\ \/ /\ quarantine = "none"
        /\ quarantine' = "partial" /\ Goto(t, "quarantine") /\ UNCHANGED data
     \/ quarantine = "whole" /\ Salvaged(t) /\ UNCHANGED quarantine
     \/ quarantine = "partial" /\ Failed(t) /\ UNCHANGED <<data, quarantine>>
  /\ UNCHANGED <<file, maybe, marker, backups, locks, left>>

Quarantined(t) ==
  /\ pc[t] = "quarantine"
  /\ quarantine' = "whole"
  /\ Salvaged(t)
  /\ UNCHANGED <<file, maybe, marker, backups, locks, left>>

-----------------------------------------------------------------------------
(* Writing.                                                                *)

(* The mutator or a validator throws, or there is nothing fit to restore.  *)
Refuse(t) ==
  /\ pc[t] = "mutate" \/ (pc[t] = "read" /\ Kind[t] = "restore")
  /\ Failed(t)
  /\ UNCHANGED <<disk, locks, data, left>>

(* The mutator answers SKIP_SAVE.                                          *)
SkipSave(t) ==
  /\ pc[t] = "mutate" /\ Kind[t] = "update"
  /\ Goto(t, "skip")
  /\ UNCHANGED <<disk, locks, data, left>>

Mutate(t) ==
  /\ pc[t] = "mutate"
  /\ Set(t, (IF Kind[t] = "update" THEN data[t] ELSE {}) \union {Tag[t]})
  /\ Goto(t, IF Critical THEN "preserve" ELSE "write")
  /\ UNCHANGED <<disk, locks, left>>

PickCandidate(t) ==
  /\ pc[t] = "read" /\ Kind[t] = "restore"
  /\ \E c \in backups \ {Corrupt} : Set(t, c)
  /\ Goto(t, "preserve")
  /\ UNCHANGED <<disk, locks, left>>

(* Fault: rotation may take the backup just made. *)
BackUp_Rotated(v) == \E B \in SUBSET (backups \union {v}) : backups' = B

(* The new backup stays; which older ones the rotation keeps is left open. *)
BackUp(v) == \E B \in SUBSET backups : backups' = B \union {v}

Preserve(t) ==
  /\ pc[t] = "preserve"
  /\ \/ file = Missing /\ Goto(t, "write") /\ UNCHANGED backups
     \/ /\ file # Missing
        /\ Kind[t] = "restore" \/ file \notin {data[t], Corrupt}
        /\ BackUp(file) /\ Goto(t, "write")
     \/ /\ Kind[t] # "restore" /\ file = data[t]
        /\ Goto(t, "mark") /\ UNCHANGED backups
     \/ /\ Kind[t] # "restore" /\ file = Corrupt
        /\ Failed(t) /\ UNCHANGED backups
  /\ UNCHANGED <<file, maybe, marker, quarantine, locks, data, left>>

(* Fault: writes the target itself. *)
Write_InPlace(t) ==
  /\ pc[t] = "write"
  /\ file' = data[t]
  /\ maybe' = maybe \union {data[t], Corrupt}
  /\ Goto(t, "sync")
  /\ UNCHANGED <<marker, quarantine, backups, locks, data, left>>

(* A synced temporary file is renamed over the target.                     *)
Write(t) ==
  /\ pc[t] = "write"
  /\ file' = data[t]
  /\ maybe' = maybe \union {data[t]}
  /\ Goto(t, "sync")
  /\ UNCHANGED <<marker, quarantine, backups, locks, data, left>>

(* Fault: leaves the marker for the next load. *)
Sync_Unmarked(t) ==
  /\ pc[t] = "sync"
  /\ maybe' = {file}
  /\ Goto(t, "succeed")
  /\ UNCHANGED <<file, marker, quarantine, backups, locks, data, left>>

Sync(t) ==
  /\ pc[t] = "sync"
  /\ maybe' = {file}
  /\ marker' = IF marker = "no" THEN "no" ELSE "yes"
  /\ Goto(t, IF Critical /\ Kind[t] # "restore" THEN "mark" ELSE "succeed")
  /\ UNCHANGED <<file, quarantine, backups, locks, data, left>>

MarkInitialized(t) ==
  /\ pc[t] \in {"mark", "confirm"}
  /\ marker' = IF marker = "no" THEN "unsynced" ELSE marker
  /\ Goto(t, IF pc[t] = "mark" THEN "succeed" ELSE "ok")
  /\ UNCHANGED <<file, maybe, quarantine, backups, locks, data, left>>

(* A file operation of a step fails; a partial copy is unlinked.           *)
Fault(t) ==
  /\ Spend("fault")
  /\ pc[t] \in {"quarantine", "preserve", "write", "sync", "mark", "confirm"}
  /\ quarantine' = IF pc[t] = "quarantine" THEN "none" ELSE quarantine
  /\ Goto(t, IF pc[t] = "confirm" THEN "failed" ELSE AfterFailure(t))
  /\ UNCHANGED <<file, maybe, marker, backups, locks, data>>

-----------------------------------------------------------------------------
(* Processes, power and damage.                                            *)

Start(p) ==
  /\ pid[p] = NoPid
  /\ \E q \in Pids \ LivePids :
       /\ ReusePids \/ q # pidlock
       /\ pid' = [pid EXCEPT ![p] = q]
  /\ UNCHANGED <<disk, mutex, pidlock, chain, pc, data, left>>

(* A backup that was being written is left in part.                        *)
Die(P) ==
  LET mine == {t \in Tasks : Home[t] \in P}
  IN /\ pid' = [p \in Procs |-> IF p \in P THEN NoPid ELSE pid[p]]
     /\ chain' = [p \in Procs |-> IF p \in P THEN <<>> ELSE chain[p]]
     /\ mutex' = IF mutex \in mine THEN Nobody ELSE mutex
     /\ pc' = [t \in Tasks |->
                 IF t \in mine /\ pc[t] \notin Ended \union {"idle"} THEN "lost" ELSE pc[t]]
     /\ \/ backups' = backups
        \/ (\E t \in mine : pc[t] = "preserve") /\ backups' = backups \union {Corrupt}
     /\ UNCHANGED data

Kill(p) ==
  /\ Spend("kill") /\ pid[p] # NoPid
  /\ Die({p})
  /\ UNCHANGED <<file, maybe, marker, quarantine, pidlock>>

PowerLoss ==
  /\ Spend("power")
  /\ Die(Procs)
  /\ file' \in maybe
  /\ maybe' = {file'}
  /\ marker' \in IF marker = "unsynced" THEN {"no", "yes"} ELSE {marker}
  /\ quarantine' \in IF quarantine = "partial" THEN {"none", "partial"} ELSE {quarantine}
  /\ pidlock' \in {pidlock, NoPid}

(* The file is removed or garbled while no process runs.                   *)
Damage ==
  /\ Spend("damage") /\ LivePids = {}
  /\ file' \in {Missing, Corrupt} \ {file}
  /\ maybe' = {file'}
  /\ UNCHANGED <<marker, quarantine, backups, locks, pc, data>>

Step(t) ==
  \/ EnterMutex(t) \/ Claim(t) \/ Steal(t) \/ Release(t)
  \/ ReadValid(t) \/ ReadMissing(t) \/ CheckMarker(t)
  \/ ReadCorrupt(t) \/ Quarantined(t)
  \/ Refuse(t) \/ SkipSave(t) \/ Mutate(t) \/ PickCandidate(t)
  \/ Preserve(t) \/ Write(t) \/ Sync(t) \/ MarkInitialized(t)

Next ==
  \/ \E t \in Tasks : Call(t) \/ Step(t) \/ LockFault(t) \/ Fault(t)
  \/ \E p \in Procs : Start(p) \/ Kill(p)
  \/ PowerLoss
  \/ Damage

Spec == Init /\ [][Next]_vars
FairSpec == Spec /\ \A t \in Tasks : WF_vars(Step(t))
-----------------------------------------------------------------------------
(* Properties.                                                             *)

PhaseOf(where) ==
  CASE where = "idle" -> "idle"
    [] where \in {"sync", "mark", "succeed", "confirm"} -> "took"
    [] where = "ok" -> "ok"
    [] where \in {"fail", "failed", "skipped", "lost"} -> "void"
    [] OTHER -> "open"
Phase == [t \in Lockers |-> PhaseOf(pc[t])]

Atomic == INSTANCE AtomicStore WITH
  Tasks <- Lockers, Strict <- Critical, Synced <- ~Critical,
  value <- file, stable <- maybe, phase <- Phase

(* Operations of all processes take effect one at a time, each on the      *)
(* value the one before it left, whatever dies in between: no update is    *)
(* lost (json-store.js withLock, update, writeAtomicRaw).  What an         *)
(* ordinary store acknowledged survives a power loss.                      *)
ImplementsAtomicStore == Atomic!Spec

(* A task replaces the file in a step that is its own.                     *)
Replaces(t) == pc[t] # "sync" /\ pc'[t] = "sync"

(* A critical store never replaces a valid value that is not among its     *)
(* backups, nor does a restore (preserveCurrentIfChanged).                 *)
BackupBeforeReplace ==
  [][\A t \in Tasks :
       Replaces(t) /\ (Critical \/ Kind[t] = "restore") /\ file \in Content
         => file \in backups \union {file'}]_vars

(* Corrupt bytes are replaced only when a whole copy of them exists: an    *)
(* update that goes on from the defaults has quarantined them, a restore   *)
(* has them in the backups, a critical save is refused.  An ordinary save  *)
(* does not look at what it replaces.                                      *)
CorruptBytesKept ==
  [][\A t \in Tasks :
       Replaces(t) /\ file = Corrupt /\ (Critical \/ Kind[t] # "save")
         => quarantine = "whole" \/ Corrupt \in backups]_vars

(* What is known of a store is kept: the promise to its callers, and the   *)
(* bytes that cannot be read (writeAtomicRaw, quarantineCorrupt).          *)
StoreKept == CorruptBytesKept /\ ImplementsAtomicStore

(* Once a write to a critical store was acknowledged, an update never      *)
(* takes a missing file for a first run (hasMarker, load), as long as the  *)
(* power stayed on: the marker is not synced.                              *)
FailsClosed ==
  [][\A t, u \in Tasks :
       Replaces(t) /\ Kind[t] = "update" /\ file = Missing /\ left.power = Budget.power
         => ~(Critical /\ Kind[u] # "load" /\ pc[u] = "ok")]_vars

(* Every call ends: no lock outlives its owner for the others              *)
(* (stealStaleProcessLock, acquireMutex).                                  *)
CallsEnd == \A t \in Tasks : pc[t] = "queued" ~> pc[t] \in Ended
=============================================================================
