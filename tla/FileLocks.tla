------------------------------ MODULE FileLocks ------------------------------
(***************************************************************************)
(* The lock files by which processes of one host exclude each other: the   *)
(* lock of the Personal Agent Config Kit (withKitLock, personal-config.ts) *)
(* and the lock of the file session store (withStorageLock,                *)
(* session-manager.ts).  Both take over a lock whose owner is dead, with a *)
(* second lock file, the recovery lock, held around the takeover; a        *)
(* process may die between any two system calls.                           *)
(*                                                                         *)
(* A file holds the token of its owner, <<process, n>>, or nothing that    *)
(* can be parsed, <<process, Malformed>>, where the process (the one that  *)
(* left it) is history.  A token is a fresh UUID: n is the least number    *)
(* that makes it differ from every token a process can still read or       *)
(* remembers; there are at most two files, and three per process.          *)
(***************************************************************************)
EXTENDS Integers, FiniteSets

CONSTANTS Procs,
          MaxDeaths     \* bound: processes that die

ASSUME LockAssumption == IsFiniteSet(Procs) /\ MaxDeaths \in Nat

Files == {"lock", "recovery"}
Malformed == -1
Generations == 0 .. 3 * Cardinality(Procs) + 2
Contents == Procs \X (Generations \cup {Malformed})
Absent == <<>>

VARIABLES
    protocol,   \* whose lock it is: "kit" or "storage"
    file,       \* what is at each of the two paths
    aside,      \* what each process has renamed to its quarantine path
    at,         \* where each process is
    token,      \* the token of each process's call
    saw,        \* the record it read and will ask the system about
    removal,    \* what it is unlinking, and where it goes on after
    dead,       \* processes that died
    doubt,      \* history: a recovery lock was moved aside to be taken over, or a
                \* reclaimer of the Kit found dead the owner of a record by then gone
    displaced   \* history: a process moved aside another record than the one it read

lockVars == <<protocol, file, aside, at, token, saw, removal, dead, doubt, displaced>>

NoRemoval == [path |-> "lock", token |-> Absent, yes |-> "idle", no |-> "idle"]

LockInit ==
    /\ protocol \in {"kit", "storage"}
    /\ file = [f \in Files |-> Absent]
    /\ aside = [p \in Procs |-> Absent]
    /\ at = [p \in Procs |-> "idle"]
    /\ token = [p \in Procs |-> Absent]
    /\ saw = [p \in Procs |-> Absent]
    /\ removal = [p \in Procs |-> NoRemoval]
    /\ dead = {} /\ doubt = FALSE /\ displaced = FALSE

InUse == {file[f] : f \in Files} \cup
         UNION {{aside[p], saw[p], removal[p].token} : p \in Procs}

Unused(p) == {n \in Generations : <<p, n>> \notin InUse}

Go(p, step) == at' = [at EXCEPT ![p] = step]
Put(f, content) == file' = [file EXCEPT ![f] = content]

\* A complete record of this host; null stands for any other.
Complete(content) == content # Absent /\ content[2] # Malformed

\* readKitLockOwner: the record is read now, its process is asked for later.
Reads(p, f, found, none) ==
    IF Complete(file[f]) THEN saw' = [saw EXCEPT ![p] = file[f]] /\ Go(p, found)
                         ELSE UNCHANGED saw /\ Go(p, none)

\* kill(pid, 0) says ESRCH, whatever has come to the path meanwhile.
OwnerGone(p) == saw[p][1] \in dead

Call(p) ==
    /\ at[p] = "idle"
    /\ Go(p, "acquire")
    /\ \E n \in Unused(p) : /\ \A m \in Unused(p) : n <= m
                           /\ token' = [token EXCEPT ![p] = <<p, n>>]
    /\ UNCHANGED <<protocol, file, aside, saw, removal, dead, doubt, displaced>>

-----------------------------------------------------------------------------
(* unlinkKitLockIfTokenMatches: move the path aside, look, delete or put   *)
(* back; nothing that has come to the path since is overwritten.           *)

Remove(p, path, expected, yes, no) ==
    /\ Go(p, "move")
    /\ removal' = [removal EXCEPT ![p] = [path |-> path, token |-> expected,
                                          yes |-> yes, no |-> no]]

Removed(p, next) ==
    /\ Go(p, next)
    /\ removal' = [removal EXCEPT ![p] = NoRemoval]

Move(p) ==
    /\ at[p] = "move"
    /\ LET path == removal[p].path
       IN  IF file[path] = Absent
           THEN Removed(p, removal[p].no) /\ UNCHANGED <<file, aside, doubt, displaced>>
           ELSE /\ aside' = [aside EXCEPT ![p] = file[path]]
                /\ Put(path, Absent)
                /\ doubt' = (doubt \/ removal[p].yes = "again")
                /\ displaced' = (displaced \/ file[path] # removal[p].token)
                /\ Go(p, "look") /\ UNCHANGED removal
    /\ UNCHANGED <<protocol, token, saw, dead>>

\* Reading the quarantined record and, on a match, deleting it: nobody else
\* knows its name.
Look(p) ==
    /\ at[p] = "look"
    /\ IF aside[p] = removal[p].token
       THEN /\ aside' = [aside EXCEPT ![p] = Absent]
            /\ Removed(p, removal[p].yes)
       ELSE Go(p, "restore") /\ UNCHANGED <<aside, removal>>
    /\ UNCHANGED <<protocol, file, token, saw, dead, doubt, displaced>>

\* restoreQuarantinedKitLock: link(2) fails where there is a file.
Restore(p) ==
    /\ at[p] = "restore"
    /\ IF file[removal[p].path] = Absent
       THEN /\ Put(removal[p].path, aside[p])
            /\ aside' = [aside EXCEPT ![p] = Absent]
            /\ Removed(p, removal[p].no)
       ELSE Go(p, "preserve") /\ UNCHANGED <<file, aside, removal>>
    /\ UNCHANGED <<protocol, token, saw, dead, doubt, displaced>>

\* preserveAmbiguousKitLock: what barred the link may have gone since.
Preserve(p) ==
    /\ at[p] = "preserve"
    /\ IF file[removal[p].path] = Absent
       THEN Put(removal[p].path, <<p, Malformed>>) ELSE UNCHANGED file
    /\ aside' = [aside EXCEPT ![p] = Absent]        \* litter, read by nobody
    /\ Removed(p, removal[p].no)
    /\ UNCHANGED <<protocol, token, saw, dead, doubt, displaced>>

-----------------------------------------------------------------------------
(* withKitLock.                                                            *)

\* acquireKitLock: the record is complete before link(2) publishes it.
KitAcquire(p) ==
    /\ protocol = "kit" /\ at[p] \in {"acquire", "retry"}
    /\ IF file["lock"] = Absent
       THEN Put("lock", token[p]) /\ Go(p, "section")
       ELSE /\ Go(p, IF at[p] = "acquire" THEN "recover" ELSE "idle")
            /\ UNCHANGED file
    /\ UNCHANGED <<protocol, aside, token, saw, removal, dead, doubt, displaced>>

\* Defect: reclaimers do not wait for each other.
RecoveryFree_Always == TRUE

RecoveryFree == file["recovery"] = Absent

KitRecover(p) ==
    /\ protocol = "kit" /\ at[p] \in {"recover", "again"}
    /\ IF RecoveryFree
       THEN Put("recovery", token[p]) /\ Go(p, "inspect")
       ELSE /\ Go(p, IF at[p] = "recover" THEN "readRecovery" ELSE "idle")
            /\ UNCHANGED file
    /\ UNCHANGED <<protocol, aside, token, saw, removal, dead, doubt, displaced>>

\* Defect: any recovery lock means busy, as it does for the storage lock.
KitReadRecovery_GivesUp(p) ==
    /\ at[p] = "readRecovery"
    /\ Go(p, "idle")
    /\ UNCHANGED <<protocol, file, aside, token, saw, removal, dead, doubt, displaced>>

KitReadRecovery(p) ==
    /\ at[p] = "readRecovery"
    /\ Reads(p, "recovery", "probeRecovery", "idle")
    /\ UNCHANGED <<protocol, file, aside, token, removal, dead, doubt, displaced>>

KitInspect(p) ==
    /\ protocol = "kit" /\ at[p] = "inspect"
    /\ Reads(p, "lock", "probe", "drop")
    /\ UNCHANGED <<protocol, file, aside, token, removal, dead, doubt, displaced>>

\* isConfirmedDeadLocalKitLockOwner of what was read, and the removal of it.
Probe(p, path, yes, no) ==
    /\ IF OwnerGone(p)
       THEN /\ Remove(p, path, saw[p], yes, no)
            /\ doubt' = (doubt \/ file[path] # saw[p])
       ELSE Go(p, no) /\ UNCHANGED <<removal, doubt>>
    /\ saw' = [saw EXCEPT ![p] = Absent]
    /\ UNCHANGED <<protocol, file, aside, token, dead, displaced>>

\* A recovery lock whose owner died is removed once, and tried once more.
KitProbeRecovery(p) == at[p] = "probeRecovery" /\ Probe(p, "recovery", "again", "idle")

KitProbe(p) == protocol = "kit" /\ at[p] = "probe" /\ Probe(p, "lock", "dropFreed", "drop")

DropRecovery(p, next) == Remove(p, "recovery", token[p], next, next)

\* The finally block: the recovery lock goes whatever came of it.
KitDrop(p) ==
    /\ at[p] \in {"drop", "dropFreed"}
    /\ DropRecovery(p, IF at[p] = "dropFreed" THEN "retry" ELSE "idle")
    /\ UNCHANGED <<protocol, file, aside, token, saw, dead, doubt, displaced>>

KitRelease(p) ==
    /\ protocol = "kit" /\ at[p] = "section"
    /\ Remove(p, "lock", token[p], "idle", "idle")
    /\ UNCHANGED <<protocol, file, aside, token, saw, dead, doubt, displaced>>

KitStep(p) == \/ KitAcquire(p) \/ KitRecover(p) \/ KitReadRecovery(p) \/ KitProbeRecovery(p)
              \/ KitInspect(p) \/ KitProbe(p) \/ KitDrop(p)
              \/ Move(p) \/ Look(p) \/ Restore(p) \/ Preserve(p)

-----------------------------------------------------------------------------
(* withStorageLock.                                                        *)

\* open(2) with O_EXCL; the record is written after.
StorageAcquire(p) ==
    /\ protocol = "storage" /\ at[p] = "acquire"
    /\ IF file["lock"] = Absent
       THEN Put("lock", <<p, Malformed>>) /\ Go(p, "write")
       ELSE Go(p, "mutex") /\ UNCHANGED file
    /\ UNCHANGED <<protocol, aside, token, saw, removal, dead, doubt, displaced>>

StorageWrite(p) ==
    /\ at[p] = "write"
    /\ Put("lock", token[p])
    /\ Go(p, "section")
    /\ UNCHANGED <<protocol, aside, token, saw, removal, dead, doubt, displaced>>

\* reclaimConfirmedDeadStorageLock: its mutex is taken as it is found; the
\* loop of the caller goes on until its deadline.
StorageMutex(p) ==
    /\ at[p] = "mutex"
    /\ IF RecoveryFree
       THEN Put("recovery", <<p, Malformed>>) /\ Go(p, "parse")
       ELSE (Go(p, "acquire") \/ Go(p, "idle")) /\ UNCHANGED file
    /\ UNCHANGED <<protocol, aside, token, saw, removal, dead, doubt, displaced>>

StorageParse(p) ==
    /\ at[p] = "parse"
    /\ Reads(p, "lock", "ask", "leave")
    /\ UNCHANGED <<protocol, file, aside, token, removal, dead, doubt, displaced>>

StorageProbe(p) ==
    /\ at[p] = "ask"
    /\ Go(p, IF OwnerGone(p) THEN "reparse" ELSE "leave")
    /\ UNCHANGED <<protocol, file, aside, token, saw, removal, dead, doubt, displaced>>

StorageReparse(p) ==
    /\ at[p] = "reparse"
    /\ Go(p, IF file["lock"] = saw[p] THEN "unlink" ELSE "leave")
    /\ UNCHANGED <<protocol, file, aside, token, saw, removal, dead, doubt, displaced>>

\* unlink(2) of whatever is at the path by then.
StorageUnlink(p) ==
    /\ at[p] \in {"unlink", "unlock"}
    /\ Put("lock", Absent)
    /\ Go(p, IF at[p] = "unlink" THEN "leave" ELSE "idle")
    /\ UNCHANGED <<protocol, aside, token, saw, removal, dead, doubt, displaced>>

StorageLeave(p) ==
    /\ at[p] = "leave"
    /\ Put("recovery", Absent)
    /\ saw' = [saw EXCEPT ![p] = Absent]
    /\ Go(p, "acquire") \/ Go(p, "idle")
    /\ UNCHANGED <<protocol, aside, token, removal, dead, doubt, displaced>>

\* Release reads the record and unlinks its own.
StorageRelease(p) ==
    /\ protocol = "storage" /\ at[p] = "section"
    /\ Go(p, IF file["lock"] = token[p] THEN "unlock" ELSE "idle")
    /\ UNCHANGED <<protocol, file, aside, token, saw, removal, dead, doubt, displaced>>

StorageStep(p) == \/ StorageAcquire(p) \/ StorageWrite(p) \/ StorageMutex(p)
                  \/ StorageParse(p) \/ StorageProbe(p) \/ StorageReparse(p)
                  \/ StorageUnlink(p) \/ StorageLeave(p)

-----------------------------------------------------------------------------
\* A process is killed, or is done and exits.  What it had in memory, or in
\* quarantine, nobody reads.
Die(p) ==
    /\ Cardinality(dead) < MaxDeaths
    /\ dead' = dead \cup {p}
    /\ Go(p, "idle")
    /\ aside' = [aside EXCEPT ![p] = Absent]
    /\ token' = [token EXCEPT ![p] = Absent]
    /\ saw' = [saw EXCEPT ![p] = Absent]
    /\ removal' = [removal EXCEPT ![p] = NoRemoval]
    /\ UNCHANGED <<protocol, file, doubt, displaced>>

Release(p) == KitRelease(p) \/ StorageRelease(p)

LockNext == \E p \in Procs \ dead : Call(p) \/ KitStep(p) \/ StorageStep(p) \/ Release(p) \/ Die(p)

\* A live process goes on and its operation ends; some come back for the lock.
Goes(p) == /\ WF_lockVars(p \notin dead /\ (KitStep(p) \/ StorageStep(p)))
           /\ WF_lockVars(p \notin dead /\ Release(p))
ComesBack(p) == WF_lockVars(p \notin dead /\ Call(p))

LockFairness == \A p \in Procs : Goes(p) /\ ComesBack(p)

LockSpec == LockInit /\ [][LockNext]_lockVars /\ LockFairness

-----------------------------------------------------------------------------
(* Properties.                                                             *)

Steps == {"idle", "acquire", "retry", "section", "recover", "again", "readRecovery",
          "probeRecovery", "inspect", "probe", "drop", "dropFreed", "move", "look", "restore",
          "preserve", "write", "mutex", "parse", "ask", "reparse", "unlink", "leave", "unlock"}
Removals == [path : Files, token : Contents \cup {Absent},
             yes : {"idle", "again", "retry", "dropFreed"}, no : {"idle", "retry", "drop"}]

\* What the files, the processes and what they remember may hold; a dead
\* process is nowhere.
LockTypeOK ==
    /\ protocol \in {"kit", "storage"}
    /\ file \in [Files -> Contents \cup {Absent}]
    /\ aside \in [Procs -> Contents \cup {Absent}]
    /\ at \in [Procs -> Steps]
    /\ token \in [Procs -> Contents \cup {Absent}]
    /\ saw \in [Procs -> Contents \cup {Absent}]
    /\ removal \in [Procs -> Removals]
    /\ dead \subseteq Procs /\ doubt \in BOOLEAN /\ displaced \in BOOLEAN
    /\ \A p \in dead : at[p] = "idle"

Inside(p) == p \notin dead /\ at[p] \in {"section", "write", "unlock"}

\* Two processes never run under the lock at once, the lock of the one that
\* does stays at its path, and a live process that has given up or is done has
\* left neither its lock nor its recovery lock behind, however many reclaim a
\* dead owner's lock at the same time, unless the Kit's rename displaced another
\* record than the one that was read; and that never happens before a recovery
\* lock is taken over or a reclaimer asks for the owner of a record that has left
\* the path since it was read.  The storage lock, which is read again after the
\* question, is never displaced (reclaimConfirmedDeadKitLock,
\* reclaimConfirmedDeadStorageLock).
OneHolder ==
    /\ displaced => doubt /\ protocol = "kit"
    /\ ~displaced =>
          /\ \A p, q \in Procs : Inside(p) /\ Inside(q) => p = q
          /\ \A p \in Procs : Inside(p) => file["lock"] \in {token[p], <<p, Malformed>>}
          /\ \A f \in Files, p \in Procs \ dead :
                at[p] = "idle" => file[f] = Absent \/ file[f][1] # p

\* A recovery file that nobody will remove: the storage mutex of a dead
\* reclaimer; and, once a record was displaced in the Kit, the placeholder for an
\* ambiguous recovery, or the record of a live process that was put back when it
\* had already given up.
RecoveryStuck ==
    /\ file["recovery"] # Absent
    /\ LET owner == file["recovery"][1]
       IN  IF protocol = "storage" THEN owner \in dead
           ELSE displaced /\ (file["recovery"][2] = Malformed
                                 \/ (owner \notin dead /\ at[owner] = "idle"))

\* The lock of process p, which is dead.
DeadLock(p) == p \in dead /\ Complete(file["lock"]) /\ file["lock"][1] = p

\* The lock of a dead owner is eventually gone while somebody keeps asking,
\* also where a Kit reclaimer died holding the recovery lock, unless the
\* recovery is stuck (reclaimConfirmedDeadKitLock, reclaimConfirmedDeadStorageLock).
DeadLockReclaimed ==
    \A p \in Procs : DeadLock(p) ~> (~DeadLock(p) \/ RecoveryStuck)

=============================================================================
