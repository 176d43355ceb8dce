------------------------- MODULE McpArtifactsProofs -------------------------
(***************************************************************************)
(* Proofs about McpArtifacts, for any number of jobs, gateways, machines   *)
(* and faults.                                                             *)
(***************************************************************************)
EXTENDS McpArtifacts, TLAPS

-----------------------------------------------------------------------------
(* The inductive invariant.                                                 *)

\* Before its launch a job has no child, and before its admission no row.
Unlaunched(j) ==
    /\ held[j].stage \in {"none", "admitting", "declined", "queued"}
           => child[j] = "none" /\ ~held[j].closed
    /\ held[j].stage \in {"none", "admitting"} => row[j] = "none"

\* A close proves the child dead, and a callback that is past its write either
\* had no child or saw the close; one that acknowledges has unlinked.
Callbacks(j) ==
    /\ held[j].closed => child[j] # "alive"
    /\ \A c \in Calls :
        /\ calls[j][c] # "none" => held[j].stage = "ended"
        /\ calls[j][c] \in {"unlink", "ack", "hook"} => ~MayStillRead(j)
        /\ calls[j][c] = "ack" => file[j] # "present"

Pinned(j) == row[j] # "none" /\ file[j] = "present" => row[j] # "deleted" /\ pinned[j]

JobInv(j) == Unlaunched(j) /\ Callbacks(j) /\ Pinned(j)

\* A cleaner that acts on a job has seen its row settled, whatever became of the
\* row since; one that acknowledges has unlinked.
CleanerInv(c) ==
    /\ cleaner[c].step \in {"check", "ack"}
           => cleaner[c].job \in Jobs /\ row[cleaner[c].job] \in Settled \cup {"deleted"}
    /\ cleaner[c].step = "ack" => file[cleaner[c].job] # "present"

IInv == TypeOK /\ (\A j \in Jobs : JobInv(j)) /\ (\A c \in Cleaners : CleanerInv(c))

USE McpArtifactsAssumption DEF vars

-----------------------------------------------------------------------------
(* Types.                                                                   *)

LEMMA FaultTypes ==
    ASSUME TypeOK, NEW kind \in DOMAIN Limits, Fault(kind)
    PROVE  faults' \in [DOMAIN Limits -> Nat]
  BY DEF TypeOK, Fault, Limits

LEMMA UnlinkTypes ==
    ASSUME TypeOK, NEW j \in Jobs, NEW o, Unlink(j, o)
    PROVE  /\ file' \in [Jobs -> {"unwritten", "present", "gone"}]
           /\ faults' \in [DOMAIN Limits -> Nat]
           /\ \A q \in Jobs : file'[q] = "present" => file[q] = "present"
           /\ \A q \in Jobs \ {j} : file'[q] = file[q]
           /\ o \in {"removed", "absent"} => file'[j] # "present"
  <1>1. file' = [file EXCEPT ![j] = "gone"] \/ file' = file
    BY DEF Unlink
  <1>2. faults' \in [DOMAIN Limits -> Nat]
    BY FaultTypes DEF TypeOK, Unlink, Limits
  <1>3. file' \in [Jobs -> {"unwritten", "present", "gone"}]
    BY <1>1 DEF TypeOK
  <1>4. o \in {"removed", "absent"} => file'[j] # "present"
    BY DEF TypeOK, Unlink
  <1>. QED
    BY <1>1, <1>2, <1>3, <1>4 DEF TypeOK

LEMMA VisitTypes ==
    ASSUME TypeOK, NEW c \in Cleaners, NEW S \in SUBSET Jobs, Visit(c, S)
    PROVE  /\ cleaner' \in [Cleaners -> Tasks]
           /\ cleaner'[c].step \in {"idle", "read"}
           /\ \A d \in Cleaners \ {c} : cleaner'[d] = cleaner[d]
  <1>. DEFINE next == IF S = {} THEN AtRest ELSE [step |-> "read", todo |-> S, job |-> NoJob]
  <1>1. /\ next \in Tasks
        /\ next.step \in {"idle", "read"}
    BY DEF AtRest, Tasks
  <1>. HIDE DEF next
  <1>2. cleaner' = [cleaner EXCEPT ![c] = next]
    BY DEF Visit, next
  <1>. QED
    BY <1>1, <1>2 DEF TypeOK

LEMMA CallTypes ==
    ASSUME TypeOK, faults' \in [DOMAIN Limits -> Nat] \/ UNCHANGED faults \/ Fault("losses")
    PROVE  faults' \in [DOMAIN Limits -> Nat]
  BY FaultTypes DEF TypeOK, Limits

LEMMA DoneTypes ==
    ASSUME TypeOK, NEW c \in Cleaners, NEW j, Done(c, j)
    PROVE  /\ cleaner' \in [Cleaners -> Tasks]
           /\ cleaner'[c].step \in {"idle", "read"}
           /\ \A d \in Cleaners \ {c} : cleaner'[d] = cleaner[d]
  <1>1. cleaner[c] \in Tasks
    BY DEF TypeOK
  <1>2. cleaner[c].todo \ {j} \in SUBSET Jobs
    BY <1>1 DEF Tasks
  <1>. QED
    BY <1>2, VisitTypes DEF Done

\* A step of a job's owner writes that job's record and no other.
HeldOnly(j) ==
    /\ held' \in [Jobs -> Memory]
    /\ \A q \in Jobs \ {j} : held'[q] = held[q]

\* A step enters a stage, or one that is over with the close seen.
LEMMA StageTypes ==
    ASSUME TypeOK, NEW j \in Jobs,
           NEW s \in {"admitting", "declined", "queued", "running", "ended", "forgotten"},
           held' = [held EXCEPT ![j].stage = s]
    PROVE  HeldOnly(j) /\ held'[j].stage = s /\ held'[j].closed = held[j].closed
  <1>. DEFINE v == [held[j] EXCEPT !.stage = s]
  <1>0. held \in [Jobs -> Memory] /\ held[j] \in Memory
    BY DEF TypeOK
  <1>1. v \in Memory /\ v.stage = s /\ v.closed = held[j].closed
    BY <1>0 DEF Memory
  <1>2. held' = [held EXCEPT ![j] = v]
    OBVIOUS
  <1>. HIDE DEF v
  <1>. QED
    BY <1>0, <1>1, <1>2 DEF HeldOnly

LEMMA CloseTypes ==
    ASSUME TypeOK, NEW j \in Jobs,
           held' = [held EXCEPT ![j].stage = "ended", ![j].closed = TRUE]
    PROVE  HeldOnly(j) /\ held'[j].stage = "ended" /\ held'[j].closed
  <1>. DEFINE v == [held[j] EXCEPT !.stage = "ended", !.closed = TRUE]
  <1>0. held \in [Jobs -> Memory] /\ held[j] \in Memory
    BY DEF TypeOK
  <1>1. v \in Memory /\ v.stage = "ended" /\ v.closed
    BY <1>0 DEF Memory
  <1>2. held' = [held EXCEPT ![j] = v]
    OBVIOUS
  <1>. HIDE DEF v
  <1>. QED
    BY <1>0, <1>1, <1>2 DEF HeldOnly

\* The notes an owner takes of its own progress leave stage and close alone.
LEMMA WrittenTypes ==
    ASSUME TypeOK, NEW j \in Jobs, NEW b \in BOOLEAN,
           held' = [held EXCEPT ![j].written = @ \/ b]
    PROVE  HeldOnly(j) /\ held'[j].stage = held[j].stage /\ held'[j].closed = held[j].closed
  <1>. DEFINE v == [held[j] EXCEPT !.written = @ \/ b]
  <1>0. held \in [Jobs -> Memory] /\ held[j] \in Memory
    BY DEF TypeOK
  <1>1. v \in Memory /\ v.stage = held[j].stage /\ v.closed = held[j].closed
    BY <1>0 DEF Memory
  <1>2. held' = [held EXCEPT ![j] = v]
    OBVIOUS
  <1>. HIDE DEF v
  <1>. QED
    BY <1>0, <1>1, <1>2 DEF HeldOnly

LEMMA PathTypes ==
    ASSUME TypeOK, NEW j \in Jobs, NEW b \in BOOLEAN,
           held' = [held EXCEPT ![j].path = @ /\ ~b]
    PROVE  HeldOnly(j) /\ held'[j].stage = held[j].stage /\ held'[j].closed = held[j].closed
  <1>. DEFINE v == [held[j] EXCEPT !.path = @ /\ ~b]
  <1>0. held \in [Jobs -> Memory] /\ held[j] \in Memory
    BY DEF TypeOK
  <1>1. v \in Memory /\ v.stage = held[j].stage /\ v.closed = held[j].closed
    BY <1>0 DEF Memory
  <1>2. held' = [held EXCEPT ![j] = v]
    OBVIOUS
  <1>. HIDE DEF v
  <1>. QED
    BY <1>0, <1>1, <1>2 DEF HeldOnly

LEMMA CleanedTypes ==
    ASSUME TypeOK, NEW j \in Jobs,
           held' = [held EXCEPT ![j].cleaned = TRUE]
    PROVE  HeldOnly(j) /\ held'[j].stage = held[j].stage /\ held'[j].closed = held[j].closed
  <1>. DEFINE v == [held[j] EXCEPT !.cleaned = TRUE]
  <1>0. held \in [Jobs -> Memory] /\ held[j] \in Memory
    BY DEF TypeOK
  <1>1. v \in Memory /\ v.stage = held[j].stage /\ v.closed = held[j].closed
    BY <1>0 DEF Memory
  <1>2. held' = [held EXCEPT ![j] = v]
    OBVIOUS
  <1>. HIDE DEF v
  <1>. QED
    BY <1>0, <1>1, <1>2 DEF HeldOnly

\* A callback moves on; the others of the job, and the other jobs, stay.
LEMMA CallStepTypes ==
    ASSUME TypeOK, NEW j \in Jobs, NEW c \in Calls, NEW s \in CallSteps,
           calls' = [calls EXCEPT ![j][c] = s]
    PROVE  /\ calls' \in [Jobs -> [Calls -> CallSteps]]
           /\ calls'[j][c] = s
           /\ \A d \in Calls \ {c} : calls'[j][d] = calls[j][d]
           /\ \A q \in Jobs \ {j} : calls'[q] = calls[q]
  <1>. DEFINE f == [calls[j] EXCEPT ![c] = s]
  <1>0. calls \in [Jobs -> [Calls -> CallSteps]] /\ calls[j] \in [Calls -> CallSteps]
    BY DEF TypeOK
  <1>1. f \in [Calls -> CallSteps] /\ f[c] = s /\ \A d \in Calls \ {c} : f[d] = calls[j][d]
    BY <1>0
  <1>2. calls' = [calls EXCEPT ![j] = f]
    OBVIOUS
  <1>. HIDE DEF f
  <1>. QED
    BY <1>0, <1>1, <1>2

-----------------------------------------------------------------------------
(* What a step leaves alone stays true.                                     *)

LEMMA JobFrame ==
    ASSUME NEW q \in Jobs, JobInv(q), row'[q] = row[q], pinned'[q] = pinned[q],
           file'[q] = file[q], child'[q] = child[q], held'[q] = held[q], calls'[q] = calls[q]
    PROVE  JobInv(q)'
  BY DEF JobInv, Unlaunched, Callbacks, Pinned, MayStillRead

\* No step takes a row out of its settled statuses but for its deletion, and none
\* writes the config of an admitted job anew.
Monotone ==
    \A q \in Jobs : row[q] \in Settled \cup {"deleted"} =>
        /\ row'[q] \in Settled \cup {"deleted"}
        /\ file[q] # "present" => file'[q] # "present"

LEMMA CleanerFrame ==
    ASSUME NEW c \in Cleaners, CleanerInv(c), Monotone, cleaner'[c] = cleaner[c]
    PROVE  CleanerInv(c)'
  BY DEF CleanerInv, Monotone

-----------------------------------------------------------------------------
(* The steps of the owner.                                                  *)

\* The other jobs, and every cleaner, keep their invariant in a step of one job.
OthersKept(j) ==
    /\ UNCHANGED cleaner
    /\ Monotone
    /\ \A q \in Jobs \ {j} :
        /\ row'[q] = row[q] /\ pinned'[q] = pinned[q] /\ file'[q] = file[q]
        /\ child'[q] = child[q] /\ held'[q] = held[q] /\ calls'[q] = calls[q]

LEMMA OneJob ==
    ASSUME IInv, NEW j \in Jobs, OthersKept(j), TypeOK', JobInv(j)'
    PROVE  IInv'
  <1>1. ASSUME NEW q \in Jobs PROVE JobInv(q)'
    <2>1. CASE q = j
      BY <2>1
    <2>2. CASE q # j
      BY <2>2, JobFrame DEF OthersKept, IInv
    <2>. QED
      BY <2>1, <2>2
  <1>2. ASSUME NEW c \in Cleaners PROVE CleanerInv(c)'
    BY CleanerFrame DEF OthersKept, IInv
  <1>. QED
    BY <1>1, <1>2 DEF IInv

LEMMA RequestKeeps ==
    ASSUME IInv, NEW j \in Jobs, NEW g \in Gateways, Request(j, g)
    PROVE  IInv'
  <1>0. TypeOK /\ JobInv(j)
    BY DEF IInv
  <1>1. /\ HeldOnly(j) /\ held'[j].stage = "admitting" /\ held'[j].closed = held[j].closed
    <2>. DEFINE v == [held[j] EXCEPT !.stage = "admitting", !.path = TRUE]
    <2>1. held[j] \in Memory
      BY <1>0 DEF TypeOK
    <2>2. v \in Memory /\ v.stage = "admitting" /\ v.closed = held[j].closed
      BY <2>1 DEF Memory
    <2>3. held' = [held EXCEPT ![j] = v]
      BY DEF Request
    <2>. HIDE DEF v
    <2>. QED
      BY <1>0, <2>2, <2>3 DEF HeldOnly, TypeOK
  <1>2. TypeOK'
    BY <1>0, <1>1 DEF TypeOK, Request, HeldOnly
  <1>3. row[j] = "none" /\ child[j] = "none" /\ ~held[j].closed
    BY <1>0 DEF JobInv, Unlaunched, Request
  <1>4. OthersKept(j)
    BY <1>0, <1>1, <1>3 DEF OthersKept, Monotone, Request, HeldOnly, TypeOK, Settled
  <1>5. \A c \in Calls : calls[j][c] = "none"
    BY <1>0 DEF JobInv, Callbacks, Request
  <1>6. JobInv(j)'
    BY <1>0, <1>1, <1>3, <1>5 DEF JobInv, Unlaunched, Callbacks, Pinned, Request
  <1>. QED
    BY <1>2, <1>4, <1>6, OneJob

LEMMA AdmitKeeps ==
    ASSUME IInv, NEW j \in Jobs, Admit(j)
    PROVE  IInv'
  <1>0. TypeOK /\ JobInv(j)
    BY DEF IInv
  <1>1. /\ HeldOnly(j) /\ held'[j].stage = "queued" /\ held'[j].closed = held[j].closed
    BY <1>0, StageTypes DEF Admit
  <1>2. TypeOK'
    BY <1>0, <1>1 DEF TypeOK, Admit, Insert, HeldOnly
  <1>3. row[j] = "none" /\ child[j] = "none" /\ ~held[j].closed
    BY <1>0 DEF JobInv, Unlaunched, Admit
  <1>4. OthersKept(j)
    BY <1>0, <1>1, <1>3 DEF OthersKept, Monotone, Admit, Insert, HeldOnly, TypeOK, Settled
  <1>5. \A c \in Calls : calls[j][c] = "none"
    BY <1>0 DEF JobInv, Callbacks, Admit
  <1>6. row'[j] = "open" /\ pinned'[j]
    BY <1>0 DEF Admit, Insert, TypeOK
  <1>7. JobInv(j)'
    BY <1>0, <1>1, <1>3, <1>5, <1>6 DEF JobInv, Unlaunched, Callbacks, Pinned, Admit
  <1>. QED
    BY <1>2, <1>4, <1>7, OneJob

LEMMA NotAdmittedKeeps ==
    ASSUME IInv, NEW j \in Jobs, NotAdmitted(j)
    PROVE  IInv'
  <1>0. TypeOK /\ JobInv(j)
    BY DEF IInv
  <1>1. /\ HeldOnly(j) /\ held'[j].stage = "declined" /\ held'[j].closed = held[j].closed
    <2>1. held' = [held EXCEPT ![j].stage = "declined"]
      BY DEF NotAdmitted
    <2>. QED
      BY <1>0, <2>1, StageTypes
  <1>2. Insert(j) \/ UNCHANGED <<row, pinned>>
    BY DEF NotAdmitted
  <1>3. faults' \in [DOMAIN Limits -> Nat]
    BY <1>0, CallTypes DEF NotAdmitted
  <1>4. TypeOK'
    BY <1>0, <1>1, <1>2, <1>3 DEF TypeOK, NotAdmitted, Insert, HeldOnly
  <1>5. row[j] = "none" /\ child[j] = "none" /\ ~held[j].closed
    BY <1>0 DEF JobInv, Unlaunched, NotAdmitted
  <1>6. OthersKept(j)
    BY <1>0, <1>1, <1>2, <1>5 DEF OthersKept, Monotone, NotAdmitted, Insert, HeldOnly, TypeOK, Settled
  <1>7. \A c \in Calls : calls[j][c] = "none"
    BY <1>0 DEF JobInv, Callbacks, NotAdmitted
  <1>8. row'[j] = "none" \/ (row'[j] = "open" /\ pinned'[j])
    BY <1>0, <1>2, <1>5 DEF Insert, TypeOK
  <1>9. JobInv(j)'
    BY <1>0, <1>1, <1>5, <1>7, <1>8 DEF JobInv, Unlaunched, Callbacks, Pinned, NotAdmitted
  <1>. QED
    BY <1>4, <1>6, <1>9, OneJob

LEMMA CallerCleansKeeps ==
    ASSUME IInv, NEW j \in Jobs, CallerCleans(j)
    PROVE  IInv'
  <1>0. TypeOK /\ JobInv(j)
    BY DEF IInv
  <1>1. /\ HeldOnly(j) /\ held'[j].stage = "forgotten" /\ held'[j].closed = held[j].closed
    BY <1>0, StageTypes DEF CallerCleans
  <1>2. PICK o : Unlink(j, o)
    BY DEF CallerCleans
  <1>3. /\ file' \in [Jobs -> {"unwritten", "present", "gone"}]
        /\ faults' \in [DOMAIN Limits -> Nat]
        /\ \A q \in Jobs : file'[q] = "present" => file[q] = "present"
        /\ \A q \in Jobs \ {j} : file'[q] = file[q]
    BY <1>0, <1>2, UnlinkTypes
  <1>4. TypeOK'
    BY <1>0, <1>1, <1>3 DEF TypeOK, CallerCleans, HeldOnly
  <1>5. OthersKept(j)
    BY <1>0, <1>1, <1>3 DEF OthersKept, Monotone, CallerCleans, HeldOnly, Settled
  <1>6. child[j] = "none" /\ ~held[j].closed /\ \A c \in Calls : calls[j][c] = "none"
    BY <1>0 DEF JobInv, Unlaunched, Callbacks, CallerCleans
  <1>7. JobInv(j)'
    BY <1>0, <1>1, <1>3, <1>6 DEF JobInv, Unlaunched, Callbacks, Pinned, CallerCleans
  <1>. QED
    BY <1>4, <1>5, <1>7, OneJob

LEMMA SpawnKeeps ==
    ASSUME IInv, NEW j \in Jobs, Spawn(j)
    PROVE  IInv'
  <1>0. TypeOK /\ JobInv(j)
    BY DEF IInv
  <1>1. /\ HeldOnly(j) /\ held'[j].stage = "running" /\ held'[j].closed = held[j].closed
    BY <1>0, StageTypes DEF Spawn
  <1>2. TypeOK'
    BY <1>0, <1>1 DEF TypeOK, Spawn, HeldOnly
  <1>3. OthersKept(j)
    BY <1>0, <1>1 DEF OthersKept, Monotone, Spawn, HeldOnly, TypeOK, Settled
  <1>4. ~held[j].closed /\ \A c \in Calls : calls[j][c] = "none"
    BY <1>0 DEF JobInv, Unlaunched, Callbacks, Spawn
  <1>5. JobInv(j)'
    BY <1>0, <1>1, <1>4 DEF JobInv, Unlaunched, Callbacks, Pinned, Spawn
  <1>. QED
    BY <1>2, <1>3, <1>5, OneJob

LEMMA ChildExitsKeeps ==
    ASSUME IInv, NEW j \in Jobs, ChildExits(j)
    PROVE  IInv'
  <1>0. TypeOK /\ JobInv(j)
    BY DEF IInv
  <1>1. TypeOK'
    BY <1>0 DEF TypeOK, ChildExits
  <1>2. OthersKept(j)
    BY <1>0 DEF OthersKept, Monotone, ChildExits, TypeOK
  <1>3. child[j] = "alive" /\ child'[j] = "dead"
    BY <1>0 DEF ChildExits, TypeOK
  <1>4. JobInv(j)'
    BY <1>0, <1>3 DEF JobInv, Unlaunched, Callbacks, Pinned, MayStillRead, ChildExits
  <1>. QED
    BY <1>1, <1>2, <1>4, OneJob

LEMMA EndsUnlaunchedKeeps ==
    ASSUME IInv, NEW j \in Jobs, EndsUnlaunched(j)
    PROVE  IInv'
  <1>0. TypeOK /\ JobInv(j)
    BY DEF IInv
  <1>1. HeldOnly(j) /\ held'[j].stage = "ended" /\ held'[j].closed
    BY <1>0, CloseTypes DEF EndsUnlaunched
  <1>2. /\ calls' \in [Jobs -> [Calls -> CallSteps]]
        /\ calls'[j]["end"] = "write"
        /\ \A d \in Calls \ {"end"} : calls'[j][d] = calls[j][d]
        /\ \A q \in Jobs \ {j} : calls'[q] = calls[q]
    BY <1>0, CallStepTypes DEF EndsUnlaunched, Calls, CallSteps
  <1>3. TypeOK'
    BY <1>0, <1>1, <1>2 DEF TypeOK, EndsUnlaunched, HeldOnly
  <1>4. OthersKept(j)
    BY <1>0, <1>1, <1>2 DEF OthersKept, Monotone, EndsUnlaunched, HeldOnly
  <1>5. child[j] = "none" /\ \A c \in Calls : calls[j][c] = "none"
    BY <1>0 DEF JobInv, Unlaunched, Callbacks, EndsUnlaunched
  <1>6. \A c \in Calls : calls'[j][c] \in {"none", "write"}
    BY <1>2, <1>5
  <1>7. JobInv(j)'
    BY <1>0, <1>1, <1>5, <1>6 DEF JobInv, Unlaunched, Callbacks, Pinned, EndsUnlaunched
  <1>. QED
    BY <1>3, <1>4, <1>7, OneJob

LEMMA EndsEarlyKeeps ==
    ASSUME IInv, NEW j \in Jobs, EndsEarly(j)
    PROVE  IInv'
  <1>0. TypeOK /\ JobInv(j)
    BY DEF IInv
  <1>1. HeldOnly(j) /\ held'[j].stage = "ended" /\ held'[j].closed = held[j].closed
    BY <1>0, StageTypes DEF EndsEarly
  <1>2. /\ calls' \in [Jobs -> [Calls -> CallSteps]]
        /\ calls'[j]["end"] = "write"
        /\ \A d \in Calls \ {"end"} : calls'[j][d] = calls[j][d]
        /\ \A q \in Jobs \ {j} : calls'[q] = calls[q]
    BY <1>0, CallStepTypes DEF EndsEarly, Calls, CallSteps
  <1>3. TypeOK'
    BY <1>0, <1>1, <1>2 DEF TypeOK, EndsEarly, HeldOnly
  <1>4. OthersKept(j)
    BY <1>0, <1>1, <1>2 DEF OthersKept, Monotone, EndsEarly, HeldOnly
  <1>5. \A c \in Calls : calls[j][c] = "none"
    BY <1>0 DEF JobInv, Callbacks, EndsEarly
  <1>6. \A c \in Calls : calls'[j][c] \in {"none", "write"}
    BY <1>2, <1>5
  <1>7. JobInv(j)'
    BY <1>0, <1>1, <1>6 DEF JobInv, Unlaunched, Callbacks, Pinned, EndsEarly
  <1>. QED
    BY <1>3, <1>4, <1>7, OneJob

LEMMA ClosesKeeps ==
    ASSUME IInv, NEW j \in Jobs, Closes(j)
    PROVE  IInv'
  <1>0. TypeOK /\ JobInv(j)
    BY DEF IInv
  <1>1. HeldOnly(j) /\ held'[j].stage = "ended" /\ held'[j].closed
    BY <1>0, CloseTypes DEF Closes
  <1>. DEFINE c == IF held[j].stage = "running" THEN "end" ELSE "close"
  <1>2. c \in Calls /\ calls' = [calls EXCEPT ![j][c] = "write"]
    BY DEF Closes, Calls
  <1>. HIDE DEF c
  <1>3. /\ calls' \in [Jobs -> [Calls -> CallSteps]]
        /\ calls'[j][c] = "write"
        /\ \A d \in Calls \ {c} : calls'[j][d] = calls[j][d]
        /\ \A q \in Jobs \ {j} : calls'[q] = calls[q]
    BY <1>0, <1>2, CallStepTypes DEF CallSteps
  <1>4. TypeOK'
    BY <1>0, <1>1, <1>3 DEF TypeOK, Closes, HeldOnly
  <1>5. OthersKept(j)
    BY <1>0, <1>1, <1>3 DEF OthersKept, Monotone, Closes, HeldOnly
  <1>6. \A d \in Calls : calls'[j][d] = "write" \/ calls'[j][d] = calls[j][d]
    BY <1>3
  <1>7. ~MayStillRead(j)'
    BY <1>1 DEF MayStillRead
  <1>8. Callbacks(j)'
    BY <1>0, <1>1, <1>6, <1>7 DEF JobInv, Callbacks, Closes
  <1>9. JobInv(j)'
    BY <1>0, <1>1, <1>8 DEF JobInv, Unlaunched, Pinned, Closes
  <1>. QED
    BY <1>4, <1>5, <1>9, OneJob

LEMMA RetriesKeeps ==
    ASSUME IInv, NEW j \in Jobs, Retries(j)
    PROVE  IInv'
  <1>0. TypeOK /\ JobInv(j)
    BY DEF IInv
  <1>1. /\ calls' \in [Jobs -> [Calls -> CallSteps]]
        /\ calls'[j]["retry"] = "write"
        /\ \A d \in Calls \ {"retry"} : calls'[j][d] = calls[j][d]
        /\ \A q \in Jobs \ {j} : calls'[q] = calls[q]
    BY <1>0, CallStepTypes DEF Retries, Calls, CallSteps
  <1>2. TypeOK'
    BY <1>0, <1>1 DEF TypeOK, Retries
  <1>3. OthersKept(j)
    BY <1>0, <1>1 DEF OthersKept, Monotone, Retries
  <1>4. \A d \in Calls : calls'[j][d] = "write" \/ calls'[j][d] = calls[j][d]
    BY <1>1
  <1>5. JobInv(j)'
    BY <1>0, <1>4 DEF JobInv, Unlaunched, Callbacks, Pinned, MayStillRead, Retries
  <1>. QED
    BY <1>2, <1>3, <1>5, OneJob

LEMMA WritesKeeps ==
    ASSUME IInv, NEW j \in Jobs, NEW c \in Calls, Writes(j, c)
    PROVE  IInv'
  <1>0. TypeOK /\ JobInv(j)
    BY DEF IInv
  <1>1. PICK outcome \in {"ok", "error"} :
            /\ Call(outcome, Complete(j), UNCHANGED row)
            /\ held' = [held EXCEPT ![j].written = @ \/ outcome = "ok"]
            /\ calls' = [calls EXCEPT ![j][c] =
                            IF MayStillRead(j) \/ (c = "retry" /\ outcome = "error") THEN "none"
                            ELSE IF held[j].path THEN "unlink" ELSE "hook"]
    BY DEF Writes
  <1>2. Complete(j) \/ UNCHANGED row
    BY <1>1 DEF Call
  <1>3. faults' \in [DOMAIN Limits -> Nat]
    BY <1>0, <1>1, CallTypes DEF Call
  <1>4. HeldOnly(j) /\ held'[j].stage = held[j].stage /\ held'[j].closed = held[j].closed
    BY <1>0, <1>1, WrittenTypes
  <1>. DEFINE s == IF MayStillRead(j) \/ (c = "retry" /\ outcome = "error") THEN "none"
                   ELSE IF held[j].path THEN "unlink" ELSE "hook"
  <1>5. s \in {"none", "unlink", "hook"} /\ (s # "none" => ~MayStillRead(j))
    OBVIOUS
  <1>6. calls' = [calls EXCEPT ![j][c] = s]
    BY <1>1
  <1>. HIDE DEF s
  <1>7. /\ calls' \in [Jobs -> [Calls -> CallSteps]]
        /\ calls'[j][c] = s
        /\ \A d \in Calls \ {c} : calls'[j][d] = calls[j][d]
        /\ \A q \in Jobs \ {j} : calls'[q] = calls[q]
    BY <1>0, <1>5, <1>6, CallStepTypes DEF CallSteps
  <1>8. /\ row' \in [Jobs -> {"none", "open", "deleted"} \cup Settled]
        /\ \A q \in Jobs \ {j} : row'[q] = row[q]
        /\ row'[j] = row[j] \/ (row[j] \in {"open", "orphaned"} /\ row'[j] = "ended")
    BY <1>0, <1>2 DEF TypeOK, Complete, Settled
  <1>9. TypeOK'
    BY <1>0, <1>3, <1>4, <1>7, <1>8 DEF TypeOK, Writes, HeldOnly
  <1>10. OthersKept(j)
    BY <1>0, <1>4, <1>7, <1>8 DEF OthersKept, Monotone, Writes, HeldOnly, Settled
  <1>11. child'[j] = child[j] /\ file'[j] = file[j] /\ pinned'[j] = pinned[j]
    BY DEF Writes
  <1>12. MayStillRead(j)' = MayStillRead(j)
    BY <1>4, <1>11 DEF MayStillRead
  <1>13. held[j].stage = "ended"
    BY <1>0 DEF JobInv, Callbacks, Writes
  <1>14. Callbacks(j)'
    BY <1>0, <1>4, <1>5, <1>7, <1>11, <1>12, <1>13 DEF JobInv, Callbacks
  <1>15. Unlaunched(j)' /\ Pinned(j)'
    BY <1>0, <1>4, <1>8, <1>11, <1>13 DEF JobInv, Unlaunched, Pinned
  <1>. QED
    BY <1>9, <1>10, <1>14, <1>15, OneJob DEF JobInv

LEMMA FinalizesKeeps ==
    ASSUME IInv, NEW j \in Jobs, NEW c \in Calls, Finalizes(j, c)
    PROVE  IInv'
  <1>0. TypeOK /\ JobInv(j)
    BY DEF IInv
  <1>1. PICK o \in Outcomes :
            /\ Unlink(j, o)
            /\ calls' = [calls EXCEPT ![j][c] = IF o = "removed" THEN "ack" ELSE "hook"]
    BY DEF Finalizes
  <1>2. /\ file' \in [Jobs -> {"unwritten", "present", "gone"}]
        /\ faults' \in [DOMAIN Limits -> Nat]
        /\ \A q \in Jobs : file'[q] = "present" => file[q] = "present"
        /\ \A q \in Jobs \ {j} : file'[q] = file[q]
        /\ o \in {"removed", "absent"} => file'[j] # "present"
    BY <1>0, <1>1, UnlinkTypes
  <1>. DEFINE s == IF o = "removed" THEN "ack" ELSE "hook"
  <1>3. s \in {"ack", "hook"} /\ (s = "ack" => file'[j] # "present")
    BY <1>2
  <1>4. calls' = [calls EXCEPT ![j][c] = s]
    BY <1>1
  <1>. HIDE DEF s
  <1>5. /\ calls' \in [Jobs -> [Calls -> CallSteps]]
        /\ calls'[j][c] = s
        /\ \A d \in Calls \ {c} : calls'[j][d] = calls[j][d]
        /\ \A q \in Jobs \ {j} : calls'[q] = calls[q]
    BY <1>0, <1>3, <1>4, CallStepTypes DEF CallSteps
  <1>6. TypeOK'
    BY <1>0, <1>2, <1>5 DEF TypeOK, Finalizes
  <1>7. OthersKept(j)
    BY <1>0, <1>2, <1>5 DEF OthersKept, Monotone, Finalizes
  <1>8. Callbacks(j)'
    BY <1>0, <1>2, <1>3, <1>5 DEF JobInv, Callbacks, MayStillRead, Finalizes
  <1>9. Unlaunched(j)' /\ Pinned(j)'
    BY <1>0, <1>2 DEF JobInv, Unlaunched, Pinned, Finalizes
  <1>. QED
    BY <1>6, <1>7, <1>8, <1>9, OneJob DEF JobInv

LEMMA HookKeeps ==
    ASSUME IInv, NEW j \in Jobs, NEW c \in Calls, Hook(j, c)
    PROVE  IInv'
  <1>0. TypeOK /\ JobInv(j)
    BY DEF IInv
  <1>1. UNCHANGED <<file, faults>> \/ \E o \in Outcomes : Unlink(j, o)
    BY DEF Hook
  <1>2. /\ file' \in [Jobs -> {"unwritten", "present", "gone"}]
        /\ faults' \in [DOMAIN Limits -> Nat]
        /\ \A q \in Jobs : file'[q] = "present" => file[q] = "present"
        /\ \A q \in Jobs \ {j} : file'[q] = file[q]
    <2>1. CASE UNCHANGED <<file, faults>>
      BY <1>0, <2>1 DEF TypeOK
    <2>2. CASE \E o \in Outcomes : Unlink(j, o)
      BY <1>0, <2>2, UnlinkTypes
    <2>. QED
      BY <1>1, <2>1, <2>2
  <1>3. HeldOnly(j) /\ held'[j].stage = held[j].stage /\ held'[j].closed = held[j].closed
    BY <1>0, CleanedTypes DEF Hook
  <1>4. /\ calls' \in [Jobs -> [Calls -> CallSteps]]
        /\ calls'[j][c] = "none"
        /\ \A d \in Calls \ {c} : calls'[j][d] = calls[j][d]
        /\ \A q \in Jobs \ {j} : calls'[q] = calls[q]
    BY <1>0, CallStepTypes DEF Hook, CallSteps
  <1>5. TypeOK'
    BY <1>0, <1>2, <1>3, <1>4 DEF TypeOK, Hook, HeldOnly
  <1>6. OthersKept(j)
    BY <1>0, <1>2, <1>3, <1>4 DEF OthersKept, Monotone, Hook, HeldOnly
  <1>7. Callbacks(j)'
    BY <1>0, <1>2, <1>3, <1>4 DEF JobInv, Callbacks, MayStillRead, Hook
  <1>8. Unlaunched(j)' /\ Pinned(j)'
    BY <1>0, <1>2, <1>3 DEF JobInv, Unlaunched, Pinned, Hook
  <1>. QED
    BY <1>5, <1>6, <1>7, <1>8, OneJob DEF JobInv

\* An acknowledgement only takes pins away, and only the job's.
LEMMA PinTypes ==
    ASSUME TypeOK, NEW j \in Jobs, Acknowledge(j) \/ UNCHANGED pinned
    PROVE  pinned' \in [Jobs -> BOOLEAN] /\ \A q \in Jobs \ {j} : pinned'[q] = pinned[q]
  <1>1. pinned \in [Jobs -> BOOLEAN]
    BY DEF TypeOK
  <1>2. CASE UNCHANGED pinned
    BY <1>1, <1>2
  <1>3. CASE Acknowledge(j)
    <2>. DEFINE b == pinned[j] /\ ~Acknowledgeable(j)
    <2>1. b \in BOOLEAN
      OBVIOUS
    <2>2. pinned' = [pinned EXCEPT ![j] = b]
      BY <1>3, Zenon DEF Acknowledge
    <2>. HIDE DEF b
    <2>. QED
      BY <1>1, <2>1, <2>2
  <1>. QED
    BY <1>2, <1>3

LEMMA AcknowledgesKeeps ==
    ASSUME IInv, NEW j \in Jobs, NEW c \in Calls, Acknowledges(j, c)
    PROVE  IInv'
  <1>0. TypeOK /\ JobInv(j)
    BY DEF IInv
  <1>1. PICK outcome \in {"ok", "error"} :
            /\ Call(outcome, Acknowledge(j), UNCHANGED pinned)
            /\ held' = [held EXCEPT ![j].path = @ /\ ~(outcome = "ok" /\ Acknowledgeable(j))]
    BY DEF Acknowledges
  <1>2. faults' \in [DOMAIN Limits -> Nat]
    BY <1>0, <1>1, CallTypes DEF Call
  <1>3. pinned' \in [Jobs -> BOOLEAN] /\ \A q \in Jobs \ {j} : pinned'[q] = pinned[q]
    BY <1>0, <1>1, PinTypes DEF Call
  <1>. DEFINE b == outcome = "ok" /\ Acknowledgeable(j)
  <1>4. b \in BOOLEAN /\ held' = [held EXCEPT ![j].path = @ /\ ~b]
    BY <1>1
  <1>. HIDE DEF b
  <1>5. HeldOnly(j) /\ held'[j].stage = held[j].stage /\ held'[j].closed = held[j].closed
    BY <1>0, <1>4, PathTypes
  <1>6. /\ calls' \in [Jobs -> [Calls -> CallSteps]]
        /\ calls'[j][c] = "hook"
        /\ \A d \in Calls \ {c} : calls'[j][d] = calls[j][d]
        /\ \A q \in Jobs \ {j} : calls'[q] = calls[q]
    BY <1>0, CallStepTypes DEF Acknowledges, CallSteps
  <1>7. TypeOK'
    BY <1>0, <1>2, <1>3, <1>5, <1>6 DEF TypeOK, Acknowledges, HeldOnly
  <1>8. OthersKept(j)
    BY <1>0, <1>3, <1>5, <1>6 DEF OthersKept, Monotone, Acknowledges, HeldOnly
  <1>9. Callbacks(j)'
    BY <1>0, <1>5, <1>6 DEF JobInv, Callbacks, MayStillRead, Acknowledges
  <1>10. file[j] # "present"
    BY <1>0 DEF JobInv, Callbacks, Acknowledges
  <1>11. Unlaunched(j)' /\ Pinned(j)'
    BY <1>0, <1>5, <1>10 DEF JobInv, Unlaunched, Pinned, Acknowledges
  <1>. QED
    BY <1>7, <1>8, <1>9, <1>11, OneJob DEF JobInv

LEMMA DeleteExpiredKeeps ==
    ASSUME IInv, NEW j \in Jobs, DeleteExpired(j)
    PROVE  IInv'
  <1>0. TypeOK /\ JobInv(j)
    BY DEF IInv
  <1>1. row[j] \in Settled /\ ~pinned[j] /\ row'[j] = "deleted" /\ \A q \in Jobs \ {j} : row'[q] = row[q]
    BY <1>0 DEF TypeOK, DeleteExpired, Deletable
  <1>2. TypeOK'
    BY <1>0 DEF TypeOK, DeleteExpired
  <1>3. OthersKept(j)
    BY <1>0, <1>1 DEF OthersKept, Monotone, DeleteExpired
  <1>4. Callbacks(j)'
    BY <1>0 DEF JobInv, Callbacks, MayStillRead, DeleteExpired
  <1>5. Unlaunched(j)'
    BY <1>0, <1>1 DEF JobInv, Unlaunched, DeleteExpired, Settled
  <1>6. file[j] # "present"
    BY <1>0, <1>1 DEF JobInv, Pinned, Settled
  <1>7. Pinned(j)'
    BY <1>6 DEF Pinned, DeleteExpired
  <1>. QED
    BY <1>2, <1>3, <1>4, <1>5, <1>7, OneJob DEF JobInv

-----------------------------------------------------------------------------
(* The steps of the cleaners and of the gateways.                           *)

\* In a step of a cleaner the other cleaners stay, and no job of an owner moves;
\* pins and files change only as its unlink and its acknowledgement allow.
LEMMA OneCleaner ==
    ASSUME IInv, NEW c \in Cleaners, TypeOK', CleanerInv(c)', Monotone,
           UNCHANGED <<row, child, held, calls>>,
           \A d \in Cleaners \ {c} : cleaner'[d] = cleaner[d],
           \A q \in Jobs : file'[q] = "present" => file[q] = "present" /\ pinned'[q] = pinned[q]
    PROVE  IInv'
  <1>1. ASSUME NEW q \in Jobs PROVE JobInv(q)'
    <2>1. JobInv(q)
      BY DEF IInv
    <2>2. Unlaunched(q)'
      BY <2>1 DEF JobInv, Unlaunched
    <2>3. Callbacks(q)'
      BY <2>1 DEF JobInv, Callbacks, MayStillRead
    <2>4. Pinned(q)'
      BY <2>1 DEF JobInv, Pinned
    <2>. QED
      BY <2>2, <2>3, <2>4 DEF JobInv
  <1>2. ASSUME NEW d \in Cleaners PROVE CleanerInv(d)'
    <2>1. CASE d = c
      BY <2>1
    <2>2. CASE d # c
      BY <2>2, CleanerFrame DEF IInv
    <2>. QED
      BY <2>1, <2>2
  <1>. QED
    BY <1>1, <1>2 DEF IInv

\* A cleaner's next task.
LEMMA TaskTypes ==
    ASSUME TypeOK, NEW c \in Cleaners, NEW s \in {"idle", "select", "read", "check", "ack"},
           cleaner' = [cleaner EXCEPT ![c].step = s]
    PROVE  /\ cleaner' \in [Cleaners -> Tasks]
           /\ cleaner'[c].step = s /\ cleaner'[c].job = cleaner[c].job
           /\ \A d \in Cleaners \ {c} : cleaner'[d] = cleaner[d]
  <1>. DEFINE v == [cleaner[c] EXCEPT !.step = s]
  <1>0. cleaner \in [Cleaners -> Tasks] /\ cleaner[c] \in Tasks
    BY DEF TypeOK
  <1>1. v \in Tasks /\ v.step = s /\ v.job = cleaner[c].job
    BY <1>0 DEF Tasks
  <1>2. cleaner' = [cleaner EXCEPT ![c] = v]
    OBVIOUS
  <1>. HIDE DEF v
  <1>. QED
    BY <1>0, <1>1, <1>2

LEMMA OperatorRecoversKeeps ==
    ASSUME IInv, NEW j \in Jobs, OperatorRecovers(j)
    PROVE  IInv'
  <1>0. TypeOK
    BY DEF IInv
  <1>. DEFINE v == [step |-> "check", todo |-> {j}, job |-> j]
  <1>1. v \in Tasks /\ v.step = "check" /\ v.job = j
    BY DEF Tasks
  <1>2. cleaner' = [cleaner EXCEPT ![Operator] = v] /\ Operator \in Cleaners
    BY DEF OperatorRecovers, Cleaners
  <1>. HIDE DEF v
  <1>3. /\ cleaner' \in [Cleaners -> Tasks] /\ cleaner'[Operator] = v
        /\ \A d \in Cleaners \ {Operator} : cleaner'[d] = cleaner[d]
    BY <1>0, <1>1, <1>2 DEF TypeOK
  <1>4. TypeOK'
    BY <1>0, <1>3 DEF TypeOK, OperatorRecovers
  <1>5. CleanerInv(Operator)'
    BY <1>1, <1>3 DEF CleanerInv, OperatorRecovers, Reclaimable
  <1>6. Monotone
    BY DEF Monotone, OperatorRecovers
  <1>. QED
    BY <1>2, <1>3, <1>4, <1>5, <1>6, OneCleaner DEF OperatorRecovers

LEMMA HeartbeatRecoversKeeps ==
    ASSUME IInv, NEW g \in Gateways, HeartbeatRecovers(g)
    PROVE  IInv'
  <1>0. TypeOK /\ g \in Cleaners
    BY DEF IInv, Cleaners
  <1>1. /\ cleaner' \in [Cleaners -> Tasks] /\ cleaner'[g].step = "select"
        /\ \A d \in Cleaners \ {g} : cleaner'[d] = cleaner[d]
    BY <1>0, TaskTypes DEF HeartbeatRecovers
  <1>2. TypeOK'
    BY <1>0, <1>1 DEF TypeOK, HeartbeatRecovers
  <1>3. CleanerInv(g)'
    BY <1>1 DEF CleanerInv
  <1>4. Monotone
    BY DEF Monotone, HeartbeatRecovers
  <1>. QED
    BY <1>0, <1>1, <1>2, <1>3, <1>4, OneCleaner DEF HeartbeatRecovers

LEMMA StartKeeps ==
    ASSUME IInv, NEW g \in Gateways, Start(g)
    PROVE  IInv'
  <1>0. TypeOK /\ g \in Cleaners
    BY DEF IInv, Cleaners
  <1>1. /\ cleaner' \in [Cleaners -> Tasks] /\ cleaner'[g].step = "select"
        /\ \A d \in Cleaners \ {g} : cleaner'[d] = cleaner[d]
    BY <1>0, TaskTypes DEF Start
  <1>2. TypeOK'
    BY <1>0, <1>1 DEF TypeOK, Start
  <1>3. CleanerInv(g)'
    BY <1>1 DEF CleanerInv
  <1>4. Monotone
    BY DEF Monotone, Start
  <1>. QED
    BY <1>0, <1>1, <1>2, <1>3, <1>4, OneCleaner DEF Start

LEMMA SelectsKeeps ==
    ASSUME IInv, NEW g \in Gateways, Selects(g)
    PROVE  IInv'
  <1>0. TypeOK /\ g \in Cleaners
    BY DEF IInv, Cleaners
  <1>1. faults' \in [DOMAIN Limits -> Nat]
    BY <1>0, CallTypes DEF Selects
  <1>2. PICK S \in SUBSET Jobs : Visit(g, S)
    BY DEF Selects
  <1>3. /\ cleaner' \in [Cleaners -> Tasks]
        /\ cleaner'[g].step \in {"idle", "read"}
        /\ \A d \in Cleaners \ {g} : cleaner'[d] = cleaner[d]
    BY <1>0, <1>2, VisitTypes
  <1>4. TypeOK'
    BY <1>0, <1>1, <1>3 DEF TypeOK, Selects
  <1>5. CleanerInv(g)'
    BY <1>3 DEF CleanerInv
  <1>6. Monotone
    BY DEF Monotone, Selects
  <1>. QED
    BY <1>0, <1>3, <1>4, <1>5, <1>6, OneCleaner DEF Selects

LEMMA ReadsRowKeeps ==
    ASSUME IInv, NEW c \in Cleaners, NEW j \in Jobs, ReadsRow(c, j)
    PROVE  IInv'
  <1>0. TypeOK
    BY DEF IInv
  <1>1. faults' \in [DOMAIN Limits -> Nat]
    BY <1>0, CallTypes DEF ReadsRow
  <1>2. /\ cleaner' \in [Cleaners -> Tasks]
        /\ \/ cleaner'[c].step \in {"idle", "read"}
           \/ cleaner'[c].step = "check" /\ cleaner'[c].job = j /\ row[j] \in Settled
        /\ \A d \in Cleaners \ {c} : cleaner'[d] = cleaner[d]
    <2>1. CASE Done(c, j)
      BY <1>0, <2>1, DoneTypes
    <2>2. CASE Reclaimable(c, j) /\ cleaner' = [cleaner EXCEPT ![c].step = "check", ![c].job = j]
      <3>. DEFINE v == [cleaner[c] EXCEPT !.step = "check", !.job = j]
      <3>0. cleaner \in [Cleaners -> Tasks] /\ cleaner[c] \in Tasks
        BY <1>0 DEF TypeOK
      <3>1. v \in Tasks /\ v.step = "check" /\ v.job = j
        BY <3>0 DEF Tasks
      <3>2. cleaner' = [cleaner EXCEPT ![c] = v]
        BY <2>2
      <3>3. row[j] \in Settled
        BY <2>2 DEF Reclaimable
      <3>. HIDE DEF v
      <3>. QED
        BY <3>0, <3>1, <3>2, <3>3
    <2>. QED
      BY <2>1, <2>2 DEF ReadsRow
  <1>3. TypeOK'
    BY <1>0, <1>1, <1>2 DEF TypeOK, ReadsRow
  <1>4. CleanerInv(c)'
    BY <1>2 DEF CleanerInv, ReadsRow
  <1>5. Monotone
    BY DEF Monotone, ReadsRow
  <1>. QED
    BY <1>2, <1>3, <1>4, <1>5, OneCleaner DEF ReadsRow

LEMMA UnlinksKeeps ==
    ASSUME IInv, NEW c \in Cleaners, Unlinks(c)
    PROVE  IInv'
  <1>0. TypeOK /\ CleanerInv(c)
    BY DEF IInv
  <1>. DEFINE j == cleaner[c].job
  <1>1. j \in Jobs /\ row[j] \in Settled \cup {"deleted"}
    BY <1>0 DEF CleanerInv, Unlinks
  <1>2. PICK o \in Outcomes :
            /\ Unlink(j, o)
            /\ IF Suffices(c, o) THEN cleaner' = [cleaner EXCEPT ![c].step = "ack"] ELSE Done(c, j)
    BY DEF Unlinks
  <1>3. /\ file' \in [Jobs -> {"unwritten", "present", "gone"}]
        /\ faults' \in [DOMAIN Limits -> Nat]
        /\ \A q \in Jobs : file'[q] = "present" => file[q] = "present"
        /\ o \in {"removed", "absent"} => file'[j] # "present"
    BY <1>0, <1>1, <1>2, UnlinkTypes
  <1>4. /\ cleaner' \in [Cleaners -> Tasks]
        /\ \/ cleaner'[c].step \in {"idle", "read"}
           \/ cleaner'[c].step = "ack" /\ cleaner'[c].job = j /\ file'[j] # "present"
        /\ \A d \in Cleaners \ {c} : cleaner'[d] = cleaner[d]
    <2>1. CASE Suffices(c, o)
      <3>1. file'[j] # "present"
        BY <1>3, <2>1 DEF Suffices
      <3>. QED
        BY <1>0, <1>2, <2>1, <3>1, TaskTypes
    <2>2. CASE ~Suffices(c, o)
      BY <1>0, <1>2, <2>2, DoneTypes
    <2>. QED
      BY <2>1, <2>2
  <1>5. UNCHANGED <<row, pinned, child, owner, held, calls, up>>
    BY DEF Unlinks
  <1>. HIDE DEF j
  <1>6. TypeOK'
    BY <1>0, <1>3, <1>4, <1>5 DEF TypeOK
  <1>7. CleanerInv(c)'
    BY <1>1, <1>4, <1>5 DEF CleanerInv
  <1>8. Monotone
    BY <1>3, <1>5 DEF Monotone
  <1>. QED
    BY <1>3, <1>4, <1>5, <1>6, <1>7, <1>8, OneCleaner

LEMMA CleanerAcknowledgesKeeps ==
    ASSUME IInv, NEW c \in Cleaners, CleanerAcknowledges(c)
    PROVE  IInv'
  <1>0. TypeOK /\ CleanerInv(c)
    BY DEF IInv
  <1>. DEFINE j == cleaner[c].job
  <1>1. j \in Jobs /\ file[j] # "present"
    BY <1>0 DEF CleanerInv, CleanerAcknowledges
  <1>2. /\ \E outcome \in {"ok", "error"} : Call(outcome, Acknowledge(j), UNCHANGED pinned)
        /\ Done(c, j)
        /\ UNCHANGED <<row, file, child, owner, held, calls, up>>
    BY DEF CleanerAcknowledges
  <1>. HIDE DEF j
  <1>3. faults' \in [DOMAIN Limits -> Nat]
    BY <1>0, <1>2, CallTypes DEF Call
  <1>4. pinned' \in [Jobs -> BOOLEAN] /\ \A q \in Jobs \ {j} : pinned'[q] = pinned[q]
    BY <1>0, <1>1, <1>2, PinTypes DEF Call
  <1>5. /\ cleaner' \in [Cleaners -> Tasks]
        /\ cleaner'[c].step \in {"idle", "read"}
        /\ \A d \in Cleaners \ {c} : cleaner'[d] = cleaner[d]
    BY <1>0, <1>2, DoneTypes
  <1>6. TypeOK'
    BY <1>0, <1>2, <1>3, <1>4, <1>5 DEF TypeOK
  <1>7. CleanerInv(c)'
    BY <1>5 DEF CleanerInv
  <1>8. Monotone
    BY <1>2 DEF Monotone
  <1>9. \A q \in Jobs : file'[q] = "present" => file[q] = "present" /\ pinned'[q] = pinned[q]
    BY <1>1, <1>2, <1>4
  <1>. QED
    BY <1>2, <1>5, <1>6, <1>7, <1>8, <1>9, OneCleaner

LEMMA SweepKeeps ==
    ASSUME IInv, NEW g \in Gateways, NEW S \in SUBSET Jobs, Sweep(g, S),
           UNCHANGED faults \/ Fault("lapses")
    PROVE  IInv'
  <1>0. TypeOK /\ g \in Cleaners
    BY DEF IInv, Cleaners
  <1>1. faults' \in [DOMAIN Limits -> Nat]
    BY <1>0, FaultTypes DEF TypeOK, Limits
  <1>2. /\ cleaner' \in [Cleaners -> Tasks]
        /\ cleaner'[g].step \in {"idle", "read"}
        /\ \A d \in Cleaners \ {g} : cleaner'[d] = cleaner[d]
    <2>1. Visit(g, {j \in S : Local(g, j)})
      BY DEF Sweep
    <2>2. {j \in S : Local(g, j)} \in SUBSET Jobs
      OBVIOUS
    <2>. QED
      BY <1>0, <2>1, <2>2, VisitTypes
  <1>3. UNCHANGED <<pinned, file, child, owner, held, calls, up>>
    BY DEF Sweep
  <1>4. \A q \in Jobs : row'[q] = row[q] \/ (row[q] = "open" /\ row'[q] = "orphaned")
    BY DEF Sweep
  <1>5. row' \in [Jobs -> {"none", "open", "deleted"} \cup Settled]
    BY <1>0 DEF Sweep, TypeOK, Settled
  <1>6. TypeOK'
    BY <1>0, <1>1, <1>2, <1>3, <1>5 DEF TypeOK
  <1>7. Monotone
    BY <1>3, <1>4 DEF Monotone, Settled
  <1>8. ASSUME NEW q \in Jobs PROVE JobInv(q)'
    <2>1. JobInv(q)
      BY DEF IInv
    <2>2. Unlaunched(q)'
      BY <1>3, <1>4, <2>1 DEF JobInv, Unlaunched
    <2>3. Callbacks(q)'
      BY <1>3, <2>1 DEF JobInv, Callbacks, MayStillRead
    <2>4. Pinned(q)'
      BY <1>3, <1>4, <2>1 DEF JobInv, Pinned
    <2>. QED
      BY <2>2, <2>3, <2>4 DEF JobInv
  <1>9. ASSUME NEW d \in Cleaners PROVE CleanerInv(d)'
    <2>1. CASE d = g
      BY <1>2, <2>1 DEF CleanerInv
    <2>2. CASE d # g
      BY <1>2, <1>7, <2>2, CleanerFrame DEF IInv
    <2>. QED
      BY <2>1, <2>2
  <1>. QED
    BY <1>6, <1>8, <1>9 DEF IInv

LEMMA GoesDownKeeps ==
    ASSUME IInv, NEW g \in Gateways, GoesDown(g), UNCHANGED faults \/ Fault("crashes")
    PROVE  IInv'
  <1>0. TypeOK /\ g \in Cleaners
    BY DEF IInv, Cleaners
  <1>1. faults' \in [DOMAIN Limits -> Nat]
    BY <1>0, FaultTypes DEF TypeOK, Limits
  <1>2. UNCHANGED <<row, pinned, file, child, owner>>
    BY DEF GoesDown
  <1>. DEFINE gone == [Absent EXCEPT !.stage = "gone"]
  <1>3. gone \in Memory /\ gone.stage = "gone" /\ ~gone.closed
    BY DEF Absent, Memory
  <1>4. NoCalls \in [Calls -> CallSteps] /\ \A c \in Calls : NoCalls[c] = "none"
    BY DEF NoCalls, CallSteps
  <1>5. /\ held' = [j \in Jobs |-> IF j \in Owned(g) THEN gone ELSE held[j]]
        /\ calls' = [j \in Jobs |-> IF j \in Owned(g) THEN NoCalls ELSE calls[j]]
    BY DEF GoesDown
  <1>. HIDE DEF gone
  <1>6. held' \in [Jobs -> Memory] /\ calls' \in [Jobs -> [Calls -> CallSteps]]
    BY <1>0, <1>3, <1>4, <1>5 DEF TypeOK
  <1>7. /\ cleaner' \in [Cleaners -> Tasks] /\ cleaner'[g].step = "idle"
        /\ \A d \in Cleaners \ {g} : cleaner'[d] = cleaner[d]
    <2>1. AtRest \in Tasks /\ AtRest.step = "idle"
      BY DEF AtRest, Tasks
    <2>2. cleaner' = [cleaner EXCEPT ![g] = AtRest]
      BY DEF GoesDown
    <2>. QED
      BY <1>0, <2>1, <2>2 DEF TypeOK
  <1>8. up' \subseteq Gateways
    BY <1>0 DEF GoesDown, TypeOK
  <1>9. TypeOK'
    BY <1>0, <1>1, <1>2, <1>6, <1>7, <1>8 DEF TypeOK
  <1>10. Monotone
    BY <1>2 DEF Monotone
  <1>11. ASSUME NEW q \in Jobs PROVE JobInv(q)'
    <2>1. JobInv(q)
      BY DEF IInv
    <2>2. CASE q \in Owned(g)
      <3>1. held'[q] = gone /\ calls'[q] = NoCalls
        BY <1>5, <2>2
      <3>2. Callbacks(q)'
        BY <1>3, <1>4, <3>1 DEF Callbacks
      <3>3. Unlaunched(q)' /\ Pinned(q)'
        BY <1>2, <1>3, <2>1, <3>1 DEF JobInv, Unlaunched, Pinned
      <3>. QED
        BY <3>2, <3>3 DEF JobInv
    <2>3. CASE q \notin Owned(g)
      <3>1. held'[q] = held[q] /\ calls'[q] = calls[q]
        BY <1>5, <2>3
      <3>. QED
        BY <1>2, <2>1, <3>1, JobFrame
    <2>. QED
      BY <2>2, <2>3
  <1>12. ASSUME NEW d \in Cleaners PROVE CleanerInv(d)'
    <2>1. CASE d = g
      BY <1>7, <2>1 DEF CleanerInv
    <2>2. CASE d # g
      BY <1>7, <1>10, <2>2, CleanerFrame DEF IInv
    <2>. QED
      BY <2>1, <2>2
  <1>. QED
    BY <1>9, <1>11, <1>12 DEF IInv

-----------------------------------------------------------------------------
(* The theorems.                                                            *)

LEMMA InitInv == Init => IInv
  <1> SUFFICES ASSUME Init PROVE IInv
    OBVIOUS
  <1>1. Absent \in Memory /\ Absent.stage = "none" /\ ~Absent.closed
    BY DEF Absent, Memory
  <1>2. NoCalls \in [Calls -> CallSteps] /\ \A c \in Calls : NoCalls[c] = "none"
    BY DEF NoCalls, CallSteps
  <1>3. AtRest \in Tasks /\ AtRest.step = "idle"
    BY DEF AtRest, Tasks
  <1>4. faults \in [DOMAIN Limits -> Nat]
    BY DEF Init
  <1>5. TypeOK
    BY <1>1, <1>2, <1>3, <1>4 DEF Init, TypeOK
  <1>6. ASSUME NEW j \in Jobs PROVE JobInv(j)
    BY <1>1, <1>2 DEF Init, JobInv, Unlaunched, Callbacks, Pinned
  <1>7. ASSUME NEW c \in Cleaners PROVE CleanerInv(c)
    BY <1>3 DEF Init, CleanerInv
  <1>. QED
    BY <1>5, <1>6, <1>7 DEF IInv

LEMMA NextInv == IInv /\ [Next]_vars => IInv'
  <1> SUFFICES ASSUME IInv, [Next]_vars PROVE IInv'
    OBVIOUS
  <1>1. CASE UNCHANGED vars
    <2>1. TypeOK'
      BY <1>1 DEF IInv, TypeOK
    <2>2. \A j \in Jobs : JobInv(j)'
      BY <1>1, JobFrame DEF IInv
    <2>3. \A c \in Cleaners : CleanerInv(c)'
      BY <1>1 DEF IInv, CleanerInv
    <2>. QED
      BY <2>1, <2>2, <2>3 DEF IInv
  <1>2. ASSUME NEW j \in Jobs, JobSteps(j) PROVE IInv'
    <2>1. CASE \E g \in Gateways : Request(j, g)
      BY <2>1, RequestKeeps
    <2>2. CASE OwnerSteps(j)
      <3>1. CASE Admit(j) \/ NotAdmitted(j) \/ CallerCleans(j)
        BY <3>1, AdmitKeeps, NotAdmittedKeeps, CallerCleansKeeps
      <3>2. CASE Spawn(j) \/ EndsUnlaunched(j) \/ EndsEarly(j)
        BY <3>2, SpawnKeeps, EndsUnlaunchedKeeps, EndsEarlyKeeps
      <3>3. ASSUME NEW c \in Calls, Writes(j, c) \/ Finalizes(j, c) \/ Acknowledges(j, c) \/ Hook(j, c)
            PROVE  IInv'
        BY <3>3, WritesKeeps, FinalizesKeeps, AcknowledgesKeeps, HookKeeps
      <3>. QED
        BY <2>2, <3>1, <3>2, <3>3 DEF OwnerSteps
    <2>3. CASE ChildExits(j) \/ Closes(j) \/ Retries(j)
      BY <2>3, ChildExitsKeeps, ClosesKeeps, RetriesKeeps
    <2>4. CASE OperatorRecovers(j) \/ DeleteExpired(j)
      BY <2>4, OperatorRecoversKeeps, DeleteExpiredKeeps
    <2>. QED
      BY <1>2, <2>1, <2>2, <2>3, <2>4 DEF JobSteps
  <1>3. ASSUME NEW g \in Gateways, GatewaySteps(g) PROVE IInv'
    <2>1. CASE SweepOwnerless(g)
      <3>1. PICK S \in SUBSET Jobs : Sweep(g, S) /\ UNCHANGED faults
        BY <2>1 DEF SweepOwnerless
      <3>. QED
        BY <3>1, SweepKeeps
    <2>2. CASE SweepLapsed(g)
      <3>1. PICK S \in SUBSET Jobs : Sweep(g, S) /\ Fault("lapses")
        BY <2>2 DEF SweepLapsed
      <3>. QED
        BY <3>1, SweepKeeps
    <2>3. CASE Crash(g) \/ Stop(g)
      BY <2>3, GoesDownKeeps DEF Crash, Stop
    <2>4. CASE HeartbeatRecovers(g) \/ Start(g)
      BY <2>4, HeartbeatRecoversKeeps, StartKeeps
    <2>. QED
      BY <1>3, <2>1, <2>2, <2>3, <2>4 DEF GatewaySteps
  <1>4. ASSUME NEW c \in Cleaners, CleanerSteps(c) PROVE IInv'
    BY <1>4, SelectsKeeps, ReadsRowKeeps, UnlinksKeeps, CleanerAcknowledgesKeeps DEF CleanerSteps
  <1>. QED
    BY <1>1, <1>2, <1>3, <1>4 DEF Next

LEMMA Inductive == Spec => []IInv
  BY InitInv, NextInv, PTL DEF Spec

\* A job's row, pin, file, child and callbacks take only the values of their
\* columns and steps, through every fault and restart.
THEOREM ArtifactTypes == Spec => []TypeOK
  <1>1. IInv => TypeOK
    BY DEF IInv
  <1>. QED
    BY <1>1, Inductive, PTL

\* As long as an admitted job's config is on disk, its row stands and is pinned
\* (SQL_DELETE_EXPIRED, acknowledgeMcpArtifactCleanup).
THEOREM PinsGuardFiles == Spec => []PinGuardsFile
  <1>1. IInv => PinGuardsFile
    BY DEF IInv, JobInv, Pinned, PinGuardsFile
  <1>. QED
    BY <1>1, Inductive, PTL

\* Only a cleaner that found the job's row settled takes the config of a living
\* child; its owner never does (fireOnCompleteBody, liveProcessMayStillReadArtifacts).
LEMMA KeptStep ==
    ASSUME IInv, Next, NEW j \in Jobs, child[j] = "alive", file[j] = "present", file'[j] # "present"
    PROVE  /\ row[j] \in Settled
           /\ \E c \in Cleaners : cleaner[c].job = j /\ cleaner[c].step = "check"
                                  /\ cleaner'[c] # cleaner[c]
  <1>0. TypeOK /\ JobInv(j)
    BY DEF IInv
  <1>1. ASSUME NEW q \in Jobs, JobSteps(q) PROVE FALSE
    <2>1. CASE \E g \in Gateways : Request(q, g)
      BY <1>0, <2>1 DEF Request, TypeOK
    <2>2. CASE CallerCleans(q)
      <3>1. q = j
        <4>1. PICK o : Unlink(q, o)
          BY <2>2 DEF CallerCleans
        <4>. QED
          BY <1>0, <4>1, UnlinkTypes
      <3>. QED
        BY <1>0, <2>2, <3>1 DEF CallerCleans, JobInv, Unlaunched
    <2>3. ASSUME NEW c \in Calls, Finalizes(q, c) \/ Hook(q, c) PROVE FALSE
      <3>1. q = j
        <4>1. PICK o : Unlink(q, o)
          BY <2>3 DEF Finalizes, Hook
        <4>. QED
          BY <1>0, <4>1, UnlinkTypes
      <3>2. ~MayStillRead(j)
        BY <1>0, <2>3, <3>1 DEF Finalizes, Hook, JobInv, Callbacks
      <3>3. held[j].closed
        BY <3>2 DEF MayStillRead
      <3>. QED
        BY <1>0, <3>3 DEF JobInv, Callbacks
    <2>4. UNCHANGED file \/ CallerCleans(q) \/ (\E g \in Gateways : Request(q, g))
            \/ \E c \in Calls : Finalizes(q, c) \/ Hook(q, c)
      BY <1>1 DEF JobSteps, OwnerSteps, Admit, NotAdmitted, Spawn, EndsUnlaunched, EndsEarly,
                  Writes, Acknowledges, ChildExits, Closes, Retries, OperatorRecovers, DeleteExpired
    <2>. QED
      BY <2>1, <2>2, <2>3, <2>4
  <1>2. ASSUME NEW g \in Gateways, GatewaySteps(g) PROVE FALSE
    BY <1>2 DEF GatewaySteps, SweepOwnerless, SweepLapsed, Sweep, HeartbeatRecovers,
                Crash, Stop, GoesDown, Start
  <1>3. PICK c \in Cleaners : CleanerSteps(c)
    BY <1>1, <1>2 DEF Next
  <1>4. Unlinks(c)
    BY <1>3 DEF CleanerSteps, Selects, ReadsRow, CleanerAcknowledges
  <1>5. CleanerInv(c) /\ cleaner[c].step = "check"
    BY <1>4 DEF IInv, Unlinks
  <1>6. cleaner[c].job \in Jobs /\ row[cleaner[c].job] \in Settled \cup {"deleted"}
    BY <1>5 DEF CleanerInv
  <1>7. cleaner[c].job = j
    <2>1. PICK o : Unlink(cleaner[c].job, o)
      BY <1>4 DEF Unlinks
    <2>. QED
      BY <1>0, <1>6, <2>1, UnlinkTypes
  <1>8. row[j] \in Settled
    BY <1>0, <1>6, <1>7 DEF JobInv, Pinned
  <1>9. cleaner'[c].step # "check"
    <2>1. CASE cleaner' = [cleaner EXCEPT ![c].step = "ack"]
      BY <1>0, <2>1, TaskTypes
    <2>2. CASE Done(c, cleaner[c].job)
      BY <1>0, <2>2, DoneTypes
    <2>. QED
      BY <1>4, <2>1, <2>2 DEF Unlinks
  <1>. QED
    BY <1>5, <1>7, <1>8, <1>9

\* The config outlives its reader as far as the owner decides, and another
\* process removes it only for a job whose row is settled.
THEOREM ConfigsKept == Spec => ConfigKept
  <1>1. IInv /\ [Next]_vars =>
          [\A j \in Jobs : child[j] = "alive" /\ file[j] = "present" /\ file'[j] # "present" =>
              /\ row[j] \in Settled
              /\ \E c \in Cleaners : cleaner[c].job = j /\ cleaner[c].step = "check"
                                     /\ cleaner'[c] # cleaner[c]]_vars
    BY KeptStep
  <1>. QED
    BY <1>1, Inductive, PTL DEF Spec, ConfigKept
=============================================================================
