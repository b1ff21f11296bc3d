---------------------------- MODULE SavedRunStore ----------------------------
(***************************************************************************)
(* The files of one saved run and the processes that use them              *)
(* (src/src/saved-runs/store.ts): SavedRunStore.append step by step, the   *)
(* lock-free readForInspection, and what a failed system call, a killed    *)
(* process or a power loss leaves behind.                                  *)
(*                                                                         *)
(* Files are named for the paths below runs/<id>.  cache is what the       *)
(* processes see, disk what has been synced and survives a power loss.     *)
(* Hash chains, checksums and the temporary file of atomicWrite make a     *)
(* checkpoint vouch for one exact ledger, so a checkpoint is represented   *)
(* by the events it was written for.                                       *)
(***************************************************************************)
EXTENDS SavedRunLedger, SequencesExt

CONSTANTS
  Writers,     \* processes that may call append
  Attempts,    \* attempt ids in them (randomUUID in the CLI)
  Inputs,      \* events they may offer
  Inspected,   \* whether --list-runs reads the record meanwhile
  PowerLoss    \* whether the machine may lose what was not synced

ASSUME StoreAssumption ==
  /\ {"free", "stale"} \cap Writers = {}
  /\ Attempts \subseteq Nat
  /\ Inspected \in BOOLEAN /\ PowerLoss \in BOOLEAN

VARIABLES
  cache,     \* the files as processes see them
  disk,      \* the files as a power loss would leave them
  lock,      \* locks/update-<id>.lock: a writer, "stale" or "free"
  pc,        \* the next step of each writer's append; "idle" without one
  call,      \* the event and the validation verdict each writer offered
  next,      \* the record each writer computed from what it read
  acked,     \* the events whose append returned to its caller
  reader,    \* the inspection that runs: its step and what it has read
  floor      \* the events that were acknowledged when the inspection began

files == <<cache, disk>>
writer == <<pc, call, next>>
inspection == <<reader, floor>>
vars == <<files, lock, writer, acked, inspection>>

\* events is the history after run_created; partial says that an unfinished
\* line follows it.  head and passed are the ledger a checkpoint vouches for
\* and the verdict of the state in it.  snapshot is repository.json, named by
\* the length of the ledger it was taken for (0: there is none).
Created0 == [events |-> <<>>, partial |-> FALSE, head |-> <<>>, passed |-> FALSE, snapshot |-> 0]

\* validateEventSequence's variables after a whole ledger.
Summary(events) ==
  LET after[n \in 0..Len(events)] ==
        IF n = 0 THEN Created ELSE Apply(after[n - 1], events[n])
  IN  after[Len(events)]

NoCall == [event |-> RunBlocked, passed |-> FALSE]
NoRead == [step |-> "idle", head |-> <<>>, events |-> <<>>]

\* The checkpoint need only cover a part of the ledger.
Consistent_Bug(head, events, partial) == Len(head) <= Len(events)

\* readUnlocked: the ledger ends with a complete line and the checkpoint is
\* the one written for it (ledgerHead, sequence, stateHash).
Consistent(head, events, partial) == ~partial /\ head = events

Init ==
  /\ cache = Created0 /\ disk = Created0
  /\ lock = "free"
  /\ pc = [p \in Writers |-> "idle"]
  /\ call = [p \in Writers |-> NoCall]
  /\ next = [p \in Writers |-> <<>>]
  /\ acked = <<>>
  /\ reader = NoRead /\ floor = <<>>

-----------------------------------------------------------------------------
(* append, one step per system call that other processes or a failure can  *)
(* tell apart.  All of it runs under the update lock.                      *)

Step(p, from, to) == pc[p] = from /\ pc' = [pc EXCEPT ![p] = to]

\* The lock is taken although its file exists.
AcquireUpdateLock_Bug(p, e, passed) ==
  /\ Step(p, "idle", "reading")
  /\ lock' = p
  /\ call' = [call EXCEPT ![p] = [event |-> e, passed |-> passed]]
  /\ UNCHANGED <<files, next, acked, inspection>>

\* acquireFileLock: open(file, 'wx').  When the file exists the call is
\* refused as busy and nothing changes.
AcquireUpdateLock(p, e, passed) ==
  /\ Step(p, "idle", "reading")
  /\ lock = "free" /\ lock' = p
  /\ call' = [call EXCEPT ![p] = [event |-> e, passed |-> passed]]
  /\ UNCHANGED <<files, next, acked, inspection>>

\* What the store accepts from this caller, in a record it can read.  The
\* counters of the state are taken to be those the ledger demands.
Acceptable(p) ==
  LET L == Summary(cache.head)
      e == call[p].event
      N == Apply(L, e)
  IN  /\ Consistent(cache.head, cache.events, cache.partial)
      /\ Accepts(L, e, IF N.lastIteration = 0 THEN 1 ELSE N.lastIteration, N.calls, call[p].passed)

\* Stops by a signal carry none.
Snapshots_Bug(e) == e.type = "run_stopped" /\ e.resumable /\ e.reason # "signal"

\* Only a resumable stop carries a repository snapshot.
Snapshots(e) == e.type = "run_stopped" /\ e.resumable

\* The record is read and the event validated against all of it; nothing is
\* written unless it is accepted.
ReadAndValidate(p) ==
  /\ pc[p] = "reading"
  /\ IF Acceptable(p)
     THEN /\ next' = [next EXCEPT ![p] = Append(cache.events, call[p].event)]
          /\ pc' = [pc EXCEPT ![p] = IF Snapshots(call[p].event) THEN "snapshot" ELSE "append"]
     ELSE /\ pc' = [pc EXCEPT ![p] = "refused"]
          /\ UNCHANGED next
  /\ UNCHANGED <<files, lock, call, acked, inspection>>

\* repository.json is replaced by rename, then its directory is synced.
RenameSnapshot(p) ==
  /\ Step(p, "snapshot", "syncSnapshot")
  /\ cache' = [cache EXCEPT !.snapshot = Len(next[p])]
  /\ UNCHANGED <<disk, lock, call, next, acked, inspection>>

SyncSnapshot(p) ==
  /\ Step(p, "syncSnapshot", "append")
  /\ disk' = [disk EXCEPT !.snapshot = cache.snapshot]
  /\ UNCHANGED <<cache, lock, call, next, acked, inspection>>

\* appendDurably writes the line: a reader or a crash may see a part of it.
WritePart(p) ==
  /\ Step(p, "append", "line")
  /\ cache' = [cache EXCEPT !.partial = TRUE]
  /\ UNCHANGED <<disk, lock, call, next, acked, inspection>>

WriteLine(p) ==
  /\ Step(p, "line", "syncEvents")
  /\ cache' = [cache EXCEPT !.events = next[p], !.partial = FALSE]
  /\ UNCHANGED <<disk, lock, call, next, acked, inspection>>

SyncEvents(p) ==
  /\ Step(p, "syncEvents", "checkpoint")
  /\ disk' = [disk EXCEPT !.events = cache.events, !.partial = FALSE]
  /\ UNCHANGED <<cache, lock, call, next, acked, inspection>>

\* The lock goes before the directory of the checkpoint is synced.
RenameCheckpoint_Bug(p) ==
  /\ Step(p, "checkpoint", "release")
  /\ cache' = [cache EXCEPT !.head = next[p], !.passed = call[p].passed]
  /\ UNCHANGED <<disk, lock, call, next, acked, inspection>>

\* atomicWrite of checkpoint.json: the temporary file is complete and synced
\* when rename makes it visible; syncing the directory makes it last.
RenameCheckpoint(p) ==
  /\ Step(p, "checkpoint", "syncCheckpoint")
  /\ cache' = [cache EXCEPT !.head = next[p], !.passed = call[p].passed]
  /\ UNCHANGED <<disk, lock, call, next, acked, inspection>>

SyncCheckpoint(p) ==
  /\ Step(p, "syncCheckpoint", "release")
  /\ disk' = [disk EXCEPT !.head = cache.head, !.passed = cache.passed]
  /\ UNCHANGED <<cache, lock, call, next, acked, inspection>>

\* The lock is released and append returns or throws.
Return(p) ==
  /\ pc[p] \in {"release", "refused"}
  /\ acked' = IF pc[p] = "release" THEN Append(acked, call[p].event) ELSE acked
  /\ pc' = [pc EXCEPT ![p] = "idle"]
  /\ call' = [call EXCEPT ![p] = NoCall] /\ next' = [next EXCEPT ![p] = <<>>]
  /\ lock' = "free"
  /\ UNCHANGED <<files, inspection>>

Appends(p) ==
  \/ \E e \in Inputs, passed \in BOOLEAN : AcquireUpdateLock(p, e, passed)
  \/ ReadAndValidate(p)
  \/ RenameSnapshot(p) \/ SyncSnapshot(p)
  \/ WritePart(p) \/ WriteLine(p) \/ SyncEvents(p)
  \/ RenameCheckpoint(p) \/ SyncCheckpoint(p)
  \/ Return(p)

-----------------------------------------------------------------------------
(* readForInspection: no lock is taken, the update lock is only looked at, *)
(* before and after.                                                       *)

InspectionBegins ==
  /\ Inspected /\ reader.step = "idle" /\ lock = "free"
  /\ reader' = [NoRead EXCEPT !.step = "checkpoint"]
  /\ floor' = acked
  /\ UNCHANGED <<files, lock, writer, acked>>

InspectCheckpoint ==
  /\ reader.step = "checkpoint"
  /\ reader' = [reader EXCEPT !.step = "events", !.head = cache.head]
  /\ UNCHANGED <<files, lock, writer, acked, floor>>

\* The two must agree, whatever happened between the two reads.
InspectEvents ==
  /\ reader.step = "events"
  /\ reader' = IF Consistent(reader.head, cache.events, cache.partial)
               THEN [reader EXCEPT !.step = "check", !.events = cache.events]
               ELSE NoRead
  /\ UNCHANGED <<files, lock, writer, acked, floor>>

InspectionEnds ==
  /\ reader.step = "check"
  /\ reader' = IF lock = "free" THEN [reader EXCEPT !.step = "returned"] ELSE NoRead
  /\ UNCHANGED <<files, lock, writer, acked, floor>>

InspectionShown ==
  /\ reader.step = "returned"
  /\ reader' = NoRead
  /\ UNCHANGED <<files, lock, writer, acked, floor>>

Inspects ==
  InspectionBegins \/ InspectCheckpoint \/ InspectEvents \/ InspectionEnds \/ InspectionShown

-----------------------------------------------------------------------------
(* Failures.                                                               *)

Forget(p) ==
  /\ pc' = [pc EXCEPT ![p] = "idle"]
  /\ call' = [call EXCEPT ![p] = NoCall] /\ next' = [next EXCEPT ![p] = <<>>]

\* A system call of append fails: what it wrote stays, the lock is released
\* and the caller gets an error.
CallFails(p) ==
  /\ pc[p] \notin {"idle", "refused", "release"}
  /\ pc' = [pc EXCEPT ![p] = "refused"]
  /\ UNCHANGED <<files, lock, call, next, acked, inspection>>

\* The lock cannot be removed, or its removal cannot be synced: append throws
\* although the event may be recorded.
ReleaseFails(p) ==
  /\ pc[p] \in {"release", "refused"}
  /\ lock' \in {"free", "stale"}
  /\ Forget(p)
  /\ UNCHANGED <<files, acked, inspection>>

\* A process is killed: its lock file stays.
Killed(p) ==
  /\ pc[p] # "idle"
  /\ lock' = IF lock = p THEN "stale" ELSE lock
  /\ Forget(p)
  /\ UNCHANGED <<files, acked, inspection>>

\* What a power loss leaves of the ledger: all that was synced, and any part
\* of what was written since.
SurvivingLedger ==
  {f \in [events : {SubSeq(cache.events, 1, n) : n \in Len(disk.events)..Len(cache.events)},
          partial : BOOLEAN] :
     f.partial => cache.partial \/ f.events # cache.events}

PowerFails ==
  /\ PowerLoss
  /\ \E ledger \in SurvivingLedger, c, s \in {cache, disk} :
       cache' = [events |-> ledger.events, partial |-> ledger.partial,
                 head |-> c.head, passed |-> c.passed, snapshot |-> s.snapshot]
  /\ disk' = cache'
  /\ lock' = IF lock = "free" THEN "free" ELSE "stale"
  /\ pc' = [p \in Writers |-> "idle"] /\ call' = [p \in Writers |-> NoCall]
  /\ next' = [p \in Writers |-> <<>>]
  /\ reader' = NoRead
  /\ UNCHANGED <<acked, floor>>

\* The operator removes a lock file whose process is gone.
StaleLockRemoved ==
  /\ lock = "stale" /\ lock' = "free"
  /\ UNCHANGED <<files, writer, acked, inspection>>

Next ==
  \/ \E p \in Writers : Appends(p) \/ CallFails(p) \/ ReleaseFails(p) \/ Killed(p)
  \/ Inspects
  \/ PowerFails
  \/ StaleLockRemoved

Spec == Init /\ [][Next]_vars

-----------------------------------------------------------------------------
Steps == {"idle", "reading", "snapshot", "syncSnapshot", "append", "line", "syncEvents",
          "checkpoint", "syncCheckpoint", "release", "refused"}

\* A ledger never grows past SAVED_RUN_EVENT_LIMIT, run_created included.
Ledgers == BoundedSeq(Inputs, EventLimit - 1)

Files == [events : Ledgers, partial : BOOLEAN, head : Ledgers, passed : BOOLEAN,
          snapshot : 0..(EventLimit - 1)]

TypeOK ==
  /\ cache \in Files /\ disk \in Files
  /\ lock \in Writers \cup {"free", "stale"}
  /\ pc \in [Writers -> Steps]
  /\ next \in [Writers -> Ledgers]
  /\ acked \in Ledgers
  /\ reader.step \in {"idle", "checkpoint", "events", "check", "returned"}

\* An append that returned is never lost: whatever fails afterwards, power
\* included, its event is in the ledger and in the checkpoint that is or will
\* be read, and the acknowledged events kept their order (docs "durability";
\* store.ts sync before rename before release).
IsSubsequence(s, t) ==
  \E f \in [DOMAIN s -> DOMAIN t] :
    /\ \A i, j \in DOMAIN s : i < j => f[i] < f[j]
    /\ \A i \in DOMAIN s : s[i] = t[f[i]]

AcknowledgedSurvives ==
  /\ IsSubsequence(acked, cache.head)
  /\ IsSubsequence(acked, disk.head)
  /\ IsPrefix(cache.head, cache.events)
  /\ IsPrefix(disk.head, disk.events)

\* A stopped record can be compared with its repository: the snapshot on disk
\* is the one taken for that stop, so a continuation never reviews the drift
\* against the snapshot of another stop (store.ts 846-850; cli.ts resume).
StopHasItsSnapshot ==
  Summary(disk.head).status = "stopped" /\ Consistent(disk.head, disk.events, disk.partial) =>
    disk.snapshot = Len(disk.head)

\* An inspection without any lock shows a record that really was the committed
\* one: it has everything acknowledged before the inspection began and nothing
\* that is only in the ledger (store.ts readForInspection).
InspectionShowsCommitted ==
  reader.step = "returned" =>
    /\ IsSubsequence(floor, reader.events)
    /\ reader.events = reader.head
    /\ IsPrefix(reader.events, cache.head)

\* Two processes that append at the same time never overwrite or reorder each
\* other's events, and each event is checked against all before it: with or
\* without failures the files behave like the one atomic record of
\* SavedRunRecord, whose history is what the checkpoint vouches for.  Only a
\* power loss takes anything back: events at the end that no caller was told of.
Record == INSTANCE SavedRunRecord
  WITH ledger <- Summary(cache.head), history <- cache.head, verdict <- cache.passed

\* What writers offer is what isSavedRunEventData admits.  No event of a segment
\* beyond the length of a record is ever accepted.
ASSUME InputsAssumption == Inputs \subseteq Record!Events(2..EventLimit)

TakenBack ==
  PowerFails /\ IsPrefix(cache'.head, cache.head) /\ IsSubsequence(acked, cache'.head)

\* The subscript stands for Record!vars: the ledger is a function of the head.
RecordSpec == Record!Init /\ [][TakenBack \/ Record!Next]_<<cache.head, cache.passed>>

=============================================================================
