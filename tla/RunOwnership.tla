---------------------------- MODULE RunOwnership ----------------------------
(***************************************************************************)
(* Several dev-agent processes with one saved-run store: the order in which*)
(* runCliOrchestration (src/src/cli.ts) takes the run lock and the worktree*)
(* lock, reads, reviews, appends and releases, and the lock files of       *)
(* acquireFileLock (src/src/saved-runs/store.ts).                          *)
(*                                                                         *)
(* A lock is never waited for: a process that finds it taken gives up.  A  *)
(* crash leaves its locks behind, and only the operator removes them.      *)
(* What a process does between the start of its work and its end is        *)
(* OrchestrationLoop; how an event is appended is SavedRunStore.           *)
(***************************************************************************)
EXTENDS Naturals

CONSTANTS
  Processes, Runs, Trees,
  MaxSegments,   \* bound: continuations of a run
  MaxEdits       \* bound: edits of a worktree, by workers and from outside

ASSUME OwnershipAssumption ==
  /\ MaxSegments \in Nat \ {0} /\ MaxEdits \in Nat
  /\ Processes \cap {"free", "stale"} = {} /\ "none" \notin Runs \cup Trees

VARIABLES
  runLock,   \* locks/run-<id>.lock: its owner, "free" or "stale"
  treeLock,  \* locks/worktree-<key>.lock
  record,    \* status, segment and worktree of each saved run
  edits,     \* edits of each worktree by processes of the program
  outside,   \* edits by programs that take no lock
  proc       \* what each process does

vars == <<runLock, treeLock, record, edits, outside, proc>>

NoRecord == [status |-> "none", segment |-> 0, tree |-> "none"]

\* mode: "resume" (--resume), "saved" (--save-run) or "unsaved".
Idle == [pc |-> "idle", mode |-> "none", run |-> "none", tree |-> "none",
         segment |-> 0, reviewed |-> [edits |-> 0, outside |-> 0]]

Content(t) == [edits |-> edits[t], outside |-> outside[t]]

Init ==
  /\ runLock = [r \in Runs |-> "free"] /\ treeLock = [t \in Trees |-> "free"]
  /\ record = [r \in Runs |-> NoRecord]
  /\ edits = [t \in Trees |-> 0] /\ outside = [t \in Trees |-> 0]
  /\ proc = [p \in Processes |-> Idle]

At(p, pc) == proc[p].pc = pc
Goto(p, pc) == proc' = [proc EXCEPT ![p].pc = pc]

\* An exception leads to the finally block.
GiveUp(p) == Goto(p, "releaseRun")

Locks == <<runLock, treeLock>>
Contents == <<edits, outside>>

-----------------------------------------------------------------------------
(* acquireFileLock.  next is where the process goes with the lock.         *)

\* The file is replaced, whoever owns it.
AcquireTree_Bug(p, next) ==
  /\ treeLock' = [treeLock EXCEPT ![proc[p].tree] = p]
  /\ Goto(p, next)

\* The file is created exclusively, or the call is refused as busy; when
\* writing it fails, removing it may fail as well.
AcquireTree(p, next) ==
  IF treeLock[proc[p].tree] # "free" THEN GiveUp(p) /\ UNCHANGED treeLock
  ELSE \/ treeLock' = [treeLock EXCEPT ![proc[p].tree] = p] /\ Goto(p, next)
       \/ \E left \in {"free", "stale"} :
            treeLock' = [treeLock EXCEPT ![proc[p].tree] = left] /\ GiveUp(p)

\* --resume goes on when the run is owned by another process.
AcquireRun_Bug(p, next) ==
  /\ runLock' = [runLock EXCEPT ![proc[p].run] = p]
  /\ Goto(p, next)

AcquireRun(p, next) ==
  IF runLock[proc[p].run] # "free" THEN GiveUp(p) /\ UNCHANGED runLock
  ELSE \/ runLock' = [runLock EXCEPT ![proc[p].run] = p] /\ Goto(p, next)
       \/ \E left \in {"free", "stale"} :
            runLock' = [runLock EXCEPT ![proc[p].run] = left] /\ GiveUp(p)

-----------------------------------------------------------------------------
(* The command line.                                                       *)

StartResume(p, r) ==
  /\ At(p, "idle") /\ record[r].status # "none"
  /\ proc' = [proc EXCEPT ![p] = [Idle EXCEPT !.pc = "lockRun", !.mode = "resume", !.run = r]]
  /\ UNCHANGED <<Locks, record, Contents>>

StartNew(p, t, mode) ==
  /\ At(p, "idle")
  /\ proc' = [proc EXCEPT ![p] = [Idle EXCEPT !.pc = "lockTree", !.mode = mode, !.tree = t]]
  /\ UNCHANGED <<Locks, record, Contents>>

\* A resumed run is locked first, a new one after the worktree.
LockRun(p) ==
  /\ At(p, "lockRun")
  /\ AcquireRun(p, IF proc[p].mode = "resume" THEN "read" ELSE "create")
  /\ UNCHANGED <<treeLock, record, Contents>>

\* resumePosition, and the store's rule for run_resumed.
MayResume(r) == record[r].status = "stopped"

\* read and resumePosition: the record must have been stopped.
ReadRecord(p) ==
  /\ At(p, "read")
  /\ IF MayResume(proc[p].run)
     THEN proc' = [proc EXCEPT ![p].pc = "lockTree", ![p].tree = record[proc[p].run].tree,
                               ![p].segment = record[proc[p].run].segment]
     ELSE GiveUp(p)
  /\ UNCHANGED <<Locks, record, Contents>>

LockTree(p) ==
  /\ At(p, "lockTree")
  /\ AcquireTree(p, "inspect")
  /\ UNCHANGED <<runLock, record, Contents>>

\* The worktree is inspected; a resumed run shows its review of it.  A new
\* saved run gets an identifier nobody used.
Inspect(p) ==
  /\ At(p, "inspect")
  /\ CASE proc[p].mode = "resume" ->
            proc' = [proc EXCEPT ![p].pc = "review", ![p].reviewed = Content(proc[p].tree)]
       [] proc[p].mode = "saved" ->
            \E r \in Runs :
              /\ record[r].status = "none" /\ runLock[r] = "free"
              /\ \A q \in Processes : proc[q].run # r
              /\ proc' = [proc EXCEPT ![p].pc = "lockRun", ![p].run = r]
       [] OTHER -> Goto(p, "working")
  /\ UNCHANGED <<Locks, record, Contents>>

\* SavedRunStore.create
Create(p) ==
  /\ At(p, "create")
  /\ record' = [record EXCEPT ![proc[p].run] =
                  [status |-> "active", segment |-> 1, tree |-> proc[p].tree]]
  /\ Goto(p, "working")
  /\ UNCHANGED <<Locks, Contents>>

\* continue: the worktree must still be what was reviewed.
Continue(p) ==
  /\ At(p, "review")
  /\ IF Content(proc[p].tree) = proc[p].reviewed THEN Goto(p, "append") ELSE GiveUp(p)
  /\ UNCHANGED <<Locks, record, Contents>>

\* run_resumed, validated by the store against the record as it is now.
AppendResumed(p) ==
  /\ At(p, "append")
  /\ LET r == proc[p].run
     IN  IF MayResume(r) /\ record[r].segment = proc[p].segment
         THEN /\ record' = [record EXCEPT ![r].status = "active", ![r].segment = @ + 1]
              /\ Goto(p, "working")
         ELSE GiveUp(p) /\ UNCHANGED record
  /\ UNCHANGED <<Locks, Contents>>

\* A worker edits the worktree.
Work(p) ==
  /\ At(p, "working") /\ edits[proc[p].tree] < MaxEdits
  /\ edits' = [edits EXCEPT ![proc[p].tree] = @ + 1]
  /\ UNCHANGED <<Locks, record, outside, proc>>

\* runOrchestration returns, having recorded how a saved run ended.
WorkEnds(p) ==
  /\ At(p, "working")
  /\ IF proc[p].mode = "unsaved" THEN UNCHANGED record
     ELSE \E status \in {"stopped", "ended"} :
            /\ status = "stopped" => record[proc[p].run].segment < MaxSegments
            /\ record' = [record EXCEPT ![proc[p].run].status = status]
  /\ GiveUp(p)
  /\ UNCHANGED <<Locks, Contents>>

\* A stop or a signal during the review, or a failure of any step.
Fail(p) ==
  /\ proc[p].pc \in {"read", "inspect", "create", "review", "append", "working"}
  /\ GiveUp(p)
  /\ UNCHANGED <<Locks, record, Contents>>

\* What a lock may be after its owner p released it: the file may stay when
\* the token cannot be read or unlink fails.
Released(lock, p, left) ==
  [x \in DOMAIN lock |-> IF lock[x] = p THEN left ELSE lock[x]]

\* A release that fails ends the process.
ReleaseRun_Bug(p) ==
  /\ At(p, "releaseRun")
  /\ \E left \in {"free", "stale"} :
       /\ runLock' = Released(runLock, p, left)
       /\ IF left = "stale" THEN proc' = [proc EXCEPT ![p] = Idle] ELSE Goto(p, "releaseTree")
  /\ UNCHANGED <<treeLock, record, Contents>>

\* The nested finally blocks: the run lock, then the worktree lock, whatever
\* became of the first.
ReleaseRun(p) ==
  /\ At(p, "releaseRun")
  /\ \E left \in {"free", "stale"} : runLock' = Released(runLock, p, left)
  /\ Goto(p, "releaseTree")
  /\ UNCHANGED <<treeLock, record, Contents>>

ReleaseTree(p) ==
  /\ At(p, "releaseTree")
  /\ \E left \in {"free", "stale"} : treeLock' = Released(treeLock, p, left)
  /\ proc' = [proc EXCEPT ![p] = Idle]
  /\ UNCHANGED <<runLock, record, Contents>>

-----------------------------------------------------------------------------
(* The environment.                                                        *)

Crash(p) ==
  /\ ~At(p, "idle")
  /\ runLock' = Released(runLock, p, "stale") /\ treeLock' = Released(treeLock, p, "stale")
  /\ proc' = [proc EXCEPT ![p] = Idle]
  /\ UNCHANGED <<record, Contents>>

\* The operator makes sure that a lock has no owner and removes it.
ClearStale ==
  /\ \/ \E r \in Runs :
          runLock[r] = "stale" /\ runLock' = [runLock EXCEPT ![r] = "free"] /\ UNCHANGED treeLock
     \/ \E t \in Trees :
          treeLock[t] = "stale" /\ treeLock' = [treeLock EXCEPT ![t] = "free"] /\ UNCHANGED runLock
  /\ UNCHANGED <<record, Contents, proc>>

OutsideEdit ==
  /\ \E t \in Trees :
       outside[t] < MaxEdits /\ outside' = [outside EXCEPT ![t] = @ + 1]
  /\ UNCHANGED <<Locks, record, edits, proc>>

Step(p) ==
  \/ LockRun(p) \/ ReadRecord(p) \/ LockTree(p) \/ Inspect(p) \/ Create(p)
  \/ AppendResumed(p) \/ WorkEnds(p) \/ Fail(p) \/ ReleaseRun(p) \/ ReleaseTree(p)

Next ==
  \/ \E p \in Processes :
       \/ Step(p) \/ Continue(p) \/ Work(p) \/ Crash(p)
       \/ \E r \in Runs : StartResume(p, r)
       \/ \E t \in Trees, mode \in {"saved", "unsaved"} : StartNew(p, t, mode)
  \/ ClearStale \/ OutsideEdit

Spec == Init /\ [][Next]_vars

-----------------------------------------------------------------------------
Owners == Processes \cup {"free", "stale"}

PCs == {"idle", "lockRun", "read", "lockTree", "inspect", "create", "review", "append",
        "working", "releaseRun", "releaseTree"}

TypeOK ==
  /\ runLock \in [Runs -> Owners] /\ treeLock \in [Trees -> Owners]
  /\ record \in [Runs -> [status : {"none", "active", "stopped", "ended"},
                          segment : Nat, tree : Trees \cup {"none"}]]
  /\ edits \in [Trees -> Nat] /\ outside \in [Trees -> Nat]
  /\ proc \in [Processes -> [pc : PCs, mode : {"none", "resume", "saved", "unsaved"},
        run : Runs \cup {"none"}, tree : Trees \cup {"none"}, segment : Nat,
        reviewed : [edits : Nat, outside : Nat]]]

\* The steps from the inspection of the worktree to the end of the work.
Inside(p) ==
  \/ proc[p].pc \in {"inspect", "create", "review", "append", "working"}
  \/ At(p, "lockRun") /\ proc[p].mode = "saved"

\* The steps that rely on the record of a saved run.
OnRun(p, r) ==
  /\ proc[p].run = r
  /\ \/ proc[p].pc \in {"read", "create", "review", "append"}
     \/ proc[p].pc \in {"lockTree", "inspect"} /\ proc[p].mode = "resume"
     \/ At(p, "working") /\ proc[p].mode # "unsaved"

\* No two processes inspect, review or work in one worktree, and no two rely
\* on one record, whichever of the two locks each took first and whatever
\* crashed before (cli.ts; docs/saved-runs-v1.md on exclusive lock files).
Exclusive ==
  \A p, q \in Processes : p # q =>
    /\ Inside(p) /\ Inside(q) => proc[p].tree # proc[q].tree
    /\ \A r \in Runs : ~(OnRun(p, r) /\ OnRun(q, r))

\* What the operator reviewed is what is continued: until run_resumed is
\* durable no process of the program has edited the worktree since the review
\* was shown, and the record is the one that was read, so the store accepts it.
ReviewIsCurrent ==
  \A p \in Processes :
    /\ proc[p].pc \in {"review", "append"} => edits[proc[p].tree] = proc[p].reviewed.edits
    /\ At(p, "append") =>
         /\ record[proc[p].run].status = "stopped"
         /\ record[proc[p].run].segment = proc[p].segment

\* A process that left by itself holds no lock, however far it got and
\* whatever failed on the way out (the nested finally blocks).
NothingLeftBehind ==
  \A p \in Processes : At(p, "idle") =>
    /\ \A r \in Runs : runLock[r] # p
    /\ \A t \in Trees : treeLock[t] # p

=============================================================================
