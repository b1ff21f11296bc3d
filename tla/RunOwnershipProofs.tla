-------------------------- MODULE RunOwnershipProofs --------------------------
(***************************************************************************)
(* Proofs about RunOwnership for any number of processes, runs, worktrees, *)
(* continuations and edits.                                                *)
(*                                                                         *)
(* The two locks are taken in different orders by a new and by a resumed   *)
(* run, a release may fail and a crash may come at any step.  Local(p)     *)
(* says at every step of a process which locks it holds and what it knows  *)
(* because it holds them; what others do then cannot touch it.             *)
(***************************************************************************)
EXTENDS RunOwnership, TLAPS

\* The steps at which a process relies on the record of its run.
Uses(p) == OnRun(p, proc[p].run)

\* The steps of a continuation between reading the record and run_resumed.
Reviewing(p) ==
  \/ proc[p].pc \in {"review", "append"}
  \/ proc[p].pc \in {"lockTree", "inspect"} /\ proc[p].mode = "resume"

Placed(p) ==
  /\ At(p, "lockRun") => proc[p].run \in Runs /\ proc[p].mode \in {"resume", "saved"}
  /\ At(p, "lockTree") => proc[p].tree \in Trees
  /\ proc[p].pc \in {"lockRun", "read", "lockTree", "inspect"} => proc[p].mode # "none"

Holds(p) ==
  /\ Inside(p) => proc[p].tree \in Trees /\ treeLock[proc[p].tree] = p
  /\ Uses(p) => proc[p].run \in Runs /\ runLock[proc[p].run] = p

Knows(p) ==
  /\ proc[p].pc \in {"review", "append"} => edits[proc[p].tree] = proc[p].reviewed.edits
  /\ Reviewing(p) =>
       record[proc[p].run].status = "stopped" /\ record[proc[p].run].segment = proc[p].segment
  /\ At(p, "working") /\ proc[p].mode # "unsaved" => record[proc[p].run].status # "none"

Left(p) ==
  /\ proc[p].pc \in {"idle", "releaseTree"} => \A r \in Runs : runLock[r] # p
  /\ At(p, "idle") => \A t \in Trees : treeLock[t] # p

Local(p) == Placed(p) /\ Holds(p) /\ Knows(p) /\ Left(p)

Stored == \A r \in Runs : record[r].status # "none" => record[r].tree \in Trees

Inv == TypeOK /\ Stored /\ \A p \in Processes : Local(p)

-----------------------------------------------------------------------------
USE OwnershipAssumption

LEMMA InvInit == Init => Inv
<1> SUFFICES ASSUME Init PROVE Inv
  OBVIOUS
<1>1. TypeOK
  BY DEF Init, TypeOK, Owners, PCs, NoRecord, Idle
<1>2. Stored
  BY DEF Init, Stored, NoRecord
<1>3. ASSUME NEW p \in Processes PROVE Local(p)
  <2>1. proc[p] = Idle
    BY DEF Init
  <2>2. proc[p].pc = "idle"
    BY <2>1 DEF Idle
  <2> QED
    BY <2>2 DEF Init, Local, Placed, Holds, Knows, Left, Inside, Uses, OnRun, Reviewing, At
<1> QED
  BY <1>1, <1>2, <1>3 DEF Inv

\* What a process holds and knows survives every step of another one that
\* leaves its locks, the record behind its run lock and the edits behind its
\* worktree lock alone.
LEMMA OthersKept ==
  ASSUME Inv, NEW q \in Processes,
         proc'[q] = proc[q],
         \A r \in Runs : runLock'[r] = q <=> runLock[r] = q,
         \A t \in Trees : treeLock'[t] = q <=> treeLock[t] = q,
         \A r \in Runs : runLock[r] = q => record'[r] = record[r],
         \A t \in Trees : treeLock[t] = q => edits'[t] = edits[t]
  PROVE  Local(q)'
<1>1. Local(q)
  BY DEF Inv
<1>2. (Inside(q)' <=> Inside(q)) /\ (Uses(q)' <=> Uses(q)) /\ (Reviewing(q)' <=> Reviewing(q))
  BY DEF Inside, Uses, OnRun, Reviewing, At
<1>3. Placed(q)' /\ Left(q)'
  BY <1>1 DEF Local, Placed, Left, At
<1>4. Holds(q)'
  BY <1>1, <1>2 DEF Local, Holds
<1>5. proc[q].pc \in {"review", "append"} => Inside(q)
  BY DEF Inside
<1>6. Reviewing(q) \/ (At(q, "working") /\ proc[q].mode # "unsaved") => Uses(q)
  BY DEF Reviewing, Uses, OnRun, At
<1>7. Knows(q)'
  BY <1>1, <1>2, <1>5, <1>6 DEF Local, Knows, Holds, At
<1> QED
  BY <1>3, <1>4, <1>7 DEF Local

-----------------------------------------------------------------------------
(* The steps of one process.                                               *)

ProcStates ==
  [pc : PCs, mode : {"none", "resume", "saved", "unsaved"},
   run : Runs \cup {"none"}, tree : Trees \cup {"none"}, segment : Nat,
   reviewed : [edits : Nat, outside : Nat]]

\* What a step of p leaves alone.
Frame(p) ==
  \A q \in Processes \ {p} :
    /\ proc'[q] = proc[q]
    /\ \A r \in Runs : runLock'[r] = q <=> runLock[r] = q
    /\ \A t \in Trees : treeLock'[t] = q <=> treeLock[t] = q
    /\ \A r \in Runs : runLock[r] = q => record'[r] = record[r]
    /\ \A t \in Trees : treeLock[t] = q => edits'[t] = edits[t]

LEMMA StepKeeps ==
  ASSUME Inv, NEW p \in Processes, TypeOK', Stored', Frame(p), Local(p)'
  PROVE  Inv'
<1>1. ASSUME NEW q \in Processes \ {p} PROVE Local(q)'
  BY OthersKept DEF Frame
<1> QED
  BY <1>1 DEF Inv

\* A process that only moves to another step.
LEMMA GotoStep ==
  ASSUME TypeOK, NEW p \in Processes, NEW pc \in PCs, Goto(p, pc)
  PROVE  /\ proc' \in [Processes -> ProcStates]
         /\ proc'[p].pc = pc /\ proc'[p].mode = proc[p].mode /\ proc'[p].run = proc[p].run
         /\ proc'[p].tree = proc[p].tree /\ proc'[p].segment = proc[p].segment
         /\ proc'[p].reviewed = proc[p].reviewed
         /\ \A q \in Processes \ {p} : proc'[q] = proc[q]
<1>1. proc \in [Processes -> ProcStates]
  BY DEF TypeOK, ProcStates
<1>2. proc' = [proc EXCEPT ![p] = [proc[p] EXCEPT !.pc = pc]]
  BY DEF Goto
<1>3. [proc[p] EXCEPT !.pc = pc] \in ProcStates
  BY <1>1 DEF ProcStates
<1>4. proc'[p] = [proc[p] EXCEPT !.pc = pc]
  BY <1>1, <1>2
<1> QED
  BY <1>1, <1>2, <1>3, <1>4 DEF ProcStates

\* A process that starts or ends, or leaves a step with a new state.
LEMMA UpdateStep ==
  ASSUME TypeOK, NEW p \in Processes, NEW s \in ProcStates, proc' = [proc EXCEPT ![p] = s]
  PROVE  /\ proc' \in [Processes -> ProcStates] /\ proc'[p] = s
         /\ \A q \in Processes \ {p} : proc'[q] = proc[q]
BY DEF TypeOK, ProcStates

\* A process that gave up relies on nothing any more.
LEMMA ReleasingLocal ==
  ASSUME NEW p \in Processes, proc'[p].pc = "releaseRun"
  PROVE  Local(p)'
BY DEF Local, Placed, Holds, Knows, Left, Inside, Uses, OnRun, Reviewing, At

LEMMA GiveUpStep ==
  ASSUME Inv, NEW p \in Processes, GiveUp(p), UNCHANGED <<Locks, record, Contents>>
  PROVE  Inv'
<1>1. /\ proc' \in [Processes -> ProcStates] /\ proc'[p].pc = "releaseRun"
      /\ \A q \in Processes \ {p} : proc'[q] = proc[q]
  BY GotoStep DEF GiveUp, PCs, Inv
<1>2. TypeOK' /\ Stored' /\ Frame(p)
  BY <1>1 DEF Inv, TypeOK, ProcStates, Stored, Frame, Locks, Contents
<1> QED
  BY <1>1, <1>2, ReleasingLocal, StepKeeps

LEMMA StartResumeKeeps ==
  ASSUME Inv, NEW p \in Processes, NEW r \in Runs, StartResume(p, r)
  PROVE  Inv'
<1> DEFINE s == [Idle EXCEPT !.pc = "lockRun", !.mode = "resume", !.run = r]
<1>1. s \in ProcStates /\ s.pc = "lockRun" /\ s.mode = "resume" /\ s.run = r
  BY DEF Idle, ProcStates, PCs
<1>2. proc' = [proc EXCEPT ![p] = s]
  BY DEF StartResume
<1> HIDE DEF s
<1>3. /\ proc' \in [Processes -> ProcStates] /\ proc'[p] = s
      /\ \A q \in Processes \ {p} : proc'[q] = proc[q]
  BY <1>1, <1>2, UpdateStep DEF Inv
<1>4. TypeOK' /\ Stored' /\ Frame(p)
  BY <1>3 DEF StartResume, Inv, TypeOK, ProcStates, Stored, Frame, Locks, Contents
<1>5. Local(p)'
  BY <1>1, <1>3 DEF Local, Placed, Holds, Knows, Left, Inside, Uses, OnRun, Reviewing, At
<1> QED
  BY <1>4, <1>5, StepKeeps

LEMMA StartNewKeeps ==
  ASSUME Inv, NEW p \in Processes, NEW t \in Trees, NEW mode \in {"saved", "unsaved"},
         StartNew(p, t, mode)
  PROVE  Inv'
<1> DEFINE s == [Idle EXCEPT !.pc = "lockTree", !.mode = mode, !.tree = t]
<1>1. s \in ProcStates /\ s.pc = "lockTree" /\ s.mode = mode /\ s.tree = t
  BY DEF Idle, ProcStates, PCs
<1>2. proc' = [proc EXCEPT ![p] = s]
  BY DEF StartNew
<1> HIDE DEF s
<1>3. /\ proc' \in [Processes -> ProcStates] /\ proc'[p] = s
      /\ \A q \in Processes \ {p} : proc'[q] = proc[q]
  BY <1>1, <1>2, UpdateStep DEF Inv
<1>4. TypeOK' /\ Stored' /\ Frame(p)
  BY <1>3 DEF StartNew, Inv, TypeOK, ProcStates, Stored, Frame, Locks, Contents
<1>5. Local(p)'
  BY <1>1, <1>3 DEF Local, Placed, Holds, Knows, Left, Inside, Uses, OnRun, Reviewing, At
<1> QED
  BY <1>4, <1>5, StepKeeps

\* The run lock is taken, refused, or left behind by a failed attempt.
LEMMA LockRunKeeps ==
  ASSUME Inv, NEW p \in Processes, LockRun(p)
  PROVE  Inv'
<1> DEFINE r == proc[p].run
           next == IF proc[p].mode = "resume" THEN "read" ELSE "create"
<1>1. r \in Runs /\ proc[p].mode \in {"resume", "saved"} /\ At(p, "lockRun") /\ next \in PCs
  BY DEF LockRun, Inv, Local, Placed, At, PCs
<1>2. Local(p)
  BY DEF Inv
<1>3. CASE GiveUp(p) /\ UNCHANGED runLock
  BY <1>3, GiveUpStep DEF LockRun, Locks
<1>4. CASE runLock[r] = "free" /\ runLock' = [runLock EXCEPT ![r] = p] /\ Goto(p, next)
  <2>1. /\ proc' \in [Processes -> ProcStates] /\ proc'[p].pc = next
        /\ proc'[p].mode = proc[p].mode /\ proc'[p].run = r /\ proc'[p].tree = proc[p].tree
        /\ \A q \in Processes \ {p} : proc'[q] = proc[q]
    BY <1>1, <1>4, GotoStep DEF Inv
  <2>2. runLock' \in [Runs -> Owners] /\ runLock'[r] = p
        /\ \A x \in Runs \ {r} : runLock'[x] = runLock[x]
    BY <1>1, <1>4 DEF Inv, TypeOK, Owners
  <2>3. TypeOK' /\ Stored' /\ Frame(p)
    BY <1>1, <1>4, <2>1, <2>2 DEF LockRun, Inv, TypeOK, ProcStates, Stored, Frame, Contents
  <2>4. Local(p)'
    <3>1. CASE proc[p].mode = "resume"
      BY <1>1, <2>1, <2>2, <3>1 DEF Local, Placed, Holds, Knows, Left, Inside, Uses, OnRun, Reviewing, At
    <3>2. CASE proc[p].mode = "saved"
      <4>1. Inside(p)
        BY <1>1, <3>2 DEF Inside
      <4>2. proc[p].tree \in Trees /\ treeLock'[proc[p].tree] = p
        BY <1>2, <4>1 DEF Local, Holds, LockRun
      <4> QED
        BY <1>1, <2>1, <2>2, <3>2, <4>2 DEF Local, Placed, Holds, Knows, Left, Inside, Uses, OnRun, Reviewing, At
    <3> QED
      BY <1>1, <3>1, <3>2
  <2> QED
    BY <2>3, <2>4, StepKeeps
<1>5. CASE /\ runLock[r] = "free" /\ GiveUp(p)
           /\ \E left \in {"free", "stale"} : runLock' = [runLock EXCEPT ![r] = left]
  <2>1. /\ proc' \in [Processes -> ProcStates] /\ proc'[p].pc = "releaseRun"
        /\ \A q \in Processes \ {p} : proc'[q] = proc[q]
    BY <1>5, GotoStep DEF GiveUp, PCs, Inv
  <2>2. /\ runLock' \in [Runs -> Owners] /\ runLock'[r] \in {"free", "stale"}
        /\ \A x \in Runs \ {r} : runLock'[x] = runLock[x]
    BY <1>1, <1>5 DEF Inv, TypeOK, Owners
  <2>3. TypeOK' /\ Stored' /\ Frame(p)
    BY <1>1, <1>5, <2>1, <2>2 DEF LockRun, Inv, TypeOK, ProcStates, Stored, Frame, Contents
  <2> QED
    BY <2>1, <2>3, ReleasingLocal, StepKeeps
<1> QED
  BY <1>3, <1>4, <1>5 DEF LockRun, AcquireRun

\* The worktree lock, likewise.
LEMMA LockTreeKeeps ==
  ASSUME Inv, NEW p \in Processes, LockTree(p)
  PROVE  Inv'
<1> DEFINE t == proc[p].tree
<1>1. t \in Trees /\ At(p, "lockTree") /\ "inspect" \in PCs
  BY DEF LockTree, Inv, Local, Placed, PCs
<1>2. Local(p)
  BY DEF Inv
<1>3. CASE GiveUp(p) /\ UNCHANGED treeLock
  BY <1>3, GiveUpStep DEF LockTree, Locks
<1>4. CASE treeLock[t] = "free" /\ treeLock' = [treeLock EXCEPT ![t] = p] /\ Goto(p, "inspect")
  <2>1. /\ proc' \in [Processes -> ProcStates] /\ proc'[p].pc = "inspect"
        /\ proc'[p].mode = proc[p].mode /\ proc'[p].run = proc[p].run /\ proc'[p].tree = t
        /\ proc'[p].segment = proc[p].segment
        /\ \A q \in Processes \ {p} : proc'[q] = proc[q]
    BY <1>1, <1>4, GotoStep DEF Inv
  <2>2. treeLock' \in [Trees -> Owners] /\ treeLock'[t] = p
        /\ \A x \in Trees \ {t} : treeLock'[x] = treeLock[x]
    BY <1>1, <1>4 DEF Inv, TypeOK, Owners
  <2>3. TypeOK' /\ Stored' /\ Frame(p)
    BY <1>1, <1>4, <2>1, <2>2 DEF LockTree, Inv, TypeOK, ProcStates, Stored, Frame, Contents
  <2>4. /\ Uses(p)' => Uses(p)
        /\ Reviewing(p)' => Reviewing(p)
    BY <1>1, <2>1 DEF Uses, OnRun, Reviewing, At
  <2>5. Local(p)'
    BY <1>1, <1>2, <2>1, <2>2, <2>4 DEF LockTree, Contents, Local, Placed, Holds, Knows, Left, At
  <2> QED
    BY <2>3, <2>5, StepKeeps
<1>5. CASE /\ treeLock[t] = "free" /\ GiveUp(p)
           /\ \E left \in {"free", "stale"} : treeLock' = [treeLock EXCEPT ![t] = left]
  <2>1. /\ proc' \in [Processes -> ProcStates] /\ proc'[p].pc = "releaseRun"
        /\ \A q \in Processes \ {p} : proc'[q] = proc[q]
    BY <1>5, GotoStep DEF GiveUp, PCs, Inv
  <2>2. /\ treeLock' \in [Trees -> Owners] /\ treeLock'[t] \in {"free", "stale"}
        /\ \A x \in Trees \ {t} : treeLock'[x] = treeLock[x]
    BY <1>1, <1>5 DEF Inv, TypeOK, Owners
  <2>3. TypeOK' /\ Stored' /\ Frame(p)
    BY <1>1, <1>5, <2>1, <2>2 DEF LockTree, Inv, TypeOK, ProcStates, Stored, Frame, Contents
  <2> QED
    BY <2>1, <2>3, ReleasingLocal, StepKeeps
<1> QED
  BY <1>3, <1>4, <1>5 DEF LockTree, AcquireTree

\* What is known of the record from now on was read under the run lock.
LEMMA ReadRecordKeeps ==
  ASSUME Inv, NEW p \in Processes, ReadRecord(p)
  PROVE  Inv'
<1> DEFINE r == proc[p].run
<1>1. At(p, "read") /\ r \in Runs /\ runLock[r] = p
  BY DEF ReadRecord, Inv, Local, Holds, Uses, OnRun, At
<1>2. CASE GiveUp(p)
  BY <1>2, GiveUpStep DEF ReadRecord
<1>3. CASE ~GiveUp(p)
  <2> DEFINE s == [proc[p] EXCEPT !.pc = "lockTree", !.tree = record[r].tree,
                                  !.segment = record[r].segment]
  <2>1. MayResume(r) /\ proc' = [proc EXCEPT ![p] = s]
    BY <1>3 DEF ReadRecord
  <2>2. record[r].status = "stopped" /\ record[r].tree \in Trees /\ record[r].segment \in Nat
    BY <1>1, <2>1 DEF MayResume, Inv, Stored, TypeOK
  <2>3. /\ s \in ProcStates /\ s.pc = "lockTree" /\ s.mode = proc[p].mode /\ s.run = r
        /\ s.tree = record[r].tree /\ s.segment = record[r].segment
    <3>1. proc[p] \in ProcStates
      BY DEF Inv, TypeOK, ProcStates
    <3> QED
      BY <2>2, <3>1 DEF ProcStates, PCs
  <2> HIDE DEF s
  <2>4. /\ proc' \in [Processes -> ProcStates] /\ proc'[p] = s
        /\ \A q \in Processes \ {p} : proc'[q] = proc[q]
    BY <2>1, <2>3, UpdateStep DEF Inv
  <2>5. TypeOK' /\ Stored' /\ Frame(p)
    BY <2>4 DEF ReadRecord, Inv, TypeOK, ProcStates, Stored, Frame, Locks, Contents
  <2>6. ~Inside(p)'
    BY <2>3, <2>4 DEF Inside, At
  <2>7. proc[p].mode # "none"
    BY <1>1 DEF Inv, Local, Placed, At
  <2>8. Local(p)'
    BY <1>1, <2>2, <2>3, <2>4, <2>6, <2>7 DEF ReadRecord, Locks, Local, Placed, Holds, Knows, Left,
       Uses, OnRun, At
  <2> QED
    BY <2>5, <2>8, StepKeeps
<1> QED
  BY <1>2, <1>3

\* The review shows the worktree as it is under the lock.
LEMMA InspectKeeps ==
  ASSUME Inv, NEW p \in Processes, Inspect(p)
  PROVE  Inv'
<1> DEFINE t == proc[p].tree
<1>1. At(p, "inspect") /\ t \in Trees /\ treeLock[t] = p /\ Local(p)
  BY DEF Inspect, Inv, Local, Holds, Inside, At
<1>2. CASE proc[p].mode = "resume"
  <2> DEFINE s == [proc[p] EXCEPT !.pc = "review", !.reviewed = Content(t)]
  <2>1. proc' = [proc EXCEPT ![p] = s]
    BY <1>2 DEF Inspect
  <2>2. Content(t) \in [edits : Nat, outside : Nat] /\ Content(t).edits = edits[t]
    BY <1>1 DEF Content, Inv, TypeOK
  <2>3. /\ s \in ProcStates /\ s.pc = "review" /\ s.mode = "resume" /\ s.run = proc[p].run
        /\ s.tree = t /\ s.segment = proc[p].segment /\ s.reviewed.edits = edits[t]
    BY <1>2, <2>2 DEF Inv, TypeOK, ProcStates, PCs
  <2> HIDE DEF s
  <2>4. /\ proc' \in [Processes -> ProcStates] /\ proc'[p] = s
        /\ \A q \in Processes \ {p} : proc'[q] = proc[q]
    BY <2>1, <2>3, UpdateStep DEF Inv
  <2>5. TypeOK' /\ Stored' /\ Frame(p)
    BY <2>4 DEF Inspect, Inv, TypeOK, ProcStates, Stored, Frame, Locks, Contents
  <2>6. Uses(p) /\ Reviewing(p)
    BY <1>1, <1>2 DEF Uses, OnRun, Reviewing, At
  <2>7. Local(p)'
    BY <1>1, <2>3, <2>4, <2>6 DEF Inspect, Locks, Contents, Local, Placed, Holds, Knows, Left,
       Inside, Uses, OnRun, Reviewing, At
  <2> QED
    BY <2>5, <2>7, StepKeeps
<1>3. CASE proc[p].mode = "saved"
  <2>1. PICK r \in Runs : proc' = [proc EXCEPT ![p].pc = "lockRun", ![p].run = r]
    BY <1>3 DEF Inspect
  <2> DEFINE s == [proc[p] EXCEPT !.pc = "lockRun", !.run = r]
  <2>2. /\ s \in ProcStates /\ s.pc = "lockRun" /\ s.mode = "saved" /\ s.run = r /\ s.tree = t
    <3>1. proc[p] \in ProcStates
      BY DEF Inv, TypeOK, ProcStates
    <3> QED
      BY <1>3, <3>1 DEF ProcStates, PCs
  <2>3. proc' = [proc EXCEPT ![p] = s]
    BY <2>1
  <2> HIDE DEF s
  <2>4. /\ proc' \in [Processes -> ProcStates] /\ proc'[p] = s
        /\ \A q \in Processes \ {p} : proc'[q] = proc[q]
    BY <2>2, <2>3, UpdateStep DEF Inv
  <2>5. TypeOK' /\ Stored' /\ Frame(p)
    BY <2>4 DEF Inspect, Inv, TypeOK, ProcStates, Stored, Frame, Locks, Contents
  <2>6. Local(p)'
    BY <1>1, <2>2, <2>4 DEF Inspect, Locks, Local, Placed, Holds, Knows, Left,
       Inside, Uses, OnRun, Reviewing, At
  <2> QED
    BY <2>5, <2>6, StepKeeps
<1>4. CASE proc[p].mode \notin {"resume", "saved"}
  <2>1. Goto(p, "working") /\ "working" \in PCs
    BY <1>4 DEF Inspect, PCs
  <2>2. /\ proc' \in [Processes -> ProcStates] /\ proc'[p].pc = "working"
        /\ proc'[p].mode = proc[p].mode /\ proc'[p].run = proc[p].run /\ proc'[p].tree = t
        /\ \A q \in Processes \ {p} : proc'[q] = proc[q]
    BY <2>1, GotoStep DEF Inv
  <2>3. TypeOK' /\ Stored' /\ Frame(p)
    BY <2>2 DEF Inspect, Inv, TypeOK, ProcStates, Stored, Frame, Locks, Contents
  <2>4. proc[p].mode = "unsaved"
    <3>1. proc[p].mode # "none"
      BY <1>1 DEF Local, Placed, At
    <3>2. proc[p].mode \in {"none", "resume", "saved", "unsaved"}
      BY DEF Inv, TypeOK
    <3> QED
      BY <1>4, <3>1, <3>2
  <2>5. ~Uses(p)' /\ ~Reviewing(p)'
    BY <2>2, <2>4 DEF Uses, OnRun, Reviewing, At
  <2>6. Local(p)'
    BY <1>1, <2>2, <2>4, <2>5 DEF Inspect, Locks, Local, Placed, Holds, Knows, Left, At
  <2> QED
    BY <2>3, <2>6, StepKeeps
<1> QED
  BY <1>2, <1>3, <1>4

\* create, run_resumed and the end of the work change the record under the
\* run lock.
LEMMA RecordKeeps ==
  ASSUME Inv, NEW p \in Processes, Uses(p), NEW new,
         new \in [status : {"none", "active", "stopped", "ended"}, segment : Nat,
                  tree : Trees \cup {"none"}],
         new.status # "none" => new.tree \in Trees,
         record' = [record EXCEPT ![proc[p].run] = new],
         NEW pc \in {"working", "releaseRun"}, Goto(p, pc),
         pc = "working" => Inside(p) /\ new.status # "none",
         UNCHANGED <<Locks, Contents>>
  PROVE  Inv'
<1> DEFINE r == proc[p].run
<1>1. r \in Runs /\ runLock[r] = p /\ Local(p)
  BY DEF Inv, Local, Holds
<1>2. /\ proc' \in [Processes -> ProcStates] /\ proc'[p].pc = pc
      /\ proc'[p].mode = proc[p].mode /\ proc'[p].run = r /\ proc'[p].tree = proc[p].tree
      /\ \A q \in Processes \ {p} : proc'[q] = proc[q]
  BY GotoStep DEF Inv, PCs
<1>3. /\ record' \in [Runs -> [status : {"none", "active", "stopped", "ended"},
                               segment : Nat, tree : Trees \cup {"none"}]]
      /\ record'[r] = new /\ \A x \in Runs \ {r} : record'[x] = record[x]
  BY <1>1 DEF Inv, TypeOK
<1>4. TypeOK'
  BY <1>2, <1>3 DEF Inv, TypeOK, ProcStates, Locks, Contents
<1>5. Stored'
  BY <1>3 DEF Inv, Stored
<1>6. Frame(p)
  BY <1>1, <1>2, <1>3 DEF Frame, Locks, Contents
<1>7. Local(p)'
  <2>1. CASE pc = "releaseRun"
    BY <1>2, <2>1, ReleasingLocal
  <2>2. CASE pc = "working"
    <3>1. proc[p].tree \in Trees /\ treeLock[proc[p].tree] = p /\ record'[r].status # "none"
      BY <1>1, <1>3, <2>2 DEF Local, Holds
    <3>2. ~Reviewing(p)'
      BY <1>2, <2>2 DEF Reviewing
    <3> QED
      BY <1>1, <1>2, <2>2, <3>1, <3>2 DEF Locks, Local, Placed, Holds, Knows, Left, At
  <2> QED
    BY <2>1, <2>2
<1> QED
  BY <1>4, <1>5, <1>6, <1>7, StepKeeps

LEMMA CreateKeeps == ASSUME Inv, NEW p \in Processes, Create(p) PROVE Inv'
<1> DEFINE new == [status |-> "active", segment |-> 1, tree |-> proc[p].tree]
<1>1. Uses(p) /\ Inside(p)
  BY DEF Create, Uses, OnRun, Inside, At
<1>2. proc[p].tree \in Trees
  BY <1>1 DEF Inv, Local, Holds
<1>3. /\ new \in [status : {"none", "active", "stopped", "ended"}, segment : Nat,
                  tree : Trees \cup {"none"}]
      /\ new.status = "active" /\ new.tree \in Trees
  BY <1>2
<1>4. record' = [record EXCEPT ![proc[p].run] = new]
  BY DEF Create
<1> HIDE DEF new
<1> QED
  BY <1>1, <1>3, <1>4, RecordKeeps DEF Create

LEMMA AppendResumedKeeps == ASSUME Inv, NEW p \in Processes, AppendResumed(p) PROVE Inv'
<1> DEFINE r == proc[p].run
           new == [record[r] EXCEPT !.status = "active", !.segment = record[r].segment + 1]
<1>1. Uses(p) /\ Inside(p)
  BY DEF AppendResumed, Uses, OnRun, Inside, At
<1>2. r \in Runs
  BY <1>1 DEF Inv, Local, Holds
<1>3. CASE GiveUp(p) /\ UNCHANGED record
  BY <1>3, GiveUpStep DEF AppendResumed
<1>4. CASE ~(GiveUp(p) /\ UNCHANGED record)
  <2>1. MayResume(r) /\ record' = [record EXCEPT ![r] = new] /\ Goto(p, "working")
    BY <1>4 DEF AppendResumed
  <2>2. record[r].tree \in Trees
    BY <1>2, <2>1 DEF MayResume, Inv, Stored
  <2>3. /\ new \in [status : {"none", "active", "stopped", "ended"}, segment : Nat,
                    tree : Trees \cup {"none"}]
        /\ new.status = "active" /\ new.tree \in Trees
    <3>1. record[r] \in [status : {"none", "active", "stopped", "ended"}, segment : Nat,
                         tree : Trees \cup {"none"}]
      BY <1>2 DEF Inv, TypeOK
    <3>2. PICK k \in Nat : k = record[r].segment + 1
      BY <3>1
    <3>3. new = [record[r] EXCEPT !.status = "active", !.segment = k]
      BY <3>2
    <3> HIDE DEF new
    <3> QED
      BY <2>2, <3>1, <3>3
  <2> HIDE DEF new
  <2> QED
    BY <1>1, <2>1, <2>3, RecordKeeps DEF AppendResumed
<1> QED
  BY <1>3, <1>4

LEMMA WorkEndsKeeps == ASSUME Inv, NEW p \in Processes, WorkEnds(p) PROVE Inv'
<1> DEFINE r == proc[p].run
<1>1. CASE proc[p].mode = "unsaved"
  BY <1>1, GiveUpStep DEF WorkEnds
<1>2. CASE proc[p].mode # "unsaved"
  <2>1. Uses(p)
    BY <1>2 DEF WorkEnds, Uses, OnRun, At
  <2>2. r \in Runs /\ record[r].tree \in Trees
    BY <1>2, <2>1 DEF WorkEnds, Inv, Local, Holds, Knows, Stored
  <2>3. PICK status \in {"stopped", "ended"} : record' = [record EXCEPT ![r].status = status]
    BY <1>2 DEF WorkEnds
  <2> DEFINE new == [record[r] EXCEPT !.status = status]
  <2>4. /\ new \in [status : {"none", "active", "stopped", "ended"}, segment : Nat,
                    tree : Trees \cup {"none"}]
        /\ new.status # "none" => new.tree \in Trees
    BY <2>2 DEF Inv, TypeOK
  <2>5. record' = [record EXCEPT ![r] = new]
    BY <2>3
  <2> HIDE DEF new
  <2> QED
    BY <2>1, <2>4, <2>5, RecordKeeps DEF WorkEnds, GiveUp
<1> QED
  BY <1>1, <1>2

\* A worker edits under the worktree lock: nobody else reviews that worktree.
LEMMA WorkKeeps == ASSUME Inv, NEW p \in Processes, Work(p) PROVE Inv'
<1> DEFINE t == proc[p].tree
<1>1. Local(p) /\ t \in Trees /\ treeLock[t] = p
  BY DEF Work, Inv, Local, Holds, Inside, At
<1>2. /\ edits' \in [Trees -> Nat]
      /\ \A x \in Trees \ {t} : edits'[x] = edits[x]
  BY <1>1 DEF Work, Inv, TypeOK
<1>3. TypeOK' /\ Stored' /\ Frame(p)
  BY <1>1, <1>2 DEF Work, Inv, TypeOK, Stored, Frame, Locks
<1>4. Local(p)'
  <2>1. proc'[p] = proc[p] /\ At(p, "working")
    BY DEF Work
  <2>2. (Inside(p)' <=> Inside(p)) /\ (Uses(p)' <=> Uses(p)) /\ ~Reviewing(p)'
    BY <2>1 DEF Inside, Uses, OnRun, Reviewing, At
  <2> QED
    BY <1>1, <2>1, <2>2 DEF Work, Locks, Local, Placed, Holds, Knows, Left, At
<1> QED
  BY <1>3, <1>4, StepKeeps

\* Releasing or losing the locks of p touches no lock of another process, and
\* leaves none to p.
LEMMA ReleasedLock ==
  ASSUME NEW D, NEW lock \in [D -> Owners], NEW p \in Processes, NEW left \in {"free", "stale"}
  PROVE  /\ Released(lock, p, left) \in [D -> Owners]
         /\ \A x \in D : Released(lock, p, left)[x] # p
         /\ \A q \in Processes \ {p}, x \in D : Released(lock, p, left)[x] = q <=> lock[x] = q
BY DEF Released, Owners

LEMMA ReleaseRunKeeps == ASSUME Inv, NEW p \in Processes, ReleaseRun(p) PROVE Inv'
<1>1. /\ proc' \in [Processes -> ProcStates] /\ proc'[p].pc = "releaseTree"
      /\ \A q \in Processes \ {p} : proc'[q] = proc[q]
  BY GotoStep DEF ReleaseRun, PCs, Inv
<1>2. /\ runLock' \in [Runs -> Owners] /\ \A x \in Runs : runLock'[x] # p
      /\ \A q \in Processes \ {p}, x \in Runs : runLock'[x] = q <=> runLock[x] = q
  <2>1. PICK left \in {"free", "stale"} : runLock' = Released(runLock, p, left)
    BY DEF ReleaseRun
  <2>2. runLock \in [Runs -> Owners]
    BY DEF Inv, TypeOK
  <2> QED
    BY <2>1, <2>2, ReleasedLock
<1>3. TypeOK' /\ Stored' /\ Frame(p)
  BY <1>1, <1>2 DEF ReleaseRun, Inv, TypeOK, ProcStates, Stored, Frame, Contents
<1>4. Local(p)'
  BY <1>1, <1>2 DEF Local, Placed, Holds, Knows, Left, Inside, Uses, OnRun, Reviewing, At
<1> QED
  BY <1>3, <1>4, StepKeeps

\* A process that is gone: nothing is left to it.
LEMMA GoneKeeps ==
  ASSUME Inv, NEW p \in Processes, proc' = [proc EXCEPT ![p] = Idle],
         runLock' \in [Runs -> Owners], treeLock' \in [Trees -> Owners],
         \A x \in Runs : runLock'[x] # p, \A x \in Trees : treeLock'[x] # p,
         \A q \in Processes \ {p}, x \in Runs : runLock'[x] = q <=> runLock[x] = q,
         \A q \in Processes \ {p}, x \in Trees : treeLock'[x] = q <=> treeLock[x] = q,
         UNCHANGED <<record, Contents>>
  PROVE  Inv'
<1>1. Idle \in ProcStates /\ Idle.pc = "idle"
  BY DEF Idle, ProcStates, PCs
<1>2. /\ proc' \in [Processes -> ProcStates] /\ proc'[p] = Idle
      /\ \A q \in Processes \ {p} : proc'[q] = proc[q]
  BY <1>1, UpdateStep DEF Inv
<1>3. TypeOK' /\ Stored' /\ Frame(p)
  BY <1>2 DEF Inv, TypeOK, ProcStates, Stored, Frame, Contents
<1>4. Local(p)'
  BY <1>1, <1>2 DEF Local, Placed, Holds, Knows, Left, Inside, Uses, OnRun, Reviewing, At
<1> QED
  BY <1>3, <1>4, StepKeeps

LEMMA ReleaseTreeKeeps == ASSUME Inv, NEW p \in Processes, ReleaseTree(p) PROVE Inv'
<1>1. \A x \in Runs : runLock'[x] # p
  BY DEF ReleaseTree, Inv, Local, Left, At
<1>2. /\ treeLock' \in [Trees -> Owners] /\ \A x \in Trees : treeLock'[x] # p
      /\ \A q \in Processes \ {p}, x \in Trees : treeLock'[x] = q <=> treeLock[x] = q
  BY ReleasedLock DEF ReleaseTree, Inv, TypeOK
<1> QED
  BY <1>1, <1>2, GoneKeeps DEF ReleaseTree, Inv, TypeOK

LEMMA CrashKeeps == ASSUME Inv, NEW p \in Processes, Crash(p) PROVE Inv'
<1>1. /\ runLock' \in [Runs -> Owners] /\ \A x \in Runs : runLock'[x] # p
      /\ \A q \in Processes \ {p}, x \in Runs : runLock'[x] = q <=> runLock[x] = q
  BY ReleasedLock DEF Crash, Inv, TypeOK
<1>2. /\ treeLock' \in [Trees -> Owners] /\ \A x \in Trees : treeLock'[x] # p
      /\ \A q \in Processes \ {p}, x \in Trees : treeLock'[x] = q <=> treeLock[x] = q
  BY ReleasedLock DEF Crash, Inv, TypeOK
<1> QED
  BY <1>1, <1>2, GoneKeeps DEF Crash

\* The operator removes a lock that nobody owns; programs that take no lock
\* edit the worktrees.
LEMMA EnvironmentKeeps == ASSUME Inv, ClearStale \/ OutsideEdit PROVE Inv'
<1>1. CASE ClearStale
  <2>1. /\ runLock' \in [Runs -> Owners] /\ treeLock' \in [Trees -> Owners]
        /\ \A q \in Processes, x \in Runs : runLock'[x] = q <=> runLock[x] = q
        /\ \A q \in Processes, x \in Trees : treeLock'[x] = q <=> treeLock[x] = q
    BY <1>1 DEF ClearStale, Inv, TypeOK, Owners
  <2>2. TypeOK' /\ Stored'
    BY <1>1, <2>1 DEF ClearStale, Inv, TypeOK, Stored, Contents
  <2>3. ASSUME NEW q \in Processes PROVE Local(q)'
    BY <1>1, <2>1, OthersKept DEF ClearStale, Contents
  <2> QED
    BY <2>2, <2>3 DEF Inv
<1>2. CASE OutsideEdit
  <2>1. TypeOK' /\ Stored'
    BY <1>2 DEF OutsideEdit, Inv, TypeOK, Stored, Locks
  <2>2. ASSUME NEW q \in Processes PROVE Local(q)'
    BY <1>2, OthersKept DEF OutsideEdit, Locks
  <2> QED
    BY <2>1, <2>2 DEF Inv
<1> QED
  BY <1>1, <1>2

LEMMA ContinueKeeps == ASSUME Inv, NEW p \in Processes, Continue(p) PROVE Inv'
<1>1. CASE GiveUp(p)
  BY <1>1, GiveUpStep DEF Continue
<1>2. CASE Goto(p, "append")
  <2>1. /\ proc' \in [Processes -> ProcStates] /\ proc'[p].pc = "append"
        /\ proc'[p].mode = proc[p].mode /\ proc'[p].run = proc[p].run
        /\ proc'[p].tree = proc[p].tree /\ proc'[p].segment = proc[p].segment
        /\ proc'[p].reviewed = proc[p].reviewed
        /\ \A q \in Processes \ {p} : proc'[q] = proc[q]
    BY <1>2, GotoStep DEF Inv, PCs
  <2>2. TypeOK' /\ Stored' /\ Frame(p)
    BY <2>1 DEF Continue, Inv, TypeOK, ProcStates, Stored, Frame, Locks, Contents
  <2>3. Local(p) /\ At(p, "review") /\ Inside(p) /\ Uses(p) /\ Reviewing(p)
    BY DEF Continue, Inv, Inside, Uses, OnRun, Reviewing, At
  <2>4. Local(p)'
    BY <2>1, <2>3 DEF Continue, Locks, Contents, Local, Placed, Holds, Knows, Left, At
  <2> QED
    BY <2>2, <2>4, StepKeeps
<1> QED
  BY <1>1, <1>2 DEF Continue

-----------------------------------------------------------------------------
\* Locks, records and processes agree in every reachable state.
THEOREM InvHolds == Spec => []Inv
<1>1. Inv /\ [Next]_vars => Inv'
  <2> SUFFICES ASSUME Inv, [Next]_vars PROVE Inv'
    OBVIOUS
  <2>1. ASSUME NEW p \in Processes, Step(p) PROVE Inv'
    BY <2>1, LockRunKeeps, ReadRecordKeeps, LockTreeKeeps, InspectKeeps, CreateKeeps,
       AppendResumedKeeps, WorkEndsKeeps, GiveUpStep, ReleaseRunKeeps, ReleaseTreeKeeps
       DEF Step, Fail
  <2>2. ASSUME NEW p \in Processes, Continue(p) \/ Work(p) \/ Crash(p) PROVE Inv'
    BY <2>2, ContinueKeeps, WorkKeeps, CrashKeeps
  <2>3. ASSUME NEW p \in Processes, NEW r \in Runs, StartResume(p, r) PROVE Inv'
    BY <2>3, StartResumeKeeps
  <2>4. ASSUME NEW p \in Processes, NEW t \in Trees, NEW mode \in {"saved", "unsaved"},
               StartNew(p, t, mode)
        PROVE  Inv'
    BY <2>4, StartNewKeeps
  <2>5. CASE ClearStale \/ OutsideEdit
    BY <2>5, EnvironmentKeeps
  <2>6. CASE UNCHANGED vars
    <3>1. TypeOK' /\ Stored'
      BY <2>6 DEF vars, Inv, TypeOK, Stored
    <3>2. ASSUME NEW q \in Processes PROVE Local(q)'
      BY <2>6, OthersKept DEF vars
    <3> QED
      BY <3>1, <3>2 DEF Inv
  <2> QED
    BY <2>1, <2>2, <2>3, <2>4, <2>5, <2>6 DEF Next
<1> QED
  BY InvInit, <1>1, PTL DEF Spec

\* However many processes start, crash or fail in whatever order, no two are in
\* one worktree and no two rely on one record (acquireFileLock in store.ts, the
\* order of the locks in cli.ts).
THEOREM ExclusiveHolds == Spec => []Exclusive
<1>1. Inv => Exclusive
  <2> SUFFICES ASSUME Inv, NEW p \in Processes, NEW q \in Processes, p # q
               PROVE  /\ Inside(p) /\ Inside(q) => proc[p].tree # proc[q].tree
                      /\ \A r \in Runs : ~(OnRun(p, r) /\ OnRun(q, r))
    BY DEF Exclusive
  <2>1. Holds(p) /\ Holds(q)
    BY DEF Inv, Local
  <2>2. \A r \in Runs : (OnRun(p, r) => Uses(p) /\ proc[p].run = r)
                     /\ (OnRun(q, r) => Uses(q) /\ proc[q].run = r)
    BY DEF Uses, OnRun
  <2> QED
    BY <2>1, <2>2 DEF Holds
<1> QED
  BY <1>1, InvHolds, PTL

\* A continuation that is about to be recorded follows the last review of the
\* worktree, and continues the record that was read.
THEOREM ReviewIsCurrentHolds == Spec => []ReviewIsCurrent
<1>1. Inv => ReviewIsCurrent
  BY DEF Inv, Local, Knows, Reviewing, ReviewIsCurrent, At
<1> QED
  BY <1>1, InvHolds, PTL

\* No process that ended by itself leaves a lock that names it.
THEOREM NothingLeftBehindHolds == Spec => []NothingLeftBehind
<1>1. Inv => NothingLeftBehind
  BY DEF Inv, Local, Left, NothingLeftBehind, At
<1> QED
  BY <1>1, InvHolds, PTL

=============================================================================
