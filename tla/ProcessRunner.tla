---------------------------- MODULE ProcessRunner ----------------------------
(***************************************************************************)
(* One call of runProcess (src/src/process.ts): the child it spawns, what  *)
(* that child forks, the timeout, the abort signal and the escalation from *)
(* TERM to KILL.                                                           *)
(*                                                                         *)
(* The handlers run to completion one after another; what happens between  *)
(* two of them is up to the operating system and to the processes of the   *)
(* group, which may fork, close their output, ignore TERM or exit.  Output *)
(* is left out: it decides nothing here except when 'close' is emitted,    *)
(* which is when nobody holds the pipes any more.                          *)
(***************************************************************************)
EXTENDS FiniteSets

CONSTANT Descendants  \* processes the child may fork, directly or not

ASSUME RunnerAssumption == "child" \notin Descendants

VARIABLES
  posix,     \* useProcessGroup
  phase,     \* "called", "unspawned" (the error event is queued) or "spawned"
  alive,     \* the child and the descendants that run
  group,     \* those of them in the child's process group
  holding,   \* those of them that hold the output pipes
  signalled, \* history: runProcess has sent one of them a signal; no guard reads it
  aborted,   \* options.signal.aborted
  listening, \* the abort listener is registered
  timeout,   \* the timeout timer is armed
  grace,     \* forceKillTimeout is armed
  timedOut, cancelled, closed,
  outcome    \* "pending", "resolved" or "rejected" (settled: not pending)

processes == <<alive, group, holding, signalled>>
flags == <<timedOut, cancelled, closed>>
vars == <<posix, phase, processes, aborted, listening, timeout, grace, flags, outcome>>

Procs == {"child"} \cup Descendants

Init ==
  /\ posix \in BOOLEAN
  /\ phase = "called"
  /\ alive = {} /\ group = {} /\ holding = {} /\ signalled = FALSE
  /\ aborted \in BOOLEAN
  /\ listening = FALSE /\ timeout = FALSE /\ grace = FALSE
  /\ timedOut = FALSE /\ cancelled = FALSE /\ closed = FALSE
  /\ outcome = "pending"

-----------------------------------------------------------------------------
(* Signals and the result.                                                 *)

Survive(procs) == alive' = procs /\ group' = group \cap procs /\ holding' = holding \cap procs

\* The whole group, or on Windows the child only.
Targets == IF posix THEN group ELSE alive \cap {"child"}

\* A signal is sent to all that are in reach, and ends the victims.
Signal(victims) ==
  /\ Survive(alive \ victims)
  /\ signalled' = (signalled \/ Targets # {})

\* A process may handle or ignore TERM.
SendTerm == \E victims \in SUBSET Targets : Signal(victims)

\* Only the child is killed.
SendKill_Bug == Signal({"child"})
SendKill == Signal(Targets)

\* finish() drops the escalation once the child has closed.
Finish_Bug(isClosed, escalating) ==
  IF outcome = "pending" /\ isClosed
  THEN /\ outcome' = "resolved"
       /\ timeout' = FALSE /\ listening' = FALSE /\ grace' = FALSE
  ELSE grace' = escalating /\ UNCHANGED <<outcome, timeout, listening>>

\* finish() leaves the timers and the listener alone.
Untidy_Bug(isClosed, escalating) ==
  /\ outcome' = IF outcome = "pending" /\ isClosed /\ ~escalating THEN "resolved" ELSE outcome
  /\ grace' = escalating
  /\ UNCHANGED <<timeout, listening>>

\* finish(): the promise resolves once the child has closed and no escalation
\* is pending.
Finish(isClosed, escalating) ==
  /\ grace' = escalating
  /\ IF outcome = "pending" /\ isClosed /\ ~escalating
     THEN outcome' = "resolved" /\ timeout' = FALSE /\ listening' = FALSE
     ELSE UNCHANGED <<outcome, timeout, listening>>

\* terminate(): TERM now and KILL after the grace period.
Terminate ==
  IF grace \/ outcome # "pending" THEN UNCHANGED <<processes, grace>>
  ELSE SendTerm /\ grace' = TRUE

-----------------------------------------------------------------------------
(* The call and its event handlers.                                        *)

\* An aborted signal spawns nothing.
CancelledBeforeSpawn ==
  /\ phase = "called" /\ aborted /\ outcome = "pending"
  /\ cancelled' = TRUE /\ outcome' = "resolved"
  /\ UNCHANGED <<posix, phase, processes, aborted, listening, timeout, grace, timedOut, closed>>

Spawn ==
  /\ phase = "called" /\ ~aborted
  /\ phase' = "spawned"
  /\ alive' = {"child"} /\ group' = alive' /\ holding' = alive'
  /\ timeout' = TRUE /\ listening' = TRUE
  /\ UNCHANGED <<posix, signalled, aborted, grace, flags, outcome>>

\* spawn reports the failure by an event, after the timers are set.
SpawnFails ==
  /\ phase = "called" /\ ~aborted
  /\ phase' = "unspawned"
  /\ timeout' = TRUE /\ listening' = TRUE
  /\ UNCHANGED <<posix, processes, aborted, grace, flags, outcome>>

\* 'error': the next tick, before any timer or signal is handled.
ErrorEvent ==
  /\ phase = "unspawned" /\ outcome = "pending"
  /\ outcome' = "rejected"
  /\ timeout' = FALSE /\ grace' = FALSE /\ listening' = FALSE
  /\ UNCHANGED <<posix, phase, processes, aborted, flags>>

\* The signal fires at any time; abort() runs if it is still registered.
Abort ==
  /\ phase # "unspawned" /\ ~aborted
  /\ aborted' = TRUE
  /\ IF listening
     THEN cancelled' = TRUE /\ timeout' = FALSE /\ listening' = FALSE /\ Terminate
     ELSE UNCHANGED <<cancelled, timeout, listening, processes, grace>>
  /\ UNCHANGED <<posix, phase, timedOut, closed, outcome>>

\* A time-out that comes after the child has exited is not counted.
TimeoutFires_Bug ==
  /\ phase = "spawned" /\ timeout
  /\ timeout' = FALSE /\ timedOut' = ("child" \in alive)
  /\ Terminate
  /\ UNCHANGED <<posix, phase, aborted, listening, cancelled, closed, outcome>>

TimeoutFires ==
  /\ phase = "spawned" /\ timeout
  /\ timeout' = FALSE /\ timedOut' = TRUE
  /\ Terminate
  /\ UNCHANGED <<posix, phase, aborted, listening, cancelled, closed, outcome>>

\* After FORCE_KILL_GRACE_MS.
GraceEnds ==
  /\ grace
  /\ SendKill /\ Finish(closed, FALSE)
  /\ UNCHANGED <<posix, phase, aborted, flags>>

\* 'close': the child exited and every copy of its output pipes is closed.
CloseEvent ==
  /\ phase = "spawned" /\ ~closed
  /\ "child" \notin alive /\ holding = {}
  /\ closed' = TRUE
  /\ Finish(TRUE, grace)
  /\ UNCHANGED <<posix, phase, processes, aborted, timedOut, cancelled>>

-----------------------------------------------------------------------------
(* The processes.                                                          *)

Fork(p, d) ==
  /\ p \in alive /\ d \in Descendants \ alive
  /\ alive' = alive \cup {d}
  /\ group' = IF p \in group THEN group \cup {d} ELSE group
  /\ holding' = IF p \in holding THEN holding \cup {d} ELSE holding

CloseOutput(p) == p \in holding /\ holding' = holding \ {p} /\ UNCHANGED <<alive, group>>

\* setsid.  The child leads its group and cannot leave it.
LeaveGroup(d) ==
  /\ d \in group \cap Descendants
  /\ group' = group \ {d} /\ UNCHANGED <<alive, holding>>

Exit(p) == p \in alive /\ Survive(alive \ {p})

ProcessStep ==
  /\ \E p \in Procs : CloseOutput(p) \/ LeaveGroup(p) \/ Exit(p) \/ \E d \in Descendants : Fork(p, d)
  /\ UNCHANGED <<posix, phase, signalled, aborted, listening, timeout, grace, flags, outcome>>

Runner ==
  CancelledBeforeSpawn \/ Spawn \/ SpawnFails \/ ErrorEvent \/ TimeoutFires \/ GraceEnds \/ CloseEvent

Next == Runner \/ Abort \/ ProcessStep

Spec == Init /\ [][Next]_vars

-----------------------------------------------------------------------------
TypeOK ==
  /\ posix \in BOOLEAN /\ phase \in {"called", "unspawned", "spawned"}
  /\ alive \subseteq Procs /\ group \subseteq alive /\ holding \subseteq alive
  /\ signalled \in BOOLEAN /\ aborted \in BOOLEAN /\ listening \in BOOLEAN
  /\ timeout \in BOOLEAN /\ grace \in BOOLEAN
  /\ timedOut \in BOOLEAN /\ cancelled \in BOOLEAN /\ closed \in BOOLEAN
  /\ outcome \in {"pending", "resolved", "rejected"}

\* A call that timed out or was cancelled does not return while anything in
\* its reach still runs, even a descendant that ignored TERM, closed its pipes
\* and outlived the child: no edit follows the result (the comment in
\* terminate; README.md on process groups).
NoSurvivors == outcome = "resolved" /\ (timedOut \/ cancelled) => Targets = {}

\* Once the promise is settled no timer or listener of the call is left that
\* could signal a process group whose number was given to another process
\* (clearTimeout and removeEventListener in finish and in the error handler).
QuietAfterResult == outcome # "pending" => ~timeout /\ ~grace /\ ~listening

=============================================================================
