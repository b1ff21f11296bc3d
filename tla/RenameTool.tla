----------------------------- MODULE RenameTool -----------------------------
(***************************************************************************)
(* The private rename tool of the Claude worker: the endpoint of           *)
(* src/src/agents/claude-tools.ts, which answers one message at a time,    *)
(* and renameRepositoryFile (src/src/agents/rename.ts) call by call, with  *)
(* an editor that changes the same files and a worker that may be killed   *)
(* in the middle.                                                          *)
(***************************************************************************)
EXTENDS WorkingTree

CONSTANTS
  MaxRenames,   \* MAX_CLAUDE_RENAMES: 8
  MaxMessages   \* MAX_TOOL_MESSAGES: 64

ASSUME ToolAssumption == MaxRenames \in Nat /\ MaxMessages \in Nat

VARIABLES
  phase,      \* "new", "initializing", "ready"; "ended" when the process is gone
  messages,
  renameAttempts,
  step,       \* what the rename in progress does next; "idle" without one
  source,
  destination,
  original,   \* the source's inode when it was looked at
  \* history, read by properties only
  disturbed,  \* names an editor changed since the tool last looked at them
  swapped     \* the file that was linked is not the one that was looked at

rename == <<step, source, destination, original>>
history == <<disturbed, swapped>>
tool == <<phase, messages, renameAttempts, rename, history>>

\* relativeParts refuses AGENTS.md and other protected names.
Renamable == Names \ Roots

ToolInit ==
  /\ phase = "new" /\ messages = 0 /\ renameAttempts = 0
  /\ step = "idle" /\ source = None /\ destination = None /\ original = None
  /\ disturbed = {} /\ swapped = FALSE

-----------------------------------------------------------------------------
(* serveClaudeTools and the handler.                                       *)

\* A frame is read.  One message too many, one too long, or a line that does
\* not end ends the process.
Frame ==
  /\ phase # "ended" /\ step = "idle"
  /\ messages < MaxMessages /\ messages' = messages + 1

ProtocolEnds ==
  /\ phase # "ended" /\ step = "idle"
  /\ phase' = "ended"
  /\ UNCHANGED <<tree, messages, renameAttempts, rename, history>>

Initialize ==
  /\ Frame
  /\ phase = "new" /\ phase' = "initializing"
  /\ UNCHANGED <<tree, renameAttempts, rename, history>>

\* notifications/initialized
Initialized ==
  /\ Frame
  /\ phase = "initializing" /\ phase' = "ready"
  /\ UNCHANGED <<tree, renameAttempts, rename, history>>

\* Ping, tools/list, an unknown method or tool, invalid JSON, a second
\* initialize, a call before the connection is ready or beyond the limit, and
\* every other notification: answered or ignored, nothing changes.
OtherMessage ==
  /\ Frame
  /\ UNCHANGED <<tree, phase, renameAttempts, rename, history>>

\* tools/call of rename_file: the attempt is charged before it is made.
CallRename(m, n) ==
  /\ Frame
  /\ phase = "ready"
  /\ renameAttempts < MaxRenames /\ renameAttempts' = renameAttempts + 1
  /\ step' = "look" /\ source' = m /\ destination' = n
  /\ disturbed' = {} /\ swapped' = FALSE
  /\ UNCHANGED <<tree, phase, original>>

-----------------------------------------------------------------------------
(* renameRepositoryFile.                                                   *)

\* It returns or throws; the handler answers either way.
Answered ==
  /\ step' = "idle" /\ source' = None /\ destination' = None /\ original' = None
  /\ disturbed' = {} /\ swapped' = FALSE
  /\ UNCHANGED <<phase, messages, renameAttempts>>

\* The paths and the source are examined: a regular file with one link.
LookAtSource ==
  /\ step = "look"
  /\ IF /\ {source, destination} \subseteq Renamable /\ source # destination
        /\ source \in Present /\ nlink(dir[source]) = 1
     THEN /\ step' = "link" /\ original' = dir[source]
          /\ UNCHANGED <<phase, messages, renameAttempts, source, destination, disturbed, swapped>>
     ELSE Answered
  /\ UNCHANGED tree

\* link() is exclusive: it fails when the destination exists.
LinkDestination ==
  /\ step = "link"
  /\ IF source \in Present /\ destination \notin Present
     THEN /\ Rebind([dir EXCEPT ![destination] = dir[source]], {dir[source]})
          /\ step' = "recheck" /\ disturbed' = {} /\ swapped' = (dir[source] # original)
          /\ UNCHANGED <<phase, messages, renameAttempts, source, destination, original,
                         tracked, head, edits>>
     ELSE Answered /\ UNCHANGED tree

\* The source need only exist.
RecheckSource_Bug ==
  /\ step = "recheck"
  /\ IF source \in Present
     THEN /\ step' = "unlink" /\ disturbed' = disturbed \ {source}
          /\ UNCHANGED <<phase, messages, renameAttempts, source, destination, original, swapped>>
     ELSE Answered
  /\ UNCHANGED tree

\* The source must still be the file that was looked at; otherwise both names
\* are left as they are.
RecheckSource ==
  /\ step = "recheck"
  /\ IF source \in Present /\ dir[source] = original
     THEN /\ step' = "unlink" /\ disturbed' = disturbed \ {source}
          /\ UNCHANGED <<phase, messages, renameAttempts, source, destination, original, swapped>>
     ELSE Answered
  /\ UNCHANGED tree

UnlinkSource ==
  /\ step = "unlink"
  /\ IF source \in Present
     THEN /\ Rebind([dir EXCEPT ![source] = None], {dir[source]})
          /\ UNCHANGED <<tracked, head, edits>>
     ELSE UNCHANGED tree
  /\ Answered

\* A call of the file system fails; what was done stays for review.
CallFails == step # "idle" /\ Answered /\ UNCHANGED tree

\* The worker is killed, and the tool with it, between any two calls.
ToolKilled ==
  /\ phase # "ended" /\ phase' = "ended"
  /\ step' = "idle" /\ source' = None /\ destination' = None /\ original' = None
  /\ disturbed' = {} /\ swapped' = FALSE
  /\ UNCHANGED <<tree, messages, renameAttempts>>

ToolActs ==
  \/ ProtocolEnds \/ Initialize \/ Initialized \/ OtherMessage
  \/ \E m, n \in Names : CallRename(m, n)
  \/ LookAtSource \/ LinkDestination \/ RecheckSource \/ UnlinkSource \/ CallFails
  \/ ToolKilled

\* An editor works while the tool may be in the middle of a rename.
EditorActs ==
  /\ Edits
  /\ disturbed' = IF step = "idle" THEN {} ELSE disturbed \cup {n \in Names : dir'[n] # dir[n]}
  /\ UNCHANGED <<phase, messages, renameAttempts, rename, swapped>>

-----------------------------------------------------------------------------
\* Whenever the tool takes the last name of a file, an editor has meanwhile
\* removed the new name, or put the file under the old name after the tool
\* compared it for the last time, or replaced the file before the link and then
\* brought it back: interruption, a destination that appears, a source that is
\* replaced, and every failure leave each file a name (rename.ts 38 "never
\* replace existing data", 61-67).
ToolLosesNothing ==
  [][\A i \in Linked(dir) : i \notin Linked(dir') =>
       edits' # edits \/ disturbed # {} \/ swapped]_<<tree, tool>>

=============================================================================
