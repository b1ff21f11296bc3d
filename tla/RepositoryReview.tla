-------------------------- MODULE RepositoryReview --------------------------
(***************************************************************************)
(* The repository of a saved run from its last worker to its continuation: *)
(* captureRepositorySnapshot (src/src/saved-runs/snapshot.ts) at the stop, *)
(* for the continuation review and once more after it, and the comparisons *)
(* of cli.ts between them.  The captures run file by file while an editor  *)
(* works; before the stop the rename tool of the worker does too.  The     *)
(* process runner ends that tool with its worker (ProcessRunner,           *)
(* QuietAfterResult), so it is gone when the stop is recorded.             *)
(***************************************************************************)
EXTENDS RenameTool, Functions

CONSTANTS
  Order,        \* the names in the order of sort()
  Instructions, \* REPOSITORY_INSTRUCTION_FILES
  Undefined     \* a name that a snapshot does not have

ASSUME ReviewAssumption ==
  /\ Range(Order) = Names /\ IsInjective(Order)
  /\ Instructions \subseteq Roots

VARIABLES
  stage,    \* "working", "stopping", "stopped", "reviewing", "deciding",
            \* "confirming", "resumed" or "lost" (the stop was not recorded)
  at,       \* the next step of the capture in progress; "idle" without one
  enumerated,  \* the names that git listed first
  todo,     \* the names it has not come to
  details, before, content,   \* lstat, fstat and bytes of the present file
  files, observed,            \* snapshot and metadata collected so far
  saved,    \* the snapshot stored with the stop
  reviewed, \* the snapshot the operator was shown the drift of
  drift,
  \* history, read by properties only: the contents when the last capture
  \* listed the files again, and those at the stop
  atRelist, atStop

reading == <<details, before, content>>
result == <<files, observed>>
capture == <<at, enumerated, todo, reading, result>>
review == <<saved, reviewed, drift>>
moments == <<atRelist, atStop>>
vars == <<tree, tool, stage, capture, review, moments>>

NoSnapshot == <<>>
SavedHead == 0   \* repository.head of the saved run
Capturing == {"stopping", "reviewing", "confirming"}

Init ==
  /\ TreeInit /\ ToolInit
  /\ stage = "working"
  /\ at = "idle" /\ enumerated = {} /\ todo = {}
  /\ details = None /\ before = None /\ content = None
  /\ files = NoSnapshot /\ observed = NoSnapshot
  /\ saved = NoSnapshot /\ reviewed = NoSnapshot /\ drift = {}
  /\ atRelist = Contents /\ atStop = Contents

-----------------------------------------------------------------------------
(* captureRepositorySnapshot.                                              *)

\* The name the capture has come to.
Name ==
  Order[CHOOSE k \in DOMAIN Order : Order[k] \in todo /\ \A j \in 1..(k - 1) : Order[j] \notin todo]

Cleared ==
  /\ enumerated' = {} /\ todo' = {}
  /\ details' = None /\ before' = None /\ content' = None
  /\ files' = NoSnapshot /\ observed' = NoSnapshot

Begin == at' = "identity" /\ Cleared
Idle == at' = "idle" /\ Cleared

At(from, to) == stage \in Capturing /\ at = from /\ at' = to

\* captureRepositorySnapshot throws.  A stop is then not recorded; a review
\* ends the process and may be asked for again.
Throws ==
  /\ Idle
  /\ stage' = IF stage = "stopping" THEN "lost" ELSE "stopped"
  /\ reviewed' = NoSnapshot /\ drift' = {}
  /\ UNCHANGED <<saved, moments>>

\* inspectGitIdentity: HEAD must be the one of the saved run.
ReadIdentity ==
  /\ stage \in Capturing /\ at = "identity"
  /\ IF head = SavedHead
     THEN at' = "list" /\ UNCHANGED <<enumerated, todo, reading, result, stage, review, moments>>
     ELSE Throws
  /\ UNCHANGED <<tree, tool>>

\* A name per enumerated file and per root file, present or not.
ListNames ==
  /\ At("list", "look")
  /\ enumerated' = inspectGitFiles
  /\ todo' = inspectGitFiles \cup Roots
  /\ UNCHANGED <<tree, tool, stage, reading, result, review, moments>>

NextName(hash, metadata) ==
  /\ files' = [n \in DOMAIN files \cup {Name} |-> IF n = Name THEN hash ELSE files[n]]
  /\ observed' = [n \in DOMAIN observed \cup {Name} |-> IF n = Name THEN metadata ELSE observed[n]]
  /\ todo' = todo \ {Name}
  /\ details' = None /\ before' = None /\ content' = None

LookAtName ==
  /\ stage \in Capturing /\ at = "look" /\ todo # {}
  /\ \/ /\ Name \notin Present
        /\ NextName(None, None)
        /\ UNCHANGED <<at, enumerated, stage, review, moments>>
     \/ /\ Name \in Present /\ nlink(dir[Name]) = 1
        /\ details' = Stat(dir[Name]) /\ at' = "open"
        /\ UNCHANGED <<enumerated, todo, before, content, result, stage, review, moments>>
     \/ /\ Name \in Present /\ nlink(dir[Name]) # 1
        /\ Throws
  /\ UNCHANGED <<tree, tool>>

\* open and fstat; the handle stays with this inode.
OpenFile ==
  /\ stage \in Capturing /\ at = "open"
  /\ IF Name \in Present
     THEN /\ before' = Stat(dir[Name]) /\ at' = "read"
          /\ UNCHANGED <<enumerated, todo, details, content, result, stage, review, moments>>
     ELSE Throws
  /\ UNCHANGED <<tree, tool>>

ReadContent ==
  /\ At("read", "compare")
  /\ content' = inode[before.ino].content
  /\ UNCHANGED <<tree, tool, stage, enumerated, todo, details, before, result, review, moments>>

\* The handle's file against lstat and the name against the handle.
SameFile ==
  LET after == Stat(before.ino) IN
  /\ before.ino = details.ino /\ before.mtime = details.mtime
  /\ nlink(before.ino) = 1
  /\ after.mtime = before.mtime /\ after.ctime = before.ctime
  /\ Name \in Present /\ dir[Name] = before.ino

CompareFile ==
  /\ stage \in Capturing /\ at = "compare"
  /\ IF SameFile
     THEN /\ NextName(content, Stat(before.ino)) /\ at' = "look"
          /\ UNCHANGED <<enumerated, stage, review, moments>>
     ELSE Throws
  /\ UNCHANGED <<tree, tool>>

\* The files are listed again; the names are gone through once more.
Relist ==
  /\ stage \in Capturing /\ at = "look" /\ todo = {}
  /\ IF inspectGitFiles = enumerated
     THEN /\ at' = "recheck" /\ todo' = DOMAIN files /\ atRelist' = Contents
          /\ UNCHANGED <<enumerated, reading, result, stage, review, atStop>>
     ELSE Throws
  /\ UNCHANGED <<tree, tool>>

\* The second look at the metadata compares the size and mtime only.
Recheck_Bug ==
  /\ stage \in Capturing /\ at = "recheck" /\ todo # {}
  /\ LET current == IF Name \in Present THEN Stat(dir[Name]) ELSE None
     IN  IF \/ current = None /\ observed[Name] = None
            \/ current # None /\ observed[Name] # None /\ current.mtime = observed[Name].mtime
         THEN /\ todo' = todo \ {Name}
              /\ UNCHANGED <<at, enumerated, reading, result, stage, review, moments>>
         ELSE Throws
  /\ UNCHANGED <<tree, tool>>

Recheck ==
  /\ stage \in Capturing /\ at = "recheck" /\ todo # {}
  /\ LET current == IF Name \in Present THEN Stat(dir[Name]) ELSE None
     IN  IF current = observed[Name]
         THEN /\ todo' = todo \ {Name}
              /\ UNCHANGED <<at, enumerated, reading, result, stage, review, moments>>
         ELSE Throws
  /\ UNCHANGED <<tree, tool>>

\* The snapshot is returned when HEAD is still the one read first.
Captured == at = "recheck" /\ todo = {} /\ head = SavedHead

IdentityChanged ==
  /\ stage \in Capturing /\ at = "recheck" /\ todo = {} /\ ~Captured
  /\ Throws
  /\ UNCHANGED <<tree, tool>>

\* git or a call of the file system fails.
CaptureFails ==
  /\ stage \in Capturing
  /\ Throws
  /\ UNCHANGED <<tree, tool>>

-----------------------------------------------------------------------------
(* The stop and the continuation of the run.                               *)

\* The worker's call has returned, so its tool is gone with all it counted.
Stop ==
  /\ stage = "working" /\ phase = "ended"
  /\ stage' = "stopping" /\ Begin
  /\ messages' = 0 /\ renameAttempts' = 0
  /\ UNCHANGED <<tree, phase, rename, disturbed, swapped, review, moments>>

StopRecorded ==
  /\ stage = "stopping" /\ Captured
  /\ stage' = "stopped"
  /\ saved' = files /\ atStop' = atRelist
  /\ Idle
  /\ UNCHANGED <<tree, tool, reviewed, drift, atRelist>>

\* --resume
Resume ==
  /\ stage = "stopped"
  /\ stage' = "reviewing" /\ Begin
  /\ UNCHANGED <<tree, tool, review, moments>>

Entry(snapshot, n) == IF n \in DOMAIN snapshot THEN snapshot[n] ELSE Undefined

changedSnapshotPaths(previous, current) ==
  {n \in DOMAIN previous \cup DOMAIN current : Entry(previous, n) # Entry(current, n)}

\* validateSnapshotDrift: an instruction file that was there must be there.
InstructionLost(previous, current) ==
  \E n \in Instructions \cap DOMAIN previous :
    previous[n] # None /\ Entry(current, n) \in {None, Undefined}

\* The drift is shown, or the review refuses.
ShowDrift ==
  /\ stage = "reviewing" /\ Captured
  /\ IF InstructionLost(saved, files)
     THEN Throws
     ELSE /\ stage' = "deciding"
          /\ reviewed' = files /\ drift' = changedSnapshotPaths(saved, files)
          /\ Idle
          /\ UNCHANGED <<saved, moments>>
  /\ UNCHANGED <<tree, tool>>

\* The operator continues or stops here.
Continue ==
  /\ stage = "deciding"
  /\ stage' = "confirming" /\ Begin
  /\ UNCHANGED <<tree, tool, review, moments>>

Decline ==
  /\ stage = "deciding"
  /\ Throws
  /\ UNCHANGED <<tree, tool>>

\* run_resumed is appended when the repository is the one that was reviewed.
Confirm ==
  /\ stage = "confirming" /\ Captured
  /\ IF files = reviewed
     THEN /\ stage' = "resumed" /\ Idle /\ UNCHANGED <<review, moments>>
     ELSE Throws
  /\ UNCHANGED <<tree, tool>>

Captures ==
  \/ ReadIdentity \/ ListNames \/ LookAtName \/ OpenFile \/ ReadContent \/ CompareFile
  \/ Relist \/ Recheck \/ IdentityChanged \/ CaptureFails

Runs == Stop \/ StopRecorded \/ Resume \/ ShowDrift \/ Continue \/ Decline \/ Confirm

Next ==
  \/ stage = "working" /\ ToolActs /\ UNCHANGED <<stage, capture, review, moments>>
  \/ stage \notin {"resumed", "lost"} /\ EditorActs /\ UNCHANGED <<stage, capture, review, moments>>
  \/ Captures
  \/ Runs

Spec == Init /\ [][Next]_vars

-----------------------------------------------------------------------------
\* A continuation starts from files the operator was told about: a file that
\* the stop or the confirmation has and that is not in the drift that was
\* shown had the same content at both, at one moment each for all files
\* (cli.ts 539-593; docs/saved-runs-v1.md:121 "concurrent changes during
\* collection reject the snapshot").
DriftIsShown ==
  stage = "resumed" =>
    \A n \in Names \ drift :
      Entry(saved, n) \notin {None, Undefined} \/ Entry(reviewed, n) \notin {None, Undefined} =>
        atStop[n] = atRelist[n]

=============================================================================
