------------------------ MODULE RepositoryReviewProofs ------------------------
(***************************************************************************)
(* The rename tool loses no file, for any names, any number of changes by  *)
(* an editor and any limits.  What makes its unlink safe is where the two  *)
(* names lead: from the link on the new name leads to the file that was    *)
(* looked at, and from the second look on the old one does too, as long as *)
(* no editor changed them since (Holds).                                   *)
(*                                                                         *)
(* And a capture that runs file by file beside an editor is the state of   *)
(* all files at one moment, when they were listed again.  No change takes  *)
(* back a ctime: a file that still has the ctime it was read with has the  *)
(* content that was read (Vouches), and a name that leads to it at the     *)
(* second look led there at the listing (RecheckOK).                       *)
(***************************************************************************)
EXTENDS RepositoryReview, TLAPS

Linking == step \in {"recheck", "unlink"}

TreeOK == dir \in [Names -> Inodes \cup {None}] /\ edits \in Nat

RequestOK ==
  /\ step \in {"link", "recheck", "unlink"} =>
       source \in Names /\ destination \in Names /\ source # destination
  /\ Linking => original \in Inodes
  /\ step = "link" => original \in Inodes

Holds ==
  /\ Linking /\ ~swapped /\ destination \notin disturbed => dir[destination] = original
  /\ step = "unlink" /\ source \notin disturbed => dir[source] = original

ToolInv == TreeOK /\ RequestOK /\ Holds

LEMMA ToolInvInit == Init => ToolInv
<1> SUFFICES ASSUME Init PROVE ToolInv
  OBVIOUS
<1>1. dir \in [Names -> Inodes \cup {None}] /\ edits = 0 /\ step = "idle"
  BY DEF Init, TreeInit, ToolInit
<1> QED
  BY <1>1 DEF ToolInv, TreeOK, RequestOK, Holds, Linking

\* A step of the project is one of the tool, one of the editor, or leaves the
\* files and the rename in progress alone.
LEMMA WhoActs ==
  ASSUME [Next]_vars
  PROVE  ToolActs \/ EditorActs \/ UNCHANGED <<tree, rename, history>>
<1>1. CASE Captures
  <2>1. UNCHANGED <<tree, tool>>
    BY <1>1 DEF Captures, ReadIdentity, ListNames, LookAtName, OpenFile, ReadContent, CompareFile,
                Relist, Recheck, IdentityChanged, CaptureFails, tool
  <2> QED
    BY <2>1 DEF tool, history
<1>2. CASE Runs
  BY <1>2 DEF Runs, Stop, StopRecorded, Resume, ShowDrift, Continue, Decline, Confirm, tool, history
<1>3. CASE UNCHANGED vars
  BY <1>3 DEF vars, tool
<1> QED
  BY <1>1, <1>2, <1>3 DEF Next

\* Every change of the editor counts, and changes only names it disturbs.
LEMMA EditorStep ==
  ASSUME ToolInv, EditorActs
  PROVE  /\ TreeOK' /\ edits' = edits + 1
         /\ UNCHANGED <<rename, swapped>>
         /\ step # "idle" => \A n \in Names \ disturbed' : dir'[n] = dir[n]
<1>1. edits' = edits + 1 /\ edits' \in Nat
  BY DEF EditorActs, Edits, ToolInv, TreeOK
<1>2. dir' \in [Names -> Inodes \cup {None}]
  <2>1. CASE \E n \in Names, b \in BOOLEAN : Write(n, b)
    BY <2>1 DEF Write, ToolInv, TreeOK
  <2>2. CASE \E n \in Names, i \in Inodes : Save(n, i)
    BY <2>2 DEF Save, ToolInv, TreeOK
  <2>3. CASE \E n \in Names : Delete(n)
    BY <2>3 DEF Delete, Rebind, ToolInv, TreeOK
  <2>4. CASE \E m, n \in Names : Move(m, n)
    BY <2>4 DEF Move, Rebind, ToolInv, TreeOK
  <2>5. CASE Commit
    BY <2>5 DEF Commit, ToolInv, TreeOK
  <2> QED
    BY <2>1, <2>2, <2>3, <2>4, <2>5 DEF EditorActs, Edits
<1>3. UNCHANGED <<rename, swapped>>
  BY DEF EditorActs
<1>4. step # "idle" => \A n \in Names \ disturbed' : dir'[n] = dir[n]
  BY DEF EditorActs
<1> QED
  BY <1>1, <1>2, <1>3, <1>4 DEF TreeOK


\* An editor's step keeps the invariant: a name it changes is disturbed.
LEMMA EditorKeeps ==
  ASSUME ToolInv, EditorActs
  PROVE  ToolInv'
<1>1. TreeOK' /\ UNCHANGED <<rename, swapped>>
  BY EditorStep
<1>2. RequestOK'
  BY <1>1 DEF rename, ToolInv, RequestOK, Linking
<1>3. Holds'
  <2>1. SUFFICES ASSUME step # "idle" PROVE Holds'
    BY <1>1 DEF Holds, Linking, rename
  <2>2. disturbed \subseteq disturbed'
    BY <2>1 DEF EditorActs
  <2>3. \A n \in Names \ disturbed' : dir'[n] = dir[n]
    BY <2>1, EditorStep
  <2> QED
    BY <1>1, <2>2, <2>3 DEF Holds, Linking, rename, ToolInv, RequestOK
<1> QED
  BY <1>1, <1>2, <1>3 DEF ToolInv

\* An idle tool has nothing to keep.
LEMMA AnsweredKeeps ==
  ASSUME TreeOK', step' = "idle"
  PROVE  ToolInv'
BY DEF ToolInv, RequestOK, Holds, Linking

\* The first look finds an inode and two different names.
LEMMA LookKeeps ==
  ASSUME ToolInv, LookAtSource
  PROVE  ToolInv' /\ UNCHANGED <<dir, edits>>
<1>1. UNCHANGED <<dir, edits>> /\ TreeOK'
  BY DEF LookAtSource, tree, ToolInv, TreeOK
<1>2. CASE Answered
  BY <1>1, <1>2, AnsweredKeeps DEF Answered
<1>3. CASE ~Answered
  <2>1. /\ step' = "link" /\ original' = dir[source]
        /\ UNCHANGED <<source, destination>>
        /\ source \in Present /\ source \in Names /\ destination \in Names /\ source # destination
    BY <1>3 DEF LookAtSource, Renamable
  <2>2. dir[source] \in Inodes
    BY <2>1 DEF Present, ToolInv, TreeOK
  <2> QED
    BY <1>1, <2>1, <2>2 DEF ToolInv, RequestOK, Holds, Linking
<1> QED
  BY <1>2, <1>3

\* The link adds a name, and takes none.
LEMMA LinkKeeps ==
  ASSUME ToolInv, LinkDestination
  PROVE  /\ ToolInv' /\ edits' = edits
         /\ \A n \in Present : dir'[n] = dir[n]
<1>1. CASE Answered /\ UNCHANGED tree
  <2>1. TreeOK' /\ UNCHANGED <<dir, edits>>
    BY <1>1 DEF tree, ToolInv, TreeOK
  <2> QED
    BY <1>1, <2>1, AnsweredKeeps DEF Answered
<1>2. CASE ~(Answered /\ UNCHANGED tree)
  <2>1. /\ source \in Present /\ destination \notin Present
        /\ dir' = [dir EXCEPT ![destination] = dir[source]]
        /\ step' = "recheck" /\ swapped' = (dir[source] # original)
        /\ UNCHANGED <<source, destination, original, edits>>
    BY <1>2 DEF LinkDestination, Rebind
  <2>2. /\ source \in Names /\ destination \in Names /\ source # destination
        /\ original \in Inodes /\ step = "link"
    BY DEF ToolInv, RequestOK, LinkDestination
  <2>3. dir[source] \in Inodes
    BY <2>1, <2>2 DEF Present, ToolInv, TreeOK
  <2>4. TreeOK'
    BY <2>1, <2>2, <2>3 DEF ToolInv, TreeOK
  <2>5. dir'[destination] = dir[source]
    BY <2>1, <2>2 DEF ToolInv, TreeOK
  <2>6. \A n \in Present : dir'[n] = dir[n]
    BY <2>1, <2>2 DEF Present, ToolInv, TreeOK
  <2> QED
    BY <2>1, <2>2, <2>4, <2>5, <2>6 DEF ToolInv, RequestOK, Holds, Linking
<1> QED
  BY <1>1, <1>2

\* The second look: the old name leads to the file that was looked at.
LEMMA RecheckKeeps ==
  ASSUME ToolInv, RecheckSource
  PROVE  ToolInv' /\ UNCHANGED <<dir, edits>>
<1>1. UNCHANGED <<dir, edits>> /\ TreeOK'
  BY DEF RecheckSource, tree, ToolInv, TreeOK
<1>2. CASE Answered
  BY <1>1, <1>2, AnsweredKeeps DEF Answered
<1>3. CASE ~Answered
  BY <1>1, <1>3 DEF RecheckSource, ToolInv, RequestOK, Holds, Linking
<1> QED
  BY <1>2, <1>3

\* The unlink takes a name of a file that keeps the other one.
LEMMA UnlinkKeeps ==
  ASSUME ToolInv, UnlinkSource
  PROVE  /\ ToolInv' /\ edits' = edits
         /\ \A i \in Linked(dir) : i \notin Linked(dir') => disturbed # {} \/ swapped
<1>1. step' = "idle" /\ step = "unlink"
  BY DEF UnlinkSource, Answered
<1>2. CASE UNCHANGED tree
  <2>1. TreeOK' /\ UNCHANGED <<dir, edits>>
    BY <1>2 DEF tree, ToolInv, TreeOK
  <2> QED
    BY <1>1, <2>1, AnsweredKeeps DEF Linked
<1>3. CASE ~UNCHANGED tree
  <2>1. dir' = [dir EXCEPT ![source] = None] /\ edits' = edits
    BY <1>3 DEF UnlinkSource, Rebind
  <2>2. source \in Names /\ destination \in Names /\ source # destination /\ original \in Inodes
    BY <1>1 DEF ToolInv, RequestOK, Linking
  <2>3. TreeOK'
    BY <2>1 DEF ToolInv, TreeOK
  <2>4. SUFFICES ASSUME NEW i \in Linked(dir), i \notin Linked(dir'), disturbed = {}, ~swapped
                 PROVE  FALSE
    BY <1>1, <2>1, <2>3, AnsweredKeeps
  <2>5. PICK n \in Names : dir[n] = i /\ i # None
    BY <2>4 DEF Linked
  <2>6. \A m \in Names \ {source} : dir'[m] = dir[m]
    BY <2>1 DEF ToolInv, TreeOK
  <2>7. n = source
    BY <2>4, <2>5, <2>6 DEF Linked
  <2>8. dir[destination] = original /\ dir[source] = original
    BY <1>1, <2>4 DEF ToolInv, Holds, Linking
  <2>9. dir'[destination] = i
    BY <2>2, <2>5, <2>6, <2>7, <2>8
  <2> QED
    BY <2>2, <2>4, <2>5, <2>9 DEF Linked
<1> QED
  BY <1>2, <1>3

\* Everything else the tool does leaves the files alone and the rename as it
\* is, begins one or ends it.
LEMMA MessageKeeps ==
  ASSUME ToolInv,
         \/ ProtocolEnds \/ Initialize \/ Initialized \/ OtherMessage \/ CallFails \/ ToolKilled
         \/ \E m, n \in Names : CallRename(m, n)
  PROVE  ToolInv' /\ UNCHANGED <<dir, edits>>
<1>1. UNCHANGED <<dir, edits>> /\ TreeOK'
  BY DEF ProtocolEnds, Initialize, Initialized, OtherMessage, CallFails, ToolKilled, CallRename,
         tree, ToolInv, TreeOK
<1>2. CASE UNCHANGED <<rename, history>>
  BY <1>1, <1>2 DEF rename, history, ToolInv, RequestOK, Holds, Linking
<1>3. CASE step' = "idle"
  BY <1>1, <1>3, AnsweredKeeps
<1>4. CASE step' = "look"
  BY <1>1, <1>4 DEF ToolInv, RequestOK, Holds, Linking
<1> QED
  BY <1>2, <1>3, <1>4 DEF ProtocolEnds, Initialize, Initialized, OtherMessage, CallFails,
     ToolKilled, CallRename, Answered

\* A step of the tool keeps the invariant, and takes the last name of a file
\* only when an editor came in between.
LEMMA ToolStep ==
  ASSUME ToolInv, ToolActs
  PROVE  /\ ToolInv' /\ edits' = edits
         /\ \A i \in Linked(dir) : i \notin Linked(dir') => disturbed # {} \/ swapped
<1>1. CASE \/ ProtocolEnds \/ Initialize \/ Initialized \/ OtherMessage \/ CallFails \/ ToolKilled
           \/ \E m, n \in Names : CallRename(m, n)
  BY <1>1, MessageKeeps DEF Linked
<1>2. CASE LookAtSource
  BY <1>2, LookKeeps DEF Linked
<1>3. CASE LinkDestination
  BY <1>3, LinkKeeps DEF Linked, Present
<1>4. CASE RecheckSource
  BY <1>4, RecheckKeeps DEF Linked
<1>5. CASE UnlinkSource
  BY <1>5, UnlinkKeeps
<1> QED
  BY <1>1, <1>2, <1>3, <1>4, <1>5 DEF ToolActs

\* Every step keeps the invariant.
LEMMA ToolInvStep == ToolInv /\ [Next]_vars => ToolInv'
<1> SUFFICES ASSUME ToolInv, [Next]_vars PROVE ToolInv'
  OBVIOUS
<1>1. CASE UNCHANGED <<tree, rename, history>>
  BY <1>1 DEF tree, rename, history, ToolInv, TreeOK, RequestOK, Holds, Linking
<1> QED
  BY <1>1, WhoActs, ToolStep, EditorKeeps

-----------------------------------------------------------------------------
\* Whatever editors do to the names, and whenever the tool is killed or fails:
\* it takes the last name of a file only after an editor changed one of the two
\* names behind its back (rename.ts 38-80).
THEOREM ToolLosesNothingHolds == Spec => ToolLosesNothing
<1>1. ASSUME ToolInv, [Next]_vars
      PROVE  [\A i \in Linked(dir) : i \notin Linked(dir') =>
                edits' # edits \/ disturbed # {} \/ swapped]_<<tree, tool>>
  <2>1. CASE UNCHANGED <<tree, rename, history>>
    BY <2>1 DEF tree, Linked
  <2>2. CASE ToolActs
    BY <1>1, <2>2, ToolStep
  <2>3. CASE EditorActs
    <3>1. edits' = edits + 1 /\ edits \in Nat
      BY <1>1, <2>3, EditorStep DEF ToolInv, TreeOK
    <3> QED
      BY <3>1
  <2> QED
    BY <1>1, <2>1, <2>2, <2>3, WhoActs
<1> QED
  BY <1>1, ToolInvInit, ToolInvStep, PTL DEF Spec, ToolLosesNothing

-----------------------------------------------------------------------------
(* Captures.                                                               *)

Metadata == [ino : Inodes, mtime : Nat, ctime : Nat]

\* No stamp is from the future.
StampsOK ==
  /\ dir \in [Names -> Inodes \cup {None}]
  /\ inode \in [Inodes -> [content : Nat, mtime : Nat, ctime : Nat]]
  /\ clock \in Nat
  /\ \A i \in Inodes : inode[i].ctime <= clock

\* As long as the file still has this ctime, it has this content.
Vouches(stat, value) ==
  /\ stat \in Metadata /\ stat.ctime <= clock
  /\ inode[stat.ino].ctime = stat.ctime => inode[stat.ino].content = value

\* The file in hand: what was read is what the handle's metadata vouch for.
HandleOK ==
  /\ at \in {"read", "compare"} => before \in Metadata /\ before.ctime <= clock
  /\ at = "compare" => Vouches(before, content)

\* What was collected.
CollectedOK ==
  /\ DOMAIN observed = DOMAIN files
  /\ \A n \in DOMAIN files : files[n] # None => Vouches(observed[n], files[n])

\* The second pass: a name that leads to the observed file with the observed
\* ctime has led there since the files were listed again.
RecheckOK ==
  at = "recheck" =>
    \A n \in Names \cap DOMAIN files :
      files[n] # None =>
        /\ dir[n] = observed[n].ino /\ inode[dir[n]].ctime = observed[n].ctime =>
             atRelist[n] = files[n]
        /\ n \notin todo => atRelist[n] = files[n]

CaptureInv == StampsOK /\ HandleOK /\ CollectedOK /\ RecheckOK

\* What the snapshots of the stop and of the review say.
ReviewOK ==
  /\ \A n \in Names \cap DOMAIN saved : saved[n] # None => saved[n] = atStop[n]
  /\ stage \in {"deciding", "confirming", "resumed"} =>
       drift = changedSnapshotPaths(saved, reviewed)
  /\ stage = "resumed" =>
       \A n \in Names \cap DOMAIN reviewed : reviewed[n] # None => reviewed[n] = atRelist[n]

\* What any change of the tree does: a file whose ctime is not newer than the
\* stamps given out before has the content it had, and no name has come to lead
\* to it.
Stamped ==
  /\ clock' \in Nat /\ clock <= clock'
  /\ \A i \in Inodes : inode'[i].ctime <= clock => inode'[i] = inode[i]
  /\ \A n \in Names : dir'[n] \in Inodes /\ inode'[dir'[n]].ctime <= clock => dir'[n] = dir[n]

LEMMA ReboundIsStamped ==
  ASSUME StampsOK, NEW d \in [Names -> Inodes \cup {None}], NEW touched, Rebind(d, touched),
         \A n \in Names : d[n] # dir[n] => d[n] = None \/ d[n] \in touched
  PROVE  StampsOK' /\ Stamped
<1>1. /\ clock' = clock + 1 /\ dir' = d
      /\ \A i \in Inodes :
           inode'[i] = IF i \in touched THEN [inode[i] EXCEPT !.ctime = clock + 1] ELSE inode[i]
      /\ inode' = [i \in Inodes |-> inode'[i]]
  BY DEF Rebind
<1>2. \A i \in Inodes : /\ inode'[i] \in [content : Nat, mtime : Nat, ctime : Nat]
                        /\ inode'[i] = inode[i] \/ (i \in touched /\ inode'[i].ctime = clock + 1)
                        /\ i \in touched => inode'[i].ctime = clock + 1
                        /\ inode'[i].ctime <= clock + 1
  BY <1>1 DEF StampsOK
<1>3. StampsOK'
  BY <1>1, <1>2 DEF StampsOK
<1>4. \A i \in Inodes : inode'[i].ctime <= clock => inode'[i] = inode[i] /\ i \notin touched
  BY <1>2 DEF StampsOK
<1>5. \A n \in Names : dir'[n] \in Inodes /\ inode'[dir'[n]].ctime <= clock => dir'[n] = dir[n]
  BY <1>1, <1>4, TreeAssumption DEF StampsOK
<1>6. clock' \in Nat /\ clock <= clock'
  BY <1>1 DEF StampsOK
<1> QED
  BY <1>3, <1>4, <1>5, <1>6 DEF Stamped

LEMMA EditorStamps ==
  ASSUME StampsOK, EditorActs
  PROVE  StampsOK' /\ Stamped
<1>1. ASSUME NEW n \in Names, NEW b \in BOOLEAN, Write(n, b) PROVE StampsOK' /\ Stamped
  <2>1. /\ dir' = dir /\ clock' = clock + 1 /\ dir[n] \in Inodes
        /\ \A i \in Inodes : i # dir[n] => inode'[i] = inode[i]
        /\ inode'[dir[n]] \in [content : Nat, mtime : Nat, ctime : Nat]
        /\ inode'[dir[n]].ctime = clock + 1
        /\ inode' \in [Inodes -> [content : Nat, mtime : Nat, ctime : Nat]]
    BY <1>1 DEF Write, Present, StampsOK
  <2> QED
    BY <2>1 DEF StampsOK, Stamped
<1>2. ASSUME NEW n \in Names, NEW j \in Inodes, Save(n, j) PROVE StampsOK' /\ Stamped
  <2>1. /\ dir' \in [Names -> Inodes \cup {None}] /\ clock' = clock + 1 /\ dir'[n] = j
        /\ \A m \in Names : m # n => dir'[m] = dir[m]
        /\ \A i \in Inodes : i # j => inode'[i] = inode[i]
        /\ inode'[j].ctime = clock + 1
        /\ inode' \in [Inodes -> [content : Nat, mtime : Nat, ctime : Nat]]
    BY <1>2 DEF Save, StampsOK
  <2> QED
    BY <2>1 DEF StampsOK, Stamped
<1>3. ASSUME NEW n \in Names, Delete(n) PROVE StampsOK' /\ Stamped
  <2> DEFINE d == [dir EXCEPT ![n] = None]
  <2>1. d \in [Names -> Inodes \cup {None}] /\ \A m \in Names : d[m] # dir[m] => d[m] = None
    BY DEF StampsOK
  <2>2. Rebind(d, {dir[n]})
    BY <1>3 DEF Delete
  <2> HIDE DEF d
  <2> QED
    BY <2>1, <2>2, ReboundIsStamped
<1>4. ASSUME NEW m \in Names, NEW n \in Names, Move(m, n) PROVE StampsOK' /\ Stamped
  <2> DEFINE d == [dir EXCEPT ![n] = dir[m], ![m] = None]
             touched == {dir[m]}
  <2>1. /\ d \in [Names -> Inodes \cup {None}]
        /\ \A k \in Names : d[k] # dir[k] => d[k] = None \/ d[k] \in touched
    BY DEF StampsOK
  <2>2. Rebind(d, touched)
    BY <1>4 DEF Move
  <2> HIDE DEF d, touched
  <2> QED
    BY <2>1, <2>2, ReboundIsStamped
<1>5. ASSUME Commit PROVE StampsOK' /\ Stamped
  BY <1>5 DEF Commit, StampsOK, Stamped
<1> QED
  BY <1>1, <1>2, <1>3, <1>4, <1>5 DEF EditorActs, Edits

LEMMA ToolStamps ==
  ASSUME StampsOK, ToolInv, ToolActs
  PROVE  StampsOK' /\ Stamped
<1>1. CASE UNCHANGED tree
  BY <1>1 DEF tree, StampsOK, Stamped
<1>2. ASSUME LinkDestination, ~UNCHANGED tree PROVE StampsOK' /\ Stamped
  <2> DEFINE d == [dir EXCEPT ![destination] = dir[source]]
             touched == {dir[source]}
  <2>1. step = "link" /\ source \in Names /\ destination \in Names /\ Rebind(d, touched)
    BY <1>2 DEF LinkDestination, ToolInv, RequestOK
  <2>2. /\ d \in [Names -> Inodes \cup {None}]
        /\ \A k \in Names : d[k] # dir[k] => d[k] = None \/ d[k] \in touched
    BY <2>1 DEF StampsOK
  <2> HIDE DEF d, touched
  <2> QED
    BY <2>1, <2>2, ReboundIsStamped
<1>3. ASSUME UnlinkSource, ~UNCHANGED tree PROVE StampsOK' /\ Stamped
  <2> DEFINE d == [dir EXCEPT ![source] = None]
             touched == {dir[source]}
  <2>1. Rebind(d, touched)
    BY <1>3 DEF UnlinkSource
  <2>2. /\ d \in [Names -> Inodes \cup {None}]
        /\ \A k \in Names : d[k] # dir[k] => d[k] = None \/ d[k] \in touched
    BY DEF StampsOK
  <2> HIDE DEF d, touched
  <2> QED
    BY <2>1, <2>2, ReboundIsStamped
<1> QED
  BY <1>1, <1>2, <1>3 DEF ToolActs, ProtocolEnds, Initialize, Initialized, OtherMessage, CallRename,
     LookAtSource, RecheckSource, CallFails, ToolKilled, Frame

\* Changes of the tree leave what a capture knows as it is.
LEMMA CaptureKept ==
  ASSUME CaptureInv, StampsOK', Stamped, UNCHANGED <<capture, moments>>
  PROVE  CaptureInv'
<1>1. UNCHANGED <<at, todo, before, content, files, observed, atRelist>>
  BY DEF capture, reading, result, moments
<1>2. ASSUME NEW stat, NEW value, Vouches(stat, value)
      PROVE  /\ stat \in Metadata /\ stat.ctime <= clock'
             /\ inode'[stat.ino].ctime = stat.ctime => inode'[stat.ino].content = value
  <2>1. /\ stat \in Metadata /\ stat.ino \in Inodes /\ stat.ctime \in Nat /\ stat.ctime <= clock
        /\ inode[stat.ino].ctime = stat.ctime => inode[stat.ino].content = value
    BY <1>2 DEF Vouches, Metadata
  <2>2. stat.ctime <= clock'
    BY <2>1 DEF Stamped, StampsOK, CaptureInv
  <2>3. inode'[stat.ino].ctime = stat.ctime => inode'[stat.ino] = inode[stat.ino]
    BY <2>1 DEF Stamped
  <2> QED
    BY <2>1, <2>2, <2>3
<1>3. HandleOK'
  <2>1. at = "compare" => Vouches(before, content)
    BY DEF CaptureInv, HandleOK
  <2>2. at = "compare" => Vouches(before, content)'
    BY <2>1, <1>1, <1>2 DEF Vouches
  <2>3. at \in {"read", "compare"} => before \in Metadata /\ before.ctime <= clock'
    <3> SUFFICES ASSUME at \in {"read", "compare"}
                 PROVE  before \in Metadata /\ before.ctime <= clock'
      OBVIOUS
    <3>1. before \in Metadata /\ before.ctime <= clock
      BY DEF CaptureInv, HandleOK
    <3>2. before.ctime \in Nat
      BY <3>1 DEF Metadata
    <3> QED
      BY <3>1, <3>2 DEF Stamped, StampsOK, CaptureInv
  <2> QED
    BY <1>1, <2>2, <2>3 DEF HandleOK
<1>4. CollectedOK'
  <2>1. \A n \in DOMAIN files : files[n] # None => Vouches(observed[n], files[n])
    BY DEF CaptureInv, CollectedOK
  <2>2. \A n \in DOMAIN files : files[n] # None => Vouches(observed[n], files[n])'
    BY <2>1, <1>1, <1>2 DEF Vouches
  <2> QED
    BY <1>1, <2>2 DEF CaptureInv, CollectedOK
<1>5. RecheckOK'
  <2> SUFFICES ASSUME at = "recheck", NEW n \in Names \cap DOMAIN files, files[n] # None,
                      dir'[n] = observed[n].ino, inode'[dir'[n]].ctime = observed[n].ctime
               PROVE  atRelist[n] = files[n]
    BY <1>1 DEF RecheckOK, CaptureInv
  <2>1. observed[n] \in Metadata /\ observed[n].ctime <= clock
    BY DEF CaptureInv, CollectedOK, Vouches
  <2>2. dir'[n] \in Inodes /\ inode'[dir'[n]].ctime <= clock
    BY <2>1 DEF Metadata
  <2>3. dir'[n] = dir[n] /\ inode'[dir'[n]] = inode[dir'[n]]
    BY <2>2 DEF Stamped
  <2> QED
    BY <2>3 DEF CaptureInv, RecheckOK
<1> QED
  BY <1>3, <1>4, <1>5 DEF CaptureInv

LEMMA ClearedKeeps ==
  ASSUME StampsOK', Cleared, at' \in {"identity", "idle"}
  PROVE  CaptureInv'
<1>1. DOMAIN files' = {} /\ DOMAIN observed' = {}
  BY DEF Cleared, NoSnapshot
<1> QED
  BY <1>1 DEF CaptureInv, HandleOK, CollectedOK, RecheckOK

\* A name is recorded with metadata that vouch for its content, or as absent.
LEMMA NextNameKeeps ==
  ASSUME CaptureInv, NEW hash, NEW metadata, NextName(hash, metadata), at' = "look",
         hash # None => Vouches(metadata, hash), UNCHANGED tree
  PROVE  CaptureInv'
<1>1. /\ files' = [n \in DOMAIN files \cup {Name} |-> IF n = Name THEN hash ELSE files[n]]
      /\ observed' = [n \in DOMAIN files \cup {Name} |-> IF n = Name THEN metadata ELSE observed[n]]
      /\ UNCHANGED <<dir, inode, clock>>
  BY DEF NextName, CaptureInv, CollectedOK, tree
<1> DEFINE name == Name
<1>2. /\ DOMAIN files' = DOMAIN files \cup {name} /\ DOMAIN observed' = DOMAIN files'
      /\ files'[name] = hash /\ observed'[name] = metadata
      /\ \A n \in DOMAIN files : n # name => files'[n] = files[n] /\ observed'[n] = observed[n]
  BY <1>1
<1> HIDE DEF name
<1>3. \A n \in DOMAIN files' : files'[n] # None => Vouches(observed'[n], files'[n])
  <2> SUFFICES ASSUME NEW n \in DOMAIN files', files'[n] # None
               PROVE  Vouches(observed'[n], files'[n])
    OBVIOUS
  <2>1. CASE n = name
    BY <1>2, <2>1
  <2>2. CASE n # name
    BY <1>2, <2>2 DEF CaptureInv, CollectedOK
  <2> QED
    BY <2>1, <2>2
<1>4. CollectedOK'
  BY <1>1, <1>2, <1>3 DEF CollectedOK, Vouches
<1> QED
  BY <1>1, <1>4 DEF CaptureInv, StampsOK, HandleOK, RecheckOK

LEMMA LookKeepsCapture ==
  ASSUME CaptureInv, LookAtName, ~Throws
  PROVE  CaptureInv'
<1>1. UNCHANGED tree
  BY DEF LookAtName
<1>2. CASE NextName(None, None) /\ UNCHANGED <<at, enumerated, stage, review, moments>>
  <2>1. at' = "look"
    BY <1>2 DEF LookAtName
  <2> QED
    BY <1>1, <1>2, <2>1, NextNameKeeps
<1>3. CASE /\ at' = "open"
           /\ UNCHANGED <<enumerated, todo, before, content, result, stage, review, moments>>
  BY <1>1, <1>3 DEF CaptureInv, StampsOK, HandleOK, CollectedOK, RecheckOK, Vouches, tree, result
<1> QED
  BY <1>2, <1>3 DEF LookAtName

LEMMA OpenKeeps ==
  ASSUME CaptureInv, OpenFile, ~Throws
  PROVE  CaptureInv'
<1>1. /\ Name \in Present /\ before' = Stat(dir[Name]) /\ at' = "read"
      /\ UNCHANGED <<tree, content, result>>
  BY DEF OpenFile
<1>2. dir[Name] \in Inodes
  BY <1>1 DEF Present, CaptureInv, StampsOK
<1>3. before' \in Metadata /\ before'.ctime <= clock
  BY <1>1, <1>2 DEF Stat, Metadata, CaptureInv, StampsOK
<1> QED
  BY <1>1, <1>3 DEF CaptureInv, StampsOK, HandleOK, CollectedOK, RecheckOK, Vouches, tree, result

LEMMA ReadKeeps ==
  ASSUME CaptureInv, ReadContent
  PROVE  CaptureInv'
<1>1. /\ at = "read" /\ at' = "compare" /\ content' = inode[before.ino].content
      /\ UNCHANGED <<tree, before, result>>
  BY DEF ReadContent, At
<1>2. before \in Metadata /\ before.ctime <= clock
  BY <1>1 DEF CaptureInv, HandleOK
<1> QED
  BY <1>1, <1>2 DEF CaptureInv, StampsOK, HandleOK, CollectedOK, RecheckOK, Vouches, tree, result

LEMMA CompareKeeps ==
  ASSUME CaptureInv, CompareFile, ~Throws
  PROVE  CaptureInv'
<1>1. /\ at = "compare" /\ SameFile /\ NextName(content, Stat(before.ino)) /\ at' = "look"
      /\ UNCHANGED tree
  BY DEF CompareFile
<1>2. Vouches(before, content)
  BY <1>1 DEF CaptureInv, HandleOK
<1>3. before.ino \in Inodes /\ inode[before.ino].ctime = before.ctime
  BY <1>1, <1>2 DEF SameFile, Stat, Vouches, Metadata
<1>4. Vouches(Stat(before.ino), content)
  BY <1>2, <1>3 DEF Vouches, Stat, Metadata, CaptureInv, StampsOK
<1> QED
  BY <1>1, <1>4, NextNameKeeps

LEMMA RelistKeeps ==
  ASSUME CaptureInv, Relist, ~Throws
  PROVE  CaptureInv'
<1>1. /\ at' = "recheck" /\ todo' = DOMAIN files /\ atRelist' = Contents
      /\ UNCHANGED <<tree, before, content, files, observed>>
  BY DEF Relist, reading, result
<1>2. RecheckOK'
  <2> SUFFICES ASSUME NEW n \in Names \cap DOMAIN files, files[n] # None,
                      dir[n] = observed[n].ino, inode[dir[n]].ctime = observed[n].ctime
               PROVE  atRelist'[n] = files[n]
    BY <1>1 DEF RecheckOK, tree
  <2>1. Vouches(observed[n], files[n])
    BY DEF CaptureInv, CollectedOK
  <2>2. dir[n] \in Inodes /\ inode[dir[n]].content = files[n]
    BY <2>1 DEF Vouches, Metadata
  <2>3. dir[n] # None
    BY <2>2, TreeAssumption
  <2> QED
    BY <1>1, <2>2, <2>3 DEF Contents
<1> QED
  BY <1>1, <1>2 DEF CaptureInv, StampsOK, HandleOK, CollectedOK, Vouches, tree

LEMMA SecondLookKeeps ==
  ASSUME CaptureInv, Recheck, ~Throws
  PROVE  CaptureInv'
<1> DEFINE current == IF Name \in Present THEN Stat(dir[Name]) ELSE None
<1>1. /\ at = "recheck" /\ current = observed[Name] /\ todo' = todo \ {Name}
      /\ UNCHANGED <<tree, at, before, content, files, observed, atRelist>>
  BY DEF Recheck, reading, result, moments
<1>2. ASSUME Name \in Names \cap DOMAIN files, files[Name] # None PROVE atRelist[Name] = files[Name]
  <2>1. observed[Name] \in Metadata
    BY <1>2 DEF CaptureInv, CollectedOK, Vouches
  <2>2. Name \in Present /\ observed[Name] = Stat(dir[Name])
    BY <1>1, <2>1, TreeAssumption DEF Metadata
  <2>3. dir[Name] = observed[Name].ino /\ inode[dir[Name]].ctime = observed[Name].ctime
    BY <2>2 DEF Stat
  <2> QED
    BY <1>1, <1>2, <2>3 DEF CaptureInv, RecheckOK
<1>3. RecheckOK'
  BY <1>1, <1>2 DEF CaptureInv, RecheckOK, tree
<1> QED
  BY <1>1, <1>3 DEF CaptureInv, StampsOK, HandleOK, CollectedOK, Vouches, tree

LEMMA ThrowsKeeps ==
  ASSUME StampsOK, Throws, UNCHANGED tree
  PROVE  CaptureInv'
<1>1. StampsOK'
  BY DEF StampsOK, tree
<1>2. Cleared /\ at' = "idle"
  BY DEF Throws, Idle
<1> QED
  BY <1>1, <1>2, ClearedKeeps

LEMMA CaptureInvInit == Init => CaptureInv /\ ReviewOK
<1> SUFFICES ASSUME Init PROVE CaptureInv /\ ReviewOK
  OBVIOUS
<1>1. StampsOK
  BY DEF Init, TreeInit, StampsOK
<1>2. /\ DOMAIN files = {} /\ DOMAIN observed = {} /\ DOMAIN saved = {}
      /\ at = "idle" /\ stage = "working"
  BY DEF Init, NoSnapshot
<1> QED
  BY <1>1, <1>2 DEF CaptureInv, HandleOK, CollectedOK, RecheckOK, ReviewOK

LEMMA CaptureInvStep ==
  ASSUME ToolInv, CaptureInv, [Next]_vars
  PROVE  CaptureInv'
<1>0. StampsOK
  BY DEF CaptureInv
<1>1. ASSUME ToolActs, UNCHANGED <<stage, capture, review, moments>> PROVE CaptureInv'
  BY <1>0, <1>1, ToolStamps, CaptureKept
<1>2. ASSUME EditorActs, UNCHANGED <<stage, capture, review, moments>> PROVE CaptureInv'
  BY <1>0, <1>2, EditorStamps, CaptureKept
<1>3. ASSUME Throws, UNCHANGED tree PROVE CaptureInv'
  BY <1>0, <1>3, ThrowsKeeps
<1>4. ASSUME Begin \/ Idle, UNCHANGED tree PROVE CaptureInv'
  <2>1. StampsOK'
    BY <1>0, <1>4 DEF StampsOK, tree
  <2>2. Cleared /\ at' \in {"identity", "idle"}
    BY <1>4 DEF Begin, Idle
  <2> QED
    BY <2>1, <2>2, ClearedKeeps
<1>5. ASSUME Captures PROVE CaptureInv'
  <2>1. UNCHANGED tree
    BY <1>5 DEF Captures, ReadIdentity, ListNames, LookAtName, OpenFile, ReadContent, CompareFile,
                Relist, Recheck, IdentityChanged, CaptureFails
  <2>2. CASE Throws
    BY <2>1, <2>2, <1>3
  <2>3. CASE ~Throws
    <3>1. ASSUME ReadIdentity \/ ListNames PROVE CaptureInv'
      <4>1. at' \in {"list", "look"} /\ UNCHANGED result
        BY <3>1, <2>3 DEF ReadIdentity, ListNames, At
      <4> QED
        BY <2>1, <4>1
        DEF CaptureInv, StampsOK, HandleOK, CollectedOK, RecheckOK, Vouches, tree, result
    <3>2. ASSUME IdentityChanged \/ CaptureFails PROVE FALSE
      BY <2>3, <3>2 DEF IdentityChanged, CaptureFails
    <3> QED
      BY <1>5, <2>3, <3>1, <3>2, LookKeepsCapture, OpenKeeps, ReadKeeps, CompareKeeps, RelistKeeps,
         SecondLookKeeps DEF Captures
  <2> QED
    BY <2>2, <2>3
<1>6. ASSUME Runs PROVE CaptureInv'
  <2>1. UNCHANGED tree
    BY <1>6 DEF Runs, Stop, StopRecorded, Resume, ShowDrift, Continue, Decline, Confirm
  <2>2. Throws \/ Begin \/ Idle
    BY <1>6 DEF Runs, Stop, StopRecorded, Resume, ShowDrift, Continue, Decline, Confirm
  <2> QED
    BY <2>1, <2>2, <1>3, <1>4
<1>7. ASSUME UNCHANGED vars PROVE CaptureInv'
  BY <1>7 DEF vars, capture, reading, result, moments, tree, CaptureInv, StampsOK, HandleOK,
     CollectedOK, RecheckOK, Vouches
<1> QED
  BY <1>1, <1>2, <1>5, <1>6, <1>7 DEF Next

\* A capture that is complete is the contents at the moment its files were
\* listed again.
LEMMA CapturedIsExact ==
  ASSUME CaptureInv, Captured
  PROVE  \A n \in Names \cap DOMAIN files : files[n] # None => files[n] = atRelist[n]
  BY DEF CaptureInv, RecheckOK, Captured

LEMMA ReviewStep ==
  ASSUME CaptureInv, ReviewOK, [Next]_vars
  PROVE  ReviewOK'
<1>1. ASSUME UNCHANGED <<stage, review, moments>> PROVE ReviewOK'
  BY <1>1 DEF ReviewOK, review, moments, changedSnapshotPaths, Entry
<1>2. ASSUME stage' \in {"lost", "stopped", "stopping", "reviewing"}, UNCHANGED <<saved, atStop>>
      PROVE  ReviewOK'
  BY <1>2 DEF ReviewOK
<1>3. ASSUME Throws PROVE ReviewOK'
  BY <1>2, <1>3 DEF Throws, moments
<1>4. ASSUME Captures, ~Throws PROVE ReviewOK'
  <2>1. /\ UNCHANGED <<stage, saved, reviewed, drift, atStop>> /\ stage \in Capturing
    BY <1>4 DEF Captures, ReadIdentity, ListNames, LookAtName, OpenFile, ReadContent, CompareFile,
                Relist, Recheck, IdentityChanged, CaptureFails, At, review, moments
  <2> QED
    BY <2>1 DEF ReviewOK, Capturing, changedSnapshotPaths, Entry
<1>5. ASSUME StopRecorded PROVE ReviewOK'
  <2>1. /\ Captured /\ stage' = "stopped" /\ saved' = files /\ atStop' = atRelist
    BY <1>5 DEF StopRecorded
  <2> QED
    BY <2>1, CapturedIsExact DEF ReviewOK
<1>6. ASSUME ShowDrift, ~Throws PROVE ReviewOK'
  <2>1. /\ stage' = "deciding" /\ reviewed' = files /\ UNCHANGED <<saved, atStop>>
        /\ drift' = changedSnapshotPaths(saved, files)
    BY <1>6 DEF ShowDrift, moments
  <2> QED
    BY <2>1 DEF ReviewOK, changedSnapshotPaths, Entry
<1>7. ASSUME Confirm, ~Throws PROVE ReviewOK'
  <2>1. /\ Captured /\ stage = "confirming" /\ stage' = "resumed" /\ files = reviewed
        /\ UNCHANGED <<saved, reviewed, drift, atStop, atRelist>>
    BY <1>7 DEF Confirm, review, moments
  <2> QED
    BY <2>1, CapturedIsExact DEF ReviewOK, changedSnapshotPaths, Entry
<1>8. ASSUME Continue PROVE ReviewOK'
  <2>1. /\ stage = "deciding" /\ stage' = "confirming"
        /\ UNCHANGED <<saved, reviewed, drift, atStop>>
    BY <1>8 DEF Continue, review, moments
  <2> QED
    BY <2>1 DEF ReviewOK, changedSnapshotPaths, Entry
<1>9. ASSUME Stop \/ Resume \/ Decline PROVE ReviewOK'
  BY <1>2, <1>3, <1>9 DEF Stop, Resume, Decline, review, moments
<1>10. ASSUME UNCHANGED vars PROVE ReviewOK'
  BY <1>1, <1>10 DEF vars
<1> QED
  BY <1>1, <1>3, <1>4, <1>5, <1>6, <1>7, <1>8, <1>9, <1>10 DEF Next, Runs

\* Every snapshot that a stop, a review or a confirmation kept is the state of
\* all its files at one moment, whatever an editor did while they were read.
THEOREM CaptureInvHolds == Spec => [](CaptureInv /\ ReviewOK)
<1>1. ToolInv /\ CaptureInv /\ ReviewOK /\ [Next]_vars => (ToolInv /\ CaptureInv /\ ReviewOK)'
  BY ToolInvStep, CaptureInvStep, ReviewStep
<1> QED
  BY <1>1, ToolInvInit, CaptureInvInit, PTL DEF Spec

\* A continuation starts from files the operator was told about: what differs
\* from the stop is in the drift that was shown (cli.ts 539-593).
THEOREM DriftIsShownHolds == Spec => []DriftIsShown
<1>1. ReviewOK => DriftIsShown
  <2> SUFFICES ASSUME ReviewOK, stage = "resumed", NEW n \in Names \ drift,
                      \/ Entry(saved, n) \notin {None, Undefined}
                      \/ Entry(reviewed, n) \notin {None, Undefined}
               PROVE  atStop[n] = atRelist[n]
    BY DEF DriftIsShown
  <2>1. Entry(saved, n) = Entry(reviewed, n)
    BY DEF ReviewOK, changedSnapshotPaths, Entry
  <2>2. n \in DOMAIN saved /\ n \in DOMAIN reviewed /\ saved[n] = reviewed[n] /\ saved[n] # None
    BY <2>1 DEF Entry
  <2> QED
    BY <2>2 DEF ReviewOK
<1> QED
  BY <1>1, CaptureInvHolds, PTL

=============================================================================
