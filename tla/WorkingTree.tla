----------------------------- MODULE WorkingTree -----------------------------
(***************************************************************************)
(* The files of the repository a task works on, as the file system calls   *)
(* of src/src/agents/rename.ts and src/src/saved-runs/snapshot.ts see      *)
(* them, and the operator or an editor that changes them at any time.      *)
(*                                                                         *)
(* Names lead to inodes, several names may lead to one.  An inode has its  *)
(* content and two time stamps: mtime can be set back, ctime cannot.  All  *)
(* contents have the same size, the case in which sizes tell nothing, and  *)
(* a removed inode's number may be used again.  Two changes never get the  *)
(* same stamp: a file system whose clock is coarser than its edits hides   *)
(* them from every program that compares stamps.                           *)
(***************************************************************************)
EXTENDS Naturals, FiniteSets

CONSTANTS
  Names,     \* paths of the repository, none of them excluded or unsafe
  Inodes,
  Roots,     \* package.json and REPOSITORY_INSTRUCTION_FILES
  None,      \* no inode, no content
  MaxEdits   \* bound: changes by the operator or an editor

ASSUME TreeAssumption ==
  /\ Roots \subseteq Names
  /\ None \notin Inodes /\ IsFiniteSet(Inodes)
  /\ None \notin [ino : Inodes, mtime : Nat, ctime : Nat]
  /\ MaxEdits \in Nat

VARIABLES
  dir,      \* the inode of every name, or None
  inode,    \* content and stamps of every inode
  tracked,  \* names in the index of git
  head,     \* the commit HEAD names
  clock,    \* stamps given out
  edits     \* changes by the operator so far

tree == <<dir, inode, tracked, head, clock, edits>>

Linked(d) == {d[n] : n \in Names} \ {None}
Present == {n \in Names : dir[n] # None}
nlink(i) == Cardinality({n \in Names : dir[n] = i})

\* The content behind every name: what a comparison is meant to compare.
Contents == [n \in Names |-> IF dir[n] = None THEN None ELSE inode[dir[n]].content]

\* lstat and fstat, as far as metadata() and the comparisons use them.
Stat(i) == [ino |-> i, mtime |-> inode[i].mtime, ctime |-> inode[i].ctime]

\* inspectGitFiles: ls-files --cached --others.
inspectGitFiles == tracked \cup Present

\* Some of the names exist, in a commit or beside it.
TreeInit ==
  /\ \E present \in SUBSET Names :
       dir \in {d \in [Names -> Inodes \cup {None}] :
                  /\ \A n \in Names : d[n] # None <=> n \in present
                  /\ \A m, n \in present : d[m] = d[n] => m = n}
  /\ inode = [i \in Inodes |-> [content |-> 0, mtime |-> 0, ctime |-> 0]]
  /\ tracked \in SUBSET Names
  /\ head = 0 /\ clock = 0 /\ edits = 0

\* A change of the names; the inodes in touched get a new ctime.
Rebind(d, touched) ==
  /\ dir' = d
  /\ clock' = clock + 1
  /\ inode' = [i \in Inodes |-> IF i \in touched THEN [inode[i] EXCEPT !.ctime = clock'] ELSE inode[i]]

-----------------------------------------------------------------------------
(* The operator, an editor or git.                                         *)

\* A file is written in place; its mtime may be set back afterwards.
Write(n, setBack) ==
  /\ n \in Present
  /\ clock' = clock + 1
  /\ inode' = [inode EXCEPT ![dir[n]] =
                 [content |-> clock', mtime |-> IF setBack THEN @.mtime ELSE clock', ctime |-> clock']]
  /\ UNCHANGED <<dir, tracked, head>>

\* A file is created, or replaced by a new one.
Save(n, i) ==
  /\ i \notin Linked(dir)
  /\ dir' = [dir EXCEPT ![n] = i]
  /\ clock' = clock + 1
  /\ inode' = [inode EXCEPT ![i] = [content |-> clock', mtime |-> clock', ctime |-> clock']]
  /\ UNCHANGED <<tracked, head>>

Delete(n) ==
  /\ n \in Present
  /\ Rebind([dir EXCEPT ![n] = None], {dir[n]})
  /\ UNCHANGED <<tracked, head>>

Move(m, n) ==
  /\ m \in Present /\ n \notin Present
  /\ Rebind([dir EXCEPT ![n] = dir[m], ![m] = None], {dir[m]})
  /\ UNCHANGED <<tracked, head>>

Commit ==
  /\ head' = head + 1 /\ tracked' = Present
  /\ UNCHANGED <<dir, inode, clock>>

Edits ==
  /\ edits < MaxEdits /\ edits' = edits + 1
  /\ \/ \E n \in Names : (\E b \in BOOLEAN : Write(n, b)) \/ (\E i \in Inodes : Save(n, i)) \/ Delete(n)
     \/ \E m, n \in Names : Move(m, n)
     \/ Commit

=============================================================================
