-------------------------- MODULE MCRepositoryReview --------------------------
(* Bounds for TLC.  Three names: a source file, the name it may get and a    *)
(* root instruction file, which the tool refuses and a continuation demands. *)
(* Three inodes let a removed file's number be used again.                   *)
EXTENDS RepositoryReview, TLC

MCOrder == <<"AGENTS.md", "code", "moved">>
MCRoots == {"AGENTS.md"}

\* Inodes differ in nothing but their numbers; the properties are safety only.
InodeSymmetry == Permutations(Inodes)
=============================================================================
