--------------------------- MODULE MCRunOwnership ---------------------------
(* Bounds for TLC.  Two processes, two runs of one worktree: a new run and a *)
(* continuation, or two continuations, meet in either order.                 *)
EXTENDS RunOwnership
=============================================================================
