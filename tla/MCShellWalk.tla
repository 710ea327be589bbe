---------------------------- MODULE MCShellWalk ----------------------------
(* A small instance of ShellWalk. *)
EXTENDS ShellWalk, TLC

Symmetry == Permutations(Dirs)

=============================================================================
