------------------------------- MODULE MCXcb -------------------------------
(***************************************************************************)
(* Instances of Xcb for TLC.                                               *)
(***************************************************************************)
EXTENDS Xcb

\* The threads are alike unless one of them may take the socket.
Symmetry == Permutations(Threads)

=============================================================================
