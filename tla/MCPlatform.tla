----------------------------- MODULE MCPlatform -----------------------------
(* A small instance of Platform for TLC. *)
EXTENDS Platform

\* Nothing tells one task, or one frame, from another.
Symmetry == Permutations(Tasks) \cup Permutations(Frames)
=============================================================================
