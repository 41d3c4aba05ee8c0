---------------------------- MODULE MCVsockStream ----------------------------
(* Small instances of VsockStream for TLC. *)
EXTENDS VsockStream, TLC

\* The host never uses a port twice and treats its ports alike.
Symmetry == Permutations(Ports)
=============================================================================
