---------------------------- MODULE MCDhcpClient ----------------------------
(* Small instances of DhcpClient for TLC. *)
EXTENDS DhcpClient, TLC

\* Nothing tells one server from another.
Symmetry == Permutations(Servers)
=============================================================================
