-------------------------- MODULE MCServiceHistory --------------------------
(* ServiceHistory for TLC. *)
EXTENDS ServiceHistory, TLC

\* Connections, ports and handlers are interchangeable: nothing chooses among them.
Symmetry == Permutations(Conn) \cup Permutations(Port) \cup Permutations(Call)
=============================================================================
