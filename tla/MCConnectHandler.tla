-------------------------- MODULE MCConnectHandler --------------------------
(* ConnectHandler for TLC: symmetry sets for the runs without liveness. *)
EXTENDS ConnectHandler, TLC

Symmetry == Permutations(Conns) \cup Permutations(SessionIds)
              \cup Permutations(Tokens) \cup Permutations(AppIds)
=============================================================================
