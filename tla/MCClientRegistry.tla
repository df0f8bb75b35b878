-------------------------- MODULE MCClientRegistry --------------------------
(***************************************************************************)
(* Instances of ClientRegistry for TLC. Reporters and connections are      *)
(* interchangeable.                                                        *)
(***************************************************************************)
EXTENDS ClientRegistry, TLC

CONSTANTS r1, r2, c1, c2, c3

Interchangeable == Permutations(Reporters) \cup Permutations(Conns)
=============================================================================
