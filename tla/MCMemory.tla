------------------------------ MODULE MCMemory ------------------------------
(* A client and the keeper over two memories of a fact and an episode.     *)
EXTENDS Memory

CONSTANTS turn, phase, keeper
=============================================================================
