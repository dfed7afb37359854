---------------------------- MODULE MCMcpManager ----------------------------
(* Small instances of McpManager for TLC.                                  *)
EXTENDS McpManager, TLC

Symmetry == Permutations(Callers) \cup Permutations(Sessions) \cup Permutations(Servers)
              \cup Permutations(Conns)

(* The key of a connection that nobody refers to makes no difference.      *)
Reachable ==
  <<manager, health, locks, teardowns, wire, pc, proc,
    [c \in {d \in Conns : wire[d] # "down" \/ d \in Held} |-> key[c]]>>
=============================================================================
