-------------------------- MODULE MCFileMutation --------------------------
(* Small instances of FileMutation for TLC.                                *)
EXTENDS FileMutation, TLC

Symmetry == Permutations(Callers) \cup Permutations(Sessions)
              \cup Permutations(Inodes) \cup Permutations(Halves)

(* What an inode holds that nobody can reach any more makes no difference. *)
Reachable ==
  <<disk, [i \in (Used \ leaked) \ {NULL} |-> data[i]], temps, queue, ledger, pc, proc, history>>
=============================================================================
