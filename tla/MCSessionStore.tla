-------------------------- MODULE MCSessionStore --------------------------
(* Small instances of SessionStore for TLC.                                *)
EXTENDS SessionStore, TLC

(* All sessions belong to one user, or every session to a user of its own. *)
OneUser == [s \in Sessions |-> CHOOSE u \in Users : TRUE]
UserEach == CHOOSE f \in [Sessions -> Users] : \A s, t \in Sessions : f[s] = f[t] => s = t

ProcSymmetry == Permutations(Procs)
=============================================================================
