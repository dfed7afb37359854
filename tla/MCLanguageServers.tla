-------------------------- MODULE MCLanguageServers --------------------------
(* Instances of LanguageServers for TLC. *)
EXTENDS LanguageServers, TLC

Symmetry == Permutations(Callers) \cup Permutations(Clients)

(* States that differ in what nobody can see any more are one: all but the *)
(* processes of forgotten clients, reports that were accepted before every *)
(* ticket of the document, and the numbers of generations.                 *)
Since(c, d, generation) == diag[c][d].generation > generation
Order(w) == [w EXCEPT !.generation = IF Since(w.con, w.doc, @) THEN 1 ELSE 0]
Orders(tickets) == {Order(w) : w \in tickets}
Syncing(p) == pc[p] \in {"notify", "undo"}

Wanted(c, d) == \E p \in Callers :
  \/ \E w \in Tickets(p) : w.con = c /\ w.doc = d /\ Since(c, d, w.generation)
  \/ Syncing(p) /\ proc[p].con = c /\ proc[p].doc = d /\ Since(c, d, proc[p].generation)
Report(c, d) == IF Wanted(c, d) THEN [diag[c][d] EXCEPT !.generation = 0]
                                ELSE [NoDiag EXCEPT !.document = diag[c][d].document]
Seen(p) == [proc[p] EXCEPT !.waits = Orders(@), !.found = Orders(@),
              !.generation = IF Syncing(p) /\ Since(proc[p].con, proc[p].doc, @) THEN 1 ELSE 0]

Live(c) == c \in Held \/ wire[c] # "down"
Client(c) == IF Live(c) THEN <<key[c], docLock[c], version[c], [d \in Docs |-> Report(c, d)],
                               received[c], c \in mistold>>
                        ELSE <<>>
Reachable == <<manager, enforcing, watched, wire, disk, touches, pc, [p \in Callers |-> Seen(p)],
               [p \in Callers |-> Orders(receipts[p])], [c \in Clients |-> Client(c)]>>
=============================================================================
