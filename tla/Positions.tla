---- MODULE Positions ----
(* Places in a sequence. *)
EXTENDS Integers, Sequences, FiniteSets, SequencesExt

\* The places up to n that are in a set, in order.
Ordered(n, places) ==
  LET upTo[i \in 0..n] ==
        IF i = 0 THEN <<>> ELSE IF i \in places THEN Append(upTo[i - 1], i) ELSE upTo[i - 1]
  IN  upTo[n]

\* What a sequence has at these places.
Elements(seq, places) ==
  LET at == Ordered(Len(seq), places)
  IN  [k \in DOMAIN at |-> seq[at[k]]]
====
