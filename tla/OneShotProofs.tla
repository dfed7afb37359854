---------------------------- MODULE OneShotProofs ----------------------------
(***************************************************************************)
(* Proofs about Run and Probe, for every limit, every set of tools and     *)
(* whatever a provider or a caller's model answers: the type invariant     *)
(* with the limits (OneShotTypeOK), the results of the tools               *)
(* (ToolResultsAreExact) and the outcome (OutcomesAreHonest).              *)
(*                                                                         *)
(* A batch can be reasoned about because no two of its calls have the same *)
(* ID.  normalizeChatResponseCallIDs and normalizeFunctionCallIDs see to   *)
(* it, each a fold over the calls, so the argument follows their folds     *)
(* from one call to the next (NamesInTurn, AssignsInTurn); a call without  *)
(* an ID of its own finds one because n + 1 names cannot all be taken by n *)
(* calls (SomeFree).  Sorting is unique (SortedOnce), so the IDs a batch   *)
(* is answered with are those of its calls in their order.                 *)
(*                                                                         *)
(* RunInv, the inductive invariant, adds what ties the recorder's          *)
(* statistics to the batch: a malformed call that has not come up is       *)
(* remembered, what has completed has ended, and the first failure is the  *)
(* one that is recorded.                                                   *)
(***************************************************************************)
EXTENDS OneShot, FiniteSetTheorems, WellFoundedInduction, TLAPS

-----------------------------------------------------------------------------
(* Numbers, and places in order.                                           *)

(* Every set of numbers has a least one.                                   *)
LEMMA LeastNumber ==
  ASSUME NEW T, T \subseteq Nat, T # {}
  PROVE  \E m \in T : \A k \in T : m <= k
<1>1. PICK R : /\ IsWellFoundedOn(R, Nat)
               /\ \A x, y \in Nat : <<x, y>> \in R <=> x < y
  <2>1. \A x, y \in Nat : <<x, y>> \in OpToRel(<, Nat) <=> x < y
    BY DEF OpToRel
  <2> QED BY <2>1, NatLessThanWellFounded, Zenon
<1>2. IsWellFoundedOn(R, Nat)
  BY <1>1
<1>3. PICK x \in T : \A y \in T : ~(<<y, x>> \in R)
  <2>1. \E x \in T : \A y \in T : ~(<<y, x>> \in R)
    BY <1>2, WFMin, Zenon
  <2> QED BY <2>1
<1>4. \A y \in T : x \in Nat /\ y \in Nat /\ ~(y < x)
  BY <1>1, <1>3
<1> QED BY <1>4, <1>3

(* What holds of 0 and with every number of the next holds of all.         *)
LEMMA EveryNumber ==
  ASSUME NEW T, T \subseteq Nat, 0 \in T, \A n \in T : n + 1 \in T
  PROVE  T = Nat
<1> SUFFICES ASSUME Nat \ T # {} PROVE FALSE
  OBVIOUS
<1>1. PICK m \in Nat \ T : \A k \in Nat \ T : m <= k
  BY LeastNumber
<1>2. m # 0 /\ m - 1 \in Nat /\ m - 1 \in T
  BY <1>1
<1> QED BY <1>1, <1>2

(* The same up to n.                                                       *)
LEMMA Upwards ==
  ASSUME NEW n \in Nat, NEW T, 0 \in T, \A i \in 0..(n - 1) : i \in T => i + 1 \in T
  PROVE  0..n \subseteq T
<1> DEFINE U == {i \in Nat : i <= n => i \in T}
<1>1. 0 \in U
  OBVIOUS
<1>2. ASSUME NEW i \in U PROVE i + 1 \in U
  OBVIOUS
<1> HIDE DEF U
<1>3. U = Nat
  <2>1. U \subseteq Nat
    BY DEF U
  <2> QED BY <1>1, <1>2, <2>1, EveryNumber
<1> QED BY <1>3 DEF U

\* What Ordered makes of 1..i.
Walks(h, n, places) ==
  /\ h[0] = <<>>
  /\ \A i \in 1..n : h[i] = IF i \in places THEN Append(h[i - 1], i) ELSE h[i - 1]

(* Ordered takes the places of 1..n one after the other.                   *)
LEMMA OrderedWalks ==
  ASSUME NEW n \in Nat, NEW places
  PROVE  \E h : Walks(h, n, places) /\ Ordered(n, places) = h[n]
<1> DEFINE Body(g, i) == IF i = 0 THEN <<>> ELSE IF i \in places THEN Append(g[i - 1], i) ELSE g[i - 1]
           Iterates(g, m) == g = [i \in 0..m |-> Body(g, i)]
           T == {m \in Nat : \E g : Iterates(g, m)}
<1>1. 0 \in T
  <2>1. Iterates([i \in 0..0 |-> <<>>], 0)
    OBVIOUS
  <2> QED BY <2>1
<1>2. ASSUME NEW m \in Nat, NEW g, Iterates(g, m) PROVE m + 1 \in T
  <2> DEFINE f == [i \in 0..(m + 1) |-> IF i = m + 1 THEN Body(g, m + 1) ELSE g[i]]
  <2> HIDE DEF T
  <2>1. \A i \in 0..m : g[i] = Body(g, i)
    <3> HIDE DEF Body
    <3> QED BY <1>2
  <2>2. \A i \in 0..m : f[i] = g[i]
    <3> HIDE DEF Body, Iterates
    <3> QED OBVIOUS
  <2>3. f[m + 1] = Body(g, m + 1)
    <3> HIDE DEF Body, Iterates
    <3> QED OBVIOUS
  <2> HIDE DEF f
  <2>4. ASSUME NEW i \in 0..(m + 1) PROVE Body(f, i) = Body(g, i)
    <3>1. CASE i = 0
      BY <3>1
    <3>2. CASE i # 0
      <4>1. i - 1 \in 0..m
        BY <3>2
      <4>2. f[i - 1] = g[i - 1]
        BY <2>2, <4>1
      <4> QED BY <3>2, <4>2
    <3> QED BY <3>1, <3>2
  <2> HIDE DEF Body
  <2>5. ASSUME NEW i \in 0..(m + 1) PROVE f[i] = Body(f, i)
    <3>1. i = m + 1 \/ i \in 0..m
      OBVIOUS
    <3> QED BY <2>1, <2>2, <2>3, <2>4, <3>1
  <2>6. f = [i \in 0..(m + 1) |-> Body(f, i)]
    <3>1. f = [i \in 0..(m + 1) |-> f[i]]
      BY DEF f
    <3> QED BY <2>5, <3>1
  <2>7. Iterates(f, m + 1)
    BY <2>6
  <2> HIDE DEF Iterates
  <2> QED BY <2>7 DEF T
<1>0. \A m \in T : m + 1 \in T
  <2> TAKE m \in T
  <2>1. PICK g : m \in Nat /\ Iterates(g, m)
    <3> HIDE DEF Iterates
    <3> QED OBVIOUS
  <2> HIDE DEF T, Iterates
  <2> QED BY <1>2, <2>1
<1> HIDE DEF Iterates
<1>3. T = Nat
  <2> HIDE DEF T
  <2>1. T \subseteq Nat
    BY DEF T
  <2> QED BY <1>1, <1>0, <2>1, EveryNumber
<1> DEFINE upTo == CHOOSE g : Iterates(g, n)
<1>4. Iterates(upTo, n)
  BY <1>3
<1>5. Ordered(n, places) = upTo[n]
  BY SMT DEF Ordered, Iterates
<1> HIDE DEF upTo
<1>6. Walks(upTo, n, places)
  <2>1. \A i \in 0..n : upTo[i] = Body(upTo, i)
    <3> HIDE DEF Body
    <3> QED BY <1>4 DEF Iterates
  <2>2. upTo[0] = <<>>
    BY <2>1
  <2>3. ASSUME NEW i \in 1..n PROVE upTo[i] = IF i \in places THEN Append(upTo[i - 1], i) ELSE upTo[i - 1]
    <3>1. i \in 0..n /\ i # 0
      OBVIOUS
    <3> QED BY <2>1, <3>1
  <2> HIDE DEF Body
  <2> QED BY <2>2, <2>3 DEF Walks
<1> QED BY <1>5, <1>6

\* A sequence with the numbers of a set, in order.
Sorts(s, numbers) ==
  /\ s \in Seq(Nat) /\ Len(s) \in Nat /\ s \in [1..Len(s) -> Nat]
  /\ \A j, k \in 1..Len(s) : j < k => s[j] < s[k]
  /\ \A k \in 1..Len(s) : s[k] \in numbers
  /\ \A x \in numbers : \E k \in 1..Len(s) : s[k] = x

(* A number above all sorts last.                                          *)
LEMMA SortsNext ==
  ASSUME NEW s, NEW i \in Nat, NEW places, Sorts(s, places \cap 1..i),
         NEW t, t = IF i + 1 \in places THEN Append(s, i + 1) ELSE s
  PROVE  Sorts(t, places \cap 1..(i + 1))
<1>1. CASE i + 1 \notin places
  <2>1. places \cap 1..i = places \cap 1..(i + 1)
    BY <1>1
  <2> QED BY <1>1, <2>1
<1>2. CASE i + 1 \in places
  <2> DEFINE n == Len(s)
  <2>1. s \in Seq(Nat) /\ n \in Nat /\ s \in [1..n -> Nat]
    BY DEF Sorts
  <2>2. t \in Seq(Nat) /\ Len(t) = n + 1 /\ t[n + 1] = i + 1 /\ \A k \in 1..n : t[k] = s[k]
    BY <1>2, <2>1
  <2>3. t \in [1..(n + 1) -> Nat]
    <3>1. \A x \in Seq(Nat) : x \in [1..Len(x) -> Nat]
      OBVIOUS
    <3> QED BY <2>2, <3>1
  <2>4. \A k \in 1..n : s[k] \in places /\ s[k] \in 1..i
    BY DEF Sorts
  <2>5. \A j, k \in 1..n : j < k => s[j] < s[k]
    BY DEF Sorts
  <2>6. \A x \in places \cap 1..i : \E k \in 1..n : s[k] = x
    BY DEF Sorts
  <2> HIDE DEF n
  <2>7. ASSUME NEW j \in 1..(n + 1), NEW k \in 1..(n + 1), j < k PROVE t[j] < t[k]
    <3>1. j \in 1..n
      BY <2>1, <2>7
    <3>2. CASE k = n + 1
      BY <2>2, <2>4, <3>1, <3>2
    <3>3. CASE k \in 1..n
      BY <2>2, <2>5, <2>7, <3>1, <3>3
    <3> QED BY <2>1, <3>2, <3>3
  <2>8. ASSUME NEW k \in 1..(n + 1) PROVE t[k] \in places \cap 1..(i + 1)
    <3>1. CASE k = n + 1
      BY <1>2, <2>2, <3>1
    <3>2. CASE k \in 1..n
      BY <2>2, <2>4, <3>2
    <3> QED BY <2>1, <3>1, <3>2
  <2>9. ASSUME NEW x \in places \cap 1..(i + 1) PROVE \E k \in 1..(n + 1) : t[k] = x
    <3>1. CASE x = i + 1
      <4>1. n + 1 \in 1..(n + 1)
        BY <2>1
      <4> QED BY <2>2, <3>1, <4>1
    <3>2. CASE x # i + 1
      <4>1. PICK k \in 1..n : s[k] = x
        BY <2>6, <3>2
      <4>2. k \in 1..(n + 1)
        BY <2>1
      <4> QED BY <2>2, <4>1, <4>2
    <3> QED BY <3>1, <3>2
  <2>10. Len(t) = n + 1 /\ n + 1 \in Nat /\ t \in Seq(Nat)
    BY <2>1, <2>2
  <2> QED BY <2>3, <2>7, <2>8, <2>9, <2>10 DEF Sorts
<1> QED BY <1>1, <1>2

(* Ordered sorts the places.                                               *)
LEMMA OrderedSorts ==
  ASSUME NEW n \in Nat, NEW places
  PROVE  Sorts(Ordered(n, places), places \cap 1..n)
<1>1. PICK h : Walks(h, n, places) /\ Ordered(n, places) = h[n]
  BY OrderedWalks
<1> DEFINE T == {i \in 0..n : Sorts(h[i], places \cap 1..i)}
<1>2. 0 \in T
  <2>1. h[0] = <<>> /\ places \cap 1..0 = {} /\ 0 \in 0..n
    BY <1>1 DEF Walks
  <2>2. Sorts(<<>>, {})
    BY DEF Sorts
  <2> QED BY <2>1, <2>2
<1>3. ASSUME NEW i \in 0..(n - 1), i \in T PROVE i + 1 \in T
  <2>1. i \in Nat /\ i + 1 \in 1..n /\ (i + 1) - 1 = i
    OBVIOUS
  <2>2. h[i + 1] = IF i + 1 \in places THEN Append(h[i], i + 1) ELSE h[i]
    BY <1>1, <2>1 DEF Walks
  <2>3. Sorts(h[i], places \cap 1..i)
    BY <1>3
  <2>4. Sorts(h[i + 1], places \cap 1..(i + 1))
    BY <2>1, <2>2, <2>3, SortsNext
  <2> QED BY <2>1, <2>4
<1> HIDE DEF T
<1>4. 0..n \subseteq T
  BY <1>2, <1>3, Upwards
<1>5. n \in T
  BY <1>4
<1> QED BY <1>1, <1>5 DEF T

(* Of two ways to sort a set none is longer.                               *)
LEMMA SortedLeast ==
  ASSUME NEW m \in Nat, NEW n \in Nat, NEW s \in [1..m -> Nat], NEW t \in [1..n -> Nat],
         \A k \in 1..m : \E j \in 1..n : s[k] = t[j],
         \A k \in 1..n : \E j \in 1..m : t[k] = s[j],
         \A j, k \in 1..m : j < k => s[j] < s[k],
         \A j, k \in 1..n : j < k => t[j] < t[k]
  PROVE  \A k \in 1..m : k \in 1..n /\ t[k] = s[k]
<1> DEFINE T == {k \in 1..m : ~(k \in 1..n /\ t[k] = s[k])}
<1> SUFFICES ASSUME T # {} PROVE FALSE
  OBVIOUS
<1>1. PICK k \in T : \A j \in T : k <= j
  <2>1. T \subseteq Nat
    OBVIOUS
  <2> HIDE DEF T
  <2> QED BY <2>1, LeastNumber
<1>2. k \in 1..m /\ ~(k \in 1..n /\ t[k] = s[k])
  OBVIOUS
<1>3. \A j \in 1..(k - 1) : j \in 1..n /\ t[j] = s[j]
  <2> TAKE j \in 1..(k - 1)
  <2>1. j \in 1..m /\ ~(k <= j)
    BY <1>2
  <2>2. j \notin T
    <3> HIDE DEF T
    <3> QED BY <1>1, <2>1
  <2> QED BY <2>1, <2>2
<1> HIDE DEF T
<1>4. PICK j \in 1..n : s[k] = t[j]
  BY <1>2
<1>5. j >= k
  <2> SUFFICES ASSUME j < k PROVE FALSE
    BY <1>2
  <2>1. j \in 1..(k - 1) /\ j \in 1..m
    BY <1>2
  <2>2. t[j] = s[j] /\ s[j] < s[k]
    BY <1>2, <1>3, <2>1
  <2> QED BY <1>2, <1>4, <2>1, <2>2
<1>6. j # k
  BY <1>2, <1>4
<1>7. k \in 1..n /\ k < j
  BY <1>2, <1>5, <1>6
<1>8. PICK i \in 1..m : t[k] = s[i]
  BY <1>7
<1>9. s[i] < s[k]
  BY <1>4, <1>7, <1>8
<1>10. i < k
  <2> SUFFICES ASSUME k <= i PROVE FALSE
    BY <1>2
  <2>1. k = i \/ s[k] < s[i]
    BY <1>2
  <2>2. s[k] \in Nat /\ s[i] \in Nat
    <3> HIDE DEF T
    <3> QED BY <1>2
  <2>3. \A a, b \in Nat : ~(a < b /\ b < a) /\ ~(a < a)
    OBVIOUS
  <2>4. k = i => s[k] < s[k]
    BY <1>9
  <2> QED BY <1>9, <2>1, <2>2, <2>3, <2>4, Zenon
<1>11. i \in 1..(k - 1)
  BY <1>2, <1>10
<1>12. i \in 1..n /\ t[i] = s[i] /\ t[i] < t[k]
  BY <1>3, <1>7, <1>10, <1>11
<1>13. t[i] \in Nat /\ t[k] \in Nat
  BY <1>7, <1>12
<1> QED BY <1>8, <1>12, <1>13

(* There is one way to sort a set, so a sequence that does is Ordered's.   *)
LEMMA SortedOnce ==
  ASSUME NEW numbers, NEW s, NEW t, Sorts(s, numbers), Sorts(t, numbers)
  PROVE  s = t
<1> DEFINE m == Len(s)
           n == Len(t)
<1>1. m \in Nat /\ n \in Nat /\ s \in [1..m -> Nat] /\ t \in [1..n -> Nat]
  BY DEF Sorts
<1>2. /\ \A k \in 1..m : \E j \in 1..n : s[k] = t[j]
      /\ \A k \in 1..n : \E j \in 1..m : t[k] = s[j]
  <2>1. \A k \in 1..m : s[k] \in numbers
    BY DEF Sorts
  <2>2. \A x \in numbers : \E k \in 1..n : t[k] = x
    BY DEF Sorts
  <2>3. \A k \in 1..n : t[k] \in numbers
    BY DEF Sorts
  <2>4. \A x \in numbers : \E k \in 1..m : s[k] = x
    BY DEF Sorts
  <2> HIDE DEF m, n
  <2>5. \A k \in 1..m : \E j \in 1..n : s[k] = t[j]
    BY <2>1, <2>2
  <2>6. \A k \in 1..n : \E j \in 1..m : t[k] = s[j]
    BY <2>3, <2>4
  <2> QED BY <2>5, <2>6
<1>3. /\ \A j, k \in 1..m : j < k => s[j] < s[k]
      /\ \A j, k \in 1..n : j < k => t[j] < t[k]
  BY DEF Sorts
<1> HIDE DEF m, n
<1>4. \A k \in 1..m : k \in 1..n /\ t[k] = s[k]
  BY <1>1, <1>2, <1>3, SortedLeast
<1>5. \A k \in 1..n : k \in 1..m /\ s[k] = t[k]
  BY <1>1, <1>2, <1>3, SortedLeast
<1>6. m = n
  <2>1. m = 0 \/ m \in 1..m
    BY <1>1
  <2>2. n = 0 \/ n \in 1..n
    BY <1>1
  <2>3. m <= n
    BY <1>1, <1>4, <2>1
  <2>4. n <= m
    BY <1>1, <1>5, <2>2
  <2> QED BY <1>1, <2>3, <2>4
<1> QED BY <1>1, <1>4, <1>6

-----------------------------------------------------------------------------
(* Folds.                                                                  *)

(* The greatest of a set is known by being one of it.                      *)
LEMMA MaxOf ==
  ASSUME NEW s, s \subseteq Nat, NEW x \in s, \A y \in s : y <= x
  PROVE  Max(s) = x
<1>1. \A z \in s : (\A y \in s : z >= y) => z = x
  OBVIOUS
<1>2. \A y \in s : x >= y
  OBVIOUS
<1> QED BY <1>1, <1>2 DEF Max

(* What a fold takes from 1..i, and what it leaves.                        *)
LEMMA LastOfFirst ==
  ASSUME NEW n \in Nat, NEW i \in 1..n
  PROVE  Max(1..i) = i /\ (1..i) \ {i} = 1..(i - 1) /\ 1..i # {} /\ 1..i \in SUBSET (1..n)
<1>1. Max(1..i) = i
  <2>1. 1..i \subseteq Nat /\ i \in 1..i /\ \A y \in 1..i : y <= i
    OBVIOUS
  <2> QED BY <2>1, MaxOf
<1>2. (1..i) \ {i} = 1..(i - 1)
  OBVIOUS
<1> QED BY <1>1, <1>2

\* The bytes of the first parts, added up.
Adds(h, parts, n) == h[0] = 0 /\ \A i \in 1..n : h[i] = h[i - 1] + parts[i].bytes

(* finalText adds one part after the other.                                *)
LEMMA AddsInTurn ==
  ASSUME NEW said, NEW n \in Nat, DOMAIN said = 1..n
  PROVE  \E h : Adds(h, said, n) /\ FoldLeft(LAMBDA sum, part : sum + part.bytes, 0, said) = h[n]
<1> DEFINE Body(g, s) == IF s = {} THEN 0 ELSE g[s \ {Max(s)}] + said[Max(s)].bytes
           Iterates(g, m) == g = [s \in SUBSET (1..m) |-> Body(g, s)]
           T == {m \in Nat : \E g : Iterates(g, m)}
<1>1. 0 \in T
  <2>1. Iterates([s \in SUBSET (1..0) |-> 0], 0)
    OBVIOUS
  <2> QED BY <2>1
<1>2. ASSUME NEW m \in Nat, NEW g, Iterates(g, m) PROVE \E f : Iterates(f, m + 1)
  <2> DEFINE f == [s \in SUBSET (1..(m + 1)) |-> IF m + 1 \in s THEN g[s \ {m + 1}] + said[m + 1].bytes ELSE g[s]]
  <2>1. ASSUME NEW s \in SUBSET (1..(m + 1)) PROVE f[s] = Body(f, s)
    <3>1. CASE m + 1 \in s
      <4>1. Max(s) = m + 1
        <5>1. s \subseteq Nat /\ m + 1 \in s /\ \A y \in s : y <= m + 1
          BY <3>1
        <5> QED BY <5>1, MaxOf
      <4>2. s \ {m + 1} \in SUBSET (1..m) /\ s \ {m + 1} \in SUBSET (1..(m + 1)) /\ m + 1 \notin s \ {m + 1}
        OBVIOUS
      <4>3. f[s \ {m + 1}] = g[s \ {m + 1}]
        BY <4>2
      <4> QED BY <3>1, <4>1, <4>3
    <3>2. CASE m + 1 \notin s
      <4>1. s \in SUBSET (1..m)
        BY <3>2
      <4>2. g[s] = Body(g, s)
        BY <1>2, <4>1
      <4>3. \A x : s \ {x} \in SUBSET (1..(m + 1)) /\ m + 1 \notin s \ {x}
        BY <3>2
      <4>4. \A x : f[s \ {x}] = g[s \ {x}]
        BY <4>3
      <4> QED BY <3>2, <4>2, <4>4
    <3> QED BY <3>1, <3>2
  <2>2. f = [s \in SUBSET (1..(m + 1)) |-> f[s]]
    OBVIOUS
  <2> HIDE DEF Body, f
  <2>3. Iterates(f, m + 1)
    BY <2>1, <2>2
  <2> HIDE DEF Iterates
  <2> QED BY <2>3
<1> HIDE DEF Iterates
<1>3. T = Nat
  <2>1. T \subseteq Nat /\ \A m \in T : m + 1 \in T
    BY <1>2
  <2> HIDE DEF T
  <2> QED BY <1>1, <2>1, EveryNumber
<1> DEFINE iter == CHOOSE g : Iterates(g, n)
<1>4. Iterates(iter, n)
  BY <1>3
<1>5. FoldLeft(LAMBDA sum, part : sum + part.bytes, 0, said) = iter[1..n]
  BY SMT DEF FoldLeft, MapThenFoldSet, Max, Iterates
<1> HIDE DEF iter
<1> DEFINE h == [i \in 0..n |-> iter[1..i]]
<1>6. h[0] = 0
  BY <1>4 DEF Iterates
<1>7. ASSUME NEW i \in 1..n PROVE h[i] = h[i - 1] + said[i].bytes
  <2>1. Max(1..i) = i /\ (1..i) \ {i} = 1..(i - 1) /\ 1..i # {} /\ 1..i \in SUBSET (1..n)
    BY LastOfFirst
  <2>2. iter[1..i] = Body(iter, 1..i)
    BY <1>4, <2>1 DEF Iterates
  <2>3. h[i] = iter[1..i] /\ h[i - 1] = iter[1..(i - 1)]
    OBVIOUS
  <2> QED BY <2>1, <2>2, <2>3
<1>8. h[n] = iter[1..n]
  OBVIOUS
<1> HIDE DEF h
<1>9. Adds(h, said, n)
  BY <1>6, <1>7 DEF Adds
<1> QED BY <1>5, <1>8, <1>9

\* The IDs of the first calls of a response.
IDsGrow(h, seed, calls, n) ==
  h[0] = <<>> /\ \A i \in 1..n : h[i] = Append(h[i - 1], NormalizedID(seed, calls, h[i - 1], i))

(* normalizeChatResponseCallIDs names one call after the other.            *)
LEMMA NamesInTurn ==
  ASSUME NEW seed, NEW calls, NEW n \in Nat, DOMAIN calls = 1..n
  PROVE  \E h : IDsGrow(h, seed, calls, n) /\ NormalizedIDs(seed, calls) = h[n]
<1> DEFINE places == [i \in DOMAIN calls |-> i]
<1> DEFINE Body(g, s) == IF s = {} THEN <<>> ELSE Append(g[s \ {Max(s)}], NormalizedID(seed, calls, g[s \ {Max(s)}], places[Max(s)]))
           Iterates(g, m) == g = [s \in SUBSET (1..m) |-> Body(g, s)]
           T == {m \in Nat : \E g : Iterates(g, m)}
<1>1. 0 \in T
  <2>1. Iterates([s \in SUBSET (1..0) |-> <<>>], 0)
    OBVIOUS
  <2> QED BY <2>1
<1>2. ASSUME NEW m \in Nat, NEW g, Iterates(g, m) PROVE \E f : Iterates(f, m + 1)
  <2> DEFINE f == [s \in SUBSET (1..(m + 1)) |-> IF m + 1 \in s THEN Append(g[s \ {m + 1}], NormalizedID(seed, calls, g[s \ {m + 1}], places[m + 1])) ELSE g[s]]
  <2>1. ASSUME NEW s \in SUBSET (1..(m + 1)) PROVE f[s] = Body(f, s)
    <3>1. CASE m + 1 \in s
      <4>1. Max(s) = m + 1
        <5>1. s \subseteq Nat /\ m + 1 \in s /\ \A y \in s : y <= m + 1
          BY <3>1
        <5> QED BY <5>1, MaxOf
      <4>2. s \ {m + 1} \in SUBSET (1..m) /\ s \ {m + 1} \in SUBSET (1..(m + 1)) /\ m + 1 \notin s \ {m + 1}
        OBVIOUS
      <4>3. f[s \ {m + 1}] = g[s \ {m + 1}]
        BY <4>2
      <4> QED BY <3>1, <4>1, <4>3
    <3>2. CASE m + 1 \notin s
      <4>1. s \in SUBSET (1..m)
        BY <3>2
      <4>2. g[s] = Body(g, s)
        BY <1>2, <4>1
      <4>3. \A x : s \ {x} \in SUBSET (1..(m + 1)) /\ m + 1 \notin s \ {x}
        BY <3>2
      <4>4. \A x : f[s \ {x}] = g[s \ {x}]
        BY <4>3
      <4> QED BY <3>2, <4>2, <4>4
    <3> QED BY <3>1, <3>2
  <2>2. f = [s \in SUBSET (1..(m + 1)) |-> f[s]]
    OBVIOUS
  <2> HIDE DEF Body, f
  <2>3. Iterates(f, m + 1)
    BY <2>1, <2>2
  <2> HIDE DEF Iterates
  <2> QED BY <2>3
<1> HIDE DEF Iterates
<1>3. T = Nat
  <2>1. T \subseteq Nat /\ \A m \in T : m + 1 \in T
    BY <1>2
  <2> HIDE DEF T
  <2> QED BY <1>1, <2>1, EveryNumber
<1> DEFINE iter == CHOOSE g : Iterates(g, n)
<1>4. Iterates(iter, n)
  BY <1>3
<1>5. NormalizedIDs(seed, calls) = iter[1..n]
  BY SMT DEF NormalizedIDs, FoldLeft, MapThenFoldSet, Max, Iterates
<1> HIDE DEF iter
<1> DEFINE h == [i \in 0..n |-> iter[1..i]]
<1>6. h[0] = <<>>
  BY <1>4 DEF Iterates
<1>7. ASSUME NEW i \in 1..n PROVE h[i] = Append(h[i - 1], NormalizedID(seed, calls, h[i - 1], i))
  <2>1. Max(1..i) = i /\ (1..i) \ {i} = 1..(i - 1) /\ 1..i # {} /\ 1..i \in SUBSET (1..n)
    BY LastOfFirst
  <2>2. iter[1..i] = Body(iter, 1..i)
    BY <1>4, <2>1 DEF Iterates
  <2>3. h[i] = iter[1..i] /\ h[i - 1] = iter[1..(i - 1)]
    OBVIOUS
  <2> QED BY <2>1, <2>2, <2>3
<1>8. h[n] = iter[1..n]
  OBVIOUS
<1> HIDE DEF h
<1>9. IDsGrow(h, seed, calls, n)
  BY <1>6, <1>7 DEF IDsGrow
<1> QED BY <1>5, <1>8, <1>9

\* What normalizeFunctionCallIDs has made of the first parts.
Assigns(h, parts, n) ==
  /\ h[0] = [parts |-> <<>>, used |-> {}, next |-> 1]
  /\ \A i \in 1..n : h[i] = Assign(parts, h[i - 1], parts[i])

(* normalizeFunctionCallIDs assigns an ID to one call after the other.     *)
LEMMA AssignsInTurn ==
  ASSUME NEW parts, NEW n \in Nat, DOMAIN parts = 1..n
  PROVE  \E h : Assigns(h, parts, n) /\ normalizeFunctionCallIDs(parts) = h[n].parts
<1> DEFINE Body(g, s) == IF s = {} THEN [parts |-> <<>>, used |-> {}, next |-> 1] ELSE Assign(parts, g[s \ {Max(s)}], parts[Max(s)])
           Iterates(g, m) == g = [s \in SUBSET (1..m) |-> Body(g, s)]
           T == {m \in Nat : \E g : Iterates(g, m)}
<1>1. 0 \in T
  <2>1. Iterates([s \in SUBSET (1..0) |-> [parts |-> <<>>, used |-> {}, next |-> 1]], 0)
    OBVIOUS
  <2> QED BY <2>1
<1>2. ASSUME NEW m \in Nat, NEW g, Iterates(g, m) PROVE \E f : Iterates(f, m + 1)
  <2> DEFINE f == [s \in SUBSET (1..(m + 1)) |-> IF m + 1 \in s THEN Assign(parts, g[s \ {m + 1}], parts[m + 1]) ELSE g[s]]
  <2>1. ASSUME NEW s \in SUBSET (1..(m + 1)) PROVE f[s] = Body(f, s)
    <3>1. CASE m + 1 \in s
      <4>1. Max(s) = m + 1
        <5>1. s \subseteq Nat /\ m + 1 \in s /\ \A y \in s : y <= m + 1
          BY <3>1
        <5> QED BY <5>1, MaxOf
      <4>2. s \ {m + 1} \in SUBSET (1..m) /\ s \ {m + 1} \in SUBSET (1..(m + 1)) /\ m + 1 \notin s \ {m + 1}
        OBVIOUS
      <4>3. f[s \ {m + 1}] = g[s \ {m + 1}]
        BY <4>2
      <4> QED BY <3>1, <4>1, <4>3
    <3>2. CASE m + 1 \notin s
      <4>1. s \in SUBSET (1..m)
        BY <3>2
      <4>2. g[s] = Body(g, s)
        BY <1>2, <4>1
      <4>3. \A x : s \ {x} \in SUBSET (1..(m + 1)) /\ m + 1 \notin s \ {x}
        BY <3>2
      <4>4. \A x : f[s \ {x}] = g[s \ {x}]
        BY <4>3
      <4> QED BY <3>2, <4>2, <4>4
    <3> QED BY <3>1, <3>2
  <2>2. f = [s \in SUBSET (1..(m + 1)) |-> f[s]]
    OBVIOUS
  <2> HIDE DEF Body, f
  <2>3. Iterates(f, m + 1)
    BY <2>1, <2>2
  <2> HIDE DEF Iterates
  <2> QED BY <2>3
<1> HIDE DEF Iterates
<1>3. T = Nat
  <2>1. T \subseteq Nat /\ \A m \in T : m + 1 \in T
    BY <1>2
  <2> HIDE DEF T
  <2> QED BY <1>1, <2>1, EveryNumber
<1> DEFINE iter == CHOOSE g : Iterates(g, n)
<1>4. Iterates(iter, n)
  BY <1>3
<1>5. normalizeFunctionCallIDs(parts) = iter[1..n].parts
  BY SMT DEF normalizeFunctionCallIDs, FoldLeft, MapThenFoldSet, Max, Iterates
<1> HIDE DEF iter
<1> DEFINE h == [i \in 0..n |-> iter[1..i]]
<1>6. h[0] = [parts |-> <<>>, used |-> {}, next |-> 1]
  BY <1>4 DEF Iterates
<1>7. ASSUME NEW i \in 1..n PROVE h[i] = Assign(parts, h[i - 1], parts[i])
  <2>1. Max(1..i) = i /\ (1..i) \ {i} = 1..(i - 1) /\ 1..i # {} /\ 1..i \in SUBSET (1..n)
    BY LastOfFirst
  <2>2. iter[1..i] = Body(iter, 1..i)
    BY <1>4, <2>1 DEF Iterates
  <2>3. h[i] = iter[1..i] /\ h[i - 1] = iter[1..(i - 1)]
    OBVIOUS
  <2> QED BY <2>1, <2>2, <2>3
<1>8. h[n] = iter[1..n]
  OBVIOUS
<1> HIDE DEF h
<1>9. Assigns(h, parts, n)
  BY <1>6, <1>7 DEF Assigns
<1> QED BY <1>5, <1>8, <1>9

-----------------------------------------------------------------------------
(* Names that are free.                                                    *)

(* The least of a set of numbers is one of them.                           *)
LEMMA MinIn ==
  ASSUME NEW s, s \subseteq Nat, s # {}
  PROVE  Min(s) \in s
<1>1. PICK m \in s : \A k \in s : m <= k
  BY LeastNumber
<1>2. \E x \in s : \A y \in s : x <= y
  BY <1>1
<1> QED BY <1>2 DEF Min

(* A sequence of n has at most n elements.                                 *)
LEMMA FewElements ==
  ASSUME NEW n \in Nat, NEW f, NEW s, \A x \in s : \E k \in 1..n : f[k] = x
  PROVE  IsFiniteSet(s) /\ Cardinality(s) \in Nat /\ Cardinality(s) <= n
<1> DEFINE ks == {k \in 1..n : f[k] \in s}
           g == [k \in ks |-> f[k]]
<1>1. IsFiniteSet(1..n) /\ Cardinality(1..n) = n
  <2>1. 1 \in Int /\ n \in Int
    OBVIOUS
  <2>2. IsFiniteSet(1..n) /\ Cardinality(1..n) = IF 1 > n THEN 0 ELSE n - 1 + 1
    BY <2>1, FS_Interval
  <2> QED BY <2>2
<1>2. IsFiniteSet(ks) /\ Cardinality(ks) <= n
  <2>1. ks \in SUBSET (1..n)
    OBVIOUS
  <2> HIDE DEF ks
  <2>2. IsFiniteSet(ks) /\ Cardinality(ks) <= Cardinality(1..n)
    BY <1>1, <2>1, FS_Subset
  <2> QED BY <1>1, <2>2
<1>3. g \in Surjection(ks, s)
  <2>1. g \in [ks -> s]
    OBVIOUS
  <2>2. \A x \in s : \E k \in ks : g[k] = x
    <3> TAKE x \in s
    <3>1. PICK k \in 1..n : f[k] = x
      OBVIOUS
    <3>2. k \in ks
      BY <3>1
    <3>3. g[k] = x
      BY <3>1, <3>2
    <3> QED BY <3>2, <3>3
  <2> HIDE DEF g, ks
  <2> QED BY <2>1, <2>2 DEF Surjection
<1> HIDE DEF g, ks
<1>4. IsFiniteSet(s) /\ Cardinality(s) <= Cardinality(ks)
  BY <1>2, <1>3, FS_Surjection
<1>5. Cardinality(s) \in Nat /\ Cardinality(ks) \in Nat
  BY <1>2, <1>4, FS_CardinalityType
<1> QED BY <1>2, <1>4, <1>5

(* Of more names than are taken one is free.                               *)
LEMMA SomeFree ==
  ASSUME NEW n \in Nat, NEW from \in Nat, NEW taken, IsFiniteSet(taken), Cardinality(taken) <= 2 * n,
         NEW name, \A j, k \in from..(from + 2 * n) : name[j] = name[k] => j = k
  PROVE  \E k \in from..(from + 2 * n) : name[k] \notin taken
<1> DEFINE S == from..(from + 2 * n)
           f == [k \in S |-> name[k]]
<1> SUFFICES ASSUME \A k \in S : name[k] \in taken PROVE FALSE
  OBVIOUS
<1>1. IsFiniteSet(S) /\ Cardinality(S) = 2 * n + 1
  <2>1. from \in Int /\ from + 2 * n \in Int
    OBVIOUS
  <2>2. IsFiniteSet(S) /\ Cardinality(S) = IF from > from + 2 * n THEN 0 ELSE (from + 2 * n) - from + 1
    BY <2>1, FS_Interval
  <2> QED BY <2>2
<1>2. f \in [S -> taken]
  OBVIOUS
<1>3. Cardinality(taken) \in Nat
  BY FS_CardinalityType
<1>4. Cardinality(taken) < Cardinality(S)
  BY <1>1, <1>3
<1>5. \A j, k \in S : f[j] = f[k] => j = k
  OBVIOUS
<1> HIDE DEF f, S
<1>6. \E j, k \in S : j # k /\ f[j] = f[k]
  BY <1>1, <1>2, <1>4, FS_PigeonHole
<1> QED BY <1>5, <1>6

(* Two sets of names together.                                             *)
LEMMA BothTaken ==
  ASSUME NEW n \in Nat, NEW s, NEW t, IsFiniteSet(s), Cardinality(s) <= n, IsFiniteSet(t), Cardinality(t) <= n
  PROVE  IsFiniteSet(s \cup t) /\ Cardinality(s \cup t) <= 2 * n
<1>1. IsFiniteSet(s \cup t) /\ Cardinality(s \cup t) = Cardinality(s) + Cardinality(t) - Cardinality(s \cap t)
  BY FS_Union
<1>2. IsFiniteSet(s \cap t)
  <2>1. s \cap t \in SUBSET s
    OBVIOUS
  <2> QED BY <2>1, FS_Subset
<1>3. Cardinality(s) \in Nat /\ Cardinality(t) \in Nat /\ Cardinality(s \cap t) \in Nat
  BY <1>2, FS_CardinalityType
<1> QED BY <1>1, <1>3

(* A call of the Chat adapter without an ID of its own finds one.          *)
LEMMA FreeOrdinal ==
  ASSUME NEW seed, NEW calls, NEW ids, NEW n \in Nat, NEW i \in 1..n,
         DOMAIN calls = 1..n, Len(calls) = n, DOMAIN ids = 1..(i - 1)
  PROVE  LET k == Min(FreeOrdinals(seed, calls, ids, i))
         IN  k \in Nat /\ Synthesized(seed, k) \notin ToSet(ids) /\ Synthesized(seed, k) # NoID
<1> DEFINE from == i - 1
           free == FreeOrdinals(seed, calls, ids, i)
           name == [k \in Nat |-> Synthesized(seed, k)]
<1>0. from \in Nat /\ from <= n
  OBVIOUS
<1>1. IsFiniteSet(GivenIDs(calls)) /\ Cardinality(GivenIDs(calls)) <= n
  <2> DEFINE f == [k \in 1..n |-> calls[k].id]
  <2>1. \A x \in GivenIDs(calls) : \E k \in 1..n : f[k] = x
    BY DEF GivenIDs
  <2> HIDE DEF f
  <2> QED BY <2>1, FewElements
<1>2. IsFiniteSet(ToSet(ids)) /\ Cardinality(ToSet(ids)) <= n
  <2>1. \A x \in ToSet(ids) : \E k \in 1..from : ids[k] = x
    BY DEF ToSet
  <2> HIDE DEF from
  <2>2. IsFiniteSet(ToSet(ids)) /\ Cardinality(ToSet(ids)) \in Nat /\ Cardinality(ToSet(ids)) <= from
    BY <1>0, <2>1, FewElements
  <2> QED BY <1>0, <2>2
<1> DEFINE taken == GivenIDs(calls) \cup ToSet(ids)
<1>3. IsFiniteSet(taken) /\ Cardinality(taken) <= 2 * n
  BY <1>1, <1>2, BothTaken
<1>4. \A j, k \in from..(from + 2 * n) : name[j] = name[k] => j = k
  BY <1>0 DEF Synthesized
<1> HIDE DEF taken, name, from
<1>5. PICK k \in from..(from + 2 * n) : name[k] \notin taken
  BY <1>0, <1>3, <1>4, SomeFree
<1>6. free # {} /\ free \subseteq Nat /\ \A x \in free : Synthesized(seed, x) \notin ToSet(ids)
  <2>1. \A x \in free : x \in Nat /\ Synthesized(seed, x) \notin ToSet(ids)
    BY <1>0 DEF FreeOrdinals, from
  <2>2. k \in free
    BY <1>0, <1>5 DEF FreeOrdinals, from, taken, name
  <2> QED BY <2>1, <2>2
<1>7. Min(free) \in free
  <2> HIDE DEF free
  <2> QED BY <1>6, MinIn
<1>8. \A x : Synthesized(seed, x) # NoID
  BY DEF Synthesized, NoID
<1> QED BY <1>6, <1>7, <1>8

(* normalizeChatResponseCallIDs: as many IDs as calls, no two the same and *)
(* none left out.                                                          *)
LEMMA NormalizedIDsAreDistinct ==
  ASSUME NEW seed \in Names, NEW calls \in Seq(ChoiceCall),
         NEW ids, ids = NormalizedIDs(seed, calls)
  PROVE  /\ ids \in Seq(IDs) /\ Len(ids) = Len(calls)
         /\ \A j, k \in 1..Len(calls) : ids[j] = ids[k] => j = k
         /\ \A k \in 1..Len(calls) : ids[k] \in IDs /\ ids[k] # NoID
<1> DEFINE n == Len(calls)
           Distinct(s, i) == /\ s \in Seq(IDs) /\ Len(s) = i /\ \A k \in 1..i : s[k] # NoID
                             /\ \A j, k \in 1..i : s[j] = s[k] => j = k
<1>1. n \in Nat /\ DOMAIN calls = 1..n /\ \A k \in 1..n : calls[k].id \in IDs
  <2>1. \A x \in ChoiceCall : x.id \in IDs
    BY DEF ChoiceCall
  <2>2. n \in Nat /\ DOMAIN calls = 1..n /\ \A k \in 1..n : calls[k] \in ChoiceCall
    OBVIOUS
  <2> QED BY <2>1, <2>2
<1> HIDE DEF n
<1>2. PICK h : IDsGrow(h, seed, calls, n) /\ NormalizedIDs(seed, calls) = h[n]
  BY <1>1, NamesInTurn
<1> DEFINE T == {i \in 0..n : Distinct(h[i], i)}
<1>3. 0 \in T
  <2>1. h[0] = <<>>
    BY <1>2 DEF IDsGrow
  <2>2. Distinct(<<>>, 0)
    OBVIOUS
  <2> HIDE DEF Distinct
  <2> QED BY <1>1, <2>1, <2>2
<1>4. ASSUME NEW i \in 0..(n - 1), i \in T PROVE i + 1 \in T
  <2> DEFINE s == h[i]
             new == NormalizedID(seed, calls, s, i + 1)
  <2>1. i \in Nat /\ i + 1 \in 1..n /\ (i + 1) - 1 = i
    BY <1>1
  <2>2. s \in Seq(IDs) /\ Len(s) = i /\ (\A k \in 1..i : s[k] # NoID) /\ (\A j, k \in 1..i : s[j] = s[k] => j = k)
    BY <1>4
  <2>3. h[i + 1] = Append(s, new)
    BY <1>2, <2>1 DEF IDsGrow
  <2> HIDE DEF T, s
  <2>4. new \in IDs /\ new # NoID /\ new \notin ToSet(s)
    <3>1. CASE calls[i + 1].id # NoID /\ calls[i + 1].id \notin ToSet(s)
      BY <1>1, <2>1, <3>1 DEF NormalizedID
    <3>2. CASE ~(calls[i + 1].id # NoID /\ calls[i + 1].id \notin ToSet(s))
      <4> DEFINE k == Min(FreeOrdinals(seed, calls, s, i + 1))
      <4>1. DOMAIN s = 1..i /\ Len(calls) = n
        BY <2>2 DEF n
      <4>2. k \in Nat /\ Synthesized(seed, k) \notin ToSet(s) /\ Synthesized(seed, k) # NoID
        BY <1>1, <2>1, <4>1, FreeOrdinal
      <4>3. new = Synthesized(seed, k)
        BY <3>2 DEF NormalizedID
      <4> HIDE DEF k, new
      <4>4. new \in IDs
        BY <4>2, <4>3 DEF Synthesized, IDs
      <4> QED BY <4>2, <4>3, <4>4
    <3> QED BY <3>1, <3>2
  <2> HIDE DEF new
  <2>5. Append(s, new) \in Seq(IDs) /\ Len(Append(s, new)) = i + 1 /\ Append(s, new)[i + 1] = new
        /\ \A k \in 1..i : Append(s, new)[k] = s[k]
    BY <2>1, <2>2, <2>4
  <2>6. \A k \in 1..i : s[k] # new
    BY <2>2, <2>4 DEF ToSet
  <2>7. \A k \in 1..(i + 1) : k \in 1..i \/ k = i + 1
    BY <2>1
  <2> DEFINE q == Append(s, new)
  <2> HIDE DEF q
  <2>8. q \in Seq(IDs) /\ Len(q) = i + 1 /\ q[i + 1] = new /\ \A k \in 1..i : q[k] = s[k]
    BY <2>5 DEF q
  <2>9. \A k \in 1..(i + 1) : q[k] # NoID
    BY <2>2, <2>4, <2>7, <2>8
  <2>10. \A j, k \in 1..(i + 1) : q[j] = q[k] => j = k
    BY <2>2, <2>6, <2>7, <2>8
  <2>11. Distinct(h[i + 1], i + 1)
    BY <2>3, <2>8, <2>9, <2>10 DEF q
  <2>12. i + 1 \in 0..n
    BY <1>1
  <2> HIDE DEF Distinct
  <2> QED BY <2>11, <2>12 DEF T
<1> HIDE DEF T
<1>5. n \in T
  <2>1. 0..n \subseteq T
    BY <1>1, <1>3, <1>4, Upwards
  <2> QED BY <1>1, <2>1
<1>6. Distinct(ids, n)
  BY <1>2, <1>5 DEF T
<1> QED BY <1>1, <1>6 DEF n

-----------------------------------------------------------------------------
(* normalizeFunctionCallIDs.                                               *)

(* A call without an ID of its own finds a number.                         *)
LEMMA FreeNumber ==
  ASSUME NEW parts, NEW n \in Nat, DOMAIN parts = 1..n, Len(parts) = n,
         NEW s, s.next \in Nat, IsFiniteSet(s.used), Cardinality(s.used) <= n
  PROVE  Min(FreeNumbers(parts, s)) \in Nat /\ Numbered(Min(FreeNumbers(parts, s))) \notin s.used
<1> DEFINE from == s.next
           reserved == {parts[i].id : i \in CallsIn(parts)}
           free == FreeNumbers(parts, s)
           name == [k \in Nat |-> Numbered(k)]
           taken == reserved \cup s.used
<1>1. IsFiniteSet(reserved) /\ Cardinality(reserved) <= n
  <2> DEFINE f == [k \in 1..n |-> parts[k].id]
  <2>1. \A x \in reserved : \E k \in 1..n : f[k] = x
    BY DEF CallsIn
  <2> HIDE DEF f, reserved
  <2> QED BY <2>1, FewElements
<1> HIDE DEF reserved
<1>2. IsFiniteSet(taken) /\ Cardinality(taken) <= 2 * n
  BY <1>1, BothTaken
<1>3. \A j, k \in from..(from + 2 * n) : name[j] = name[k] => j = k
  BY DEF Numbered
<1> HIDE DEF taken, name
<1>4. from \in Nat
  OBVIOUS
<1> HIDE DEF from
<1>5. PICK k \in from..(from + 2 * n) : name[k] \notin taken
  BY <1>2, <1>3, <1>4, SomeFree
<1>6. \A x \in free : x \in Nat /\ Numbered(x) \notin s.used
  BY <1>4 DEF FreeNumbers, from
<1>7. k \in free
  BY <1>4, <1>5 DEF FreeNumbers, from, taken, name, reserved
<1>8. Min(free) \in free
  <2> HIDE DEF free
  <2>1. free # {} /\ free \subseteq Nat
    BY <1>6, <1>7
  <2> QED BY <2>1, MinIn
<1> HIDE DEF free
<1> QED BY <1>6, <1>8 DEF free

\* Every call has an ID, and no other call has it.
Distinguished(parts) ==
  \A j, k \in CallsIn(parts) : parts[j].id # NoID /\ (parts[j].id = parts[k].id => j = k)

\* What normalizeFunctionCallIDs keeps of the first i parts.
Keeps(s, parts, i) ==
  /\ s \in [parts : Seq(Part), used : SUBSET IDs, next : Nat] /\ Len(s.parts) = i
  /\ IsFiniteSet(s.used) /\ Cardinality(s.used) \in Nat /\ Cardinality(s.used) <= i
  /\ \A k \in 1..i : /\ s.parts[k].form = parts[k].form
                     /\ parts[k].form = "call" => s.parts[k].id \in s.used
                     /\ parts[k].form # "call" => s.parts[k] = parts[k]
  /\ \A j, k \in 1..i : parts[j].form = "call" /\ parts[k].form = "call" /\ s.parts[j].id = s.parts[k].id => j = k
  /\ Distinguished(parts) => \A k \in 1..i : s.parts[k] = parts[k]
  /\ Distinguished(parts) => \A x \in s.used : \E k \in 1..i : parts[k].form = "call" /\ parts[k].id = x

\* One part more: it is p, and its ID is used if it is a call.
Extends(s, t, parts, i, p) ==
  /\ p \in Part /\ p.form = parts[i + 1].form
  /\ t \in [parts : Seq(Part), used : SUBSET IDs, next : Nat] /\ t.parts = Append(s.parts, p)
  /\ p.form = "call" => p.id \notin s.used /\ t.used = s.used \cup {p.id}
  /\ p.form # "call" => p = parts[i + 1] /\ t.used = s.used
  /\ Distinguished(parts) => p = parts[i + 1]

(* Assign takes one part more.                                             *)
LEMMA AssignExtends ==
  ASSUME NEW n \in Nat, NEW parts \in [1..n -> Part], Len(parts) = n, NEW i \in 0..(n - 1), NEW s, Keeps(s, parts, i)
  PROVE  \E p : Extends(s, Assign(parts, s, parts[i + 1]), parts, i, p)
<1> DEFINE part == parts[i + 1]
           t == Assign(parts, s, part)
<1>1. i \in Nat /\ i + 1 \in 1..n /\ part \in Part
  OBVIOUS
<1>2. s \in [parts : Seq(Part), used : SUBSET IDs, next : Nat]
  BY DEF Keeps
<1>3. s = [parts |-> s.parts, used |-> s.used, next |-> s.next] /\ s.parts \in Seq(Part) /\ s.used \subseteq IDs /\ s.next \in Nat
  BY <1>2
<1>4. \A p \in Part : p.id \in IDs /\ Append(s.parts, p) \in Seq(Part)
  <2>1. \A p \in Part : p.id \in IDs
    BY DEF Part
  <2>2. \A p \in Part : Append(s.parts, p) \in Seq(Part)
    BY <1>3
  <2> QED BY <2>1, <2>2
<1>5. Distinguished(parts) /\ part.form = "call" => part.id # NoID /\ part.id \notin s.used
  <2> SUFFICES ASSUME Distinguished(parts), part.form = "call" PROVE part.id # NoID /\ part.id \notin s.used
    OBVIOUS
  <2>1. \A x \in s.used : \E k \in 1..i : parts[k].form = "call" /\ parts[k].id = x
    BY DEF Keeps
  <2>2. i + 1 \in CallsIn(parts) /\ \A k \in 1..i : parts[k].form = "call" => k \in CallsIn(parts) /\ k # i + 1
    BY <1>1 DEF CallsIn
  <2>3. part.id # NoID /\ \A k \in CallsIn(parts) : part.id = parts[k].id => k = i + 1
    BY <2>2 DEF Distinguished
  <2> QED BY <2>1, <2>2, <2>3
<1>6. CASE part.form # "call"
  <2>1. t = [parts |-> Append(s.parts, part), used |-> s.used, next |-> s.next]
    BY <1>3, <1>6 DEF Assign
  <2>2. t \in [parts : Seq(Part), used : SUBSET IDs, next : Nat]
    BY <1>1, <1>3, <1>4, <2>1
  <2>3. t.parts = Append(s.parts, part) /\ t.used = s.used
    BY <2>1
  <2> HIDE DEF t
  <2>4. Extends(s, t, parts, i, part)
    BY <1>1, <1>6, <2>2, <2>3 DEF Extends
  <2> QED BY <2>4 DEF t
<1>7. CASE part.form = "call" /\ part.id # NoID /\ part.id \notin s.used
  <2>1. t = [parts |-> Append(s.parts, part), used |-> s.used \cup {part.id}, next |-> s.next]
    BY <1>3, <1>7 DEF Assign
  <2>2. t \in [parts : Seq(Part), used : SUBSET IDs, next : Nat]
    BY <1>1, <1>3, <1>4, <2>1
  <2>3. t.parts = Append(s.parts, part) /\ t.used = s.used \cup {part.id}
    BY <2>1
  <2> HIDE DEF t
  <2>4. Extends(s, t, parts, i, part)
    BY <1>1, <1>7, <2>2, <2>3 DEF Extends
  <2> QED BY <2>4 DEF t
<1>8. CASE part.form = "call" /\ ~(part.id # NoID /\ part.id \notin s.used)
  <2> DEFINE k == Min(FreeNumbers(parts, s))
             p == [part EXCEPT !.id = Numbered(k)]
  <2>1. k \in Nat /\ Numbered(k) \notin s.used
    <3>1. Cardinality(s.used) <= n /\ IsFiniteSet(s.used) /\ DOMAIN parts = 1..n
      BY <1>1 DEF Keeps
    <3> QED BY <1>3, <3>1, FreeNumber
  <2>2. t = [parts |-> Append(s.parts, p), used |-> s.used \cup {Numbered(k)}, next |-> k + 1]
    BY <1>8 DEF Assign
  <2> HIDE DEF k, t
  <2>3. Numbered(k) \in IDs
    BY <2>1 DEF Numbered, IDs, Names
  <2>4. p \in Part /\ p.form = "call" /\ p.id = Numbered(k)
    BY <1>1, <1>8, <2>3 DEF Part
  <2> HIDE DEF p
  <2>5. t \in [parts : Seq(Part), used : SUBSET IDs, next : Nat]
    BY <1>3, <1>4, <2>1, <2>2, <2>3, <2>4
  <2>6. t.parts = Append(s.parts, p) /\ t.used = s.used \cup {p.id} /\ p.id \notin s.used
    BY <2>1, <2>2, <2>4
  <2>7. Extends(s, t, parts, i, p)
    BY <1>5, <1>8, <2>4, <2>5, <2>6 DEF Extends
  <2> QED BY <2>7 DEF t
<1> QED BY <1>6, <1>7, <1>8

(* And so it keeps what it has kept of the others.                         *)
LEMMA ExtendedKeeps ==
  ASSUME NEW n \in Nat, NEW parts \in [1..n -> Part], NEW i \in 0..(n - 1), NEW s, NEW t, NEW p,
         Keeps(s, parts, i), Extends(s, t, parts, i, p)
  PROVE  Keeps(t, parts, i + 1)
<1> DEFINE q == s.parts
           r == t.parts
<1>1. i \in Nat /\ q \in Seq(Part) /\ Len(q) = i /\ p \in Part
  BY DEF Keeps, Extends
<1>2. r = Append(q, p)
  BY DEF Extends
<1>3. r \in Seq(Part) /\ Len(r) = i + 1 /\ r[i + 1] = p /\ \A k \in 1..i : r[k] = q[k]
  <2> HIDE DEF q, r
  <2> QED BY <1>1, <1>2
<1>4. \A k \in 1..(i + 1) : k \in 1..i \/ k = i + 1
  BY <1>1
<1>5. t \in [parts : Seq(Part), used : SUBSET IDs, next : Nat] /\ p.form = parts[i + 1].form
  BY DEF Extends
<1>6. /\ \A k \in 1..i : q[k].form = parts[k].form
      /\ \A k \in 1..i : parts[k].form = "call" => q[k].id \in s.used
      /\ \A k \in 1..i : parts[k].form # "call" => q[k] = parts[k]
  BY DEF Keeps
<1>7. \A j, k \in 1..i : parts[j].form = "call" /\ parts[k].form = "call" /\ q[j].id = q[k].id => j = k
  BY DEF Keeps
<1>8. /\ Distinguished(parts) => \A k \in 1..i : q[k] = parts[k]
      /\ Distinguished(parts) => \A x \in s.used : \E k \in 1..i : parts[k].form = "call" /\ parts[k].id = x
  BY DEF Keeps
<1>9. /\ p.form = "call" => p.id \notin s.used /\ t.used = s.used \cup {p.id}
      /\ p.form # "call" => p = parts[i + 1] /\ t.used = s.used
      /\ Distinguished(parts) => p = parts[i + 1]
  BY DEF Extends
<1>10. IsFiniteSet(t.used) /\ Cardinality(t.used) \in Nat /\ Cardinality(t.used) <= i + 1
  <2>1. IsFiniteSet(s.used) /\ Cardinality(s.used) \in Nat /\ Cardinality(s.used) <= i
    BY DEF Keeps
  <2>2. IsFiniteSet(s.used \cup {p.id})
        /\ Cardinality(s.used \cup {p.id}) = IF p.id \in s.used THEN Cardinality(s.used) ELSE Cardinality(s.used) + 1
    BY <2>1, FS_AddElement
  <2>3. CASE p.form = "call"
    <3>1. t.used = s.used \cup {p.id} /\ p.id \notin s.used
      BY <1>9, <2>3
    <3> HIDE DEF q, r
    <3> QED BY <1>1, <2>1, <2>2, <3>1
  <2>4. CASE p.form # "call"
    <3>1. t.used = s.used
      BY <1>9, <2>4
    <3> HIDE DEF q, r
    <3> QED BY <1>1, <2>1, <3>1
  <2> QED BY <2>3, <2>4
<1> HIDE DEF q, r
<1>11. ASSUME NEW k \in 1..(i + 1)
       PROVE  /\ r[k].form = parts[k].form
              /\ parts[k].form = "call" => r[k].id \in t.used
              /\ parts[k].form # "call" => r[k] = parts[k]
              /\ Distinguished(parts) => r[k] = parts[k]
  <2>1. CASE k \in 1..i
    BY <1>3, <1>6, <1>8, <1>9, <2>1
  <2>2. CASE k = i + 1
    BY <1>3, <1>5, <1>9, <2>2
  <2> QED BY <1>4, <2>1, <2>2
<1>12. ASSUME NEW j \in 1..(i + 1), NEW k \in 1..(i + 1), parts[j].form = "call", parts[k].form = "call", r[j].id = r[k].id
       PROVE  j = k
  <2>1. CASE j \in 1..i /\ k \in 1..i
    BY <1>3, <1>7, <1>12, <2>1
  <2>2. CASE j \in 1..i /\ k = i + 1
    BY <1>3, <1>5, <1>6, <1>9, <1>12, <2>2
  <2>3. CASE j = i + 1 /\ k \in 1..i
    BY <1>3, <1>5, <1>6, <1>9, <1>12, <2>3
  <2> QED BY <1>4, <2>1, <2>2, <2>3
<1>13. ASSUME Distinguished(parts), NEW x \in t.used
       PROVE  \E k \in 1..(i + 1) : parts[k].form = "call" /\ parts[k].id = x
  <2>1. CASE x \in s.used
    <3>1. PICK k \in 1..i : parts[k].form = "call" /\ parts[k].id = x
      BY <1>8, <1>13, <2>1
    <3>2. k \in 1..(i + 1)
      BY <1>1
    <3> QED BY <3>1, <3>2
  <2>2. CASE x \notin s.used
    <3>1. p.form = "call" /\ x = p.id /\ p = parts[i + 1] /\ i + 1 \in 1..(i + 1)
      BY <1>1, <1>9, <1>13, <2>2
    <3> QED BY <3>1
  <2> QED BY <2>1, <2>2
<1> QED BY <1>3, <1>5, <1>10, <1>11, <1>12, <1>13 DEF Keeps, r

(* normalizeFunctionCallIDs keeps the parts that are no calls and the form *)
(* of all, gives every call an ID of its own, and changes nothing where    *)
(* the calls have one.                                                     *)
LEMMA NormalizedPartsAreKept ==
  ASSUME NEW parts \in Seq(Part), NEW new, new = normalizeFunctionCallIDs(parts)
  PROVE  /\ new \in Seq(Part) /\ Len(new) = Len(parts)
         /\ \A k \in 1..Len(parts) : /\ new[k].form = parts[k].form
                                     /\ parts[k].form # "call" => new[k] = parts[k]
         /\ \A j, k \in 1..Len(parts) : parts[j].form = "call" /\ parts[k].form = "call" /\ new[j].id = new[k].id => j = k
         /\ Distinguished(parts) => \A k \in 1..Len(parts) : new[k] = parts[k]
<1> DEFINE n == Len(parts)
<1>1. n \in Nat /\ DOMAIN parts = 1..n /\ parts \in [1..n -> Part]
  <2>1. \A x \in Seq(Part) : Len(x) \in Nat /\ DOMAIN x = 1..Len(x) /\ x \in [1..Len(x) -> Part]
    OBVIOUS
  <2> QED BY <2>1
<1>2. Len(parts) = n
  OBVIOUS
<1> HIDE DEF n
<1>3. PICK h : Assigns(h, parts, n) /\ normalizeFunctionCallIDs(parts) = h[n].parts
  BY <1>1, AssignsInTurn
<1> DEFINE T == {i \in 0..n : Keeps(h[i], parts, i)}
<1>4. 0 \in T
  <2> DEFINE z == [parts |-> <<>>, used |-> {}, next |-> 1]
  <2>1. h[0] = z
    BY <1>3 DEF Assigns
  <2>2. Keeps(z, parts, 0)
    <3>1. IsFiniteSet({}) /\ Cardinality({}) = 0
      BY FS_EmptySet
    <3>2. z \in [parts : Seq(Part), used : SUBSET IDs, next : Nat] /\ Len(z.parts) = 0 /\ z.used = {}
      OBVIOUS
    <3> HIDE DEF z
    <3> QED BY <3>1, <3>2 DEF Keeps
  <2> HIDE DEF z
  <2> QED BY <1>1, <2>1, <2>2
<1>5. ASSUME NEW i \in 0..(n - 1), i \in T PROVE i + 1 \in T
  <2>1. i + 1 \in 1..n /\ i + 1 \in 0..n /\ (i + 1) - 1 = i
    BY <1>1
  <2>2. Keeps(h[i], parts, i)
    BY <1>5
  <2>3. h[i + 1] = Assign(parts, h[i], parts[i + 1])
    BY <1>3, <2>1 DEF Assigns
  <2> HIDE DEF T
  <2>4. PICK p : Extends(h[i], h[i + 1], parts, i, p)
    BY <1>1, <1>2, <2>2, <2>3, AssignExtends
  <2>5. Keeps(h[i + 1], parts, i + 1)
    BY <1>1, <2>2, <2>4, ExtendedKeeps
  <2> QED BY <2>1, <2>5 DEF T
<1> HIDE DEF T
<1>6. n \in T
  <2>1. 0..n \subseteq T
    BY <1>1, <1>4, <1>5, Upwards
  <2> QED BY <1>1, <2>1
<1>7. Keeps(h[n], parts, n)
  BY <1>6 DEF T
<1>8. new = h[n].parts
  BY <1>3
<1> QED BY <1>2, <1>7, <1>8 DEF Keeps

-----------------------------------------------------------------------------
(* Elements.                                                               *)

(* What a sequence has at some places, in order.                           *)
LEMMA ElementsInOrder ==
  ASSUME NEW S, NEW seq \in Seq(S), NEW places, NEW at, at = Ordered(Len(seq), places)
  PROVE  /\ Sorts(at, places \cap 1..Len(seq))
         /\ \A k \in 1..Len(at) : at[k] \in Nat /\ at[k] \in places /\ at[k] \in 1..Len(seq)
         /\ Elements(seq, places) = [k \in 1..Len(at) |-> seq[at[k]]]
         /\ Elements(seq, places) \in Seq(S) /\ Len(Elements(seq, places)) = Len(at) /\ Len(at) \in Nat
<1> DEFINE n == Len(seq)
<1>1. n \in Nat /\ \A k \in 1..n : seq[k] \in S
  OBVIOUS
<1>2. Sorts(at, places \cap 1..n)
  BY <1>1, OrderedSorts
<1>3. Len(at) \in Nat /\ DOMAIN at = 1..Len(at) /\ at \in [1..Len(at) -> Nat]
  BY <1>2 DEF Sorts
<1>4. \A k \in 1..Len(at) : at[k] \in Nat /\ at[k] \in places /\ at[k] \in 1..n
  BY <1>2, <1>3 DEF Sorts
<1>5. Elements(seq, places) = [k \in 1..Len(at) |-> seq[at[k]]]
  BY <1>3 DEF Elements
<1> DEFINE new == [k \in 1..Len(at) |-> seq[at[k]]]
<1>6. new \in Seq(S) /\ Len(new) = Len(at)
  <2>1. \A m \in Nat : \A f \in [1..m -> S] : f \in Seq(S) /\ Len(f) = m
    OBVIOUS
  <2>2. new \in [1..Len(at) -> S]
    <3> HIDE DEF n
    <3> QED BY <1>1, <1>4
  <2> HIDE DEF new
  <2> QED BY <1>3, <2>1, <2>2
<1> HIDE DEF new
<1> QED BY <1>2, <1>3, <1>4, <1>5, <1>6 DEF new

(* At no place there is nothing.                                           *)
LEMMA ElementsNowhere ==
  ASSUME NEW seq, Len(seq) \in Nat
  PROVE  Elements(seq, {}) = <<>>
<1> DEFINE at == Ordered(Len(seq), {})
<1>1. Sorts(at, {} \cap 1..Len(seq))
  BY OrderedSorts
<1>2. Len(at) = 0 /\ at \in Seq(Nat)
  <2>1. Len(at) \in Nat /\ (\A k \in 1..Len(at) : at[k] \in {}) /\ at \in Seq(Nat)
    BY <1>1 DEF Sorts
  <2> HIDE DEF at
  <2>2. Len(at) = 0 \/ 1 \in 1..Len(at)
    BY <2>1
  <2> QED BY <2>1, <2>2
<1>3. at = <<>>
  <2> HIDE DEF at
  <2> QED BY <1>2
<1>4. Elements(seq, {}) = [k \in DOMAIN at |-> seq[at[k]]]
  BY DEF Elements
<1> HIDE DEF at
<1> QED BY <1>3, <1>4

(* Where two sequences are the same they have the same elements.           *)
LEMMA ElementsAlike ==
  ASSUME NEW S, NEW seq \in Seq(S), NEW new \in Seq(S), Len(new) = Len(seq), NEW places,
         \A k \in places \cap 1..Len(seq) : new[k] = seq[k]
  PROVE  Elements(new, places) = Elements(seq, places)
<1> DEFINE at == Ordered(Len(seq), places)
<1>1. Elements(seq, places) = [k \in DOMAIN at |-> seq[at[k]]]
  BY DEF Elements
<1>2. Elements(new, places) = [k \in DOMAIN at |-> new[at[k]]]
  BY DEF Elements
<1>3. Sorts(at, places \cap 1..Len(seq))
  <2>1. Len(seq) \in Nat
    OBVIOUS
  <2> QED BY <2>1, OrderedSorts
<1> HIDE DEF at
<1>4. \A k \in DOMAIN at : at[k] \in places \cap 1..Len(seq)
  <2>1. DOMAIN at = 1..Len(at)
    BY <1>3 DEF Sorts
  <2> QED BY <1>3, <2>1 DEF Sorts
<1>5. \A k \in DOMAIN at : new[at[k]] = seq[at[k]]
  BY <1>4
<1> QED BY <1>1, <1>2, <1>5

(* The bytes of the texts are a number.                                    *)
LEMMA TextBytesAreCounted ==
  ASSUME NEW parts \in Seq(Part)
  PROVE  TextBytes(parts) \in Nat
<1> DEFINE said == Elements(parts, {i \in DOMAIN parts : parts[i].form = "text" /\ ~parts[i].thought})
           n == Len(said)
<1>1. said \in Seq(Part)
  BY ElementsInOrder
<1> HIDE DEF said
<1>2. n \in Nat /\ DOMAIN said = 1..n /\ \A k \in 1..n : said[k].bytes \in Nat
  <2>1. \A p \in Part : p.bytes \in Nat
    BY DEF Part
  <2>2. n \in Nat /\ DOMAIN said = 1..n /\ \A k \in 1..n : said[k] \in Part
    BY <1>1
  <2> QED BY <2>1, <2>2
<1> HIDE DEF n
<1>3. PICK h : Adds(h, said, n) /\ FoldLeft(LAMBDA sum, part : sum + part.bytes, 0, said) = h[n]
  BY <1>2, AddsInTurn
<1>4. TextBytes(parts) = h[n]
  BY <1>3 DEF TextBytes, said
<1> DEFINE T == {i \in 0..n : h[i] \in Nat}
<1>5. 0 \in T
  <2>1. h[0] = 0
    BY <1>3, Zenon DEF Adds
  <2> QED BY <1>2, <2>1
<1>6. ASSUME NEW i \in 0..(n - 1), i \in T PROVE i + 1 \in T
  <2>1. i + 1 \in 1..n /\ (i + 1) - 1 = i /\ i + 1 \in 0..n /\ h[i] \in Nat
    BY <1>2, <1>6
  <2>2. h[i + 1] = h[i] + said[i + 1].bytes
    BY <1>3, <2>1 DEF Adds
  <2> QED BY <1>2, <2>1, <2>2
<1> HIDE DEF T
<1>7. n \in T
  <2>1. 0..n \subseteq T
    BY <1>2, <1>5, <1>6, Upwards
  <2> QED BY <1>2, <2>1
<1> QED BY <1>4, <1>7 DEF T

(* The calls come after the text.                                          *)
LEMMA CallsAfterText ==
  ASSUME NEW m \in Nat, NEW n \in Nat, NEW parts \in Seq(Part), Len(parts) = m + n,
         \A k \in 1..m : parts[k].form # "call",
         \A k \in 1..n : parts[m + k].form = "call"
  PROVE  Calls(parts) = [k \in 1..n |-> parts[m + k]]
<1> DEFINE at == Ordered(Len(parts), CallsIn(parts))
           numbers == CallsIn(parts) \cap 1..Len(parts)
           s == [k \in 1..n |-> m + k]
<1>1. Sorts(at, numbers) /\ Calls(parts) = [k \in 1..Len(at) |-> parts[at[k]]]
  BY ElementsInOrder DEF Calls
<1>2. numbers = (m + 1)..(m + n)
  <2>1. DOMAIN parts = 1..(m + n)
    OBVIOUS
  <2>2. \A x \in numbers : x \in (m + 1)..(m + n)
    BY <2>1 DEF CallsIn
  <2>3. ASSUME NEW x \in (m + 1)..(m + n) PROVE x \in numbers
    <3>1. x - m \in 1..n /\ m + (x - m) = x /\ x \in 1..(m + n)
      OBVIOUS
    <3>2. parts[m + (x - m)].form = "call"
      BY <3>1
    <3> QED BY <2>1, <3>1, <3>2 DEF CallsIn
  <2> QED BY <2>2, <2>3
<1>3. s \in Seq(Nat) /\ Len(s) = n /\ s \in [1..n -> Nat]
  <2>1. \A i \in Nat : \A f \in [1..i -> Nat] : f \in Seq(Nat) /\ Len(f) = i
    OBVIOUS
  <2>2. s \in [1..n -> Nat]
    OBVIOUS
  <2> HIDE DEF s
  <2> QED BY <2>1, <2>2
<1>4. Sorts(s, numbers)
  <2>1. /\ \A j, k \in 1..n : j < k => s[j] < s[k]
        /\ \A k \in 1..n : s[k] \in (m + 1)..(m + n)
    OBVIOUS
  <2>2. \A x \in (m + 1)..(m + n) : \E k \in 1..n : s[k] = x
    <3> TAKE x \in (m + 1)..(m + n)
    <3>1. x - m \in 1..n /\ s[x - m] = x
      OBVIOUS
    <3> QED BY <3>1
  <2> HIDE DEF s, numbers
  <2> QED BY <1>2, <1>3, <2>1, <2>2 DEF Sorts
<1> HIDE DEF at, numbers
<1>5. at = s
  BY <1>1, <1>4, SortedOnce
<1> QED BY <1>1, <1>3, <1>5

-----------------------------------------------------------------------------
(* Responses.                                                              *)

(* With their IDs normalized the calls of a response are as many, and no   *)
(* two have the same ID; its texts are what they were.                     *)
LEMMA NormalizedCalls ==
  ASSUME NEW parts \in Seq(Part), NEW new, new = normalizeFunctionCallIDs(parts)
  PROVE  /\ new \in Seq(Part) /\ TextBytes(new) = TextBytes(parts)
         /\ Calls(new) \in Seq(Part) /\ Len(Calls(new)) = Len(Calls(parts))
         /\ \A j, k \in 1..Len(Calls(new)) : Calls(new)[j].id = Calls(new)[k].id => j = k
         /\ Distinguished(parts) => Calls(new) = Calls(parts)
<1> DEFINE n == Len(parts)
<1>1. /\ new \in Seq(Part) /\ Len(new) = n
      /\ \A k \in 1..n : new[k].form = parts[k].form /\ (parts[k].form # "call" => new[k] = parts[k])
  BY NormalizedPartsAreKept
<1>2. /\ \A j, k \in 1..n : parts[j].form = "call" /\ parts[k].form = "call" /\ new[j].id = new[k].id => j = k
      /\ Distinguished(parts) => \A k \in 1..n : new[k] = parts[k]
  BY NormalizedPartsAreKept
<1>3. n \in Nat /\ DOMAIN parts = 1..n /\ DOMAIN new = 1..n
  BY <1>1
<1> HIDE DEF n
<1>4. CallsIn(new) = CallsIn(parts) /\ CallsIn(parts) \subseteq 1..n
  BY <1>1, <1>3 DEF CallsIn
<1>5. TextBytes(new) = TextBytes(parts)
  <2> DEFINE texts == {i \in DOMAIN parts : parts[i].form = "text" /\ ~parts[i].thought}
  <2>1. {i \in DOMAIN new : new[i].form = "text" /\ ~new[i].thought} = texts
    BY <1>1, <1>3
  <2>2. \A k \in texts \cap 1..Len(parts) : new[k] = parts[k]
    BY <1>1, <1>3
  <2>3. Len(new) = Len(parts)
    BY <1>1 DEF n
  <2> HIDE DEF texts
  <2>4. Elements(new, texts) = Elements(parts, texts)
    BY <1>1, <2>2, <2>3, ElementsAlike
  <2> QED BY <2>1, <2>4 DEF TextBytes, texts
<1> DEFINE at == Ordered(n, CallsIn(parts))
<1>6. /\ Sorts(at, CallsIn(parts) \cap 1..n)
      /\ Calls(new) = [k \in 1..Len(at) |-> new[at[k]]]
      /\ Calls(new) \in Seq(Part) /\ Len(Calls(new)) = Len(at)
  <2>1. at = Ordered(Len(new), CallsIn(new)) /\ Len(new) = n
    BY <1>1, <1>4
  <2> HIDE DEF at
  <2>2. /\ Sorts(at, CallsIn(new) \cap 1..Len(new))
        /\ Elements(new, CallsIn(new)) = [k \in 1..Len(at) |-> new[at[k]]]
        /\ Elements(new, CallsIn(new)) \in Seq(Part) /\ Len(Elements(new, CallsIn(new))) = Len(at)
    BY <1>1, <2>1, ElementsInOrder
  <2> QED BY <1>4, <2>1, <2>2 DEF Calls
<1>7. Len(Calls(parts)) = Len(at)
  <2>1. at = Ordered(Len(parts), CallsIn(parts))
    BY DEF n
  <2> HIDE DEF at
  <2>2. /\ Sorts(at, CallsIn(parts) \cap 1..Len(parts))
        /\ Elements(parts, CallsIn(parts)) = [k \in 1..Len(at) |-> parts[at[k]]]
        /\ Elements(parts, CallsIn(parts)) \in Seq(Part) /\ Len(Elements(parts, CallsIn(parts))) = Len(at)
    BY <2>1, ElementsInOrder
  <2> QED BY <2>2 DEF Calls
<1> HIDE DEF at
<1>8. ASSUME NEW j \in 1..Len(at), NEW k \in 1..Len(at), new[at[j]].id = new[at[k]].id PROVE j = k
  <2>1. at[j] \in CallsIn(parts) \cap 1..n /\ at[k] \in CallsIn(parts) \cap 1..n
    BY <1>6 DEF Sorts
  <2>2. at[j] = at[k]
    BY <1>2, <1>8, <2>1 DEF CallsIn
  <2>3. at[j] \in Nat /\ (j < k => at[j] < at[k]) /\ (k < j => at[k] < at[j]) /\ Len(at) \in Nat
    BY <1>6 DEF Sorts
  <2> QED BY <2>2, <2>3
<1>9. \A j, k \in 1..Len(Calls(new)) : Calls(new)[j].id = Calls(new)[k].id => j = k
  BY <1>6, <1>8
<1>10. Distinguished(parts) => Calls(new) = Calls(parts)
  <2> SUFFICES ASSUME Distinguished(parts) PROVE Calls(new) = Calls(parts)
    OBVIOUS
  <2>1. \A k \in CallsIn(parts) \cap 1..Len(parts) : new[k] = parts[k]
    BY <1>2 DEF n
  <2>2. Len(new) = Len(parts)
    BY <1>1 DEF n
  <2>3. Elements(new, CallsIn(parts)) = Elements(parts, CallsIn(parts))
    BY <1>1, <2>1, <2>2, ElementsAlike
  <2> QED BY <1>4, <2>3 DEF Calls
<1> QED BY <1>1, <1>5, <1>6, <1>7, <1>9, <1>10

(* The default of a part is a part.                                        *)
LEMMA NoPartIsPart == NoPart \in Part
<1>1. NoID \in IDs /\ Empty \in Names
  BY DEF NoID, IDs, Names
<1> QED BY <1>1 DEF NoPart, Part, Arguments

(* So is a text of any size.                                               *)
LEMMA TextsAreParts ==
  ASSUME NEW bytes \in Nat
  PROVE  Text(bytes) \in Part /\ Text(bytes).form = "text"
<1>1. NoPart \in Part /\ NoPart.form = "text"
  BY NoPartIsPart DEF NoPart
<1> QED BY <1>1 DEF Text, Part

(* And a call, whatever ID, name and arguments it is given.                *)
LEMMA CallsAreParts ==
  ASSUME NEW id \in IDs, NEW name \in Names, NEW args \in Arguments
  PROVE  Call(id, name, args) \in Part /\ Call(id, name, args).form = "call" /\ Call(id, name, args).id = id
<1> DEFINE a == [NoPart EXCEPT !.form = "call"]
           b == [a EXCEPT !.id = id]
           c == [b EXCEPT !.name = name]
           d == [c EXCEPT !.args = args]
<1>1. a \in Part /\ a.form = "call"
  BY NoPartIsPart DEF Part
<1>2. b \in Part /\ b.form = "call" /\ b.id = id
  <2> HIDE DEF a
  <2> QED BY <1>1 DEF Part
<1>3. c \in Part /\ c.form = "call" /\ c.id = id
  <2> HIDE DEF b
  <2> QED BY <1>2 DEF Part
<1>4. d \in Part /\ d.form = "call" /\ d.id = id
  <2> HIDE DEF c
  <2> QED BY <1>3 DEF Part
<1>5. Call(id, name, args) = d
  BY DEF Call
<1> HIDE DEF d
<1> QED BY <1>4, <1>5

\* The malformed calls of a response are those it remembers as malformed.
Remembers(r, calls) ==
  /\ r.malformed \subseteq DOMAIN calls
  /\ \A i \in DOMAIN calls : calls[i].id \in r.failures <=> i \in r.malformed

\* A response that is no error.
Sound(r) ==
  /\ r.parts \in Seq(Part) /\ r.partial \in BOOLEAN /\ r.failures \subseteq IDs
  /\ ~request.chat => r.failures = {} /\ r.malformed = {}
  /\ Remembers(r, Calls(normalizeFunctionCallIDs(r.parts)))

(* A response of a caller's model remembers nothing.                       *)
LEMMA CallerResponsesAreSound ==
  ASSUME NEW r \in CallerResponses, ~request.chat
  PROVE  Sound(r)
<1>1. r \in [error : Names, parts : Seq(Part), failures : {{}}, finish : Names, partial : BOOLEAN, malformed : {{}}]
  BY OneShotAssumption DEF OneShotAssumption
<1>2. r.parts \in Seq(Part) /\ r.partial \in BOOLEAN /\ r.failures = {} /\ r.malformed = {}
  BY <1>1
<1> QED BY <1>2 DEF Sound, Remembers

(* The Chat adapter keeps a malformed call, with no arguments, and its ID. *)
LEMMA ProviderResponsesAreSound ==
  ASSUME NEW p \in ProviderResponses, NEW r, r = FromProvider(p), r.error = NoError, request.chat
  PROVE  Sound(r)
<1> DEFINE choice == p.choices[1]
           calls == choice.calls
           n == Len(calls)
           ids == NormalizedIDs(p.id, calls)
           bad == {i \in DOMAIN calls : ~Decodes(calls[i].args)}
           text == IF choice.bytes = 0 THEN <<>> ELSE <<Text(choice.bytes)>>
           asked == [i \in DOMAIN calls |-> Call(ids[i], calls[i].name, IF i \in bad THEN "object" ELSE calls[i].args)]
           c == ConvertedResponse(p, TRUE)
<1>1. p.id \in Names /\ p.choices \in Seq(Choice)
  <2>1. p \in [id : Names, choices : Seq(Choice)]
    BY OneShotAssumption DEF OneShotAssumption
  <2> QED BY <2>1
<1>2. c.error = NoError
  BY DEF FromProvider
<1>3. \A kind : Rejected(kind).error = kind
  BY DEF Rejected
<1>4. /\ p.choices # <<>> /\ Len(p.choices) <= 1
      /\ c = [error |-> NoError, finish |-> FinishReason(choice.finish), failures |-> {ids[i] : i \in bad},
              parts |-> text \o asked]
  <2> HIDE DEF choice, calls, ids, bad, text, asked
  <2>1. c = IF p.choices = <<>> THEN Rejected("empty_choices")
            ELSE IF Len(p.choices) > 1 THEN Rejected("multiple_choices")
            ELSE IF \E i \in DOMAIN calls : calls[i].name = Empty THEN Rejected("missing_function_name")
            ELSE IF bad # {} /\ ~TRUE THEN Rejected("malformed_arguments")
            ELSE [error |-> NoError, finish |-> FinishReason(choice.finish), failures |-> {ids[i] : i \in bad},
                  parts |-> text \o asked]
    BY DEF ConvertedResponse, choice, calls, ids, bad, text, asked
  <2> HIDE DEF c
  <2>2. NoError # "empty_choices" /\ NoError # "multiple_choices" /\ NoError # "missing_function_name"
    BY DEF NoError
  <2>3. /\ p.choices = <<>> => c.error = "empty_choices"
        /\ p.choices # <<>> /\ Len(p.choices) > 1 => c.error = "multiple_choices"
        /\ p.choices # <<>> /\ ~(Len(p.choices) > 1) /\ (\E i \in DOMAIN calls : calls[i].name = Empty)
           => c.error = "missing_function_name"
    BY <1>3, <2>1
  <2>4. p.choices # <<>> /\ ~(Len(p.choices) > 1) /\ ~(\E i \in DOMAIN calls : calls[i].name = Empty)
    BY <1>2, <2>2, <2>3
  <2>5. Len(p.choices) <= 1
    BY <1>1, <2>4
  <2> QED BY <2>1, <2>4, <2>5
<1>5. choice \in Choice
  <2>1. \A s \in Seq(Choice) : s # <<>> => s[1] \in Choice
    OBVIOUS
  <2> QED BY <1>1, <1>4, <2>1
<1>6. choice.bytes \in Nat /\ calls \in Seq(ChoiceCall)
  BY <1>5 DEF Choice
<1> HIDE DEF choice
<1>7. n \in Nat /\ DOMAIN calls = 1..n /\ \A i \in 1..n : calls[i].name \in Names /\ calls[i].args \in Arguments
  <2>1. n \in Nat /\ DOMAIN calls = 1..n /\ \A i \in 1..n : calls[i] \in ChoiceCall
    BY <1>6
  <2>2. \A x \in ChoiceCall : x.name \in Names /\ x.args \in Arguments
    BY DEF ChoiceCall
  <2> QED BY <2>1, <2>2
<1>8. /\ ids \in Seq(IDs) /\ Len(ids) = n /\ (\A k \in 1..n : ids[k] \in IDs /\ ids[k] # NoID)
      /\ \A j, k \in 1..n : ids[j] = ids[k] => j = k
  <2> HIDE DEF calls
  <2> QED BY <1>1, <1>6, NormalizedIDsAreDistinct
<1> HIDE DEF ids, calls, n
<1>9. /\ asked \in Seq(Part) /\ Len(asked) = n
      /\ \A i \in 1..n : asked[i].form = "call" /\ asked[i].id = ids[i]
  <2>1. ASSUME NEW i \in 1..n PROVE asked[i] \in Part /\ asked[i].form = "call" /\ asked[i].id = ids[i]
    <3> DEFINE args == IF i \in bad THEN "object" ELSE calls[i].args
    <3>1. args \in Arguments
      BY <1>7 DEF Arguments
    <3>2. asked[i] = Call(ids[i], calls[i].name, args)
      BY <1>7
    <3> HIDE DEF args, asked
    <3>3. ids[i] \in IDs /\ calls[i].name \in Names
      BY <1>7, <1>8
    <3> QED BY <3>1, <3>2, <3>3, CallsAreParts
  <2>2. asked \in [1..n -> Part]
    <3>1. DOMAIN asked = 1..n /\ asked = [i \in 1..n |-> asked[i]]
      BY <1>7
    <3> HIDE DEF asked
    <3> QED BY <2>1, <3>1
  <2> HIDE DEF asked
  <2>3. \A m \in Nat : \A f \in [1..m -> Part] : f \in Seq(Part) /\ Len(f) = m
    OBVIOUS
  <2> QED BY <1>7, <2>1, <2>2, <2>3
<1>10. text \in Seq(Part) /\ Len(text) \in Nat /\ \A k \in 1..Len(text) : text[k].form # "call"
  <2>1. CASE choice.bytes = 0
    BY <2>1
  <2>2. CASE choice.bytes # 0
    <3> DEFINE said == Text(choice.bytes)
    <3>1. said \in Part /\ said.form = "text"
      BY <1>6, TextsAreParts
    <3>2. text = <<said>>
      BY <2>2
    <3> HIDE DEF said, text
    <3> QED BY <3>1, <3>2
  <2> QED BY <2>1, <2>2
<1> HIDE DEF asked, text
<1>11. r.parts = text \o asked /\ r.failures = {ids[i] : i \in bad} /\ r.malformed = bad /\ r.partial = FALSE
  <2>1. r.parts = c.parts /\ r.failures = c.failures /\ r.partial = FALSE
    BY DEF FromProvider
  <2>2. r.malformed = bad
    BY <1>2 DEF FromProvider, bad, calls, choice
  <2> HIDE DEF c
  <2> QED BY <1>4, <2>1, <2>2
<1> HIDE DEF c
<1> DEFINE parts == text \o asked
           m == Len(text)
<1>12. /\ parts \in Seq(Part) /\ Len(parts) = m + n /\ m \in Nat
       /\ \A k \in 1..m : parts[k] = text[k]
       /\ \A k \in 1..n : parts[m + k] = asked[k]
  <2>1. \A s, t \in Seq(Part) : /\ s \o t \in Seq(Part) /\ Len(s \o t) = Len(s) + Len(t)
                                /\ \A k \in 1..Len(s) : (s \o t)[k] = s[k]
                                /\ \A k \in 1..Len(t) : (s \o t)[Len(s) + k] = t[k]
    OBVIOUS
  <2>2. text \in Seq(Part) /\ asked \in Seq(Part) /\ Len(asked) = n /\ m \in Nat
    BY <1>9, <1>10
  <2> QED BY <2>1, <2>2
<1> HIDE DEF parts, m
<1>13. Calls(parts) = [k \in 1..n |-> parts[m + k]]
  <2>1. \A k \in 1..m : parts[k].form # "call"
    BY <1>10, <1>12 DEF m
  <2>2. \A k \in 1..n : parts[m + k].form = "call"
    BY <1>9, <1>12
  <2> QED BY <1>7, <1>12, <2>1, <2>2, CallsAfterText
<1>14. Distinguished(parts)
  <2>1. ASSUME NEW j \in CallsIn(parts) PROVE j - m \in 1..n /\ m + (j - m) = j /\ parts[j].id = ids[j - m]
    <3>1. j \in 1..(m + n) /\ parts[j].form = "call"
      BY <1>7, <1>12 DEF CallsIn
    <3>2. ~(j \in 1..m)
      BY <1>10, <1>12, <3>1 DEF m
    <3>3. j - m \in 1..n /\ m + (j - m) = j
      <4>1. m \in Nat /\ n \in Nat
        BY <1>7, <1>12
      <4> QED BY <3>1, <3>2, <4>1
    <3> QED BY <1>9, <1>12, <3>3
  <2>2. ASSUME NEW j \in CallsIn(parts), NEW k \in CallsIn(parts)
        PROVE  parts[j].id # NoID /\ (parts[j].id = parts[k].id => j = k)
    <3>1. j - m \in 1..n /\ m + (j - m) = j /\ parts[j].id = ids[j - m]
      BY <2>1
    <3>2. k - m \in 1..n /\ m + (k - m) = k /\ parts[k].id = ids[k - m]
      BY <2>1
    <3>3. ids[j - m] = ids[k - m] => j - m = k - m
      BY <1>8, <3>1, <3>2
    <3>4. j - m = k - m => j = k
      BY <3>1, <3>2
    <3> QED BY <1>8, <3>1, <3>2, <3>3, <3>4
  <2> QED BY <2>2 DEF Distinguished
<1> DEFINE made == Calls(normalizeFunctionCallIDs(parts))
<1>15. made = [k \in 1..n |-> asked[k]]
  <2>1. made = Calls(parts)
    BY <1>12, <1>14, NormalizedCalls
  <2> HIDE DEF made
  <2> QED BY <1>12, <1>13, <2>1
<1> HIDE DEF made
<1>16. Remembers(r, made)
  <2>1. bad \subseteq 1..n
    BY <1>7
  <2> HIDE DEF bad
  <2>2. \A i \in 1..n : made[i].id = ids[i]
    BY <1>9, <1>15
  <2>3. \A i \in 1..n : ids[i] \in {ids[k] : k \in bad} <=> i \in bad
    BY <1>8, <2>1
  <2>4. DOMAIN made = 1..n
    BY <1>15
  <2> QED BY <1>11, <2>1, <2>2, <2>3, <2>4 DEF Remembers
<1>17. r.failures \subseteq IDs
  <2>1. \A i \in bad : ids[i] \in IDs
    BY <1>7, <1>8
  <2> HIDE DEF bad
  <2> QED BY <1>11, <2>1
<1>18. r.parts = parts
  BY <1>11 DEF parts
<1> QED BY <1>11, <1>12, <1>16, <1>17, <1>18 DEF Sound, made

(* Whatever answers.                                                       *)
LEMMA ResponsesAreSound ==
  ASSUME NEW r \in Responses, r.error = NoError, request.chat \in BOOLEAN
  PROVE  Sound(r)
<1>1. CASE request.chat
  <2>1. PICK p \in ProviderResponses : r = FromProvider(p)
    BY <1>1 DEF Responses
  <2> QED BY <1>1, <2>1, ProviderResponsesAreSound
<1>2. CASE ~request.chat
  <2>1. r \in CallerResponses
    BY <1>2 DEF Responses
  <2> QED BY <1>2, <2>1, CallerResponsesAreSound
<1> QED BY <1>1, <1>2

-----------------------------------------------------------------------------
(* The invariant.                                                          *)

Ended == {"rejected", "done", "deferred", "panicked"}

(* The batch holds the calls of one response with distinct IDs.            *)
BatchInv ==
  /\ batch \in Seq(Part) /\ Len(batch) <= MaxToolCallsPerResponse
  /\ tasks \in [DOMAIN batch -> {"waiting", "running", "unknown"} \cup Ended]
  /\ malformed \subseteq DOMAIN batch
  /\ \A i, j \in DOMAIN batch : batch[i].id = batch[j].id => i = j
  /\ pc = "tools" => last # "none" /\ ~Probing
  /\ pc # "tools" => batch = <<>>

(* The malformed calls that have not come up are exactly those that are    *)
(* remembered; nothing is left of them when the Chat adapter answers.      *)
RecoveryInv ==
  /\ \A i \in DOMAIN batch :
       /\ tasks[i] = "waiting" => (batch[i].id \in statistics.toolFailures <=> i \in malformed)
       /\ tasks[i] \notin {"waiting", "unknown"} => (tasks[i] = "rejected" <=> i \in malformed)
  /\ ~request.chat => statistics.toolFailures = {}
  /\ pc = "model" /\ last = "none" => statistics.toolFailures = {}

(* What the tools have completed are the calls that have ended.            *)
ResultsInv ==
  /\ executed \in Seq(IDs) /\ result.toolResults = executed
  /\ pc = "tools" => statistics.completed = {batch[i].id : i \in {j \in DOMAIN batch : tasks[j] \in Ended}}

\* What may go wrong before the session is deleted, and what is recorded of it.
Failures == Codes \ {"cleanup_failed"}
Follows(recorded, happened) ==
  happened \in Seq(Failures) /\ recorded = IF happened = <<>> THEN NoError ELSE happened[1]

(* The failure is the first that happened, and the codes follow it.        *)
FailureInv ==
  /\ Follows(failure, incidents)
  /\ pc = "start" => incidents = <<>> /\ session = "none"
  /\ pc \notin {"cleanup", "done"} => result.codes = <<>>
  /\ pc \in {"cleanup", "done"} => /\ failure # NoError => result.codes # <<>> /\ result.codes[1] = failure
                                   /\ result.codes = <<>> /\ ~Probing => found
  /\ pc = "cleanup" => ~Probing

(* The session lives until it is deleted, which fails only with its code.  *)
SessionInv ==
  /\ Probing => session = "none"
  /\ pc \in {"call", "model", "tools", "cleanup"} /\ ~Probing => session = "live"
  /\ pc = "cleanup" => "cleanup_failed" \notin ToSet(result.codes)
  /\ pc = "done" => (session = "live" <=> "cleanup_failed" \in ToSet(result.codes))

\* The values of the records.
Statistics == [modelCalls : 0..MaxModelCalls, toolCalls : Nat, completed : SUBSET IDs, toolFailures : SUBSET IDs]
Recordings == [text : 0..MaxReturnedTextBytes, callText : 0..MaxReturnedTextBytes]
Results == [text : 0..MaxReturnedTextBytes, toolResults : Seq(IDs), codes : Seq(Codes)]

(* The types of the variables, and the limits.                             *)
ValuesInv ==
  /\ request \in [op : {"run", "probe"}, chat : BOOLEAN, parallel : BOOLEAN]
  /\ pc \in {"start", "call", "model", "tools", "cleanup", "done"}
  /\ ctx \in {"live", "canceled", "deadline"} /\ session \in {"none", "live", "deleted"}
  /\ last \in {"none", "partial", "calls", "answers", "forged", "final"} /\ found \in BOOLEAN
  /\ statistics \in Statistics /\ responses \in Recordings /\ result \in Results

(* All together.                                                           *)
RunInv == ValuesInv /\ BatchInv /\ RecoveryInv /\ ResultsInv /\ FailureInv /\ SessionInv

(* No code of a failure is the absence of one.                             *)
LEMMA FailuresAreErrors == NoError \notin Codes
BY DEF NoError, Codes

(* The limits are what the assumption says of them.                        *)
LEMMA LimitsAreNumbers ==
  /\ MaxModelCalls \in Nat /\ MaxModelCalls >= 1 /\ MaxToolCallsPerResponse \in Nat /\ MaxToolCallsPerResponse >= 1
  /\ MaxReturnedTextBytes \in Nat
<1>1. \A n \in {MaxModelCalls, MaxToolCallsPerResponse, MaxReturnedTextBytes} : n \in Nat \ {0}
  BY OneShotAssumption DEF OneShotAssumption
<1>2. MaxModelCalls \in Nat \ {0} /\ MaxToolCallsPerResponse \in Nat \ {0} /\ MaxReturnedTextBytes \in Nat \ {0}
  BY <1>1
<1> QED BY <1>2

(* What TypeOK, ResultsAreExact and OutcomeIsHonest say follows.           *)
LEMMA RunInvIsEnough == RunInv => TypeOK /\ ResultsAreExact /\ OutcomeIsHonest
<1> SUFFICES ASSUME RunInv PROVE TypeOK /\ ResultsAreExact /\ OutcomeIsHonest
  OBVIOUS
<1>1. /\ request \in [op : {"run", "probe"}, chat : BOOLEAN, parallel : BOOLEAN]
      /\ pc \in {"start", "call", "model", "tools", "cleanup", "done"}
      /\ ctx \in {"live", "canceled", "deadline"} /\ session \in {"none", "live", "deleted"}
      /\ last \in {"none", "partial", "calls", "answers", "forged", "final"} /\ found \in BOOLEAN
  BY DEF RunInv, ValuesInv
<1>2. Len(batch) <= MaxToolCallsPerResponse /\ DOMAIN tasks = DOMAIN batch
  BY DEF RunInv, BatchInv
<1>3. Follows(failure, incidents)
  BY DEF RunInv, FailureInv
<1>4. failure \in Codes \cup {NoError} /\ (incidents # <<>> => failure = incidents[1] /\ failure # NoError)
  <2>1. \A s \in Seq(Failures) : s # <<>> => s[1] \in Failures
    OBVIOUS
  <2>2. \A x \in Failures : x \in Codes /\ x # NoError
    BY FailuresAreErrors DEF Failures
  <2> QED BY <1>3, <2>1, <2>2 DEF Follows
<1>5. statistics.modelCalls \in 0..MaxModelCalls /\ statistics.toolCalls \in Nat
  BY DEF RunInv, ValuesInv, Statistics
<1>6. responses.text <= MaxReturnedTextBytes /\ responses.callText <= MaxReturnedTextBytes
  BY LimitsAreNumbers DEF RunInv, ValuesInv, Recordings
<1>7. result.text <= MaxReturnedTextBytes /\ ToSet(result.codes) \subseteq Codes
  <2>1. result.text \in 0..MaxReturnedTextBytes /\ result.codes \in Seq(Codes)
    BY DEF RunInv, ValuesInv, Results
  <2>2. \A s \in Seq(Codes) : ToSet(s) \subseteq Codes
    BY DEF ToSet
  <2> QED BY <2>1, <2>2, LimitsAreNumbers
<1>8. TypeOK
  BY <1>1, <1>2, <1>4, <1>5, <1>6, <1>7 DEF TypeOK
<1>9. ResultsAreExact
  BY DEF RunInv, ResultsInv, RecoveryInv, ResultsAreExact
<1>10. OutcomeIsHonest
  <2> SUFFICES ASSUME pc = "done"
               PROVE  /\ incidents # <<>> => result.codes # <<>> /\ result.codes[1] = incidents[1]
                      /\ result.codes = <<>> /\ ~Probing => found
                      /\ session = "live" <=> "cleanup_failed" \in ToSet(result.codes)
    BY DEF OutcomeIsHonest
  <2>1. /\ failure # NoError => result.codes # <<>> /\ result.codes[1] = failure
        /\ result.codes = <<>> /\ ~Probing => found
    BY DEF RunInv, FailureInv
  <2>2. session = "live" <=> "cleanup_failed" \in ToSet(result.codes)
    BY DEF RunInv, SessionInv
  <2> QED BY <1>4, <2>1, <2>2
<1> QED BY <1>8, <1>9, <1>10

(* It holds when the call starts.                                          *)
LEMMA RunInvInit == Init => RunInv
<1> SUFFICES ASSUME Init PROVE RunInv
  OBVIOUS
<1>1. ValuesInv
  <2>1. statistics \in Statistics
    BY LimitsAreNumbers DEF Init, Statistics
  <2>2. responses \in Recordings
    BY LimitsAreNumbers DEF Init, Recordings
  <2>3. result \in Results
    BY LimitsAreNumbers DEF Init, Results
  <2> QED BY <2>1, <2>2, <2>3 DEF Init, ValuesInv
<1>2. BatchInv
  <2>1. batch = <<>> /\ tasks = <<>> /\ malformed = {} /\ pc = "start"
    BY DEF Init
  <2>2. <<>> \in Seq(Part) /\ Len(<<>>) = 0 /\ DOMAIN <<>> = {}
    OBVIOUS
  <2>3. <<>> \in [{} -> {"waiting", "running", "unknown"} \cup Ended]
    OBVIOUS
  <2> QED BY <2>1, <2>2, <2>3, LimitsAreNumbers DEF BatchInv
<1>3. RecoveryInv
  BY DEF Init, RecoveryInv
<1>4. ResultsInv
  BY DEF Init, ResultsInv
<1>5. FailureInv
  BY DEF Init, FailureInv, Follows
<1>6. SessionInv
  BY DEF Init, SessionInv
<1> QED BY <1>1, <1>2, <1>3, <1>4, <1>5, <1>6 DEF RunInv

(* With one more failure the first stays the first.                        *)
LEMMA FirstFailureStays ==
  ASSUME Follows(failure, incidents), NEW code \in Failures
  PROVE  Follows(Recorded(code), Append(incidents, code)) /\ Recorded(code) # NoError
<1>1. code # NoError /\ incidents \in Seq(Failures)
  BY FailuresAreErrors DEF Failures, Follows
<1>2. CASE incidents = <<>>
  <2>1. Append(incidents, code) = <<code>> /\ failure = NoError
    BY <1>2 DEF Follows
  <2> QED BY <1>1, <2>1 DEF Follows, Recorded
<1>3. CASE incidents # <<>>
  <2>1. \A s \in Seq(Failures) : s # <<>> => s[1] \in Failures /\ Append(s, code) \in Seq(Failures)
                                             /\ Append(s, code) # <<>> /\ Append(s, code)[1] = s[1]
    OBVIOUS
  <2>2. failure = incidents[1] /\ failure # NoError
    BY <1>1, <1>3, <2>1, FailuresAreErrors DEF Follows, Failures
  <2> QED BY <1>1, <1>3, <2>1, <2>2 DEF Follows, Recorded
<1> QED BY <1>2, <1>3

(* Run and Probe end with the failure that is recorded, or else with the   *)
(* code of the moment.                                                     *)
LEMMA RunEnds ==
  ASSUME RunInv, pc \in {"call", "model"}, NEW code \in Failures \cup {NoError},
         NEW text \in 0..MaxReturnedTextBytes, Leave(code, text),
         failure' # NoError => code = failure', code = NoError => Probing \/ found',
         UNCHANGED <<request, ctx, session, batch, tasks, malformed, executed>>,
         found' \in BOOLEAN, last' \in {"none", "partial", "calls", "answers", "forged", "final"},
         statistics' \in Statistics, ~request.chat => statistics'.toolFailures = {},
         responses' \in Recordings, Follows(failure', incidents')
  PROVE  RunInv'
<1>1. result \in Results /\ result.codes = <<>>
  BY DEF RunInv, ValuesInv, FailureInv
<1>2. Probing' = Probing /\ pc' = IF Probing THEN "done" ELSE "cleanup"
  BY DEF Leave, Probing
<1>3. /\ result' \in Results /\ result'.toolResults = result.toolResults
      /\ result'.codes = IF code = NoError THEN <<>> ELSE <<code>>
  <2> DEFINE codes == IF code = NoError THEN <<>> ELSE <<code>>
  <2>1. codes \in Seq(Codes)
    BY DEF Failures
  <2>2. codes = IF code = NoError THEN result.codes ELSE Append(result.codes, code)
    BY <1>1
  <2> HIDE DEF codes
  <2>3. result' = [result EXCEPT !.codes = codes, !.text = text]
    BY <2>2 DEF Leave
  <2>4. result' \in Results /\ result'.toolResults = result.toolResults /\ result'.codes = codes
    BY <1>1, <2>1, <2>3 DEF Results
  <2> QED BY <2>4 DEF codes
<1>4. "cleanup_failed" \notin ToSet(result'.codes)
  <2>1. code # "cleanup_failed"
    BY DEF Failures, NoError
  <2>2. ToSet(<<>>) = {} /\ ToSet(<<code>>) = {code}
    BY DEF ToSet
  <2> QED BY <1>3, <2>1, <2>2
<1>5. batch = <<>>
  BY DEF RunInv, BatchInv
<1>6. ValuesInv'
  BY <1>2, <1>3 DEF RunInv, ValuesInv
<1>7. BatchInv'
  BY <1>2, <1>5 DEF RunInv, BatchInv
<1>8. RecoveryInv'
  BY <1>2, <1>5 DEF RunInv, RecoveryInv
<1>9. ResultsInv'
  BY <1>2, <1>3 DEF RunInv, ResultsInv
<1>10. FailureInv'
  <2>1. code # NoError => result'.codes # <<>> /\ result'.codes[1] = code
    BY <1>3
  <2>2. result'.codes = <<>> => code = NoError
    BY <2>1
  <2>3. pc' \in {"cleanup", "done"} /\ (pc' = "cleanup" => ~Probing)
    BY <1>2
  <2> QED BY <1>2, <2>1, <2>2, <2>3 DEF FailureInv
<1>11. SessionInv'
  BY <1>2, <1>4 DEF RunInv, SessionInv
<1> QED BY <1>6, <1>7, <1>8, <1>9, <1>10, <1>11 DEF RunInv

-----------------------------------------------------------------------------
(* Every action keeps the invariant.                                       *)

(* Run and Probe begin: a request that is refused, a session that cannot   *)
(* be created, or a live one.                                              *)
LEMMA StartKeepsRunInv == RunInv /\ Start => RunInv'
<1> SUFFICES ASSUME RunInv, Start PROVE RunInv'
  OBVIOUS
<1>1. /\ pc = "start" /\ batch = <<>> /\ session = "none" /\ incidents = <<>>
      /\ result \in Results /\ result.codes = <<>> /\ Probing' = Probing
  BY DEF Start, RunInv, BatchInv, FailureInv, ValuesInv, Probing
<1>2. UNCHANGED <<request, ctx, batch, tasks, last, found, probed, statistics, failure, responses,
                  malformed, executed, incidents>>
  BY DEF Start, history
<1>3. BatchInv' /\ RecoveryInv'
  <2>1. pc' # "tools" /\ pc' # "model"
    BY DEF Start
  <2> QED BY <1>1, <1>2, <2>1 DEF RunInv, BatchInv, RecoveryInv
<1>4. ASSUME NEW code \in Failures, pc' = "done", result' = [result EXCEPT !.codes = <<code>>], UNCHANGED session
      PROVE  RunInv'
  <2>1. <<code>> \in Seq(Codes) /\ <<code>> # <<>> /\ <<code>>[1] = code /\ "cleanup_failed" \notin ToSet(<<code>>)
    BY <1>4 DEF Failures, ToSet
  <2> DEFINE codes == <<code>>
  <2> HIDE DEF codes
  <2>2. codes \in Seq(Codes) /\ codes # <<>> /\ "cleanup_failed" \notin ToSet(codes)
    BY <2>1 DEF codes
  <2>3. result' \in Results /\ result'.toolResults = result.toolResults /\ result'.codes = codes
    BY <1>1, <1>4, <2>2 DEF Results, codes
  <2>4. failure = NoError
    BY <1>1 DEF RunInv, FailureInv, Follows
  <2>5. ValuesInv'
    BY <1>2, <1>4, <2>3 DEF RunInv, ValuesInv
  <2>6. ResultsInv'
    BY <1>2, <1>4, <2>3 DEF RunInv, ResultsInv
  <2>7. FailureInv'
    BY <1>2, <1>4, <2>2, <2>3, <2>4 DEF RunInv, FailureInv
  <2>8. SessionInv'
    BY <1>1, <1>4, <2>2, <2>3 DEF SessionInv
  <2> QED BY <1>3, <2>5, <2>6, <2>7, <2>8 DEF RunInv
<1>5. CASE pc' = "done"
  <2>1. {"model_panic", "canceled", "execution_failed"} \subseteq Failures
    BY DEF Failures, Codes
  <2>2. \A matches : ExecutionCode(matches) \in {"canceled", "execution_failed"}
    BY DEF ExecutionCode
  <2>3. \E code \in Failures : result' = [result EXCEPT !.codes = <<code>>]
    <3>1. \/ result' = [result EXCEPT !.codes = <<"model_panic">>]
          \/ result' = [result EXCEPT !.codes = <<"canceled">>]
          \/ \E matches : result' = [result EXCEPT !.codes = <<IF ctx = "live" THEN "execution_failed"
                                                               ELSE ExecutionCode(matches)>>]
      BY <1>5 DEF Start
    <3> QED BY <2>1, <2>2, <3>1
  <2>4. UNCHANGED session
    BY <1>5 DEF Start
  <2> QED BY <1>4, <1>5, <2>3, <2>4
<1>6. CASE pc' # "done"
  <2>1. pc' = "call" /\ session' = (IF Probing THEN "none" ELSE "live") /\ UNCHANGED result
    BY <1>6 DEF Start
  <2>2. ValuesInv'
    BY <1>2, <2>1 DEF RunInv, ValuesInv
  <2>3. ResultsInv'
    BY <1>2, <2>1 DEF RunInv, ResultsInv
  <2>4. FailureInv'
    BY <1>1, <1>2, <2>1 DEF RunInv, FailureInv
  <2>5. SessionInv'
    BY <1>1, <1>2, <2>1 DEF RunInv, SessionInv
  <2> QED BY <1>3, <2>2, <2>3, <2>4, <2>5 DEF RunInv
<1> QED BY <1>5, <1>6

(* The model is called, unless its calls or their time are used up.        *)
LEMMA GenerateContentKeepsRunInv == RunInv /\ GenerateContent => RunInv'
<1> SUFFICES ASSUME RunInv, GenerateContent PROVE RunInv'
  OBVIOUS
<1>1. /\ pc = "call" /\ batch = <<>> /\ Follows(failure, incidents) /\ found \in BOOLEAN
      /\ last \in {"none", "partial", "calls", "answers", "forged", "final"}
      /\ statistics \in Statistics /\ responses \in Recordings /\ result.codes = <<>>
      /\ request.chat \in BOOLEAN
      /\ ~request.chat => statistics.toolFailures = {}
  BY DEF GenerateContent, RunInv, BatchInv, FailureInv, ValuesInv, RecoveryInv
<1>2. UNCHANGED <<request, ctx, session, contents, batch, tasks, found, probed, malformed, executed>>
  BY DEF GenerateContent
<1>3. responses.text \in 0..MaxReturnedTextBytes
  BY <1>1 DEF Recordings
<1>4. CASE failure # NoError \/ statistics.modelCalls >= ModelLimit
  <2>1. /\ failure' = Recorded("model_call_limit") /\ Stop(NoError, responses.text)
        /\ incidents' = IF failure = NoError THEN Append(incidents, "model_call_limit") ELSE incidents
        /\ UNCHANGED <<statistics, responses, last>>
    BY <1>4 DEF GenerateContent
  <2>2. "model_call_limit" \in Failures
    BY DEF Failures, Codes
  <2>3. Follows(failure', incidents') /\ failure' # NoError
    <3>1. CASE failure = NoError
      <4>1. incidents' = Append(incidents, "model_call_limit")
        BY <2>1, <3>1
      <4> QED BY <1>1, <2>1, <2>2, <4>1, FirstFailureStays
    <3>2. CASE failure # NoError
      BY <1>1, <2>1, <3>2 DEF Recorded
    <3> QED BY <3>1, <3>2
  <2>4. failure' \in Failures
    <3>1. \A s \in Seq(Failures) : s # <<>> => s[1] \in Failures
      OBVIOUS
    <3> QED BY <2>3, <3>1 DEF Follows
  <2>5. Leave(failure', responses.text)
    BY <2>1, <2>3 DEF Stop
  <2> QED BY <1>1, <1>2, <1>3, <2>1, <2>3, <2>4, <2>5, RunEnds
<1>5. CASE ~(failure # NoError \/ statistics.modelCalls >= ModelLimit)
  <2>1. /\ statistics' = [statistics EXCEPT !.modelCalls = @ + 1, !.toolFailures = clearToolFailures]
        /\ responses' = [responses EXCEPT !.callText = 0]
        /\ last' = "none" /\ UNCHANGED <<failure, incidents>>
        /\ Stop("execution_failed", responses.text) \/ (pc' = "model" /\ UNCHANGED result)
    BY <1>5 DEF GenerateContent
  <2>2. statistics' \in Statistics /\ statistics'.toolFailures = {} /\ statistics'.completed = statistics.completed
    <3>1. ModelLimit \in 0..MaxModelCalls
      BY LimitsAreNumbers DEF ModelLimit
    <3>2. statistics.modelCalls \in Nat /\ statistics.modelCalls + 1 \in 0..MaxModelCalls
      BY <1>1, <1>5, <3>1, LimitsAreNumbers DEF Statistics
    <3>3. clearToolFailures = {}
      BY DEF clearToolFailures
    <3> QED BY <1>1, <2>1, <3>2, <3>3 DEF Statistics
  <2>3. responses' \in Recordings
    BY <1>1, <2>1, LimitsAreNumbers DEF Recordings
  <2>4. CASE Stop("execution_failed", responses.text)
    <3>1. "execution_failed" \in Failures
      BY DEF Failures, Codes
    <3>2. failure' = NoError
      BY <1>5, <2>1
    <3>3. Leave("execution_failed", responses.text)
      BY <2>4, <3>2 DEF Stop
    <3>4. Follows(failure', incidents')
      BY <1>1, <2>1
    <3>5. "execution_failed" # NoError
      BY <3>1, FailuresAreErrors DEF Failures
    <3> QED BY <1>1, <1>2, <1>3, <2>1, <2>2, <2>3, <3>1, <3>2, <3>3, <3>4, <3>5, RunEnds
  <2>5. CASE pc' = "model" /\ UNCHANGED result
    <3>1. Probing' = Probing
      BY <1>2 DEF Probing
    <3>2. ValuesInv'
      BY <1>2, <2>1, <2>2, <2>3, <2>5 DEF RunInv, ValuesInv
    <3>3. BatchInv'
      BY <1>1, <1>2, <2>5, <3>1 DEF RunInv, BatchInv
    <3>4. RecoveryInv'
      BY <1>1, <1>2, <2>2 DEF RecoveryInv
    <3>5. ResultsInv'
      BY <1>2, <2>5 DEF RunInv, ResultsInv
    <3>6. FailureInv'
      BY <1>1, <1>2, <2>1, <2>5, <3>1 DEF FailureInv
    <3>7. SessionInv'
      BY <1>1, <1>2, <2>5, <3>1 DEF RunInv, SessionInv
    <3> QED BY <3>2, <3>3, <3>4, <3>5, <3>6, <3>7 DEF RunInv
  <2> QED BY <2>1, <2>4, <2>5
<1> QED BY <1>4, <1>5

(* Probe is over when the model's stream is.                               *)
LEMMA ProbeEndsKeepsRunInv == RunInv /\ ProbeEnds => RunInv'
<1> SUFFICES ASSUME RunInv, ProbeEnds PROVE RunInv'
  OBVIOUS
<1>1. /\ pc = "model" /\ Probing /\ Follows(failure, incidents) /\ found \in BOOLEAN
      /\ last \in {"none", "partial", "calls", "answers", "forged", "final"}
      /\ statistics \in Statistics /\ responses \in Recordings
      /\ ~request.chat => statistics.toolFailures = {}
  BY DEF ProbeEnds, RunInv, FailureInv, ValuesInv, RecoveryInv
<1>2. UNCHANGED <<request, ctx, session, batch, tasks, last, found, statistics, failure, responses,
                  malformed, executed, incidents>>
  BY DEF ProbeEnds, work, history
<1>3. responses.text \in 0..MaxReturnedTextBytes
  BY <1>1 DEF Recordings
<1> DEFINE code == CASE probed = <<>> -> "no_final_response"
                     [] Len(probed) = 1 -> ProbeCode(probed[1])
                     [] OTHER -> "tool_calling_unsupported"
           said == IF failure' # NoError THEN failure' ELSE code
<1>4. code \in Failures \cup {NoError}
  <2>1. {"no_final_response", "tool_calling_unsupported", "execution_failed"} \subseteq Failures
    BY DEF Failures, Codes
  <2>2. ProbeCode(probed[1]) \in Failures \cup {NoError}
    BY <2>1 DEF ProbeCode
  <2> HIDE DEF ProbeCode
  <2>3. CASE probed = <<>>
    <3>1. Len(probed) # 1
      BY <2>3
    <3>2. code = "no_final_response"
      BY <2>3, <3>1
    <3> QED BY <2>1, <3>2
  <2>4. CASE probed # <<>>
    BY <2>1, <2>2, <2>4
  <2> QED BY <2>3, <2>4
<1>5. Stop(code, responses.text)
  BY DEF ProbeEnds
<1> HIDE DEF code
<1>6. Leave(said, responses.text)
  BY <1>5 DEF Stop
<1>7. said \in Failures \cup {NoError} /\ (failure' # NoError => said = failure')
  <2>1. \A s \in Seq(Failures) : s # <<>> => s[1] \in Failures
    OBVIOUS
  <2> QED BY <1>1, <1>2, <1>4, <2>1 DEF Follows
<1> HIDE DEF said
<1>8. Follows(failure', incidents')
  BY <1>1, <1>2
<1> QED BY <1>1, <1>2, <1>3, <1>6, <1>7, <1>8, RunEnds

(* Run is over when the runner's stream is.                                *)
LEMMA StreamEndsKeepsRunInv == RunInv /\ StreamEnds => RunInv'
<1> SUFFICES ASSUME RunInv, StreamEnds PROVE RunInv'
  OBVIOUS
<1>1. /\ pc = "model" /\ ~Probing /\ Follows(failure, incidents) /\ found \in BOOLEAN
      /\ last \in {"none", "partial", "calls", "answers", "forged", "final"} /\ batch = <<>>
      /\ statistics \in Statistics /\ responses \in Recordings /\ result \in Results /\ result.codes = <<>>
      /\ ~request.chat => statistics.toolFailures = {}
  BY DEF StreamEnds, RunInv, BatchInv, FailureInv, ValuesInv, RecoveryInv
<1>2. UNCHANGED <<request, ctx, session, batch, tasks, last, found, statistics, failure, responses,
                  malformed, executed, incidents>>
  BY DEF StreamEnds, work, history
<1>3. responses.text \in 0..MaxReturnedTextBytes /\ result.text \in 0..MaxReturnedTextBytes
  BY <1>1 DEF Recordings, Results
<1>4. \/ pc' = "call" /\ UNCHANGED result
      \/ Stop("execution_failed", responses.text)
      \/ failure # NoError /\ Leave(failure, responses.text)
      \/ failure = NoError /\ found /\ Leave(NoError, result.text)
      \/ failure = NoError /\ Leave("no_final_response", responses.text)
  BY <1>1 DEF StreamEnds
<1>5. Follows(failure', incidents') /\ (failure' # NoError => failure' \in Failures) /\ failure' = failure
  <2>1. \A s \in Seq(Failures) : s # <<>> => s[1] \in Failures
    OBVIOUS
  <2> QED BY <1>1, <1>2, <2>1 DEF Follows
<1>6. "execution_failed" \in Failures /\ "no_final_response" \in Failures /\ NoError \notin Failures
  BY FailuresAreErrors DEF Failures, Codes
<1>7. ASSUME NEW code \in Failures \cup {NoError}, NEW text \in 0..MaxReturnedTextBytes, Leave(code, text),
             failure' # NoError => code = failure', code = NoError => found
      PROVE  RunInv'
  BY <1>1, <1>2, <1>5, <1>7, RunEnds
<1>8. CASE pc' = "call" /\ UNCHANGED result
  <2>1. Probing' = Probing
    BY <1>2 DEF Probing
  <2>2. ValuesInv'
    BY <1>2, <1>8 DEF RunInv, ValuesInv
  <2>3. BatchInv'
    BY <1>1, <1>2, <1>8 DEF RunInv, BatchInv
  <2>4. RecoveryInv'
    BY <1>1, <1>2, <1>8 DEF RunInv, RecoveryInv
  <2>5. ResultsInv'
    BY <1>2, <1>8 DEF RunInv, ResultsInv
  <2>6. FailureInv'
    BY <1>1, <1>2, <1>8, <2>1 DEF FailureInv
  <2>7. SessionInv'
    BY <1>1, <1>2, <1>8, <2>1 DEF RunInv, SessionInv
  <2> QED BY <2>2, <2>3, <2>4, <2>5, <2>6, <2>7 DEF RunInv
<1>9. CASE Stop("execution_failed", responses.text)
  <2>1. Leave(IF failure' # NoError THEN failure' ELSE "execution_failed", responses.text)
    BY <1>9 DEF Stop
  <2>2. CASE failure' # NoError
    <3>1. Leave(failure', responses.text)
      BY <2>1, <2>2
    <3> QED BY <1>3, <1>5, <1>7, <2>2, <3>1
  <2>3. CASE failure' = NoError
    <3>1. Leave("execution_failed", responses.text)
      BY <2>1, <2>3
    <3> QED BY <1>3, <1>6, <1>7, <2>3, <3>1
  <2> QED BY <2>2, <2>3
<1>10. CASE failure # NoError /\ Leave(failure, responses.text)
  BY <1>3, <1>5, <1>7, <1>10
<1>11. CASE failure = NoError /\ found /\ Leave(NoError, result.text)
  BY <1>3, <1>5, <1>7, <1>11
<1>12. CASE failure = NoError /\ Leave("no_final_response", responses.text)
  BY <1>3, <1>5, <1>6, <1>7, <1>12
<1> QED BY <1>4, <1>8, <1>9, <1>10, <1>11, <1>12

(* Partial texts share the limit with what came before them.               *)
LEMMA RecordedTextsAreBounded ==
  ASSUME responses \in Recordings, NEW r, r.parts \in Seq(Part), r.partial \in BOOLEAN
  PROVE  RecordedText(r) \in Recordings /\ RecordedText(r).text \in 0..MaxReturnedTextBytes
<1> DEFINE bytes == TextBytes(r.parts)
           limit == IF r.partial THEN MaxReturnedTextBytes - responses.callText ELSE MaxReturnedTextBytes
           value == Bounded(bytes, limit)
           call == IF r.partial THEN responses.callText + value ELSE value
           text == IF call # 0 THEN call ELSE responses.text
<1>1. bytes \in Nat
  BY TextBytesAreCounted
<1>2. responses.text \in 0..MaxReturnedTextBytes /\ responses.callText \in 0..MaxReturnedTextBytes
  BY DEF Recordings
<1> HIDE DEF bytes
<1>3. value \in 0..limit /\ limit \in 0..MaxReturnedTextBytes
  BY <1>1, <1>2, LimitsAreNumbers DEF Bounded
<1> HIDE DEF value
<1>4. call \in 0..MaxReturnedTextBytes
  BY <1>2, <1>3, LimitsAreNumbers
<1> HIDE DEF call
<1>5. text \in 0..MaxReturnedTextBytes
  BY <1>2, <1>4
<1>6. RecordedText(r) = [text |-> text, callText |-> call]
  BY DEF RecordedText, call, value, bytes
<1> HIDE DEF text
<1> QED BY <1>4, <1>5, <1>6 DEF Recordings

(* The model fails, and Run or Probe ends with its code.                   *)
LEMMA ModelFailsKeepsRunInv == RunInv /\ ModelFails => RunInv'
<1> SUFFICES ASSUME RunInv, ModelFails PROVE RunInv'
  OBVIOUS
<1>1. /\ pc = "model" /\ Follows(failure, incidents) /\ found \in BOOLEAN
      /\ last \in {"none", "partial", "calls", "answers", "forged", "final"}
      /\ statistics \in Statistics /\ responses \in Recordings
      /\ ~request.chat => statistics.toolFailures = {}
  BY DEF ModelFails, MayYield, RunInv, FailureInv, ValuesInv, RecoveryInv
<1>2. UNCHANGED <<request, ctx, session, batch, tasks, last, found, malformed, executed>>
  BY DEF ModelFails, work
<1>3. responses' \in Recordings /\ responses'.text \in 0..MaxReturnedTextBytes
  <2>1. CASE responses' = responses
    BY <1>1, <2>1 DEF Recordings
  <2>2. CASE responses' # responses
    <3>1. PICK r \in CallerResponses : ~request.chat /\ responses' = RecordedText(r)
      BY <2>2 DEF ModelFails
    <3>2. r.parts \in Seq(Part) /\ r.partial \in BOOLEAN
      BY <3>1, CallerResponsesAreSound DEF Sound
    <3> QED BY <1>1, <3>1, <3>2, RecordedTextsAreBounded
  <2> QED BY <2>1, <2>2
<1>4. statistics' \in Statistics /\ (~request.chat => statistics'.toolFailures = {})
  <2>1. statistics' = [statistics EXCEPT !.completed = {}]
    BY DEF ModelFails
  <2> QED BY <1>1, <2>1 DEF Statistics
<1>5. "model_panic" \in Failures /\ NoError \notin Failures
      /\ \A matches : ExecutionCode(matches) \in Failures
  BY FailuresAreErrors DEF Failures, Codes, ExecutionCode
<1>6. ASSUME NEW code \in Failures, Stop(code, responses'.text), Follows(failure', incidents')
      PROVE  RunInv'
  <2> DEFINE said == IF failure' # NoError THEN failure' ELSE code
  <2>1. Leave(said, responses'.text)
    BY <1>6 DEF Stop
  <2>2. said \in Failures /\ (failure' # NoError => said = failure')
    <3>1. \A s \in Seq(Failures) : s # <<>> => s[1] \in Failures
      OBVIOUS
    <3> QED BY <1>6, <3>1 DEF Follows
  <2> HIDE DEF said
  <2> QED BY <1>1, <1>2, <1>3, <1>4, <1>5, <1>6, <2>1, <2>2, RunEnds
<1>7. CASE /\ failure' = Recorded("model_panic") /\ incidents' = Append(incidents, "model_panic")
           /\ Stop("model_panic", responses'.text)
  <2>1. Follows(failure', incidents')
    BY <1>1, <1>5, <1>7, FirstFailureStays
  <2> QED BY <1>5, <1>6, <1>7, <2>1
<1>8. CASE /\ UNCHANGED <<failure, incidents>>
           /\ \E matches \in SUBSET {"canceled", "deadline"} : Stop(ExecutionCode(matches), responses'.text)
  <2>1. PICK matches : Stop(ExecutionCode(matches), responses'.text)
    BY <1>8
  <2>2. Follows(failure', incidents')
    BY <1>1, <1>8
  <2> DEFINE code == ExecutionCode(matches)
  <2>3. code \in Failures /\ Stop(code, responses'.text)
    BY <1>5, <2>1
  <2> HIDE DEF code
  <2> QED BY <1>6, <2>2, <2>3
<1> QED BY <1>7, <1>8 DEF ModelFails

(* No answer of the model counts as the result of a tool.                  *)
LEMMA NothingIsVouched ==
  ASSUME NEW parts \in Seq(Part)
  PROVE  Collected(Vouched, Forged(parts)) = <<>>
<1> DEFINE answers == Elements(parts, {i \in DOMAIN parts : parts[i].form = "response"})
           ids == [i \in DOMAIN answers |-> answers[i].id]
<1>1. answers \in Seq(Part)
  BY ElementsInOrder
<1> HIDE DEF answers
<1>2. Len(ids) \in Nat
  <2>1. DOMAIN answers = 1..Len(answers) /\ Len(answers) \in Nat /\ \A i \in 1..Len(answers) : answers[i] \in Part
    BY <1>1
  <2>2. \A p \in Part : p.id \in IDs
    BY DEF Part
  <2>3. ids \in [1..Len(answers) -> IDs]
    BY <2>1, <2>2
  <2>4. \A n \in Nat : \A f \in [1..n -> IDs] : Len(f) = n
    OBVIOUS
  <2> HIDE DEF ids
  <2> QED BY <2>1, <2>3, <2>4
<1>3. Forged(parts) = ids
  BY DEF Forged, answers
<1> HIDE DEF ids
<1>4. {k \in DOMAIN ids : ids[k] \in Vouched /\ \A j \in 1..(k - 1) : ids[j] # ids[k]} = {}
  BY DEF Vouched
<1>5. Collected(Vouched, ids) = Elements(ids, {})
  BY <1>4 DEF Collected
<1> QED BY <1>2, <1>3, <1>5, ElementsNowhere

(* The limits of a response.                                               *)
LEMMA LimitsOfResponse ==
  ASSUME NEW r
  PROVE  /\ LimitFailure(r) \in Failures \cup {NoError}
         /\ LimitFailure(r) = NoError => ~Overflows(r) /\ ~Crowded(r)
<1>1. {"output_truncated", "text_truncated", "tool_call_limit"} \subseteq Failures
  BY DEF Failures, Codes
<1>2. NoError \notin {"output_truncated", "text_truncated", "tool_call_limit"}
  BY DEF NoError
<1>3. \/ LimitFailure(r) \in {"output_truncated", "text_truncated", "tool_call_limit"}
      \/ LimitFailure(r) = NoError /\ ~Overflows(r) /\ ~Crowded(r)
  BY DEF LimitFailure
<1> QED BY <1>1, <1>2, <1>3

(* A response within the limits: its calls become the batch.               *)
LEMMA ResponseKeepsRunInv ==
  ASSUME RunInv, pc = "model", request.chat => last = "none",
         NEW r, Sound(r), LimitFailure(r) = NoError, Respond(r),
         UNCHANGED <<request, ctx, session, executed>>
  PROVE  RunInv'
<1> DEFINE parts == normalizeFunctionCallIDs(r.parts)
           asked == Calls(parts)
<1>1. /\ batch = <<>> /\ Follows(failure, incidents) /\ found \in BOOLEAN
      /\ request \in [op : {"run", "probe"}, chat : BOOLEAN, parallel : BOOLEAN]
      /\ statistics \in Statistics /\ responses \in Recordings /\ result \in Results /\ result.codes = <<>>
      /\ executed \in Seq(IDs) /\ result.toolResults = executed
      /\ Probing' = Probing
  BY DEF RunInv, BatchInv, FailureInv, ValuesInv, ResultsInv, Probing
<1>2. /\ responses' = RecordedText(r)
      /\ statistics' = [statistics EXCEPT !.completed = {}, !.toolFailures = @ \cup r.failures]
      /\ failure' = Recorded(NoError) /\ UNCHANGED incidents
      /\ last' = EventOf(r)
      /\ batch' = (IF r.partial \/ Probing THEN <<>> ELSE asked)
      /\ tasks' = [i \in DOMAIN batch' |-> "waiting"]
      /\ malformed' = (IF batch' = <<>> THEN {} ELSE r.malformed)
      /\ found' = (found \/ (last' = "final" /\ HasContent(r)))
      /\ result' = IF Probing THEN result
                   ELSE [result EXCEPT !.text = IF last' = "final" /\ HasContent(r) THEN TextBytes(parts) ELSE @,
                          !.toolResults = @ \o Collected(Vouched, Forged(parts))]
      /\ pc' = IF batch' = <<>> THEN "model" ELSE "tools"
  BY DEF Respond
<1>3. /\ r.parts \in Seq(Part) /\ r.partial \in BOOLEAN /\ r.failures \subseteq IDs
      /\ (~request.chat => r.failures = {} /\ r.malformed = {}) /\ Remembers(r, asked)
  BY DEF Sound
<1>4. /\ parts \in Seq(Part) /\ TextBytes(parts) = TextBytes(r.parts)
      /\ asked \in Seq(Part) /\ Len(asked) = Len(Calls(r.parts))
      /\ \A j, k \in 1..Len(asked) : asked[j].id = asked[k].id => j = k
  BY <1>3, NormalizedCalls
<1> HIDE DEF parts, asked
<1>5. ~Overflows(r) /\ Len(Calls(r.parts)) <= CallLimit
  <2>1. ~Overflows(r) /\ ~Crowded(r)
    BY LimitsOfResponse
  <2>2. CallLimit \in Nat
    BY LimitsAreNumbers DEF CallLimit
  <2>3. Len(Calls(r.parts)) \in Nat
    BY <1>4
  <2> QED BY <2>1, <2>2, <2>3 DEF Crowded
<1>6. EventOf(r) \in {"partial", "final", "calls", "forged"} /\ (EventOf(r) = "final" => ~r.partial)
  BY <1>3 DEF EventOf
<1>7. statistics.toolFailures = {}
  BY DEF RunInv, RecoveryInv
<1>8. statistics' \in Statistics /\ statistics'.toolFailures = r.failures /\ statistics'.completed = {}
  BY <1>1, <1>2, <1>3, <1>7 DEF Statistics
<1>9. responses' \in Recordings
  BY <1>1, <1>2, <1>3, RecordedTextsAreBounded
<1>10. result' \in Results /\ result'.toolResults = executed /\ result'.codes = <<>>
  <2>1. Collected(Vouched, Forged(parts)) = <<>>
    BY <1>4, NothingIsVouched
  <2>2. executed \o <<>> = executed
    BY <1>1
  <2> DEFINE text == IF last' = "final" /\ HasContent(r) THEN TextBytes(parts) ELSE result.text
  <2>3. text \in 0..MaxReturnedTextBytes
    <3>1. CASE last' = "final"
      <4>1. ~r.partial
        BY <1>2, <1>6, <3>1
      <4>2. TextBytes(r.parts) \in Nat /\ ~(TextBytes(r.parts) > MaxReturnedTextBytes)
        BY <1>3, <1>5, <4>1, TextBytesAreCounted DEF Overflows
      <4>3. TextBytes(parts) \in 0..MaxReturnedTextBytes
        BY <1>4, <4>2, LimitsAreNumbers
      <4> QED BY <1>1, <4>3 DEF Results
    <3>2. CASE last' # "final"
      BY <1>1, <3>2 DEF Results
    <3> QED BY <3>1, <3>2
  <2>4. result' = result \/ result' = [result EXCEPT !.text = text, !.toolResults = executed]
    BY <1>1, <1>2, <2>1, <2>2
  <2> HIDE DEF text
  <2> QED BY <1>1, <2>3, <2>4 DEF Results
<1>11. /\ batch' \in Seq(Part) /\ Len(batch') <= MaxToolCallsPerResponse
       /\ \A i, j \in DOMAIN batch' : batch'[i].id = batch'[j].id => i = j
       /\ malformed' \subseteq DOMAIN batch'
       /\ \A i \in DOMAIN batch' : batch'[i].id \in r.failures <=> i \in malformed'
       /\ batch' # <<>> => ~Probing
  <2>1. CASE batch' = <<>>
    BY <1>2, <2>1, LimitsAreNumbers
  <2>2. CASE batch' # <<>>
    <3>1. batch' = asked /\ ~Probing /\ malformed' = r.malformed
      BY <1>2, <2>2
    <3>2. Len(asked) <= MaxToolCallsPerResponse
      BY <1>4, <1>5, <3>1 DEF CallLimit
    <3>3. DOMAIN asked = 1..Len(asked)
      BY <1>4
    <3> QED BY <1>3, <1>4, <3>1, <3>2, <3>3 DEF Remembers
  <2> QED BY <2>1, <2>2
<1>12. failure' = failure
  BY <1>2 DEF Recorded
<1>13. ValuesInv'
  <2>1. last' \in {"none", "partial", "calls", "answers", "forged", "final"}
    BY <1>2, <1>6
  <2>2. found' \in BOOLEAN /\ pc' \in {"model", "tools"}
    BY <1>1, <1>2
  <2> QED BY <1>8, <1>9, <1>10, <2>1, <2>2 DEF RunInv, ValuesInv
<1>14. last' # "none"
  BY <1>2, <1>6
<1>15. BatchInv'
  <2>1. tasks' \in [DOMAIN batch' -> {"waiting", "running", "unknown"} \cup Ended]
    BY <1>2
  <2>2. (pc' = "tools" => batch' # <<>>) /\ (pc' # "tools" => batch' = <<>>)
    BY <1>2
  <2> QED BY <1>1, <1>11, <1>14, <2>1, <2>2 DEF BatchInv
<1>16. RecoveryInv'
  <2>1. \A i \in DOMAIN batch' : tasks'[i] = "waiting"
    BY <1>2
  <2> QED BY <1>3, <1>8, <1>11, <1>14, <2>1 DEF RecoveryInv
<1>17. ResultsInv'
  <2>1. \A i \in DOMAIN batch' : tasks'[i] \notin Ended
    BY <1>2 DEF Ended
  <2>2. {batch'[i].id : i \in {j \in DOMAIN batch' : tasks'[j] \in Ended}} = {}
    BY <2>1
  <2> QED BY <1>1, <1>8, <1>10, <2>2 DEF ResultsInv
<1>18. FailureInv'
  <2>1. pc' \in {"model", "tools"}
    BY <1>2
  <2> QED BY <1>1, <1>2, <1>10, <1>12, <2>1 DEF FailureInv
<1>19. SessionInv'
  <2>1. pc' \in {"model", "tools"}
    BY <1>2
  <2> QED BY <1>1, <2>1 DEF RunInv, SessionInv
<1> QED BY <1>13, <1>15, <1>16, <1>17, <1>18, <1>19 DEF RunInv

(* The model answers: its texts are recorded and its calls become the      *)
(* batch, or the response is over a limit.                                 *)
LEMMA ModelAnswersKeepsRunInv == RunInv /\ ModelAnswers => RunInv'
<1> SUFFICES ASSUME RunInv, ModelAnswers PROVE RunInv'
  OBVIOUS
<1>1. /\ pc = "model" /\ Follows(failure, incidents) /\ found \in BOOLEAN
      /\ last \in {"none", "partial", "calls", "answers", "forged", "final"}
      /\ statistics \in Statistics /\ responses \in Recordings /\ request.chat \in BOOLEAN
      /\ ~request.chat => statistics.toolFailures = {}
      /\ request.chat => last = "none"
  BY DEF ModelAnswers, MayYield, RunInv, FailureInv, ValuesInv, RecoveryInv
<1>2. UNCHANGED <<request, ctx, session, executed>>
  BY DEF ModelAnswers
<1>3. ASSUME NEW code \in Failures, NEW text \in 0..MaxReturnedTextBytes, Stop(code, text), Follows(failure', incidents'),
             UNCHANGED <<work, malformed>>, statistics' \in Statistics, responses' \in Recordings,
             ~request.chat => statistics'.toolFailures = {}
      PROVE  RunInv'
  <2> DEFINE said == IF failure' # NoError THEN failure' ELSE code
  <2>1. Leave(said, text)
    BY <1>3 DEF Stop
  <2>2. said \in Failures /\ (failure' # NoError => said = failure') /\ said # NoError
    <3>1. \A s \in Seq(Failures) : s # <<>> => s[1] \in Failures
      OBVIOUS
    <3> QED BY <1>3, <3>1, FailuresAreErrors DEF Follows, Failures
  <2> HIDE DEF said
  <2>3. UNCHANGED <<request, ctx, session, batch, tasks, malformed, executed, found, last>>
    BY <1>2, <1>3 DEF work
  <2> QED BY <1>1, <1>3, <2>1, <2>2, <2>3, RunEnds
<1>4. PICK r \in Responses :
        IF r.error # NoError
        THEN /\ statistics' = [statistics EXCEPT !.completed = {}]
             /\ UNCHANGED <<work, failure, responses, malformed, incidents>>
             /\ Stop("execution_failed", responses.text)
        ELSE Respond(r)
  BY DEF ModelAnswers
<1>5. CASE r.error # NoError
  <2>1. /\ statistics' = [statistics EXCEPT !.completed = {}]
        /\ UNCHANGED <<work, failure, responses, malformed, incidents>>
        /\ Stop("execution_failed", responses.text)
    BY <1>4, <1>5
  <2>2. statistics' \in Statistics /\ (~request.chat => statistics'.toolFailures = {})
    BY <1>1, <2>1 DEF Statistics
  <2>3. "execution_failed" \in Failures /\ responses.text \in 0..MaxReturnedTextBytes
    BY <1>1 DEF Failures, Codes, Recordings
  <2>4. Follows(failure', incidents')
    BY <1>1, <2>1
  <2> QED BY <1>1, <1>3, <2>1, <2>2, <2>3, <2>4
<1>6. CASE r.error = NoError
  <2>1. Respond(r) /\ Sound(r)
    BY <1>1, <1>4, <1>6, ResponsesAreSound
  <2>2. CASE LimitFailure(r) = NoError
    BY <1>1, <1>2, <2>1, <2>2, ResponseKeepsRunInv
  <2>3. CASE LimitFailure(r) # NoError
    <3> DEFINE code == LimitFailure(r)
    <3>1. /\ responses' = RecordedText(r)
          /\ statistics' = [statistics EXCEPT !.completed = {}, !.toolFailures = @ \cup r.failures]
          /\ failure' = Recorded(code) /\ incidents' = Append(incidents, code)
          /\ Stop(code, RecordedText(r).text) /\ UNCHANGED <<work, malformed>>
      BY <2>1, <2>3 DEF Respond
    <3>2. code \in Failures
      BY <2>3, LimitsOfResponse
    <3> HIDE DEF code
    <3>3. r.parts \in Seq(Part) /\ r.partial \in BOOLEAN /\ r.failures \subseteq IDs /\ (~request.chat => r.failures = {})
      BY <2>1 DEF Sound
    <3>4. statistics' \in Statistics /\ (~request.chat => statistics'.toolFailures = {})
      BY <1>1, <3>1, <3>3 DEF Statistics
    <3>5. responses' \in Recordings /\ RecordedText(r).text \in 0..MaxReturnedTextBytes
      BY <1>1, <3>1, <3>3, RecordedTextsAreBounded
    <3>6. Follows(failure', incidents')
      BY <1>1, <3>1, <3>2, FirstFailureStays
    <3> QED BY <1>3, <3>1, <3>2, <3>4, <3>5, <3>6
  <2> QED BY <2>2, <2>3
<1> QED BY <1>5, <1>6

-----------------------------------------------------------------------------
(* The tools.                                                              *)

(* A call of the batch starts, or is refused: as malformed, as one of an   *)
(* unknown tool, or as one too many.                                       *)
LEMMA ToolStartsKeepsRunInv ==
  ASSUME RunInv, NEW i \in DOMAIN batch, ToolStarts(i)
  PROVE  RunInv'
<1> DEFINE id == batch[i].id
<1>1. /\ pc = "tools" /\ tasks[i] = "waiting"
      /\ tasks \in [DOMAIN batch -> {"waiting", "running", "unknown"} \cup Ended]
      /\ statistics \in Statistics
      /\ \A j, k \in DOMAIN batch : batch[j].id = batch[k].id => j = k
  BY DEF ToolStarts, MayStart, RunInv, BatchInv, ValuesInv
<1>2. UNCHANGED <<request, pc, ctx, session, batch, last, found, failure, responses, result, malformed,
                  executed, incidents>>
  BY DEF ToolStarts, control, history
<1>3. id \in IDs
  <2>1. \A p \in Part : p.id \in IDs
    BY DEF Part
  <2>2. batch \in Seq(Part)
    BY DEF RunInv, BatchInv
  <2> QED BY <2>1, <2>2
<1>4. /\ \A j \in DOMAIN batch :
           /\ tasks[j] = "waiting" => (batch[j].id \in statistics.toolFailures <=> j \in malformed)
           /\ tasks[j] \notin {"waiting", "unknown"} => (tasks[j] = "rejected" <=> j \in malformed)
      /\ ~request.chat => statistics.toolFailures = {}
      /\ statistics.completed = {batch[j].id : j \in {k \in DOMAIN batch : tasks[k] \in Ended}}
  BY <1>1 DEF RunInv, RecoveryInv, ResultsInv
<1>5. ValuesInv' /\ BatchInv' /\ FailureInv' /\ SessionInv'
  <2>1. statistics' \in Statistics
    <3>1. \/ statistics' = statistics
          \/ statistics' = [statistics EXCEPT !.toolCalls = @ + 1, !.toolFailures = @ \ {id}, !.completed = @ \cup {id}]
          \/ statistics' = [statistics EXCEPT !.toolCalls = @ + 1]
      BY DEF ToolStarts
    <3> HIDE DEF id
    <3>2. CASE statistics' = [statistics EXCEPT !.toolCalls = @ + 1, !.toolFailures = @ \ {id}, !.completed = @ \cup {id}]
      <4> DEFINE counted == [statistics EXCEPT !.toolCalls = @ + 1]
                 cleared == [counted EXCEPT !.toolFailures = @ \ {id}]
      <4>1. counted \in Statistics
        BY <1>1 DEF Statistics
      <4>2. cleared \in Statistics
        <5> HIDE DEF counted
        <5> QED BY <4>1 DEF Statistics
      <4>3. [cleared EXCEPT !.completed = @ \cup {id}] \in Statistics
        <5> HIDE DEF cleared
        <5> QED BY <1>3, <4>2 DEF Statistics
      <4>4. statistics' = [cleared EXCEPT !.completed = @ \cup {id}]
        BY <1>1, <3>2 DEF Statistics
      <4> QED BY <4>3, <4>4
    <3>3. CASE statistics' = [statistics EXCEPT !.toolCalls = @ + 1]
      BY <1>1, <3>3 DEF Statistics
    <3> QED BY <1>1, <3>1, <3>2, <3>3
  <2>2. tasks' \in [DOMAIN batch -> {"waiting", "running", "unknown"} \cup Ended]
    <3>1. tasks' = [tasks EXCEPT ![i] = "unknown"] \/ tasks' = [tasks EXCEPT ![i] = "rejected"]
          \/ tasks' = [tasks EXCEPT ![i] = "running"]
      BY DEF ToolStarts, Task
    <3> QED BY <1>1, <3>1 DEF Ended
  <2>3. Probing' = Probing
    BY <1>2 DEF Probing
  <2>4. ValuesInv'
    BY <1>2, <2>1 DEF RunInv, ValuesInv
  <2>5. BatchInv'
    BY <1>2, <2>2, <2>3 DEF RunInv, BatchInv
  <2>6. FailureInv'
    BY <1>2, <2>3 DEF RunInv, FailureInv
  <2>7. SessionInv'
    BY <1>2, <2>3 DEF RunInv, SessionInv
  <2> QED BY <2>4, <2>5, <2>6, <2>7
<1>6. RecoveryInv' /\ ResultsInv'
  <2>1. CASE tasks' = [tasks EXCEPT ![i] = "unknown"] /\ UNCHANGED statistics
    <3>1. \A j \in DOMAIN batch : tasks'[j] = IF j = i THEN "unknown" ELSE tasks[j]
      BY <1>1, <2>1
    <3>2. {k \in DOMAIN batch : tasks'[k] \in Ended} = {k \in DOMAIN batch : tasks[k] \in Ended}
      BY <1>1, <3>1 DEF Ended
    <3>3. RecoveryInv'
      BY <1>1, <1>2, <1>4, <2>1, <3>1 DEF RecoveryInv
    <3> QED BY <1>2, <1>4, <2>1, <3>2, <3>3 DEF RunInv, ResultsInv
  <2>2. CASE /\ id \in statistics.toolFailures
             /\ tasks' = [tasks EXCEPT ![i] = "rejected"]
             /\ statistics' = [statistics EXCEPT !.toolCalls = @ + 1, !.toolFailures = @ \ {id}, !.completed = @ \cup {id}]
    <3>1. \A j \in DOMAIN batch : tasks'[j] = IF j = i THEN "rejected" ELSE tasks[j]
      BY <1>1, <2>2
    <3>2. statistics'.toolFailures = statistics.toolFailures \ {id} /\ statistics'.completed = statistics.completed \cup {id}
      BY <1>1, <2>2 DEF Statistics
    <3>3. {k \in DOMAIN batch : tasks'[k] \in Ended} = {k \in DOMAIN batch : tasks[k] \in Ended} \cup {i}
      BY <1>1, <3>1 DEF Ended
    <3>4. {batch[j].id : j \in {k \in DOMAIN batch : tasks'[k] \in Ended}} = statistics'.completed
      BY <1>4, <3>2, <3>3
    <3>5. ASSUME NEW j \in DOMAIN batch
          PROVE  /\ tasks'[j] = "waiting" => (batch[j].id \in statistics'.toolFailures <=> j \in malformed)
                 /\ tasks'[j] \notin {"waiting", "unknown"} => (tasks'[j] = "rejected" <=> j \in malformed)
      <4>1. CASE j = i
        BY <1>1, <1>4, <2>2, <3>1, <4>1
      <4>2. CASE j # i
        <5>1. batch[j].id # id
          BY <1>1, <4>2
        <5> HIDE DEF id
        <5> QED BY <1>4, <3>1, <3>2, <4>2, <5>1
      <4> QED BY <4>1, <4>2
    <3>6. RecoveryInv'
      BY <1>1, <1>2, <1>4, <3>2, <3>5 DEF RecoveryInv
    <3> QED BY <1>2, <3>4, <3>6 DEF RunInv, ResultsInv
  <2>3. CASE /\ id \notin statistics.toolFailures
             /\ tasks' = [tasks EXCEPT ![i] = "running"]
             /\ statistics' = [statistics EXCEPT !.toolCalls = @ + 1]
    <3>1. \A j \in DOMAIN batch : tasks'[j] = IF j = i THEN "running" ELSE tasks[j]
      BY <1>1, <2>3
    <3>2. statistics'.toolFailures = statistics.toolFailures /\ statistics'.completed = statistics.completed
      BY <1>1, <2>3 DEF Statistics
    <3>3. {k \in DOMAIN batch : tasks'[k] \in Ended} = {k \in DOMAIN batch : tasks[k] \in Ended}
      BY <1>1, <3>1 DEF Ended
    <3>4. RecoveryInv'
      BY <1>1, <1>2, <1>4, <2>3, <3>1, <3>2 DEF RecoveryInv
    <3> QED BY <1>2, <1>4, <3>2, <3>3, <3>4 DEF RunInv, ResultsInv
  <2> QED BY <2>1, <2>2, <2>3 DEF ToolStarts, Task
<1> QED BY <1>5, <1>6 DEF RunInv

(* A tool returns, goes on in the background or panics.                    *)
LEMMA ToolReturnsKeepsRunInv ==
  ASSUME RunInv, NEW i \in DOMAIN batch, ToolReturns(i)
  PROVE  RunInv'
<1> DEFINE id == batch[i].id
<1>1. /\ pc = "tools" /\ tasks[i] = "running"
      /\ tasks \in [DOMAIN batch -> {"waiting", "running", "unknown"} \cup Ended]
      /\ statistics \in Statistics /\ Follows(failure, incidents)
  BY DEF ToolReturns, RunInv, BatchInv, ValuesInv, FailureInv
<1>2. UNCHANGED <<request, pc, ctx, session, batch, last, found, responses, result, malformed, executed>>
  BY DEF ToolReturns, control
<1>3. id \in IDs
  <2>1. \A p \in Part : p.id \in IDs
    BY DEF Part
  <2>2. batch \in Seq(Part)
    BY DEF RunInv, BatchInv
  <2> QED BY <2>1, <2>2
<1>4. PICK state \in {"deferred", "done", "panicked"} : tasks' = [tasks EXCEPT ![i] = state]
  BY DEF ToolReturns, Task
<1>5. \A j \in DOMAIN batch : tasks'[j] = IF j = i THEN state ELSE tasks[j]
  BY <1>1, <1>4
<1>6. statistics' = [statistics EXCEPT !.completed = @ \cup {id}]
  BY DEF ToolReturns
<1>7. /\ statistics' \in Statistics /\ statistics'.completed = statistics.completed \cup {id}
      /\ statistics'.toolFailures = statistics.toolFailures
  <2> HIDE DEF id
  <2> QED BY <1>1, <1>3, <1>6 DEF Statistics
<1>8. Probing' = Probing
  BY <1>2 DEF Probing
<1>9. Follows(failure', incidents')
  <2>1. CASE UNCHANGED <<failure, incidents>>
    BY <1>1, <2>1
  <2>2. CASE failure' = Recorded("tool_panic") /\ incidents' = Append(incidents, "tool_panic")
    <3>1. "tool_panic" \in Failures
      BY DEF Failures, Codes
    <3> QED BY <1>1, <2>2, <3>1, FirstFailureStays
  <2> QED BY <2>1, <2>2 DEF ToolReturns
<1>10. ValuesInv'
  BY <1>2, <1>7 DEF RunInv, ValuesInv
<1>11. BatchInv'
  <2>1. tasks' \in [DOMAIN batch -> {"waiting", "running", "unknown"} \cup Ended]
    BY <1>1, <1>4 DEF Ended
  <2> QED BY <1>2, <1>8, <2>1 DEF RunInv, BatchInv
<1>12. RecoveryInv'
  BY <1>1, <1>2, <1>5, <1>7 DEF RunInv, RecoveryInv
<1>13. ResultsInv'
  <2>1. {k \in DOMAIN batch : tasks'[k] \in Ended} = {k \in DOMAIN batch : tasks[k] \in Ended} \cup {i}
    BY <1>1, <1>5 DEF Ended
  <2>2. statistics.completed = {batch[j].id : j \in {k \in DOMAIN batch : tasks[k] \in Ended}}
    BY <1>1 DEF RunInv, ResultsInv
  <2>3. {batch[j].id : j \in {k \in DOMAIN batch : tasks'[k] \in Ended}} = statistics'.completed
    BY <1>7, <2>1, <2>2
  <2> QED BY <1>2, <2>3 DEF RunInv, ResultsInv
<1>14. FailureInv'
  BY <1>1, <1>2, <1>8, <1>9 DEF RunInv, FailureInv
<1>15. SessionInv'
  BY <1>1, <1>2, <1>8 DEF RunInv, SessionInv
<1> QED BY <1>10, <1>11, <1>12, <1>13, <1>14, <1>15 DEF RunInv

(* The n calls of a batch have the IDs of id, distinct ones; of the answers *)
(* sent to the model, those of done are completed calls.                   *)
Answering(n, id, sent, done, completed) ==
  /\ n \in Nat /\ id \in [1..n -> IDs] /\ (\A i, j \in 1..n : id[i] = id[j] => i = j)
  /\ sent \in SUBSET (1..n) /\ done \in SUBSET sent
  /\ \A i \in sent : id[i] \in completed <=> i \in done

\* The IDs at some places, in the order of the calls.
IDsAt(n, id, places) == [k \in DOMAIN Ordered(n, places) |-> id[Ordered(n, places)[k]]]

(* Of the answers sent to the model those of the tools are collected, each *)
(* once and in the order of the calls.                                     *)
LEMMA AnswersCollected ==
  ASSUME NEW n, NEW id, NEW sent, NEW done, NEW completed, Answering(n, id, sent, done, completed)
  PROVE  /\ Collected(completed, IDsAt(n, id, sent)) = IDsAt(n, id, done) /\ IDsAt(n, id, done) \in Seq(IDs)
         /\ Ordered(n, sent) = <<>> => IDsAt(n, id, done) = <<>>
<1> DEFINE answers == Ordered(n, sent)
           ran == Ordered(n, done)
           ids == IDsAt(n, id, sent)
           names == IDsAt(n, id, done)
<1> SUFFICES ASSUME n \in Nat, id \in [1..n -> IDs], \A i, j \in 1..n : id[i] = id[j] => i = j,
                    sent \in SUBSET (1..n), done \in SUBSET sent,
                    \A i \in sent : id[i] \in completed <=> i \in done
             PROVE  Collected(completed, ids) = names /\ names \in Seq(IDs) /\ (answers = <<>> => names = <<>>)
  BY DEF Answering
<1>0. ids = [k \in DOMAIN answers |-> id[answers[k]]] /\ names = [k \in DOMAIN ran |-> id[ran[k]]]
  BY DEF IDsAt
<1> HIDE DEF ids, names
<1> DEFINE m == Len(answers)
           first == {k \in DOMAIN ids : ids[k] \in completed /\ \A j \in 1..(k - 1) : ids[j] # ids[k]}
<1>1. /\ answers \in Seq(Nat) /\ m \in Nat /\ answers \in [1..m -> Nat] /\ DOMAIN answers = 1..m
      /\ \A j, k \in 1..m : j < k => answers[j] < answers[k]
      /\ \A k \in 1..m : answers[k] \in sent
      /\ \A x \in sent : \E k \in 1..m : answers[k] = x
  <2>1. Sorts(answers, sent \cap 1..n) /\ sent \cap 1..n = sent
    BY OrderedSorts
  <2> QED BY <2>1 DEF Sorts
<1>2. Sorts(ran, done)
  <2>1. Sorts(ran, done \cap 1..n) /\ done \cap 1..n = done
    BY OrderedSorts
  <2> QED BY <2>1
<1> HIDE DEF m
<1> HIDE DEF answers, ran
<1>3. DOMAIN ids = 1..m /\ (\A k \in 1..m : ids[k] = id[answers[k]]) /\ Len(ids) = m
  <2>1. ids \in [1..m -> IDs]
    BY <1>0, <1>1
  <2>2. \A i \in Nat : \A f \in [1..i -> IDs] : Len(f) = i
    OBVIOUS
  <2>3. DOMAIN ids = 1..m /\ \A k \in 1..m : ids[k] = id[answers[k]]
    BY <1>0, <1>1
  <2> QED BY <1>1, <2>1, <2>2, <2>3
<1>4. \A k \in 1..m : k \in first <=> answers[k] \in done
  <2> TAKE k \in 1..m
  <2>1. ids[k] \in completed <=> answers[k] \in done
    BY <1>1, <1>3
  <2>2. ASSUME NEW j \in 1..(k - 1) PROVE ids[j] # ids[k]
    <3>1. j \in 1..m /\ j < k
      BY <1>1
    <3>2. answers[j] < answers[k] /\ answers[j] \in 1..n /\ answers[k] \in 1..n
      BY <1>1, <3>1
    <3>3. answers[j] # answers[k]
      BY <3>2
    <3> QED BY <1>3, <3>1, <3>2, <3>3
  <2> QED BY <1>3, <2>1, <2>2
<1>5. first \subseteq 1..m
  BY <1>3
<1> HIDE DEF first
<1> DEFINE at == Ordered(m, first)
           s == [k \in DOMAIN at |-> answers[at[k]]]
           q == Len(at)
<1>6. /\ q \in Nat /\ DOMAIN at = 1..q
      /\ \A j, k \in 1..q : j < k => at[j] < at[k]
      /\ \A k \in 1..q : at[k] \in first
      /\ \A x \in first : \E k \in 1..q : at[k] = x
  <2>1. Sorts(at, first \cap 1..m) /\ first \cap 1..m = first
    BY <1>1, <1>5, OrderedSorts
  <2> HIDE DEF at
  <2> QED BY <2>1 DEF Sorts
<1>7. Collected(completed, ids) = [k \in DOMAIN at |-> ids[at[k]]]
  <2>1. Collected(completed, ids) = Elements(ids, first)
    BY DEF Collected, first
  <2> QED BY <1>3, <2>1 DEF Elements
<1> HIDE DEF at, q
<1>8. \A k \in 1..q : at[k] \in 1..m /\ answers[at[k]] \in done /\ s[k] = answers[at[k]]
  BY <1>4, <1>5, <1>6
<1>9. DOMAIN s = 1..q /\ s \in Seq(Nat) /\ Len(s) = q /\ s \in [1..q -> Nat]
  <2>1. s \in [1..q -> Nat]
    BY <1>1, <1>6, <1>8
  <2>2. \A i \in Nat : \A f \in [1..i -> Nat] : f \in Seq(Nat) /\ Len(f) = i
    OBVIOUS
  <2> HIDE DEF s
  <2> QED BY <1>6, <2>1, <2>2
<1> HIDE DEF s
<1>10. \A j, k \in 1..q : j < k => s[j] < s[k]
  BY <1>1, <1>6, <1>8
<1>11. \A x \in done : \E k \in 1..q : s[k] = x
  <2> TAKE x \in done
  <2>1. PICK k \in 1..m : answers[k] = x
    BY <1>1
  <2>2. k \in first
    BY <1>4, <2>1
  <2>3. PICK j \in 1..q : at[j] = k
    BY <1>6, <2>2
  <2> QED BY <1>8, <2>1, <2>3
<1>12. Sorts(s, done)
  BY <1>6, <1>8, <1>9, <1>10, <1>11 DEF Sorts
<1>13. s = ran
  BY <1>2, <1>12, SortedOnce
<1>14. Collected(completed, ids) = names
  <2>1. \A k \in 1..q : ids[at[k]] = id[s[k]]
    BY <1>3, <1>8
  <2>2. DOMAIN ran = 1..q /\ DOMAIN at = 1..q
    BY <1>6, <1>9, <1>13
  <2>3. names = [k \in 1..q |-> id[s[k]]]
    BY <1>0, <1>13, <2>2
  <2>4. Collected(completed, ids) = [k \in 1..q |-> id[s[k]]]
    BY <1>7, <2>1, <2>2
  <2> QED BY <2>3, <2>4
<1>15. names \in Seq(IDs)
  <2>1. \A k \in 1..q : ran[k] \in 1..n
    BY <1>8, <1>13
  <2>2. names \in [1..q -> IDs]
    BY <1>0, <1>9, <1>13, <2>1
  <2>3. \A i \in Nat : \A f \in [1..i -> IDs] : f \in Seq(IDs)
    OBVIOUS
  <2> QED BY <1>6, <2>2, <2>3
<1>16. answers = <<>> => names = <<>>
  <2> SUFFICES ASSUME answers = <<>> PROVE names = <<>>
    OBVIOUS
  <2>1. m = 0
    BY DEF m
  <2>2. q = 0
    <3>1. q = 0 \/ 1 \in 1..q
      BY <1>6
    <3> QED BY <1>8, <2>1, <3>1
  <2>3. \A f \in Seq(Nat) : Len(f) = 0 => f = <<>>
    OBVIOUS
  <2>4. ran = <<>>
    BY <1>9, <1>13, <2>2, <2>3
  <2> QED BY <1>0, <2>4
<1> QED BY <1>14, <1>15, <1>16

(* The answers of a batch go to the model, and the results are recorded.   *)
LEMMA ToolsAnswerKeepsRunInv == RunInv /\ ToolsAnswer => RunInv'
<1> SUFFICES ASSUME RunInv, ToolsAnswer PROVE RunInv'
  OBVIOUS
<1> DEFINE n == Len(batch)
           sent == {i \in DOMAIN batch : tasks[i] # "deferred"}
           done == {i \in DOMAIN batch : tasks[i] \notin {"deferred", "unknown"}}
           answers == Ordered(n, sent)
           ran == Ordered(n, done)
           id == [i \in 1..n |-> batch[i].id]
           sentIDs == [k \in DOMAIN answers |-> batch[answers[k]].id]
           ranIDs == [k \in DOMAIN ran |-> batch[ran[k]].id]
<1>1. /\ pc = "tools" /\ (\A i \in DOMAIN batch : tasks[i] \notin {"waiting", "running"})
      /\ batch \in Seq(Part) /\ (\A j, k \in DOMAIN batch : batch[j].id = batch[k].id => j = k)
      /\ tasks \in [DOMAIN batch -> {"waiting", "running", "unknown"} \cup Ended]
      /\ statistics \in Statistics /\ Follows(failure, incidents) /\ result \in Results
      /\ last \in {"none", "partial", "calls", "answers", "forged", "final"} /\ last # "none" /\ ~Probing
      /\ executed \in Seq(IDs) /\ result.toolResults = executed /\ result.codes = <<>>
      /\ ~request.chat => statistics.toolFailures = {}
      /\ statistics.completed = {batch[i].id : i \in {j \in DOMAIN batch : tasks[j] \in Ended}}
  BY DEF ToolsAnswer, Over, RunInv, BatchInv, ValuesInv, FailureInv, ResultsInv, RecoveryInv
<1>2. /\ UNCHANGED <<request, ctx, session, found, failure, responses, incidents>>
      /\ pc' = "model" /\ batch' = <<>> /\ tasks' = <<>> /\ malformed' = {}
  BY DEF ToolsAnswer
<1>3. n \in Nat /\ DOMAIN batch = 1..n /\ \A i \in 1..n : batch[i].id \in IDs
  <2>1. \A p \in Part : p.id \in IDs
    BY DEF Part
  <2>2. n \in Nat /\ DOMAIN batch = 1..n /\ \A i \in 1..n : batch[i] \in Part
    BY <1>1
  <2> QED BY <2>1, <2>2
<1>4. /\ executed' = executed \o ranIDs
      /\ answers = <<>> => UNCHANGED <<last, statistics, result>>
      /\ answers # <<>> => /\ last' = "answers"
                           /\ result' = [result EXCEPT !.toolResults = @ \o Collected(statistics.completed, sentIDs)]
                           /\ statistics' = [statistics EXCEPT !.completed = {}]
  BY DEF ToolsAnswer
<1>5. \A i \in sent : id[i] \in statistics.completed <=> i \in done
  <2> TAKE i \in sent
  <2>1. i \in 1..n /\ id[i] = batch[i].id /\ tasks[i] # "deferred"
    BY <1>3
  <2>2. tasks[i] \in {"unknown"} \cup Ended
    BY <1>1, <1>3, <2>1
  <2>3. id[i] \in statistics.completed <=> tasks[i] \in Ended
    BY <1>1, <1>3, <2>1
  <2>4. "unknown" \notin Ended
    BY DEF Ended
  <2> QED BY <1>3, <2>1, <2>2, <2>3, <2>4
<1>6. sent \in SUBSET (1..n) /\ done \in SUBSET sent
  BY <1>3
<1>7. id \in [1..n -> IDs] /\ \A i, j \in 1..n : id[i] = id[j] => i = j
  BY <1>1, <1>3
<1> HIDE DEF n, id, sent, done
<1>8. sentIDs = IDsAt(n, id, sent) /\ ranIDs = IDsAt(n, id, done)
  <2>1. \A i \in 1..n : id[i] = batch[i].id
    BY DEF id
  <2>2. Sorts(answers, sent \cap 1..n) /\ Sorts(ran, done \cap 1..n)
    BY <1>3, OrderedSorts
  <2>3. /\ IDsAt(n, id, sent) = [k \in DOMAIN answers |-> id[answers[k]]]
        /\ IDsAt(n, id, done) = [k \in DOMAIN ran |-> id[ran[k]]]
    BY DEF IDsAt
  <2> HIDE DEF answers, ran
  <2>4. (\A k \in DOMAIN answers : answers[k] \in 1..n) /\ (\A k \in DOMAIN ran : ran[k] \in 1..n)
    <3>1. DOMAIN answers = 1..Len(answers) /\ DOMAIN ran = 1..Len(ran)
      BY <2>2 DEF Sorts
    <3> QED BY <2>2, <3>1 DEF Sorts
  <2> QED BY <2>1, <2>3, <2>4
<1>9. Answering(n, id, sent, done, statistics.completed)
  BY <1>3, <1>5, <1>6, <1>7 DEF Answering
<1> HIDE DEF sentIDs, ranIDs
<1>10. ranIDs \in Seq(IDs) /\ Collected(statistics.completed, sentIDs) = ranIDs /\ (answers = <<>> => ranIDs = <<>>)
  BY <1>8, <1>9, AnswersCollected
<1> HIDE DEF answers, ran
<1>11. executed' \in Seq(IDs) /\ result' \in Results /\ result'.toolResults = executed' /\ result'.codes = <<>>
  <2>1. executed \o ranIDs \in Seq(IDs) /\ executed \o <<>> = executed
    BY <1>1, <1>10
  <2> DEFINE both == executed \o ranIDs
  <2>2. executed' = both /\ both \in Seq(IDs)
    BY <1>4, <2>1
  <2>3. CASE answers = <<>>
    <3>1. executed' = executed /\ result' = result
      BY <1>4, <1>10, <2>1, <2>3
    <3> QED BY <1>1, <3>1
  <2>4. CASE answers # <<>>
    <3>1. result' = [result EXCEPT !.toolResults = both]
      BY <1>1, <1>4, <1>10, <2>4
    <3> HIDE DEF both
    <3> QED BY <1>1, <2>2, <3>1 DEF Results
  <2> QED BY <2>3, <2>4
<1>12. /\ statistics' \in Statistics /\ statistics'.toolFailures = statistics.toolFailures
       /\ last' \in {"none", "partial", "calls", "answers", "forged", "final"} /\ last' # "none"
  <2>1. CASE answers = <<>>
    BY <1>1, <1>4, <2>1
  <2>2. CASE answers # <<>>
    BY <1>1, <1>4, <2>2 DEF Statistics
  <2> QED BY <2>1, <2>2
<1>13. Probing' = Probing
  BY <1>2 DEF Probing
<1>14. ValuesInv'
  BY <1>2, <1>11, <1>12 DEF RunInv, ValuesInv
<1>15. BatchInv'
  <2>1. <<>> \in Seq(Part) /\ Len(<<>>) = 0 /\ DOMAIN <<>> = {}
    OBVIOUS
  <2>2. <<>> \in [{} -> {"waiting", "running", "unknown"} \cup Ended]
    OBVIOUS
  <2> QED BY <1>2, <2>1, <2>2, LimitsAreNumbers DEF BatchInv
<1>16. RecoveryInv'
  <2>1. \A i \in DOMAIN batch' : FALSE
    BY <1>2
  <2> QED BY <1>1, <1>2, <1>12, <2>1 DEF RecoveryInv
<1>17. ResultsInv'
  BY <1>2, <1>11 DEF ResultsInv
<1>18. FailureInv'
  BY <1>1, <1>2, <1>11, <1>13 DEF FailureInv
<1>19. SessionInv'
  BY <1>1, <1>2, <1>13 DEF RunInv, SessionInv
<1> QED BY <1>14, <1>15, <1>16, <1>17, <1>18, <1>19 DEF RunInv

-----------------------------------------------------------------------------
(* The end.                                                                *)

(* The session is deleted, or the result says that it was not.             *)
LEMMA CleanupKeepsRunInv == RunInv /\ Cleanup => RunInv'
<1> SUFFICES ASSUME RunInv, Cleanup PROVE RunInv'
  OBVIOUS
<1>1. /\ pc = "cleanup" /\ pc' = "done" /\ result \in Results /\ ~Probing
      /\ "cleanup_failed" \notin ToSet(result.codes) /\ session = "live"
      /\ failure # NoError => result.codes # <<>> /\ result.codes[1] = failure
      /\ result.codes = <<>> /\ ~Probing => found
  BY DEF Cleanup, RunInv, ValuesInv, FailureInv, SessionInv
<1>2. UNCHANGED <<request, ctx, batch, tasks, last, found, statistics, failure, responses, malformed, executed, incidents>>
  BY DEF Cleanup, work, history
<1>3. Probing' = Probing
  BY <1>2 DEF Probing
<1>4. BatchInv' /\ RecoveryInv'
  BY <1>1, <1>2, <1>3 DEF RunInv, BatchInv, RecoveryInv
<1>5. CASE session' = "deleted" /\ UNCHANGED result
  <2>1. ValuesInv'
    BY <1>1, <1>2, <1>5 DEF RunInv, ValuesInv
  <2>2. ResultsInv'
    BY <1>1, <1>2, <1>5 DEF RunInv, ResultsInv
  <2>3. FailureInv'
    BY <1>1, <1>2, <1>3, <1>5 DEF RunInv, FailureInv
  <2>4. SessionInv'
    BY <1>1, <1>3, <1>5 DEF SessionInv
  <2> QED BY <1>4, <2>1, <2>2, <2>3, <2>4 DEF RunInv
<1>6. CASE UNCHANGED session /\ result' = [result EXCEPT !.codes = Append(@, "cleanup_failed")]
  <2> DEFINE codes == Append(result.codes, "cleanup_failed")
  <2>1. /\ codes \in Seq(Codes) /\ codes # <<>> /\ "cleanup_failed" \in ToSet(codes)
        /\ result.codes # <<>> => codes[1] = result.codes[1]
    <3>1. result.codes \in Seq(Codes) /\ "cleanup_failed" \in Codes
      BY <1>1 DEF Results, Codes
    <3>2. codes \in Seq(Codes) /\ Len(codes) = Len(result.codes) + 1 /\ Len(result.codes) \in Nat
      BY <3>1
    <3>3. codes[Len(codes)] = "cleanup_failed"
      BY <3>1
    <3>4. result.codes # <<>> => codes[1] = result.codes[1]
      <4>1. result.codes # <<>> => 1 \in 1..Len(result.codes)
        BY <3>1
      <4> QED BY <3>1, <4>1
    <3> HIDE DEF codes
    <3>5. Len(codes) \in DOMAIN codes /\ codes # <<>>
      BY <3>2
    <3>6. "cleanup_failed" \in ToSet(codes)
      BY <3>3, <3>5 DEF ToSet
    <3> QED BY <3>2, <3>4, <3>5, <3>6
  <2> HIDE DEF codes
  <2>2. result' = [result EXCEPT !.codes = codes]
    BY <1>6 DEF codes
  <2>3. result' \in Results /\ result'.codes = codes /\ result'.toolResults = result.toolResults
    BY <1>1, <2>1, <2>2 DEF Results
  <2>4. ValuesInv'
    BY <1>1, <1>2, <1>6, <2>3 DEF RunInv, ValuesInv
  <2>5. ResultsInv'
    BY <1>1, <1>2, <2>3 DEF RunInv, ResultsInv
  <2>6. FailureInv'
    BY <1>1, <1>2, <1>3, <2>1, <2>3 DEF RunInv, FailureInv
  <2>7. SessionInv'
    BY <1>1, <1>3, <1>6, <2>1, <2>3 DEF SessionInv
  <2> QED BY <1>4, <2>4, <2>5, <2>6, <2>7 DEF RunInv
<1> QED BY <1>5, <1>6 DEF Cleanup

(* The caller's context ends.                                              *)
LEMMA ContextEndsKeepsRunInv == RunInv /\ ContextEnds => RunInv'
<1> SUFFICES ASSUME RunInv, ContextEnds PROVE RunInv'
  OBVIOUS
<1>1. ctx' \in {"canceled", "deadline"} /\ UNCHANGED <<request, pc, session, batch, tasks, last, found, statistics,
                                                       failure, responses, result, malformed, executed, incidents>>
  BY DEF ContextEnds, work, record, history
<1>2. Probing' = Probing
  BY <1>1 DEF Probing
<1>3. ValuesInv'
  BY <1>1 DEF RunInv, ValuesInv
<1>4. BatchInv' /\ RecoveryInv' /\ ResultsInv'
  BY <1>1, <1>2 DEF RunInv, BatchInv, RecoveryInv, ResultsInv
<1>5. FailureInv' /\ SessionInv'
  BY <1>1, <1>2 DEF RunInv, FailureInv, SessionInv
<1> QED BY <1>3, <1>4, <1>5 DEF RunInv

(* Nothing happens.                                                        *)
LEMMA NothingKeepsRunInv == RunInv /\ UNCHANGED vars => RunInv'
<1> SUFFICES ASSUME RunInv, UNCHANGED vars PROVE RunInv'
  OBVIOUS
<1>1. UNCHANGED <<request, pc, ctx, session, batch, tasks, last, found, statistics,
                  failure, responses, result, malformed, executed, incidents>>
  BY DEF vars, control, work, record, history
<1>2. Probing' = Probing
  BY <1>1 DEF Probing
<1>3. ValuesInv'
  BY <1>1 DEF RunInv, ValuesInv
<1>4. BatchInv' /\ RecoveryInv' /\ ResultsInv'
  BY <1>1, <1>2 DEF RunInv, BatchInv, RecoveryInv, ResultsInv
<1>5. FailureInv' /\ SessionInv'
  BY <1>1, <1>2 DEF RunInv, FailureInv, SessionInv
<1> QED BY <1>3, <1>4, <1>5 DEF RunInv

(* So the invariant is inductive.                                          *)
LEMMA StepKeepsRunInv == RunInv /\ [Next]_vars => RunInv'
<1> SUFFICES ASSUME RunInv, [Next]_vars PROVE RunInv'
  OBVIOUS
<1>1. CASE Start
  BY <1>1, StartKeepsRunInv
<1>2. CASE GenerateContent
  BY <1>2, GenerateContentKeepsRunInv
<1>3. CASE ModelAnswers
  BY <1>3, ModelAnswersKeepsRunInv
<1>4. CASE ModelFails
  BY <1>4, ModelFailsKeepsRunInv
<1>5. CASE ProbeEnds
  BY <1>5, ProbeEndsKeepsRunInv
<1>6. CASE StreamEnds
  BY <1>6, StreamEndsKeepsRunInv
<1>7. CASE \E i \in DOMAIN batch : ToolStarts(i) \/ ToolReturns(i)
  <2>1. PICK i \in DOMAIN batch : ToolStarts(i) \/ ToolReturns(i)
    BY <1>7
  <2>2. CASE ToolStarts(i)
    BY <2>2, ToolStartsKeepsRunInv
  <2>3. CASE ToolReturns(i)
    BY <2>3, ToolReturnsKeepsRunInv
  <2> QED BY <2>1, <2>2, <2>3
<1>8. CASE ToolsAnswer
  BY <1>8, ToolsAnswerKeepsRunInv
<1>9. CASE Cleanup
  BY <1>9, CleanupKeepsRunInv
<1>10. CASE ContextEnds
  BY <1>10, ContextEndsKeepsRunInv
<1>11. CASE UNCHANGED vars
  BY <1>11, NothingKeepsRunInv
<1> QED BY <1>1, <1>2, <1>3, <1>4, <1>5, <1>6, <1>7, <1>8, <1>9, <1>10, <1>11 DEF Next

(* And it holds throughout.                                                *)
LEMMA RunInvAlways == Spec => []RunInv
BY RunInvInit, StepKeepsRunInv, PTL DEF Spec

-----------------------------------------------------------------------------
(* Theorems.                                                               *)

(* Run and Probe stay within their limits: the calls of a batch, the model *)
(* calls and the bytes of every text (TypeOK).                             *)
THEOREM OneShotTypeOK == Spec => []TypeOK
BY RunInvAlways, RunInvIsEnough, PTL

(* A malformed call is answered without invoking its target, no other call *)
(* is, and ToolResults are what the tools answered: each call once, in the *)
(* order of the model's calls, nothing forged (appendToolResults,          *)
(* consumeToolFailure and the normalized IDs).                             *)
THEOREM ToolResultsAreExact == Spec => []ResultsAreExact
BY RunInvAlways, RunInvIsEnough, PTL

(* The error of Run and Probe begins with the first thing that went wrong, *)
(* success means that nothing did, and the session is gone unless the      *)
(* error says so (failureRecorder and the deferred deletion).              *)
THEOREM OutcomesAreHonest == Spec => []OutcomeIsHonest
BY RunInvAlways, RunInvIsEnough, PTL

==============================================================================
