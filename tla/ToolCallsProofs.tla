---------------------------- MODULE ToolCallsProofs ----------------------------
(***************************************************************************)
(* Proofs about the shell command of the coding tools, for every output a   *)
(* command may write, every limit of the policy, every fraction of the head *)
(* and any number of descendants: the type invariant (ToolCallsTypeOK), the *)
(* end of a command (CommandResultIsFinal) and what the writers keep of its *)
(* output (CapturesStayWhole).                                              *)
(*                                                                         *)
(* The argument for the captures: a writer that got the first n bytes of a  *)
(* text holds, however they came, the two samples that Sampled describes.   *)
(* Write folds WriteByte over a chunk, so this takes an induction over the  *)
(* chunk, which EveryNumber states for sets of numbers.  From the samples   *)
(* Captured cuts two ends, together no longer than the limit, and neither   *)
(* cut parts a character or a line end (EndsOfStream), although each sample *)
(* ends where the next byte is not its own.                                 *)
(***************************************************************************)
EXTENDS ToolCalls, FiniteSetTheorems, WellFoundedInduction, TLAPS

-----------------------------------------------------------------------------
(* Induction over numbers.                                                 *)

(* Every set of numbers has a least one.                                   *)
LEMMA LeastNumber ==
  ASSUME NEW T, T \subseteq Nat, T # {}
  PROVE  \E m \in T : \A k \in T : m <= k
<1>1. PICK R : /\ IsWellFoundedOn(R, Nat)
               /\ \A x, y \in Nat : <<x, y>> \in R <=> x < y
  <2>1. \A x, y \in Nat : <<x, y>> \in OpToRel(<, Nat) <=> x < y
    BY DEF OpToRel
  <2> QED BY <2>1, NatLessThanWellFounded, Zenon
<1>2. IsWellFoundedOn(R, Nat)
  BY <1>1
<1>3. PICK x \in T : \A y \in T : ~(<<y, x>> \in R)
  <2>1. \E x \in T : \A y \in T : ~(<<y, x>> \in R)
    BY <1>2, WFMin, Zenon
  <2> QED BY <2>1
<1>4. \A y \in T : x \in Nat /\ y \in Nat /\ ~(y < x)
  BY <1>1, <1>3
<1> QED BY <1>4, <1>3

(* What holds of 0 and with every number of the next holds of all.         *)
LEMMA EveryNumber ==
  ASSUME NEW T, T \subseteq Nat, 0 \in T, \A n \in T : n + 1 \in T
  PROVE  T = Nat
<1> SUFFICES ASSUME Nat \ T # {} PROVE FALSE
  OBVIOUS
<1>1. PICK m \in Nat \ T : \A k \in Nat \ T : m <= k
  BY LeastNumber
<1>2. m # 0 /\ m - 1 \in Nat /\ m - 1 \in T
  BY <1>1
<1> QED BY <1>1, <1>2

(* The greatest of a set is known by being one of it.                      *)
LEMMA MaxOf ==
  ASSUME NEW s, s \subseteq Nat, NEW x \in s, \A y \in s : y <= x
  PROVE  Max(s) = x
<1>1. \A z \in s : (\A y \in s : z >= y) => z = x
  OBVIOUS
<1>2. \A y \in s : x >= y
  OBVIOUS
<1> QED BY <1>1, <1>2 DEF Max

\* The writers that w becomes, byte after byte.
Becomes(h, w, chunk, n) == h[0] = w /\ \A i \in 1..n : h[i] = WriteByte(h[i - 1], chunk[i])

(* Write takes one byte after the other.                                   *)
LEMMA WritesInTurn ==
  ASSUME NEW w, NEW chunk, NEW n \in Nat, DOMAIN chunk = 1..n
  PROVE  \E h : Becomes(h, w, chunk, n) /\ Write(w, chunk) = h[n]
<1> DEFINE Body(g, s) == IF s = {} THEN w ELSE WriteByte(g[s \ {Max(s)}], chunk[Max(s)])
           Iterates(g, m) == g = [s \in SUBSET (1..m) |-> Body(g, s)]
<1>1. \A m \in Nat : \E g : Iterates(g, m)
  <2> DEFINE T == {m \in Nat : \E g : Iterates(g, m)}
  <2>1. 0 \in T
    <3>1. Iterates([s \in SUBSET (1..0) |-> w], 0)
      OBVIOUS
    <3> QED BY <3>1
  <2>2. ASSUME NEW m \in T PROVE m + 1 \in T
    <3>1. PICK g : Iterates(g, m)
      OBVIOUS
    <3> DEFINE f == [s \in SUBSET (1..(m + 1)) |->
                       IF m + 1 \in s THEN WriteByte(g[s \ {m + 1}], chunk[m + 1]) ELSE g[s]]
    <3>2. ASSUME NEW s \in SUBSET (1..(m + 1)) PROVE f[s] = Body(f, s)
      <4>1. CASE m + 1 \in s
        <5>1. Max(s) = m + 1
          <6>1. s \subseteq Nat /\ \A y \in s : y <= m + 1
            OBVIOUS
          <6> QED BY <4>1, <6>1, MaxOf
        <5>2. s \ {m + 1} \in SUBSET (1..m) /\ s \ {m + 1} \in SUBSET (1..(m + 1)) /\ m + 1 \notin s \ {m + 1}
          OBVIOUS
        <5>3. f[s \ {m + 1}] = g[s \ {m + 1}]
          BY <5>2
        <5> QED BY <4>1, <5>1, <5>3
      <4>2. CASE m + 1 \notin s
        <5>1. s \in SUBSET (1..m)
          BY <4>2
        <5>2. g[s] = Body(g, s)
          BY <3>1, <5>1
        <5>3. \A x : s \ {x} \in SUBSET (1..(m + 1)) /\ m + 1 \notin s \ {x}
          BY <4>2
        <5>4. \A x : f[s \ {x}] = g[s \ {x}]
          BY <5>3
        <5> QED BY <4>2, <5>2, <5>4
      <4> QED BY <4>1, <4>2
    <3>3. Iterates(f, m + 1)
      BY <3>2
    <3> HIDE DEF f
    <3> HIDE DEF Iterates
    <3> QED BY <3>3
  <2> HIDE DEF Iterates
  <2>3. T = Nat
    BY <2>1, <2>2, EveryNumber
  <2> QED BY <2>3
<1> DEFINE iter == CHOOSE g : Iterates(g, n)
<1>2. Iterates(iter, n)
  <2> HIDE DEF Iterates
  <2> QED BY <1>1
<1>3. Write(w, chunk) = iter[1..n]
  BY SMT DEF Write, FoldLeft, MapThenFoldSet, Max
<1> HIDE DEF iter
<1> DEFINE h == [i \in 0..n |-> iter[1..i]]
<1>4. h[0] = w
  BY <1>2
<1>5. ASSUME NEW i \in 1..n PROVE h[i] = WriteByte(h[i - 1], chunk[i])
  <2>1. Max(1..i) = i /\ (1..i) \ {i} = 1..(i - 1) /\ 1..i # {} /\ 1..i \in SUBSET (1..n)
    <3>1. Max(1..i) = i
      <4>1. 1..i \subseteq Nat /\ i \in 1..i /\ \A y \in 1..i : y <= i
        OBVIOUS
      <4> QED BY <4>1, MaxOf
    <3>2. (1..i) \ {i} = 1..(i - 1)
      OBVIOUS
    <3> QED BY <3>1, <3>2
  <2>2. iter[1..i] = Body(iter, 1..i)
    BY <1>2, <2>1
  <2>3. h[i] = iter[1..i] /\ h[i - 1] = iter[1..(i - 1)]
    OBVIOUS
  <2> QED BY <2>1, <2>2, <2>3
<1>6. h[n] = iter[1..n]
  OBVIOUS
<1> HIDE DEF h
<1>7. Becomes(h, w, chunk, n)
  BY <1>4, <1>5 DEF Becomes
<1> QED BY <1>3, <1>6, <1>7

-----------------------------------------------------------------------------
(* The two samples of a stream.                                            *)

USE ShellCommandAssumption DEF ShellCommandAssumption

MaxBytes == Policy.maxBytes
StreamBytes == [is : Classes, at : Nat]
Writers == [policy : {Policy}, head : Seq(StreamBytes), boundary : Seq(StreamBytes), tail : Seq(StreamBytes),
            before : Seq(StreamBytes), ending : Seq(StreamBytes), total : Nat, newlines : Nat]

\* The lengths of the samples of n bytes.
RingLength(n) == IF n < MaxBytes THEN n ELSE MaxBytes
HeadLength(n) == IF MaxBytes = 0 THEN n ELSE RingLength(n)
NextLength(n) == IF MaxBytes = 0 \/ n <= MaxBytes THEN 0 ELSE IF n <= MaxBytes + UTFMax THEN n - MaxBytes ELSE UTFMax

HeadHolds(w, text, n) ==
  Len(w.head) = HeadLength(n) /\ \A i \in 1..HeadLength(n) : w.head[i] = text[i]
NextHolds(w, text, n) ==
  Len(w.boundary) = NextLength(n) /\ \A i \in 1..NextLength(n) : w.boundary[i] = text[MaxBytes + i]
RingHolds(w, text, n) ==
  /\ Len(w.tail) = RingLength(n)
  /\ \A i \in 1..RingLength(n) : w.tail[i] = text[(n - RingLength(n)) + i]
  /\ w.before = IF 0 < MaxBytes /\ MaxBytes < n THEN <<text[n - MaxBytes]>> ELSE <<>>

Sampled(w, text, n) ==
  w \in Writers /\ w.total = n /\ HeadHolds(w, text, n) /\ NextHolds(w, text, n) /\ RingHolds(w, text, n)

SameButRing(v, w) ==
  v.head = w.head /\ v.boundary = w.boundary /\ v.ending = w.ending /\ v.total = w.total /\ v.newlines = w.newlines

\* A sequence with one byte more.
LEMMA Longer ==
  ASSUME NEW s \in Seq(StreamBytes), NEW byte \in StreamBytes
  PROVE  /\ Append(s, byte) \in Seq(StreamBytes) /\ Len(Append(s, byte)) = Len(s) + 1
         /\ \A i \in 1..Len(s) : Append(s, byte)[i] = s[i]
         /\ Append(s, byte)[Len(s) + 1] = byte
OBVIOUS

(* appendTail moves the ring on by one byte.                               *)
LEMMA AppendsTail ==
  ASSUME NEW text \in Seq(StreamBytes), NEW n \in Nat, n < Len(text), NEW w, Sampled(w, text, n),
         NEW v, v = appendTail(w, text[n + 1])
  PROVE  /\ v \in Writers
         /\ SameButRing(v, w)
         /\ RingHolds(v, text, n + 1)
<1> DEFINE byte == text[n + 1]
<1>1. byte \in StreamBytes /\ MaxBytes \in Nat /\ w \in Writers /\ w.policy = Policy /\ w.tail \in Seq(StreamBytes)
  BY DEF Sampled, RingHolds, Writers, MaxBytes
<1>2. CASE MaxBytes = 0
  <2>1. v = w
    BY <1>1, <1>2 DEF appendTail, Unlimited, MaxBytes
  <2>2. Len(w.tail) = 0 /\ w.before = <<>> /\ RingLength(n + 1) = 0
    BY <1>1, <1>2 DEF Sampled, RingHolds, RingLength
  <2>3. SameButRing(w, w)
    BY <1>1 DEF SameButRing
  <2>4. \A i \in 1..RingLength(n + 1) : v.tail[i] = text[((n + 1) - RingLength(n + 1)) + i]
    BY <2>2
  <2>5. v.before = IF 0 < MaxBytes /\ MaxBytes < n + 1 THEN <<text[(n + 1) - MaxBytes]>> ELSE <<>>
    BY <1>2, <2>1, <2>2
  <2>6. v \in Writers /\ SameButRing(v, w) /\ Len(v.tail) = RingLength(n + 1)
    BY <1>1, <2>1, <2>2, <2>3
  <2> QED BY <2>4, <2>5, <2>6 DEF RingHolds
<1>3. CASE 0 < MaxBytes /\ n < MaxBytes
  <2>1. Len(w.tail) = n /\ w.before = <<>> /\ \A i \in 1..n : w.tail[i] = text[i]
    BY <1>1, <1>3 DEF Sampled, RingHolds, RingLength
  <2> DEFINE t == Append(w.tail, byte)
  <2>2. v = [w EXCEPT !.tail = t]
    BY <1>1, <1>3, <2>1 DEF appendTail, Unlimited, MaxBytes
  <2>3. t \in Seq(StreamBytes) /\ Len(t) = n + 1 /\ \A i \in 1..(n + 1) : t[i] = text[i]
    <3>1. \A i \in 1..(n + 1) : i \in 1..n \/ i = n + 1
      OBVIOUS
    <3> QED BY <1>1, <2>1, <3>1, Longer
  <2> HIDE DEF t
  <2>4. v \in Writers /\ v.tail = t /\ v.before = w.before
        /\ SameButRing(v, w)
    BY <1>1, <2>2, <2>3 DEF Writers, SameButRing
  <2>5. RingLength(n + 1) = n + 1
    BY <1>1, <1>3 DEF RingLength
  <2>6. ASSUME NEW i \in 1..RingLength(n + 1) PROVE v.tail[i] = text[((n + 1) - RingLength(n + 1)) + i]
    <3>1. i \in 1..(n + 1) /\ ((n + 1) - RingLength(n + 1)) + i = i
      BY <2>5
    <3>2. v.tail[i] = text[i]
      BY <2>3, <2>4, <3>1
    <3> QED BY <3>1, <3>2
  <2>7. v.before = IF 0 < MaxBytes /\ MaxBytes < n + 1 THEN <<text[(n + 1) - MaxBytes]>> ELSE <<>>
    BY <1>1, <1>3, <2>1, <2>4
  <2>8. Len(v.tail) = RingLength(n + 1)
    BY <2>3, <2>4, <2>5
  <2> QED BY <2>4, <2>6, <2>7, <2>8 DEF RingHolds
<1>4. CASE 0 < MaxBytes /\ MaxBytes <= n
  <2>1. Len(w.tail) = MaxBytes /\ \A i \in 1..MaxBytes : w.tail[i] = text[(n - MaxBytes) + i]
    BY <1>1, <1>4 DEF Sampled, RingHolds, RingLength
  <2> DEFINE t == Append(Tail(w.tail), byte)
  <2>2. v = [w EXCEPT !.tail = t, !.before = <<Head(w.tail)>>]
    BY <1>1, <1>4, <2>1 DEF appendTail, Unlimited, MaxBytes
  <2>3. Tail(w.tail) \in Seq(StreamBytes) /\ Len(Tail(w.tail)) = MaxBytes - 1
        /\ \A i \in 1..(MaxBytes - 1) : Tail(w.tail)[i] = w.tail[i + 1]
    BY <1>1, <1>4, <2>1
  <2>4. t \in Seq(StreamBytes) /\ Len(t) = MaxBytes /\ \A i \in 1..MaxBytes : t[i] = text[((n + 1) - MaxBytes) + i]
    <3>1. t \in Seq(StreamBytes) /\ Len(t) = MaxBytes /\ t[MaxBytes] = byte /\ \A i \in 1..(MaxBytes - 1) : t[i] = w.tail[i + 1]
      BY <1>1, <1>4, <2>3, Longer
    <3>2. ASSUME NEW i \in 1..MaxBytes PROVE t[i] = text[((n + 1) - MaxBytes) + i]
      <4>1. CASE i = MaxBytes
        <5>1. ((n + 1) - MaxBytes) + i = n + 1
          BY <1>1, <4>1
        <5> QED BY <3>1, <4>1, <5>1
      <4>2. CASE i \in 1..(MaxBytes - 1)
        <5>1. i + 1 \in 1..MaxBytes /\ (n - MaxBytes) + (i + 1) = ((n + 1) - MaxBytes) + i
          BY <1>1, <4>2
        <5> QED BY <2>1, <3>1, <4>2, <5>1
      <4>3. i = MaxBytes \/ i \in 1..(MaxBytes - 1)
        <5>1. MaxBytes \in Nat
          BY <1>1
        <5> QED BY <5>1
      <4> QED BY <4>1, <4>2, <4>3
    <3> QED BY <3>1, <3>2
  <2>5. Head(w.tail) = text[(n + 1) - MaxBytes] /\ Head(w.tail) \in StreamBytes
    <3>1. Head(w.tail) = w.tail[1] /\ w.tail[1] \in StreamBytes /\ 1 \in 1..MaxBytes
      BY <1>1, <1>4, <2>1
    <3>2. (n - MaxBytes) + 1 = (n + 1) - MaxBytes
      BY <1>1
    <3> QED BY <2>1, <3>1, <3>2
  <2> HIDE DEF t
  <2> DEFINE b == <<Head(w.tail)>>
  <2>6. b \in Seq(StreamBytes)
    BY <2>5
  <2> HIDE DEF b
  <2>7. v \in Writers /\ v.tail = t /\ v.before = b
        /\ SameButRing(v, w)
    <3>1. v = [w EXCEPT !.tail = t, !.before = b]
      BY <2>2 DEF b
    <3> QED BY <1>1, <3>1, <2>4, <2>6 DEF Writers, SameButRing
  <2>8. RingLength(n + 1) = MaxBytes
    BY <1>1, <1>4 DEF RingLength
  <2>9. v.before = IF 0 < MaxBytes /\ MaxBytes < n + 1 THEN <<text[(n + 1) - MaxBytes]>> ELSE <<>>
    BY <1>1, <1>4, <2>5, <2>7 DEF b
  <2>10. Len(v.tail) = RingLength(n + 1)
         /\ \A i \in 1..RingLength(n + 1) : v.tail[i] = text[((n + 1) - RingLength(n + 1)) + i]
    BY <2>4, <2>7, <2>8
  <2> QED BY <2>7, <2>9, <2>10 DEF RingHolds
<1> QED BY <1>1, <1>2, <1>3, <1>4

(* WriteByte moves both samples on by one byte.                            *)
LEMMA SamplesOn ==
  ASSUME NEW text \in Seq(StreamBytes), NEW n \in Nat, n < Len(text), NEW w, Sampled(w, text, n)
  PROVE  Sampled(WriteByte(w, text[n + 1]), text, n + 1)
<1> DEFINE byte == text[n + 1]
           v == appendTail(w, byte)
           x == WriteByte(w, byte)
           room == Unlimited(w) \/ Len(w.head) < MaxBytes
           head == IF room THEN Append(w.head, byte) ELSE w.head
           boundary == IF ~room /\ Len(w.boundary) < UTFMax THEN Append(w.boundary, byte) ELSE w.boundary
           ending == (IF w.ending = <<>> THEN <<>> ELSE <<Last(w.ending)>>) \o <<byte>>
           newlines == w.newlines + (IF byte.is = "LF" THEN 1 ELSE 0)
<1>1. byte \in StreamBytes /\ MaxBytes \in Nat /\ w \in Writers /\ w.policy = Policy /\ w.total = n
      /\ w.head \in Seq(StreamBytes) /\ w.boundary \in Seq(StreamBytes) /\ w.ending \in Seq(StreamBytes) /\ w.newlines \in Nat
  BY DEF Sampled, Writers, MaxBytes
<1>2. /\ v \in Writers /\ SameButRing(v, w)
      /\ RingHolds(v, text, n + 1)
  BY AppendsTail
<1>3. v.head = w.head /\ v.boundary = w.boundary /\ v.ending = w.ending /\ v.total = n /\ v.newlines = w.newlines
      /\ v.policy = Policy /\ v.tail \in Seq(StreamBytes) /\ v.before \in Seq(StreamBytes)
  BY <1>1, <1>2 DEF Writers, SameButRing
<1>4. ending \in Seq(StreamBytes) /\ newlines \in Nat
  <2>1. CASE w.ending = <<>>
    BY <1>1, <2>1
  <2>2. CASE w.ending # <<>>
    <3>1. Last(w.ending) \in StreamBytes
      BY <1>1, <2>2 DEF Last
    <3> QED BY <1>1, <2>2, <3>1
  <2> QED BY <2>1, <2>2
<1>5. room <=> MaxBytes = 0 \/ n < MaxBytes
  BY <1>1 DEF Sampled, HeadHolds, Unlimited, MaxBytes, HeadLength, RingLength
<1>6. head \in Seq(StreamBytes) /\ Len(head) = HeadLength(n + 1)
      /\ \A i \in 1..HeadLength(n + 1) : head[i] = text[i]
  <2>1. Len(w.head) = HeadLength(n) /\ \A i \in 1..HeadLength(n) : w.head[i] = text[i]
    BY DEF Sampled, HeadHolds
  <2>2. CASE room
    <3>1. HeadLength(n) = n /\ HeadLength(n + 1) = n + 1 /\ \A i \in 1..(n + 1) : i \in 1..n \/ i = n + 1
      BY <1>1, <1>5, <2>2 DEF HeadLength, RingLength
    <3>2. head = Append(w.head, byte)
      BY <2>2
    <3> HIDE DEF head, room
    <3>3. head \in Seq(StreamBytes) /\ Len(head) = n + 1 /\ (\A i \in 1..n : head[i] = text[i]) /\ head[n + 1] = byte
      BY <1>1, <2>1, <3>1, <3>2, Longer
    <3> QED BY <3>1, <3>3
  <2>3. CASE ~room
    <3>1. HeadLength(n) = HeadLength(n + 1)
      BY <1>1, <1>5, <2>3 DEF HeadLength, RingLength
    <3> QED BY <1>1, <2>1, <2>3, <3>1
  <2> QED BY <2>2, <2>3
<1>7. boundary \in Seq(StreamBytes) /\ Len(boundary) = NextLength(n + 1)
      /\ \A i \in 1..NextLength(n + 1) : boundary[i] = text[MaxBytes + i]
  <2>1. Len(w.boundary) = NextLength(n) /\ \A i \in 1..NextLength(n) : w.boundary[i] = text[MaxBytes + i]
    BY DEF Sampled, NextHolds
  <2> HIDE DEF room
  <2>2. CASE ~room /\ Len(w.boundary) < UTFMax
    <3>1. NextLength(n) = n - MaxBytes /\ NextLength(n + 1) = NextLength(n) + 1 /\ MaxBytes + NextLength(n + 1) = n + 1
          /\ NextLength(n) \in Nat
      BY <1>1, <1>5, <2>1, <2>2 DEF NextLength, UTFMax
    <3>2. boundary = Append(w.boundary, byte)
      BY <2>2
    <3> HIDE DEF boundary
    <3>3. boundary \in Seq(StreamBytes) /\ Len(boundary) = NextLength(n + 1)
          /\ (\A i \in 1..NextLength(n) : boundary[i] = text[MaxBytes + i])
          /\ boundary[NextLength(n + 1)] = text[MaxBytes + NextLength(n + 1)]
      <4>1. boundary \in Seq(StreamBytes) /\ Len(boundary) = NextLength(n) + 1
            /\ (\A i \in 1..NextLength(n) : boundary[i] = w.boundary[i])
            /\ boundary[NextLength(n) + 1] = text[n + 1]
        BY <1>1, <2>1, <3>2, Longer
      <4> QED BY <2>1, <3>1, <4>1
    <3>4. \A i \in 1..NextLength(n + 1) : i \in 1..NextLength(n) \/ i = NextLength(n + 1)
      BY <3>1
    <3> QED BY <3>3, <3>4
  <2>3. CASE ~(~room /\ Len(w.boundary) < UTFMax)
    <3>1. NextLength(n + 1) = NextLength(n)
      BY <1>1, <1>5, <2>1, <2>3 DEF NextLength, UTFMax
    <3> QED BY <1>1, <2>1, <2>3, <3>1
  <2> QED BY <2>2, <2>3
<1>8. x = [v EXCEPT !.head = head, !.boundary = boundary, !.ending = ending, !.total = n + 1, !.newlines = newlines]
  BY <1>1, <1>2, <1>3 DEF WriteByte, MaxBytes
<1> HIDE DEF head, boundary, ending, v, x, byte, room, newlines
<1>9. /\ x \in Writers /\ x.total = n + 1 /\ x.head = head /\ x.boundary = boundary
       /\ x.tail = v.tail /\ x.before = v.before
  <2>1. n + 1 \in Nat
    OBVIOUS
  <2> QED BY <1>2, <1>3, <1>4, <1>6, <1>7, <1>8, <2>1 DEF Writers
<1>10. HeadHolds(x, text, n + 1) /\ NextHolds(x, text, n + 1)
  BY <1>6, <1>7, <1>9 DEF HeadHolds, NextHolds
<1>11. RingHolds(x, text, n + 1)
  BY <1>2, <1>9 DEF RingHolds
<1>12. Sampled(x, text, n + 1)
  BY <1>9, <1>10, <1>11 DEF Sampled
<1> QED BY <1>12 DEF x, byte

(* NewWriter has sampled nothing.                                          *)
LEMMA NewSamples == ASSUME NEW text PROVE Sampled(NewWriter(Policy), text, 0)
<1> DEFINE w == NewWriter(Policy)
<1>1. w \in Writers /\ w.total = 0 /\ w.head = <<>> /\ w.boundary = <<>> /\ w.tail = <<>> /\ w.before = <<>>
  BY DEF NewWriter, Writers
<1>2. HeadLength(0) = 0 /\ NextLength(0) = 0 /\ RingLength(0) = 0 /\ MaxBytes \in Nat
  BY DEF HeadLength, NextLength, RingLength, MaxBytes
<1> HIDE DEF w
<1>3. HeadHolds(w, text, 0) /\ NextHolds(w, text, 0) /\ RingHolds(w, text, 0)
  BY <1>1, <1>2 DEF HeadHolds, NextHolds, RingHolds
<1>4. Sampled(w, text, 0)
  BY <1>1, <1>3 DEF Sampled
<1> QED BY <1>4 DEF w

(* What is copied at once is sampled as if it came byte after byte. *)
LEMMA SamplesCopy ==
  ASSUME NEW text \in Seq(StreamBytes), NEW n \in Nat, NEW m \in Nat, n <= m, m <= Len(text),
         NEW w, Sampled(w, text, n)
  PROVE  Sampled(Write(w, SubSeq(text, n + 1, m)), text, m)
<1> DEFINE chunk == SubSeq(text, n + 1, m)
           size == m - n
<1>1. size \in Nat /\ n + size = m /\ DOMAIN chunk = 1..size /\ \A i \in 1..size : chunk[i] = text[n + i]
  OBVIOUS
<1> HIDE DEF chunk, size
<1>2. PICK h : Becomes(h, w, chunk, size) /\ Write(w, chunk) = h[size]
  BY <1>1, WritesInTurn
<1>21. h[0] = w /\ \A i \in 1..size : h[i] = WriteByte(h[i - 1], chunk[i])
  BY <1>2 DEF Becomes
<1> DEFINE T == {i \in Nat : i <= size => Sampled(h[i], text, n + i)}
<1>3. 0 \in T
  BY <1>21
<1>4. ASSUME NEW i \in T PROVE i + 1 \in T
  <2> SUFFICES ASSUME i + 1 <= size PROVE Sampled(h[i + 1], text, n + (i + 1))
    OBVIOUS
  <2>1. i <= size /\ i + 1 \in 1..size /\ (i + 1) - 1 = i /\ n + i < Len(text) /\ n + i \in Nat
        /\ (n + i) + 1 = n + (i + 1)
    BY <1>1
  <2>2. Sampled(h[i], text, n + i)
    BY <2>1
  <2>3. h[i + 1] = WriteByte(h[i], text[n + (i + 1)])
    BY <1>1, <1>21, <2>1
  <2> HIDE DEF T
  <2> QED BY <2>1, <2>2, <2>3, SamplesOn
<1>5. T = Nat
  <2>1. T \subseteq Nat
    OBVIOUS
  <2> HIDE DEF T
  <2> QED BY <1>3, <1>4, <2>1, EveryNumber
<1>6. Sampled(h[size], text, n + size)
  BY <1>1, <1>5
<1> QED BY <1>1, <1>2, <1>6 DEF chunk

-----------------------------------------------------------------------------
(* Cuts.                                                                   *)

(* Min gives the least of a set of numbers.                                *)
LEMMA LeastOf ==
  ASSUME NEW T, T \subseteq Nat, T # {}
  PROVE  Min(T) \in T /\ \A y \in T : Min(T) <= y
<1>1. \E x \in T : \A y \in T : x <= y
  BY LeastNumber
<1> QED BY <1>1 DEF Min

(* Max gives the greatest of a set of numbers that is bounded.             *)
LEMMA GreatestOf ==
  ASSUME NEW k \in Nat, NEW T, T \subseteq 0..k, T # {}
  PROVE  Max(T) \in T /\ \A y \in T : y <= Max(T)
<1> DEFINE U == {k - x : x \in T}
<1>1. U \subseteq Nat /\ U # {}
  <2>1. ASSUME NEW x \in T PROVE k - x \in Nat
    <3>1. x \in 0..k
      OBVIOUS
    <3> QED BY <3>1
  <2> QED BY <2>1
<1>2. PICK m \in U : \A y \in U : m <= y
  <2> HIDE DEF U
  <2> QED BY <1>1, LeastNumber
<1>3. PICK x \in T : m = k - x
  OBVIOUS
<1>4. ASSUME NEW y \in T PROVE x >= y
  <2>1. k - y \in U
    OBVIOUS
  <2>2. m <= k - y
    BY <1>2, <2>1
  <2> QED BY <1>3, <2>2
<1>5. \E z \in T : \A y \in T : z >= y
  BY <1>4
<1>6. Max(T) \in T /\ \A y \in T : Max(T) >= y
  <2> HIDE DEF U
  <2> QED BY <1>5 DEF Max
<1>7. \A a, b \in T : a >= b => b <= a
  <2>1. ASSUME NEW a \in T, NEW b \in T PROVE a >= b => b <= a
    <3>1. a \in 0..k /\ b \in 0..k
      OBVIOUS
    <3> QED BY <3>1
  <2> QED BY <2>1
<1> QED BY <1>6, <1>7

\* A cut of a text between two of its bytes that parts neither a character nor a
\* line end.
Clean(text, cut) == ~SplitsCharacter(text, cut) /\ ~(text[cut].is = "CR" /\ text[cut + 1].is = "LF")

(* inwardHead. *)
LEMMA HeadCut ==
  ASSUME NEW text \in Seq(StreamBytes), NEW limit \in Int, limit < Len(text)
  PROVE  /\ inwardHead(text, limit) \in Nat
         /\ 0 <= limit => inwardHead(text, limit) <= limit
         /\ inwardHead(text, limit) > 0 => Clean(text, inwardHead(text, limit))
<1>1. CASE limit <= 0
  BY <1>1 DEF inwardHead
<1>2. CASE 0 < limit
  <2> DEFINE T == {0} \cup {e \in 1..limit : ~Continues(text[e + 1])}
             end == Max(T)
  <2>1. T \subseteq 0..limit /\ T # {} /\ limit \in Nat
    BY <1>2
  <2>2. end \in T
    <3> HIDE DEF T
    <3> QED BY <2>1, GreatestOf
  <2>3. end \in 0..limit /\ (end > 0 => ~Continues(text[end + 1]))
    <3> HIDE DEF end
    <3>1. CASE end = 0
      BY <2>1, <3>1
    <3>2. CASE end \in {e \in 1..limit : ~Continues(text[e + 1])}
      BY <3>2
    <3> QED BY <2>2, <3>1, <3>2
  <2>4. inwardHead(text, limit) = IF SplitsCRLF(text, end) THEN end - 1 ELSE end
    BY <1>2 DEF inwardHead
  <2> HIDE DEF end
  <2>5. CASE SplitsCRLF(text, end)
    <3>1. end \in 1..limit /\ text[end].is = "CR" /\ text[(end - 1) + 1] = text[end]
      BY <2>3, <2>5 DEF SplitsCRLF
    <3>2. Clean(text, end - 1)
      BY <3>1 DEF Clean, SplitsCharacter, Continues
    <3> QED BY <2>4, <2>5, <3>1, <3>2
  <2>6. CASE ~SplitsCRLF(text, end)
    <3>1. end > 0 => Clean(text, end)
      BY <2>3, <2>6, <1>2 DEF Clean, SplitsCharacter, SplitsCRLF
    <3> QED BY <2>3, <2>4, <2>6, <3>1
  <2> QED BY <2>5, <2>6
<1> QED BY <1>1, <1>2

(* inwardTail. *)
LEMMA TailCut ==
  ASSUME NEW text \in Seq(StreamBytes), NEW limit \in Int
  PROVE  LET cut == inwardTail(text, limit) IN
         /\ cut \in 0..Len(text)
         /\ 0 <= limit /\ limit <= Len(text) => Len(text) - limit <= cut
         /\ 0 < cut /\ cut < Len(text) => ~(text[cut].is = "CR" /\ text[cut + 1].is = "LF")
<1>1. CASE limit <= 0
  BY <1>1 DEF inwardTail
<1>2. CASE 0 < limit /\ limit >= Len(text)
  BY <1>2 DEF inwardTail
<1>3. CASE 0 < limit /\ limit < Len(text)
  <2> DEFINE from == Len(text) - limit
             T == {Len(text)} \cup {e \in from..(Len(text) - 1) : ~Continues(text[e + 1])}
             start == Min(T)
  <2>1. T \subseteq from..Len(text) /\ T \subseteq Nat /\ T # {}
    BY <1>3
  <2>2. start \in T
    <3> HIDE DEF T
    <3> QED BY <2>1, LeastOf
  <2>3. start \in from..Len(text)
    <3> HIDE DEF T, start
    <3> QED BY <2>1, <2>2
  <2>4. inwardTail(text, limit) = IF SplitsCRLF(text, start) THEN start + 1 ELSE start
    BY <1>3 DEF inwardTail
  <2> HIDE DEF T, start
  <2>5. CASE SplitsCRLF(text, start)
    BY <1>3, <2>3, <2>4, <2>5 DEF SplitsCRLF
  <2>6. CASE ~SplitsCRLF(text, start)
    BY <1>3, <2>3, <2>4, <2>6 DEF SplitsCRLF
  <2> QED BY <2>5, <2>6
<1> QED BY <1>1, <1>2, <1>3

(* limitSplit gives numbers, whatever the fraction.                        *)
LEMMA SplitIsANumber == ASSUME NEW limit \in Nat, NEW fraction \in Int PROVE limitSplit(limit, fraction)[2] \in Int
<1>1. Min({100, fraction}) \in Int
  <2>1. \E x \in {100, fraction} : \A y \in {100, fraction} : x <= y
    OBVIOUS
  <2>2. Min({100, fraction}) \in {100, fraction}
    BY <2>1 DEF Min
  <2> QED BY <2>2
<1>2. Max({0, Min({100, fraction})}) \in Int
  <2> DEFINE m == Min({100, fraction})
  <2> HIDE DEF m
  <2>1. \E x \in {0, m} : \A y \in {0, m} : x >= y
    BY <1>1 DEF m
  <2>2. Max({0, m}) \in {0, m}
    BY <2>1 DEF Max
  <2> QED BY <1>1, <2>2 DEF m
<1> DEFINE share == Max({0, Min({100, fraction})})
           half == (limit * share) \div 100
<1>3. limitSplit(limit, fraction) = IF limit <= 0 THEN <<0, 0>> ELSE <<half, limit - half>>
  BY DEF limitSplit
<1>4. half \in Int
  <2> HIDE DEF share
  <2>1. share \in Int /\ limit * share \in Int
    BY <1>2 DEF share
  <2> QED BY <2>1
<1> HIDE DEF half
<1> QED BY <1>3, <1>4

(* tailWithin: where what it keeps of a ring starts. *)
LEMMA TailStart ==
  ASSUME NEW w \in Writers, NEW limit \in Int
  PROVE  \E from \in 0..Len(w.tail) :
           /\ tailWithin(w, limit) = SubSeq(w.tail, from + 1, Len(w.tail))
           /\ 0 <= limit /\ limit <= Len(w.tail) => Len(w.tail) - limit <= from
           /\ 0 < from /\ from < Len(w.tail) => Clean(w.tail, from)
           /\ from = 0 /\ w.tail # <<>> =>
                /\ ~Continues(w.tail[1])
                /\ w.before # <<>> => ~(Last(w.before).is = "CR" /\ w.tail[1].is = "LF")
<1> DEFINE size == Len(w.tail)
           cut == inwardTail(w.tail, limit)
           T == {size} \cup {i \in cut..(size - 1) : ~Continues(w.tail[i + 1])}
           start == Min(T)
           skips == start = 0 /\ EndsWith(w.before, "CR") /\ w.tail # <<>> /\ w.tail[1].is = "LF"
           from == IF skips THEN 1 ELSE start
<1>1. w.tail \in Seq(StreamBytes) /\ size \in Nat
  BY DEF Writers
<1>2. /\ cut \in 0..size
      /\ 0 <= limit /\ limit <= size => size - limit <= cut
      /\ 0 < cut /\ cut < size => ~(w.tail[cut].is = "CR" /\ w.tail[cut + 1].is = "LF")
  BY <1>1, TailCut
<1>3. tailWithin(w, limit) = SubSeq(w.tail, from + 1, size)
  BY DEF tailWithin
<1> HIDE DEF cut, size
<1>4. start \in T /\ \A y \in T : start <= y
  <2>1. T \subseteq Nat /\ T # {}
    BY <1>1, <1>2
  <2> HIDE DEF T
  <2> QED BY <2>1, LeastOf
<1> HIDE DEF start
<1>5. start \in cut..size /\ (start < size => ~Continues(w.tail[start + 1]))
      /\ \A i \in cut..(size - 1) : ~Continues(w.tail[i + 1]) => start <= i
  BY <1>1, <1>2, <1>4
<1> HIDE DEF T
<1>6. CASE skips
  <2>1. from = 1 /\ size > 0 /\ w.tail[1].is = "LF" /\ start = 0 /\ cut = 0
    BY <1>1, <1>2, <1>5, <1>6 DEF size
  <2> HIDE DEF from, skips
  <2>2. from < size => Clean(w.tail, from)
    BY <1>1, <2>1 DEF Clean, SplitsCharacter
  <2>3. from \in 0..size /\ (0 <= limit /\ limit <= size => size - limit <= from)
    BY <1>1, <1>2, <2>1
  <2> QED BY <1>3, <2>1, <2>2, <2>3 DEF size
<1>7. CASE ~skips
  <2>1. from = start
    BY <1>7
  <2>2. start = 0 /\ w.tail # <<>> => ~Continues(w.tail[1]) /\ (w.before # <<>> => ~(Last(w.before).is = "CR" /\ w.tail[1].is = "LF"))
    BY <1>1, <1>5, <1>7 DEF EndsWith, size
  <2>3. 0 < start /\ start < size => Clean(w.tail, start)
    <3> SUFFICES ASSUME 0 < start, start < size
                 PROVE  ~SplitsCharacter(w.tail, start) /\ ~(w.tail[start].is = "CR" /\ w.tail[start + 1].is = "LF")
      BY DEF Clean
    <3>1. ~SplitsCharacter(w.tail, start)
      BY <1>5 DEF SplitsCharacter
    <3>2. CASE cut < start
      <4>1. start - 1 \in cut..(size - 1) /\ (start - 1) + 1 = start /\ ~(start <= start - 1)
        BY <1>1, <1>2, <1>5, <3>2
      <4>2. Continues(w.tail[start])
        BY <1>5, <4>1
      <4> QED BY <3>1, <4>2 DEF Continues
    <3>3. CASE cut = start
      BY <1>2, <3>1, <3>3
    <3> QED BY <1>1, <1>2, <1>5, <3>2, <3>3
  <2>4. start \in 0..size /\ (0 <= limit /\ limit <= size => size - limit <= start)
    BY <1>1, <1>2, <1>5
  <2> HIDE DEF from, skips
  <2> QED BY <1>3, <2>1, <2>2, <2>3, <2>4 DEF size
<1> QED BY <1>6, <1>7

-----------------------------------------------------------------------------
(* What a text shows.                                                      *)

Below(A, B) == \A x \in A, y \in B : x < y

(* Two texts, one after the other, show what each of them shows.           *)
LEMMA JoinedKeep ==
  ASSUME NEW S, NEW a \in Seq(S), NEW b \in Seq(S), NEW c, c = a \o b
  PROVE  \A x : x \in Kept(c) <=> x \in Kept(a) \/ x \in Kept(b)
<1>1. /\ c \in Seq(S) /\ DOMAIN c = 1..(Len(a) + Len(b)) /\ DOMAIN a = 1..Len(a) /\ DOMAIN b = 1..Len(b)
      /\ \A i \in 1..Len(a) : c[i] = a[i]
      /\ \A i \in 1..Len(b) : c[Len(a) + i] = b[i]
      /\ \A i \in DOMAIN c : i \in DOMAIN a \/ (i - Len(a) \in DOMAIN b /\ i = Len(a) + (i - Len(a)))
      /\ Len(a) \in Nat /\ Len(b) \in Nat
  OBVIOUS
<1>2. \A i \in DOMAIN b : Len(a) + i \in DOMAIN c
  BY <1>1
<1>3. \A i \in DOMAIN a : i \in DOMAIN c
  BY <1>1
<1>4. Kept(c) = Kept(a) \cup Kept(b)
  <2>1. ASSUME NEW x \in Kept(c) PROVE x \in Kept(a) \cup Kept(b)
    <3>1. PICK i \in DOMAIN c : x = c[i].at /\ x # 0
      BY DEF Kept
    <3>2. CASE i \in DOMAIN a
      BY <1>1, <3>1, <3>2 DEF Kept
    <3>3. CASE i - Len(a) \in DOMAIN b /\ i = Len(a) + (i - Len(a))
      <4>1. c[i] = b[i - Len(a)]
        BY <1>1, <3>3
      <4> QED BY <3>1, <3>3, <4>1 DEF Kept
    <3> QED BY <1>1, <3>2, <3>3
  <2>2. ASSUME NEW x \in Kept(a) PROVE x \in Kept(c)
    <3>1. PICK i \in DOMAIN a : x = a[i].at /\ x # 0
      BY DEF Kept
    <3> QED BY <1>1, <1>3, <3>1 DEF Kept
  <2>3. ASSUME NEW x \in Kept(b) PROVE x \in Kept(c)
    <3>1. PICK i \in DOMAIN b : x = b[i].at /\ x # 0
      BY DEF Kept
    <3>2. c[Len(a) + i] = b[i]
      BY <1>1, <3>1
    <3> QED BY <1>2, <3>1, <3>2 DEF Kept
  <2> QED BY <2>1, <2>2, <2>3
<1> QED BY <1>4

(* They show it in order when the first lies before the second.            *)
LEMMA JoinedAscend ==
  ASSUME NEW S, NEW a \in Seq(S), NEW b \in Seq(S), NEW c, c = a \o b, Ascending(a), Ascending(b), Below(Kept(a), Kept(b))
  PROVE  Ascending(c)
<1>1. /\ c \in Seq(S) /\ DOMAIN c = 1..(Len(a) + Len(b)) /\ DOMAIN a = 1..Len(a) /\ DOMAIN b = 1..Len(b)
      /\ \A i \in 1..Len(a) : c[i] = a[i]
      /\ \A i \in 1..Len(b) : c[Len(a) + i] = b[i]
      /\ \A i \in DOMAIN c : i \in DOMAIN a \/ (i - Len(a) \in DOMAIN b /\ i = Len(a) + (i - Len(a)))
      /\ Len(a) \in Nat /\ Len(b) \in Nat
  OBVIOUS
<1> SUFFICES ASSUME NEW i \in DOMAIN c, NEW j \in DOMAIN c, i < j, c[i].at # 0, c[j].at # 0
             PROVE  c[i].at < c[j].at
  BY DEF Ascending
<1>2. CASE i \in DOMAIN a /\ j \in DOMAIN a
  BY <1>1, <1>2 DEF Ascending
<1>3. CASE i \in DOMAIN a /\ j - Len(a) \in DOMAIN b /\ j = Len(a) + (j - Len(a))
  <2>1. c[i].at \in Kept(a) /\ c[j].at \in Kept(b)
    BY <1>1, <1>3 DEF Kept
  <2> QED BY <2>1 DEF Below
<1>4. CASE i - Len(a) \in DOMAIN b /\ j - Len(a) \in DOMAIN b /\ i = Len(a) + (i - Len(a)) /\ j = Len(a) + (j - Len(a))
  <2>1. c[i] = b[i - Len(a)] /\ c[j] = b[j - Len(a)] /\ i - Len(a) < j - Len(a)
    BY <1>1, <1>4
  <2> QED BY <1>4, <2>1 DEF Ascending
<1>5. ~(i \notin DOMAIN a /\ j \in DOMAIN a)
  BY <1>1
<1> QED BY <1>1, <1>2, <1>3, <1>4, <1>5

\* Of the source a text shows these bytes, in order.
Holds(a, kept) == Kept(a) = kept /\ Ascending(a)

(* The two together.                                                       *)
LEMMA JoinedHolds ==
  ASSUME NEW S, NEW a \in Seq(S), NEW b \in Seq(S), NEW c, c = a \o b, NEW A, NEW B, Holds(a, A), Holds(b, B), Below(A, B)
  PROVE  c \in Seq(S) /\ Holds(c, A \cup B)
<1>1. Kept(a) = A /\ Ascending(a) /\ Kept(b) = B /\ Ascending(b) /\ Below(Kept(a), Kept(b))
  BY DEF Holds
<1>2. \A x : x \in Kept(c) <=> x \in Kept(a) \/ x \in Kept(b)
  BY JoinedKeep
<1>3. Kept(c) = A \cup B
  BY <1>1, <1>2
<1>4. Ascending(c)
  BY <1>1, JoinedAscend
<1>5. c \in Seq(S)
  OBVIOUS
<1> QED BY <1>3, <1>4, <1>5 DEF Holds

\* A part that shows nothing changes nothing.
LEMMA JoinedLast ==
  ASSUME NEW S, NEW a \in Seq(S), NEW b \in Seq(S), NEW c, c = a \o b, NEW A, Holds(a, A), Holds(b, {})
  PROVE  c \in Seq(S) /\ Holds(c, A)
<1>1. Below(A, {})
  BY DEF Below
<1>2. c \in Seq(S) /\ Holds(c, A \cup {})
  BY <1>1, JoinedHolds, Zenon
<1>3. A \cup {} = A
  OBVIOUS
<1> QED BY <1>2, <1>3, Zenon

(* Nor does a first part that shows nothing.                               *)
LEMMA JoinedFirst ==
  ASSUME NEW S, NEW a \in Seq(S), NEW b \in Seq(S), NEW c, c = a \o b, NEW B, Holds(a, {}), Holds(b, B)
  PROVE  c \in Seq(S) /\ Holds(c, B)
<1>1. Below({}, B)
  BY DEF Below
<1>2. c \in Seq(S) /\ Holds(c, {} \cup B)
  BY <1>1, JoinedHolds, Zenon
<1>3. {} \cup B = B
  OBVIOUS
<1> QED BY <1>2, <1>3, Zenon

\* What the code adds shows nothing.
LEMMA AddedKeeps ==
  ASSUME NEW a, \A i \in DOMAIN a : a[i].at = 0
  PROVE  Holds(a, {})
BY DEF Holds, Kept, Ascending

\* A stretch of the source shows itself.
LEMMA StretchKeeps ==
  ASSUME NEW text \in Seq(StreamBytes), \A i \in DOMAIN text : text[i].at = i,
         NEW from \in Nat, NEW a \in Seq(StreamBytes), from + Len(a) <= Len(text),
         \A i \in 1..Len(a) : a[i] = text[from + i]
  PROVE  Holds(a, (from + 1)..(from + Len(a)))
<1>1. DOMAIN a = 1..Len(a) /\ Len(a) \in Nat
  OBVIOUS
<1>2. \A i \in 1..Len(a) : a[i].at = from + i
  <2>1. ASSUME NEW i \in 1..Len(a) PROVE a[i].at = from + i
    <3>1. from + i \in DOMAIN text
      BY <1>1
    <3> QED BY <3>1
  <2> QED BY <2>1
<1>3. \A x \in (from + 1)..(from + Len(a)) : x - from \in 1..Len(a) /\ x = from + (x - from)
  BY <1>1
<1>4. Kept(a) = (from + 1)..(from + Len(a))
  <2>1. ASSUME NEW x \in Kept(a) PROVE x \in (from + 1)..(from + Len(a))
    <3>1. PICK i \in 1..Len(a) : x = a[i].at
      BY <1>1 DEF Kept
    <3> QED BY <1>1, <1>2, <3>1
  <2>2. ASSUME NEW x \in (from + 1)..(from + Len(a)) PROVE x \in Kept(a)
    <3>1. a[x - from].at = x /\ x # 0
      BY <1>2, <1>3
    <3> QED BY <1>1, <1>3, <3>1 DEF Kept
  <2> QED BY <2>1, <2>2
<1>5. Ascending(a)
  BY <1>1, <1>2 DEF Ascending
<1> QED BY <1>4, <1>5 DEF Holds

\* A head, a marker and a tail show what the head and the tail do.
LEMMA FramesKeep ==
  ASSUME NEW head \in Seq(StreamBytes), NEW tail \in Seq(StreamBytes), NEW report, NEW input \in Seq(StreamBytes),
         NEW A, NEW B, Holds(head, A), Holds(tail, B), Below(A, B)
  PROVE  Holds(Framed(head, Marker(report), tail, input), A \cup B)
<1> DEFINE S == StreamBytes \cup {[is |-> "open", at |-> 0, says |-> report], Byte("close")}
           marker == Marker(report)
           gap == IF head # <<>> /\ ~EndsWith(head, "LF") THEN Break ELSE <<>>
           end == IF tail # <<>> THEN Break \o tail
                  ELSE IF ~EndsWith(input, "LF") THEN <<>>
                  ELSE IF Len(input) > 1 /\ input[Len(input) - 1].is = "CR" THEN <<Byte("CR")>> \o Break
                  ELSE Break
<1>1. Byte("LF") \in StreamBytes /\ Byte("CR") \in StreamBytes /\ Byte("LF").at = 0 /\ Byte("CR").at = 0 /\ Byte("close").at = 0
  BY DEF Byte, Classes, StreamBytes
<1>2. head \in Seq(S) /\ tail \in Seq(S) /\ StreamBytes \subseteq S
  OBVIOUS
<1>3. Break \in Seq(S) /\ Holds(Break, {})
  <2>1. Break = <<Byte("LF")>> /\ Byte("LF") \in S
    BY <1>1 DEF Break
  <2>2. \A i \in DOMAIN Break : Break[i].at = 0
    BY <1>1, <2>1
  <2> HIDE DEF S
  <2> QED BY <2>1, <2>2, AddedKeeps
<1> DEFINE cr == <<Byte("CR")>>
<1>4. cr \in Seq(S) /\ Holds(cr, {})
  <2>1. \A i \in DOMAIN cr : cr[i].at = 0
    BY <1>1
  <2>2. Byte("CR") \in S
    BY <1>1
  <2> HIDE DEF S
  <2> QED BY <2>1, <2>2, AddedKeeps
<1>5. <<>> \in Seq(S) /\ Holds(<<>>, {})
  BY AddedKeeps
<1>6. marker \in Seq(S) /\ Holds(marker, {})
  <2> DEFINE o == [is |-> "open", at |-> 0, says |-> report]
  <2>1. o \in S /\ Byte("close") \in S /\ o.at = 0
    OBVIOUS
  <2>2. marker = <<o, Byte("close")>>
    BY DEF Marker
  <2> HIDE DEF o, S, marker
  <2>3. \A i \in DOMAIN marker : marker[i].at = 0
    BY <1>1, <2>1, <2>2
  <2>4. marker \in Seq(S)
    BY <2>1, <2>2
  <2> QED BY <2>3, <2>4, AddedKeeps
<1>7. gap \in Seq(S) /\ Holds(gap, {})
  <2> HIDE DEF S
  <2> QED BY <1>3, <1>5
<1>8. end \in Seq(S) /\ Holds(end, B)
  <2> DEFINE below == Break \o tail
             crlf == cr \o Break
  <2>1. below = Break \o tail /\ crlf = cr \o Break
    OBVIOUS
  <2>2. end = IF tail # <<>> THEN below
              ELSE IF ~EndsWith(input, "LF") THEN <<>>
              ELSE IF Len(input) > 1 /\ input[Len(input) - 1].is = "CR" THEN crlf ELSE Break
    OBVIOUS
  <2> HIDE DEF S, below, cr, crlf, end
  <2>3. below \in Seq(S) /\ Holds(below, B)
    BY <1>2, <1>3, <2>1, JoinedFirst
  <2>4. crlf \in Seq(S) /\ Holds(crlf, {})
    BY <1>3, <1>4, <2>1, JoinedLast
  <2>5. CASE tail # <<>>
    BY <2>2, <2>3, <2>5
  <2>6. CASE tail = <<>>
    <3>1. Holds(end, {})
      BY <1>3, <1>5, <2>2, <2>4, <2>6
    <3>2. B = {}
      BY <2>6 DEF Holds, Kept
    <3> QED BY <1>3, <1>5, <2>2, <2>4, <2>6, <3>1, <3>2
  <2> QED BY <2>5, <2>6
<1> DEFINE first == head \o gap
           second == first \o marker
           whole == second \o end
<1>9. Framed(head, marker, tail, input) = whole
  BY DEF Framed
<1>10. first = head \o gap /\ second = first \o marker /\ whole = second \o end
  OBVIOUS
<1> HIDE DEF S, marker, gap, end, first, second, whole
<1>11. first \in Seq(S) /\ Holds(first, A)
  BY <1>2, <1>7, <1>10, JoinedLast
<1>12. second \in Seq(S) /\ Holds(second, A)
  BY <1>6, <1>10, <1>11, JoinedLast
<1>13. Holds(whole, A \cup B)
  BY <1>8, <1>10, <1>12, JoinedHolds
<1> QED BY <1>9, <1>13 DEF marker

-----------------------------------------------------------------------------
(* Writer.String.                                                          *)

\* One sequence after another, and the end of one.
Follows(c, a, b) ==
  /\ c \in Seq(StreamBytes) /\ Len(c) = Len(a) + Len(b)
  /\ \A i \in 1..Len(a) : c[i] = a[i]
  /\ \A i \in 1..Len(b) : c[Len(a) + i] = b[i]

(* Concatenation.                                                          *)
LEMMA Joined == ASSUME NEW a \in Seq(StreamBytes), NEW b \in Seq(StreamBytes) PROVE Follows(a \o b, a, b)
BY DEF Follows

(* The rest of a sequence.                                                 *)
LEMMA Ending ==
  ASSUME NEW a \in Seq(StreamBytes), NEW from \in 0..Len(a), NEW b, b = SubSeq(a, from + 1, Len(a))
  PROVE  b \in Seq(StreamBytes) /\ Len(b) = Len(a) - from /\ \A i \in 1..Len(b) : b[i] = a[from + i]
OBVIOUS

\* Two ends of a stream, one after the other with a report of what is missing.
Ends(captured, text, n, p, q, prefix, suffix, ending, report) ==
  /\ p + q <= MaxBytes
  /\ p > 0 => Clean(text, p)
  /\ q > 0 => Clean(text, n - q)
  /\ Len(prefix) = p /\ \A i \in 1..p : prefix[i] = text[i]
  /\ Len(suffix) = q /\ \A i \in 1..q : suffix[i] = text[(n - q) + i]
  /\ report.truncated /\ report.originalBytes = n
  /\ captured = [text |-> Framed(prefix, Marker(report), suffix, ending), report |-> report]

\* The two ends that Captured keeps of a stream that is over the limit.
LEMMA EndsOfStream ==
  ASSUME NEW text \in Seq(StreamBytes), NEW n \in Nat, n <= Len(text), 0 < MaxBytes, MaxBytes < n,
         NEW w, Sampled(w, text, n)
  PROVE  \E p \in Nat, q \in Nat, prefix \in Seq(StreamBytes), suffix \in Seq(StreamBytes) : \E report :
           Ends(Captured(w), text, n, p, q, prefix, suffix, w.ending, report)
<1> DEFINE first == tailWithin(w, limitSplit(MaxBytes, w.policy.headFraction)[2])
           room == MaxBytes - Len(first)
           seen == w.head \o w.boundary
           p == inwardHead(seen, room)
           prefix == SubSeq(w.head, 1, p)
           suffix == tailWithin(w, MaxBytes - Len(prefix))
           report == Report("bytes", w.total, logicalLineCount(w), Len(prefix) + Len(suffix),
                            selectedLineCount(prefix, suffix, w.newlines))
<1>1. /\ w \in Writers /\ w.policy = Policy /\ w.total = n /\ MaxBytes \in Nat
      /\ w.head \in Seq(StreamBytes) /\ w.boundary \in Seq(StreamBytes) /\ w.tail \in Seq(StreamBytes) /\ w.ending \in Seq(StreamBytes)
  BY DEF Sampled, Writers, MaxBytes
<1>2. Len(w.head) = MaxBytes /\ \A i \in 1..MaxBytes : w.head[i] = text[i]
  BY <1>1 DEF Sampled, HeadHolds, HeadLength, RingLength
<1>3. Len(w.boundary) >= 1 /\ \A i \in 1..Len(w.boundary) : w.boundary[i] = text[MaxBytes + i]
  BY <1>1 DEF Sampled, NextHolds, NextLength, UTFMax
<1>4. Len(w.tail) = MaxBytes /\ (\A i \in 1..MaxBytes : w.tail[i] = text[(n - MaxBytes) + i]) /\ w.before = <<text[n - MaxBytes]>>
  <2>1. RingLength(n) = MaxBytes
    BY <1>1 DEF RingLength
  <2>2. RingHolds(w, text, n)
    BY DEF Sampled
  <2> QED BY <1>1, <2>1, <2>2 DEF RingHolds
<1>5. Len(first) \in 0..MaxBytes
  <2>1. limitSplit(MaxBytes, w.policy.headFraction)[2] \in Int
    BY <1>1, SplitIsANumber
  <2>2. PICK from \in 0..MaxBytes : first = SubSeq(w.tail, from + 1, MaxBytes)
    BY <1>1, <1>4, <2>1, TailStart
  <2> HIDE DEF first
  <2> QED BY <1>1, <1>4, <2>2
<1> HIDE DEF first
<1>6. seen \in Seq(StreamBytes) /\ Len(seen) > MaxBytes /\ \A i \in 1..Len(seen) : seen[i] = text[i]
  <2>1. seen \in Seq(StreamBytes) /\ Len(seen) = MaxBytes + Len(w.boundary) /\ (\A i \in 1..MaxBytes : seen[i] = w.head[i])
        /\ \A i \in 1..Len(w.boundary) : seen[MaxBytes + i] = w.boundary[i]
    <3>1. Follows(seen, w.head, w.boundary)
      BY <1>1, Joined
    <3> HIDE DEF seen
    <3> QED BY <1>2, <3>1 DEF Follows
  <2>2. Len(w.boundary) \in Nat /\ MaxBytes \in Nat
    BY <1>1
  <2> HIDE DEF seen
  <2>3. ASSUME NEW i \in 1..Len(seen) PROVE seen[i] = text[i]
    <3>1. CASE i \in 1..MaxBytes
      BY <1>2, <2>1, <3>1
    <3>2. CASE i - MaxBytes \in 1..Len(w.boundary) /\ MaxBytes + (i - MaxBytes) = i
      BY <1>3, <2>1, <3>2
    <3> QED BY <2>1, <2>2, <3>1, <3>2
  <2> QED BY <1>3, <2>1, <2>2, <2>3
<1> HIDE DEF seen
<1>7. p \in 0..MaxBytes /\ (p > 0 => Clean(text, p))
  <2>1. room \in Int /\ 0 <= room /\ room <= MaxBytes /\ room < Len(seen) /\ Len(seen) \in Nat
    BY <1>1, <1>5, <1>6
  <2> HIDE DEF room
  <2>2. p \in Nat /\ p <= room /\ (p > 0 => Clean(seen, p))
    BY <1>6, <2>1, HeadCut
  <2> HIDE DEF p
  <2>3. p > 0 => seen[p] = text[p] /\ seen[p + 1] = text[p + 1]
    BY <1>6, <2>1, <2>2
  <2> QED BY <1>1, <2>1, <2>2, <2>3 DEF Clean, SplitsCharacter
<1> HIDE DEF p
<1>8. prefix \in Seq(StreamBytes) /\ Len(prefix) = p /\ \A i \in 1..p : prefix[i] = text[i]
  BY <1>1, <1>2, <1>7
<1> HIDE DEF prefix
<1>9. PICK from \in 0..MaxBytes :
        /\ suffix = SubSeq(w.tail, from + 1, MaxBytes)
        /\ p <= from
        /\ 0 < from /\ from < MaxBytes => Clean(w.tail, from)
        /\ from = 0 => ~Continues(w.tail[1]) /\ ~(Last(w.before).is = "CR" /\ w.tail[1].is = "LF")
  <2>1. MaxBytes - p \in Int /\ 0 <= MaxBytes - p /\ MaxBytes - p <= MaxBytes /\ MaxBytes - (MaxBytes - p) = p /\ w.tail # <<>> /\ w.before # <<>>
    BY <1>1, <1>4, <1>7
  <2>2. suffix = tailWithin(w, MaxBytes - p)
    BY <1>8
  <2> HIDE DEF suffix
  <2> QED BY <1>1, <1>4, <2>1, <2>2, TailStart
<1> DEFINE q == MaxBytes - from
<1>10. q \in Nat /\ p + q <= MaxBytes /\ n - q = (n - MaxBytes) + from
  BY <1>1, <1>7, <1>9
<1>11. suffix \in Seq(StreamBytes) /\ Len(suffix) = q /\ \A i \in 1..q : suffix[i] = text[(n - q) + i]
  <2>1. suffix \in Seq(StreamBytes) /\ Len(suffix) = q /\ \A i \in 1..q : suffix[i] = w.tail[from + i]
    <3> HIDE DEF suffix
    <3>1. from \in 0..Len(w.tail) /\ suffix = SubSeq(w.tail, from + 1, Len(w.tail))
      BY <1>4, <1>9
    <3>2. suffix \in Seq(StreamBytes) /\ Len(suffix) = Len(w.tail) - from /\ \A i \in 1..Len(suffix) : suffix[i] = w.tail[from + i]
      BY <1>1, <3>1, Ending
    <3> QED BY <1>4, <3>2
  <2> HIDE DEF suffix
  <2>2. ASSUME NEW i \in 1..q PROVE suffix[i] = text[(n - q) + i]
    <3>1. from + i \in 1..MaxBytes /\ (n - MaxBytes) + (from + i) = (n - q) + i
      BY <1>1, <1>9
    <3> QED BY <1>4, <2>1, <3>1
  <2> QED BY <2>1, <2>2
<1> HIDE DEF suffix
<1>12. q > 0 => Clean(text, n - q)
  <2> SUFFICES ASSUME q > 0 PROVE Clean(text, n - q)
    OBVIOUS
  <2>1. from + 1 \in 1..MaxBytes /\ text[(n - q) + 1] = w.tail[from + 1]
    <3>1. (n - MaxBytes) + (from + 1) = (n - q) + 1 /\ from + 1 \in 1..MaxBytes
      BY <1>1, <1>9
    <3> QED BY <1>4, <3>1
  <2>2. CASE from = 0
    <3>1. n - q = n - MaxBytes /\ Last(w.before) = text[n - MaxBytes]
      BY <1>1, <1>4, <2>2 DEF Last
    <3> QED BY <1>9, <2>1, <2>2, <3>1 DEF Clean, SplitsCharacter
  <2>3. CASE from > 0
    <3>1. from \in 1..MaxBytes /\ w.tail[from] = text[n - q] /\ from < MaxBytes
      BY <1>1, <1>4, <1>9, <1>10, <2>3
    <3> QED BY <1>9, <2>1, <2>3, <3>1 DEF Clean, SplitsCharacter
  <2> QED BY <1>9, <2>2, <2>3
<1>13. Captured(w) = [text |-> Framed(prefix, Marker(report), suffix, w.ending), report |-> report]
  <2>1. w.policy.maxBytes = MaxBytes /\ ~(Unlimited(w) \/ w.total <= w.policy.maxBytes)
    BY <1>1 DEF Unlimited, MaxBytes
  <2> QED BY <2>1 DEF Captured, first, seen, p, prefix, suffix
<1>14. report.truncated /\ report.originalBytes = n
  BY <1>1 DEF Report
<1> HIDE DEF report, q
<1>15. Ends(Captured(w), text, n, p, q, prefix, suffix, w.ending, report)
  BY <1>7, <1>8, <1>10, <1>11, <1>12, <1>13, <1>14 DEF Ends
<1> QED BY <1>7, <1>8, <1>10, <1>11, <1>15

(* The number of bytes in a stretch.                                       *)
LEMMA StretchSize == ASSUME NEW a \in Nat, NEW b \in Nat PROVE IsFiniteSet((a + 1)..(a + b)) /\ Cardinality((a + 1)..(a + b)) = b
<1>1. IsFiniteSet((a + 1)..(a + b)) /\ Cardinality((a + 1)..(a + b)) = IF a + 1 > a + b THEN 0 ELSE (a + b) - (a + 1) + 1
  <2>1. a + 1 \in Int /\ a + b \in Int
    OBVIOUS
  <2> QED BY <2>1, FS_Interval
<1>2. (IF a + 1 > a + b THEN 0 ELSE (a + b) - (a + 1) + 1) = b
  OBVIOUS
<1> QED BY <1>1, <1>2

(* Captured shows a part of what was written, clean at both cuts and       *)
(* within the limit (Writer.String).                                       *)
LEMMA CaptureShows ==
  ASSUME NEW text \in Seq(StreamBytes), \A i \in DOMAIN text : text[i].at = i,
         NEW n \in Nat, n <= Len(text), NEW w, Sampled(w, text, n),
         NEW source, source = SubSeq(text, 1, n)
  PROVE  /\ Shows(Captured(w), source)
         /\ MaxBytes > 0 => Cardinality(Kept(Captured(w).text)) <= MaxBytes
<1> DEFINE shown == Captured(w)
<1>1. /\ w \in Writers /\ w.policy = Policy /\ w.total = n /\ MaxBytes \in Nat
      /\ w.head \in Seq(StreamBytes) /\ w.ending \in Seq(StreamBytes)
  BY DEF Sampled, Writers, MaxBytes
<1>2. Len(source) = n /\ DOMAIN source = 1..n /\ \A i \in 1..n : source[i] = text[i]
  OBVIOUS
<1>3. CASE MaxBytes = 0 \/ n <= MaxBytes
  <2>1. shown.text = w.head /\ shown.report = Report("", n, logicalLineCount(w), n, logicalLineCount(w))
    <3>1. Unlimited(w) \/ w.total <= w.policy.maxBytes
      BY <1>1, <1>3 DEF Unlimited, MaxBytes
    <3> QED BY <1>1, <3>1 DEF Captured
  <2>2. shown.report.truncated = FALSE /\ shown.report.originalBytes = n
    <3> HIDE DEF shown
    <3> DEFINE report == shown.report
    <3>1. report = Report("", n, logicalLineCount(w), n, logicalLineCount(w))
      BY <2>1
    <3> HIDE DEF report
    <3>2. report.truncated = FALSE /\ report.originalBytes = n
      BY <3>1 DEF Report
    <3> QED BY <3>2 DEF report
  <2>3. HeadLength(n) = n
    BY <1>1, <1>3 DEF HeadLength, RingLength
  <2>4. Len(w.head) = n /\ \A i \in 1..n : w.head[i] = text[0 + i]
    BY <2>3 DEF Sampled, HeadHolds
  <2>5. Holds(w.head, (0 + 1)..(0 + n))
    <3>1. 0 + Len(w.head) <= Len(text) /\ \A i \in 1..Len(w.head) : w.head[i] = text[0 + i]
      BY <2>4
    <3>2. Holds(w.head, (0 + 1)..(0 + Len(w.head)))
      BY <1>1, <3>1, StretchKeeps
    <3> QED BY <2>4, <3>2
  <2> HIDE DEF shown
  <2>6. Kept(shown.text) = 1..n /\ Ascending(shown.text)
    <3>1. (0 + 1)..(0 + n) = 1..n
      OBVIOUS
    <3>2. Kept(w.head) = (0 + 1)..(0 + n) /\ Ascending(w.head)
      BY <2>5 DEF Holds
    <3> QED BY <2>1, <3>1, <3>2
  <2>7. Shows(shown, source)
    BY <1>2, <2>2, <2>6 DEF Shows
  <2>8. Cardinality(1..n) = n
    BY FS_Interval
  <2> QED BY <1>3, <2>6, <2>7, <2>8 DEF shown
<1>4. CASE 0 < MaxBytes /\ MaxBytes < n
  <2>1. PICK p \in Nat, q \in Nat, prefix \in Seq(StreamBytes), suffix \in Seq(StreamBytes) :
          \E report : Ends(shown, text, n, p, q, prefix, suffix, w.ending, report)
    BY <1>4, EndsOfStream
  <2>0. PICK report : Ends(shown, text, n, p, q, prefix, suffix, w.ending, report)
    BY <2>1
  <2> HIDE DEF shown
  <2> DEFINE A == 1..p
             B == ((n - q) + 1)..n
  <2>2. p + q <= MaxBytes /\ p + q < n /\ p < n /\ n - q \in Nat /\ p < n - q
    BY <1>1, <1>4, <2>0, <2>1 DEF Ends
  <2>3. Holds(prefix, A)
    <3>1. Len(prefix) = p /\ 0 + p <= Len(text) /\ \A i \in 1..p : prefix[i] = text[0 + i]
      <4>1. Len(prefix) = p /\ \A i \in 1..p : prefix[i] = text[i]
        BY <2>0, <2>1 DEF Ends
      <4>2. 0 + p <= Len(text) /\ \A i \in 1..p : 0 + i = i
        BY <2>2
      <4> QED BY <4>1, <4>2
    <3>2. Holds(prefix, (0 + 1)..(0 + p))
      BY <3>1, StretchKeeps
    <3> QED BY <3>2
  <2>4. Holds(suffix, B)
    <3>1. Len(suffix) = q /\ \A i \in 1..q : suffix[i] = text[(n - q) + i]
      BY <2>0, <2>1 DEF Ends
    <3>4. (n - q) + q <= Len(text)
      OBVIOUS
    <3>2. Holds(suffix, ((n - q) + 1)..((n - q) + q))
      BY <2>2, <3>4, <3>1, StretchKeeps
    <3>3. (n - q) + q = n
      OBVIOUS
    <3> QED BY <3>2, <3>3
  <2>5. Below(A, B)
    BY <2>2 DEF Below
  <2>6. /\ shown = [text |-> Framed(prefix, Marker(report), suffix, w.ending), report |-> report]
        /\ report.truncated /\ report.originalBytes = n
    BY <2>0, <2>1 DEF Ends
  <2>7. shown.text = Framed(prefix, Marker(report), suffix, w.ending) /\ shown.report = report
    BY <2>6
  <2>8. Kept(shown.text) = A \cup B /\ Ascending(shown.text)
    <3> HIDE DEF A, B
    <3>1. Holds(shown.text, A \cup B)
      BY <1>1, <2>0, <2>1, <2>3, <2>4, <2>5, <2>7, FramesKeep
    <3> QED BY <3>1 DEF Holds
  <2>9. A \cup B # DOMAIN source
    <3>1. p + 1 \in DOMAIN source /\ p + 1 \notin A \cup B
      BY <1>2, <2>2
    <3> QED BY <3>1
  <2>10. ASSUME NEW i \in 1..(Len(source) - 1), (i \in A \cup B) # (i + 1 \in A \cup B)
         PROVE  ~SplitsCharacter(source, i) /\ ~SplitsCRLF(source, i)
    <3>1. i \in 1..n /\ i + 1 \in 1..n /\ source[i] = text[i] /\ source[i + 1] = text[i + 1]
      <4>1. i \in 1..(n - 1)
        BY <1>2
      <4>2. i \in 1..n /\ i + 1 \in 1..n
        BY <4>1
      <4> QED BY <1>2, <4>2
    <3>2. (i = p /\ p > 0) \/ (i = n - q /\ q > 0)
      BY <1>2, <2>2, <2>10
    <3>3. Clean(text, i)
      BY <2>0, <2>1, <3>2 DEF Ends
    <3> QED BY <3>1, <3>3 DEF Clean, SplitsCharacter, SplitsCRLF
  <2>11. Cardinality(A \cup B) <= MaxBytes
    <3>1. IsFiniteSet(A) /\ Cardinality(A) = p
      <4>1. (0 + 1)..(0 + p) = A
        OBVIOUS
      <4> HIDE DEF A
      <4> QED BY <4>1, StretchSize
    <3>2. IsFiniteSet(B) /\ Cardinality(B) = q
      <4>1. ((n - q) + 1)..((n - q) + q) = B
        OBVIOUS
      <4> HIDE DEF B
      <4> QED BY <2>2, <4>1, StretchSize
    <3>3. A \cap B = {}
      BY <2>2
    <3> HIDE DEF A, B
    <3>4. Cardinality(A \cup B) = Cardinality(A) + Cardinality(B) - Cardinality(A \cap B)
      BY <3>1, <3>2, FS_Union
    <3>5. Cardinality(A \cap B) = 0
      BY <3>3, FS_EmptySet
    <3>6. Cardinality(A \cup B) = p + q - 0
      BY <3>1, <3>2, <3>4, <3>5
    <3> QED BY <2>2, <3>6
  <2> HIDE DEF A, B
  <2>12. Shows(shown, source)
    <3>1. shown.report.truncated <=> Kept(shown.text) # DOMAIN source
      BY <2>6, <2>7, <2>8, <2>9
    <3>2. shown.report.originalBytes >= Len(source)
      BY <1>2, <2>6, <2>7
    <3> QED BY <2>8, <2>10, <3>1, <3>2 DEF Shows
  <2> QED BY <2>8, <2>11, <2>12 DEF shown
<1> QED BY <1>1, <1>3, <1>4


-----------------------------------------------------------------------------
(* The inductive invariant of a command.                                   *)

\* What the variables are.  Both streams are sampled as far as they are copied.
Shapes ==
  /\ pc \in {"idle", "waiting", "stopping", "grace", "backstop", "capturing", "finishing", "returned", "answered"}
  /\ alive \subseteq born /\ born \subseteq Processes
  /\ signals \in [Processes -> {"none", "term", "kill"}]
  /\ open \in [Streams -> SUBSET alive]
  /\ exit \in {"none", "code", "signal"} /\ wait \in {"none", "process", "copying", "delivered"}
  /\ call \in [timedOut : BOOLEAN, killed : BOOLEAN, stopErr : BOOLEAN]

Copying ==
  /\ written \in [Streams -> Nat] /\ copied \in [Streams -> Nat] /\ capture \in [Streams -> Writers]
  /\ \A s \in Streams :
       /\ output[s] \in Seq(StreamBytes)
       /\ \A i \in DOMAIN output[s] : output[s][i].at = i
       /\ copied[s] <= written[s] /\ written[s] <= Len(output[s])
       /\ Sampled(capture[s], output[s], copied[s])

\* Nothing of a command is there before it starts.
Unstarted ==
  pc = "idle" =>
    /\ alive = {} /\ born = {} /\ wait = "none" /\ exit = "none" /\ ~late
    /\ \A s \in Streams : written[s] = 0 /\ copied[s] = 0 /\ capture[s] = NewWriter(Policy)

\* Cmd.Wait waits for the shell, then for its pipes.
Waited ==
  /\ wait # "none" => "shell" \in born /\ ("shell" \in alive \/ exit # "none")
  /\ wait \in {"copying", "delivered"} => "shell" \notin alive
  /\ wait = "delivered" /\ ~late => \A s \in Used : copied[s] = written[s]
  /\ pc \in {"capturing", "finishing"} => call.stopErr \/ wait = "delivered"

\* No process of a command that is not called killed has been signalled.
Signalled ==
  /\ pc \in {"idle", "waiting", "stopping"} => ~call.killed
  /\ pc \notin {"returned", "answered"} /\ ~call.killed => \A p \in Processes : signals[p] = "none"

\* What finishCommand has to work with.
Finishing ==
  pc = "finishing" =>
    /\ "err" \in DOMAIN result /\ result.err = "none" /\ result.killed = call.killed
    /\ ~call.stopErr =>
         /\ result.exit = exit /\ result.copied = copied
         /\ \A s \in Used : result[s] = Captured(capture[s])

Closed == pc \in {"returned", "answered"} /\ result.err = "none" => \A p \in alive : signals[p] = "kill"

ShellInv == Shapes /\ Copying /\ Unstarted /\ Waited /\ Signalled /\ Finishing /\ Closed

(* The invariant holds initially.                                          *)
LEMMA ShellInitially == ShellInit => ShellInv
<1> SUFFICES ASSUME ShellInit PROVE ShellInv
  OBVIOUS
<1>1. Shapes /\ Unstarted /\ Waited /\ Signalled /\ Finishing /\ Closed
  BY DEF ShellInit, Shapes, Unstarted, Waited, Signalled, Finishing, Closed, NoCall, NoResult
<1>2. Copying
  BY NewSamples DEF ShellInit, Copying, Sampled
<1> QED BY <1>1, <1>2 DEF ShellInv

(* A command that does not start.                                          *)
LEMMA InvRefused == ASSUME ShellInv, Refused PROVE ShellInv'
<1> USE DEF ShellInv, callerVars, groupVars, pipeVars, Used, Signal, GroupExists, NoCall, Refused
<1>1. Shapes'
  BY DEF Shapes
<1>2. Copying'
  BY DEF Shapes, Copying
<1>3. Unstarted'
  BY DEF Shapes, Unstarted
<1>4. Waited'
  BY DEF Shapes, Waited
<1>5. Signalled'
  BY DEF Shapes, Signalled
<1>6. Finishing'
  BY DEF Shapes, Finishing
<1>7. Closed'
  BY DEF Shapes, Closed
<1> QED BY <1>1, <1>2, <1>3, <1>4, <1>5, <1>6, <1>7

(* A command that starts, with nothing of it copied yet.                   *)
LEMMA InvStart == ASSUME ShellInv, Start PROVE ShellInv'
<1> USE DEF ShellInv, callerVars, groupVars, pipeVars, Used, Signal, GroupExists, NoCall, Start
<1>1. Shapes'
  <2>1. open' \in [Streams -> SUBSET alive']
    OBVIOUS
  <2>2. alive' \subseteq born' /\ born' \subseteq Processes
    BY DEF Processes
  <2> QED BY <2>1, <2>2 DEF Shapes
<1>2. Copying'
  <2>1. ASSUME NEW s \in Streams
        PROVE  /\ output'[s] \in Seq(StreamBytes) /\ \A i \in DOMAIN output'[s] : output'[s][i].at = i
               /\ written[s] = 0 /\ copied[s] = 0 /\ capture[s] = NewWriter(Policy)
    BY DEF StreamBytes, Unstarted
  <2>2. ASSUME NEW s \in Streams PROVE Sampled(capture[s], output'[s], copied[s])
    BY <2>1, NewSamples
  <2>3. written' = written /\ copied' = copied /\ capture' = capture
    OBVIOUS
  <2>4. ASSUME NEW s \in Streams PROVE copied[s] <= written[s] /\ written[s] <= Len(output'[s])
    BY <2>1
  <2> HIDE DEF Start, ShellInv
  <2>5. Copying
    BY DEF ShellInv
  <2> QED BY <2>1, <2>2, <2>3, <2>4, <2>5 DEF Copying
<1>3. Unstarted'
  BY DEF Shapes, Unstarted
<1>4. Waited'
  BY DEF Shapes, Waited
<1>5. Signalled'
  BY DEF Shapes, Signalled
<1>6. Finishing'
  BY DEF Shapes, Finishing
<1>7. Closed'
  BY DEF Shapes, Closed
<1> QED BY <1>1, <1>2, <1>3, <1>4, <1>5, <1>6, <1>7

(* The end of Cmd.Wait.                                                    *)
LEMMA InvCompletes == ASSUME ShellInv, Completes PROVE ShellInv'
<1> USE DEF ShellInv, callerVars, groupVars, pipeVars, Used, Signal, GroupExists, NoCall, Completes
<1>1. Shapes'
  BY DEF Shapes
<1>2. Copying'
  BY DEF Shapes, Copying
<1>3. Unstarted'
  BY DEF Shapes, Unstarted
<1>4. Waited'
  BY DEF Shapes, Waited
<1>5. Signalled'
  BY DEF Shapes, Signalled
<1>6. Finishing'
  BY DEF Shapes, Finishing
<1>7. Closed'
  BY DEF Shapes, Closed
<1> QED BY <1>1, <1>2, <1>3, <1>4, <1>5, <1>6, <1>7

(* The end of the context or of the timer.                                 *)
LEMMA InvExpires == ASSUME ShellInv, NEW why, Expires(why) PROVE ShellInv'
<1> USE DEF ShellInv, callerVars, groupVars, pipeVars, Used, Signal, GroupExists, NoCall, Expires
<1>1. Shapes'
  BY DEF Shapes
<1>2. Copying'
  BY DEF Shapes, Copying
<1>3. Unstarted'
  BY DEF Shapes, Unstarted
<1>4. Waited'
  BY DEF Shapes, Waited
<1>5. Signalled'
  BY DEF Shapes, Signalled
<1>6. Finishing'
  BY DEF Shapes, Finishing
<1>7. Closed'
  BY DEF Shapes, Closed
<1> QED BY <1>1, <1>2, <1>3, <1>4, <1>5, <1>6, <1>7

(* The first signal: none is sent when the group is gone.                  *)
LEMMA InvTerminate == ASSUME ShellInv, Terminate PROVE ShellInv'
<1> USE DEF ShellInv, callerVars, groupVars, pipeVars, Used, Signal, GroupExists, NoCall, Terminate
<1>1. Shapes'
  BY DEF Shapes
<1>2. Copying'
  BY DEF Shapes, Copying
<1>3. Unstarted'
  BY DEF Shapes, Unstarted
<1>4. Waited'
  BY DEF Shapes, Waited
<1>5. Signalled'
  BY DEF Shapes, Signalled
<1>6. Finishing'
  BY DEF Shapes, Finishing
<1>7. Closed'
  BY DEF Shapes, Closed
<1> QED BY <1>1, <1>2, <1>3, <1>4, <1>5, <1>6, <1>7

(* The second signal.                                                      *)
LEMMA InvKill == ASSUME ShellInv, Kill PROVE ShellInv'
<1> USE DEF ShellInv, callerVars, groupVars, pipeVars, Used, Signal, GroupExists, NoCall, Kill
<1>1. Shapes'
  BY DEF Shapes
<1>2. Copying'
  BY DEF Shapes, Copying
<1>3. Unstarted'
  BY DEF Shapes, Unstarted
<1>4. Waited'
  BY DEF Shapes, Waited
<1>5. Signalled'
  BY DEF Shapes, Signalled
<1>6. Finishing'
  BY DEF Shapes, Finishing
<1>7. Closed'
  BY DEF Shapes, Closed
<1> QED BY <1>1, <1>2, <1>3, <1>4, <1>5, <1>6, <1>7

(* The end of a stopped command.                                           *)
LEMMA InvStopped == ASSUME ShellInv, Stopped PROVE ShellInv'
<1> USE DEF ShellInv, callerVars, groupVars, pipeVars, Used, Signal, GroupExists, NoCall, Stopped
<1>1. Shapes'
  BY DEF Shapes
<1>2. Copying'
  BY DEF Shapes, Copying
<1>3. Unstarted'
  BY DEF Shapes, Unstarted
<1>4. Waited'
  BY DEF Shapes, Waited
<1>5. Signalled'
  BY DEF Shapes, Signalled
<1>6. Finishing'
  BY DEF Shapes, Finishing
<1>7. Closed'
  BY DEF Shapes, Closed
<1> QED BY <1>1, <1>2, <1>3, <1>4, <1>5, <1>6, <1>7

(* A command that outlives the backstop.                                   *)
LEMMA InvGivesUp == ASSUME ShellInv, GivesUp PROVE ShellInv'
<1> USE DEF ShellInv, callerVars, groupVars, pipeVars, Used, Signal, GroupExists, NoCall, GivesUp
<1>1. Shapes'
  BY DEF Shapes
<1>2. Copying'
  BY DEF Shapes, Copying
<1>3. Unstarted'
  BY DEF Shapes, Unstarted
<1>4. Waited'
  BY DEF Shapes, Waited
<1>5. Signalled'
  BY DEF Shapes, Signalled
<1>6. Finishing'
  BY DEF Shapes, Finishing
<1>7. Closed'
  BY DEF Shapes, Closed
<1> QED BY <1>1, <1>2, <1>3, <1>4, <1>5, <1>6, <1>7

(* The result, as it stands when the command has ended.                    *)
LEMMA InvCaptureResult == ASSUME ShellInv, CaptureResult PROVE ShellInv'
<1> USE DEF ShellInv, callerVars, groupVars, pipeVars, Used, Signal, GroupExists, NoCall, CaptureResult
<1>1. Shapes'
  BY DEF Shapes
<1>2. Copying'
  BY DEF Shapes, Copying
<1>3. Unstarted'
  BY DEF Shapes, Unstarted
<1>4. Waited'
  BY DEF Shapes, Waited
<1>5. Signalled'
  BY DEF Shapes, Signalled
<1>6. Finishing'
  <2>1. "err" \in DOMAIN result' /\ result'.err = "none" /\ result'.killed = call.killed
    OBVIOUS
  <2>2. ASSUME ~call.stopErr
        PROVE  /\ result'.exit = exit /\ result'.copied = copied
               /\ result'.stdout = Captured(capture["stdout"])
               /\ ~merged => result'.stderr = Captured(capture["stderr"])
    BY <2>2
  <2>3. ASSUME ~call.stopErr, NEW s \in Used PROVE result'[s] = Captured(capture[s])
    BY <2>2, <2>3 DEF Streams
  <2>4. call' = call /\ exit' = exit /\ copied' = copied /\ capture' = capture /\ Used' = Used
    OBVIOUS
  <2> HIDE DEF CaptureResult, Used
  <2> QED BY <2>1, <2>2, <2>3, <2>4 DEF Finishing
<1>7. Closed'
  BY DEF Shapes, Closed
<1> QED BY <1>1, <1>2, <1>3, <1>4, <1>5, <1>6, <1>7

(* The group closed by force, or an error.                                 *)
LEMMA InvFinishCommand == ASSUME ShellInv, FinishCommand PROVE ShellInv'
<1> USE DEF ShellInv, callerVars, groupVars, pipeVars, Used, Signal, GroupExists, NoCall, FinishCommand
<1>1. Shapes'
  BY DEF Shapes
<1>2. Copying'
  BY DEF Shapes, Copying
<1>3. Unstarted'
  BY DEF Shapes, Unstarted
<1>4. Waited'
  BY DEF Shapes, Waited
<1>5. Signalled'
  BY DEF Shapes, Signalled
<1>6. Finishing'
  BY DEF Shapes, Finishing
<1>7. Closed'
  <2>1. result.err = "none" /\ "err" \in DOMAIN result
    BY DEF Finishing
  <2>2. CASE result' = [result EXCEPT !.err = "backstop"] \/ result' = [result EXCEPT !.err = "cleanup"]
    <3>1. result'.err # "none"
      BY <2>1, <2>2
    <3> QED BY <3>1 DEF Closed
  <2>3. CASE signals' = [p \in Processes |-> IF p \in alive THEN "kill" ELSE signals[p]]
    <3>1. \A p \in alive' : signals'[p] = "kill"
      BY <2>3 DEF Shapes
    <3> QED BY <3>1 DEF Closed
  <2> QED BY <2>2, <2>3
<1> QED BY <1>1, <1>2, <1>3, <1>4, <1>5, <1>6, <1>7

(* An answer of bash.                                                      *)
LEMMA InvAnswer == ASSUME ShellInv, NEW grant, Answer(grant) PROVE ShellInv'
<1> USE DEF ShellInv, callerVars, groupVars, pipeVars, Used, Signal, GroupExists, NoCall, Answer
<1>1. Shapes'
  BY DEF Shapes
<1>2. Copying'
  BY DEF Shapes, Copying
<1>3. Unstarted'
  BY DEF Shapes, Unstarted
<1>4. Waited'
  BY DEF Shapes, Waited
<1>5. Signalled'
  BY DEF Shapes, Signalled
<1>6. Finishing'
  BY DEF Shapes, Finishing
<1>7. Closed'
  BY DEF Shapes, Closed
<1> QED BY <1>1, <1>2, <1>3, <1>4, <1>5, <1>6, <1>7

(* A byte in a pipe, which is not copied yet.                              *)
LEMMA InvWrites ==
  ASSUME ShellInv, NEW p \in Processes, NEW s \in Streams, Writes(p, s)
  PROVE  ShellInv'
<1> USE DEF ShellInv, callerVars, groupVars, pipeVars, Used, Signal, GroupExists, NoCall, Writes
<1>1. Shapes'
  BY DEF Shapes
<1>2. Copying'
  BY DEF Shapes, Copying
<1>3. Unstarted'
  BY DEF Shapes, Unstarted
<1>4. Waited'
  BY DEF Shapes, Waited
<1>5. Signalled'
  BY DEF Shapes, Signalled
<1>6. Finishing'
  BY DEF Shapes, Finishing
<1>7. Closed'
  BY DEF Shapes, Closed
<1> QED BY <1>1, <1>2, <1>3, <1>4, <1>5, <1>6, <1>7

(* A descendant: of a process that lives, and never the shell.             *)
LEMMA InvForks ==
  ASSUME ShellInv, NEW p \in Processes, NEW q \in Processes, NEW streams \in SUBSET Streams, Forks(p, q, streams)
  PROVE  ShellInv'
<1> USE DEF ShellInv, callerVars, groupVars, pipeVars, Used, Signal, GroupExists, NoCall, Forks
<1>1. Shapes'
  BY DEF Shapes
<1>2. Copying'
  BY DEF Shapes, Copying
<1>3. Unstarted'
  BY DEF Shapes, Unstarted
<1>4. Waited'
  BY DEF Shapes, Waited
<1>5. Signalled'
  BY DEF Shapes, Signalled
<1>6. Finishing'
  BY DEF Shapes, Finishing
<1>7. Closed'
  BY DEF Shapes, Closed
<1> QED BY <1>1, <1>2, <1>3, <1>4, <1>5, <1>6, <1>7

(* The end of a process: not of the shell once it was waited for.          *)
LEMMA InvExits ==
  ASSUME ShellInv, NEW p \in Processes, NEW how \in {"code", "signal"}, Exits(p, how)
  PROVE  ShellInv'
<1> USE DEF ShellInv, callerVars, groupVars, pipeVars, Used, Signal, GroupExists, NoCall, Exits
<1>1. Shapes'
  BY DEF Shapes
<1>2. Copying'
  BY DEF Shapes, Copying
<1>3. Unstarted'
  BY DEF Shapes, Unstarted
<1>4. Waited'
  BY DEF Shapes, Waited
<1>5. Signalled'
  BY DEF Shapes, Signalled
<1>6. Finishing'
  <2>1. pc = "finishing" /\ ~call.stopErr => exit' = exit
    BY DEF Waited
  <2> QED BY <2>1 DEF Finishing
<1>7. Closed'
  BY DEF Shapes, Closed
<1> QED BY <1>1, <1>2, <1>3, <1>4, <1>5, <1>6, <1>7

(* A copy, sampled by SamplesCopy: not after Cmd.Wait has ended.           *)
LEMMA InvCopies == ASSUME ShellInv, NEW s \in Streams, Copies(s) PROVE ShellInv'
<1> USE DEF ShellInv, callerVars, groupVars, pipeVars, Used, Signal, GroupExists, NoCall, Copies
<1>1. Shapes'
  BY DEF Shapes
<1>2. Copying'
  <2> DEFINE chunk == SubSeq(output[s], copied[s] + 1, written[s])
  <2>1. Sampled(Write(capture[s], chunk), output[s], written[s])
    BY SamplesCopy DEF Copying
  <2>2. Write(capture[s], chunk) \in Writers
    BY <2>1 DEF Sampled
  <2>3. copied' = [copied EXCEPT ![s] = written[s]] /\ capture' = [capture EXCEPT ![s] = Write(capture[s], chunk)]
        /\ written' = written /\ output' = output /\ Copying
    OBVIOUS
  <2> HIDE DEF Copies, ShellInv, chunk
  <2> QED BY <2>1, <2>2, <2>3 DEF Copying
<1>3. Unstarted'
  BY DEF Shapes, Unstarted
<1>4. Waited'
  BY DEF Shapes, Waited
<1>5. Signalled'
  BY DEF Shapes, Signalled
<1>6. Finishing'
  <2>1. pc = "finishing" => call.stopErr
    BY DEF Waited
  <2> QED BY <2>1 DEF Finishing
<1>7. Closed'
  BY DEF Shapes, Closed
<1> QED BY <1>1, <1>2, <1>3, <1>4, <1>5, <1>6, <1>7

(* The shell reaped.                                                       *)
LEMMA InvReaps == ASSUME ShellInv, Reaps PROVE ShellInv'
<1> USE DEF ShellInv, callerVars, groupVars, pipeVars, Used, Signal, GroupExists, NoCall, Reaps
<1>1. Shapes'
  BY DEF Shapes
<1>2. Copying'
  BY DEF Shapes, Copying
<1>3. Unstarted'
  BY DEF Shapes, Unstarted
<1>4. Waited'
  BY DEF Shapes, Waited
<1>5. Signalled'
  BY DEF Shapes, Signalled
<1>6. Finishing'
  BY DEF Shapes, Finishing
<1>7. Closed'
  BY DEF Shapes, Closed
<1> QED BY <1>1, <1>2, <1>3, <1>4, <1>5, <1>6, <1>7

(* The pipes at their ends, or given up.                                   *)
LEMMA InvDelivers == ASSUME ShellInv, Delivers PROVE ShellInv'
<1> USE DEF ShellInv, callerVars, groupVars, pipeVars, Used, Signal, GroupExists, NoCall, Delivers
<1>1. Shapes'
  BY DEF Shapes
<1>2. Copying'
  BY DEF Shapes, Copying
<1>3. Unstarted'
  BY DEF Shapes, Unstarted
<1>4. Waited'
  BY DEF Shapes, Waited
<1>5. Signalled'
  BY DEF Shapes, Signalled
<1>6. Finishing'
  BY DEF Shapes, Finishing
<1>7. Closed'
  BY DEF Shapes, Closed
<1> QED BY <1>1, <1>2, <1>3, <1>4, <1>5, <1>6, <1>7

(* A step that leaves the command alone preserves it.                      *)
LEMMA InvStutter == ASSUME ShellInv, UNCHANGED shellVars PROVE ShellInv'
BY DEF ShellInv, shellVars, callerVars, groupVars, pipeVars, Used, Shapes, Copying, Unstarted, Waited, Signalled, Finishing, Closed

(* Every step of a command preserves the invariant.                        *)
LEMMA InvStep == ASSUME ShellInv, Step PROVE ShellInv'
<1>1. CASE \E why \in {"context", "timeout"} : Expires(why)
  BY <1>1, InvExpires
<1>2. CASE \E grant \in Grants : Answer(grant)
  BY <1>2, InvAnswer
<1>3. CASE \E p \in Processes, s \in Streams : Writes(p, s)
  BY <1>3, InvWrites
<1>4. CASE \E p, q \in Processes, streams \in SUBSET Streams : Forks(p, q, streams)
  BY <1>4, InvForks
<1>5. CASE \E p \in Processes, how \in {"code", "signal"} : Exits(p, how)
  BY <1>5, InvExits
<1>6. CASE \E s \in Streams : Copies(s)
  BY <1>6, InvCopies
<1> QED
  BY <1>1, <1>2, <1>3, <1>4, <1>5, <1>6, InvRefused, InvStart, InvCompletes, InvTerminate, InvKill, InvStopped,
     InvGivesUp, InvCaptureResult, InvFinishCommand, InvReaps, InvDelivers DEF Step

(* So do all steps of the tools: read, edit and write leave it alone.      *)
LEMMA Invariant == Spec => []ShellInv
<1>1. Init => ShellInv
  BY ShellInitially DEF Init
<1>2. ShellInv /\ [Next]_vars => ShellInv'
  BY InvStep, InvStutter DEF Next, vars
<1> QED BY <1>1, <1>2, PTL DEF Spec

(* No variable of a command leaves its range: what is copied was written,  *)
(* what is written is output, and a ring does not outgrow its limit        *)
(* (shellexec.Executor, outputlimit.Writer).                               *)
THEOREM ToolCallsTypeOK == Spec => []TypeOK
<1>1. ShellInv => TypeOK
  <2> SUFFICES ASSUME ShellInv, NEW s \in Streams PROVE capture[s].total = copied[s] /\ Len(capture[s].tail) <= Policy.maxBytes
    BY DEF ShellInv, Shapes, Copying, TypeOK
  <2>1. Sampled(capture[s], output[s], copied[s]) /\ copied[s] \in Nat
    BY DEF ShellInv, Copying
  <2> QED BY <2>1 DEF Sampled, RingHolds, RingLength, MaxBytes
<1> QED BY <1>1, Invariant, PTL

(* A command that returns without an error leaves no process unkilled, is  *)
(* not called unkilled when it was signalled, and misses no output unless  *)
(* Cmd.Wait gave up on the pipes (waitForCommand, finishCommand).          *)
THEOREM CommandResultIsFinal == Spec => []ResultIsFinal
<1>1. ShellInv => ResultIsFinal
  BY DEF ShellInv, Shapes, Closed, Finishing, Waited, Signalled, ResultIsFinal, Used
<1> QED BY <1>1, Invariant, PTL

(* The captures of a command show both ends of the very bytes that were    *)
(* copied, within the limit, clean at their cuts and with a report that    *)
(* tells whether something is missing (captureResult, Writer.String).      *)
THEOREM CapturesStayWhole == Spec => []CapturesAreWhole
<1>1. ShellInv => CapturesAreWhole
  <2> SUFFICES ASSUME ShellInv, pc = "finishing", ~call.stopErr, NEW s \in Used
               PROVE  /\ Shows(result[s], Source(s))
                      /\ Policy.maxBytes > 0 => Cardinality(Kept(result[s].text)) <= Policy.maxBytes
    BY DEF CapturesAreWhole
  <2>1. s \in Streams
    BY DEF Used, Streams
  <2>2. /\ output[s] \in Seq(StreamBytes) /\ \A i \in DOMAIN output[s] : output[s][i].at = i
        /\ copied[s] \in Nat /\ written[s] \in Nat /\ copied[s] <= written[s] /\ written[s] <= Len(output[s])
        /\ Sampled(capture[s], output[s], copied[s])
    BY <2>1 DEF ShellInv, Copying
  <2>3. result[s] = Captured(capture[s]) /\ Source(s) = SubSeq(output[s], 1, copied[s])
    BY DEF ShellInv, Finishing, Source
  <2>4. copied[s] <= Len(output[s])
    BY <2>2
  <2>5. /\ Shows(Captured(capture[s]), SubSeq(output[s], 1, copied[s]))
        /\ MaxBytes > 0 => Cardinality(Kept(Captured(capture[s]).text)) <= MaxBytes
    BY <2>2, <2>4, CaptureShows
  <2> QED BY <2>3, <2>5 DEF MaxBytes
<1> QED BY <1>1, Invariant, PTL
===============================================================================
