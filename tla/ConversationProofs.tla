------------------------ MODULE ConversationProofs ------------------------
(***************************************************************************)
(* The budget implements Allowance, for every limit and minimum grant and  *)
(* every order of reservations, settlements and resets; and the runs of a  *)
(* session use it as an allowance, whatever its model answers, its tools   *)
(* emit and compaction resets.  Compaction brings every request that       *)
(* reaches the trigger down to the target or as far as the policy may go,  *)
(* the states of a session are well formed, and every request shows the    *)
(* session's conversation with nothing left out that is protected.         *)
(***************************************************************************)
EXTENDS Conversation, FiniteSetTheorems, WellFoundedInduction, TLAPS

(* What is used and reserved stays within the limit; a pending grant is at *)
(* least one byte.  That reserved is the sum of the pending grants is not  *)
(* needed: a settlement gives back what it takes out of pending.           *)
BudgetInv ==
  /\ used \in Nat /\ reserved \in Int /\ nextID \in Nat
  /\ pending \in [DOMAIN pending -> Nat \ {0}]
  /\ used + reserved <= PerSession

(* A granted reservation is at least one byte and at most what remains.    *)
LEMMA GrantIsWithin ==
  ASSUME BudgetInv, NEW want \in Nat, ~Refused(want)
  PROVE  GrantOf(want) \in 1..Remaining
<1> DEFINE half == Remaining \div 2
<1>1. Remaining \in Int /\ Remaining > 0 /\ want > 0
  BY BudgetAssumption DEF BudgetInv, Remaining, Refused
<1>2. half \in Int
  BY <1>1
<1> HIDE DEF half
<1>3. Most(half, MinimumBudgetGrant) \in Nat \ {0}
  BY <1>2, BudgetAssumption DEF Most
<1>4. GrantOf(want) = Least(want, Least(Remaining, Most(half, MinimumBudgetGrant)))
  BY DEF GrantOf, half
<1> QED
  BY <1>1, <1>3, <1>4 DEF Least

(* Reserve promises a grant or does nothing.                               *)
LEMMA ReserveStep ==
  ASSUME BudgetInv, NEW want \in Nat, Reserve(want)
  PROVE  BudgetInv' /\ (Promises!Promise \/ UNCHANGED <<used, reserved>>)
<1>1. CASE Refused(want)
  BY <1>1 DEF Reserve, BudgetInv, budgetVars
<1>2. CASE ~Refused(want)
  <2>1. GrantOf(want) \in 1..Remaining
    BY <1>2, GrantIsWithin
  <2>2. Remaining = PerSession - used - reserved /\ Remaining \in Int
    BY BudgetAssumption DEF Remaining, BudgetInv
  <2>3. /\ nextID' = nextID + 1 /\ used' = used
        /\ reserved' = reserved + GrantOf(want)
        /\ pending' = [id \in DOMAIN pending \cup {nextID'} |->
                         IF id = nextID' THEN GrantOf(want) ELSE pending[id]]
    BY <1>2 DEF Reserve
  <2>4. pending' \in [DOMAIN pending' -> Nat \ {0}]
    <3>1. GrantOf(want) \in Nat \ {0}
      BY <2>1, <2>2
    <3>2. \A id \in DOMAIN pending : pending[id] \in Nat \ {0}
      BY DEF BudgetInv
    <3> QED
      BY <2>3, <3>1, <3>2
  <2>5. /\ used' \in Nat /\ reserved' \in Int /\ nextID' \in Nat
        /\ used' + reserved' <= PerSession
        /\ reserved' - reserved \in 1..(PerSession - used - reserved)
    BY <2>1, <2>2, <2>3, BudgetAssumption DEF BudgetInv
  <2>6. BudgetInv'
    BY <2>4, <2>5 DEF BudgetInv
  <2>7. Promises!Promise
    BY <2>3, <2>5 DEF Promises!Promise
  <2> QED
    BY <2>6, <2>7
<1> QED
  BY <1>1, <1>2

(* Consume settles a grant, charges what no grant covers, or does nothing. *)
LEMMA ConsumeStep ==
  ASSUME BudgetInv, NEW id, NEW emitted \in Nat, Consume(id, emitted)
  PROVE  BudgetInv' /\ (Promises!Settle \/ Promises!Charge \/ UNCHANGED <<used, reserved>>)
<1> DEFINE grant == GrantFor(id)
           spent == Charged(id, emitted)
<1>1. /\ reserved' = reserved - grant /\ nextID' = nextID
      /\ used' = IF spent > 0 THEN used + spent ELSE used
      /\ pending' = Restrict(pending, DOMAIN pending \ {id})
  BY DEF Consume
<1>2. grant \in Nat
  BY DEF GrantFor, BudgetInv
<1>3. Remaining \in Nat /\ Remaining = PerSession - used - reserved
  BY BudgetAssumption DEF Remaining, BudgetInv
<1>4. spent = Least(IF grant > 0 THEN Least(emitted, grant) ELSE emitted, Remaining + grant)
  BY DEF Charged
<1> HIDE DEF grant, spent
<1>5. spent \in Nat /\ spent <= Remaining + grant /\ (grant > 0 => spent <= grant)
  BY <1>2, <1>3, <1>4 DEF Least
<1>6. used' = used + spent
  BY <1>1, <1>5 DEF BudgetInv
<1>7. pending' \in [DOMAIN pending' -> Nat \ {0}]
  BY <1>1 DEF Restrict, BudgetInv
<1>8. BudgetInv'
  BY <1>1, <1>2, <1>3, <1>5, <1>6, <1>7, BudgetAssumption DEF BudgetInv
<1>9. CASE grant > 0
  <2>1. reserved' < reserved /\ used' - used \in 0..(reserved - reserved')
    BY <1>1, <1>2, <1>5, <1>6, <1>9 DEF BudgetInv
  <2> QED
    BY <1>8, <2>1 DEF Promises!Settle
<1>10. CASE grant = 0 /\ spent > 0
  <2>1. reserved' = reserved /\ used' - used \in 1..(PerSession - used - reserved)
    BY <1>1, <1>3, <1>5, <1>6, <1>10, BudgetAssumption DEF BudgetInv
  <2> QED
    BY <1>8, <2>1 DEF Promises!Charge
<1>11. CASE grant = 0 /\ spent = 0
  <2>1. reserved' = reserved /\ used' = used
    BY <1>1, <1>6, <1>11 DEF BudgetInv
  <2> QED
    BY <1>8, <2>1
<1> QED
  BY <1>2, <1>5, <1>9, <1>10, <1>11

(* A reset renews the allowance.                                           *)
LEMMA ResetStep ==
  ASSUME BudgetInv, Reset
  PROVE  BudgetInv' /\ Promises!Renew
BY BudgetAssumption DEF Reset, BudgetInv, NoGrants, Promises!Renew

(* Every step of the budget is one of the allowance or leaves it alone.    *)
LEMMA BudgetStep ==
  ASSUME BudgetInv, [BudgetNext]_budgetVars
  PROVE  BudgetInv' /\ [Promises!Next]_(Promises!vars)
<1>1. CASE \E want \in 0..PerSession : Reserve(want)
  <2>1. PICK want \in Nat : Reserve(want)
    BY <1>1
  <2> QED
    BY <2>1, ReserveStep DEF Promises!Next, Promises!vars
<1>2. CASE \E id \in 0..nextID, emitted \in 0..PerSession : Consume(id, emitted)
  <2>1. PICK id \in 0..nextID, emitted \in Nat : Consume(id, emitted)
    BY <1>2
  <2> QED
    BY <2>1, ConsumeStep DEF Promises!Next, Promises!vars
<1>3. CASE Reset
  BY <1>3, ResetStep DEF Promises!Next
<1>4. CASE UNCHANGED budgetVars
  BY <1>4 DEF budgetVars, BudgetInv, Promises!vars
<1> QED
  BY <1>1, <1>2, <1>3, <1>4 DEF BudgetNext

(* A new budget is within its limit and a full allowance.                  *)
LEMMA BudgetBegins == NewBudget => BudgetInv /\ Promises!Init
BY BudgetAssumption DEF NewBudget, BudgetInv, NoGrants, Promises!Init

(* Tools of a session may reserve, settle, emit more than they were granted *)
(* and settle again after a reset: Budget implements the allowance.         *)
THEOREM BudgetImplementsAllowance == BudgetSpec => KeepsPromises
<1>1. BudgetSpec => []BudgetInv
  BY BudgetBegins, BudgetStep, PTL DEF BudgetSpec
<1>2. BudgetInv /\ [BudgetNext]_budgetVars => [Promises!Next]_(Promises!vars)
  BY BudgetStep
<1> QED
  BY <1>1, <1>2, BudgetBegins, PTL DEF BudgetSpec, KeepsPromises, Promises!Spec

(* The bytes used and reserved since the last reset never exceed the limit *)
(* of the session (README: "without exceeding its hard limit").            *)
THEOREM BudgetWithinLimit == BudgetSpec => []Promises!Within
<1>1. BudgetInv => Promises!Within
  BY DEF BudgetInv, Promises!Within
<1> QED
  BY <1>1, BudgetBegins, BudgetStep, PTL DEF BudgetSpec

(* What a step of the session does to its budget.                          *)
LEMMA SessionBudgetStep ==
  ASSUME BudgetInv, [Next]_vars
  PROVE  BudgetInv' /\ [Promises!Next]_(Promises!vars)
<1>1. CASE UNCHANGED budgetVars
  BY <1>1 DEF budgetVars, BudgetInv, Promises!vars
<1>2. CASE Reset
  BY <1>2, ResetStep DEF Promises!Next
<1>3. CASE \E bytes \in Prompts : Prompt(bytes) \/ Answer(bytes)
  BY <1>1, <1>3 DEF Prompt, Answer
<1>4. ASSUME NEW readable, NEW saved, BeforeModel(readable, saved)
      PROVE  BudgetInv' /\ [Promises!Next]_(Promises!vars)
  <2>1. Reset \/ UNCHANGED budgetVars
    BY <1>4 DEF BeforeModel, Rewrite
  <2> QED
    BY <1>1, <1>2, <2>1
<1>5. CASE \E ratio \in Ratios, saved \in Outcomes("save") : AfterModel(ratio, saved)
  BY <1>1, <1>5 DEF AfterModel
<1>6. CASE \E response \in Responses : CallTools(response)
  BY <1>1, <1>6 DEF CallTools
<1>7. ASSUME NEW i \in DOMAIN calls, ReserveFor(i)
      PROVE  BudgetInv' /\ [Promises!Next]_(Promises!vars)
  BY <1>7, ReserveStep, ConversationAssumption DEF ReserveFor, Promises!Next, Promises!vars
<1>8. ASSUME NEW i \in DOMAIN calls, NEW bytes \in Outputs, Emit(i, bytes)
      PROVE  BudgetInv' /\ [Promises!Next]_(Promises!vars)
  <2>1. Consume(calls[i].reservation, bytes) /\ bytes \in Nat
    BY <1>8, ConversationAssumption DEF Emit
  <2> QED
    BY <2>1, ConsumeStep DEF Promises!Next, Promises!vars
<1>9. CASE Respond \/ EndRun
  BY <1>1, <1>9 DEF Respond, EndRun
<1>10. CASE Restart
  <2>1. BudgetInv'
    BY <1>10, BudgetAssumption DEF Restart, BudgetInv, NoGrants
  <2>2. Promises!Renew
    BY <1>10 DEF Restart, Promises!Renew
  <2> QED
    BY <2>1, <2>2 DEF Promises!Next
<1>11. CASE UNCHANGED vars
  BY <1>1, <1>11 DEF vars
<1> QED
  BY <1>3, <1>4, <1>5, <1>6, <1>7, <1>8, <1>9, <1>10, <1>11 DEF Next

(* The runs of a session keep the promises of its allowance: parallel      *)
(* tools that reserve and settle in any order and emit more than they were *)
(* granted, and a compaction that resets the budget between them.          *)
THEOREM SessionKeepsPromises == Spec => KeepsPromises
<1>1. Init => BudgetInv /\ Promises!Init
  BY BudgetBegins DEF Init
<1>2. Spec => []BudgetInv
  BY <1>1, SessionBudgetStep, PTL DEF Spec
<1>3. BudgetInv /\ [Next]_vars => [Promises!Next]_(Promises!vars)
  BY SessionBudgetStep
<1> QED
  BY <1>1, <1>2, <1>3, PTL DEF Spec, KeepsPromises, Promises!Spec

-----------------------------------------------------------------------------
(* Every set of numbers has a least one.                                   *)
LEMMA LeastNumber ==
  ASSUME NEW T, T \subseteq Nat, T # {}
  PROVE  \E m \in T : \A k \in T : m <= k
<1>1. PICK R : /\ IsWellFoundedOn(R, Nat)
               /\ \A x, y \in Nat : <<x, y>> \in R <=> x < y
  <2>1. \A x, y \in Nat : <<x, y>> \in OpToRel(<, Nat) <=> x < y
    BY DEF OpToRel
  <2> QED BY <2>1, NatLessThanWellFounded, Zenon
<1>2. IsWellFoundedOn(R, Nat)
  BY <1>1
<1>3. PICK x \in T : \A y \in T : ~(<<y, x>> \in R)
  <2>1. \E x \in T : \A y \in T : ~(<<y, x>> \in R)
    BY <1>2, WFMin, Zenon
  <2> QED BY <2>1
<1>4. \A y \in T : x \in Nat /\ y \in Nat /\ ~(y < x)
  BY <1>1, <1>3
<1> QED BY <1>4, <1>3

(* What holds of 0 and with every number of the next holds of all.         *)
LEMMA EveryNumber ==
  ASSUME NEW T, T \subseteq Nat, 0 \in T, \A n \in T : n + 1 \in T
  PROVE  T = Nat
<1> SUFFICES ASSUME Nat \ T # {} PROVE FALSE
  OBVIOUS
<1>1. PICK m \in Nat \ T : \A k \in Nat \ T : m <= k
  BY LeastNumber
<1>2. m # 0 /\ m - 1 \in Nat /\ m - 1 \in T
  BY <1>1
<1> QED BY <1>1, <1>2

-----------------------------------------------------------------------------
(* Folds over finite sets.                                                 *)

(* What holds of the empty set and is handed on by the elements of a set   *)
(* holds of every subset.                                                  *)
LEMMA EverySubset ==
  ASSUME NEW S, IsFiniteSet(S), NEW T, {} \in T,
         \A s \in SUBSET S : s # {} /\ (\A x \in s : s \ {x} \in T) => s \in T
  PROVE  SUBSET S \subseteq T
<1> DEFINE Numbers == {n \in Nat : \A s \in SUBSET S : Cardinality(s) = n => s \in T}
<1>1. \A s \in SUBSET S : IsFiniteSet(s) /\ Cardinality(s) \in Nat
  BY FS_Subset, FS_CardinalityType
<1>2. 0 \in Numbers
  <2>1. \A s \in SUBSET S : Cardinality(s) = 0 => s = {}
    BY <1>1, FS_EmptySet
  <2> QED BY <2>1
<1>3. ASSUME NEW n \in Numbers PROVE n + 1 \in Numbers
  <2> SUFFICES ASSUME NEW s \in SUBSET S, Cardinality(s) = n + 1 PROVE s \in T
    BY <1>3
  <2>1. s # {}
    BY <1>1, <1>3, FS_EmptySet
  <2>2. \A x \in s : Cardinality(s \ {x}) = n /\ s \ {x} \in SUBSET S
    BY <1>1, <1>3, FS_RemoveElement
  <2> QED BY <1>3, <2>1, <2>2
<1> HIDE DEF Numbers
<1>4. Numbers \subseteq Nat
  BY DEF Numbers
<1>5. Numbers = Nat
  BY <1>2, <1>3, <1>4, EveryNumber
<1> QED BY <1>1, <1>5 DEF Numbers

\* h is what a fold makes of the subsets of S, taking pick[s] off s.
Folds(h, S, base, G, pick) ==
  \A s \in SUBSET S : h[s] = IF s = {} THEN base ELSE G[<<pick[s], h[s \ {pick[s]}]>>]

(* There is such a function.                                               *)
LEMMA FoldsExist ==
  ASSUME NEW S, IsFiniteSet(S), NEW V, NEW base \in V, NEW G \in [S \X V -> V],
         NEW pick, \A s \in SUBSET S : s # {} => pick[s] \in s
  PROVE  \E h \in [SUBSET S -> V] : Folds(h, S, base, G, pick)
<1> DEFINE Value(h, s) == IF s = {} THEN base ELSE G[<<pick[s], h[s \ {pick[s]}]>>]
           UpTo(h, n) == \A s \in SUBSET S : Cardinality(s) <= n => h[s] = Value(h, s)
           Numbers == {n \in Nat : \E h \in [SUBSET S -> V] : UpTo(h, n)}
<1>1. \A s \in SUBSET S : IsFiniteSet(s) /\ Cardinality(s) \in Nat /\ (s = {} <=> Cardinality(s) = 0)
  BY FS_Subset, FS_CardinalityType, FS_EmptySet
<1>2. \A s \in SUBSET S : s # {} => s \ {pick[s]} \in SUBSET S /\ Cardinality(s \ {pick[s]}) = Cardinality(s) - 1
  BY <1>1, FS_RemoveElement
<1>3. 0 \in Numbers
  <2> DEFINE h == [s \in SUBSET S |-> base]
  <2>1. h \in [SUBSET S -> V]
    OBVIOUS
  <2>2. UpTo(h, 0)
    BY <1>1
  <2> QED BY <2>1, <2>2
<1>4. ASSUME NEW n \in Nat, NEW h \in [SUBSET S -> V], UpTo(h, n)
      PROVE  \E g \in [SUBSET S -> V] : UpTo(g, n + 1)
  <2> DEFINE g == [s \in SUBSET S |-> IF Cardinality(s) = n + 1 THEN Value(h, s) ELSE h[s]]
  <2>1. \A s \in SUBSET S : Value(h, s) \in V
    BY <1>2
  <2>2. g \in [SUBSET S -> V]
    BY <2>1
  <2>3. ASSUME NEW s \in SUBSET S, Cardinality(s) <= n + 1 PROVE g[s] = Value(g, s)
    <3>1. s # {} => g[s \ {pick[s]}] = h[s \ {pick[s]}]
      BY <1>1, <1>2, <2>3
    <3>2. Value(g, s) = Value(h, s)
      BY <3>1
    <3>3. CASE Cardinality(s) = n + 1
      BY <3>2, <3>3
    <3>4. CASE Cardinality(s) <= n
      BY <1>1, <1>4, <3>2, <3>4
    <3> QED BY <1>1, <2>3, <3>3, <3>4
  <2> HIDE DEF g, Value
  <2> QED BY <2>2, <2>3
<1> HIDE DEF UpTo
<1>5. Numbers = Nat
  <2>1. Numbers \subseteq Nat
    OBVIOUS
  <2>2. ASSUME NEW n \in Numbers PROVE n + 1 \in Numbers
    <3>1. PICK h \in [SUBSET S -> V] : UpTo(h, n)
      OBVIOUS
    <3>2. \E g \in [SUBSET S -> V] : UpTo(g, n + 1)
      BY <1>4, <3>1
    <3> QED BY <3>2
  <2> HIDE DEF Numbers
  <2> QED BY <1>3, <2>1, <2>2, EveryNumber
<1>6. PICK h \in [SUBSET S -> V] : UpTo(h, Cardinality(S))
  BY <1>1, <1>5
<1>7. \A s \in SUBSET S : Cardinality(s) <= Cardinality(S)
  BY FS_Subset
<1> QED BY <1>6, <1>7 DEF Folds, UpTo

-----------------------------------------------------------------------------
(* The grants of a budget, added up.                                       *)

Sum(grants) == FoldFunction(LAMBDA grant, sum : grant + sum, 0, grants)

\* h adds up what p has for each subset of S.
Sums(h, S, p) ==
  h \in [SUBSET S -> Nat] /\ h[{}] = 0 /\ \A s \in SUBSET S : \A x \in s : h[s] = h[s \ {x}] + p[x]

(* A sum does not depend on the order of adding up.                        *)
LEMMA SumIsOfAll ==
  ASSUME NEW S, IsFiniteSet(S), NEW p \in [S -> Nat]
  PROVE  \E h : Sums(h, S, p) /\ Sum(p) = h[S]
<1> DEFINE G == [a \in S \X Nat |-> p[a[1]] + a[2]]
           pick == [s \in SUBSET S |-> CHOOSE x \in s : TRUE]
<1>1. G \in [S \X Nat -> Nat] /\ \A x \in S : \A n \in Nat : G[<<x, n>>] = p[x] + n
  OBVIOUS
<1>2. \A s \in SUBSET S : s # {} => pick[s] \in s
  OBVIOUS
<1> HIDE DEF G, pick
<1>3. PICK h \in [SUBSET S -> Nat] : Folds(h, S, 0, G, pick)
  BY <1>1, <1>2, FoldsExist
<1>4. h[{}] = 0 /\ \A s \in SUBSET S : s # {} => h[s] = p[pick[s]] + h[s \ {pick[s]}]
  <2>1. \A s \in SUBSET S : s # {} => s \ {pick[s]} \in SUBSET S /\ pick[s] \in S
    BY <1>2
  <2> QED BY <1>1, <1>3, <2>1 DEF Folds
<1>5. Sums(h, S, p)
  <2> DEFINE T == {s \in SUBSET S : \A x \in s : h[s] = h[s \ {x}] + p[x]}
  <2>1. {} \in T
    OBVIOUS
  <2>2. ASSUME NEW s \in SUBSET S, s # {}, \A y \in s : s \ {y} \in T PROVE s \in T
    <3> SUFFICES ASSUME NEW x \in s PROVE h[s] = h[s \ {x}] + p[x]
      OBVIOUS
    <3> DEFINE c == pick[s]
    <3>1. c \in s /\ h[s] = p[c] + h[s \ {c}]
      BY <1>2, <1>4, <2>2
    <3> HIDE DEF c
    <3>2. CASE x = c
      BY <3>1, <3>2
    <3>3. CASE x # c
      <4> DEFINE rest == h[s \ {c, x}]
      <4>1. (s \ {c}) \ {x} = s \ {c, x} /\ (s \ {x}) \ {c} = s \ {c, x}
        OBVIOUS
      <4>2. h[s \ {c}] = rest + p[x]
        BY <2>2, <3>1, <3>3, <4>1
      <4>3. h[s \ {x}] = rest + p[c]
        BY <2>2, <3>1, <3>3, <4>1
      <4>4. rest \in Nat /\ p[c] \in Nat /\ p[x] \in Nat
        BY <3>1
      <4> HIDE DEF rest
      <4> QED BY <3>1, <4>2, <4>3, <4>4
    <3> QED BY <3>2, <3>3
  <2> HIDE DEF T
  <2>3. SUBSET S \subseteq T
    BY <2>1, <2>2, EverySubset
  <2> QED BY <1>4, <2>3 DEF Sums, T
<1> DEFINE Adds(f) == f = [s \in SUBSET S |-> IF s = {} THEN 0 ELSE p[CHOOSE x \in s : TRUE] + f[s \ {CHOOSE x \in s : TRUE}]]
           iter == CHOOSE f : Adds(f)
<1>6. Sum(p) = iter[S]
  BY SMT DEF Sum, FoldFunction, FoldFunctionOnSet, MapThenFoldSet
<1>7. Adds(h)
  BY <1>4 DEF pick
<1>8. Adds(iter)
  BY <1>7
<1> HIDE DEF iter
<1>9. iter[{}] = 0 /\ \A s \in SUBSET S : s # {} => iter[s] = p[pick[s]] + iter[s \ {pick[s]}]
  BY <1>8 DEF pick
<1>10. iter[S] = h[S]
  <2> DEFINE T == {s \in SUBSET S : iter[s] = h[s]}
  <2>1. {} \in T
    BY <1>4, <1>9
  <2>2. ASSUME NEW s \in SUBSET S, s # {}, \A y \in s : s \ {y} \in T PROVE s \in T
    <3>1. iter[s \ {pick[s]}] = h[s \ {pick[s]}]
      BY <1>2, <2>2
    <3> QED BY <1>4, <1>9, <2>2, <3>1
  <2> HIDE DEF T
  <2>3. SUBSET S \subseteq T
    BY <2>1, <2>2, EverySubset
  <2> QED BY <2>3 DEF T
<1> QED BY <1>5, <1>6, <1>10

(* Where the grants are the same, so are their sums.                       *)
LEMMA SumsAgree ==
  ASSUME NEW S, NEW R, IsFiniteSet(S), S \subseteq R, NEW p, NEW q, \A x \in S : p[x] = q[x],
         NEW h, NEW g, Sums(h, S, p), Sums(g, R, q)
  PROVE  h[S] = g[S]
<1> DEFINE T == {s \in SUBSET S : h[s] = g[s]}
<1>1. {} \in T
  BY DEF Sums
<1>2. ASSUME NEW s \in SUBSET S, s # {}, \A y \in s : s \ {y} \in T PROVE s \in T
  <2>1. PICK x \in s : TRUE
    BY <1>2
  <2>2. h[s \ {x}] = g[s \ {x}] /\ p[x] = q[x]
    BY <1>2, <2>1
  <2>3. h[s] = h[s \ {x}] + p[x] /\ g[s] = g[s \ {x}] + q[x]
    BY <2>1 DEF Sums
  <2> QED BY <2>2, <2>3
<1> HIDE DEF T
<1>3. SUBSET S \subseteq T
  BY <1>1, <1>2, EverySubset
<1> QED BY <1>3 DEF T

(* One grant more, and one less.                                           *)
LEMMA SumOfOneMore ==
  ASSUME NEW S, IsFiniteSet(S), NEW x, x \notin S, NEW p \in [S -> Nat], NEW q \in [S \cup {x} -> Nat],
         \A y \in S : q[y] = p[y]
  PROVE  Sum(q) = Sum(p) + q[x]
<1>1. IsFiniteSet(S \cup {x})
  BY FS_AddElement
<1>2. PICK h : Sums(h, S, p) /\ Sum(p) = h[S]
  BY SumIsOfAll
<1>3. PICK g : Sums(g, S \cup {x}, q) /\ Sum(q) = g[S \cup {x}]
  BY <1>1, SumIsOfAll
<1>4. h[S] = g[S]
  <2>1. S \subseteq S \cup {x}
    OBVIOUS
  <2> QED BY <1>2, <1>3, <2>1, SumsAgree
<1>5. g[S \cup {x}] = g[(S \cup {x}) \ {x}] + q[x] /\ (S \cup {x}) \ {x} = S
  BY <1>3 DEF Sums
<1> QED BY <1>2, <1>3, <1>4, <1>5

(* Nothing is the sum of no grants.                                        *)
LEMMA SumOfNone == Sum(NoGrants) = 0
<1>1. NoGrants \in [{} -> Nat] /\ IsFiniteSet({})
  BY FS_EmptySet DEF NoGrants
<1>2. PICK h : Sums(h, {}, NoGrants) /\ Sum(NoGrants) = h[{}]
  BY <1>1, SumIsOfAll
<1> QED BY <1>2 DEF Sums

-----------------------------------------------------------------------------
(* The contents of a session, and the decisions about them.                *)

\* The bags of keys.
BagsOf(keys) == UNION {[some -> Nat \ {0}] : some \in SUBSET keys}

(* A bag of keys counts each of some of them at least once.                *)
LEMMA BagsAreOf ==
  ASSUME NEW keys, NEW bag
  PROVE  bag \in BagsOf(keys) <=> bag \in [DOMAIN bag -> Nat \ {0}] /\ DOMAIN bag \subseteq keys
BY DEF BagsOf

(* What the decisions count in is a bag.                                   *)
LEMMA BagsAreBags == ASSUME NEW keys, NEW bag \in BagsOf(keys) PROVE IsABag(bag)
BY DEF BagsOf, IsABag

(* No decision is one of the bags.                                         *)
LEMMA EmptyIsBag == ASSUME NEW keys PROVE EmptyBag \in BagsOf(keys)
<1>1. EmptyBag \in [{} -> Nat \ {0}]
  BY DEF EmptyBag, SetToBag
<1>2. {} \in SUBSET keys
  OBVIOUS
<1> QED BY <1>1, <1>2 DEF BagsOf

(* One decision more makes a bag of a bag.                                 *)
LEMMA WithIsBag ==
  ASSUME NEW keys, NEW bag \in BagsOf(keys), NEW key \in keys PROVE With(bag, key) \in BagsOf(keys)
<1>1. bag \in [DOMAIN bag -> Nat \ {0}] /\ DOMAIN bag \subseteq keys
  BY BagsAreOf
<1>2. With(bag, key) \in [DOMAIN bag \cup {key} -> Nat \ {0}]
  BY <1>1 DEF With, SetToBag, (+)
<1> QED BY <1>1, <1>2 DEF BagsOf

(* So does one that was reapplied and is taken out.                        *)
LEMMA WithoutIsBag ==
  ASSUME NEW keys, NEW bag \in BagsOf(keys), NEW key PROVE Without(bag, key) \in BagsOf(keys)
<1>1. bag \in [DOMAIN bag -> Nat \ {0}] /\ DOMAIN bag \subseteq keys
  BY BagsAreOf
<1> DEFINE B == [e \in DOMAIN bag |-> bag[e] - (IF e \in {key} THEN 1 ELSE 0)]
           some == {e \in DOMAIN B : B[e] > 0}
<1>2. Without(bag, key) = [d \in some |-> B[d]]
  BY <1>1 DEF Without, SetToBag, (-)
<1>3. some \in SUBSET keys /\ \A e \in some : B[e] \in Nat \ {0}
  BY <1>1
<1> HIDE DEF B, some
<1>4. Without(bag, key) \in [some -> Nat \ {0}]
  BY <1>2, <1>3
<1> QED BY <1>3, <1>4 DEF BagsOf

\* A conversation as a session keeps it, the keys of decisions and the decisions.
Roles == {"user", "model"}
Said == [role : Roles, parts : Seq(Part), at : Nat]
ResponseKeys == ({"id"} \X IDs) \cup ({"body"} \X Names \X Nat)
TurnKeys == Seq(Roles \X Seq(Part))
Decided == [elided : BagsOf(ResponseKeys), dropped : BagsOf(TurnKeys), calibration : 50..200, warned : BOOLEAN]

(* A place among the parts of a conversation.                              *)
LEMMA PlacesAreParts ==
  ASSUME NEW told \in Seq(Said), NEW at
  PROVE  at \in Parts(told) <=> \E i \in 1..Len(told) : \E j \in 1..Len(told[i].parts) : at = <<i, j>>
<1>1. DOMAIN told = 1..Len(told) /\ \A i \in 1..Len(told) : told[i] \in Said
  OBVIOUS
<1>2. \A i \in 1..Len(told) : DOMAIN told[i].parts = 1..Len(told[i].parts)
  BY <1>1 DEF Said
<1> QED BY <1>1, <1>2 DEF Parts

(* At every place of a conversation there is a part.                       *)
LEMMA PlaceHasPart ==
  ASSUME NEW told \in Seq(Said), NEW at \in Parts(told)
  PROVE  /\ at = <<at[1], at[2]>> /\ at[1] \in 1..Len(told) /\ at[2] \in 1..Len(told[at[1]].parts)
         /\ PartAt(told, at) \in Part
<1>1. PICK i \in 1..Len(told) : \E j \in 1..Len(told[i].parts) : at = <<i, j>>
  BY PlacesAreParts
<1>2. PICK j \in 1..Len(told[i].parts) : at = <<i, j>>
  BY <1>1
<1>3. told[i].parts \in Seq(Part)
  <2>1. told[i] \in Said
    OBVIOUS
  <2> QED BY <2>1 DEF Said
<1> QED BY <1>2, <1>3 DEF PartAt

(* Eliding changes one mark of one part.                                   *)
LEMMA ElideMarks ==
  ASSUME NEW told \in Seq(Said), NEW at \in Parts(told), NEW shown, shown = Elide(told, at)
  PROVE  /\ shown \in Seq(Said) /\ Len(shown) = Len(told)
         /\ \A i \in 1..Len(told) : /\ shown[i].role = told[i].role /\ shown[i].at = told[i].at
                                    /\ Len(shown[i].parts) = Len(told[i].parts)
                                    /\ i # at[1] => shown[i] = told[i]
         /\ \A j \in 1..Len(told[at[1]].parts) :
              shown[at[1]].parts[j] = IF j = at[2] THEN [told[at[1]].parts[j] EXCEPT !.elided = TRUE]
                                      ELSE told[at[1]].parts[j]
<1> DEFINE a == at[1]
           b == at[2]
           part == [told[a].parts[b] EXCEPT !.elided = TRUE]
           parts == [told[a].parts EXCEPT ![b] = part]
           one == [told[a] EXCEPT !.parts = parts]
<1>1. a \in 1..Len(told) /\ b \in 1..Len(told[a].parts) /\ told[a].parts[b] \in Part
  BY PlaceHasPart DEF PartAt
<1>2. shown = [told EXCEPT ![a] = one]
  BY DEF Elide
<1>3. told[a] \in Said /\ told[a].parts \in Seq(Part)
  <2>1. told[a] \in Said
    BY <1>1
  <2> QED BY <2>1 DEF Said
<1>4. part \in Part
  BY <1>1 DEF Part
<1> HIDE DEF part
<1>5. parts \in Seq(Part) /\ Len(parts) = Len(told[a].parts)
      /\ \A j \in 1..Len(told[a].parts) : parts[j] = IF j = b THEN part ELSE told[a].parts[j]
  BY <1>1, <1>3, <1>4
<1> HIDE DEF parts
<1>6. one \in Said /\ one.parts = parts /\ one.role = told[a].role /\ one.at = told[a].at
  BY <1>3, <1>5 DEF Said
<1> HIDE DEF one
<1>7. shown \in Seq(Said) /\ Len(shown) = Len(told) /\ \A i \in 1..Len(told) : shown[i] = IF i = a THEN one ELSE told[i]
  BY <1>1, <1>2, <1>6
<1>8. \A i \in 1..Len(told) : /\ shown[i].role = told[i].role /\ shown[i].at = told[i].at
                              /\ Len(shown[i].parts) = Len(told[i].parts)
                              /\ i # at[1] => shown[i] = told[i]
  BY <1>5, <1>6, <1>7
<1>9. \A j \in 1..Len(told[a].parts) : shown[a].parts[j] = IF j = b THEN part ELSE told[a].parts[j]
  BY <1>1, <1>5, <1>6, <1>7
<1>10. \A j \in 1..Len(told[a].parts) :
         j = b => part = [told[a].parts[j] EXCEPT !.elided = TRUE]
  BY DEF part
<1> HIDE DEF a, b
<1>11. \A j \in 1..Len(told[a].parts) : shown[a].parts[j] = IF j = b THEN [told[a].parts[j] EXCEPT !.elided = TRUE] ELSE told[a].parts[j]
  BY <1>9, <1>10
<1> QED BY <1>7, <1>8, <1>11 DEF a, b

(* Dropping a turn leaves what comes before and after it.                  *)
LEMMA DropLeaves ==
  ASSUME NEW told \in Seq(Said), NEW turn, turn.first \in 1..Len(told), turn.last \in turn.first..Len(told),
         NEW left, left = Drop(told, turn)
  PROVE  /\ left \in Seq(Said) /\ Len(left) = Len(told) - (turn.last - turn.first + 1)
         /\ \A i \in 1..Len(left) : left[i] = IF i < turn.first THEN told[i] ELSE told[i + (turn.last - turn.first + 1)]
<1> DEFINE a == SubSeq(told, 1, turn.first - 1)
           b == SubSeq(told, turn.last + 1, Len(told))
<1>1. a \in Seq(Said) /\ Len(a) = turn.first - 1 /\ \A i \in 1..(turn.first - 1) : a[i] = told[i]
  OBVIOUS
<1>2. b \in Seq(Said) /\ Len(b) = Len(told) - turn.last /\ \A i \in 1..(Len(told) - turn.last) : b[i] = told[i + turn.last]
  OBVIOUS
<1> HIDE DEF a, b
<1>3. left = a \o b
  BY DEF Drop, a, b
<1>4. turn.first \in Nat /\ turn.last \in Nat /\ Len(told) \in Nat
  OBVIOUS
<1>0. \A s, t \in Seq(Said) : /\ s \o t \in Seq(Said) /\ Len(s \o t) = Len(s) + Len(t)
                              /\ \A i \in 1..(Len(s) + Len(t)) : (s \o t)[i] = IF i <= Len(s) THEN s[i] ELSE t[i - Len(s)]
  OBVIOUS
<1>5. left \in Seq(Said) /\ Len(left) = Len(a) + Len(b)
  BY <1>0, <1>1, <1>2, <1>3
<1>6. \A i \in 1..Len(left) : left[i] = IF i <= Len(a) THEN a[i] ELSE b[i - Len(a)]
  <2>1. a \in Seq(Said) /\ b \in Seq(Said)
    BY <1>1, <1>2
  <2> QED BY <1>0, <1>3, <1>5, <2>1
<1>7. ASSUME NEW i \in 1..Len(left)
      PROVE  left[i] = IF i < turn.first THEN told[i] ELSE told[i + (turn.last - turn.first + 1)]
  <2>1. CASE i < turn.first
    BY <1>1, <1>4, <1>5, <1>6, <2>1
  <2>2. CASE i >= turn.first
    <3>1. i - Len(a) \in 1..(Len(told) - turn.last) /\ (i - Len(a)) + turn.last = i + (turn.last - turn.first + 1)
      <4>1. i \in Nat /\ i <= (turn.first - 1) + (Len(told) - turn.last)
        BY <1>1, <1>2, <1>4, <1>5
      <4> QED BY <1>1, <1>4, <2>2, <4>1
    <3>2. left[i] = b[i - Len(a)]
      BY <1>1, <1>4, <1>6, <2>2
    <3>3. b[i - Len(a)] = told[(i - Len(a)) + turn.last]
      BY <1>2, <3>1
    <3> QED BY <2>2, <3>1, <3>2, <3>3, <1>4
  <2> QED BY <1>4, <2>1, <2>2
<1> QED BY <1>1, <1>2, <1>4, <1>5, <1>7

(* The keys of decisions.                                                  *)
LEMMA ResponsesHaveKeys == ASSUME NEW part \in Part PROVE ResponseKey(part) \in ResponseKeys
<1>1. part.id \in IDs /\ part.name \in Names /\ part.bytes \in Nat
  BY DEF Part
<1> QED BY <1>1 DEF ResponseKey, ResponseKeys

(* A turn is known by its roles and parts without the bodies of responses. *)
LEMMA TurnsHaveKeys ==
  ASSUME NEW told \in Seq(Said), NEW turn, turn.first \in 1..Len(told), turn.last \in turn.first..Len(told)
  PROVE  TurnKey(told, turn) \in TurnKeys
<1> DEFINE Bare(part) == IF part.form = "response" THEN [part EXCEPT !.bytes = 0, !.elided = FALSE] ELSE part
           Key(content) == <<content.role, [j \in DOMAIN content.parts |-> Bare(content.parts[j])]>>
           n == turn.last - turn.first + 1
<1>1. \A part \in Part : Bare(part) \in Part
  <2>1. \A part \in Part : [part EXCEPT !.bytes = 0] \in Part
    BY DEF Part
  <2>2. \A part \in Part : [part EXCEPT !.elided = FALSE] \in Part
    BY DEF Part
  <2>3. \A part \in Part : [part EXCEPT !.bytes = 0, !.elided = FALSE] = [[part EXCEPT !.bytes = 0] EXCEPT !.elided = FALSE]
    BY DEF Part
  <2> QED BY <2>1, <2>2, <2>3
<1>2. \A content \in Said : Key(content) \in Roles \X Seq(Part)
  <2> TAKE content \in Said
  <2>1. content.role \in Roles /\ content.parts \in Seq(Part)
    BY DEF Said
  <2> DEFINE parts == [j \in DOMAIN content.parts |-> Bare(content.parts[j])]
  <2> HIDE DEF Bare
  <2>2. parts \in Seq(Part)
    BY <1>1, <2>1
  <2> HIDE DEF parts
  <2>3. Key(content) = <<content.role, parts>>
    BY DEF parts
  <2> QED BY <2>1, <2>2, <2>3
<1>3. n \in Nat /\ \A i \in 1..n : told[turn.first + i - 1] \in Said
  OBVIOUS
<1>4. TurnKey(told, turn) = [i \in 1..n |-> Key(told[turn.first + i - 1])]
  BY DEF TurnKey
<1> HIDE DEF n, Key
<1>5. [i \in 1..n |-> Key(told[turn.first + i - 1])] \in [1..n -> Roles \X Seq(Part)]
  BY <1>2, <1>3
<1>6. \A X : \A f \in [1..n -> X] : f \in Seq(X)
  BY <1>3
<1> QED BY <1>4, <1>5, <1>6 DEF TurnKeys

-----------------------------------------------------------------------------
(* The places of a conversation, one after the other.                      *)

(* A conversation has finitely many places.                                *)
LEMMA PartsAreFinite ==
  ASSUME NEW told \in Seq(Said) PROVE IsFiniteSet(Parts(told))
<1> DEFINE n == Len(told)
           In(i) == {i} \X DOMAIN told[i].parts
           f == [i \in 1..n |-> In(i)]
           rows == {In(i) : i \in 1..n}
<1>1. n \in Nat /\ DOMAIN told = 1..n /\ IsFiniteSet(1..n)
  BY FS_Interval
<1>2. ASSUME NEW i \in 1..n PROVE IsFiniteSet(In(i))
  <2>1. told[i] \in Said
    BY <1>1
  <2>2. DOMAIN told[i].parts = 1..Len(told[i].parts) /\ Len(told[i].parts) \in Nat
    BY <2>1 DEF Said
  <2>3. IsFiniteSet(DOMAIN told[i].parts)
    <3>1. \A k \in Nat : IsFiniteSet(1..k)
      BY FS_Interval
    <3> QED BY <2>2, <3>1
  <2>4. IsFiniteSet({i})
    BY FS_Singleton
  <2> QED BY <2>3, <2>4, FS_Product
<1> HIDE DEF In
<1>3. f \in Surjection(1..n, rows)
  BY DEF Surjection
<1>4. IsFiniteSet(rows)
  BY <1>1, <1>3, FS_Surjection
<1>5. \A T \in rows : IsFiniteSet(T)
  BY <1>2
<1>6. Parts(told) = UNION rows
  BY <1>1 DEF Parts, In
<1> QED BY <1>4, <1>5, <1>6, FS_UNION

(* One of two places is before the other.                                  *)
LEMMA PlacesInOrder ==
  ASSUME NEW told \in Seq(Said)
  PROVE  /\ \A x, y \in Parts(told) : x = y \/ Before(x, y) \/ Before(y, x)
         /\ \A x, y, z \in Parts(told) : Before(x, y) /\ Before(y, z) => Before(x, z)
<1>1. \A x \in Parts(told) : x = <<x[1], x[2]>> /\ x[1] \in Nat /\ x[2] \in Nat
  <2> TAKE x \in Parts(told)
  <2>1. x = <<x[1], x[2]>> /\ x[1] \in 1..Len(told) /\ x[2] \in 1..Len(told[x[1]].parts)
    BY PlaceHasPart
  <2> QED BY <2>1
<1>2. \A x, y \in Parts(told) : x = y \/ Before(x, y) \/ Before(y, x)
  <2> TAKE x, y \in Parts(told)
  <2>1. x[1] = y[1] /\ x[2] = y[2] => x = y
    BY <1>1
  <2> QED BY <1>1, <2>1 DEF Before
<1>3. \A x, y, z \in Parts(told) : Before(x, y) /\ Before(y, z) => Before(x, z)
  BY <1>1 DEF Before
<1> QED BY <1>2, <1>3

(* Of some places one is the latest.                                       *)
LEMMA LatestOfPlaces ==
  ASSUME NEW told \in Seq(Said), NEW places \in SUBSET Parts(told), places # {}
  PROVE  Latest(places) \in places
<1> DEFINE Newest(s, x) == x \in s /\ \A y \in s : y = x \/ Before(y, x)
           T == {s \in SUBSET Parts(told) : s = {} \/ \E x \in s : Newest(s, x)}
<1>1. {} \in T
  OBVIOUS
<1>2. ASSUME NEW s \in SUBSET Parts(told), s # {}, \A x \in s : s \ {x} \in T PROVE s \in T
  <2>1. PICK x \in s : TRUE
    BY <1>2
  <2>2. CASE s \ {x} = {}
    <3>1. Newest(s, x)
      BY <2>2
    <3> QED BY <3>1
  <2>3. CASE s \ {x} # {}
    <3>1. PICK y \in s \ {x} : Newest(s \ {x}, y)
      BY <1>2, <2>3
    <3>2. x = y \/ Before(x, y) \/ Before(y, x)
      BY PlacesInOrder
    <3>3. CASE Before(x, y)
      <4>1. Newest(s, y)
        BY <3>1, <3>3
      <4> QED BY <4>1
    <3>4. CASE Before(y, x)
      <4>1. Newest(s, x)
        BY <3>1, <3>4, PlacesInOrder
      <4> QED BY <4>1
    <3> QED BY <3>1, <3>2, <3>3, <3>4
  <2> QED BY <2>2, <2>3
<1> HIDE DEF T
<1>3. SUBSET Parts(told) \subseteq T
  <2> DEFINE S == Parts(told)
  <2>1. IsFiniteSet(S)
    BY PartsAreFinite
  <2>2. \A s \in SUBSET S : s # {} /\ (\A x \in s : s \ {x} \in T) => s \in T
    BY <1>2
  <2> HIDE DEF S
  <2>3. SUBSET S \subseteq T
    BY <1>1, <2>1, <2>2, EverySubset
  <2> QED BY <2>3 DEF S
<1>4. \E x \in places : \A y \in places : y = x \/ Before(y, x)
  BY <1>3 DEF T
<1> QED BY <1>4 DEF Latest


-----------------------------------------------------------------------------
(* The size of a conversation.                                             *)

(* Numbers up to a bound have a greatest one.                              *)
LEMMA GreatestExists ==
  ASSUME NEW n \in Nat, NEW s \in SUBSET (1..n), s # {} PROVE \E x \in s : \A y \in s : x >= y
<1> DEFINE T == {n - k : k \in s}
<1>0. PICK e \in s : TRUE
  OBVIOUS
<1>1. T \subseteq Nat /\ T # {}
  <2>1. \A k \in s : n - k \in Nat
    OBVIOUS
  <2>2. n - e \in T
    BY <1>0
  <2> QED BY <2>1, <2>2
<1>2. PICK m \in T : \A k \in T : m <= k
  BY <1>1, LeastNumber
<1>3. PICK x \in s : m = n - x
  BY <1>2
<1>4. \A y \in s : x >= y
  <2> TAKE y \in s
  <2>1. n - y \in T
    OBVIOUS
  <2>2. n - x <= n - y
    BY <1>2, <1>3, <2>1
  <2>3. x \in Nat /\ y \in Nat
    BY <1>3
  <2> QED BY <2>2, <2>3
<1> QED BY <1>3, <1>4

(* It is what Max chooses.                                                 *)
LEMMA GreatestNumber == ASSUME NEW n \in Nat, NEW s \in SUBSET (1..n), s # {} PROVE Max(s) \in s
BY GreatestExists DEF Max

(* Where two differ at one place, so do their sums.                        *)
LEMMA SumOfOther ==
  ASSUME NEW S, IsFiniteSet(S), NEW x \in S, NEW p \in [S -> Nat], NEW q \in [S -> Nat],
         \A y \in S : y # x => q[y] = p[y]
  PROVE  Sum(p) \in Nat /\ Sum(q) \in Nat /\ Sum(q) + p[x] = Sum(p) + q[x]
<1> DEFINE R == S \ {x}
           r == [y \in R |-> p[y]]
<1>1. IsFiniteSet(R) /\ R \subseteq S /\ r \in [R -> Nat]
  BY FS_Subset
<1>2. (\A y \in R : r[y] = p[y]) /\ (\A y \in R : r[y] = q[y])
  OBVIOUS
<1> HIDE DEF r
<1>3. PICK f : Sums(f, R, r) /\ Sum(r) = f[R]
  BY <1>1, SumIsOfAll
<1>4. PICK h : Sums(h, S, p) /\ Sum(p) = h[S]
  BY SumIsOfAll
<1>5. PICK g : Sums(g, S, q) /\ Sum(q) = g[S]
  BY SumIsOfAll
<1> HIDE DEF R
<1>6. f[R] = h[R]
  BY <1>1, <1>2, <1>3, <1>4, SumsAgree
<1>7. f[R] = g[R]
  BY <1>1, <1>2, <1>3, <1>5, SumsAgree
<1>8. h[S] = h[R] + p[x] /\ g[S] = g[R] + q[x] /\ h[R] \in Nat /\ g[R] \in Nat
  BY <1>4, <1>5 DEF Sums, R
<1>9. p[x] \in Nat /\ q[x] \in Nat
  OBVIOUS
<1> DEFINE hR == h[R]
<1>10. Sum(p) = hR + p[x] /\ Sum(q) = hR + q[x] /\ hR \in Nat
  BY <1>4, <1>5, <1>6, <1>7, <1>8
<1> HIDE DEF hR
<1> QED BY <1>9, <1>10

\* The sizes of parts and of contents, one by one.
Weights(parts) == [j \in DOMAIN parts |-> PartTokens(parts[j])]
Sizes(told) == [i \in DOMAIN told |-> ContentTokens(told[i])]

(* Every part has a size.                                                  *)
LEMMA PartsHaveTokens ==
  ASSUME NEW parts \in Seq(Part) PROVE Weights(parts) \in [1..Len(parts) -> Nat]
<1>1. \A part \in Part : PartTokens(part) \in Nat
  BY DEF Part, PartTokens, Body, Marker
<1> QED BY <1>1 DEF Weights

(* A content's size is the sum of its parts'.                              *)
LEMMA ContentTokensAdd ==
  ASSUME NEW content, content.parts \in Seq(Part)
  PROVE  ContentTokens(content) = 1 + Sum(Weights(content.parts)) /\ ContentTokens(content) \in Nat
<1> DEFINE parts == content.parts
           n == Len(parts)
           p == Weights(parts)
<1>1. n \in Nat /\ DOMAIN parts = 1..n /\ IsFiniteSet(1..n) /\ p \in [1..n -> Nat]
  <2>1. n \in Nat /\ DOMAIN parts = 1..n /\ p \in [1..n -> Nat]
    BY PartsHaveTokens
  <2> QED BY <2>1, FS_Interval
<1>2. PICK h : Sums(h, 1..n, p) /\ Sum(p) = h[1..n]
  BY <1>1, SumIsOfAll
<1> DEFINE Adds(f) == f = [s \in SUBSET (DOMAIN parts) |->
                             IF s = {} THEN 1 ELSE f[s \ {Max(s)}] + PartTokens(parts[Max(s)])]
           iter == CHOOSE f : Adds(f)
           g == [s \in SUBSET (1..n) |-> 1 + h[s]]
<1>3. \A s \in SUBSET (1..n) : s # {} => Max(s) \in s /\ s \ {Max(s)} \in SUBSET (1..n)
  BY <1>1, GreatestNumber
<1>4. \A i \in 1..n : p[i] = PartTokens(parts[i]) /\ p[i] \in Nat
  BY <1>1 DEF Weights
<1>5. \A s \in SUBSET (1..n) : s # {} => g[s] = g[s \ {Max(s)}] + PartTokens(parts[Max(s)])
  <2> SUFFICES ASSUME NEW s \in SUBSET (1..n), s # {} PROVE g[s] = g[s \ {Max(s)}] + PartTokens(parts[Max(s)])
    OBVIOUS
  <2> DEFINE x == Max(s)
             rest == s \ {x}
  <2>1. x \in s /\ rest \in SUBSET (1..n) /\ x \in 1..n
    BY <1>3
  <2>2. h[s] = h[rest] + p[x] /\ h[rest] \in Nat /\ p[x] \in Nat /\ p[x] = PartTokens(parts[x])
    BY <1>2, <1>4, <2>1 DEF Sums
  <2>3. g[s] = 1 + h[s] /\ g[rest] = 1 + h[rest]
    BY <2>1
  <2> HIDE DEF g, rest, x
  <2>4. g[s] = g[rest] + PartTokens(parts[x])
    BY <2>2, <2>3
  <2> QED BY <2>4 DEF rest, x
<1>6. g[{}] = 1
  BY <1>2 DEF Sums
<1>7. Adds(g)
  BY <1>1, <1>5, <1>6
<1>8. Adds(iter)
  BY <1>7
<1>9. ContentTokens(content) = iter[1..n]
  BY <1>1, SMT DEF ContentTokens, FoldLeft, MapThenFoldSet, Max
<1> DEFINE T == {s \in SUBSET (1..n) : iter[s] = g[s]}
<1> HIDE DEF iter
<1>10. iter[{}] = 1 /\ \A s \in SUBSET (1..n) : s # {} => iter[s] = iter[s \ {Max(s)}] + PartTokens(parts[Max(s)])
  BY <1>1, <1>8
<1> HIDE DEF g, T
<1>11. {} \in T
  BY <1>6, <1>10 DEF T
<1>12. \A s \in SUBSET (1..n) : s # {} /\ (\A x \in s : s \ {x} \in T) => s \in T
  <2> TAKE s \in SUBSET (1..n)
  <2> HAVE s # {} /\ (\A x \in s : s \ {x} \in T)
  <2>1. s \ {Max(s)} \in T
    BY <1>3
  <2> QED BY <1>5, <1>10, <2>1 DEF T
<1>13. SUBSET (1..n) \subseteq T
  <2> DEFINE S == 1..n
  <2>1. IsFiniteSet(S) /\ \A s \in SUBSET S : s # {} /\ (\A x \in s : s \ {x} \in T) => s \in T
    BY <1>1, <1>12
  <2> HIDE DEF S
  <2>2. SUBSET S \subseteq T
    BY <1>11, <2>1, EverySubset
  <2> QED BY <2>2 DEF S
<1>14. iter[1..n] = g[1..n]
  BY <1>13 DEF T
<1>15. g[1..n] = 1 + h[1..n] /\ h[1..n] \in Nat
  BY <1>2 DEF g, Sums
<1> QED BY <1>2, <1>9, <1>14, <1>15

(* Every content has a size.                                               *)
LEMMA ContentsHaveTokens ==
  ASSUME NEW told \in Seq(Said) PROVE Sizes(told) \in [1..Len(told) -> Nat]
<1>1. \A content \in Said : ContentTokens(content) \in Nat
  BY ContentTokensAdd DEF Said
<1> QED BY <1>1 DEF Sizes

(* A conversation's size is the sum of its contents'.                      *)
LEMMA TokensAdd ==
  ASSUME NEW told \in Seq(Said)
  PROVE  Tokens(told) = Sum(Sizes(told)) /\ Tokens(told) \in Nat
<1> DEFINE n == Len(told)
           p == Sizes(told)
<1>1. n \in Nat /\ DOMAIN told = 1..n /\ IsFiniteSet(1..n) /\ p \in [1..n -> Nat]
  BY FS_Interval, ContentsHaveTokens
<1>2. PICK h : Sums(h, 1..n, p) /\ Sum(p) = h[1..n]
  BY <1>1, SumIsOfAll
<1> DEFINE Adds(f) == f = [s \in SUBSET (DOMAIN told) |->
                             IF s = {} THEN 0 ELSE f[s \ {Max(s)}] + ContentTokens(told[Max(s)])]
           iter == CHOOSE f : Adds(f)
<1>3. \A s \in SUBSET (1..n) : s # {} => Max(s) \in s /\ s \ {Max(s)} \in SUBSET (1..n)
  BY <1>1, GreatestNumber
<1>4. \A i \in 1..n : p[i] = ContentTokens(told[i]) /\ p[i] \in Nat
  BY <1>1 DEF Sizes
<1>5. \A s \in SUBSET (1..n) : s # {} => h[s] = h[s \ {Max(s)}] + ContentTokens(told[Max(s)])
  BY <1>2, <1>3, <1>4 DEF Sums
<1>6. h[{}] = 0 /\ h \in [SUBSET (1..n) -> Nat]
  BY <1>2 DEF Sums
<1>7. Adds(h)
  BY <1>1, <1>5, <1>6
<1>8. Adds(iter)
  BY <1>7
<1>9. Tokens(told) = iter[1..n]
  BY <1>1, SMT DEF Tokens, FoldLeft, MapThenFoldSet, Max
<1> DEFINE T == {s \in SUBSET (1..n) : iter[s] = h[s]}
<1> HIDE DEF iter
<1>10. iter[{}] = 0 /\ \A s \in SUBSET (1..n) : s # {} => iter[s] = iter[s \ {Max(s)}] + ContentTokens(told[Max(s)])
  BY <1>1, <1>8
<1> HIDE DEF T
<1>11. {} \in T
  BY <1>6, <1>10 DEF T
<1>12. \A s \in SUBSET (1..n) : s # {} /\ (\A x \in s : s \ {x} \in T) => s \in T
  <2> TAKE s \in SUBSET (1..n)
  <2> HAVE s # {} /\ (\A x \in s : s \ {x} \in T)
  <2>1. s \ {Max(s)} \in T
    BY <1>3
  <2> QED BY <1>5, <1>10, <2>1 DEF T
<1>13. SUBSET (1..n) \subseteq T
  <2> DEFINE S == 1..n
  <2>1. IsFiniteSet(S) /\ \A s \in SUBSET S : s # {} /\ (\A x \in s : s \ {x} \in T) => s \in T
    BY <1>1, <1>12
  <2> HIDE DEF S
  <2>2. SUBSET S \subseteq T
    BY <1>11, <2>1, EverySubset
  <2> QED BY <2>2 DEF S
<1>14. iter[1..n] = h[1..n]
  BY <1>13 DEF T
<1>15. h[1..n] \in Nat
  BY <1>6
<1> QED BY <1>2, <1>9, <1>14, <1>15

(* Eliding a body saves all of it but the marker.                          *)
LEMMA ElideSaves ==
  ASSUME NEW told \in Seq(Said), NEW at \in Parts(told),
         PartAt(told, at).form = "response", ~PartAt(told, at).elided
  PROVE  Reduces(told, at) <=> PartAt(told, at).bytes > Marker
<1> DEFINE a == at[1]
           b == at[2]
           shown == Elide(told, at)
           part == PartAt(told, at)
           S == 1..Len(told)
           J == 1..Len(told[a].parts)
<1>1. a \in S /\ b \in J /\ part \in Part /\ part = told[a].parts[b]
  BY PlaceHasPart DEF PartAt
<1>2. /\ shown \in Seq(Said) /\ Len(shown) = Len(told)
      /\ \A i \in S : Len(shown[i].parts) = Len(told[i].parts) /\ (i # a => shown[i] = told[i])
      /\ \A j \in J : shown[a].parts[j] = IF j = b THEN [told[a].parts[j] EXCEPT !.elided = TRUE] ELSE told[a].parts[j]
  BY ElideMarks
<1>3. IsFiniteSet(S) /\ IsFiniteSet(J)
  <2>1. Len(told) \in Nat
    OBVIOUS
  <2>2. Len(told[a].parts) \in Nat
    <3>1. told[a] \in Said
      BY <1>1
    <3> QED BY <3>1 DEF Said
  <2>3. \A n \in Nat : IsFiniteSet(1..n)
    BY FS_Interval
  <2> QED BY <2>1, <2>2, <2>3
<1> HIDE DEF shown, part
<1>4. told[a].parts \in Seq(Part) /\ shown[a].parts \in Seq(Part)
  <2>1. told[a] \in Said /\ shown[a] \in Said
    BY <1>1, <1>2
  <2> QED BY <2>1 DEF Said
<1> DEFINE p == Weights(told[a].parts)
           q == Weights(shown[a].parts)
           P == Sizes(told)
           Q == Sizes(shown)
<1>5. p \in [J -> Nat] /\ q \in [J -> Nat]
  BY <1>1, <1>2, <1>4, PartsHaveTokens
<1>6. \A j \in J : p[j] = PartTokens(told[a].parts[j]) /\ q[j] = PartTokens(shown[a].parts[j])
  BY <1>1, <1>2, <1>4 DEF Weights
<1>7. \A j \in J : j # b => q[j] = p[j]
  <2> TAKE j \in J
  <2> HAVE j # b
  <2>1. shown[a].parts[j] = told[a].parts[j]
    BY <1>2
  <2> QED BY <1>6, <2>1
<1>8. p[b] = part.bytes + 2 /\ q[b] = Marker + 2
  <2>1. shown[a].parts[b] = [part EXCEPT !.elided = TRUE]
    BY <1>1, <1>2
  <2>2. PartTokens(part) = part.bytes + 2
    <3>1. part.form = "response" /\ ~part.elided
      BY DEF part
    <3> QED BY <3>1 DEF PartTokens, Body
  <2>3. PartTokens([part EXCEPT !.elided = TRUE]) = Marker + 2
    <3>1. part.form = "response"
      BY DEF part
    <3>2. [part EXCEPT !.elided = TRUE].form = "response" /\ [part EXCEPT !.elided = TRUE].elided
      BY <1>1, <3>1 DEF Part
    <3> QED BY <3>2 DEF PartTokens, Body
  <2> QED BY <1>1, <1>6, <2>1, <2>2, <2>3
<1> HIDE DEF p, q, P, Q, S, J
<1>9. Sum(p) \in Nat /\ Sum(q) \in Nat /\ Sum(q) + p[b] = Sum(p) + q[b]
  <2>1. IsFiniteSet(J) /\ b \in J
    BY <1>1, <1>3
  <2> HIDE DEF b
  <2> QED BY <1>5, <1>7, <2>1, SumOfOther
<1>10. ContentTokens(told[a]) = 1 + Sum(p) /\ ContentTokens(shown[a]) = 1 + Sum(q)
  BY <1>4, ContentTokensAdd DEF p, q
<1>11. P \in [S -> Nat] /\ Q \in [S -> Nat]
  BY <1>2, ContentsHaveTokens DEF P, Q, S
<1>12. \A i \in S : P[i] = ContentTokens(told[i]) /\ Q[i] = ContentTokens(shown[i])
  BY <1>2 DEF P, Q, S, Sizes
<1>13. \A i \in S : i # a => Q[i] = P[i]
  BY <1>2, <1>12
<1>14. Sum(P) \in Nat /\ Sum(Q) \in Nat /\ Sum(Q) + P[a] = Sum(P) + Q[a]
  <2>1. IsFiniteSet(S) /\ a \in S
    BY <1>1, <1>3
  <2> HIDE DEF a
  <2> QED BY <1>11, <1>13, <2>1, SumOfOther
<1>15. P[a] = 1 + Sum(p) /\ Q[a] = 1 + Sum(q)
  BY <1>1, <1>10, <1>12
<1>16. Tokens(told) = Sum(P) /\ Tokens(shown) = Sum(Q)
  BY <1>2, TokensAdd DEF P, Q
<1>17. part.bytes \in Nat
  BY <1>1 DEF Part
<1>18. Sum(Q) + part.bytes = Sum(P) + Marker
  <2> DEFINE sp == Sum(p)
             sq == Sum(q)
             sP == Sum(P)
             sQ == Sum(Q)
             bytes == part.bytes
  <2>1. sp \in Nat /\ sq \in Nat /\ sP \in Nat /\ sQ \in Nat /\ bytes \in Nat
    BY <1>9, <1>14, <1>17
  <2>2. sq + (bytes + 2) = sp + (1 + 2)
    BY <1>8, <1>9 DEF Marker
  <2>3. sQ + (1 + sp) = sP + (1 + sq)
    BY <1>14, <1>15
  <2> HIDE DEF sp, sq, sP, sQ, bytes
  <2>4. sQ + bytes = sP + 1
    BY <2>1, <2>2, <2>3
  <2> QED BY <2>4 DEF sP, sQ, bytes, Marker
<1>19. Sum(Q) < Sum(P) <=> part.bytes > Marker
  BY <1>14, <1>17, <1>18 DEF Marker
<1> QED BY <1>16, <1>19 DEF Reduces, shown, part

-----------------------------------------------------------------------------
(* The pairs of a conversation.                                            *)

\* Where the calls and the responses are, and where they were told.
Tools(told) == {at \in Parts(told) : PartAt(told, at).form \in {"call", "response"}}
Whence(shown, at) == <<shown[at[1]].at, at[2]>>

\* The calls or the responses of a name without an ID, and their numbers.
Kind(told, form, name) ==
  {at \in Parts(told) : /\ PartAt(told, at).form = form /\ PartAt(told, at).name = name
                        /\ PartAt(told, at).id = NoID}
Earlier(told, form, name, at) == {other \in Kind(told, form, name) : Before(other, at)}
Ordinal(told, form, name, at) == Cardinality(Earlier(told, form, name, at))

Preceding(told, form, name, first) == {at \in Kind(told, form, name) : at[1] < first}
Within(told, form, name, first, last) == {at \in Kind(told, form, name) : at[1] \in first..last}
NumbersOf(told, form, name, first, last) ==
  {Ordinal(told, form, name, at) : at \in Within(told, form, name, first, last)}

(* There are finitely many of a kind.                                      *)
LEMMA KindsAreFinite ==
  ASSUME NEW told \in Seq(Said), NEW form, NEW name
  PROVE  \A s \in SUBSET Kind(told, form, name) : IsFiniteSet(s) /\ Cardinality(s) \in Nat
<1>1. Kind(told, form, name) \subseteq Parts(told)
  BY DEF Kind
<1>2. IsFiniteSet(Kind(told, form, name))
  BY <1>1, PartsAreFinite, FS_Subset
<1> HIDE DEF Kind
<1> QED BY <1>2, FS_Subset, FS_CardinalityType

(* Two have the same key if they have the same ID, or none, the same name  *)
(* and the same number.                                                    *)
LEMMA SameKey ==
  ASSUME NEW told \in Seq(Said), NEW x \in Tools(told), NEW y \in Tools(told)
  PROVE  PairKey(told, x) = PairKey(told, y) <=>
           LET a == PartAt(told, x)
               b == PartAt(told, y) IN
           /\ a.id = b.id
           /\ a.id = NoID => a.name = b.name /\ Ordinal(told, a.form, a.name, x) = Ordinal(told, b.form, b.name, y)
<1> DEFINE P(z) == PartAt(told, z)
           N(z) == Ordinal(told, P(z).form, P(z).name, z)
<1>1. ASSUME NEW z \in Tools(told)
      PROVE  PairKey(told, z) = IF P(z).id # NoID THEN <<"id", P(z).id>> ELSE <<"name", P(z).name, N(z)>>
  <2>1. Earlier(told, P(z).form, P(z).name, z) =
          {other \in Parts(told) : /\ Before(other, z)
                                   /\ PartAt(told, other).form = P(z).form /\ PartAt(told, other).name = P(z).name
                                   /\ PartAt(told, other).id = NoID}
    BY DEF Earlier, Kind
  <2> QED BY <2>1 DEF PairKey, Ordinal
<1>2. \A i, j : <<"id", i>> = <<"id", j>> <=> i = j
  OBVIOUS
<1>3. \A i, j, k, l : <<"name", i, j>> = <<"name", k, l>> <=> i = k /\ j = l
  OBVIOUS
<1>4. \A i, j, k : <<"id", i>> # <<"name", j, k>>
  OBVIOUS
<1> DEFINE px == P(x)
           py == P(y)
           nx == N(x)
           ny == N(y)
<1>5. PairKey(told, x) = IF px.id # NoID THEN <<"id", px.id>> ELSE <<"name", px.name, nx>>
  BY <1>1
<1>6. PairKey(told, y) = IF py.id # NoID THEN <<"id", py.id>> ELSE <<"name", py.name, ny>>
  BY <1>1
<1> HIDE DEF px, py, nx, ny
<1>7. PairKey(told, x) = PairKey(told, y) <=> px.id = py.id /\ (px.id = NoID => px.name = py.name /\ nx = ny)
  <2>1. CASE px.id = NoID /\ py.id = NoID
    BY <1>3, <1>5, <1>6, <2>1
  <2>2. CASE px.id = NoID /\ py.id # NoID
    BY <1>4, <1>5, <1>6, <2>2
  <2>3. CASE px.id # NoID /\ py.id = NoID
    BY <1>4, <1>5, <1>6, <2>3
  <2>4. CASE px.id # NoID /\ py.id # NoID
    BY <1>2, <1>5, <1>6, <2>4
  <2> QED BY <2>1, <2>2, <2>3, <2>4
<1> QED BY <1>7 DEF px, py, nx, ny

(* Two of a kind have different numbers.                                   *)
LEMMA NumbersGrow ==
  ASSUME NEW told \in Seq(Said), NEW form, NEW name,
         NEW x \in Kind(told, form, name), NEW y \in Kind(told, form, name), x # y
  PROVE  Ordinal(told, form, name, x) # Ordinal(told, form, name, y)
<1> DEFINE E(z) == Earlier(told, form, name, z)
<1>1. ASSUME NEW a \in Kind(told, form, name), NEW b \in Kind(told, form, name), Before(a, b)
      PROVE  Cardinality(E(a)) < Cardinality(E(b))
  <2>1. \A c \in Kind(told, form, name) : c[1] \in Nat /\ c[2] \in Nat
    <3>1. \A c \in Kind(told, form, name) : c \in Parts(told)
      BY DEF Kind
    <3>2. \A c \in Parts(told) : c[1] \in Nat /\ c[2] \in Nat
      BY PlaceHasPart
    <3> QED BY <3>1, <3>2
  <2>2. \A c \in E(a) : Before(c, b)
    BY <1>1, <2>1 DEF Earlier, Before
  <2>3. ~Before(a, a)
    BY <2>1 DEF Before
  <2>4. E(a) \subseteq E(b) /\ a \in E(b) /\ a \notin E(a)
    BY <1>1, <2>2, <2>3 DEF Earlier
  <2>5. E(a) \in SUBSET Kind(told, form, name) /\ E(b) \in SUBSET Kind(told, form, name)
    BY DEF Earlier
  <2>6. IsFiniteSet(E(b)) /\ Cardinality(E(a)) \in Nat /\ Cardinality(E(b)) \in Nat
    BY <2>5, KindsAreFinite
  <2> HIDE DEF E
  <2>7. E(a) # E(b)
    BY <2>4
  <2>8. Cardinality(E(a)) <= Cardinality(E(b)) /\ Cardinality(E(a)) # Cardinality(E(b))
    BY <2>4, <2>6, <2>7, FS_Subset
  <2> QED BY <2>6, <2>8
<1>2. Before(x, y) \/ Before(y, x)
  <2>1. x \in Parts(told) /\ y \in Parts(told)
    BY DEF Kind
  <2>2. x = <<x[1], x[2]>> /\ y = <<y[1], y[2]>> /\ x[1] \in Nat /\ y[1] \in Nat /\ x[2] \in Nat /\ y[2] \in Nat
    BY <2>1, PlaceHasPart
  <2>3. x[1] # y[1] \/ x[2] # y[2]
    BY <2>2
  <2> QED BY <2>2, <2>3 DEF Before
<1>3. Cardinality(E(x)) \in Nat /\ Cardinality(E(y)) \in Nat
  <2>1. E(x) \in SUBSET Kind(told, form, name) /\ E(y) \in SUBSET Kind(told, form, name)
    BY DEF Earlier
  <2> QED BY <2>1, KindsAreFinite
<1> HIDE DEF E
<1>4. Cardinality(E(x)) # Cardinality(E(y))
  BY <1>1, <1>2, <1>3
<1> QED BY <1>4 DEF Ordinal, E

(* A function that takes everything of one set to another and nothing      *)
(* twice: the sets have the same size.                                     *)
LEMMA SameSize ==
  ASSUME NEW S, IsFiniteSet(S), NEW T, NEW h \in [S -> T],
         \A x, y \in S : h[x] = h[y] => x = y, \A z \in T : \E x \in S : h[x] = z
  PROVE  IsFiniteSet(T) /\ Cardinality(T) = Cardinality(S)
<1>1. h \in Bijection(S, T)
  BY DEF Bijection, Injection, Surjection, IsInjective
<1>2. ExistsBijection(S, T)
  BY <1>1 DEF ExistsBijection
<1> QED BY <1>2, FS_Bijection

(* Those within some contents have consecutive numbers.                    *)
LEMMA NumbersWithin ==
  ASSUME NEW told \in Seq(Said), NEW form, NEW name, NEW first \in Nat, NEW last \in Nat,
         NEW p, p = Cardinality(Preceding(told, form, name, first)),
         NEW k, k = Cardinality(Within(told, form, name, first, last))
  PROVE  /\ p \in Nat /\ k \in Nat
         /\ NumbersOf(told, form, name, first, last) = p..(p + k - 1)
<1> DEFINE K == Kind(told, form, name)
           In == Within(told, form, name, first, last)
           Pre == Preceding(told, form, name, first)
           E(x) == Earlier(told, form, name, x)
           h == [x \in In |-> Cardinality(E(x))]
           O == {Cardinality(E(x)) : x \in In}
<1>1. In \in SUBSET K /\ Pre \in SUBSET K
  BY DEF Within, Preceding
<1>2. IsFiniteSet(In) /\ IsFiniteSet(Pre) /\ p \in Nat /\ k \in Nat
  BY <1>1, KindsAreFinite
<1>3. \A x \in K : x[1] \in Nat /\ x[2] \in Nat
  <2>1. \A x \in K : x \in Parts(told)
    BY DEF Kind
  <2>2. \A x \in Parts(told) : x[1] \in Nat /\ x[2] \in Nat
    BY PlaceHasPart
  <2> QED BY <2>1, <2>2
<1>4. ASSUME NEW x \in In PROVE Cardinality(E(x)) \in p..(p + k - 1)
  <2> DEFINE Here == {y \in In : Before(y, x)}
  <2>1. x \in K /\ x[1] \in first..last
    BY DEF Within
  <2>2. E(x) = Pre \cup Here
    <3>1. \A y \in K : Before(y, x) <=> y \in Pre \/ (y \in In /\ Before(y, x))
      <4> TAKE y \in K
      <4>1. y[1] \in Nat /\ x[1] \in Nat
        BY <1>3, <2>1
      <4>2. Before(y, x) /\ ~(y[1] < first) => y[1] \in first..last
        BY <2>1, <4>1 DEF Before
      <4>3. y[1] < first => Before(y, x)
        BY <2>1, <4>1 DEF Before
      <4> QED BY <4>2, <4>3 DEF Preceding, Within
    <3> QED BY <1>1, <3>1 DEF Earlier
  <2>3. Pre \cap Here = {}
    BY DEF Preceding, Within
  <2>4. Here \in SUBSET In /\ x \notin Here
    BY <1>3, <2>1 DEF Before
  <2> HIDE DEF In, Pre, E, Here
  <2>5. IsFiniteSet(Here) /\ Cardinality(Here) \in Nat /\ Cardinality(Here) < k
    <3>1. Here # In
      BY <2>4
    <3>2. IsFiniteSet(Here) /\ Cardinality(Here) <= Cardinality(In) /\ Cardinality(In) # Cardinality(Here)
      BY <1>2, <2>4, <3>1, FS_Subset
    <3>3. Cardinality(Here) \in Nat
      BY <3>2, FS_CardinalityType
    <3> QED BY <1>2, <3>2, <3>3 DEF In
  <2>6. Cardinality(E(x)) = p + Cardinality(Here)
    <3>1. Cardinality(Pre \cup Here) = Cardinality(Pre) + Cardinality(Here) - Cardinality(Pre \cap Here)
      BY <1>2, <2>5, FS_Union
    <3>2. Cardinality(Pre \cap Here) = 0
      BY <2>3, FS_EmptySet
    <3>3. Cardinality(Pre) = p
      BY DEF Pre
    <3> QED BY <1>2, <2>2, <2>5, <3>1, <3>2, <3>3
  <2> QED BY <1>2, <2>5, <2>6
<1>5. \A x, y \in In : h[x] = h[y] => x = y
  BY <1>1, NumbersGrow DEF Ordinal
<1>6. h \in [In -> O] /\ \A z \in O : \E x \in In : h[x] = z
  OBVIOUS
<1> HIDE DEF In, Pre, E
<1>7. O \subseteq p..(p + k - 1)
  BY <1>4
<1> HIDE DEF O, h
<1>8. IsFiniteSet(O) /\ Cardinality(O) = Cardinality(In)
  BY <1>2, <1>5, <1>6, SameSize
<1>9. IsFiniteSet(p..(p + k - 1)) /\ Cardinality(p..(p + k - 1)) = k
  <2>1. p \in Int /\ p + k - 1 \in Int /\ (p > p + k - 1 <=> k = 0) /\ (p + k - 1) - p + 1 = k
    BY <1>2
  <2> QED BY <2>1, FS_Interval
<1>10. O = p..(p + k - 1)
  BY <1>7, <1>8, <1>9, FS_Subset DEF In
<1> QED BY <1>2, <1>10 DEF O, In, E, Ordinal, NumbersOf

(* What a turn that contains its pairs has of a pair is within it, a call  *)
(* and a response.                                                         *)
LEMMA PairsAreWithin ==
  ASSUME NEW told \in Seq(Said), NEW turn, PairsContained(told, turn),
         NEW x \in Tools(told), x[1] \in turn.first..turn.last
  PROVE  /\ \A y \in Tools(told) : PairKey(told, y) = PairKey(told, x) => y[1] \in turn.first..turn.last
         /\ \A form \in {"call", "response"} :
              \E y \in Tools(told) : PairKey(told, y) = PairKey(told, x) /\ PartAt(told, y).form = form
<1> DEFINE sides == Sides(told)
           Side(y) == [key |-> PairKey(told, y), form |-> PartAt(told, y).form, at |-> y]
           Of(key, form) == {side \in sides : side.key = key /\ side.form = form}
<1>1. sides = {Side(y) : y \in Tools(told)}
  BY DEF Sides, Tools
<1>2. \A side \in sides : side.at[1] \in turn.first..turn.last =>
        /\ \A other \in sides : other.key = side.key => other.at[1] \in turn.first..turn.last
        /\ Cardinality(Of(side.key, "call")) = Cardinality(Of(side.key, "response"))
  BY DEF PairsContained
<1>3. IsFiniteSet(sides)
  <2>1. IsFiniteSet(Tools(told))
    <3>1. Tools(told) \subseteq Parts(told)
      BY DEF Tools
    <3> QED BY <3>1, PartsAreFinite, FS_Subset
  <2> DEFINE h == [y \in Tools(told) |-> Side(y)]
  <2>2. h \in Surjection(Tools(told), sides)
    BY <1>1 DEF Surjection
  <2> QED BY <2>1, <2>2, FS_Surjection
<1> HIDE DEF sides
<1>4. Side(x) \in sides /\ Side(x).at = x /\ Side(x).key = PairKey(told, x) /\ Side(x).form = PartAt(told, x).form
  BY <1>1
<1>5. ASSUME NEW y \in Tools(told), PairKey(told, y) = PairKey(told, x) PROVE y[1] \in turn.first..turn.last
  <2>1. Side(y) \in sides /\ Side(y).key = PairKey(told, y) /\ Side(y).at = y
    BY <1>1
  <2> QED BY <1>2, <1>4, <1>5, <2>1
<1>6. ASSUME NEW form \in {"call", "response"}
      PROVE  \E y \in Tools(told) : PairKey(told, y) = PairKey(told, x) /\ PartAt(told, y).form = form
  <2> DEFINE key == PairKey(told, x)
             C == Of(key, "call")
             R == Of(key, "response")
  <2>1. Cardinality(C) = Cardinality(R)
    BY <1>2, <1>4
  <2>2. IsFiniteSet(C) /\ IsFiniteSet(R)
    BY <1>3, FS_Subset
  <2>3. C # {} \/ R # {}
    BY <1>4 DEF Tools
  <2>4. C # {} /\ R # {}
    <3> HIDE DEF C, R
    <3> QED BY <2>1, <2>2, <2>3, FS_EmptySet
  <2>5. PICK side \in sides : side.key = key /\ side.form = form
    BY <2>4
  <2>6. PICK y \in Tools(told) : side = Side(y)
    BY <1>1
  <2> QED BY <2>5, <2>6
<1> QED BY <1>5, <1>6

(* Of a name without IDs it has as many calls as responses, with the same  *)
(* numbers.                                                                *)
LEMMA TwinsWithin ==
  ASSUME NEW told \in Seq(Said), NEW turn, PairsContained(told, turn), turn.first \in Nat, turn.last \in Nat, NEW name
  PROVE  LET k(form) == Cardinality(Within(told, form, name, turn.first, turn.last))
             p(form) == Cardinality(Preceding(told, form, name, turn.first)) IN
         k("call") = k("response") /\ (k("call") > 0 => p("call") = p("response"))
<1> DEFINE k(form) == Cardinality(Within(told, form, name, turn.first, turn.last))
           p(form) == Cardinality(Preceding(told, form, name, turn.first))
           O(form) == NumbersOf(told, form, name, turn.first, turn.last)
<1>1. \A form : k(form) \in Nat /\ p(form) \in Nat /\ O(form) = p(form)..(p(form) + k(form) - 1)
  <2> TAKE form
  <2> DEFINE pp == p(form)
             kk == k(form)
  <2>1. turn.first \in Nat /\ turn.last \in Nat /\ pp = Cardinality(Preceding(told, form, name, turn.first))
        /\ kk = Cardinality(Within(told, form, name, turn.first, turn.last))
    OBVIOUS
  <2> HIDE DEF pp, kk
  <2>2. pp \in Nat /\ kk \in Nat /\ O(form) = pp..(pp + kk - 1)
    BY <2>1, NumbersWithin
  <2> QED BY <2>2 DEF pp, kk
<1>2. ASSUME NEW form \in {"call", "response"}, NEW other \in {"call", "response"} PROVE O(form) \subseteq O(other)
  <2> SUFFICES ASSUME NEW x \in Within(told, form, name, turn.first, turn.last)
               PROVE  Ordinal(told, form, name, x) \in O(other)
    BY DEF NumbersOf
  <2>1. x \in Tools(told) /\ x[1] \in turn.first..turn.last /\ PartAt(told, x).form = form
        /\ PartAt(told, x).name = name /\ PartAt(told, x).id = NoID
    BY DEF Within, Kind, Tools
  <2>2. PICK y \in Tools(told) : PairKey(told, y) = PairKey(told, x) /\ PartAt(told, y).form = other
    BY <2>1, PairsAreWithin
  <2>3. y[1] \in turn.first..turn.last
    BY <2>1, <2>2, PairsAreWithin
  <2>4. PartAt(told, y).id = NoID /\ PartAt(told, y).name = name
        /\ Ordinal(told, other, name, y) = Ordinal(told, form, name, x)
    BY <2>1, <2>2, SameKey
  <2>5. y \in Within(told, other, name, turn.first, turn.last)
    BY <2>2, <2>3, <2>4 DEF Within, Kind, Tools
  <2> QED BY <2>4, <2>5 DEF NumbersOf
<1>3. O("call") = O("response")
  BY <1>2
<1> DEFINE a == k("call")
           b == k("response")
           c == p("call")
           d == p("response")
<1>4. a \in Nat /\ b \in Nat /\ c \in Nat /\ d \in Nat /\ c..(c + a - 1) = d..(d + b - 1)
  BY <1>1, <1>3
<1> HIDE DEF a, b, c, d
<1>5. a = b /\ (a > 0 => c = d)
  <2>1. CASE a = 0
    <3>1. c..(c + a - 1) = {}
      BY <1>4, <2>1
    <3>2. b # 0 => d \in d..(d + b - 1)
      BY <1>4
    <3> QED BY <1>4, <2>1, <3>1, <3>2
  <2>2. CASE b = 0
    <3>1. d..(d + b - 1) = {}
      BY <1>4, <2>2
    <3>2. a # 0 => c \in c..(c + a - 1)
      BY <1>4
    <3> QED BY <1>4, <2>2, <3>1, <3>2
  <2>3. CASE a # 0 /\ b # 0
    <3>1. c \in d..(d + b - 1) /\ c + a - 1 \in d..(d + b - 1)
      BY <1>4, <2>3
    <3>2. d \in c..(c + a - 1) /\ d + b - 1 \in c..(c + a - 1)
      BY <1>4, <2>3
    <3> QED BY <1>4, <3>1, <3>2
  <2> QED BY <2>1, <2>2, <2>3
<1> QED BY <1>5 DEF a, b, c, d

\* At says where the contents and parts of what is left were told.
Moves(told, left, first, last, At) ==
  /\ \A i \in 1..Len(left) : At[i] \in 1..Len(told) /\ (At[i] < first \/ At[i] > last)
  /\ \A i, j \in 1..Len(left) : (i < j <=> At[i] < At[j]) /\ (At[i] = At[j] => i = j)
  /\ \A e \in 1..Len(told) : e \notin first..last => \E i \in 1..Len(left) : At[i] = e
  /\ \A at \in Parts(left) : <<At[at[1]], at[2]>> \in Parts(told) /\ PartAt(told, <<At[at[1]], at[2]>>) = PartAt(left, at)
  /\ \A e \in Parts(told) : e[1] \notin first..last => \E at \in Parts(left) : e = <<At[at[1]], at[2]>>

(* Where a content was before a turn was dropped.                          *)
LEMMA PlacesMove ==
  ASSUME NEW told \in Seq(Said), NEW left \in Seq(Said), NEW first \in Nat, NEW last \in Nat, first >= 1, first <= last,
         NEW k, k = last - first + 1, Len(left) = Len(told) - k, last <= Len(told),
         NEW At, \A i \in 1..Len(left) : At[i] = (IF i < first THEN i ELSE i + k) /\ left[i] = told[At[i]]
  PROVE  Moves(told, left, first, last, At)
<1> DEFINE n == Len(told)
           w == Len(left)
<1>1. n \in Nat /\ w \in Nat /\ k \in Nat /\ w = n - k
  OBVIOUS
<1>2. \A i \in 1..w : At[i] = IF i < first THEN i ELSE i + k
  OBVIOUS
<1>0. n = Len(told) /\ w = Len(left)
  OBVIOUS
<1> HIDE DEF n, w
<1>3. \A i \in 1..w : At[i] \in 1..n /\ (At[i] < first \/ At[i] > last)
  <2> TAKE i \in 1..w
  <2> DEFINE a == At[i]
  <2>1. a = (IF i < first THEN i ELSE i + k) /\ i \in 1..w
    BY <1>2
  <2> HIDE DEF a
  <2>2. a \in 1..n /\ (a < first \/ a > last)
    BY <1>0, <1>1, <2>1
  <2> QED BY <2>2 DEF a
<1>4. \A i, j \in 1..w : (i < j <=> At[i] < At[j]) /\ (At[i] = At[j] => i = j)
  <2> TAKE i, j \in 1..w
  <2>1. At[i] = (IF i < first THEN i ELSE i + k) /\ At[j] = (IF j < first THEN j ELSE j + k)
    BY <1>2
  <2> DEFINE a == At[i]
             b == At[j]
  <2>2. a = (IF i < first THEN i ELSE i + k) /\ b = (IF j < first THEN j ELSE j + k) /\ i \in Nat /\ j \in Nat
    BY <1>1, <2>1
  <2> HIDE DEF a, b
  <2>3. (i < j <=> a < b) /\ (a = b => i = j)
    BY <1>1, <2>2
  <2> QED BY <2>3 DEF a, b
<1>5. ASSUME NEW e \in 1..n, e \notin first..last PROVE \E i \in 1..w : At[i] = e
  <2> DEFINE i == IF e < first THEN e ELSE e - k
  <2>1. i \in 1..w /\ (i < first <=> e < first) /\ (~(e < first) => i + k = e) /\ (e < first => i = e)
    BY <1>1, <1>5, <1>0
  <2>2. At[i] = e
    BY <1>2, <2>1
  <2> QED BY <2>1, <2>2
<1>6. ASSUME NEW at \in Parts(left)
      PROVE  <<At[at[1]], at[2]>> \in Parts(told) /\ PartAt(told, <<At[at[1]], at[2]>>) = PartAt(left, at)
  <2>1. at[1] \in 1..w /\ at[2] \in 1..Len(left[at[1]].parts)
    BY <1>0, PlaceHasPart
  <2>2. left[at[1]] = told[At[at[1]]] /\ At[at[1]] \in 1..n
    BY <1>0, <1>3, <2>1
  <2> QED BY <1>0, <2>1, <2>2, PlacesAreParts DEF PartAt
<1>7. ASSUME NEW e \in Parts(told), e[1] \notin first..last PROVE \E at \in Parts(left) : e = <<At[at[1]], at[2]>>
  <2>1. e[1] \in 1..n /\ e[2] \in 1..Len(told[e[1]].parts) /\ e = <<e[1], e[2]>>
    BY <1>0, PlaceHasPart
  <2>2. PICK i \in 1..w : At[i] = e[1]
    BY <1>5, <1>7, <2>1
  <2>3. left[i] = told[e[1]]
    BY <1>0, <2>2
  <2>4. <<i, e[2]>> \in Parts(left)
    BY <1>0, <2>1, <2>3, PlacesAreParts
  <2> DEFINE at == <<i, e[2]>>
  <2>5. at[1] = i /\ at[2] = e[2] /\ e = <<At[at[1]], at[2]>>
    BY <2>1, <2>2
  <2> QED BY <2>4, <2>5
<1> QED BY <1>0, <1>3, <1>4, <1>5, <1>6, <1>7 DEF Moves

(* Dropping a turn takes off its own calls, or its responses, from the     *)
(* numbers of those that come after.                                       *)
LEMMA DropRenumbers ==
  ASSUME NEW told \in Seq(Said), NEW left \in Seq(Said), NEW first \in Nat, NEW last \in Nat, first <= last,
         NEW At, Moves(told, left, first, last, At),
         NEW form, NEW name, NEW x \in Kind(left, form, name), NEW was, was = <<At[x[1]], x[2]>>,
         NEW p, p = Cardinality(Preceding(told, form, name, first)),
         NEW k, k = Cardinality(Within(told, form, name, first, last)),
         NEW before, before = Ordinal(told, form, name, was), NEW after, after = Ordinal(left, form, name, x)
  PROVE  /\ before \in Nat /\ after \in Nat /\ p \in Nat /\ k \in Nat
         /\ (before < p /\ after = before) \/ (before >= p + k /\ after = before - k)
<1> DEFINE In == Within(told, form, name, first, last)
           Pre == Preceding(told, form, name, first)
           K == Kind(told, form, name)
           L == Kind(left, form, name)
           E == Earlier(told, form, name, was)
           D == Earlier(left, form, name, x)
           To(y) == <<At[y[1]], y[2]>>
           h == [y \in D |-> To(y)]
<1>1. /\ \A i \in 1..Len(left) : At[i] \in 1..Len(told) /\ (At[i] < first \/ At[i] > last)
      /\ \A i, j \in 1..Len(left) : (i < j <=> At[i] < At[j]) /\ (At[i] = At[j] => i = j)
      /\ \A at \in Parts(left) : To(at) \in Parts(told) /\ PartAt(told, To(at)) = PartAt(left, at)
      /\ \A e \in Parts(told) : e[1] \notin first..last => \E at \in Parts(left) : e = To(at)
  BY DEF Moves
<1>2. \A y \in L : y \in Parts(left) /\ y = <<y[1], y[2]>> /\ y[1] \in 1..Len(left) /\ y[2] \in Nat
  <2>1. \A y \in L : y \in Parts(left)
    BY DEF Kind
  <2>2. \A y \in Parts(left) : y = <<y[1], y[2]>> /\ y[1] \in 1..Len(left) /\ y[2] \in Nat
    BY PlaceHasPart
  <2> QED BY <2>1, <2>2
<1>3. \A y \in K : y \in Parts(told) /\ y = <<y[1], y[2]>> /\ y[1] \in Nat /\ y[2] \in Nat
  <2>1. \A y \in K : y \in Parts(told)
    BY DEF Kind
  <2>2. \A y \in Parts(told) : y = <<y[1], y[2]>> /\ y[1] \in Nat /\ y[2] \in Nat
    BY PlaceHasPart
  <2> QED BY <2>1, <2>2
<1>4. \A y \in L : /\ To(y) \in K /\ To(y)[1] = At[y[1]] /\ To(y)[2] = y[2]
                   /\ To(y)[1] \in Nat /\ (To(y)[1] < first \/ To(y)[1] > last)
  BY <1>1, <1>2 DEF Kind
<1>5. \A y \in L : Before(y, x) <=> Before(To(y), was)
  BY <1>1, <1>2, <1>4 DEF Before
<1>6. was \in K /\ was[1] \in Nat /\ (was[1] < first \/ was[1] > last)
  BY <1>4
<1>7. h \in [D -> E \ In]
  <2> SUFFICES ASSUME NEW y \in D PROVE To(y) \in E \ In
    OBVIOUS
  <2>1. y \in L /\ Before(y, x)
    BY DEF Earlier
  <2>2. To(y) \in E
    BY <1>4, <1>5, <2>1 DEF Earlier
  <2>3. To(y)[1] \notin first..last
    <3> DEFINE e == To(y)[1]
    <3>1. e \in Nat /\ (e < first \/ e > last)
      BY <1>4, <2>1
    <3> HIDE DEF e
    <3>2. e \notin first..last
      BY <3>1
    <3> QED BY <3>2 DEF e
  <2> QED BY <2>2, <2>3 DEF Within
<1>8. \A y, z \in D : h[y] = h[z] => y = z
  <2>1. \A y \in D : y \in L
    BY DEF Earlier
  <2> TAKE y, z \in D
  <2> HAVE h[y] = h[z]
  <2>2. To(y) = To(z)
    OBVIOUS
  <2>3. At[y[1]] = At[z[1]] /\ y[2] = z[2]
    BY <2>2
  <2>4. y[1] \in 1..Len(left) /\ z[1] \in 1..Len(left) /\ y = <<y[1], y[2]>> /\ z = <<z[1], z[2]>>
    BY <1>2, <2>1
  <2>5. y[1] = z[1]
    BY <1>1, <2>3, <2>4
  <2> QED BY <2>3, <2>4, <2>5
<1>9. \A e \in E \ In : \E y \in D : h[y] = e
  <2> TAKE e \in E \ In
  <2>1. e \in K /\ Before(e, was) /\ e[1] \notin first..last
    BY DEF Earlier, Within
  <2>2. PICK y \in Parts(left) : e = To(y)
    BY <1>1, <1>3, <2>1
  <2>3. y \in L
    BY <1>1, <2>1, <2>2 DEF Kind
  <2>4. y \in D
    BY <1>5, <2>1, <2>2, <2>3 DEF Earlier
  <2> QED BY <2>2, <2>4
<1>10. In \in SUBSET K /\ Pre \in SUBSET K /\ E \in SUBSET K /\ D \in SUBSET L /\ In \cap Pre = {}
  <2>1. \A y \in In : y[1] \in first..last
    BY DEF Within
  <2>2. \A y \in Pre : y[1] < first
    BY DEF Preceding
  <2> QED BY <2>1, <2>2 DEF Within, Preceding, Earlier
<1>11. /\ IsFiniteSet(In) /\ IsFiniteSet(Pre) /\ IsFiniteSet(E) /\ IsFiniteSet(D)
       /\ Cardinality(In) \in Nat /\ Cardinality(Pre) \in Nat /\ Cardinality(E) \in Nat /\ Cardinality(D) \in Nat
  BY <1>10, KindsAreFinite
<1>12. Cardinality(E \ In) = Cardinality(D)
  <2> DEFINE T == E \ In
  <2>1. h \in [D -> T] /\ \A z \in T : \E y \in D : h[y] = z
    BY <1>7, <1>9
  <2> HIDE DEF h, D, T
  <2>2. Cardinality(T) = Cardinality(D)
    BY <1>8, <1>11, <2>1, SameSize
  <2> QED BY <2>2 DEF T
<1>13. CASE was[1] < first
  <2>1. E \subseteq Pre /\ was \in Pre /\ was \notin E
    <3>1. \A y \in E : y \in K /\ y[1] \in Nat /\ Before(y, was)
      BY <1>3 DEF Earlier
    <3>2. ASSUME NEW y \in E PROVE y[1] < first
      <4>1. y[1] \in Nat /\ (y[1] < was[1] \/ y[1] = was[1])
        BY <3>1 DEF Before
      <4> QED BY <1>6, <1>13, <4>1
    <3>3. ~Before(was, was)
      BY <1>3, <1>6 DEF Before
    <3> QED BY <1>6, <1>13, <3>1, <3>2, <3>3 DEF Preceding, Earlier
  <2>2. E \ In = E
    BY <1>10, <2>1
  <2> HIDE DEF E, Pre, D, In
  <2>3. Cardinality(E) < Cardinality(Pre)
    <3>1. E # Pre
      BY <2>1
    <3>2. Cardinality(E) <= Cardinality(Pre) /\ Cardinality(E) # Cardinality(Pre)
      BY <1>11, <2>1, <3>1, FS_Subset
    <3> QED BY <1>11, <3>2
  <2>4. before = Cardinality(E) /\ after = Cardinality(D) /\ p = Cardinality(Pre) /\ k = Cardinality(In)
    BY DEF E, D, Pre, In, Ordinal
  <2>5. Cardinality(E) = Cardinality(D)
    BY <1>12, <2>2
  <2> DEFINE e == Cardinality(E)
             d == Cardinality(D)
             q == Cardinality(Pre)
             i == Cardinality(In)
  <2>6. e \in Nat /\ d \in Nat /\ q \in Nat /\ i \in Nat /\ before = e /\ after = d /\ p = q /\ k = i /\ e = d /\ e < q
    BY <1>11, <2>3, <2>4, <2>5
  <2> HIDE DEF e, d, q, i
  <2>7. before \in Nat /\ after \in Nat /\ p \in Nat /\ k \in Nat
    BY <2>6
  <2>8. before < p /\ after = before
    BY <2>6
  <2> QED BY <2>7, <2>8
<1>14. CASE was[1] > last
  <2>1. In \subseteq E /\ Pre \subseteq E \ In
    <3>1. \A y \in In : y \in K /\ y[1] \in Nat /\ y[1] < was[1]
      <4>1. \A y \in In : y \in K /\ y[1] \in Nat /\ y[1] \in first..last
        BY <1>3 DEF Within
      <4> QED BY <1>6, <1>14, <4>1
    <3>2. \A y \in Pre : y \in K /\ y[1] \in Nat /\ y[1] < was[1]
      <4>1. \A y \in Pre : y \in K /\ y[1] \in Nat /\ y[1] < first
        BY <1>3 DEF Preceding
      <4> QED BY <1>6, <1>14, <4>1
    <3> QED BY <1>10, <3>1, <3>2 DEF Earlier, Before
  <2> HIDE DEF E, Pre, D, In
  <2>2. IsFiniteSet(E \ In) /\ Cardinality(Pre) <= Cardinality(E \ In)
    <3>1. IsFiniteSet(E \ In)
      BY <1>11, FS_Subset
    <3> QED BY <2>1, <3>1, FS_Subset
  <2>3. Cardinality(E) = Cardinality(E \ In) + Cardinality(In)
    <3>1. (E \ In) \cup In = E /\ (E \ In) \cap In = {}
      BY <2>1
    <3>2. Cardinality((E \ In) \cup In) = Cardinality(E \ In) + Cardinality(In) - Cardinality((E \ In) \cap In)
      BY <1>11, <2>2, FS_Union
    <3>3. Cardinality((E \ In) \cap In) = 0
      BY <3>1, FS_EmptySet
    <3>4. Cardinality((E \ In) \cup In) = Cardinality(E)
      BY <3>1
    <3> DEFINE a == Cardinality(E \ In)
               b == Cardinality(In)
               c == Cardinality((E \ In) \cap In)
               d == Cardinality((E \ In) \cup In)
    <3>5. a \in Nat /\ b \in Nat /\ c = 0 /\ d = a + b - c
      BY <1>11, <1>12, <3>2, <3>3
    <3> HIDE DEF a, b, c, d
    <3>6. d = a + b
      BY <3>5
    <3> QED BY <3>4, <3>6 DEF a, b, d
  <2>4. before = Cardinality(E) /\ after = Cardinality(D) /\ p = Cardinality(Pre) /\ k = Cardinality(In)
    BY DEF E, D, Pre, In, Ordinal
  <2> QED BY <1>11, <1>12, <2>2, <2>3, <2>4
<1> QED BY <1>6, <1>13, <1>14

\* A call is shown with its response or not at all, and calls and responses that are
\* shown belong together as they did when they were told.
Pairs(whole, shown) ==
  /\ \A x, y \in Tools(whole) : PairKey(whole, x) = PairKey(whole, y) => (x[1] \in Kept(shown) <=> y[1] \in Kept(shown))
  /\ \A x, y \in Tools(shown) :
       PairKey(shown, x) = PairKey(shown, y) <=> PairKey(whole, Whence(shown, x)) = PairKey(whole, Whence(shown, y))

(* The whole conversation has its pairs.                                   *)
LEMMA WholePairs ==
  ASSUME NEW whole \in Seq(Said), \A i \in 1..Len(whole) : whole[i].at = i PROVE Pairs(whole, whole)
<1>1. DOMAIN whole = 1..Len(whole)
  OBVIOUS
<1>2. \A x \in Tools(whole) : x = <<x[1], x[2]>> /\ x[1] \in 1..Len(whole)
  BY PlaceHasPart DEF Tools
<1>3. \A x \in Tools(whole) : x[1] \in Kept(whole) /\ Whence(whole, x) = x
  BY <1>1, <1>2 DEF Kept, Whence
<1> QED BY <1>3 DEF Pairs

(* Eliding a body leaves the pairs.                                        *)
LEMMA ElidePairs ==
  ASSUME NEW whole \in Seq(Said), NEW shown \in Seq(Said), Pairs(whole, shown), NEW at \in Parts(shown)
  PROVE  Pairs(whole, Elide(shown, at))
<1> DEFINE next == Elide(shown, at)
           n == Len(shown)
<1>1. /\ next \in Seq(Said) /\ Len(next) = n
      /\ \A i \in 1..n : /\ next[i].at = shown[i].at /\ Len(next[i].parts) = Len(shown[i].parts)
                         /\ i # at[1] => next[i] = shown[i]
      /\ \A j \in 1..Len(shown[at[1]].parts) :
           next[at[1]].parts[j] = IF j = at[2] THEN [shown[at[1]].parts[j] EXCEPT !.elided = TRUE]
                                  ELSE shown[at[1]].parts[j]
  BY ElideMarks
<1> HIDE DEF next
<1>2. Parts(next) = Parts(shown)
  <2>1. \A z : z \in Parts(next) <=> \E i \in 1..n : \E j \in 1..Len(next[i].parts) : z = <<i, j>>
    BY <1>1, PlacesAreParts
  <2>2. \A z : z \in Parts(shown) <=> \E i \in 1..n : \E j \in 1..Len(shown[i].parts) : z = <<i, j>>
    BY PlacesAreParts
  <2>3. \A z : z \in Parts(next) <=> z \in Parts(shown)
    <3>1. \A i \in 1..n : Len(next[i].parts) = Len(shown[i].parts)
      BY <1>1
    <3> QED BY <2>1, <2>2, <3>1
  <2> QED BY <2>3
<1>3. ASSUME NEW x \in Parts(shown)
      PROVE  /\ PartAt(next, x).form = PartAt(shown, x).form /\ PartAt(next, x).name = PartAt(shown, x).name
             /\ PartAt(next, x).id = PartAt(shown, x).id /\ next[x[1]].at = shown[x[1]].at
  <2>1. x[1] \in 1..n /\ x[2] \in 1..Len(shown[x[1]].parts) /\ PartAt(shown, x) \in Part
    BY PlaceHasPart
  <2>2. PartAt(next, x) = PartAt(shown, x) \/ PartAt(next, x) = [PartAt(shown, x) EXCEPT !.elided = TRUE]
    BY <1>1, <2>1 DEF PartAt
  <2>3. \A part \in Part : LET elided == [part EXCEPT !.elided = TRUE] IN
          elided.form = part.form /\ elided.name = part.name /\ elided.id = part.id
    BY DEF Part
  <2> QED BY <1>1, <2>1, <2>2, <2>3
<1>4. Tools(next) = Tools(shown)
  BY <1>2, <1>3 DEF Tools
<1>5. ASSUME NEW x \in Tools(shown) PROVE PairKey(next, x) = PairKey(shown, x) /\ Whence(next, x) = Whence(shown, x)
  <2>1. x \in Parts(shown)
    BY DEF Tools
  <2> DEFINE A == {other \in Parts(next) : /\ Before(other, x)
                     /\ PartAt(next, other).form = PartAt(next, x).form /\ PartAt(next, other).name = PartAt(next, x).name
                     /\ PartAt(next, other).id = NoID}
             B == {other \in Parts(shown) : /\ Before(other, x)
                     /\ PartAt(shown, other).form = PartAt(shown, x).form /\ PartAt(shown, other).name = PartAt(shown, x).name
                     /\ PartAt(shown, other).id = NoID}
  <2>2. A = B
    BY <1>2, <1>3, <2>1
  <2>3. PairKey(next, x) = IF PartAt(next, x).id # NoID THEN <<"id", PartAt(next, x).id>>
                           ELSE <<"name", PartAt(next, x).name, Cardinality(A)>>
    BY DEF PairKey
  <2>4. PairKey(shown, x) = IF PartAt(shown, x).id # NoID THEN <<"id", PartAt(shown, x).id>>
                            ELSE <<"name", PartAt(shown, x).name, Cardinality(B)>>
    BY DEF PairKey
  <2> HIDE DEF A, B
  <2>5. PairKey(next, x) = PairKey(shown, x)
    <3>1. PartAt(next, x).id = PartAt(shown, x).id /\ PartAt(next, x).name = PartAt(shown, x).name
      BY <1>3, <2>1
    <3> QED BY <2>2, <2>3, <2>4, <3>1
  <2> QED BY <1>3, <2>1, <2>5 DEF Whence
<1>6. Kept(next) = Kept(shown)
  <2>1. DOMAIN next = 1..n /\ DOMAIN shown = 1..n
    BY <1>1
  <2> QED BY <1>1, <2>1 DEF Kept
<1> QED BY <1>4, <1>5, <1>6 DEF Pairs, next

-----------------------------------------------------------------------------
(* What a request shows of the whole conversation.                         *)

\* A content shown as it was told but for elided bodies.
Same(told, shown) ==
  /\ shown.role = told.role /\ shown.at = told.at /\ Len(shown.parts) = Len(told.parts)
  /\ \A j \in 1..Len(told.parts) :
       \/ shown.parts[j] = told.parts[j]
       \/ /\ told.parts[j].form = "response" /\ told.parts[j].name \notin Preserve
          /\ shown.parts[j] = [told.parts[j] EXCEPT !.elided = TRUE]

\* The first and the last content are there.
Ends(whole, shown) ==
  Len(shown) >= 1 /\ Len(whole) >= 1 /\ shown[1].at = 1 /\ shown[Len(shown)].at = Len(whole)

\* The first and the recent contents are as they were told, others but for elided bodies.
Likeness(whole, shown) ==
  \A i \in 1..Len(shown) :
    /\ shown[i].at \in 1..Len(whole) /\ Same(whole[shown[i].at], shown[i])
    /\ shown[i].at = 1 \/ shown[i].at > Len(whole) - KeepRecent => shown[i] = whole[shown[i].at]

Ascending(shown) == \A i, j \in 1..Len(shown) : i < j => shown[i].at < shown[j].at

\* Between two contents there is nothing left out, or what is begins and ends with a turn.
Gaps(whole, shown) ==
  \A i \in 1..(Len(shown) - 1) :
    \/ shown[i + 1].at = shown[i].at + 1
    \/ shown[i].at + 1 \in Starts(whole) /\ shown[i + 1].at \in Starts(whole)

Recent(whole, shown) ==
  \A r \in 1..Len(whole) :
    r > Len(whole) - KeepRecent =>
      /\ Len(shown) - (Len(whole) - r) >= 1
      /\ shown[Len(shown) - (Len(whole) - r)].at = r

\* What may be left out is before the last prompt and not of a preserved tool's turn.
Omissible(whole, d) ==
  /\ \E s \in Starts(whole) : d < s
  /\ \A turn \in CompleteTurns(whole) : d \in turn.first..turn.last => ~PreservedTool(whole, turn)
Omissions(whole, shown) == \A d \in 1..Len(whole) : d \notin Kept(shown) => Omissible(whole, d)

Shows(whole, shown) ==
  /\ Ends(whole, shown) /\ Likeness(whole, shown) /\ Ascending(shown)
  /\ Gaps(whole, shown) /\ Recent(whole, shown) /\ Omissions(whole, shown) /\ Pairs(whole, shown)

\* A session's contents know their places, and nothing in them is elided.
Told(whole) ==
  \A i \in 1..Len(whole) : /\ whole[i].at = i
                           /\ \A j \in 1..Len(whole[i].parts) : whole[i].parts[j].elided = FALSE

(* A conversation shows itself.                                            *)
LEMMA ShowsItself ==
  ASSUME NEW whole \in Seq(Said), Told(whole), Len(whole) >= 1 PROVE Shows(whole, whole)
<1>1. Len(whole) \in Nat /\ DOMAIN whole = 1..Len(whole) /\ \A i \in 1..Len(whole) : whole[i].at = i
  BY DEF Told
<1>2. Ends(whole, whole) /\ Ascending(whole) /\ Gaps(whole, whole)
  BY <1>1 DEF Ends, Ascending, Gaps
<1>3. Likeness(whole, whole)
  BY <1>1 DEF Likeness, Same
<1>4. Recent(whole, whole)
  BY <1>1, PolicyAssumption DEF Recent
<1>5. Omissions(whole, whole)
  BY <1>1 DEF Omissions, Kept
<1>6. Pairs(whole, whole)
  BY <1>1, WholePairs
<1> QED BY <1>2, <1>3, <1>4, <1>5, <1>6 DEF Shows

(* A prompt is a prompt whatever is elided.                                *)
LEMMA PromptsAlike ==
  ASSUME NEW told \in Said, NEW shown \in Said, Same(told, shown)
  PROVE  StartsPromptTurn(shown) <=> StartsPromptTurn(told)
<1>1. told.parts \in Seq(Part) /\ shown.parts \in Seq(Part)
  BY DEF Said
<1>2. DOMAIN told.parts = 1..Len(told.parts) /\ DOMAIN shown.parts = 1..Len(told.parts)
  BY <1>1 DEF Same
<1>3. \A part \in Part : [part EXCEPT !.elided = TRUE].form = part.form
  BY DEF Part
<1>4. \A j \in 1..Len(told.parts) : told.parts[j] \in Part
  BY <1>1
<1>5. \A j \in 1..Len(told.parts) : shown.parts[j].form = told.parts[j].form
  BY <1>3, <1>4 DEF Same
<1> QED BY <1>2, <1>5 DEF StartsPromptTurn, Same

(* Eliding a body that may be keeps what is shown.                         *)
LEMMA ElideShows ==
  ASSUME NEW whole \in Seq(Said), NEW shown \in Seq(Said), Shows(whole, shown),
         NEW x \in Parts(shown), x[1] \in 2..(Len(shown) - KeepRecent),
         PartAt(shown, x).form = "response", PartAt(shown, x).name \notin Preserve
  PROVE  Shows(whole, Elide(shown, x))
<1> DEFINE next == Elide(shown, x)
           a == x[1]
           b == x[2]
           n == Len(shown)
           m == Len(whole)
<1>1. a \in 1..n /\ b \in 1..Len(shown[a].parts) /\ PartAt(shown, x) = shown[a].parts[b] /\ PartAt(shown, x) \in Part
  BY PlaceHasPart DEF PartAt
<1>2. /\ next \in Seq(Said) /\ Len(next) = n
      /\ \A i \in 1..n : /\ next[i].role = shown[i].role /\ next[i].at = shown[i].at
                         /\ Len(next[i].parts) = Len(shown[i].parts)
                         /\ i # a => next[i] = shown[i]
      /\ \A j \in 1..Len(shown[a].parts) :
           next[a].parts[j] = IF j = b THEN [shown[a].parts[j] EXCEPT !.elided = TRUE] ELSE shown[a].parts[j]
  BY ElideMarks
<1> HIDE DEF next
<1>3. n \in Nat /\ m \in Nat /\ KeepRecent \in Nat /\ DOMAIN next = 1..n /\ DOMAIN shown = 1..n
  BY <1>2, PolicyAssumption
<1>4. Ends(whole, shown) /\ Likeness(whole, shown) /\ Ascending(shown)
      /\ Gaps(whole, shown) /\ Recent(whole, shown) /\ Omissions(whole, shown)
  BY DEF Shows
<1>5. Ends(whole, next) /\ Ascending(next) /\ Gaps(whole, next)
  <2>1. n >= 1 => 1 \in 1..n /\ n \in 1..n
    BY <1>3
  <2>2. Ends(whole, next)
    BY <1>2, <1>4, <2>1 DEF Ends
  <2>3. Ascending(next)
    BY <1>2, <1>4 DEF Ascending
  <2>4. \A i \in 1..(n - 1) : i \in 1..n /\ i + 1 \in 1..n
    BY <1>3
  <2>5. Gaps(whole, next)
    BY <1>2, <1>4, <2>4 DEF Gaps
  <2> QED BY <2>2, <2>3, <2>5
<1>6. Kept(next) = Kept(shown)
  BY <1>2, <1>3 DEF Kept
<1>7. Omissions(whole, next)
  BY <1>4, <1>6 DEF Omissions
<1>8. Recent(whole, next)
  <2> SUFFICES ASSUME NEW r \in 1..m, r > m - KeepRecent
               PROVE  n - (m - r) >= 1 /\ next[n - (m - r)].at = r
    BY <1>2 DEF Recent
  <2>1. n - (m - r) >= 1 /\ shown[n - (m - r)].at = r
    BY <1>4 DEF Recent
  <2>2. n - (m - r) \in 1..n
    BY <1>3, <2>1
  <2> QED BY <1>2, <2>1, <2>2
<1>9. shown[a].at # 1 /\ ~(shown[a].at > m - KeepRecent)
  <2>1. 1 \in 1..n /\ 1 < a /\ shown[1].at = 1 /\ shown[a].at \in 1..m
    BY <1>1, <1>3, <1>4 DEF Ends, Likeness
  <2>2. shown[1].at < shown[a].at
    BY <1>1, <1>4, <2>1 DEF Ascending
  <2>3. ASSUME shown[a].at > m - KeepRecent PROVE FALSE
    <3> DEFINE r == shown[a].at
               i == n - (m - r)
    <3>1. i >= 1 /\ shown[i].at = r
      BY <1>4, <2>1, <2>3 DEF Recent
    <3>2. i \in 1..n /\ i > a
      BY <1>1, <1>3, <2>1, <2>3, <3>1
    <3> HIDE DEF i
    <3>3. r < shown[i].at
      BY <1>1, <1>4, <3>2 DEF Ascending
    <3> QED BY <2>1, <3>1, <3>3
  <2> QED BY <2>1, <2>2, <2>3
<1>10. Likeness(whole, next)
  <2> SUFFICES ASSUME NEW i \in 1..n
               PROVE  /\ next[i].at \in 1..m /\ Same(whole[next[i].at], next[i])
                      /\ next[i].at = 1 \/ next[i].at > m - KeepRecent => next[i] = whole[next[i].at]
    BY <1>2 DEF Likeness
  <2>1. /\ shown[i].at \in 1..m /\ Same(whole[shown[i].at], shown[i])
        /\ shown[i].at = 1 \/ shown[i].at > m - KeepRecent => shown[i] = whole[shown[i].at]
    BY <1>4 DEF Likeness
  <2>2. CASE i # a
    BY <1>2, <2>1, <2>2
  <2>3. CASE i = a
    <3> DEFINE told == whole[shown[a].at]
    <3>1. told \in Said /\ told.parts \in Seq(Part)
      <4>1. told \in Said
        BY <2>1, <2>3
      <4> QED BY <4>1 DEF Said
    <3>2. Same(told, shown[a])
      BY <2>1, <2>3
    <3> HIDE DEF told
    <3>3. \A j \in 1..Len(told.parts) : told.parts[j] \in Part
      BY <3>1
    <3>4. \A part \in Part : /\ [[part EXCEPT !.elided = TRUE] EXCEPT !.elided = TRUE] = [part EXCEPT !.elided = TRUE]
                             /\ [part EXCEPT !.elided = TRUE].form = part.form
                             /\ [part EXCEPT !.elided = TRUE].name = part.name
      BY DEF Part
    <3>5. \A j \in 1..Len(told.parts) :
            \/ next[a].parts[j] = told.parts[j]
            \/ /\ told.parts[j].form = "response" /\ told.parts[j].name \notin Preserve
               /\ next[a].parts[j] = [told.parts[j] EXCEPT !.elided = TRUE]
      <4> TAKE j \in 1..Len(told.parts)
      <4>1. CASE j # b
        BY <1>2, <3>2, <4>1 DEF Same
      <4>2. CASE j = b
        <5>1. next[a].parts[b] = [shown[a].parts[b] EXCEPT !.elided = TRUE]
          BY <1>1, <1>2
        <5>2. shown[a].parts[b] = told.parts[b] \/ shown[a].parts[b] = [told.parts[b] EXCEPT !.elided = TRUE]
          BY <3>2, <4>2 DEF Same
        <5>3. told.parts[b] \in Part
          BY <3>3, <4>2
        <5>4. shown[a].parts[b].form = "response" /\ shown[a].parts[b].name \notin Preserve
          BY <1>1
        <5> QED BY <3>4, <4>2, <5>1, <5>2, <5>3, <5>4
      <4> QED BY <4>1, <4>2
    <3>6. Same(told, next[a])
      BY <1>1, <1>2, <3>2, <3>5 DEF Same
    <3> QED BY <1>1, <1>2, <1>9, <2>1, <2>3, <3>6 DEF told
  <2> QED BY <2>2, <2>3
<1>11. Pairs(whole, next)
  <2>1. Pairs(whole, shown)
    BY DEF Shows
  <2> QED BY <2>1, ElidePairs DEF next
<1> QED BY <1>5, <1>7, <1>8, <1>10, <1>11 DEF Shows, next

-----------------------------------------------------------------------------
(* Eliding.                                                                *)

\* What the policy works on; a body is worth eliding when it may be and its marker is smaller.
State == [contents : Seq(Said), durable : Decided]
Worth(part) == part.name \notin Preserve /\ part.bytes >= MinimumElision /\ part.bytes > Marker
NoneWorth(told) == \A at \in Candidates(told) : ~Worth(PartAt(told, at))

(* Eliding a body leaves every other part as it is.                        *)
LEMMA ElidePlaces ==
  ASSUME NEW told \in Seq(Said), NEW at \in Parts(told), NEW shown, shown = Elide(told, at)
  PROVE  /\ shown \in Seq(Said) /\ Len(shown) = Len(told) /\ Parts(shown) = Parts(told)
         /\ PartAt(shown, at) = [PartAt(told, at) EXCEPT !.elided = TRUE]
         /\ \A other \in Parts(told) : other # at => PartAt(shown, other) = PartAt(told, other)
<1>1. /\ shown \in Seq(Said) /\ Len(shown) = Len(told)
      /\ \A i \in 1..Len(told) : Len(shown[i].parts) = Len(told[i].parts) /\ (i # at[1] => shown[i] = told[i])
      /\ \A j \in 1..Len(told[at[1]].parts) :
              shown[at[1]].parts[j] = IF j = at[2] THEN [told[at[1]].parts[j] EXCEPT !.elided = TRUE]
                                      ELSE told[at[1]].parts[j]
  BY ElideMarks
<1>2. \A x : x \in Parts(told) <=> \E i \in 1..Len(told) : \E j \in 1..Len(told[i].parts) : x = <<i, j>>
  BY PlacesAreParts
<1>3. \A x : x \in Parts(shown) <=> \E i \in 1..Len(shown) : \E j \in 1..Len(shown[i].parts) : x = <<i, j>>
  BY <1>1, PlacesAreParts
<1>4. Parts(shown) = Parts(told)
  <2>1. ASSUME NEW x \in Parts(shown) PROVE x \in Parts(told)
    <3>1. PICK i \in 1..Len(told) : \E j \in 1..Len(shown[i].parts) : x = <<i, j>>
      BY <1>1, <1>3
    <3>2. Len(shown[i].parts) = Len(told[i].parts)
      BY <1>1
    <3> QED BY <1>2, <3>1, <3>2
  <2>2. ASSUME NEW x \in Parts(told) PROVE x \in Parts(shown)
    <3>1. PICK i \in 1..Len(told) : \E j \in 1..Len(told[i].parts) : x = <<i, j>>
      BY <1>2
    <3>2. Len(shown[i].parts) = Len(told[i].parts) /\ i \in 1..Len(shown)
      BY <1>1
    <3> QED BY <1>3, <3>1, <3>2
  <2> QED BY <2>1, <2>2
<1>5. at = <<at[1], at[2]>> /\ at[1] \in 1..Len(told) /\ at[2] \in 1..Len(told[at[1]].parts)
  BY PlaceHasPart
<1>6. PartAt(shown, at) = [PartAt(told, at) EXCEPT !.elided = TRUE]
  BY <1>1, <1>5 DEF PartAt
<1>7. ASSUME NEW other \in Parts(told), other # at PROVE PartAt(shown, other) = PartAt(told, other)
  <2>1. other = <<other[1], other[2]>> /\ other[1] \in 1..Len(told) /\ other[2] \in 1..Len(told[other[1]].parts)
    BY PlaceHasPart
  <2>2. CASE other[1] # at[1]
    BY <1>1, <2>1, <2>2 DEF PartAt
  <2>3. CASE other[1] = at[1] /\ other[2] # at[2]
    BY <1>1, <2>1, <2>3 DEF PartAt
  <2>4. ~(other[1] = at[1] /\ other[2] = at[2])
    BY <1>5, <1>7, <2>1
  <2> QED BY <2>2, <2>3, <2>4
<1> QED BY <1>1, <1>4, <1>6, <1>7

\* As it was told but for the marks of elided bodies.
Alike(told, shown) ==
  /\ Len(shown) = Len(told) /\ Parts(shown) = Parts(told)
  /\ \A at \in Parts(told) : \/ PartAt(shown, at) = PartAt(told, at)
                             \/ PartAt(shown, at) = [PartAt(told, at) EXCEPT !.elided = TRUE]

(* Eliding once more leaves the conversation but for its marks as it was   *)
(* told.                                                                   *)
LEMMA ElideStaysAlike ==
  ASSUME NEW told \in Seq(Said), NEW shown \in Seq(Said), Alike(told, shown),
         NEW at \in Parts(told)
  PROVE  Elide(shown, at) \in Seq(Said) /\ Alike(told, Elide(shown, at))
<1> DEFINE next == Elide(shown, at)
<1>1. /\ next \in Seq(Said) /\ Len(next) = Len(shown) /\ Parts(next) = Parts(shown)
      /\ PartAt(next, at) = [PartAt(shown, at) EXCEPT !.elided = TRUE]
      /\ \A other \in Parts(shown) : other # at => PartAt(next, other) = PartAt(shown, other)
  <2>1. at \in Parts(shown)
    BY DEF Alike
  <2> QED BY <2>1, ElidePlaces
<1>2. PartAt(told, at) \in Part
  BY PlaceHasPart
<1>3. \A part \in Part : [[part EXCEPT !.elided = TRUE] EXCEPT !.elided = TRUE] = [part EXCEPT !.elided = TRUE]
  BY DEF Part
<1> HIDE DEF next
<1>4. PartAt(next, at) = [PartAt(told, at) EXCEPT !.elided = TRUE]
  BY <1>1, <1>2, <1>3 DEF Alike
<1>5. Alike(told, next)
  BY <1>1, <1>4 DEF Alike
<1> QED BY <1>1, <1>5 DEF next

(* Eliding a body that may be elided keeps what is shown.                  *)
LEMMA CandidateShows ==
  ASSUME NEW whole \in Seq(Said), NEW told \in Seq(Said), NEW shown \in Seq(Said),
         Alike(told, shown), Shows(whole, shown), NEW at \in Candidates(told), PartAt(shown, at).name \notin Preserve
  PROVE  Shows(whole, Elide(shown, at))
<1>1. at \in Parts(told) /\ at \in Parts(shown) /\ at[1] \in 2..(Len(shown) - KeepRecent)
      /\ PartAt(told, at).form = "response"
  BY DEF Candidates, Alike
<1>2. PartAt(told, at) \in Part
  BY <1>1, PlaceHasPart
<1>3. \A part \in Part : [part EXCEPT !.elided = TRUE].form = part.form
  BY DEF Part
<1>4. PartAt(shown, at).form = "response"
  BY <1>1, <1>2, <1>3 DEF Alike
<1> QED BY <1>1, <1>4, ElideShows

\* What elideResponses does at one place.
ElideStep(at, t) ==
  IF AboveTarget(t) /\ Eligible(t.contents, at)
  THEN [contents |-> Elide(t.contents, at),
        durable |-> [t.durable EXCEPT !.elided = With(@, ResponseKey(PartAt(t.contents, at)))]]
  ELSE t

(* So does each step of elideResponses, and its decisions stay well        *)
(* formed.                                                                 *)
LEMMA ElideStepTyped ==
  ASSUME NEW whole \in Seq(Said), NEW told \in Seq(Said),
         NEW t \in State, Alike(told, t.contents), Shows(whole, t.contents), NEW at \in Candidates(told)
  PROVE  /\ ElideStep(at, t) \in State /\ Alike(told, ElideStep(at, t).contents)
         /\ Shows(whole, ElideStep(at, t).contents)
<1>1. CASE ~(AboveTarget(t) /\ Eligible(t.contents, at))
  BY <1>1, SMT DEF ElideStep
<1>2. CASE AboveTarget(t) /\ Eligible(t.contents, at)
  <2> DEFINE after == [t.durable EXCEPT !.elided = With(@, ResponseKey(PartAt(t.contents, at)))]
             next == Elide(t.contents, at)
  <2>1. t.contents \in Seq(Said) /\ t.durable \in Decided
    BY DEF State
  <2>2. at \in Parts(told) /\ at \in Parts(t.contents)
    BY DEF Alike, Candidates
  <2>3. PartAt(t.contents, at) \in Part
    BY <2>1, <2>2, PlaceHasPart
  <2>4. With(t.durable.elided, ResponseKey(PartAt(t.contents, at))) \in BagsOf(ResponseKeys)
    <3>1. t.durable.elided \in BagsOf(ResponseKeys)
      BY <2>1 DEF Decided
    <3> QED BY <2>3, <3>1, ResponsesHaveKeys, WithIsBag
  <2>5. after \in Decided
    BY <2>1, <2>4 DEF Decided
  <2>6. next \in Seq(Said) /\ Alike(told, next)
    BY <2>1, <2>2, ElideStaysAlike
  <2>8. Shows(whole, next)
    BY <1>2, <2>1, CandidateShows DEF Eligible
  <2> HIDE DEF after, next
  <2>7. ElideStep(at, t) = [contents |-> next, durable |-> after]
    BY <1>2 DEF ElideStep, after, next
  <2> QED BY <2>5, <2>6, <2>7, <2>8 DEF State
<1> QED BY <1>1, <1>2

(* The bodies that may be elided are finitely many places.                 *)
LEMMA CandidatesAreParts ==
  ASSUME NEW told \in Seq(Said)
  PROVE  Candidates(told) \subseteq Parts(told) /\ IsFiniteSet(Candidates(told))
<1>1. Candidates(told) \subseteq Parts(told)
  BY DEF Candidates
<1> QED BY <1>1, PartsAreFinite, FS_Subset

(* elideResponses leaves nothing worth eliding or reaches the target.      *)
LEMMA ElidesAll ==
  ASSUME NEW whole \in Seq(Said), NEW s \in State, Shows(whole, s.contents)
  PROVE  /\ ElideResponses(s) \in State /\ Shows(whole, ElideResponses(s).contents)
         /\ AboveTarget(ElideResponses(s)) => NoneWorth(ElideResponses(s).contents)
<1> DEFINE told == s.contents
           S == Candidates(told)
           V == {t \in State : Alike(told, t.contents) /\ Shows(whole, t.contents)}
           G == [a \in S \X V |-> ElideStep(a[1], a[2])]
           pick == [some \in SUBSET S |-> Latest(some)]
<1>1. told \in Seq(Said) /\ S \subseteq Parts(told) /\ IsFiniteSet(S)
  <2>1. told \in Seq(Said)
    BY DEF State
  <2> QED BY <2>1, CandidatesAreParts
<1>2. s \in V
  BY DEF Alike
<1>3. \A x \in S : \A t \in V : ElideStep(x, t) \in V
  BY <1>1, ElideStepTyped
<1>4. \A some \in SUBSET S : some # {} => Latest(some) \in some
  BY <1>1, LatestOfPlaces
<1> HIDE DEF S, V
<1>5. G \in [S \X V -> V] /\ \A x \in S : \A t \in V : G[<<x, t>>] = ElideStep(x, t)
  BY <1>3
<1>6. \A some \in SUBSET S : some # {} => pick[some] \in some
  BY <1>4
<1>7. PICK h \in [SUBSET S -> V] : Folds(h, S, s, G, pick)
  <2> HIDE DEF G, pick
  <2> QED BY <1>1, <1>2, <1>5, <1>6, FoldsExist
<1>8. h[{}] = s /\ \A some \in SUBSET S : some # {} => h[some] = ElideStep(Latest(some), h[some \ {Latest(some)}])
  <2>1. h[{}] = s
    BY <1>7 DEF Folds
  <2>2. ASSUME NEW some \in SUBSET S, some # {} PROVE h[some] = ElideStep(Latest(some), h[some \ {Latest(some)}])
    <3>1. pick[some] = Latest(some) /\ Latest(some) \in some
      BY <1>4, <2>2
    <3>2. h[some] = G[<<Latest(some), h[some \ {Latest(some)}]>>]
      BY <1>7, <2>2, <3>1 DEF Folds
    <3>3. Latest(some) \in S /\ h[some \ {Latest(some)}] \in V
      BY <3>1
    <3> QED BY <1>5, <3>2, <3>3
  <2> QED BY <2>1, <2>2
<1> HIDE DEF G, pick
<1> DEFINE Adds(f) == f = [some \in SUBSET S |-> IF some = {} THEN s
                                               ELSE ElideStep(Latest(some), f[some \ {Latest(some)}])]
           iter == CHOOSE f : Adds(f)
<1>9. Adds(h)
  BY <1>8
<1>10. Adds(iter)
  BY <1>9
<1>11. ElideResponses(s) = iter[S]
  BY SMT DEF ElideResponses, OldestFirst, MapThenFoldSet, ElideStep, S
<1> HIDE DEF iter
<1>12. iter[{}] = s /\ \A some \in SUBSET S : some # {} => iter[some] = ElideStep(Latest(some), iter[some \ {Latest(some)}])
  BY <1>10
<1> HIDE DEF Adds
<1> DEFINE T == {some \in SUBSET S : iter[some] = h[some]}
<1>13. \A some \in SUBSET S : some # {} /\ (\A x \in some : some \ {x} \in T) => some \in T
  <2> TAKE some \in SUBSET S
  <2> HAVE some # {} /\ (\A x \in some : some \ {x} \in T)
  <2>1. iter[some \ {Latest(some)}] = h[some \ {Latest(some)}]
    BY <1>4
  <2> QED BY <1>8, <1>12, <2>1
<1>14. {} \in T
  BY <1>8, <1>12
<1> HIDE DEF T
<1>15. SUBSET S \subseteq T
  BY <1>1, <1>13, <1>14, EverySubset
<1>16. ElideResponses(s) = h[S]
  BY <1>11, <1>15 DEF T
<1> DEFINE Fine(some) ==
             /\ \A x \in S \ some : PartAt(h[some].contents, x) = PartAt(told, x)
             /\ AboveTarget(h[some]) =>
                  \A x \in some : PartAt(h[some].contents, x).elided \/ ~Worth(PartAt(h[some].contents, x))
           U == {some \in SUBSET S : Fine(some)}
<1>17. {} \in U
  BY <1>8
<1>18. ASSUME NEW some \in SUBSET S, some # {}, \A x \in some : some \ {x} \in U PROVE some \in U
  <2> DEFINE x == Latest(some)
             less == some \ {x}
             t == h[less]
  <2>1. x \in some /\ Fine(less) /\ h[some] = ElideStep(x, t) /\ less \in SUBSET S
    BY <1>4, <1>8, <1>18
  <2>2. t \in State /\ Alike(told, t.contents)
    <3>1. t \in V
      BY <2>1
    <3> QED BY <3>1 DEF V
  <2>3. t.contents \in Seq(Said) /\ x \in Parts(t.contents) /\ Parts(t.contents) = Parts(told)
    <3>1. t.contents \in Seq(Said)
      BY <2>2 DEF State
    <3> QED BY <1>1, <2>1, <2>2, <3>1 DEF Alike
  <2>4. PartAt(t.contents, x) = PartAt(told, x)
    BY <2>1
  <2> HIDE DEF less, t, x
  <2>5. PartAt(t.contents, x).form = "response" /\ ~PartAt(t.contents, x).elided
    BY <2>1, <2>4 DEF S, Candidates
  <2>6. \A y \in S : y \in Parts(t.contents) /\ (y \notin some => y \notin less) /\ (y \in some => y = x \/ y \in less)
    BY <1>1, <2>3 DEF less
  <2>7. CASE ~(AboveTarget(t) /\ Eligible(t.contents, x))
    <3>1. h[some] = t
      BY <2>1, <2>7 DEF ElideStep
    <3>2. AboveTarget(t) => ~Worth(PartAt(t.contents, x))
      <4>1. Reduces(t.contents, x) <=> PartAt(t.contents, x).bytes > Marker
        BY <2>3, <2>5, ElideSaves
      <4> QED BY <2>7, <4>1 DEF Eligible, Worth
    <3>3. Fine(some)
      BY <2>1, <2>6, <3>1, <3>2 DEF t
    <3> QED BY <3>3
  <2>8. CASE AboveTarget(t) /\ Eligible(t.contents, x)
    <3> DEFINE next == Elide(t.contents, x)
    <3>1. h[some].contents = next
      BY <2>1, <2>8 DEF ElideStep
    <3>2. /\ PartAt(next, x) = [PartAt(t.contents, x) EXCEPT !.elided = TRUE]
          /\ \A other \in Parts(t.contents) : other # x => PartAt(next, other) = PartAt(t.contents, other)
      <4> DEFINE c == t.contents
      <4>1. c \in Seq(Said) /\ x \in Parts(c) /\ next = Elide(c, x)
        BY <2>3
      <4> HIDE DEF c, next
      <4>2. /\ PartAt(next, x) = [PartAt(c, x) EXCEPT !.elided = TRUE]
            /\ \A other \in Parts(c) : other # x => PartAt(next, other) = PartAt(c, other)
        BY <4>1, ElidePlaces
      <4> QED BY <4>2 DEF c
    <3> HIDE DEF next
    <3>3. PartAt(next, x).elided
      <4>1. PartAt(t.contents, x) \in Part
        BY <2>3, PlaceHasPart
      <4> QED BY <3>2, <4>1 DEF Part
    <3>4. \A y \in S \ some : PartAt(next, y) = PartAt(told, y)
      BY <2>1, <2>6, <3>2 DEF t
    <3>5. \A y \in some : PartAt(next, y).elided \/ ~Worth(PartAt(next, y))
      BY <2>1, <2>6, <2>8, <3>2, <3>3 DEF t
    <3> QED BY <3>1, <3>4, <3>5
  <2> QED BY <2>7, <2>8
<1> HIDE DEF U
<1>19. SUBSET S \subseteq U
  BY <1>1, <1>17, <1>18, EverySubset
<1>20. Fine(S)
  BY <1>19 DEF U
<1> DEFINE last == h[S]
<1>21. last \in State /\ Alike(told, last.contents) /\ Shows(whole, last.contents)
  <2>1. last \in V
    OBVIOUS
  <2> QED BY <2>1 DEF V
<1> HIDE DEF last
<1>22. Candidates(last.contents) \subseteq S
  <2> SUFFICES ASSUME NEW x \in Candidates(last.contents) PROVE x \in S
    OBVIOUS
  <2>1. x \in Parts(told) /\ Len(last.contents) = Len(told)
    BY <1>21 DEF Candidates, Alike
  <2>2. PartAt(last.contents, x) = PartAt(told, x)
    <3>1. PartAt(last.contents, x) = PartAt(told, x) \/ PartAt(last.contents, x) = [PartAt(told, x) EXCEPT !.elided = TRUE]
      BY <1>21, <2>1 DEF Alike
    <3>2. \A part \in Part : [part EXCEPT !.elided = TRUE].elided
      BY DEF Part
    <3>3. PartAt(told, x) \in Part
      BY <1>1, <2>1, PlaceHasPart
    <3>4. ~PartAt(last.contents, x).elided
      BY DEF Candidates
    <3> QED BY <3>1, <3>2, <3>3, <3>4
  <2> QED BY <2>1, <2>2 DEF Candidates, S
<1>23. AboveTarget(last) => NoneWorth(last.contents)
  <2> HAVE AboveTarget(last)
  <2>1. \A x \in S : PartAt(last.contents, x).elided \/ ~Worth(PartAt(last.contents, x))
    BY <1>20 DEF last
  <2>2. \A x \in Candidates(last.contents) : ~PartAt(last.contents, x).elided
    BY DEF Candidates
  <2> QED BY <1>22, <2>1, <2>2 DEF NoneWorth
<1>24. ElideResponses(s) = last
  BY <1>16 DEF last
<1> QED BY <1>21, <1>23, <1>24

(* What is not worth eliding is not eligible.                              *)
LEMMA NothingToElide ==
  ASSUME NEW told \in Seq(Said), NoneWorth(told) PROVE ~\E at \in Candidates(told) : Eligible(told, at)
<1> SUFFICES ASSUME NEW at \in Candidates(told) PROVE ~Eligible(told, at)
  OBVIOUS
<1>1. at \in Parts(told) /\ PartAt(told, at).form = "response" /\ ~PartAt(told, at).elided
  BY DEF Candidates
<1>2. Reduces(told, at) <=> PartAt(told, at).bytes > Marker
  BY <1>1, ElideSaves
<1>3. ~Worth(PartAt(told, at))
  BY DEF NoneWorth
<1> QED BY <1>2, <1>3 DEF Eligible, Worth

\* A conversation and the earlier decisions that are left to reapply.
Elisions == [contents : Seq(Said), left : BagsOf(ResponseKeys)]

\* What applyStickyElisions does at one place.
StickyStep(at, s) ==
  IF PartAt(s.contents, at).name \in Preserve \/ ~BagIn(ResponseKey(PartAt(s.contents, at)), s.left)
     \/ ~Reduces(s.contents, at) THEN s
  ELSE [contents |-> Elide(s.contents, at), left |-> Without(s.left, ResponseKey(PartAt(s.contents, at)))]

(* Earlier elisions make a conversation of a conversation.                 *)
LEMMA StickyElisionsTyped ==
  ASSUME NEW whole \in Seq(Said), NEW told \in Seq(Said), Shows(whole, told), NEW bag \in BagsOf(ResponseKeys)
  PROVE  StickyElisions(told, bag) \in Seq(Said) /\ Shows(whole, StickyElisions(told, bag))
<1> DEFINE S == Candidates(told)
           base == [contents |-> told, left |-> bag]
           V == {t \in Elisions : Alike(told, t.contents) /\ Shows(whole, t.contents)}
           G == [a \in S \X V |-> StickyStep(a[1], a[2])]
           pick == [some \in SUBSET S |-> Latest(some)]
<1>1. S \subseteq Parts(told) /\ IsFiniteSet(S)
  BY CandidatesAreParts
<1>2. base \in V
  BY DEF Alike, Elisions
<1>3. ASSUME NEW x \in S, NEW t \in V PROVE StickyStep(x, t) \in V
  <2>1. t.contents \in Seq(Said) /\ t.left \in BagsOf(ResponseKeys) /\ Alike(told, t.contents) /\ x \in Parts(told)
    BY <1>1 DEF Elisions
  <2> DEFINE next == Elide(t.contents, x)
             left == Without(t.left, ResponseKey(PartAt(t.contents, x)))
  <2>2. next \in Seq(Said) /\ Alike(told, next)
    BY <2>1, ElideStaysAlike
  <2>3. left \in BagsOf(ResponseKeys)
    BY <2>1, WithoutIsBag
  <2> HIDE DEF next, left
  <2>4. CASE PartAt(t.contents, x).name \in Preserve
    BY <2>4 DEF StickyStep
  <2>5. CASE PartAt(t.contents, x).name \notin Preserve
    <3>1. Shows(whole, next)
      BY <2>1, <2>5, CandidateShows DEF next
    <3>2. [contents |-> next, left |-> left] \in V
      BY <2>2, <2>3, <3>1 DEF Elisions
    <3>3. StickyStep(x, t) = t \/ StickyStep(x, t) = [contents |-> next, left |-> left]
      BY DEF StickyStep, next, left
    <3> QED BY <3>2, <3>3
  <2> QED BY <2>4, <2>5
<1>4. \A some \in SUBSET S : some # {} => Latest(some) \in some
  BY <1>1, LatestOfPlaces
<1> HIDE DEF S, V, base
<1>5. G \in [S \X V -> V] /\ \A x \in S : \A t \in V : G[<<x, t>>] = StickyStep(x, t)
  BY <1>3
<1>6. \A some \in SUBSET S : some # {} => pick[some] \in some
  BY <1>4
<1>7. PICK h \in [SUBSET S -> V] : Folds(h, S, base, G, pick)
  <2> HIDE DEF G, pick
  <2> QED BY <1>1, <1>2, <1>5, <1>6, FoldsExist
<1>8. h[{}] = base /\ \A some \in SUBSET S : some # {} => h[some] = StickyStep(Latest(some), h[some \ {Latest(some)}])
  <2>1. h[{}] = base
    BY <1>7 DEF Folds
  <2>2. ASSUME NEW some \in SUBSET S, some # {} PROVE h[some] = StickyStep(Latest(some), h[some \ {Latest(some)}])
    <3>1. pick[some] = Latest(some) /\ Latest(some) \in some
      BY <1>4, <2>2
    <3>2. h[some] = G[<<Latest(some), h[some \ {Latest(some)}]>>]
      BY <1>7, <2>2, <3>1 DEF Folds
    <3>3. Latest(some) \in S /\ h[some \ {Latest(some)}] \in V
      BY <3>1
    <3> QED BY <1>5, <3>2, <3>3
  <2> QED BY <2>1, <2>2
<1> HIDE DEF G, pick
<1> DEFINE Adds(f) == f = [some \in SUBSET S |-> IF some = {} THEN base
                                               ELSE StickyStep(Latest(some), f[some \ {Latest(some)}])]
           iter == CHOOSE f : Adds(f)
<1>9. Adds(h)
  BY <1>8
<1>10. Adds(iter)
  BY <1>9
<1>11. StickyElisions(told, bag) = IF bag = EmptyBag THEN told ELSE iter[S].contents
  BY SMT DEF StickyElisions, OldestFirst, MapThenFoldSet, StickyStep, S, base
<1> HIDE DEF iter
<1>12. iter[{}] = base /\ \A some \in SUBSET S : some # {} => iter[some] = StickyStep(Latest(some), iter[some \ {Latest(some)}])
  BY <1>10
<1> HIDE DEF Adds
<1> DEFINE T == {some \in SUBSET S : iter[some] \in V}
<1>13. \A some \in SUBSET S : some # {} /\ (\A x \in some : some \ {x} \in T) => some \in T
  <2> TAKE some \in SUBSET S
  <2> HAVE some # {} /\ (\A x \in some : some \ {x} \in T)
  <2>1. Latest(some) \in S /\ iter[some \ {Latest(some)}] \in V
    BY <1>4
  <2>2. StickyStep(Latest(some), iter[some \ {Latest(some)}]) \in V
    BY <1>3, <2>1
  <2>3. iter[some] = StickyStep(Latest(some), iter[some \ {Latest(some)}])
    BY <1>12
  <2> QED BY <2>2, <2>3
<1>14. {} \in T
  BY <1>2, <1>12
<1> HIDE DEF T
<1>15. SUBSET S \subseteq T
  BY <1>1, <1>13, <1>14, EverySubset
<1>16. iter[S] \in V
  BY <1>15 DEF T
<1>17. iter[S].contents \in Seq(Said) /\ Shows(whole, iter[S].contents)
  BY <1>16 DEF V, Elisions
<1> QED BY <1>11, <1>17

-----------------------------------------------------------------------------
(* Dropping.                                                               *)

(* A turn that may be dropped is neither the first nor recent.             *)
LEMMA TurnIsWithin ==
  ASSUME NEW told \in Seq(Said), NEW turn \in Droppable(told)
  PROVE  /\ turn.first \in 2..Len(told) /\ turn.last \in turn.first..Len(told)
         /\ turn.last <= Len(told) - KeepRecent
<1>1. /\ turn.first \in DOMAIN told /\ turn.last \in DOMAIN told /\ turn.last >= turn.first
      /\ turn.first # 1 /\ turn.last <= Len(told) - KeepRecent
  BY DEF Droppable, CompleteTurns, Starts
<1>2. DOMAIN told = 1..Len(told)
  OBVIOUS
<1> QED BY <1>1, <1>2

(* The oldest of some turns is one of them.                                *)
LEMMA OldestIsOne ==
  ASSUME NEW told \in Seq(Said), NEW turns \in SUBSET Droppable(told), turns # {}
  PROVE  Oldest(turns) \in turns
<1> DEFINE T == {turn.first : turn \in turns}
<1>1. \A turn \in turns : turn.first \in Nat
  BY TurnIsWithin
<1>2. T \subseteq Nat /\ T # {}
  BY <1>1
<1>3. PICK m \in T : \A k \in T : m <= k
  BY <1>2, LeastNumber
<1>4. PICK turn \in turns : m = turn.first
  BY <1>3
<1>5. \A other \in turns : turn.first <= other.first
  BY <1>3, <1>4
<1> QED BY <1>4, <1>5 DEF Oldest

(* Dropping a turn leaves a shorter conversation.                          *)
LEMMA DropTyped ==
  ASSUME NEW told \in Seq(Said), NEW turn \in Droppable(told)
  PROVE  /\ Drop(told, turn) \in Seq(Said) /\ Len(Drop(told, turn)) < Len(told)
         /\ TurnKey(told, turn) \in TurnKeys
<1>1. turn.first \in 1..Len(told) /\ turn.last \in turn.first..Len(told)
  BY TurnIsWithin
<1>2. /\ Drop(told, turn) \in Seq(Said)
      /\ Len(Drop(told, turn)) = Len(told) - (turn.last - turn.first + 1)
  BY <1>1, DropLeaves
<1>3. TurnKey(told, turn) \in TurnKeys
  BY <1>1, TurnsHaveKeys
<1> QED BY <1>1, <1>2, <1>3

(* Dropping leaves nothing worth eliding when nothing was.                 *)
LEMMA DropLeavesNoneWorth ==
  ASSUME NEW told \in Seq(Said), NEW turn \in Droppable(told), NoneWorth(told)
  PROVE  NoneWorth(Drop(told, turn))
<1> DEFINE left == Drop(told, turn)
           n == turn.last - turn.first + 1
<1>1. turn.first \in 2..Len(told) /\ turn.last \in turn.first..Len(told)
  BY TurnIsWithin
<1>2. /\ left \in Seq(Said) /\ Len(left) = Len(told) - n
      /\ \A i \in 1..Len(left) : left[i] = IF i < turn.first THEN told[i] ELSE told[i + n]
  BY <1>1, DropLeaves
<1> SUFFICES ASSUME NEW at \in Candidates(left) PROVE ~Worth(PartAt(left, at))
  BY DEF NoneWorth
<1> DEFINE i == at[1]
           k == IF i < turn.first THEN i ELSE i + n
           was == <<k, at[2]>>
<1> HIDE DEF left
<1>3. at \in Parts(left) /\ i \in 2..(Len(left) - KeepRecent) /\ PartAt(left, at).form = "response" /\ ~PartAt(left, at).elided
  BY DEF Candidates
<1>4. i \in 1..Len(left) /\ at[2] \in 1..Len(left[i].parts)
  BY <1>2, <1>3, PlaceHasPart
<1>5. left[i] = told[k]
  BY <1>2, <1>4
<1>6. k \in 1..Len(told) /\ k \in 2..(Len(told) - KeepRecent)
  <2>1. n \in Nat /\ n >= 1 /\ KeepRecent \in Nat /\ Len(told) \in Nat
    BY <1>1, PolicyAssumption
  <2>2. i \in Int /\ 2 <= i /\ i <= Len(told) - n - KeepRecent
    BY <1>2, <1>3, <2>1
  <2> HIDE DEF n, i
  <2>3. turn.first \in Int
    BY <1>1
  <2> QED BY <2>1, <2>2, <2>3
<1>7. was \in Parts(told)
  BY <1>4, <1>5, <1>6, PlacesAreParts
<1>8. PartAt(told, was) = PartAt(left, at)
  BY <1>5 DEF PartAt
<1>9. was \in Candidates(told)
  <2>1. was[1] = k
    OBVIOUS
  <2> QED BY <1>3, <1>6, <1>7, <1>8, <2>1 DEF Candidates
<1> QED BY <1>8, <1>9 DEF NoneWorth

(* Dropping a turn that has its pairs leaves the others theirs.            *)
LEMMA DropKeys ==
  ASSUME NEW told \in Seq(Said), NEW left \in Seq(Said), NEW turn, turn.first \in Nat, turn.last \in Nat,
         turn.first <= turn.last, PairsContained(told, turn), NEW At, Moves(told, left, turn.first, turn.last, At),
         NEW x \in Tools(left), NEW y \in Tools(left)
  PROVE  /\ <<At[x[1]], x[2]>> \in Tools(told)
         /\ PairKey(left, x) = PairKey(left, y) <=>
              PairKey(told, <<At[x[1]], x[2]>>) = PairKey(told, <<At[y[1]], y[2]>>)
<1> DEFINE To(z) == <<At[z[1]], z[2]>>
           first == turn.first
           last == turn.last
           a == PartAt(left, x)
           b == PartAt(left, y)
           wasx == To(x)
           wasy == To(y)
<1>1. ASSUME NEW z \in Tools(left) PROVE To(z) \in Tools(told) /\ PartAt(told, To(z)) = PartAt(left, z)
  BY DEF Tools, Moves
<1>2. wasx \in Tools(told) /\ wasy \in Tools(told) /\ PartAt(told, wasx) = a /\ PartAt(told, wasy) = b
  BY <1>1
<1>3. first \in Nat /\ last \in Nat /\ first <= last /\ Moves(told, left, first, last, At)
  OBVIOUS
<1> HIDE DEF wasx, wasy
<1>4. PairKey(left, x) = PairKey(left, y) <=>
        a.id = b.id /\ (a.id = NoID => a.name = b.name /\ Ordinal(left, a.form, a.name, x) = Ordinal(left, b.form, b.name, y))
  BY SameKey
<1>5. PairKey(told, wasx) = PairKey(told, wasy) <=>
        a.id = b.id /\ (a.id = NoID => a.name = b.name /\ Ordinal(told, a.form, a.name, wasx) = Ordinal(told, b.form, b.name, wasy))
  BY <1>2, SameKey
<1>6. ASSUME a.id = NoID, b.id = NoID, a.name = b.name
      PROVE  Ordinal(left, a.form, a.name, x) = Ordinal(left, b.form, b.name, y)
               <=> Ordinal(told, a.form, a.name, wasx) = Ordinal(told, b.form, b.name, wasy)
  <2> DEFINE name == a.name
             f == a.form
             g == b.form
             ax == Ordinal(left, f, name, x)
             ay == Ordinal(left, g, name, y)
             bx == Ordinal(told, f, name, wasx)
             by == Ordinal(told, g, name, wasy)
             px == Cardinality(Preceding(told, f, name, first))
             py == Cardinality(Preceding(told, g, name, first))
             kx == Cardinality(Within(told, f, name, first, last))
             ky == Cardinality(Within(told, g, name, first, last))
  <2>1. x \in Kind(left, f, name) /\ y \in Kind(left, g, name) /\ f \in {"call", "response"} /\ g \in {"call", "response"}
    BY <1>6 DEF Tools, Kind
  <2>2. wasx = <<At[x[1]], x[2]>> /\ wasy = <<At[y[1]], y[2]>>
    BY DEF wasx, wasy
  <2> HIDE DEF a, b, f, g, name, first, last
  <2>3. /\ bx \in Nat /\ ax \in Nat /\ px \in Nat /\ kx \in Nat
        /\ (bx < px /\ ax = bx) \/ (bx >= px + kx /\ ax = bx - kx)
    BY <1>3, <2>1, <2>2, DropRenumbers
  <2>4. /\ by \in Nat /\ ay \in Nat /\ py \in Nat /\ ky \in Nat
        /\ (by < py /\ ay = by) \/ (by >= py + ky /\ ay = by - ky)
    BY <1>3, <2>1, <2>2, DropRenumbers
  <2>5. kx = ky /\ (kx > 0 => px = py)
    <3>1. LET k(form) == Cardinality(Within(told, form, name, turn.first, turn.last))
              p(form) == Cardinality(Preceding(told, form, name, turn.first)) IN
          k("call") = k("response") /\ (k("call") > 0 => p("call") = p("response"))
      BY TwinsWithin
    <3> QED BY <2>1, <3>1 DEF first, last
  <2> HIDE DEF ax, ay, bx, by, px, py, kx, ky
  <2>6. ax = ay <=> bx = by
    BY <2>3, <2>4, <2>5
  <2> QED BY <1>6, <2>6 DEF ax, ay, bx, by, f, g, name
<1> HIDE DEF a, b
<1>7. PairKey(left, x) = PairKey(left, y) <=> PairKey(told, wasx) = PairKey(told, wasy)
  BY <1>4, <1>5, <1>6
<1> QED BY <1>2, <1>7 DEF wasx, wasy

(* What is told is shown where its content is.                             *)
LEMMA ToolsShown ==
  ASSUME NEW whole \in Seq(Said), NEW shown \in Seq(Said), Likeness(whole, shown),
         NEW i \in 1..Len(shown), NEW at \in Tools(whole), shown[i].at = at[1]
  PROVE  <<i, at[2]>> \in Tools(shown) /\ Whence(shown, <<i, at[2]>>) = at
<1> DEFINE here == <<i, at[2]>>
<1>1. at \in Parts(whole) /\ at = <<at[1], at[2]>> /\ at[1] \in 1..Len(whole) /\ at[2] \in 1..Len(whole[at[1]].parts)
      /\ PartAt(whole, at) \in Part
  BY PlaceHasPart DEF Tools
<1>2. Same(whole[at[1]], shown[i])
  BY DEF Likeness
<1>3. here \in Parts(shown)
  BY <1>1, <1>2, PlacesAreParts DEF Same
<1>4. PartAt(shown, here) = PartAt(whole, at) \/ PartAt(shown, here) = [PartAt(whole, at) EXCEPT !.elided = TRUE]
  BY <1>1, <1>2 DEF Same, PartAt
<1>5. \A part \in Part : [part EXCEPT !.elided = TRUE].form = part.form
  BY DEF Part
<1>6. PartAt(shown, here).form = PartAt(whole, at).form
  BY <1>1, <1>4, <1>5
<1> QED BY <1>1, <1>3, <1>6 DEF Tools, Whence

(* Dropping a turn that may be dropped leaves every pair together.         *)
LEMMA DropPairs ==
  ASSUME NEW whole \in Seq(Said), NEW shown \in Seq(Said), Likeness(whole, shown), Pairs(whole, shown),
         NEW turn \in Droppable(shown)
  PROVE  Pairs(whole, Drop(shown, turn))
<1> DEFINE left == Drop(shown, turn)
           first == turn.first
           last == turn.last
           k == last - first + 1
           w == Len(left)
<1>1. first \in 2..Len(shown) /\ last \in first..Len(shown) /\ PairsContained(shown, turn)
  BY TurnIsWithin DEF Droppable
<1>2. first \in Nat /\ last \in Nat /\ first >= 1 /\ first <= last /\ last <= Len(shown) /\ first \in 1..Len(shown)
  BY <1>1
<1>3. /\ left \in Seq(Said) /\ w = Len(shown) - k
      /\ \A i \in 1..w : left[i] = shown[IF i < first THEN i ELSE i + k]
  <2>1. /\ left \in Seq(Said) /\ Len(left) = Len(shown) - (turn.last - turn.first + 1)
        /\ \A i \in 1..Len(left) : left[i] = IF i < turn.first THEN shown[i] ELSE shown[i + (turn.last - turn.first + 1)]
    BY <1>1, <1>2, DropLeaves
  <2> HIDE DEF left
  <2> QED BY <2>1
<1> DEFINE At == [i \in 1..w |-> IF i < first THEN i ELSE i + k]
           To(z) == <<At[z[1]], z[2]>>
<1>4. \A i \in 1..w : left[i] = shown[At[i]]
  BY <1>3
<1> HIDE DEF left
<1>5. Moves(shown, left, first, last, At)
  <2> DEFINE at == At
             size == k
             f == first
             l == last
  <2>1. \A i \in 1..Len(left) : at[i] = (IF i < f THEN i ELSE i + size) /\ left[i] = shown[at[i]]
    BY <1>4
  <2>2. size = l - f + 1 /\ Len(left) = Len(shown) - size /\ left \in Seq(Said) /\ f \in Nat /\ l \in Nat
        /\ f >= 1 /\ f <= l /\ l <= Len(shown)
    BY <1>2, <1>3
  <2> HIDE DEF at, size, f, l
  <2>3. Moves(shown, left, f, l, at)
    BY <2>1, <2>2, PlacesMove
  <2> QED BY <2>3 DEF at, f, l
<1> HIDE DEF At, k
<1>6. DOMAIN left = 1..w /\ DOMAIN shown = 1..Len(shown)
  BY <1>3
<1>7. ASSUME NEW x \in Tools(left), NEW y \in Tools(left)
      PROVE  To(x) \in Tools(shown) /\ (PairKey(left, x) = PairKey(left, y) <=> PairKey(shown, To(x)) = PairKey(shown, To(y)))
  BY <1>1, <1>2, <1>3, <1>5, DropKeys
<1>8. ASSUME NEW x \in Tools(left), NEW y \in Tools(left)
      PROVE  PairKey(left, x) = PairKey(left, y) <=> PairKey(whole, Whence(left, x)) = PairKey(whole, Whence(left, y))
  <2>1. ASSUME NEW z \in Tools(left) PROVE Whence(left, z) = Whence(shown, To(z))
    <3>1. z[1] \in 1..w
      BY <1>3, PlaceHasPart DEF Tools
    <3> QED BY <1>4, <3>1 DEF Whence
  <2>2. To(x) \in Tools(shown) /\ To(y) \in Tools(shown)
    BY <1>7
  <2>3. PairKey(shown, To(x)) = PairKey(shown, To(y))
          <=> PairKey(whole, Whence(shown, To(x))) = PairKey(whole, Whence(shown, To(y)))
    BY <2>2 DEF Pairs
  <2> QED BY <1>7, <2>1, <2>3
<1>9. ASSUME NEW x \in Tools(whole), NEW y \in Tools(whole), PairKey(whole, x) = PairKey(whole, y), x[1] \in Kept(left)
      PROVE  y[1] \in Kept(left)
  <2>1. PICK i \in 1..w : x[1] = left[i].at
    BY <1>6, <1>9 DEF Kept
  <2>2. At[i] \in 1..Len(shown) /\ (At[i] < first \/ At[i] > last) /\ shown[At[i]].at = x[1]
    BY <1>4, <1>5, <2>1 DEF Moves
  <2>3. y[1] \in Kept(shown)
    <3>1. x[1] \in Kept(shown)
      BY <1>6, <2>2 DEF Kept
    <3> QED BY <1>9, <3>1 DEF Pairs
  <2>4. PICK e \in 1..Len(shown) : shown[e].at = y[1]
    BY <1>6, <2>3 DEF Kept
  <2>5. CASE e \notin first..last
    <3>1. PICK j \in 1..w : At[j] = e
      BY <1>5, <2>5 DEF Moves
    <3>2. left[j].at = y[1]
      BY <1>4, <2>4, <3>1
    <3> QED BY <1>6, <3>2 DEF Kept
  <2>6. CASE e \in first..last
    <3> DEFINE a == <<At[i], x[2]>>
               b == <<e, y[2]>>
    <3>1. a \in Tools(shown) /\ Whence(shown, a) = x /\ b \in Tools(shown) /\ Whence(shown, b) = y
      BY <2>2, <2>4, ToolsShown
    <3>2. PairKey(shown, a) = PairKey(shown, b)
      BY <1>9, <3>1 DEF Pairs
    <3>3. b[1] \in turn.first..turn.last
      BY <2>6
    <3>4. a[1] \in turn.first..turn.last
      BY <1>1, <3>1, <3>2, <3>3, PairsAreWithin
    <3>5. At[i] \in first..last
      BY <3>4
    <3> QED BY <1>2, <2>2, <3>5
  <2> QED BY <2>5, <2>6
<1> QED BY <1>8, <1>9 DEF Pairs, left

(* Dropping a turn that may be dropped keeps what is shown: the turn is    *)
(* one of the whole conversation.                                          *)
LEMMA TurnIsWhole ==
  ASSUME NEW whole \in Seq(Said), NEW shown \in Seq(Said), Shows(whole, shown),
         NEW f \in 1..Len(shown), NEW l \in f..Len(shown), f \in Starts(shown), l + 1 \in Starts(shown),
         Starts(shown) \cap (f + 1)..l = {}
  PROVE  /\ shown[f].at \in Starts(whole) /\ shown[l].at + 1 \in Starts(whole)
         /\ shown[l + 1].at \in Starts(whole)
         /\ \A i \in f..l : shown[i].at = shown[f].at + (i - f)
         /\ Starts(whole) \cap (shown[f].at + 1)..shown[l].at = {}
<1> DEFINE n == Len(shown)
           m == Len(whole)
<1>1. Likeness(whole, shown) /\ Gaps(whole, shown)
  BY DEF Shows
<1>2. n \in Nat /\ m \in Nat /\ DOMAIN shown = 1..n /\ DOMAIN whole = 1..m /\ f \in Nat /\ l \in Nat
  OBVIOUS
<1>3. ASSUME NEW i \in 1..n PROVE shown[i].at \in 1..m /\ (i \in Starts(shown) <=> shown[i].at \in Starts(whole))
  <2>1. shown[i].at \in 1..m /\ Same(whole[shown[i].at], shown[i])
    BY <1>1 DEF Likeness
  <2>2. shown[i] \in Said /\ whole[shown[i].at] \in Said
    BY <2>1
  <2> QED BY <1>2, <2>1, <2>2, PromptsAlike DEF Starts
<1>4. l + 1 \in 1..n
  BY <1>2 DEF Starts
<1>5. ASSUME NEW i \in f..(l - 1) PROVE shown[i + 1].at = shown[i].at + 1
  <2>1. i \in 1..(n - 1) /\ i + 1 \in 1..n /\ i + 1 \in (f + 1)..l
    BY <1>2, <1>4
  <2>2. i + 1 \notin Starts(shown)
    BY <2>1
  <2>3. shown[i + 1].at \notin Starts(whole)
    BY <1>3, <2>1, <2>2
  <2> QED BY <1>1, <2>1, <2>3 DEF Gaps
<1>6. \A i \in f..l : shown[i].at = shown[f].at + (i - f)
  <2> DEFINE T == {k \in Nat : f + k <= l => shown[f + k].at = shown[f].at + k}
  <2>0. shown[f].at \in Nat
    BY <1>2, <1>3
  <2>1. 0 \in T
    BY <1>2, <2>0
  <2>2. ASSUME NEW k \in T PROVE k + 1 \in T
    <3> SUFFICES ASSUME f + (k + 1) <= l PROVE shown[f + (k + 1)].at = shown[f].at + (k + 1)
      OBVIOUS
    <3>1. shown[f + k].at = shown[f].at + k /\ f + k \in f..(l - 1) /\ (f + k) + 1 = f + (k + 1)
      BY <1>2
    <3>2. shown[(f + k) + 1].at = shown[f + k].at + 1
      BY <1>5, <3>1
    <3> DEFINE p == shown[f].at
               q == shown[f + k].at
    <3>3. p \in Nat /\ q = p + k /\ shown[f + (k + 1)].at = q + 1 /\ k \in Nat
      BY <2>0, <3>1, <3>2
    <3> HIDE DEF p, q
    <3>4. shown[f + (k + 1)].at = p + (k + 1)
      BY <3>3
    <3> QED BY <3>4 DEF p
  <2> HIDE DEF T
  <2>3. T = Nat
    <3>1. T \subseteq Nat
      BY DEF T
    <3> QED BY <2>1, <2>2, <3>1, EveryNumber
  <2> TAKE i \in f..l
  <2>4. i - f \in T /\ f + (i - f) = i /\ i <= l
    BY <1>2, <2>3
  <2> QED BY <2>4 DEF T
<1>7. shown[f].at \in Starts(whole) /\ shown[l + 1].at \in Starts(whole)
  BY <1>3, <1>4
<1>8. shown[l].at + 1 \in Starts(whole)
  <2>1. l \in 1..(n - 1)
    BY <1>2, <1>4
  <2> QED BY <1>1, <1>7, <2>1 DEF Gaps
<1>9. Starts(whole) \cap (shown[f].at + 1)..shown[l].at = {}
  <2> SUFFICES ASSUME NEW s \in Starts(whole), s \in (shown[f].at + 1)..shown[l].at PROVE FALSE
    OBVIOUS
  <2> DEFINE first == shown[f].at
             i == f + (s - first)
  <2>1. first \in Nat /\ shown[l].at = first + (l - f) /\ s \in Nat
    BY <1>2, <1>3, <1>6
  <2>2. s >= first + 1 /\ s <= first + (l - f)
    BY <2>1
  <2>3. i \in f..l /\ i \in (f + 1)..l /\ i \in 1..n /\ first + (i - f) = s
    BY <1>2, <2>1, <2>2
  <2>4. shown[i].at = s
    <3>1. shown[i].at = first + (i - f)
      BY <1>6, <2>3
    <3> QED BY <2>3, <3>1
  <2> HIDE DEF i
  <2>5. i \in Starts(shown)
    BY <1>3, <2>3, <2>4
  <2> QED BY <2>3, <2>5
<1> QED BY <1>6, <1>7, <1>8, <1>9

(* There is one turn for a content.                                        *)
LEMMA TurnsAreApart ==
  ASSUME NEW told \in Seq(Said), NEW first \in Starts(told), NEW last \in DOMAIN told, last + 1 \in Starts(told),
         Starts(told) \cap (first + 1)..last = {}, NEW d \in first..last,
         NEW turn \in CompleteTurns(told), d \in turn.first..turn.last
  PROVE  turn.first = first /\ turn.last = last
<1>1. /\ turn.first \in Starts(told) /\ turn.last \in DOMAIN told /\ turn.last + 1 \in Starts(told)
      /\ Starts(told) \cap (turn.first + 1)..turn.last = {}
  BY DEF CompleteTurns
<1>2. first \in Nat /\ last \in Nat /\ turn.first \in Nat /\ turn.last \in Nat /\ d \in Nat
  BY <1>1 DEF Starts
<1>3. first <= d /\ d <= last /\ turn.first <= d /\ d <= turn.last
  BY <1>2
<1>4. ~(first < turn.first)
  <2>1. first < turn.first => turn.first \in (first + 1)..last
    BY <1>2, <1>3
  <2> QED BY <1>1, <2>1
<1>5. ~(turn.first < first)
  <2>1. turn.first < first => first \in (turn.first + 1)..turn.last
    BY <1>2, <1>3
  <2> QED BY <1>1, <2>1
<1>6. ~(last < turn.last)
  <2>1. last < turn.last => last + 1 \in (turn.first + 1)..turn.last
    BY <1>2, <1>3
  <2> QED BY <1>1, <2>1
<1>7. ~(turn.last < last)
  <2>1. turn.last < last => turn.last + 1 \in (first + 1)..last
    BY <1>2, <1>3
  <2> QED BY <1>1, <2>1
<1> QED BY <1>2, <1>4, <1>5, <1>6, <1>7

(* Dropping a turn that may be dropped keeps what is shown.                *)
LEMMA DropShows ==
  ASSUME NEW whole \in Seq(Said), NEW shown \in Seq(Said), Shows(whole, shown), NEW turn \in Droppable(shown)
  PROVE  Shows(whole, Drop(shown, turn))
<1> DEFINE left == Drop(shown, turn)
           f == turn.first
           l == turn.last
           k == l - f + 1
           n == Len(shown)
           m == Len(whole)
           At(i) == IF i < f THEN i ELSE i + k
<1>1. f \in 2..n /\ l \in f..n /\ l <= n - KeepRecent
  BY TurnIsWithin
<1>2. f \in Starts(shown) /\ l + 1 \in Starts(shown) /\ Starts(shown) \cap (f + 1)..l = {} /\ ~PreservedTool(shown, turn)
  BY DEF Droppable, CompleteTurns
<1>3. /\ left \in Seq(Said) /\ Len(left) = n - k
      /\ \A i \in 1..(n - k) : left[i] = shown[At(i)]
  <2>1. f \in 1..Len(shown)
    BY <1>1
  <2> QED BY <1>1, <2>1, DropLeaves
<1>4. n \in Nat /\ m \in Nat /\ KeepRecent \in Nat /\ f \in Nat /\ l \in Nat /\ f >= 2 /\ f <= l /\ l + 1 <= n /\ k \in Nat /\ k >= 1
      /\ DOMAIN shown = 1..n /\ DOMAIN whole = 1..m /\ k = l - f + 1 /\ l <= n - KeepRecent
  <2>1. l + 1 \in DOMAIN shown
    BY <1>2 DEF Starts
  <2> QED BY <1>1, <2>1, PolicyAssumption
<1> HIDE DEF left, k
<1>5. Ends(whole, shown) /\ Likeness(whole, shown) /\ Ascending(shown)
      /\ Gaps(whole, shown) /\ Recent(whole, shown) /\ Omissions(whole, shown)
  BY DEF Shows
<1>6. /\ shown[f].at \in Starts(whole) /\ shown[l].at + 1 \in Starts(whole)
      /\ shown[l + 1].at \in Starts(whole)
      /\ \A i \in f..l : shown[i].at = shown[f].at + (i - f)
      /\ Starts(whole) \cap (shown[f].at + 1)..shown[l].at = {}
  <2>1. f \in 1..Len(shown)
    BY <1>1
  <2> QED BY <1>1, <1>2, <2>1, TurnIsWhole
<1> DEFINE w == n - k
<1>0. /\ w = n - k /\ w \in Nat /\ Len(left) = w /\ n = Len(shown) /\ m = Len(whole)
      /\ f = turn.first /\ l = turn.last
  BY <1>3, <1>4
<1>w. w = n - k /\ w \in Nat
  BY <1>0
<1> HIDE DEF f, l, n, m, w
<1>7. \A i \in 1..w : At(i) \in 1..n /\ (At(i) < f \/ At(i) > l)
  BY <1>w, <1>4
<1>8. \A i, j \in 1..w : i < j => At(i) < At(j)
  BY <1>0, <1>4
<1>9. Ends(whole, left)
  <2>1. w >= 1 /\ At(1) = 1 /\ At(w) = n /\ 1 \in 1..w /\ w \in 1..w
    BY <1>w, <1>4
  <2> QED BY <1>0, <1>3, <1>5, <2>1 DEF Ends
<1>10. Likeness(whole, left)
  BY <1>0, <1>3, <1>5, <1>7 DEF Likeness
<1>11. Ascending(left)
  BY <1>0, <1>3, <1>5, <1>7, <1>8 DEF Ascending
<1>12. Gaps(whole, left)
  <2> SUFFICES ASSUME NEW i \in 1..(w - 1)
               PROVE  \/ left[i + 1].at = left[i].at + 1
                      \/ left[i].at + 1 \in Starts(whole) /\ left[i + 1].at \in Starts(whole)
    BY <1>0, <1>3 DEF Gaps
  <2>1. i \in 1..w /\ i + 1 \in 1..w
    BY <1>w, <1>4
  <2>2. left[i] = shown[At(i)] /\ left[i + 1] = shown[At(i + 1)]
    BY <1>0, <1>3, <2>1
  <2>3. CASE i = f - 1
    <3>1. At(i) = f - 1 /\ At(i + 1) = l + 1 /\ f - 1 \in 1..(n - 1) /\ (f - 1) + 1 = f
      BY <1>w, <1>4, <2>3
    <3>2. shown[f].at = shown[f - 1].at + 1 \/ shown[f - 1].at + 1 \in Starts(whole)
      BY <1>0, <1>5, <3>1 DEF Gaps
    <3> QED BY <1>0, <1>6, <2>2, <3>1, <3>2
  <2>4. CASE i # f - 1
    <3>1. At(i + 1) = At(i) + 1 /\ At(i) \in 1..(n - 1)
      BY <1>w, <1>4, <2>1, <2>4
    <3> QED BY <1>0, <1>5, <2>2, <3>1 DEF Gaps
  <2> QED BY <1>0, <2>3, <2>4
<1>13. Recent(whole, left)
  <2> SUFFICES ASSUME NEW r \in 1..m, r > m - KeepRecent
               PROVE  w - (m - r) >= 1 /\ left[w - (m - r)].at = r
    BY <1>0, <1>3 DEF Recent
  <2>1. n - (m - r) >= 1 /\ shown[n - (m - r)].at = r
    BY <1>0, <1>5 DEF Recent
  <2>2. w - (m - r) \in 1..w /\ w - (m - r) >= f /\ (w - (m - r)) + k = n - (m - r)
    BY <1>w, <1>1, <1>4
  <2>3. left[w - (m - r)] = shown[n - (m - r)]
    BY <1>w, <1>3, <1>4, <2>2
  <2> QED BY <1>0, <2>1, <2>2, <2>3
<1>14. Omissions(whole, left)
  <2> SUFFICES ASSUME NEW d \in 1..m, d \notin Kept(left) PROVE Omissible(whole, d)
    BY <1>0 DEF Omissions
  <2>1. CASE d \notin Kept(shown)
    BY <1>0, <1>5, <2>1 DEF Omissions
  <2>2. CASE d \in Kept(shown)
    <3>1. PICK i \in 1..n : d = shown[i].at
      BY <1>0, <1>4, <2>2 DEF Kept
    <3>2. i \in f..l
      <4> SUFFICES ASSUME i < f \/ i > l PROVE FALSE
        BY <1>0, <1>4
      <4> DEFINE j == IF i < f THEN i ELSE i - k
      <4>1. j \in 1..w /\ At(j) = i
        BY <1>w, <1>4
      <4>2. left[j].at = d
        BY <1>0, <1>3, <3>1, <4>1
      <4>3. DOMAIN left = 1..w
        BY <1>0, <1>3
      <4> QED BY <1>0, <4>1, <4>2, <4>3 DEF Kept
    <3> DEFINE first == shown[f].at
               last == shown[l].at
    <3>3. first \in 1..m /\ last \in 1..m /\ last = first + (l - f) /\ d = first + (i - f)
      <4>1. f \in 1..n /\ l \in 1..n /\ l \in f..l
        BY <1>w, <1>4
      <4> QED BY <1>0, <1>5, <1>6, <3>1, <3>2, <4>1 DEF Likeness
    <3>4. d \in first..last /\ d < last + 1
      BY <1>w, <1>4, <3>2, <3>3
    <3>5. first \in Starts(whole) /\ last \in DOMAIN whole /\ last + 1 \in Starts(whole)
          /\ Starts(whole) \cap (first + 1)..last = {}
      BY <1>0, <1>4, <1>6, <3>3
    <3> HIDE DEF first, last
    <3>6. ASSUME NEW whose \in CompleteTurns(whole), d \in whose.first..whose.last, PreservedTool(whole, whose) PROVE FALSE
      <4>1. whose.first = first /\ whose.last = last
        BY <1>0, <3>4, <3>5, <3>6, TurnsAreApart
      <4>2. PICK at \in Parts(whole) : /\ at[1] \in first..last /\ PartAt(whole, at).form # "text"
                                       /\ PartAt(whole, at).name \in Preserve
        BY <1>0, <3>6, <4>1 DEF PreservedTool
      <4> DEFINE y == f + (at[1] - first)
                 z == at[2]
                 here == <<y, z>>
      <4>3. at[1] \in 1..m /\ z \in 1..Len(whole[at[1]].parts) /\ PartAt(whole, at) = whole[at[1]].parts[z] /\ PartAt(whole, at) \in Part
        BY <1>0, PlaceHasPart DEF PartAt
      <4>4. y \in f..l /\ y \in 1..n /\ first + (y - f) = at[1]
        <5> DEFINE e == at[1]
        <5>1. e \in first..last /\ e \in 1..m /\ first \in 1..m /\ last = first + (l - f) /\ y = f + (e - first)
          BY <3>3, <4>2, <4>3
        <5>2. first \in Nat /\ e \in Nat /\ first <= e /\ e <= first + (l - f)
          BY <1>4, <5>1
        <5> HIDE DEF e, y
        <5>3. y \in f..l /\ y \in 1..n /\ first + (y - f) = e
          BY <1>4, <5>1, <5>2
        <5> QED BY <5>3 DEF e
      <4>5. shown[y].at = at[1]
        <5>1. shown[y].at = first + (y - f)
          BY <1>0, <1>6, <4>4 DEF first
        <5> QED BY <1>0, <4>4, <5>1
      <4>6. Same(whole[at[1]], shown[y])
        BY <1>0, <1>5, <4>4, <4>5 DEF Likeness
      <4> HIDE DEF y, z
      <4>7. here \in Parts(shown) /\ here[1] = y /\ PartAt(shown, here) = shown[y].parts[z]
        <5>1. z \in 1..Len(shown[y].parts)
          BY <1>0, <4>3, <4>6 DEF Same
        <5> QED BY <1>0, <4>4, <5>1, PlacesAreParts DEF PartAt
      <4>8. PartAt(shown, here).form # "text" /\ PartAt(shown, here).name \in Preserve
        <5>1. \A part \in Part : /\ [part EXCEPT !.elided = TRUE].form = part.form
                                 /\ [part EXCEPT !.elided = TRUE].name = part.name
          BY <1>0 DEF Part
        <5>2. \/ PartAt(shown, here) = PartAt(whole, at)
              \/ PartAt(shown, here) = [PartAt(whole, at) EXCEPT !.elided = TRUE]
          BY <1>0, <4>3, <4>6, <4>7 DEF Same
        <5> QED BY <1>0, <4>2, <4>3, <5>1, <5>2
      <4>9. PreservedTool(shown, turn)
        BY <1>0, <4>4, <4>7, <4>8 DEF PreservedTool
      <4> QED BY <1>0, <1>2, <4>9
    <3> QED BY <1>0, <3>4, <3>5, <3>6 DEF Omissible
  <2> QED BY <1>0, <2>1, <2>2
<1>15. Pairs(whole, left)
  <2>1. Likeness(whole, shown) /\ Pairs(whole, shown)
    BY DEF Shows
  <2> QED BY <2>1, DropPairs DEF left
<1> QED BY <1>0, <1>9, <1>10, <1>11, <1>12, <1>13, <1>14, <1>15 DEF Shows, left

\* The same for drops, and the turns that one of them knows.
Drops == [contents : Seq(Said), left : BagsOf(TurnKeys)]
Known(s) == {turn \in Droppable(s.contents) : BagIn(TurnKey(s.contents, turn), s.left)}
One(some) == CHOOSE x \in some : TRUE

\* What applyStickyDrops does in one round.
StickyRound(s) ==
  IF Known(s) = {} THEN s
  ELSE [contents |-> Drop(s.contents, Oldest(Known(s))),
        left |-> Without(s.left, TurnKey(s.contents, Oldest(Known(s))))]

(* Earlier drops make a conversation of a conversation.                    *)
LEMMA StickyDropsTyped ==
  ASSUME NEW whole \in Seq(Said), NEW told \in Seq(Said), Shows(whole, told), NEW bag \in BagsOf(TurnKeys)
  PROVE  StickyDrops(told, bag) \in Seq(Said) /\ Shows(whole, StickyDrops(told, bag))
<1> DEFINE S == DOMAIN told
           base == [contents |-> told, left |-> bag]
           V == {t \in Drops : Shows(whole, t.contents)}
           G == [a \in S \X V |-> StickyRound(a[2])]
           pick == [some \in SUBSET S |-> One(some)]
<1>1. IsFiniteSet(S)
  <2>1. DOMAIN told = 1..Len(told) /\ Len(told) \in Nat
    OBVIOUS
  <2> QED BY <2>1, FS_Interval
<1>2. base \in V
  BY DEF Drops
<1>3. ASSUME NEW t \in V PROVE StickyRound(t) \in V
  <2>1. t.contents \in Seq(Said) /\ t.left \in BagsOf(TurnKeys)
    BY DEF Drops
  <2>2. CASE Known(t) = {}
    BY <2>2, SMT DEF StickyRound
  <2>3. CASE Known(t) # {}
    <3> DEFINE turn == Oldest(Known(t))
               next == Drop(t.contents, turn)
               left == Without(t.left, TurnKey(t.contents, turn))
    <3>1. turn \in Droppable(t.contents)
      BY <2>1, <2>3, OldestIsOne DEF Known
    <3>2. next \in Seq(Said) /\ Shows(whole, next)
      BY <2>1, <3>1, DropTyped, DropShows
    <3>3. left \in BagsOf(TurnKeys)
      BY <2>1, WithoutIsBag
    <3>4. StickyRound(t) = [contents |-> next, left |-> left]
      BY <2>3, SMT DEF StickyRound
    <3> HIDE DEF next, left
    <3> QED BY <3>2, <3>3, <3>4 DEF Drops
  <2> QED BY <2>2, <2>3
<1>4. \A some \in SUBSET S : some # {} => One(some) \in some
  BY DEF One
<1> HIDE DEF S, V, base
<1>5. G \in [S \X V -> V] /\ \A x \in S : \A t \in V : G[<<x, t>>] = StickyRound(t)
  BY <1>3
<1>6. \A some \in SUBSET S : some # {} => pick[some] \in some
  BY <1>4
<1>7. PICK h \in [SUBSET S -> V] : Folds(h, S, base, G, pick)
  <2> HIDE DEF G, pick
  <2> QED BY <1>1, <1>2, <1>5, <1>6, FoldsExist
<1>8. h[{}] = base /\ \A some \in SUBSET S : some # {} => h[some] = StickyRound(h[some \ {One(some)}])
  <2>1. h[{}] = base
    BY <1>7 DEF Folds
  <2>2. ASSUME NEW some \in SUBSET S, some # {} PROVE h[some] = StickyRound(h[some \ {One(some)}])
    <3>1. pick[some] = One(some) /\ One(some) \in some
      BY <1>4, <2>2
    <3>2. h[some] = G[<<One(some), h[some \ {One(some)}]>>]
      BY <1>7, <2>2, <3>1 DEF Folds
    <3>3. One(some) \in S /\ h[some \ {One(some)}] \in V
      BY <3>1
    <3> QED BY <1>5, <3>2, <3>3
  <2> QED BY <2>1, <2>2
<1> HIDE DEF G, pick
<1> DEFINE Adds(f) == f = [some \in SUBSET S |-> IF some = {} THEN base
                                               ELSE StickyRound(f[some \ {One(some)}])]
           iter == CHOOSE f : Adds(f)
<1>9. Adds(h)
  BY <1>8
<1>10. Adds(iter)
  BY <1>9
<1>11. StickyDrops(told, bag) = IF bag = EmptyBag THEN told ELSE iter[S].contents
  BY SMT DEF StickyDrops, FoldSet, MapThenFoldSet, StickyRound, Known, One, S, base
<1> HIDE DEF iter
<1>12. iter[{}] = base /\ \A some \in SUBSET S : some # {} => iter[some] = StickyRound(iter[some \ {One(some)}])
  BY <1>10
<1> HIDE DEF Adds
<1> DEFINE T == {some \in SUBSET S : iter[some] \in V}
<1>13. \A some \in SUBSET S : some # {} /\ (\A x \in some : some \ {x} \in T) => some \in T
  <2> TAKE some \in SUBSET S
  <2> HAVE some # {} /\ (\A x \in some : some \ {x} \in T)
  <2>1. iter[some \ {One(some)}] \in V
    BY <1>4
  <2>2. StickyRound(iter[some \ {One(some)}]) \in V
    BY <1>3, <2>1
  <2>3. iter[some] = StickyRound(iter[some \ {One(some)}])
    BY <1>12
  <2> QED BY <2>2, <2>3
<1>14. {} \in T
  BY <1>2, <1>12
<1> HIDE DEF T
<1>15. SUBSET S \subseteq T
  BY <1>1, <1>13, <1>14, EverySubset
<1>16. iter[S] \in V
  BY <1>15 DEF T
<1>17. iter[S].contents \in Seq(Said) /\ Shows(whole, iter[S].contents)
  BY <1>16 DEF V, Drops
<1> QED BY <1>11, <1>17

\* What dropCompleteTurns does in one round.
DropRound(t) ==
  IF AboveTarget(t) /\ Droppable(t.contents) # {}
  THEN [contents |-> Drop(t.contents, Oldest(Droppable(t.contents))),
        durable |-> [t.durable EXCEPT !.dropped = With(@, TurnKey(t.contents, Oldest(Droppable(t.contents))))]]
  ELSE t

(* dropCompleteTurns leaves no turn that may be dropped or reaches the     *)
(* target, and leaves nothing worth eliding when nothing was.              *)
LEMMA DropsAll ==
  ASSUME NEW whole \in Seq(Said), NEW s \in State, Shows(whole, s.contents),
         AboveTarget(s) => NoneWorth(s.contents)
  PROVE  LET r == DropCompleteTurns(s) IN
         /\ r \in State /\ Shows(whole, r.contents)
         /\ AboveTarget(r) => NoneWorth(r.contents) /\ Droppable(r.contents) = {}
<1> DEFINE S == DOMAIN s.contents
           V == {t \in State : Shows(whole, t.contents) /\ (AboveTarget(t) => NoneWorth(t.contents))}
           G == [a \in S \X V |-> DropRound(a[2])]
           pick == [some \in SUBSET S |-> One(some)]
<1>0. s.contents \in Seq(Said)
  BY DEF State
<1>1. IsFiniteSet(S) /\ Len(s.contents) \in Nat /\ Cardinality(S) = Len(s.contents)
  <2>1. DOMAIN s.contents = 1..Len(s.contents) /\ Len(s.contents) \in Nat
    BY <1>0
  <2>2. \A n \in Nat : IsFiniteSet(1..n) /\ Cardinality(1..n) = n
    BY FS_Interval
  <2> QED BY <2>1, <2>2
<1>2. s \in V
  OBVIOUS
<1>3. ASSUME NEW t \in V
      PROVE  /\ DropRound(t) \in V
             /\ Len(DropRound(t).contents) < Len(t.contents) \/ DropRound(t) = t
             /\ AboveTarget(t) /\ Droppable(t.contents) # {} => Len(DropRound(t).contents) < Len(t.contents)
  <2>1. t.contents \in Seq(Said) /\ t.durable \in Decided
    BY DEF State
  <2>2. CASE ~(AboveTarget(t) /\ Droppable(t.contents) # {})
    BY <2>2, SMT DEF DropRound
  <2>3. CASE AboveTarget(t) /\ Droppable(t.contents) # {}
    <3> DEFINE turn == Oldest(Droppable(t.contents))
               next == Drop(t.contents, turn)
               key == TurnKey(t.contents, turn)
               after == [t.durable EXCEPT !.dropped = With(@, key)]
    <3>1. turn \in Droppable(t.contents)
      BY <2>1, <2>3, OldestIsOne
    <3>2. next \in Seq(Said) /\ Len(next) < Len(t.contents) /\ key \in TurnKeys
      BY <2>1, <3>1, DropTyped
    <3>3. NoneWorth(next) /\ Shows(whole, next)
      BY <2>1, <2>3, <3>1, DropLeavesNoneWorth, DropShows
    <3> HIDE DEF key
    <3>4. With(t.durable.dropped, key) \in BagsOf(TurnKeys)
      BY <2>1, <3>2, WithIsBag DEF Decided
    <3>5. after \in Decided
      BY <2>1, <3>4 DEF Decided
    <3>6. DropRound(t) = [contents |-> next, durable |-> after]
      BY <2>3, SMT DEF DropRound, key
    <3> HIDE DEF next, after
    <3>7. DropRound(t) \in State /\ DropRound(t).contents = next
      BY <3>2, <3>5, <3>6 DEF State
    <3> QED BY <3>2, <3>3, <3>7
  <2> QED BY <2>2, <2>3
<1>4. \A some \in SUBSET S : some # {} => One(some) \in some
  BY DEF One
<1> HIDE DEF S, V
<1>5. G \in [S \X V -> V] /\ \A x \in S : \A t \in V : G[<<x, t>>] = DropRound(t)
  BY <1>3
<1>6. \A some \in SUBSET S : some # {} => pick[some] \in some
  BY <1>4
<1>7. PICK h \in [SUBSET S -> V] : Folds(h, S, s, G, pick)
  <2> HIDE DEF G, pick
  <2> QED BY <1>1, <1>2, <1>5, <1>6, FoldsExist
<1>8. h[{}] = s /\ \A some \in SUBSET S : some # {} => h[some] = DropRound(h[some \ {One(some)}])
  <2>1. h[{}] = s
    BY <1>7 DEF Folds
  <2>2. ASSUME NEW some \in SUBSET S, some # {} PROVE h[some] = DropRound(h[some \ {One(some)}])
    <3>1. pick[some] = One(some) /\ One(some) \in some
      BY <1>4, <2>2
    <3>2. h[some] = G[<<One(some), h[some \ {One(some)}]>>]
      BY <1>7, <2>2, <3>1 DEF Folds
    <3>3. One(some) \in S /\ h[some \ {One(some)}] \in V
      BY <3>1
    <3> QED BY <1>5, <3>2, <3>3
  <2> QED BY <2>1, <2>2
<1> HIDE DEF G, pick
<1> DEFINE Adds(f) == f = [some \in SUBSET S |-> IF some = {} THEN s ELSE DropRound(f[some \ {One(some)}])]
           iter == CHOOSE f : Adds(f)
<1>9. Adds(h)
  BY <1>8
<1>10. Adds(iter)
  BY <1>9
<1>11. DropCompleteTurns(s) = iter[S]
  BY SMT DEF DropCompleteTurns, FoldSet, MapThenFoldSet, DropRound, One, S
<1> HIDE DEF iter
<1>12. iter[{}] = s /\ \A some \in SUBSET S : some # {} => iter[some] = DropRound(iter[some \ {One(some)}])
  BY <1>10
<1> HIDE DEF Adds
<1> DEFINE Open(t) == AboveTarget(t) /\ Droppable(t.contents) # {}
           Fine(some, t) == t \in V /\ (Open(t) => Len(t.contents) + Cardinality(some) <= Len(s.contents))
           T == {some \in SUBSET S : Fine(some, iter[some])}
<1>13. ASSUME NEW some \in SUBSET S, some # {}, \A x \in some : some \ {x} \in T PROVE some \in T
  <2> DEFINE less == some \ {One(some)}
             t == iter[less]
             n == Cardinality(less)
             before == Len(t.contents)
             after == Len(DropRound(t).contents)
  <2>1. Fine(less, t)
    BY <1>4, <1>13
  <2>2. iter[some] = DropRound(t)
    BY <1>12, <1>13
  <2>3. Cardinality(some) = n + 1 /\ n \in Nat
    <3>1. IsFiniteSet(some) /\ One(some) \in some
      BY <1>1, <1>4, <1>13, FS_Subset
    <3>2. IsFiniteSet(less) /\ Cardinality(less) = Cardinality(some) - 1
      BY <3>1, FS_RemoveElement
    <3>3. Cardinality(some) \in Nat /\ Cardinality(less) \in Nat
      BY <3>1, <3>2, FS_CardinalityType
    <3> HIDE DEF less
    <3> QED BY <3>2, <3>3
  <2>4. DropRound(t) \in V /\ (after < before \/ DropRound(t) = t) /\ (Open(t) => after < before)
    BY <1>3, <2>1
  <2>5. before \in Nat /\ after \in Nat
    <3>1. \A v \in V : Len(v.contents) \in Nat
      BY DEF V, State
    <3> QED BY <2>1, <2>4, <3>1
  <2>6. Open(DropRound(t)) => Open(t)
    <3>1. CASE DropRound(t) = t
      BY <3>1
    <3>2. CASE ~Open(t)
      <4>1. DropRound(t) = t
        BY <3>2 DEF DropRound
      <4> QED BY <3>1, <4>1
    <3> QED BY <3>1, <3>2
  <2>7. Open(DropRound(t)) => after + Cardinality(some) <= Len(s.contents)
    <3> HAVE Open(DropRound(t))
    <3>1. after < before /\ before + n <= Len(s.contents)
      BY <2>1, <2>4, <2>6
    <3> HIDE DEF before, after, n
    <3> QED BY <1>1, <2>3, <2>5, <3>1
  <2>8. Fine(some, iter[some])
    BY <2>2, <2>4, <2>7
  <2> QED BY <2>8
<1>14. {} \in T
  <2>1. Cardinality({}) = 0
    BY FS_EmptySet
  <2> QED BY <1>1, <1>2, <1>12, <2>1
<1> HIDE DEF T
<1>15. SUBSET S \subseteq T
  BY <1>1, <1>13, <1>14, EverySubset
<1>16. Fine(S, iter[S])
  BY <1>15 DEF T
<1> DEFINE r == iter[S]
<1>17. r \in State /\ Shows(whole, r.contents) /\ (AboveTarget(r) => NoneWorth(r.contents))
  BY <1>16 DEF V
<1>18. ~Open(r)
  <2> SUFFICES ASSUME Open(r) PROVE FALSE
    OBVIOUS
  <2> HIDE DEF r
  <2>1. r.contents \in Seq(Said) /\ Len(r.contents) \in Nat
    BY <1>17 DEF State
  <2>2. Len(r.contents) + Cardinality(S) <= Len(s.contents)
    BY <1>16 DEF r
  <2>3. Len(r.contents) = 0
    <3> DEFINE before == Len(s.contents)
               after == Len(r.contents)
    <3>1. before \in Nat /\ after \in Nat /\ after + before <= before
      BY <1>1, <2>1, <2>2
    <3> HIDE DEF before, after
    <3>2. after = 0
      BY <3>1
    <3> QED BY <3>2 DEF after
  <2>4. PICK turn \in Droppable(r.contents) : TRUE
    OBVIOUS
  <2>5. turn.first \in 2..Len(r.contents)
    BY <2>1, TurnIsWithin
  <2> QED BY <2>3, <2>5
<1> QED BY <1>11, <1>17, <1>18

-----------------------------------------------------------------------------
(* The policy.                                                             *)

(* The size of a conversation, calibrated or not, is a number.             *)
LEMMA FactorsAreNumbers ==
  ASSUME NEW s \in State
  PROVE  /\ Factor(s.durable) \in Nat /\ Tokens(s.contents) \in Nat
         /\ Calibrated(Tokens(s.contents), Factor(s.durable)) \in Nat
<1>1. Factor(s.durable) \in Nat
  <2>1. s.durable.calibration \in 50..200
    BY DEF State, Decided
  <2>2. s.durable.calibration \in Nat
    BY <2>1
  <2> QED BY <2>2 DEF Factor
<1>2. Tokens(s.contents) \in Nat
  BY TokensAdd DEF State
<1>3. \A m, n \in Nat : m * n \in Nat
  OBVIOUS
<1>4. \A m \in Nat : (m + 99) \div 100 \in Nat
  OBVIOUS
<1> QED BY <1>1, <1>2, <1>3, <1>4 DEF Calibrated

(* What the policy makes of a conversation and the earlier decisions.      *)
LEMMA PolicyDecides ==
  ASSUME NEW decided \in Decided, NEW told \in Seq(Said), Told(told), Len(told) >= 1,
         NEW r, r = ApplyPolicy(decided, told)
  PROVE  /\ Shows(told, r.contents)
         /\ [contents |-> r.contents, durable |-> r.durable] \in State
         /\ r.triggered \in BOOLEAN /\ r.exhausted \in BOOLEAN
         /\ r.triggered \/ ~r.exhausted
         /\ AboveTarget(r) /\ r.triggered => NoneWorth(r.contents) /\ Droppable(r.contents) = {}
         /\ ~r.triggered => r.durable = decided /\ ~Triggered(r)
<1> DEFINE kept == StickyDrops(told, decided.dropped)
           shown == StickyElisions(kept, decided.elided)
           s == [contents |-> shown, durable |-> decided]
<1>1. kept \in Seq(Said) /\ Shows(told, kept)
  BY ShowsItself, StickyDropsTyped DEF Decided
<1>2. shown \in Seq(Said) /\ Shows(told, shown)
  BY <1>1, StickyElisionsTyped DEF Decided
<1>3. r = Decide(s)
  BY DEF ApplyPolicy
<1> HIDE DEF kept, shown
<1>4. s \in State /\ s.contents = shown /\ s.durable = decided
  BY <1>2 DEF State
<1> HIDE DEF s
<1>5. CASE ~Triggered(s)
  <2>1. r = [contents |-> shown, durable |-> decided, triggered |-> FALSE, exhausted |-> FALSE]
    BY <1>3, <1>4, <1>5 DEF Decide, Result
  <2>2. Triggered(r) <=> Triggered(s)
    BY <1>4, <2>1 DEF Triggered
  <2> QED BY <1>2, <1>5, <2>1, <2>2 DEF State
<1>6. CASE Triggered(s)
  <2> DEFINE e == ElideResponses(s)
             d == DropCompleteTurns(e)
  <2>1. e \in State /\ Shows(told, e.contents) /\ (AboveTarget(e) => NoneWorth(e.contents))
    BY <1>2, <1>4, ElidesAll
  <2>2. d \in State /\ Shows(told, d.contents) /\ (AboveTarget(d) => NoneWorth(d.contents) /\ Droppable(d.contents) = {})
    BY <2>1, DropsAll
  <2> HIDE DEF e, d
  <2>3. r = Result(d, TRUE)
    BY <1>3, <1>6 DEF Decide, e, d
  <2>4. r.contents = d.contents /\ r.durable = d.durable /\ r.triggered = TRUE /\ r.exhausted \in BOOLEAN
    BY <2>3 DEF Result
  <2>5. AboveTarget(r) <=> AboveTarget(d)
    BY <2>4 DEF AboveTarget
  <2>6. [contents |-> r.contents, durable |-> r.durable] \in State
    BY <2>2, <2>4 DEF State
  <2> QED BY <2>2, <2>4, <2>5, <2>6
<1> QED BY <1>5, <1>6

-----------------------------------------------------------------------------
(* The runs of a session.                                                  *)

\* A call and what a run does next.
CallState == [id : IDs, name : Names, stage : {"asked", "running", "done"}, reservation : Nat, bytes : Nat]
Phases == {"idle", "before", "model", "answered", "tools"}

\* Every call that runs has a reservation of its own or none.
Reservations ==
  /\ \A i \in DOMAIN calls : /\ calls[i].reservation <= nextID
                             /\ calls[i].stage # "running" => calls[i].reservation = NoReservation
  /\ \A i, j \in DOMAIN calls :
       calls[i].reservation = calls[j].reservation /\ calls[i].reservation # NoReservation => i = j
  /\ DOMAIN pending = {calls[i].reservation : i \in DOMAIN calls} \ {NoReservation}

Grants == IsFiniteSet(DOMAIN pending) /\ reserved = Sum(pending)

\* A request is made of a conversation that has begun, and shows it until the model answers.
Requests ==
  /\ Told(contents) /\ (phase = "before" => Len(contents) >= 1)
  /\ phase = "model" => request \in Seq(Said) /\ Shows(contents, request)

\* A part is said with its whole body.
Fresh == {part \in Part : part.elided = FALSE}

\* What the Manager remembers of the session.
Remembered == sidecar \in Decided /\ durable \in Decided /\ loaded \in BOOLEAN /\ estimate \in Nat

\* The inductive invariant.
ConversationInv ==
  /\ contents \in Seq(Said) /\ Remembered /\ Requests
  /\ phase \in Phases /\ calls \in Seq(CallState) /\ (phase # "tools" => calls = <<>>)
  /\ Reservations /\ Grants /\ BudgetInv

(* A session without decisions is well formed.                             *)
LEMMA NothingDecided == NoDecisions \in Decided
<1>1. EmptyBag \in BagsOf(ResponseKeys) /\ EmptyBag \in BagsOf(TurnKeys)
  BY EmptyIsBag
<1>2. 100 \in 50..200
  OBVIOUS
<1> QED BY <1>1, <1>2 DEF NoDecisions, Decided

(* What a prompt, a call and a response add to a conversation are parts.   *)
LEMMA PartsSaid ==
  ASSUME NEW id \in IDs, NEW name \in Names, NEW bytes \in Nat
  PROVE  Text(bytes) \in Fresh /\ Call(id, name, "object") \in Fresh /\ Response(id, name, bytes) \in Fresh
<1>1. NoID \in IDs /\ Empty \in Names
  BY DEF NoID, IDs, Names
<1>2. NoPart \in Fresh
  BY <1>1 DEF NoPart, Fresh, Part, Arguments
<1>3. Text(bytes) \in Fresh
  BY <1>2 DEF Text, Fresh, Part
<1>4. \A part \in Fresh : [part EXCEPT !.id = id] \in Fresh
  BY DEF Fresh, Part
<1>5. \A part \in Fresh : [part EXCEPT !.name = name] \in Fresh
  BY DEF Fresh, Part
<1>6. \A part \in Fresh : [part EXCEPT !.bytes = bytes] \in Fresh
  BY DEF Fresh, Part
<1>7. \A part \in Fresh : [part EXCEPT !.args = "object"] \in Fresh
  BY DEF Fresh, Part, Arguments
<1>8. Call(id, name, "object") \in Fresh
  <2> DEFINE a == [NoPart EXCEPT !.form = "call"]
             b == [a EXCEPT !.id = id]
             c == [b EXCEPT !.name = name]
  <2>1. a \in Fresh
    BY <1>2 DEF Fresh, Part
  <2>2. Call(id, name, "object") = [c EXCEPT !.args = "object"]
    BY <1>2 DEF Call, Fresh, Part
  <2> HIDE DEF a
  <2>3. b \in Fresh
    BY <1>4, <2>1
  <2> HIDE DEF b
  <2>4. c \in Fresh
    BY <1>5, <2>3
  <2> HIDE DEF c
  <2> QED BY <1>7, <2>2, <2>4
<1>9. Response(id, name, bytes) \in Fresh
  <2> DEFINE a == [NoPart EXCEPT !.form = "response"]
             b == [a EXCEPT !.id = id]
             c == [b EXCEPT !.name = name]
  <2>1. a \in Fresh
    BY <1>2 DEF Fresh, Part
  <2>2. Response(id, name, bytes) = [c EXCEPT !.bytes = bytes]
    BY <1>2 DEF Response, Fresh, Part
  <2> HIDE DEF a
  <2>3. b \in Fresh
    BY <1>4, <2>1
  <2> HIDE DEF b
  <2>4. c \in Fresh
    BY <1>5, <2>3
  <2> HIDE DEF c
  <2> QED BY <1>6, <2>2, <2>4
<1> QED BY <1>3, <1>8, <1>9

(* A content is added.                                                     *)
LEMMA SaidOne ==
  ASSUME contents \in Seq(Said), Told(contents), NEW role \in Roles, NEW parts \in Seq(Fresh), Say1(role, parts)
  PROVE  contents' \in Seq(Said) /\ Told(contents)' /\ Len(contents') >= 1
<1> DEFINE n == Len(contents)
           one == [role |-> role, parts |-> parts, at |-> n + 1]
<1>1. \A j \in 1..Len(parts) : parts[j] \in Part /\ parts[j].elided = FALSE
  <2>1. \A j \in 1..Len(parts) : parts[j] \in Fresh
    OBVIOUS
  <2> QED BY <2>1 DEF Fresh
<1>2. parts \in Seq(Part)
  BY <1>1
<1>3. one \in Said
  BY <1>2 DEF Said
<1>4. contents' = Append(contents, one)
  BY DEF Say1
<1>5. one.at = n + 1 /\ one.parts = parts
  OBVIOUS
<1> HIDE DEF one
<1>6. Len(contents') = n + 1 /\ n \in Nat /\ contents'[n + 1] = one /\ \A i \in 1..n : contents'[i] = contents[i]
  BY <1>3, <1>4
<1>7. contents' \in Seq(Said)
  BY <1>3, <1>4
<1>8. ASSUME NEW i \in 1..(n + 1)
      PROVE  /\ contents'[i].at = i
             /\ \A j \in 1..Len(contents'[i].parts) : contents'[i].parts[j].elided = FALSE
  <2>1. CASE i = n + 1
    BY <1>1, <1>5, <1>6, <2>1
  <2>2. CASE i # n + 1
    <3>1. i \in 1..n
      BY <1>6, <2>2
    <3> QED BY <1>6, <3>1 DEF Told
  <2> QED BY <2>1, <2>2
<1>9. Told(contents)'
  BY <1>6, <1>8 DEF Told
<1> QED BY <1>6, <1>7, <1>9

(* The decisions stay well formed.                                         *)
LEMMA DecisionsTyped ==
  ASSUME Remembered, NEW readable PROVE Decisions(readable) \in Decided
BY NothingDecided DEF Decisions, Remembered

(* What the provider reports keeps the calibration between 50 and 200      *)
(* percent.                                                                *)
LEMMA ObservedTyped ==
  ASSUME durable \in Decided, NEW ratio \in Nat PROVE Observed(ratio) \in Decided
<1>1. CASE estimate = 0 \/ ratio = 0
  BY <1>1 DEF Observed
<1>2. CASE ~(estimate = 0 \/ ratio = 0)
  <2> DEFINE factor == (70 * durable.calibration + 30 * ratio) \div 100
             clamped == Clamped(factor)
  <2>1. durable.calibration \in 50..200
    BY DEF Decided
  <2>2. factor \in Int
    BY <2>1
  <2> HIDE DEF factor
  <2>3. clamped \in 50..200
    BY <2>2 DEF Clamped, Most, Least
  <2> HIDE DEF clamped
  <2>4. Observed(ratio) = [durable EXCEPT !.calibration = clamped]
    BY <1>2 DEF Observed, clamped, factor
  <2> QED BY <2>3, <2>4 DEF Decided
<1> QED BY <1>1, <1>2

(* Rewriting a request keeps the decisions well formed and the budget or   *)
(* resets it.                                                              *)
LEMMA RewriteTyped ==
  ASSUME NEW decided \in Decided, contents \in Seq(Said), Told(contents), Len(contents) >= 1,
         Rewrite(ApplyPolicy(decided, contents))
  PROVE  /\ request' \in Seq(Said) /\ Shows(contents, request')
         /\ durable' \in Decided /\ estimate' \in Nat /\ (Reset \/ UNCHANGED budgetVars)
<1> DEFINE r == ApplyPolicy(decided, contents)
<1>1. [contents |-> r.contents, durable |-> r.durable] \in State /\ r.exhausted \in BOOLEAN
      /\ Shows(contents, r.contents)
  BY PolicyDecides
<1> HIDE DEF r
<1>2. r.contents \in Seq(Said) /\ r.durable \in Decided
  BY <1>1 DEF State
<1>3. durable' = [r.durable EXCEPT !.warned = @ \/ r.exhausted] /\ request' = r.contents
      /\ estimate' = IF Calibration THEN Tokens(request') ELSE 0
  BY DEF Rewrite, r
<1>4. durable' \in Decided
  <2>1. \A w \in BOOLEAN : [r.durable EXCEPT !.warned = w] \in Decided
    BY <1>2 DEF Decided
  <2>2. (r.durable.warned \/ r.exhausted) \in BOOLEAN
    OBVIOUS
  <2> QED BY <1>3, <2>1, <2>2
<1>5. Tokens(request') \in Nat
  BY <1>2, <1>3, TokensAdd
<1>6. Reset \/ UNCHANGED budgetVars
  BY DEF Rewrite, r
<1> QED BY <1>1, <1>2, <1>3, <1>4, <1>5, <1>6

(* A call that moves on leaves the other calls as they are.                *)
LEMMA AdvanceTyped ==
  ASSUME calls \in Seq(CallState), NEW i \in DOMAIN calls, NEW stage \in {"asked", "running", "done"},
         NEW reservation \in Nat, NEW bytes \in Nat, Advance(i, stage, reservation, bytes)
  PROVE  /\ calls' \in Seq(CallState) /\ DOMAIN calls' = DOMAIN calls
         /\ calls'[i].stage = stage /\ calls'[i].reservation = reservation
         /\ \A j \in DOMAIN calls : j # i => calls'[j] = calls[j]
<1> DEFINE a == [calls[i] EXCEPT !.stage = stage]
           b == [a EXCEPT !.reservation = reservation]
           c == [b EXCEPT !.bytes = bytes]
<1>1. calls[i] \in CallState
  OBVIOUS
<1>2. a \in CallState /\ a.stage = stage
  BY <1>1 DEF CallState
<1> HIDE DEF a
<1>3. b \in CallState /\ b.stage = stage /\ b.reservation = reservation
  BY <1>2 DEF CallState
<1> HIDE DEF b
<1>4. c \in CallState /\ c.stage = stage /\ c.reservation = reservation
  BY <1>3 DEF CallState
<1>5. calls' = [calls EXCEPT ![i] = c]
  <2> DEFINE x == [calls EXCEPT ![i].stage = stage]
             y == [x EXCEPT ![i].reservation = reservation]
  <2>1. calls' = [y EXCEPT ![i].bytes = bytes]
    BY DEF Advance
  <2>2. x = [calls EXCEPT ![i] = a] /\ x[i] = a
    BY DEF a
  <2> HIDE DEF x
  <2>3. y = [calls EXCEPT ![i] = b] /\ y[i] = b
    BY <2>2 DEF b
  <2> HIDE DEF y
  <2> QED BY <2>1, <2>3
<1> HIDE DEF c
<1> QED BY <1>4, <1>5

(* A reservation is the call's own.                                        *)
LEMMA ReserveKeeps ==
  ASSUME ConversationInv, NEW i \in DOMAIN calls, ReserveFor(i)
  PROVE  calls' \in Seq(CallState) /\ Reservations' /\ Grants'
<1> DEFINE n == IF Refused(MaxBytes) THEN NoReservation ELSE nextID'
<1>1. calls \in Seq(CallState) /\ Reservations /\ Grants /\ BudgetInv /\ MaxBytes \in Nat
  BY ConversationAssumption DEF ConversationInv
<1>2. Reserve(MaxBytes) /\ Advance(i, "running", n, 0) /\ calls[i].stage = "asked"
  BY DEF ReserveFor
<1>3. nextID \in Nat /\ (~Refused(MaxBytes) => nextID' = nextID + 1) /\ (Refused(MaxBytes) => nextID' = nextID)
  BY <1>1, <1>2 DEF Reserve, BudgetInv, budgetVars
<1>4. n \in Nat /\ n <= nextID' /\ nextID <= nextID' /\ (n # NoReservation => n = nextID + 1)
  BY <1>3 DEF NoReservation
<1> HIDE DEF n
<1>5. /\ calls' \in Seq(CallState) /\ DOMAIN calls' = DOMAIN calls
      /\ calls'[i].stage = "running" /\ calls'[i].reservation = n
      /\ \A j \in DOMAIN calls : j # i => calls'[j] = calls[j]
  BY <1>1, <1>2, <1>4, AdvanceTyped
<1>6. calls[i].reservation = NoReservation
  BY <1>1, <1>2 DEF Reservations
<1>7. \A j \in DOMAIN calls : calls[j].reservation <= nextID /\ calls[j].reservation \in Nat
  <2>1. \A j \in DOMAIN calls : calls[j] \in CallState
    BY <1>1
  <2> QED BY <1>1, <2>1 DEF Reservations, CallState
<1>8. \A j \in DOMAIN calls' : /\ calls'[j].reservation <= nextID'
                               /\ calls'[j].stage # "running" => calls'[j].reservation = NoReservation
  <2> TAKE j \in DOMAIN calls'
  <2>1. CASE j = i
    BY <1>4, <1>5, <2>1
  <2>2. CASE j # i
    <3>1. calls'[j] = calls[j] /\ calls[j].reservation <= nextID /\ calls[j].reservation \in Nat
      BY <1>5, <1>7, <2>2
    <3>2. calls[j].stage # "running" => calls[j].reservation = NoReservation
      BY <1>1, <1>5 DEF Reservations
    <3>3. calls[j].reservation <= nextID'
      BY <1>3, <1>4, <3>1
    <3> QED BY <3>1, <3>2, <3>3
  <2> QED BY <2>1, <2>2
<1>9. \A j, k \in DOMAIN calls' :
        calls'[j].reservation = calls'[k].reservation /\ calls'[j].reservation # NoReservation => j = k
  <2> SUFFICES ASSUME NEW j \in DOMAIN calls', NEW k \in DOMAIN calls',
                      calls'[j].reservation = calls'[k].reservation, calls'[j].reservation # NoReservation, j # k
               PROVE  FALSE
    OBVIOUS
  <2>1. CASE j # i /\ k # i
    BY <1>1, <1>5, <2>1 DEF Reservations
  <2>2. CASE j = i \/ k = i
    <3>1. PICK l \in DOMAIN calls : l # i /\ calls'[l].reservation = n /\ n # NoReservation
      BY <1>5, <2>2
    <3>2. calls[l].reservation = nextID + 1
      BY <1>4, <1>5, <3>1
    <3> QED BY <1>3, <1>7, <3>2
  <2> QED BY <2>1, <2>2
<1>10. CASE Refused(MaxBytes)
  <2>1. n = NoReservation /\ UNCHANGED budgetVars
    BY <1>2, <1>10 DEF n, Reserve
  <2>2. \A j \in DOMAIN calls : calls'[j].reservation = calls[j].reservation
    BY <1>5, <1>6, <2>1
  <2>3. DOMAIN pending' = {calls'[j].reservation : j \in DOMAIN calls'} \ {NoReservation}
    BY <1>1, <1>5, <2>1, <2>2 DEF Reservations, budgetVars
  <2>4. Grants'
    BY <1>1, <2>1 DEF Grants, budgetVars
  <2> QED BY <1>5, <1>8, <1>9, <2>3, <2>4 DEF Reservations
<1>11. CASE ~Refused(MaxBytes)
  <2> DEFINE S == DOMAIN pending
             grant == GrantOf(MaxBytes)
  <2>1. /\ n = nextID + 1 /\ n # NoReservation /\ reserved' = reserved + grant
        /\ pending' = [id \in S \cup {n} |-> IF id = n THEN grant ELSE pending[id]]
    <3>1. n = nextID' /\ n = nextID + 1 /\ n # NoReservation
      BY <1>3, <1>11 DEF n, NoReservation
    <3> QED BY <1>2, <1>11, <3>1 DEF Reserve
  <2>2. n \notin S
    <3>1. \A j \in DOMAIN calls : calls[j].reservation # n
      BY <1>3, <1>7, <2>1
    <3> QED BY <1>1, <3>1 DEF Reservations
  <2>3. grant \in Nat
    <3>1. grant \in 1..Remaining /\ Remaining \in Int
      BY <1>1, <1>11, GrantIsWithin, BudgetAssumption DEF BudgetInv, Remaining
    <3> QED BY <3>1
  <2>4. pending \in [S -> Nat] /\ pending' \in [S \cup {n} -> Nat] /\ pending'[n] = grant
        /\ \A id \in S : pending'[id] = pending[id]
    <3>1. \A id \in S : pending[id] \in Nat
      BY <1>1 DEF BudgetInv
    <3>2. pending \in [S -> Nat]
      BY <1>1 DEF BudgetInv
    <3> HIDE DEF S, grant
    <3> QED BY <2>1, <2>2, <2>3, <3>1, <3>2
  <2>5. IsFiniteSet(S) /\ reserved = Sum(pending)
    BY <1>1 DEF Grants
  <2> HIDE DEF S, grant
  <2>6. Sum(pending') = Sum(pending) + grant
    <3>1. Sum(pending') = Sum(pending) + pending'[n]
      BY <2>2, <2>4, <2>5, SumOfOneMore
    <3> QED BY <2>4, <3>1
  <2>7. IsFiniteSet(S \cup {n}) /\ DOMAIN pending' = S \cup {n}
    BY <2>1, <2>5, FS_AddElement
  <2>8. Grants'
    BY <2>1, <2>5, <2>6, <2>7 DEF Grants
  <2>9. S = {calls[j].reservation : j \in DOMAIN calls} \ {NoReservation}
    BY <1>1 DEF Reservations, S
  <2>10. S \cup {n} = {calls'[j].reservation : j \in DOMAIN calls'} \ {NoReservation}
    <3>1. ASSUME NEW x \in S \cup {n}
          PROVE  x \in {calls'[j].reservation : j \in DOMAIN calls'} \ {NoReservation}
      <4>1. CASE x = n
        BY <1>5, <2>1, <4>1
      <4>2. CASE x \in S
        <5>1. PICK j \in DOMAIN calls : x = calls[j].reservation /\ x # NoReservation
          BY <2>9, <4>2
        <5>2. j # i
          BY <1>6, <5>1
        <5> QED BY <1>5, <5>1, <5>2
      <4> QED BY <3>1, <4>1, <4>2
    <3>2. ASSUME NEW j \in DOMAIN calls', calls'[j].reservation # NoReservation
          PROVE  calls'[j].reservation \in S \cup {n}
      BY <1>5, <2>9, <3>2
    <3> QED BY <3>1, <3>2
  <2>11. DOMAIN pending' = {calls'[j].reservation : j \in DOMAIN calls'} \ {NoReservation}
    BY <2>7, <2>10
  <2> QED BY <1>5, <1>8, <1>9, <2>8, <2>11 DEF Reservations
<1> QED BY <1>10, <1>11

(* And is settled for all.                                                 *)
LEMMA EmitKeeps ==
  ASSUME ConversationInv, NEW i \in DOMAIN calls, NEW bytes \in Outputs, Emit(i, bytes)
  PROVE  calls' \in Seq(CallState) /\ Reservations' /\ Grants'
<1> DEFINE n == calls[i].reservation
           S == DOMAIN pending
<1>1. calls \in Seq(CallState) /\ Reservations /\ Grants /\ BudgetInv /\ bytes \in Nat
  BY ConversationAssumption DEF ConversationInv
<1>2. Consume(n, bytes) /\ Advance(i, "done", NoReservation, bytes)
  BY DEF Emit
<1>3. nextID' = nextID /\ reserved' = reserved - GrantFor(n) /\ pending' = [x \in S \ {n} |-> pending[x]]
  BY <1>2 DEF Consume, Restrict
<1>4. pending \in [S -> Nat] /\ IsFiniteSet(S) /\ reserved = Sum(pending)
  BY <1>1 DEF BudgetInv, Grants
<1>5. /\ calls' \in Seq(CallState) /\ DOMAIN calls' = DOMAIN calls
      /\ calls'[i].stage = "done" /\ calls'[i].reservation = NoReservation
      /\ \A j \in DOMAIN calls : j # i => calls'[j] = calls[j]
  BY <1>1, <1>2, AdvanceTyped DEF NoReservation
<1>6. S = {calls[j].reservation : j \in DOMAIN calls} \ {NoReservation}
  BY <1>1 DEF Reservations
<1>7. \A j \in DOMAIN calls : j # i /\ calls[j].reservation # NoReservation => calls[j].reservation # n
  BY <1>1 DEF Reservations
<1> HIDE DEF S, n
<1>8. S \ {n} = {calls'[j].reservation : j \in DOMAIN calls'} \ {NoReservation}
  <2>1. ASSUME NEW x \in S \ {n} PROVE x \in {calls'[j].reservation : j \in DOMAIN calls'} \ {NoReservation}
    <3>1. PICK j \in DOMAIN calls : x = calls[j].reservation /\ x # NoReservation
      BY <1>6
    <3>2. j # i
      BY <3>1 DEF n
    <3> QED BY <1>5, <3>1, <3>2
  <2>2. ASSUME NEW j \in DOMAIN calls', calls'[j].reservation # NoReservation
        PROVE  calls'[j].reservation \in S \ {n}
    BY <1>5, <1>6, <1>7, <2>2
  <2> QED BY <2>1, <2>2
<1>9. DOMAIN pending' = {calls'[j].reservation : j \in DOMAIN calls'} \ {NoReservation}
  BY <1>3, <1>8
<1>10. /\ \A j \in DOMAIN calls' : /\ calls'[j].reservation <= nextID'
                                   /\ calls'[j].stage # "running" => calls'[j].reservation = NoReservation
       /\ \A j, k \in DOMAIN calls' :
            calls'[j].reservation = calls'[k].reservation /\ calls'[j].reservation # NoReservation => j = k
  <2>1. NoReservation <= nextID'
    BY <1>1, <1>3 DEF BudgetInv, NoReservation
  <2>2. /\ \A j \in DOMAIN calls : /\ calls[j].reservation <= nextID
                                   /\ calls[j].stage # "running" => calls[j].reservation = NoReservation
        /\ \A j, k \in DOMAIN calls :
             calls[j].reservation = calls[k].reservation /\ calls[j].reservation # NoReservation => j = k
    BY <1>1 DEF Reservations
  <2> QED BY <1>3, <1>5, <2>1, <2>2
<1>11. IsFiniteSet(S \ {n})
  BY <1>4, FS_Subset
<1>12. reserved' = Sum(pending')
  <2>1. CASE n \in S
    <3> DEFINE R == S \ {n}
    <3>1. IsFiniteSet(R) /\ n \notin R /\ R \cup {n} = S
      BY <1>11, <2>1
    <3>2. pending' \in [R -> Nat] /\ \A x \in R : pending[x] = pending'[x]
      BY <1>3, <1>4
    <3> HIDE DEF R
    <3>3. pending \in [R \cup {n} -> Nat]
      BY <1>4, <3>1
    <3>4. Sum(pending) = Sum(pending') + pending[n]
      <4> DEFINE p == pending'
                 q == pending
      <4>1. IsFiniteSet(R) /\ n \notin R /\ p \in [R -> Nat] /\ q \in [R \cup {n} -> Nat] /\ \A y \in R : q[y] = p[y]
        BY <3>1, <3>2, <3>3
      <4> HIDE DEF p, q
      <4>2. Sum(q) = Sum(p) + q[n]
        BY <4>1, SumOfOneMore
      <4> QED BY <4>2 DEF p, q
    <3>5. reserved' = reserved - pending[n]
      BY <1>3, <2>1 DEF GrantFor, S
    <3>6. PICK h : Sums(h, R, pending') /\ Sum(pending') = h[R]
      BY <3>1, <3>2, SumIsOfAll
    <3>7. Sum(pending') \in Nat /\ pending[n] \in Nat
      BY <1>4, <2>1, <3>6 DEF Sums
    <3> QED BY <1>4, <3>4, <3>5, <3>7
  <2>2. CASE n \notin S
    <3>1. pending' = pending
      BY <1>3, <1>4, <2>2
    <3>2. reserved' = reserved - 0
      BY <1>3, <2>2 DEF GrantFor, S
    <3>3. reserved \in Int
      BY <1>1 DEF BudgetInv
    <3> QED BY <1>4, <3>1, <3>2, <3>3
  <2> QED BY <2>1, <2>2
<1>13. Grants'
  BY <1>3, <1>11, <1>12 DEF Grants
<1> QED BY <1>5, <1>9, <1>10, <1>13 DEF Reservations

(* Without calls there are no grants: at the start, after a reset and a    *)
(* restart.                                                                *)
LEMMA NoneReserved ==
  ASSUME calls' = <<>>, pending' = NoGrants, reserved' = 0 PROVE Reservations' /\ Grants'
<1>1. DOMAIN pending' = {} /\ DOMAIN calls' = {}
  BY DEF NoGrants
<1>2. Reservations'
  BY <1>1 DEF Reservations
<1>3. Grants'
  BY <1>1, SumOfNone, FS_EmptySet DEF Grants
<1> QED BY <1>2, <1>3

(* What a step leaves alone stays well formed.                             *)
LEMMA NothingReserved ==
  ASSUME Reservations, Grants, UNCHANGED <<calls, budgetVars>> PROVE Reservations' /\ Grants'
BY DEF Reservations, Grants, budgetVars

(* A step that says nothing and makes no request keeps both.               *)
LEMMA NothingSaid ==
  ASSUME Requests, contents' = contents, phase' \notin {"before", "model"} PROVE Requests'
BY DEF Requests

(* The invariant holds at the start.                                       *)
LEMMA ConversationBegins == Init => ConversationInv
<1> SUFFICES ASSUME Init PROVE ConversationInv
  OBVIOUS
<1>1. contents = <<>> /\ calls = <<>> /\ phase = "idle" /\ estimate = 0 /\ loaded = FALSE
      /\ sidecar = NoDecisions /\ durable = NoDecisions /\ NewBudget
  BY DEF Init
<1>2. BudgetInv
  BY <1>1, BudgetBegins
<1>3. Remembered
  BY <1>1, NothingDecided DEF Remembered
<1>4. DOMAIN pending = {} /\ DOMAIN calls = {} /\ pending = NoGrants /\ reserved = 0
  BY <1>1 DEF NewBudget, NoGrants
<1>5. Reservations
  BY <1>4 DEF Reservations
<1>6. Grants
  BY <1>4, SumOfNone, FS_EmptySet DEF Grants
<1>7. Requests
  BY <1>1 DEF Requests, Told
<1> QED BY <1>1, <1>2, <1>3, <1>5, <1>6, <1>7 DEF ConversationInv, Phases

(* Every step of a session keeps the invariant.                            *)
LEMMA ConversationStep ==
  ASSUME ConversationInv, [Next]_vars PROVE ConversationInv'
<1>1. /\ contents \in Seq(Said) /\ Remembered /\ Requests /\ phase \in Phases
      /\ calls \in Seq(CallState) /\ (phase # "tools" => calls = <<>>)
      /\ Reservations /\ Grants /\ BudgetInv /\ Told(contents)
  BY DEF ConversationInv, Requests
<1>2. BudgetInv'
  BY <1>1, SessionBudgetStep
<1>3. Remembered => (UNCHANGED <<sidecar, durable, loaded, estimate>> => Remembered')
  BY DEF Remembered
<1>4. ASSUME NEW bytes \in Prompts, Prompt(bytes) PROVE ConversationInv'
  <2>1. bytes \in Nat
    BY ConversationAssumption
  <2>2. <<Text(bytes)>> \in Seq(Fresh)
    <3>1. NoID \in IDs /\ Empty \in Names
      BY DEF NoID, IDs, Names
    <3>2. Text(bytes) \in Fresh
      BY <2>1, <3>1, PartsSaid
    <3> QED BY <3>2
  <2>3. contents' \in Seq(Said) /\ Told(contents)' /\ Len(contents') >= 1
    BY <1>1, <1>4, <2>2, SaidOne DEF Prompt, Roles
  <2>4. Reservations' /\ Grants'
    BY <1>1, <1>4, NothingReserved DEF Prompt
  <2>5. Requests'
    BY <1>4, <2>3 DEF Prompt, Requests
  <2> QED BY <1>1, <1>2, <1>3, <1>4, <2>3, <2>4, <2>5 DEF Prompt, ConversationInv, Phases
<1>5. ASSUME NEW bytes \in Prompts, Answer(bytes) PROVE ConversationInv'
  <2>1. bytes \in Nat
    BY ConversationAssumption
  <2>2. <<Text(bytes)>> \in Seq(Fresh)
    <3>1. NoID \in IDs /\ Empty \in Names
      BY DEF NoID, IDs, Names
    <3>2. Text(bytes) \in Fresh
      BY <2>1, <3>1, PartsSaid
    <3> QED BY <3>2
  <2>3. contents' \in Seq(Said) /\ Told(contents)' /\ Len(contents') >= 1
    BY <1>1, <1>5, <2>2, SaidOne DEF Answer, Roles
  <2>4. Reservations' /\ Grants'
    BY <1>1, <1>5, NothingReserved DEF Answer
  <2>5. Requests'
    BY <1>5, <2>3 DEF Answer, Requests
  <2> QED BY <1>1, <1>2, <1>3, <1>5, <2>3, <2>4, <2>5 DEF Answer, ConversationInv, Phases
<1>6. ASSUME NEW readable, NEW saved, BeforeModel(readable, saved) PROVE ConversationInv'
  <2>1. Decisions(readable) \in Decided
    BY <1>1, DecisionsTyped
  <2>2. /\ request' \in Seq(Said) /\ Shows(contents, request')
        /\ durable' \in Decided /\ estimate' \in Nat /\ (Reset \/ UNCHANGED budgetVars)
    BY <1>1, <1>6, <2>1, RewriteTyped DEF BeforeModel, Requests
  <2>3. sidecar' \in Decided
    BY <1>1, <1>6, <2>2 DEF BeforeModel, Save, Remembered
  <2>4. Remembered'
    BY <1>6, <2>2, <2>3 DEF BeforeModel, Remembered
  <2>5. calls = <<>> /\ calls' = <<>>
    BY <1>1, <1>6 DEF BeforeModel
  <2>6. Reservations' /\ Grants'
    <3>1. CASE Reset
      BY <2>5, <3>1, NoneReserved DEF Reset
    <3>2. CASE UNCHANGED budgetVars
      BY <1>1, <2>5, <3>2, NothingReserved
    <3> QED BY <2>2, <3>1, <3>2
  <2>7. Requests'
    BY <1>1, <1>6, <2>2 DEF BeforeModel, Requests
  <2> QED BY <1>1, <1>2, <1>6, <2>4, <2>5, <2>6, <2>7 DEF BeforeModel, ConversationInv, Phases
<1>7. ASSUME NEW ratio \in Ratios, NEW saved, AfterModel(ratio, saved) PROVE ConversationInv'
  <2>1. durable' \in Decided
    BY <1>1, <1>7, ObservedTyped, ConversationAssumption DEF AfterModel, Remembered
  <2>2. Remembered'
    BY <1>1, <1>7, <2>1 DEF AfterModel, Save, Remembered
  <2>3. Reservations' /\ Grants'
    BY <1>1, <1>7, NothingReserved DEF AfterModel
  <2>4. Requests'
    BY <1>1, <1>7, NothingSaid DEF AfterModel
  <2> QED BY <1>1, <1>2, <1>7, <2>2, <2>3, <2>4 DEF AfterModel, ConversationInv, Phases
<1>8. ASSUME NEW response \in Responses, CallTools(response) PROVE ConversationInv'
  <2> DEFINE n == Len(response)
             Given0(i) == CallID(response[i].given, i)
             asked == [i \in DOMAIN response |-> Asked0(Given0(i), response[i].name)]
             parts == [i \in DOMAIN response |-> Call(calls'[i].id, calls'[i].name, "object")]
  <2>1. n \in Nat /\ DOMAIN response = 1..n /\ \A i \in 1..n : response[i].name \in Names
    <3>1. response \in Seq([name : Names, given : BOOLEAN])
      BY ConversationAssumption
    <3>2. DOMAIN response = 1..Len(response) /\ Len(response) \in Nat
          /\ \A i \in 1..Len(response) : response[i] \in [name : Names, given : BOOLEAN]
      <4>1. \A X : \A t \in Seq(X) : DOMAIN t = 1..Len(t) /\ Len(t) \in Nat /\ \A i \in 1..Len(t) : t[i] \in X
        OBVIOUS
      <4> QED BY <3>1, <4>1
    <3> QED BY <3>2
  <2>2. \A i \in 1..n : Given0(i) \in IDs
    <3> TAKE i \in 1..n
    <3>1. NoID \in IDs
      BY DEF NoID, IDs, Names
    <3>2. 10 * Len(contents) + i \in Nat
      <4>1. Len(contents) \in Nat
        BY <1>1
      <4> QED BY <2>1, <4>1
    <3>3. <<"given", Empty, 10 * Len(contents) + i>> \in IDs
      BY <3>2 DEF IDs, Names
    <3> QED BY <3>1, <3>3 DEF CallID
  <2>3. calls' = asked /\ Say1("model", parts)
    BY <1>8 DEF CallTools
  <2> HIDE DEF Given0, n
  <2>4. \A i \in 1..n : asked[i] \in CallState /\ asked[i].id = Given0(i) /\ asked[i].name = response[i].name
                        /\ asked[i].stage = "asked" /\ asked[i].reservation = 0
    BY <2>1, <2>2 DEF Asked0, CallState, NoReservation
  <2>5. DOMAIN asked = 1..n
    BY <2>1
  <2>6. \A i \in 1..n : parts[i] \in Fresh
    BY <2>1, <2>2, <2>3, <2>4, PartsSaid
  <2>7. DOMAIN parts = 1..n
    BY <2>1
  <2>8. parts \in Seq(Fresh)
    <3> DEFINE f == [i \in 1..n |-> parts[i]]
    <3>1. f \in [1..n -> Fresh]
      BY <2>6
    <3>2. f = parts
      BY <2>1
    <3> HIDE DEF f
    <3>3. f \in Seq(Fresh)
      BY <2>1, <3>1
    <3> QED BY <3>2, <3>3
  <2>9. asked \in Seq(CallState)
    <3>1. asked \in [1..n -> CallState]
      BY <2>1, <2>4
    <3> HIDE DEF asked
    <3> QED BY <2>1, <3>1
  <2> HIDE DEF asked, parts
  <2>10. contents' \in Seq(Said) /\ Told(contents)' /\ Len(contents') >= 1
    BY <1>1, <2>3, <2>8, SaidOne DEF Roles
  <2>11. UNCHANGED budgetVars /\ calls = <<>> /\ phase' = "tools" /\ UNCHANGED <<sidecar, durable, loaded, estimate>>
    BY <1>1, <1>8 DEF CallTools
  <2>12. DOMAIN pending' = {} /\ nextID' \in Nat
    <3>1. DOMAIN calls = {}
      BY <2>11
    <3>2. DOMAIN pending = {}
      BY <1>1, <3>1 DEF Reservations
    <3> QED BY <1>1, <2>11, <3>2 DEF budgetVars, BudgetInv
  <2>13. Grants'
    BY <1>1, <2>11 DEF Grants, budgetVars
  <2>14. Reservations'
    <3>1. \A i \in DOMAIN calls' : calls'[i].reservation = 0
      BY <2>3, <2>4, <2>5
    <3> QED BY <2>12, <3>1 DEF Reservations, NoReservation
  <2>15. Requests'
    BY <2>10, <2>11 DEF Requests
  <2> QED BY <1>1, <1>2, <1>3, <2>3, <2>9, <2>10, <2>11, <2>13, <2>14, <2>15 DEF ConversationInv, Phases
<1>9. ASSUME NEW i \in DOMAIN calls, ReserveFor(i) PROVE ConversationInv'
  <2>1. calls' \in Seq(CallState) /\ Reservations' /\ Grants'
    BY <1>9, ReserveKeeps
  <2>2. Requests'
    BY <1>1, <1>9, NothingSaid DEF ReserveFor, Advance
  <2> QED BY <1>1, <1>2, <1>3, <1>9, <2>1, <2>2 DEF ReserveFor, Advance, ConversationInv
<1>10. ASSUME NEW i \in DOMAIN calls, NEW bytes \in Outputs, Emit(i, bytes) PROVE ConversationInv'
  <2>1. calls' \in Seq(CallState) /\ Reservations' /\ Grants'
    BY <1>10, EmitKeeps
  <2>2. Requests'
    BY <1>1, <1>10, NothingSaid DEF Emit, Advance
  <2> QED BY <1>1, <1>2, <1>3, <1>10, <2>1, <2>2 DEF Emit, Advance, ConversationInv
<1>11. CASE Respond
  <2> DEFINE n == Len(calls)
             parts == [i \in DOMAIN calls |-> Response(calls[i].id, calls[i].name, calls[i].bytes)]
  <2>1. n \in Nat /\ DOMAIN calls = 1..n /\ \A i \in 1..n : calls[i] \in CallState
    BY <1>1
  <2>2. \A i \in 1..n : Response(calls[i].id, calls[i].name, calls[i].bytes) \in Fresh
    BY <2>1, PartsSaid DEF CallState
  <2> HIDE DEF n
  <2>3. parts \in [1..n -> Fresh]
    BY <2>1, <2>2
  <2>4. parts \in Seq(Fresh)
    <3> HIDE DEF parts
    <3> QED BY <2>1, <2>3
  <2>5. Say1("user", parts)
    BY <1>11 DEF Respond
  <2> HIDE DEF parts
  <2>6. contents' \in Seq(Said) /\ Told(contents)' /\ Len(contents') >= 1
    BY <1>1, <2>4, <2>5, SaidOne DEF Roles
  <2>7. \A i \in DOMAIN calls : calls[i].reservation = NoReservation
    BY <1>1, <1>11 DEF Respond, Reservations
  <2>8. calls' = <<>> /\ phase' = "before" /\ UNCHANGED <<sidecar, durable, loaded, estimate, budgetVars>>
    BY <1>11 DEF Respond
  <2>9. Reservations' /\ Grants'
    BY <1>1, <2>7, <2>8 DEF Reservations, Grants, budgetVars
  <2>10. Requests'
    BY <2>6, <2>8 DEF Requests
  <2> QED BY <1>1, <1>2, <1>3, <2>6, <2>8, <2>9, <2>10 DEF ConversationInv, Phases
<1>12. CASE EndRun
  <2>1. \A i \in DOMAIN calls : calls[i].reservation = NoReservation
    BY <1>1, <1>12 DEF EndRun, Reservations
  <2>2. calls' = <<>> /\ phase' = "idle" /\ UNCHANGED <<contents, sidecar, durable, loaded, estimate, budgetVars>>
    BY <1>12 DEF EndRun
  <2>3. Reservations' /\ Grants'
    BY <1>1, <2>1, <2>2 DEF Reservations, Grants, budgetVars
  <2>4. Requests'
    BY <1>1, <2>2, NothingSaid
  <2> QED BY <1>1, <1>2, <1>3, <2>2, <2>3, <2>4 DEF ConversationInv, Phases
<1>13. CASE Restart
  <2>1. calls = <<>> /\ UNCHANGED <<contents, sidecar, estimate, phase, calls>> /\ phase = "idle"
        /\ loaded' = FALSE /\ durable' = NoDecisions /\ reserved' = 0 /\ pending' = NoGrants
    BY <1>1, <1>13 DEF Restart
  <2>2. Remembered'
    BY <1>1, <2>1, NothingDecided DEF Remembered
  <2>3. Reservations' /\ Grants'
    BY <2>1, NoneReserved
  <2>4. Requests'
    BY <1>1, <2>1, NothingSaid
  <2> QED BY <1>1, <1>2, <2>1, <2>2, <2>3, <2>4 DEF ConversationInv
<1>14. CASE UNCHANGED vars
  <2>1. Reservations' /\ Grants'
    BY <1>1, <1>14, NothingReserved DEF vars
  <2>2. Requests'
    BY <1>1, <1>14 DEF vars, Requests
  <2> QED BY <1>1, <1>2, <1>3, <1>14, <2>1, <2>2 DEF vars, ConversationInv
<1> QED BY <1>4, <1>5, <1>6, <1>7, <1>8, <1>9, <1>10, <1>11, <1>12, <1>13, <1>14 DEF Next

(* So it holds of every state of a session.                                *)
LEMMA ConversationStays == Spec => []ConversationInv
BY ConversationBegins, ConversationStep, PTL DEF Spec

(* Every state of a session is well formed, and what is reserved is the    *)
(* sum of what the tools that run were granted.                            *)
THEOREM ConversationTypeOK == Spec => []TypeOK
<1>1. ConversationInv => TypeOK
  <2> SUFFICES ASSUME ConversationInv PROVE TypeOK
    OBVIOUS
  <2>1. loaded \in BOOLEAN /\ phase \in {"idle", "before", "model", "answered", "tools"}
    BY DEF ConversationInv, Remembered, Phases
  <2>2. durable \in Decided /\ sidecar \in Decided
    BY DEF ConversationInv, Remembered
  <2>3. durable.calibration \in 50..200 /\ sidecar.calibration \in 50..200
    BY <2>2 DEF Decided
  <2>4. IsABag(durable.elided) /\ IsABag(durable.dropped)
    BY <2>2, BagsAreBags DEF Decided
  <2>5. reserved = FoldFunction(LAMBDA grant, sum : grant + sum, 0, pending)
    BY DEF ConversationInv, Grants, Sum
  <2>6. DOMAIN pending = {calls[i].reservation : i \in DOMAIN calls} \ {NoReservation}
    BY DEF ConversationInv, Reservations
  <2> QED BY <2>1, <2>3, <2>4, <2>5, <2>6 DEF TypeOK
<1> QED BY <1>1, ConversationStays, PTL

(* A request that reaches the trigger is brought down to the target, or    *)
(* there is nothing left that may be elided or dropped.                    *)
THEOREM CompactionReachesTarget == Spec => ReachesTarget
<1> DEFINE Size == Calibrated(Tokens(request'), Factor(durable'))
           Reached == \/ Size <= Target \/ NothingLeft(request')
                      \/ Size < Trigger /\ durable' \in {Decisions(TRUE), Decisions(FALSE)}
<1>1. ASSUME ConversationInv, NEW readable \in BOOLEAN, NEW saved, BeforeModel(readable, saved) PROVE Reached
  <2> DEFINE decided == Decisions(readable)
             r == ApplyPolicy(decided, contents)
             s == [contents |-> r.contents, durable |-> r.durable]
  <2>1. decided \in Decided /\ contents \in Seq(Said) /\ Told(contents) /\ Len(contents) >= 1
    BY <1>1, DecisionsTyped DEF ConversationInv, Requests, BeforeModel
  <2> HIDE DEF decided
  <2>2. /\ s \in State /\ r.triggered \in BOOLEAN /\ r.exhausted \in BOOLEAN /\ (r.triggered \/ ~r.exhausted)
        /\ AboveTarget(r) /\ r.triggered => NoneWorth(r.contents) /\ Droppable(r.contents) = {}
        /\ ~r.triggered => r.durable = decided /\ ~Triggered(r)
    BY <2>1, PolicyDecides
  <2>3. durable' = [r.durable EXCEPT !.warned = @ \/ r.exhausted] /\ request' = r.contents
    BY <1>1 DEF BeforeModel, Rewrite, decided
  <2> HIDE DEF r
  <2>4. r.durable \in Decided /\ r.contents \in Seq(Said) /\ s.durable = r.durable /\ s.contents = r.contents
    BY <2>2 DEF State
  <2>5. durable'.calibration = r.durable.calibration
    BY <2>3, <2>4 DEF Decided
  <2>6. Size = Calibrated(Tokens(r.contents), Factor(r.durable))
    BY <2>3, <2>5 DEF Factor
  <2> HIDE DEF s, Size
  <2>7. Size \in Nat
    BY <2>2, <2>4, <2>6, FactorsAreNumbers
  <2>8. (AboveTarget(r) <=> Size > Target) /\ (Triggered(r) <=> Size >= Trigger)
    BY <2>6 DEF AboveTarget, Triggered
  <2>9. CASE r.triggered
    <3>1. AboveTarget(r) => NothingLeft(request')
      BY <2>2, <2>3, <2>4, <2>9, NothingToElide DEF NothingLeft
    <3>2. ~AboveTarget(r) => Size <= Target
      BY <2>7, <2>8, PolicyAssumption
    <3> QED BY <3>1, <3>2
  <2>10. CASE ~r.triggered
    <3>1. durable' = r.durable
      <4>1. r.durable.warned \in BOOLEAN /\ r.exhausted = FALSE
        BY <2>2, <2>4, <2>10 DEF Decided
      <4>2. (r.durable.warned \/ r.exhausted) = r.durable.warned
        BY <4>1
      <4>3. durable' = [r.durable EXCEPT !.warned = r.durable.warned]
        BY <2>3, <4>2
      <4> QED BY <2>4, <4>3 DEF Decided
    <3>2. durable' = decided
      BY <2>2, <2>10, <3>1
    <3>3. decided \in {Decisions(TRUE), Decisions(FALSE)}
      BY DEF decided
    <3>4. Size < Trigger
      BY <2>2, <2>7, <2>8, <2>10, PolicyAssumption
    <3> QED BY <3>2, <3>3, <3>4
  <2> QED BY <2>2, <2>9, <2>10
<1>2. ConversationInv /\ [Next]_vars => [phase = "before" /\ phase' = "model" => Reached]_vars
  <2> SUFFICES ASSUME ConversationInv, Next, phase = "before", phase' = "model" PROVE Reached
    BY DEF vars
  <2>1. ASSUME NEW readable \in (IF loaded THEN {TRUE} ELSE Outcomes("load")), NEW saved, BeforeModel(readable, saved)
        PROVE  Reached
    <3>1. readable \in BOOLEAN
      BY DEF Outcomes
    <3> QED BY <1>1, <2>1, <3>1
  <2>2. \E readable \in (IF loaded THEN {TRUE} ELSE Outcomes("load")), saved \in Outcomes("save") :
          BeforeModel(readable, saved)
    BY DEF Next, Prompt, Answer, AfterModel, CallTools, ReserveFor, Emit, Advance, Respond, EndRun, Restart
  <2> HIDE DEF Reached
  <2> QED BY <2>1, <2>2
<1>3. ConversationInv /\ [Next]_vars => [phase = "before" /\ phase' = "model" =>
       LET size == Calibrated(Tokens(request'), Factor(durable')) IN
       \/ size <= Target \/ NothingLeft(request')
       \/ size < Trigger /\ durable' \in {Decisions(TRUE), Decisions(FALSE)}]_vars
  BY <1>2
<1> QED BY <1>3, ConversationStays, PTL DEF Spec, ReachesTarget

-----------------------------------------------------------------------------
(* What a request is.                                                      *)

(* The active turn begins at the last prompt.                              *)
LEMMA TheGreatest ==
  ASSUME NEW n \in Nat, NEW s \in SUBSET (1..n), NEW e \in s,
         NEW active, active = CHOOSE i \in s : \A other \in s : other <= i
  PROVE  active \in s /\ e <= active
<1>1. PICK x \in s : \A y \in s : x >= y
  BY GreatestExists
<1>2. \A y \in s : y <= x
  <2>1. \A y \in s : y \in Int
    OBVIOUS
  <2> QED BY <1>1, <2>1
<1>3. active \in s /\ \A other \in s : other <= active
  BY <1>2
<1> QED BY <1>3

(* A request that shows a conversation tells it in order, as it is but for *)
(* elided bodies.                                                          *)
LEMMA FaithfulIfShown ==
  ASSUME contents \in Seq(Said), Told(contents), request \in Seq(Said), Shows(contents, request)
  PROVE  Faithful
<1> SUFFICES ASSUME NEW i \in DOMAIN request
             PROVE  LET shown == request[i]
                        told == contents[shown.at] IN
                    /\ i > 1 => request[i - 1].at < shown.at
                    /\ [shown EXCEPT !.parts = [j \in DOMAIN @ |-> [@[j] EXCEPT !.elided = FALSE]]] = told
  BY DEF Faithful
<1> DEFINE shown == request[i]
           told == contents[shown.at]
           bodies == [j \in DOMAIN shown.parts |-> [shown.parts[j] EXCEPT !.elided = FALSE]]
<1>1. i \in 1..Len(request) /\ shown \in Said
  OBVIOUS
<1>2. Likeness(contents, request) /\ Ascending(request)
  BY DEF Shows
<1>3. i > 1 => request[i - 1].at < shown.at
  <2>1. i > 1 => i - 1 \in 1..Len(request) /\ i - 1 < i
    BY <1>1
  <2> QED BY <1>1, <1>2, <2>1 DEF Ascending
<1>4. shown.at \in 1..Len(contents) /\ Same(told, shown)
  BY <1>1, <1>2 DEF Likeness
<1>5. told \in Said /\ \A j \in 1..Len(told.parts) : told.parts[j].elided = FALSE
  BY <1>4 DEF Told
<1> HIDE DEF shown, told
<1>6. shown.parts \in Seq(Part) /\ told.parts \in Seq(Part)
  BY <1>1, <1>5 DEF Said
<1>7. DOMAIN shown.parts = 1..Len(told.parts) /\ DOMAIN told.parts = 1..Len(told.parts)
      /\ \A j \in 1..Len(told.parts) : told.parts[j] \in Part
  BY <1>4, <1>6 DEF Same
<1>8. \A part \in Part : part.elided = FALSE =>
        /\ [part EXCEPT !.elided = FALSE] = part
        /\ [[part EXCEPT !.elided = TRUE] EXCEPT !.elided = FALSE] = part
  BY DEF Part
<1>9. \A j \in 1..Len(told.parts) : [shown.parts[j] EXCEPT !.elided = FALSE] = told.parts[j]
  <2> TAKE j \in 1..Len(told.parts)
  <2>1. told.parts[j] \in Part /\ told.parts[j].elided = FALSE
    BY <1>5, <1>7
  <2>2. shown.parts[j] = told.parts[j] \/ shown.parts[j] = [told.parts[j] EXCEPT !.elided = TRUE]
    BY <1>4 DEF Same
  <2> QED BY <1>8, <2>1, <2>2
<1>10. bodies = told.parts
  <2>1. bodies = [j \in 1..Len(told.parts) |-> told.parts[j]]
    BY <1>7, <1>9
  <2>2. \A t \in Seq(Part) : t = [j \in 1..Len(t) |-> t[j]]
    OBVIOUS
  <2> QED BY <1>6, <2>1, <2>2
<1> HIDE DEF bodies
<1>11. [shown EXCEPT !.parts = bodies] = told
  BY <1>1, <1>4, <1>5, <1>10 DEF Same, Said
<1> QED BY <1>3, <1>11 DEF shown, told, bodies

(* And it leaves what is protected in place.                               *)
LEMMA ProtectedIfShown ==
  ASSUME contents \in Seq(Said), Told(contents), request \in Seq(Said), Shows(contents, request)
  PROVE  Protected
<1> DEFINE m == Len(contents)
           n == Len(request)
           prompts == Starts(Original)
           active == CHOOSE i \in prompts : \A other \in prompts : other <= i
<1>1. Ends(contents, request) /\ Likeness(contents, request) /\ Recent(contents, request)
      /\ Omissions(contents, request)
  BY DEF Shows
<1>2. m \in Nat /\ n \in Nat /\ m >= 1 /\ n >= 1 /\ KeepRecent \in Nat /\ DOMAIN request = 1..n /\ DOMAIN contents = 1..m
  BY <1>1, PolicyAssumption DEF Ends
<1>3. Upto(request) = m
  BY <1>1 DEF Ends, Upto
<1>4. Original = contents
  <2>1. \A t \in Seq(Said) : SubSeq(t, 1, Len(t)) = t
    OBVIOUS
  <2> QED BY <1>3, <2>1 DEF Original
<1>5. ASSUME NEW d \in Dropped(request)
      PROVE  d \in 1..m /\ d # 1 /\ ~(d > m - KeepRecent) /\ d < active /\ active \in Nat /\ Omissible(contents, d)
  <2>1. d \in 1..m /\ d \notin Kept(request)
    BY <1>3 DEF Dropped
  <2>2. d # 1
    BY <1>1, <1>2, <2>1 DEF Ends, Kept
  <2>3. ASSUME d > m - KeepRecent PROVE FALSE
    <3>1. n - (m - d) >= 1 /\ request[n - (m - d)].at = d
      BY <1>1, <2>1, <2>3 DEF Recent
    <3>2. n - (m - d) \in 1..n
      BY <1>2, <2>1, <3>1
    <3> QED BY <1>2, <2>1, <3>1, <3>2 DEF Kept
  <2>4. Omissible(contents, d)
    BY <1>1, <2>1 DEF Omissions
  <2>5. PICK s \in prompts : d < s
    BY <1>4, <2>4 DEF Omissible
  <2>6. prompts \in SUBSET (1..m)
    BY <1>2, <1>4 DEF Starts
  <2> HIDE DEF prompts
  <2>7. s <= active /\ active \in prompts
    BY <1>2, <2>5, <2>6, TheGreatest
  <2> HIDE DEF active
  <2>8. active \in Nat /\ s \in Nat /\ d \in Nat
    BY <2>1, <2>5, <2>6, <2>7
  <2>9. d < active
    BY <2>5, <2>7, <2>8
  <2> QED BY <2>1, <2>2, <2>3, <2>4, <2>8, <2>9
<1>6. Dropped(request) \cap ({1} \cup (m - KeepRecent + 1)..m \cup (active..m)) = {}
  <2> SUFFICES ASSUME NEW d \in Dropped(request), d \in (m - KeepRecent + 1)..m \/ d \in active..m PROVE FALSE
    BY <1>5
  <2>1. d \in 1..m /\ ~(d > m - KeepRecent) /\ d < active /\ active \in Nat
    BY <1>5
  <2> HIDE DEF active
  <2>2. ~(d \in (m - KeepRecent + 1)..m)
    BY <1>2, <2>1
  <2>3. ~(d \in active..m)
    BY <2>1
  <2> QED BY <2>2, <2>3
<1>7. \A turn \in CompleteTurns(Original) :
        PreservedTool(Original, turn) => Dropped(request) \cap turn.first..turn.last = {}
  BY <1>4, <1>5 DEF Omissible
<1>8. ASSUME NEW at \in Elided(request)
      PROVE  at[1] \notin {1} \cup (m - KeepRecent + 1)..m /\ PartAt(contents, at).name \notin Preserve
  <2>1. PICK x \in Parts(request) : PartAt(request, x).elided /\ at = <<request[x[1]].at, x[2]>>
    BY DEF Elided
  <2> DEFINE i == x[1]
             j == x[2]
             shown == request[i]
             told == contents[shown.at]
  <2>2. i \in 1..n /\ j \in 1..Len(shown.parts) /\ PartAt(request, x) = shown.parts[j]
    BY PlaceHasPart DEF PartAt
  <2>3. shown.at \in 1..m /\ Same(told, shown)
        /\ (shown.at = 1 \/ shown.at > m - KeepRecent => shown = told)
    BY <1>1, <2>2 DEF Likeness
  <2>4. at[1] = shown.at /\ at[2] = j /\ PartAt(contents, at) = told.parts[j] /\ shown.parts[j].elided
    BY <2>1, <2>2 DEF PartAt
  <2>5. \A b \in 1..Len(told.parts) : told.parts[b].elided = FALSE
    BY <2>3 DEF Told
  <2> HIDE DEF told, shown
  <2>6. j \in 1..Len(told.parts)
    BY <2>2, <2>3 DEF Same
  <2>7. shown.parts[j] # told.parts[j]
    BY <2>4, <2>5, <2>6
  <2>8. told.parts[j].name \notin Preserve
    BY <2>3, <2>6, <2>7 DEF Same
  <2>9. shown.at # 1 /\ ~(shown.at > m - KeepRecent)
    BY <2>3, <2>7
  <2>10. shown.at \notin (m - KeepRecent + 1)..m
    BY <1>2, <2>3, <2>9
  <2> QED BY <2>4, <2>8, <2>9, <2>10
<1> HIDE DEF m
<1> QED BY <1>3, <1>6, <1>7, <1>8 DEF Protected

(* And a call with its response.                                           *)
LEMMA PairsIfShown ==
  ASSUME contents \in Seq(Said), Told(contents), request \in Seq(Said), Shows(contents, request)
  PROVE  PairsWhole
<1> DEFINE m == Len(contents)
<1>1. Ends(contents, request) /\ Pairs(contents, request)
  BY DEF Shows
<1>2. Upto(request) = m
  BY <1>1 DEF Ends, Upto
<1>3. Original = contents
  <2>1. \A t \in Seq(Said) : SubSeq(t, 1, Len(t)) = t
    OBVIOUS
  <2> QED BY <1>2, <2>1 DEF Original
<1>4. ASSUME NEW side \in Sides(contents)
      PROVE  /\ side.at \in Tools(contents) /\ side.key = PairKey(contents, side.at)
             /\ side.at[1] \in Dropped(request) <=> side.at[1] \notin Kept(request)
  <2>1. PICK x \in Tools(contents) : side = [key |-> PairKey(contents, x), form |-> PartAt(contents, x).form, at |-> x]
    BY DEF Sides, Tools
  <2>2. x[1] \in 1..m
    BY PlaceHasPart DEF Tools
  <2> QED BY <1>2, <2>1, <2>2 DEF Dropped
<1>5. ASSUME NEW side \in Sides(contents), NEW other \in Sides(contents), side.key = other.key
      PROVE  side.at[1] \in Dropped(request) <=> other.at[1] \in Dropped(request)
  <2>1. side.at[1] \in Kept(request) <=> other.at[1] \in Kept(request)
    BY <1>1, <1>4, <1>5 DEF Pairs
  <2> QED BY <1>4, <2>1
<1> QED BY <1>3, <1>5 DEF PairsWhole

(* Every request shows the session's conversation in order, its contents   *)
(* as they were told but for elided bodies of responses; the first         *)
(* content, the recent ones, the active turn, and the turns and bodies of  *)
(* preserved tools are there and whole, and a call is there with its       *)
(* response or not at all.                                                 *)
THEOREM RequestIsFaithful == Spec => [](phase = "model" => Faithful /\ Protected /\ PairsWhole)
<1>1. ConversationInv => (phase = "model" => Faithful /\ Protected /\ PairsWhole)
  BY FaithfulIfShown, ProtectedIfShown, PairsIfShown DEF ConversationInv, Requests
<1> QED BY <1>1, ConversationStays, PTL
=============================================================================
