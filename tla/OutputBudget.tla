---------------------------- MODULE OutputBudget ----------------------------
(***************************************************************************)
(* outputlimit.Budget, for one session: the sessions are separate keys of  *)
(* the same maps.  The mutex makes every method one step.                  *)
(***************************************************************************)
EXTENDS Integers, Functions

CONSTANTS PerSession,          \* the bytes of a session, at least 1 after NewBudget
          MinimumBudgetGrant,  \* what a small remainder may be granted in one go
          MaxReservations      \* bounds nextID

ASSUME BudgetAssumption == /\ PerSession \in Nat \ {0}
                           /\ MinimumBudgetGrant \in Nat \ {0}
                           /\ MaxReservations \in Nat

VARIABLES used, reserved, pending, nextID
budgetVars == <<used, reserved, pending, nextID>>

NoGrants == [id \in {} |-> 0]
NewBudget == used = 0 /\ reserved = 0 /\ pending = NoGrants /\ nextID = 0

Remaining == PerSession - used - reserved
Least(a, b) == IF a < b THEN a ELSE b
Most(a, b) == IF a < b THEN b ELSE a

(* The grant of a Reserve; its ID is nextID', or 0 with no grant.          *)
GrantOf_Bug(want) == Least(want, Most(Remaining \div 2, MinimumBudgetGrant))  \* beyond what remains
GrantOf(want) == Least(want, Least(Remaining, Most(Remaining \div 2, MinimumBudgetGrant)))

Refused(want) == want <= 0 \/ Remaining <= 0
Reserve(want) ==
  IF Refused(want) THEN UNCHANGED budgetVars
  ELSE /\ nextID' = nextID + 1
       /\ reserved' = reserved + GrantOf(want)
       /\ pending' = [id \in DOMAIN pending \cup {nextID'} |->
                        IF id = nextID' THEN GrantOf(want) ELSE pending[id]]
       /\ UNCHANGED used

(* An ID that is not pending, or no longer since a Reset, has no grant.    *)
GrantFor(id) == IF id \in DOMAIN pending THEN pending[id] ELSE 0
Charged(id, emitted) ==
  LET grant == GrantFor(id)
      clipped == IF grant > 0 THEN Least(emitted, grant) ELSE emitted IN
  Least(clipped, Remaining + grant)

Consume_Bug(id, emitted) ==  \* gives back only what was emitted
  /\ pending' = Restrict(pending, DOMAIN pending \ {id})
  /\ reserved' = reserved - Least(emitted, GrantFor(id))
  /\ used' = IF Charged(id, emitted) > 0 THEN used + Charged(id, emitted) ELSE used
  /\ UNCHANGED nextID
Consume(id, emitted) ==
  /\ pending' = Restrict(pending, DOMAIN pending \ {id})
  /\ reserved' = reserved - GrantFor(id)
  /\ used' = IF Charged(id, emitted) > 0 THEN used + Charged(id, emitted) ELSE used
  /\ UNCHANGED nextID

Reset == used' = 0 /\ reserved' = 0 /\ pending' = NoGrants /\ UNCHANGED nextID

BudgetNext ==
  \/ \E want \in 0..PerSession : nextID < MaxReservations /\ Reserve(want)
  \/ \E id \in 0..nextID, emitted \in 0..PerSession : Consume(id, emitted)
  \/ Reset

BudgetSpec == NewBudget /\ [][BudgetNext]_budgetVars

(* The abstract view: outstanding grants are promises.                     *)
Promises == INSTANCE Allowance WITH Limit <- PerSession, spent <- used, promised <- reserved

(* The budget keeps the promises of Allowance whatever the order in which  *)
(* tools reserve, settle late or twice and compaction resets.              *)
KeepsPromises == Promises!Spec
=============================================================================
