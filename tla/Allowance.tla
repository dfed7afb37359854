----------------------------- MODULE Allowance -----------------------------
(***************************************************************************)
(* What outputlimit.Budget promises the tools of one session: they share   *)
(* an allowance of Limit bytes.  A promise never goes beyond what is left, *)
(* a tool that settles gives back what it was promised and spends at most  *)
(* as much, and only a renewal gives anything back besides.                *)
(***************************************************************************)
EXTENDS Integers

CONSTANT Limit

VARIABLES spent, promised
vars == <<spent, promised>>

Init == spent = 0 /\ promised = 0

Promise == promised' - promised \in 1..(Limit - spent - promised) /\ UNCHANGED spent
Settle == promised' < promised /\ spent' - spent \in 0..(promised - promised')
(* What a tool emits with no promise left to settle.                       *)
Charge == spent' - spent \in 1..(Limit - spent - promised) /\ UNCHANGED promised
Renew == spent' = 0 /\ promised' = 0

Next == Promise \/ Settle \/ Charge \/ Renew
Spec == Init /\ [][Next]_vars

(* The bytes spent and promised since the last renewal are within the      *)
(* allowance (Budget, "without exceeding its hard limit").                 *)
Within == spent + promised <= Limit
=============================================================================
