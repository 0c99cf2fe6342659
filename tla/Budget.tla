------------------------------- MODULE Budget -------------------------------
(***************************************************************************)
(* What a budget-scoped resolver promises its caller, with nothing of how  *)
(* it keeps the promise: one resolution stays pending until an answer      *)
(* arrives or the budget is used up, "the only two possible outcomes" of   *)
(* HedgedResolver (hedged.rs), unless the caller drops the future first.   *)
(* Hedged implements this specification; Chain is written on top of it.    *)
(***************************************************************************)
EXTENDS Naturals

CONSTANT Deadline   \* the instant at which the budget is used up

VARIABLES now,      \* the clock
          verdict   \* what the caller has seen of the resolution

budgetVars == <<now, verdict>>

Verdicts == {"pending", "ok", "err", "dropped"}

BudgetInit == now = 0 /\ verdict = "pending"

\* Time passes, whatever the state of the resolution.
Elapse == now' > now /\ UNCHANGED verdict

\* An attempt delivered an answer, at any time.
Answer == verdict = "pending" /\ verdict' = "ok" /\ UNCHANGED now

\* The resolver gives up; an active error is not a final verdict, so never
\* before the deadline.
GiveUp == /\ verdict = "pending"
          /\ now >= Deadline
          /\ verdict' = "err"
          /\ UNCHANGED now

\* The caller drops the future: its own timeout, or a shutdown.
Abandon == verdict = "pending" /\ verdict' = "dropped" /\ UNCHANGED now

BudgetNext == Elapse \/ Answer \/ GiveUp \/ Abandon

BudgetSafety == BudgetInit /\ [][BudgetNext]_budgetVars

\* A resolution ends: HedgedResolver::resolve_attributed returns, or is dropped.
BudgetEnds == <>(verdict # "pending")

BudgetSpec == BudgetSafety /\ BudgetEnds
=============================================================================
