-------------------------------- MODULE Books --------------------------------
(***************************************************************************)
(* What Ledger and Planning have in common: transactions have ids and      *)
(* amounts, a row is deleted by marking it, and every figure is a sum that *)
(* a query takes over rows.                                                *)
(***************************************************************************)
EXTENDS Integers, FiniteSets, FiniteSetsExt, Functions

CONSTANTS Ids,
          Amounts, \* what users enter
          MaxSteps \* bound on operations

ASSUME BooksAssumption ==
    IsFiniteSet(Ids) /\ Amounts \subseteq Nat \ {0} /\ MaxSteps \in Nat

VARIABLE steps

None == "none"
States == {"absent", "live", "deleted"}

\* SUM: the values of a function over some of its arguments.
Sum(F, S) == SumFunctionOnSet(F, S)

Step == steps < MaxSteps /\ steps' = steps + 1

=============================================================================
