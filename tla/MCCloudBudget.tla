--------------------------- MODULE MCCloudBudget ---------------------------
(* CloudBudgetGate over two days of one month. *)
EXTENDS CloudBudget, TLC

MCMonthOf == [d \in Days |-> 1]

=============================================================================
