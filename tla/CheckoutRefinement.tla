------------------------- MODULE CheckoutRefinement -------------------------
(* The detailed checkout implements the checkout steps of RecoveryService:  *)
(* seen from one case, TheCase, it is that module with no agent run in it.  *)
EXTENDS CheckoutReconciliation

CONSTANT TheCase

ASSUME TheCaseAssumption == TheCase \in Cases

\* The columns of the case row that RecoveryService has.
ServiceRow ==
  [status |-> case[TheCase].status, recovered |-> case[TheCase].recovered,
   stopped |-> case[TheCase].stopped, retries |-> 0, messages |-> 0,
   amount |-> case[TheCase].payment # None, order |-> case[TheCase].order # None]

ServiceAudit ==
  (IF ledger[TheCase].escalated THEN {"ESCALATED"} ELSE {})
    \union (IF ledger[TheCase].recovered > 0 THEN {"PAYMENT_SUCCESS", "REVENUE_RECOVERED"}
            ELSE {})

\* A customer has paid the order the case stores.
OrderIsPaid ==
  \E p \in Payments : /\ payments[p].order = case[TheCase].order
                      /\ payments[p].status \in {"captured", "refunded"}

\* The checkout as RecoveryService has it: one atomic step each to create the order, to pay
\* it and to reconcile it.
Service == INSTANCE RecoveryService WITH
  Runs <- {}, Backend <- "inline", Provider <- "razorpay_test", RetryLimit <- 3,
  MaxReplans <- 3, TaskRetries <- 0, MaxCrashes <- 0,
  case <- ServiceRow, audit <- ServiceAudit, captured <- OrderIsPaid,
  payments <- IF OrderIsPaid THEN 1 ELSE 0, charges <- 0, keys <- {}, crashes <- 0,
  row <- [r \in {} |-> "none"], job <- [r \in {} |-> "none"],
  loaded <- [r \in {} |-> "none"], agent <- [r \in {} |-> "none"]

\* Every step of the checkout, of whatever request and provider call, is for the case a step
\* of the recovery service or none: payments and recoveries take place one at a time there.
ImplementsService == Service!Init /\ [][Service!Next]_(Service!vars)

=============================================================================
