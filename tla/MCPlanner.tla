--------------------------------- MODULE MCPlanner ---------------------------------
(* A model whose diagnoses and proposals are right, wrong, or name another reason in the *)
(* label of the diagnosis.                                                               *)
EXTENDS Planner

MCDiagnoses ==
  [category : {"UNKNOWN", "BANK_DECLINE"}, label : {None, "CHECKOUT_ABANDONED"},
   strategy : {"RETRY_NOW", "ESCALATE"}, confidence : {0, Scale}, review : {FALSE},
   by : {"model"}]

MCProposals ==
  [strategy : {"SCHEDULE_RETRY", "REMINDER"}, delay : {None, 72}, expected : {10 ^ 9},
   confidence : {Scale}, by : {"model"}]
=============================================================================
