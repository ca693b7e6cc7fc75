------------------------------ MODULE MCBatchSimulation ------------------------------
(* A batch that fits the columns and one that does not; the first draw lets its payment *)
(* through, the second stands just above the cap of the probabilities.  Under policy p  *)
(* the agent's second answer can vary; r is a policy that cannot be read.               *)
EXTENDS BatchSimulation

CONSTANTS p, q, r

Event(reason, segment, amount, draw) ==
  [reason |-> reason, segment |-> segment, amount |-> amount, draw |-> draw]

MCBatches ==
  {<<Event("GATEWAY_TEMPORARY", "enterprise", 1, 8000),
     Event("GATEWAY_TEMPORARY", "premium", 2, 9900)>>,
   <<Event("GATEWAY_TEMPORARY", "enterprise", 11, 8000)>>}

Outcome(recovered, escalated, raises) ==
  [recovered |-> recovered, escalated |-> escalated, raises |-> raises]

MCAgents ==
  LET won == Outcome(TRUE, FALSE, FALSE)
      escalated == Outcome(FALSE, TRUE, FALSE)
      raised == Outcome(FALSE, FALSE, TRUE)
  IN  {[x \in Policies |-> IF x = p THEN <<{won}, {escalated, won}>> ELSE other] :
       other \in {<<{escalated}, {won}>>, <<{escalated}, {escalated, raised}>>}}
=============================================================================
