------------------------------ MODULE AgentContract ------------------------------
(***************************************************************************)
(* What one agent run promises the service that started it, whatever the    *)
(* planner proposes: the run spends money and messages only within the      *)
(* retry limit and the replan budget, touches nothing after a charge has    *)
(* gone through or on a case that was already recovered, and, if it ends    *)
(* normally, reports "recovered" exactly when one of its charges succeeded  *)
(* and otherwise hands an open case to a person.  A run may also raise at   *)
(* any moment and then reports nothing.                                     *)
(*                                                                         *)
(* The state is one record, so that RecoveryService can hold one contract   *)
(* per run and RecoveryAgent can be mapped onto it.                         *)
(***************************************************************************)
EXTENDS Naturals

CONSTANTS Limits,      \* the retry limits a policy may set
          Counts,      \* the stored counters a run may start from
          MaxReplans   \* max_replans of make_initial_state

VARIABLE run

\* limit and found never change: the policy's max_retries, and how the run found the case:
\* open, already recovered, or void (already paid, or worth nothing).
RunStates ==
  [status : {"running", "finished", "raised"}, limit : Nat,
   found : {"open", "recovered", "void"}, retries : Nat, messages : Nat, actions : Nat,
   paid : BOOLEAN,
   result : {"none", "recovered", "escalated", "stopped"}]

FreshRun(limit, retries, messages, found) ==
  [status |-> "running", limit |-> limit, found |-> found, retries |-> retries,
   messages |-> messages, actions |-> 0, paid |-> FALSE, result |-> "none"]

\* Seeded fault: a run goes on after a charge that went through.
MayActAfterPayment(r) ==
  r.status = "running" /\ r.found = "open" /\ r.actions <= MaxReplans

MayAct(r) ==
  r.status = "running" /\ r.found = "open" /\ ~r.paid /\ r.actions <= MaxReplans

\* A charge through the payment provider, which succeeds or does not.
Charged(r) ==
  IF MayAct(r) /\ r.retries < r.limit
  THEN {[r EXCEPT !.retries = @ + 1, !.actions = @ + 1, !.paid = p] : p \in BOOLEAN}
  ELSE {}

\* A message to the customer.
Messaged(r) ==
  IF MayAct(r) THEN {[r EXCEPT !.messages = @ + 1, !.actions = @ + 1]} ELSE {}

\* The run ends and reports.  One that found the case recovered carries an escalation
\* reason and no verification, so its report is an escalation.
Finished(r) ==
  IF r.status # "running" THEN {}
  ELSE {[r EXCEPT !.status = "finished",
                  !.result = CASE r.paid           -> "recovered"
                               [] r.found = "void" -> "stopped"
                               [] OTHER            -> "escalated"]}

\* The run raises instead of reporting.
Raised(r) ==
  IF r.status # "running" THEN {} ELSE {[r EXCEPT !.status = "raised"]}

Successors(r) == Charged(r) \union Messaged(r) \union Finished(r) \union Raised(r)

Init ==
  \E limit \in Limits, retries \in Counts, messages \in Counts,
     found \in {"open", "recovered", "void"} :
    run = FreshRun(limit, retries, messages, found)

Next == run' \in Successors(run)

Spec == Init /\ [][Next]_run

=============================================================================
