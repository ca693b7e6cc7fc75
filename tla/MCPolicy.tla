--------------------------------- MODULE MCPolicy ---------------------------------
(***************************************************************************)
(* The policy store and the engine that decides under what a run loaded     *)
(* from it.  Four requests to the store, three of which can overlap in every *)
(* way, and a run; and, of a run that loaded the default file from an empty  *)
(* store, every authorization request of a bounded set, compared with        *)
(* order-independent statements of what an approval means.                  *)
(***************************************************************************)
EXTENDS PolicyStore, PolicyEngine, TLC

CONSTANTS p1, p2, p3, p4, Configs, Amounts, Counts, CheckoutCounts, Hours, Confidences, Reasons

VARIABLE request  \* the policy and the context the engine was asked about, or <<>>

MCVars == <<vars, request>>

policy == request[1]
ctx == request[2]

MCSymmetry == Permutations({p1, p2, p3, p4})

ASSUME ConfigsAssumption == Configs \subseteq PolicyConfig

ASSUME ContextsAssumption ==
  /\ Amounts \subseteq Int /\ Counts \subseteq Nat /\ CheckoutCounts \subseteq Nat
  /\ Hours \subseteq Nat \union {None} /\ Confidences \subseteq Percent \union {None}
  /\ Reasons \subseteq FailureReasons

MCPolicy(optOut) ==
  [max_retries |-> 2, max_auto_recovery_amount |-> 3, min_retry_interval |-> 24,
   max_messages_per_case |-> 2, max_recovery_messages |-> 1, min_checkout_amount |-> 2,
   unknown_failure |-> TRUE, low_confidence_threshold |-> 50,
   stop_on_payment_success |-> optOut, stop_on_opt_out |-> optOut,
   stop_on_suspension |-> TRUE]

MCConfigs == {MCPolicy(TRUE), MCPolicy(FALSE)}
MCAmounts == {0, 1, 2, 4}
MCCounts == 1 .. 3
MCCheckoutCounts == 0 .. 2
MCHours == {None, 23, 24}
MCConfidences == {None, 49, 50}
MCReasons == {"BANK_DECLINE", "UNKNOWN"}

\* The requests: one action of each kind the checks tell apart, every flag, and the
\* values of each number on both sides of its limit.
Contexts ==
  [action_type : {"retry_payment", "send_payment_reminder", "send_checkout_recovery",
                  "request_payment_method_update"},
   amount : Amounts, amount_is_number : {TRUE}, retry_count : Counts,
   communication_count : Counts, checkout_messages : CheckoutCounts,
   opted_out : BOOLEAN, suspended : {FALSE}, recovered : BOOLEAN, succeeded : BOOLEAN,
   failure_reason : Reasons, hours_since_last : Hours, confidence : Confidences,
   timeout_elapsed : {TRUE}]

\* The same requests again, from callers that pass a wrong amount, for a suspended
\* customer, or before the checkout timeout.
Requests ==
  LET ordinary == {c \in Contexts : c.communication_count = c.retry_count}
  IN  ordinary \union {[c EXCEPT !.amount_is_number = FALSE] : c \in ordinary}
               \union {[c EXCEPT !.suspended = TRUE] : c \in ordinary}
               \union {[c EXCEPT !.timeout_elapsed = FALSE] : c \in ordinary}

MCInit == Init /\ request = <<>>

Asked == request # <<>>

Step == ~Asked /\ Next /\ UNCHANGED request

\* The node policy_check of a run that has its policy.
AskEngine ==
  /\ ~Asked
  /\ \A p \in Policies : post[p].at = "idle"
  /\ \E r \in Runs : run[r].at = "deciding"
  /\ \E p \in Configs, c \in Requests : request' = <<p, c>>
  /\ UNCHANGED vars

MCSpec == MCInit /\ [][Step \/ AskEngine]_MCVars

Verdict(c) == Authorize(policy, c).decision

-----------------------------------------------------------------------------
\* Approval, restated without the order of the checks: an action is approved exactly
\* when the case is open, the customer may be contacted, the amount is a positive number
\* within the automatic limit, and the budget of this kind of action is not used up.
ApprovedExactlyWithinLimits ==
  Asked =>
  LET c == ctx
      p == policy
      open     == ~c.recovered /\ ~(c.succeeded /\ p.stop_on_payment_success)
      customer == (c.opted_out => ~p.stop_on_opt_out)
                    /\ (c.suspended => ~p.stop_on_suspension)
      amount   == c.amount_is_number /\ c.amount \in 1 .. p.max_auto_recovery_amount
      retry    == /\ p.max_retries - c.retry_count > 0
                  /\ \/ c.hours_since_last = None
                     \/ c.hours_since_last >= p.min_retry_interval
      message  == p.max_messages_per_case - c.communication_count > 0
      checkout == /\ c.timeout_elapsed
                  /\ c.amount >= p.min_checkout_amount
                  /\ p.max_recovery_messages - c.checkout_messages > 0
      known    == /\ c.failure_reason = "UNKNOWN" => ~p.unknown_failure
                  /\ c.confidence \in {None} \union (p.low_confidence_threshold .. 100)
  IN  Verdict(c) = "APPROVED" <=>
        /\ open /\ customer /\ amount /\ known
        /\ c.action_type \in RetryActions => retry
        /\ c.action_type \in MessageActions => message
        /\ c.action_type = "send_checkout_recovery" => checkout

\* Using up budget never unlocks an action: if a request is refused, the same request
\* after one more retry or message (of either count) is refused as well.
UsageNeverUnlocks ==
  Asked /\ Verdict(ctx) # "APPROVED" =>
    \A used \in {[ctx EXCEPT !.retry_count = @ + 1],
                 [ctx EXCEPT !.communication_count = @ + 1],
                 [ctx EXCEPT !.checkout_messages = @ + 1]} :
      Verdict(used) # "APPROVED"

\* An approval is what the limits allow, and stays so as the budget is used up.
ApprovalsAreExact == ApprovedExactlyWithinLimits /\ UsageNeverUnlocks

\* Who must be left alone is never handed on: a resolved case is always STOP, and an
\* opted-out or suspended customer is DENIED for every kind of action (never escalated
\* to a person who would call them), whatever other limits the request also breaks.
LeftAloneBeatsEveryOtherRule ==
  Asked =>
  LET resolved == ctx.recovered \/ (ctx.succeeded /\ policy.stop_on_payment_success)
      barred   == \/ ctx.opted_out /\ policy.stop_on_opt_out
                  \/ ctx.suspended /\ policy.stop_on_suspension
  IN  /\ resolved <=> Verdict(ctx) = "STOP"
      /\ ~resolved /\ barred => Verdict(ctx) = "DENIED"

=============================================================================
