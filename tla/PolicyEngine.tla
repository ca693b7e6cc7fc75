------------------------------ MODULE PolicyEngine ------------------------------
(***************************************************************************)
(* The deterministic authorization gate of policies/engine/policy_engine.py *)
(* as pure operators over a policy p (PolicyConfig) and a context c         *)
(* (AuthorizationContext).  Every check of _run_pipeline is one operator;   *)
(* Pipeline lists them in the order the code runs them and Authorize        *)
(* returns the verdict of the first check that applies.                     *)
(*                                                                         *)
(* Amounts are paise, hours whole hours, confidences and thresholds whole   *)
(* percents (the code compares them only with <).  Reasons, policy ids and  *)
(* versions are left out: a verdict is a decision and a violation code.     *)
(***************************************************************************)
EXTENDS Integers, Sequences

\* Python's None in an optional number (hours and confidences are never negative).
None == -1

RetryActions == {"retry_payment", "schedule_retry"}

MessageActions ==
  {"send_payment_reminder", "send_checkout_recovery", "change_communication_channel"}

ActionTypes ==
  RetryActions \union MessageActions \union
  {"request_payment_method_update", "create_promise_to_pay", "escalate_to_human"}

FailureReasons ==
  {"INSUFFICIENT_FUNDS", "EXPIRED_METHOD", "GATEWAY_TEMPORARY", "BANK_DECLINE",
   "AUTH_FAILURE", "MANDATE_FAILURE", "SUBSCRIPTION_GRACE", "CHECKOUT_ABANDONED", "UNKNOWN"}

Percent == 0 .. 100

\* The fields of PolicyConfig the engine reads, with the ranges its schema enforces.
PolicyConfig ==
  [max_retries : 0 .. 10, max_auto_recovery_amount : Nat, min_retry_interval : Nat,
   max_messages_per_case : 0 .. 10, max_recovery_messages : 0 .. 5,
   min_checkout_amount : Nat, unknown_failure : BOOLEAN,
   low_confidence_threshold : Percent, stop_on_payment_success : BOOLEAN,
   stop_on_opt_out : BOOLEAN, stop_on_suspension : BOOLEAN]

\* What the caller tells the engine.  amount_is_number is FALSE when the caller passed
\* something Python cannot compare with an integer.
AuthorizationContext ==
  [action_type : ActionTypes, amount : Int, amount_is_number : BOOLEAN,
   retry_count : Nat, communication_count : Nat, checkout_messages : Nat,
   opted_out : BOOLEAN, suspended : BOOLEAN, recovered : BOOLEAN, succeeded : BOOLEAN,
   failure_reason : FailureReasons, hours_since_last : Nat \union {None},
   confidence : Percent \union {None}, timeout_elapsed : BOOLEAN]

Decisions == {"APPROVED", "DENIED", "ESCALATE", "STOP"}

-----------------------------------------------------------------------------
(* The checks of _run_pipeline.                                             *)

\* Seeded fault: an opt-out only stops messages.
OptedOutOfMessages(p, c) ==
  p.stop_on_opt_out /\ c.opted_out /\ c.action_type \in MessageActions

PaymentSucceeded(p, c) == p.stop_on_payment_success /\ c.succeeded

OptedOut(p, c) == p.stop_on_opt_out /\ c.opted_out

Suspended(p, c) == p.stop_on_suspension /\ c.suspended

AmountExceedsLimit(p, c) == c.amount > p.max_auto_recovery_amount

\* Seeded fault: the limit is off by one.
RetriesExhaustedLate(p, c) ==
  c.action_type \in RetryActions /\ c.retry_count > p.max_retries

RetriesExhausted(p, c) ==
  c.action_type \in RetryActions /\ c.retry_count >= p.max_retries

\* Seeded fault: the cap is off by one.
MessagesExhaustedLate(p, c) ==
  c.action_type \in MessageActions /\ c.communication_count > p.max_messages_per_case

MessagesExhausted(p, c) ==
  c.action_type \in MessageActions /\ c.communication_count >= p.max_messages_per_case

IsCheckout(c) == c.action_type = "send_checkout_recovery"

CheckoutAmountTooLow(p, c) == IsCheckout(c) /\ c.amount < p.min_checkout_amount

CheckoutMessagesExhausted(p, c) ==
  IsCheckout(c) /\ c.checkout_messages >= p.max_recovery_messages

\* An unknown last attempt (None) passes: the code only checks a known one.
IntervalNotSatisfied(p, c) ==
  /\ c.action_type \in RetryActions
  /\ c.hours_since_last # None
  /\ c.hours_since_last < p.min_retry_interval

UnknownFailure(p, c) == c.failure_reason = "UNKNOWN" /\ p.unknown_failure

LowConfidence(p, c) ==
  c.confidence # None /\ c.confidence < p.low_confidence_threshold

Check(applies, decision, code) ==
  [applies |-> applies, decision |-> decision, code |-> code]

\* The checks in the order of the code.  The fifth stands for the exception handler of
\* authorize: the first numeric comparison raises and the engine fails closed.
Pipeline(p, c) ==
  << Check(c.recovered, "STOP", "CASE_ALREADY_RECOVERED"),
     Check(PaymentSucceeded(p, c), "STOP", "PAYMENT_ALREADY_SUCCEEDED"),
     Check(OptedOut(p, c), "DENIED", "CUSTOMER_OPT_OUT"),
     Check(Suspended(p, c), "DENIED", "CUSTOMER_SUSPENDED"),
     Check(~c.amount_is_number, "ESCALATE", "POLICY_ENGINE_UNEXPECTED_ERROR"),
     Check(AmountExceedsLimit(p, c), "ESCALATE", "AMOUNT_EXCEEDS_AUTO_LIMIT"),
     Check(c.amount <= 0, "DENIED", "INVALID_AMOUNT"),
     Check(RetriesExhausted(p, c), "ESCALATE", "MAX_RETRIES_EXCEEDED"),
     Check(MessagesExhausted(p, c), "DENIED", "MAX_COMMUNICATIONS_EXCEEDED"),
     Check(IsCheckout(c) /\ ~c.timeout_elapsed, "DENIED", "CHECKOUT_TIMEOUT_NOT_REACHED"),
     Check(CheckoutAmountTooLow(p, c), "DENIED", "CHECKOUT_AMOUNT_TOO_LOW"),
     Check(CheckoutMessagesExhausted(p, c), "DENIED", "MAX_CHECKOUT_RECOVERY_MESSAGES"),
     Check(IntervalNotSatisfied(p, c), "DENIED", "RETRY_INTERVAL_NOT_SATISFIED"),
     Check(UnknownFailure(p, c), "ESCALATE", "UNKNOWN_FAILURE_REASON"),
     Check(LowConfidence(p, c), "ESCALATE", "LOW_DIAGNOSIS_CONFIDENCE"),
     Check(TRUE, "APPROVED", "OK") >>

\* PolicyEngine.authorize: the first check that applies decides.
Authorize(p, c) ==
  LET checks == Pipeline(p, c)
      first  == CHOOSE i \in 1 .. 16 :
                  checks[i].applies /\ \A j \in 1 .. i - 1 : ~checks[j].applies
  IN  [decision |-> checks[first].decision, code |-> checks[first].code]

=============================================================================
