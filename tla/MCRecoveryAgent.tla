----------------------------- MODULE MCRecoveryAgent -----------------------------
(***************************************************************************)
(* Small instances of RecoveryAgent: amounts 0, 1 and 2 around an automatic *)
(* limit of 1, confidences on both sides of the threshold, and counters     *)
(* from fresh to exhausted.                                                 *)
(***************************************************************************)
EXTENDS RecoveryAgent

MCPolicy(retries, bars) ==
  [max_retries |-> retries, max_auto_recovery_amount |-> 1, min_retry_interval |-> 24,
   max_messages_per_case |-> 2, max_recovery_messages |-> 1, min_checkout_amount |-> 1,
   unknown_failure |-> TRUE, low_confidence_threshold |-> 50,
   stop_on_payment_success |-> bars, stop_on_opt_out |-> bars,
   stop_on_suspension |-> bars]

MCPolicies == {MCPolicy(3, TRUE), MCPolicy(2, FALSE)}

MCConfidences == {40, 60}

OpenInput(reason) ==
  [amount |-> 1, failure_reason |-> reason, opted_out |-> FALSE, suspended |-> FALSE,
   succeeded |-> FALSE, hours_since_last |-> None, timeout_elapsed |-> FALSE,
   retry_count |-> 0, communication_count |-> 0, checkout_messages |-> 0,
   recovered |-> FALSE]

\* One fresh open case per reason given, and the same case after some use, for a barred
\* customer, already closed, or with a known last attempt.
Variants(reason) ==
  LET i == OpenInput(reason)
  IN  {i} \union {[i EXCEPT !.retry_count = n] : n \in 1 .. 4}
          \union {[i EXCEPT !.communication_count = n, !.checkout_messages = m,
                            !.timeout_elapsed = TRUE] : n \in 0 .. 2, m \in 0 .. 1}
          \union {[i EXCEPT !.amount = a] : a \in {0, 2}}
          \union {[i EXCEPT !.opted_out = TRUE], [i EXCEPT !.suspended = TRUE],
                  [i EXCEPT !.succeeded = TRUE], [i EXCEPT !.recovered = TRUE],
                  [i EXCEPT !.hours_since_last = 23], [i EXCEPT !.hours_since_last = 24]}

MCInputs == Variants("GATEWAY_TEMPORARY") \union {OpenInput("UNKNOWN")}

=============================================================================
