------------------------------ MODULE RecoveryAgent ------------------------------
(***************************************************************************)
(* One run of the LangGraph agent: the graph of                             *)
(* agents/graph/recovery_graph.py with the nodes of agents/nodes/, one      *)
(* action per node.  A node's action reads and writes the fields of         *)
(* AgentState its function reads and returns, and the edge (or routing      *)
(* function) that follows it chooses the next node.                         *)
(*                                                                         *)
(* The planner (the LLM behind diagnosis and strategy) may answer anything  *)
(* its schema accepts, or be the rule table used when it is unavailable.    *)
(* The payment provider is the environment: attempts and captured count     *)
(* what it was really asked to do and what really went through.             *)
(***************************************************************************)
EXTENDS PolicyEngine

CONSTANTS
  Policies,      \* the policies a run may be started with
  Inputs,        \* the initial states make_initial_state may build
  Confidences,   \* the diagnosis confidences that can come out of node_diagnosis
  Planner,       \* "llm" or "rules"
  Providers,     \* the payment providers that may be configured
  MaxReplans,    \* max_replans of make_initial_state
  NodeLimit      \* node executions the LangGraph runtime allows (recursion_limit)

\* What make_initial_state is given and no node writes, plus the three counters and the
\* recovered flag it starts from.
Input ==
  [amount : Int, failure_reason : FailureReasons, opted_out : BOOLEAN, suspended : BOOLEAN,
   succeeded : BOOLEAN, hours_since_last : Nat \union {None}, timeout_elapsed : BOOLEAN,
   retry_count : Nat, communication_count : Nat, checkout_messages : Nat,
   recovered : BOOLEAN]

ASSUME AgentAssumption ==
  /\ Policies \subseteq PolicyConfig
  /\ Inputs \subseteq Input
  /\ Confidences \subseteq Percent
  /\ Planner \in {"llm", "rules"}
  /\ Providers \subseteq {"simulator", "razorpay_test"}
  /\ MaxReplans \in Nat
  /\ NodeLimit \in Nat

VARIABLES
  provider,             \* PAYMENT_PROVIDER: "simulator" or "razorpay_test"
  policy, input,        \* fixed for the run, as the provider is
  node,                 \* the node the graph executes next, "END", or "RAISED"
  steps,                \* node executions so far
  retry_count, communication_count, checkout_messages, replan_count,
  confidence,           \* case_diagnosis.diagnosis_confidence
  strategy,             \* case_strategy.recovery_strategy
  decision,             \* policy_result.decision
  execution,            \* execution_result: its type and what the provider holds on the
                        \* payment it names
  outcome,              \* verification_result.outcome
  recovered, stopped,   \* case_is_recovered, case_is_stopped
  escalated,            \* escalation_reason is set
  attempts, captured    \* environment: charges asked of the provider, charges that succeeded

counters == <<retry_count, communication_count, checkout_messages>>
flags    == <<recovered, stopped, escalated>>
ledger   == <<attempts, captured>>
vars     == <<provider, policy, input, node, steps, counters, replan_count, confidence, strategy,
              decision, execution, outcome, flags, ledger>>

Nodes ==
  {"risk_detection", "context_builder", "diagnosis", "strategy", "policy_check",
   "action_execution", "observation", "verification", "replan", "escalation", "completion"}

Strategies ==
  {"RETRY_NOW", "SCHEDULE_RETRY", "PAYMENT_METHOD_UPDATE", "REMINDER",
   "CHECKOUT_RECOVERY", "PROMISE_TO_PAY", "ESCALATE"}

\* The rule table of _fallback_diagnosis (LocalDeterministicProvider has the same one).
RuleStrategy ==
  [INSUFFICIENT_FUNDS |-> "SCHEDULE_RETRY", EXPIRED_METHOD |-> "PAYMENT_METHOD_UPDATE",
   GATEWAY_TEMPORARY |-> "RETRY_NOW", BANK_DECLINE |-> "SCHEDULE_RETRY",
   AUTH_FAILURE |-> "REMINDER", MANDATE_FAILURE |-> "SCHEDULE_RETRY",
   SUBSCRIPTION_GRACE |-> "SCHEDULE_RETRY", CHECKOUT_ABANDONED |-> "CHECKOUT_RECOVERY",
   UNKNOWN |-> "ESCALATE"]

\* _strategy_to_action_type
ActionType ==
  [RETRY_NOW |-> "retry_payment", SCHEDULE_RETRY |-> "schedule_retry",
   PAYMENT_METHOD_UPDATE |-> "request_payment_method_update",
   REMINDER |-> "send_payment_reminder", CHECKOUT_RECOVERY |-> "send_checkout_recovery",
   PROMISE_TO_PAY |-> "create_promise_to_pay", ESCALATE |-> "escalate_to_human"]

ExecutionTypes ==
  {"none", "not_executed", "payment_retry", "checkout_recovery", "communication", "other"}

\* What the provider holds on the payment execution_result names: nothing, when the
\* result carries no transaction id.
PaymentStatuses == {"no_transaction", "SUCCESS", "FAILED", "PENDING"}

Outcomes ==
  {"none", "NOT_EXECUTED", "PENDING_WEBHOOK", "NO_TRANSACTION", "COMMUNICATION_SENT",
   "RECOVERED", "FAILED", "PENDING"}

TypeOK ==
  /\ provider \in Providers
  /\ policy \in PolicyConfig
  /\ input \in Input
  /\ node \in Nodes \union {"END", "RAISED"}
  /\ steps \in 0 .. NodeLimit
  /\ retry_count \in Nat /\ communication_count \in Nat /\ checkout_messages \in Nat
  /\ replan_count \in 0 .. MaxReplans
  /\ confidence \in Percent \union {None}
  /\ strategy \in Strategies \union {"none"}
  /\ decision \in Decisions \union {"none"}
  /\ execution \in [type : ExecutionTypes, payment : PaymentStatuses]
  /\ outcome \in Outcomes
  /\ recovered \in BOOLEAN /\ stopped \in BOOLEAN /\ escalated \in BOOLEAN
  /\ attempts \in Nat /\ captured \in Nat

-----------------------------------------------------------------------------
(* Running the graph.                                                       *)

\* make_initial_state
Init ==
  /\ provider \in Providers
  /\ policy \in Policies
  /\ input \in Inputs
  /\ node = "risk_detection"
  /\ steps = 0
  /\ retry_count = input.retry_count
  /\ communication_count = input.communication_count
  /\ checkout_messages = input.checkout_messages
  /\ replan_count = 0
  /\ confidence = None
  /\ strategy = "none"
  /\ decision = "none"
  /\ execution = [type |-> "none", payment |-> "no_transaction"]
  /\ outcome = "none"
  /\ recovered = input.recovered
  /\ stopped = FALSE
  /\ escalated = FALSE
  /\ attempts = 0
  /\ captured = 0

\* The graph executes node n and schedules next.
Execute(n, next) ==
  /\ node = n
  /\ steps < NodeLimit
  /\ steps' = steps + 1
  /\ node' = next
  /\ UNCHANGED <<provider, policy, input>>

\* The runtime gives up when the graph needs more node executions than it allows (25, its
\* default: the graph is compiled and invoked without a recursion_limit): it raises
\* GraphRecursionError, and the final state is lost.
OutOfSteps ==
  /\ node \in Nodes
  /\ steps = NodeLimit
  /\ node' = "RAISED"
  /\ UNCHANGED <<provider, policy, input, steps, counters, replan_count, confidence,
                 strategy, decision, execution, outcome, flags, ledger>>

-----------------------------------------------------------------------------
(* The nodes.                                                               *)

\* route_after_risk_detection looks at case_is_stopped and error; error is only set
\* together with case_is_stopped.
RiskDetection ==
  LET stop == recovered \/ input.succeeded \/ input.amount <= 0
  IN  /\ Execute("risk_detection", IF stop THEN "completion" ELSE "context_builder")
      /\ stopped' = stop
      /\ escalated' = recovered
      /\ UNCHANGED <<counters, replan_count, confidence, strategy, decision, execution,
                     outcome, recovered, ledger>>

\* Adds scoring evidence, which only reaches the planner (see Diagnosis).
ContextBuilder ==
  /\ Execute("context_builder", "diagnosis")
  /\ UNCHANGED <<counters, replan_count, confidence, strategy, decision, execution,
                 outcome, flags, ledger>>

\* Whether the confidence comes from the LLM, the scorer or the rule table, it is some
\* element of Confidences; it is fixed for the rest of the run.
Diagnosis ==
  /\ Execute("diagnosis", "strategy")
  /\ confidence' \in Confidences
  /\ UNCHANGED <<counters, replan_count, strategy, decision, execution, outcome, flags,
                 ledger>>

Strategy ==
  /\ Execute("strategy", "policy_check")
  /\ strategy' \in IF Planner = "llm" THEN Strategies
                   ELSE {RuleStrategy[input.failure_reason]}
  /\ UNCHANGED <<counters, replan_count, confidence, decision, execution, outcome, flags,
                 ledger>>

Context ==
  [action_type |-> ActionType[strategy], amount |-> input.amount, amount_is_number |-> TRUE,
   retry_count |-> retry_count, communication_count |-> communication_count,
   checkout_messages |-> checkout_messages, opted_out |-> input.opted_out,
   suspended |-> input.suspended, recovered |-> recovered, succeeded |-> input.succeeded,
   failure_reason |-> input.failure_reason, hours_since_last |-> input.hours_since_last,
   confidence |-> confidence, timeout_elapsed |-> input.timeout_elapsed]

\* Seeded fault: what the policy refuses is planned again, like a failed attempt.
RouteAfterPolicyCheckAgain(d) ==
  CASE d = "APPROVED"              -> "action_execution"
    [] d \in {"ESCALATE", "STOP"}  -> "escalation"
    [] d = "DENIED"                -> "replan"

RouteAfterPolicyCheck(d) ==
  CASE d = "APPROVED"              -> "action_execution"
    [] d \in {"ESCALATE", "STOP"}  -> "escalation"
    [] d = "DENIED"                -> "completion"

PolicyCheck ==
  /\ decision' = IF strategy = "none" THEN "ESCALATE"
                 ELSE Authorize(policy, Context).decision
  /\ Execute("policy_check", RouteAfterPolicyCheck(decision'))
  /\ UNCHANGED <<counters, replan_count, confidence, strategy, execution, outcome, flags,
                 ledger>>

\* The provider's answer to a charge.  The simulator settles it at once and keeps the
\* result under the transaction id it returns.  Razorpay only creates an order, whose id
\* is no payment id, or is unavailable and returns no id at all.
Charges ==
  IF provider = "simulator" THEN {"SUCCESS", "FAILED"} ELSE {"PENDING", "no_transaction"}

\* Seeded fault: the retry is not counted.
ChargeCustomerUncounted ==
  /\ strategy \in {"RETRY_NOW", "SCHEDULE_RETRY"}
  /\ attempts' = attempts + 1
  /\ \E status \in Charges :
       /\ execution' = [type |-> "payment_retry", payment |-> status]
       /\ captured' = IF status = "SUCCESS" THEN captured + 1 ELSE captured
  /\ UNCHANGED counters

\* The branch of node_action_execution for RETRY_NOW and SCHEDULE_RETRY, which both
\* providers execute at once.
ChargeCustomer ==
  /\ strategy \in {"RETRY_NOW", "SCHEDULE_RETRY"}
  /\ retry_count' = retry_count + 1
  /\ attempts' = attempts + 1
  /\ \E status \in Charges :
       /\ execution' = [type |-> "payment_retry", payment |-> status]
       /\ captured' = IF status = "SUCCESS" THEN captured + 1 ELSE captured
  /\ UNCHANGED <<communication_count, checkout_messages>>

SendCheckoutRecovery ==
  /\ strategy = "CHECKOUT_RECOVERY"
  /\ communication_count' = communication_count + 1
  /\ checkout_messages' = checkout_messages + 1
  /\ execution' = [type |-> "checkout_recovery", payment |-> "no_transaction"]
  /\ UNCHANGED <<retry_count, ledger>>

SendMessage ==
  /\ strategy \in {"REMINDER", "PAYMENT_METHOD_UPDATE"}
  /\ communication_count' = communication_count + 1
  /\ execution' = [type |-> "communication", payment |-> "no_transaction"]
  /\ UNCHANGED <<retry_count, checkout_messages, ledger>>

\* PROMISE_TO_PAY and ESCALATE are reported as executed and change nothing.
RecordOnly ==
  /\ strategy \in {"PROMISE_TO_PAY", "ESCALATE"}
  /\ execution' = [type |-> "other", payment |-> "no_transaction"]
  /\ UNCHANGED <<counters, ledger>>

ActionExecution ==
  /\ Execute("action_execution", "observation")
  /\ IF decision # "APPROVED"
     THEN /\ execution' = [type |-> "not_executed", payment |-> "no_transaction"]
          /\ UNCHANGED <<counters, ledger>>
     ELSE ChargeCustomer \/ SendCheckoutRecovery \/ SendMessage \/ RecordOnly
  /\ UNCHANGED <<replan_count, confidence, strategy, decision, outcome, flags>>

Observation ==
  /\ Execute("observation", "verification")
  /\ UNCHANGED <<counters, replan_count, confidence, strategy, decision, execution,
                 outcome, flags, ledger>>

\* provider.get_payment on the id in execution_result: the simulator finds the result it
\* stored, Razorpay finds no payment under an order id and reports FAILED.
FetchedStatus ==
  IF provider = "simulator" THEN execution.payment ELSE "FAILED"

Verified ==
  CASE execution.type \in {"none", "not_executed"} -> "NOT_EXECUTED"
    [] execution.type = "checkout_recovery"        -> "PENDING_WEBHOOK"
    [] execution.type = "payment_retry"            ->
         IF execution.payment = "no_transaction" THEN "NO_TRANSACTION"
         ELSE IF FetchedStatus = "SUCCESS" THEN "RECOVERED" ELSE FetchedStatus
    [] OTHER                                       -> "COMMUNICATION_SENT"

\* route_after_verification treats a sent message like a failed payment.
RouteAfterVerification(isRecovered) ==
  IF isRecovered THEN "completion"
  ELSE IF replan_count < MaxReplans THEN "replan" ELSE "escalation"

Verification ==
  /\ outcome' = Verified
  /\ recovered' = (recovered \/ outcome' = "RECOVERED")
  /\ stopped' = (stopped \/ outcome' = "RECOVERED")
  /\ Execute("verification", RouteAfterVerification(recovered'))
  /\ UNCHANGED <<counters, replan_count, confidence, strategy, decision, execution,
                 escalated, ledger>>

\* increment_replan
Replan ==
  /\ Execute("replan", "strategy")
  /\ replan_count' = replan_count + 1
  /\ UNCHANGED <<counters, confidence, strategy, decision, execution, outcome, flags,
                 ledger>>

Escalation ==
  /\ Execute("escalation", "completion")
  /\ escalated' = TRUE
  /\ stopped' = TRUE
  /\ UNCHANGED <<counters, replan_count, confidence, strategy, decision, execution,
                 outcome, recovered, ledger>>

\* Seeded fault: a denied case is left open.
CompletionIgnoringDenial ==
  /\ Execute("completion", "END")
  /\ UNCHANGED <<counters, replan_count, confidence, strategy, decision, execution,
                 outcome, flags, ledger>>

Completion ==
  /\ Execute("completion", "END")
  /\ LET refused == decision = "DENIED" /\ ~recovered
     IN  /\ stopped' = (stopped \/ refused)
         /\ escalated' = (escalated \/ refused)
  /\ UNCHANGED <<counters, replan_count, confidence, strategy, decision, execution,
                 outcome, recovered, ledger>>

Next ==
  \/ RiskDetection \/ ContextBuilder \/ Diagnosis \/ Strategy \/ PolicyCheck
  \/ ActionExecution \/ Observation \/ Verification \/ Replan \/ Escalation
  \/ Completion \/ OutOfSteps

Spec == Init /\ [][Next]_vars

\* The worker thread that runs the graph keeps running it.
FairSpec == Spec /\ WF_vars(Next)

-----------------------------------------------------------------------------
(* The contract the run offers the service (AgentContract).                 *)

\* The case was not open to recovery when the run read it (node_risk_detection).
Closed == input.recovered \/ input.succeeded \/ input.amount <= 0

MessagesSent == communication_count - input.communication_count

\* paid is what happened at the provider; result is the branch _apply_agent_result takes on
\* the final state: recovered and verified, an escalation reason, or neither.
ContractRun ==
  [status   |-> IF node = "END" THEN "finished"
                ELSE IF node = "RAISED" THEN "raised" ELSE "running",
   limit    |-> policy.max_retries,
   found    |-> IF input.recovered THEN "recovered" ELSE IF Closed THEN "void" ELSE "open",
   retries  |-> retry_count,
   messages |-> communication_count,
   actions  |-> attempts + MessagesSent,
   paid     |-> captured > 0,
   result   |-> IF node # "END" THEN "none"
                ELSE IF recovered /\ outcome # "none" THEN "recovered"
                ELSE IF escalated THEN "escalated" ELSE "stopped"]

Contract ==
  INSTANCE AgentContract WITH
    run <- ContractRun,
    Limits <- {p.max_retries : p \in Policies},
    Counts <- {i.retry_count : i \in Inputs} \union {i.communication_count : i \in Inputs}

\* The run implements its contract: seen through ContractRun, every step of the graph is
\* a permitted charge, a permitted message, an end with the right report, or no step.
ImplementsContract == Contract!Spec

-----------------------------------------------------------------------------
(* Properties.                                                              *)

\* Whatever the planner proposes and however often it replans, the charges this run asks
\* the provider for, added to the retries the case had already used, never exceed the
\* policy's max_retries (node_policy_check, node_action_execution).
ChargesWithinRetryLimit ==
  attempts > 0 => input.retry_count + attempts <= policy.max_retries

\* Once a charge has gone through, the run neither charges nor writes to the customer
\* again (node_verification and its route must notice it before the next replan).
NothingAfterCapture ==
  [][captured > 0 => UNCHANGED <<attempts, communication_count>>]_vars

\* A customer who opted out or is suspended, and a case that is paid, recovered or over
\* the automatic limit, see no charge and no message through all replans.
BarredCaseIsLeftAlone ==
  \/ input.opted_out /\ policy.stop_on_opt_out
  \/ input.suspended /\ policy.stop_on_suspension
  \/ Closed
  \/ input.amount > policy.max_auto_recovery_amount
  => attempts = 0 /\ MessagesSent = 0

\* A run that ends leaves nothing open: the case is stopped, it is recovered exactly when
\* it already was or a charge of this run succeeded, and an open case that was not
\* recovered carries an escalation reason (node_escalation, node_completion).
EndedRunLeavesNothingOpen ==
  node = "END" =>
    /\ stopped
    /\ recovered <=> input.recovered \/ captured > 0
    /\ ~Closed /\ ~recovered => escalated


\* The kinds of message that are capped stay within the cap in every pass, although the cap
\* is checked two nodes before the message is counted and method updates, which are not
\* capped, count as well (policy_engine, node_action_execution).
CappedMessagesWithinCap ==
  [][communication_count' > communication_count /\ strategy # "PAYMENT_METHOD_UPDATE" =>
       communication_count' <= policy.max_messages_per_case]_vars

\* What a run may do to its customer: nothing if the case bars it, and no more messages of
\* the capped kinds than the policy allows, in all passes together (node_policy_check).
CustomerIsSpared == []BarredCaseIsLeftAlone /\ CappedMessagesWithinCap

-----------------------------------------------------------------------------
(* What the documents say and this code does not do: each of the following  *)
(* is violated, in the situation the README describes.                      *)

\* docs/agent.md: after max_replans failed attempts the case is escalated.  The runtime's
\* node limit ends such a run before it reaches the escalation.
ExhaustedReplansEscalate ==
  replan_count = MaxReplans ~> recovered \/ escalated

\* docs/policy-engine.md: a request with communication_count >= max is refused, so no run
\* takes the case's messages past the cap.
MessagesWithinCap ==
  MessagesSent > 0 => communication_count <= policy.max_messages_per_case

=============================================================================
