-------------------------- MODULE RecoveryAgentProofs --------------------------
(***************************************************************************)
(* Theorems about every run of the agent: any policies, initial states,     *)
(* confidences, planner, provider, replan limit and node limit.             *)
(*                                                                         *)
(* RunInv is inductive.  The properties say little about the nodes in       *)
(* between, so it adds what each node may rely on: that a node inside the   *)
(* loop works on an open case, that action_execution is only reached with   *)
(* an approval that still holds, and that a captured charge is either the   *)
(* execution result under verification or already noticed.                  *)
(***************************************************************************)
EXTENDS RecoveryAgent, PolicyEngineProofs

\* The nodes between risk_detection and completion.
Working == Nodes \ {"risk_detection", "completion"}

\* The customer is barred from contact, or the amount is over the automatic limit.
Barred ==
  \/ input.opted_out /\ policy.stop_on_opt_out
  \/ input.suspended /\ policy.stop_on_suspension
  \/ input.amount > policy.max_auto_recovery_amount

TypeInv ==
  /\ TypeOK
  /\ node = "replan" => replan_count < MaxReplans

\* The counters tell what was done.
CountersInv ==
  /\ retry_count = input.retry_count + attempts
  /\ input.communication_count <= communication_count
  /\ attempts > 0 => retry_count <= policy.max_retries
  /\ Closed \/ Barred => attempts = 0 /\ communication_count = input.communication_count

\* The nodes of the loop work on a case that is open and not yet recovered.
OpenInv == node \in Working => ~Closed /\ ~recovered

\* The decision action_execution acts on is still the policy's decision.
ApprovalInv ==
  node = "action_execution" =>
    /\ decision = "APPROVED"
    /\ strategy # "none"
    /\ ~Barred
    /\ ActionType[strategy] \in RetryActions => retry_count < policy.max_retries
    /\ ActionType[strategy] \in MessageActions =>
         communication_count < policy.max_messages_per_case

\* A charge went through in the execution being verified, or the run has noticed it.
CaptureInv ==
  /\ execution.payment = "SUCCESS" => captured > 0 /\ provider = "simulator"
  /\ captured > 0 =>
       \/ /\ node \in {"observation", "verification"}
          /\ execution = [type |-> "payment_retry", payment |-> "SUCCESS"]
          /\ provider = "simulator"
       \/ node \in {"completion", "END"} /\ recovered
       \/ node = "RAISED"
  /\ recovered => input.recovered \/ captured > 0
  /\ input.recovered => recovered

\* What completion finds, and what it leaves.
EndInv ==
  /\ node = "completion" =>
       \/ Closed /\ stopped
       \/ decision = "DENIED" /\ ~recovered
       \/ recovered /\ stopped
       \/ escalated /\ stopped
  /\ node = "END" =>
       /\ stopped
       /\ Closed \/ recovered \/ escalated

\* Every pass through the loop acts at most once, and a pass is counted by replan.
BudgetInv ==
  attempts + MessagesSent <=
    IF node \in {"observation", "verification", "replan", "escalation", "completion",
                 "END", "RAISED"}
    THEN replan_count + 1 ELSE replan_count

\* What the final state tells _apply_agent_result.
ReportInv ==
  /\ captured <= attempts
  /\ Closed => outcome = "none" /\ decision = "none"
  /\ recovered /\ ~input.recovered => outcome # "none"
  /\ Closed /\ node \in {"completion", "END"} => (escalated <=> input.recovered)

RunInv ==
  /\ TypeInv /\ CountersInv /\ OpenInv /\ ApprovalInv /\ CaptureInv /\ EndInv
  /\ BudgetInv /\ ReportInv

-----------------------------------------------------------------------------
(* Initial states and steps.                                                *)

\* A run starts in the invariant, whatever make_initial_state was given.
LEMMA InitInv == Init => RunInv
<1> SUFFICES ASSUME Init  PROVE RunInv
  OBVIOUS
<1>1. policy \in PolicyConfig /\ input \in Input
  BY AgentAssumption DEF Init
<1>2. /\ input.retry_count \in Nat /\ input.communication_count \in Nat
      /\ input.checkout_messages \in Nat /\ input.recovered \in BOOLEAN
  BY <1>1 DEF Input
<1>3. TypeInv
  <2>1. /\ recovered \in BOOLEAN /\ stopped \in BOOLEAN /\ escalated \in BOOLEAN
    BY <1>2 DEF Init
  <2>2. /\ 0 \in 0 .. NodeLimit /\ 0 \in 0 .. MaxReplans
    BY AgentAssumption
  <2> QED
    BY <1>1, <1>2, <2>1, <2>2 DEF Init, TypeInv, TypeOK, Nodes, ExecutionTypes,
                                  PaymentStatuses, Outcomes
<1>4. CountersInv
  BY <1>2 DEF Init, CountersInv
<1>5. OpenInv /\ ApprovalInv /\ CaptureInv /\ EndInv
  BY <1>2 DEF Init, OpenInv, ApprovalInv, CaptureInv, EndInv, Working
<1>6. BudgetInv /\ ReportInv
  BY <1>2 DEF Init, BudgetInv, ReportInv, MessagesSent
<1> QED
  BY <1>3, <1>4, <1>5, <1>6 DEF RunInv

\* What the types say about the numbers the invariant compares.
LEMMA Typing ==
  ASSUME TypeInv
  PROVE  /\ input.retry_count \in Nat /\ input.communication_count \in Nat
         /\ input.amount \in Int /\ input.recovered \in BOOLEAN
         /\ policy.max_retries \in Nat /\ policy.max_auto_recovery_amount \in Nat
         /\ policy.max_messages_per_case \in Nat
         /\ retry_count \in Nat /\ communication_count \in Nat
         /\ attempts \in Nat /\ captured \in Nat /\ replan_count \in Nat
BY AgentAssumption DEF TypeInv, TypeOK, Input, PolicyConfig

\* The case a run works on and its policy stay what they were.
LEMMA FixedCase ==
  ASSUME policy' = policy, input' = input
  PROVE  (Closed <=> Closed') /\ (Barred <=> Barred')
BY DEF Closed, Barred

\* A resolved or worthless case goes straight to completion, any other into the loop.
LEMMA RiskDetectionInv ==
  ASSUME RunInv, RiskDetection
  PROVE  RunInv'
<1> USE DEF RiskDetection, Execute, RunInv, counters, flags, ledger
<1>1. policy' = policy /\ input' = input
  OBVIOUS
<1>2. TypeInv'
  BY AgentAssumption DEF TypeInv, TypeOK, Nodes
<1>3. CountersInv' /\ BudgetInv' /\ ReportInv'
  <2>1. CountersInv'
    BY <1>1, Typing, FixedCase DEF CountersInv
  <2>2. BudgetInv'
    BY <1>1, Typing DEF BudgetInv, MessagesSent
  <2>3. ReportInv'
    BY <1>1, Typing, FixedCase DEF ReportInv, CaptureInv, Closed, TypeInv, TypeOK, CountersInv
  <2> QED
    BY <2>1, <2>2, <2>3
<1>4. OpenInv' /\ ApprovalInv' /\ CaptureInv' /\ EndInv'
  BY <1>1, Typing, FixedCase
     DEF OpenInv, ApprovalInv, CaptureInv, EndInv, ReportInv, CountersInv, Nodes,
         Working, Closed, TypeInv, TypeOK, CaptureInv
<1> QED
  BY <1>2, <1>3, <1>4

\* The context builder only moves on.
LEMMA ContextBuilderInv ==
  ASSUME RunInv, ContextBuilder
  PROVE  RunInv'
<1> USE DEF ContextBuilder, Execute, RunInv, counters, flags, ledger
<1>1. policy' = policy /\ input' = input
  OBVIOUS
<1>2. TypeInv'
  BY AgentAssumption DEF TypeInv, TypeOK, Nodes
<1>3. CountersInv' /\ BudgetInv' /\ ReportInv'
  BY <1>1, Typing, FixedCase
     DEF CountersInv, BudgetInv, ReportInv, MessagesSent, OpenInv, Nodes, Working
<1>4. OpenInv' /\ ApprovalInv' /\ CaptureInv' /\ EndInv'
  BY <1>1, Typing, FixedCase
     DEF OpenInv, ApprovalInv, CaptureInv, EndInv, ReportInv, CountersInv, Nodes,
         Working
<1> QED
  BY <1>2, <1>3, <1>4

\* The diagnosis only sets a confidence.
LEMMA DiagnosisInv ==
  ASSUME RunInv, Diagnosis
  PROVE  RunInv'
<1> USE DEF Diagnosis, Execute, RunInv, counters, flags, ledger
<1>1. policy' = policy /\ input' = input
  OBVIOUS
<1>2. TypeInv'
  BY AgentAssumption DEF TypeInv, TypeOK, Nodes, Percent
<1>3. CountersInv' /\ BudgetInv' /\ ReportInv'
  BY <1>1, Typing, FixedCase
     DEF CountersInv, BudgetInv, ReportInv, MessagesSent, OpenInv, Nodes, Working
<1>4. OpenInv' /\ ApprovalInv' /\ CaptureInv' /\ EndInv'
  BY <1>1, Typing, FixedCase
     DEF OpenInv, ApprovalInv, CaptureInv, EndInv, ReportInv, CountersInv, Nodes,
         Working
<1> QED
  BY <1>2, <1>3, <1>4

\* Whatever the planner answers is a strategy of the schema.
LEMMA StrategyInv ==
  ASSUME RunInv, Strategy
  PROVE  RunInv'
<1> USE DEF Strategy, Execute, RunInv, counters, flags, ledger
<1>1. policy' = policy /\ input' = input
  OBVIOUS
<1>2. TypeInv'
  <2>1. input.failure_reason \in FailureReasons
    BY DEF TypeInv, TypeOK, Input
  <2>2. RuleStrategy[input.failure_reason] \in Strategies
    BY <2>1 DEF RuleStrategy, FailureReasons, Strategies
  <2>3. strategy' \in Strategies
    BY <2>2
  <2> QED
    BY <2>3, AgentAssumption DEF TypeInv, TypeOK, Nodes
<1>3. CountersInv' /\ BudgetInv' /\ ReportInv'
  BY <1>1, Typing, FixedCase
     DEF CountersInv, BudgetInv, ReportInv, MessagesSent, OpenInv, Nodes, Working
<1>4. OpenInv' /\ ApprovalInv' /\ CaptureInv' /\ EndInv'
  BY <1>1, Typing, FixedCase
     DEF OpenInv, ApprovalInv, CaptureInv, EndInv, ReportInv, CountersInv, Nodes,
         Working
<1> QED
  BY <1>2, <1>3, <1>4

\* The policy's verdict is a decision; an approval means what ApprovalRespectsPolicy says of
\* the context the node builds from the run's state.
LEMMA PolicyCheckInv ==
  ASSUME RunInv, PolicyCheck
  PROVE  RunInv'
<1> USE DEF PolicyCheck, Execute, RunInv, counters, flags, ledger
<1>1. policy' = policy /\ input' = input
  OBVIOUS
<1>2. decision' \in Decisions
  BY AuthorizeDecides DEF Decisions
<1>3. node' = RouteAfterPolicyCheck(decision')
  OBVIOUS
<1>4. \/ node' = "action_execution" /\ decision' = "APPROVED"
      \/ node' = "escalation" /\ decision' # "APPROVED"
      \/ node' = "completion" /\ decision' = "DENIED"
  <2>1. decision' = "APPROVED" => node' = "action_execution"
    BY <1>3 DEF RouteAfterPolicyCheck
  <2>2. decision' \in {"ESCALATE", "STOP"} => node' = "escalation"
    BY <1>3 DEF RouteAfterPolicyCheck
  <2>3. decision' = "DENIED" => node' = "completion"
    BY <1>3 DEF RouteAfterPolicyCheck
  <2> QED
    BY <1>2, <2>1, <2>2, <2>3 DEF Decisions
<1>5. ~Closed /\ ~recovered
  BY DEF OpenInv, Working, Nodes
<1>6. TypeInv'
  BY <1>2, <1>4, AgentAssumption DEF TypeInv, TypeOK, Nodes
<1>7. CountersInv' /\ BudgetInv' /\ ReportInv'
  BY <1>1, <1>4, <1>5, Typing, FixedCase DEF CountersInv, BudgetInv, ReportInv, MessagesSent
<1>8. OpenInv'
  BY <1>1, <1>5, FixedCase DEF OpenInv
<1>9. ApprovalInv'
  <2> SUFFICES ASSUME decision' = "APPROVED"  PROVE ApprovalInv'
    BY <1>4 DEF ApprovalInv
  <2>1. strategy # "none" /\ Authorize(policy, Context).decision = "APPROVED"
    OBVIOUS
  <2>2. /\ ~OptedOut(policy, Context) /\ ~Suspended(policy, Context)
        /\ ~AmountExceedsLimit(policy, Context) /\ ~RetriesExhausted(policy, Context)
        /\ ~MessagesExhausted(policy, Context)
    BY <2>1, ApprovalRespectsPolicy
  <2>3. ~Barred
    BY <2>2 DEF OptedOut, Suspended, AmountExceedsLimit, Context, Barred
  <2>4. ActionType[strategy] \in RetryActions => retry_count < policy.max_retries
    BY <2>2, Typing DEF RetriesExhausted, Context
  <2>5. ActionType[strategy] \in MessageActions =>
          communication_count < policy.max_messages_per_case
    BY <2>2, Typing DEF MessagesExhausted, Context
  <2> QED
    BY <1>1, <2>1, <2>3, <2>4, <2>5, FixedCase DEF ApprovalInv
<1>10. CaptureInv' /\ EndInv'
  BY <1>1, <1>4, <1>5, FixedCase DEF CaptureInv, EndInv
<1> QED
  BY <1>6, <1>7, <1>8, <1>9, <1>10

\* Only an approved action is executed, and it leaves at most one charge or message behind.
LEMMA ActionExecutionInv ==
  ASSUME RunInv, ActionExecution
  PROVE  RunInv'
<1> USE DEF ActionExecution, Execute, RunInv, counters, flags, ledger
<1>1. policy' = policy /\ input' = input
  OBVIOUS
<1>2. ~Closed /\ ~recovered /\ ~Barred /\ decision = "APPROVED" /\ captured = 0
  BY Typing DEF OpenInv, ApprovalInv, CaptureInv, Working, Nodes
<1>3. CASE ChargeCustomer
  <2> USE <1>3 DEF ChargeCustomer
  <2>1. retry_count < policy.max_retries
    BY DEF ApprovalInv, ActionType, RetryActions
  <2>2. PICK status \in Charges :
          /\ execution' = [type |-> "payment_retry", payment |-> status]
          /\ captured' = IF status = "SUCCESS" THEN captured + 1 ELSE captured
    OBVIOUS
  <2>3. status \in PaymentStatuses /\ (status = "SUCCESS" => provider = "simulator")
    BY AgentAssumption DEF Charges, PaymentStatuses
  <2>4. captured' \in Nat /\ captured' <= 1 /\ (captured' > 0 <=> status = "SUCCESS")
    BY <1>2, <2>2
  <2>5. TypeInv'
    BY <2>2, <2>3, <2>4, Typing, AgentAssumption
       DEF TypeInv, TypeOK, Nodes, ExecutionTypes
  <2>6. CountersInv' /\ BudgetInv' /\ ReportInv'
    BY <1>1, <1>2, <2>1, <2>4, Typing, FixedCase
       DEF CountersInv, BudgetInv, ReportInv, MessagesSent
  <2>7. OpenInv' /\ ApprovalInv' /\ EndInv'
    BY <1>1, <1>2, FixedCase DEF OpenInv, ApprovalInv, EndInv
  <2>8. CaptureInv'
    BY <1>1, <1>2, <2>2, <2>3, <2>4 DEF CaptureInv
  <2> QED
    BY <2>5, <2>6, <2>7, <2>8
<1>4. CASE SendCheckoutRecovery \/ SendMessage \/ RecordOnly
  <2> USE <1>4 DEF SendCheckoutRecovery, SendMessage, RecordOnly
  <2>1. TypeInv'
    BY AgentAssumption DEF TypeInv, TypeOK, Nodes, ExecutionTypes, PaymentStatuses
  <2>2. CountersInv' /\ BudgetInv' /\ ReportInv'
    BY <1>1, <1>2, Typing, FixedCase DEF CountersInv, BudgetInv, ReportInv, MessagesSent
  <2>3. OpenInv' /\ ApprovalInv' /\ EndInv'
    BY <1>1, <1>2, FixedCase DEF OpenInv, ApprovalInv, EndInv
  <2>4. CaptureInv'
    BY <1>1, <1>2, Typing DEF CaptureInv
  <2> QED
    BY <2>1, <2>2, <2>3, <2>4
<1> QED
  BY <1>2, <1>3, <1>4

\* The observation only moves on, with the execution result it was given.
LEMMA ObservationInv ==
  ASSUME RunInv, Observation
  PROVE  RunInv'
<1> USE DEF Observation, Execute, RunInv, counters, flags, ledger
<1>1. policy' = policy /\ input' = input
  OBVIOUS
<1>2. TypeInv'
  BY AgentAssumption DEF TypeInv, TypeOK, Nodes
<1>3. CountersInv' /\ BudgetInv' /\ ReportInv'
  BY <1>1, Typing, FixedCase
     DEF CountersInv, BudgetInv, ReportInv, MessagesSent, OpenInv, Nodes, Working
<1>4. OpenInv' /\ ApprovalInv' /\ CaptureInv' /\ EndInv'
  BY <1>1, Typing, FixedCase
     DEF OpenInv, ApprovalInv, CaptureInv, EndInv, ReportInv, CountersInv, Nodes,
         Working
<1> QED
  BY <1>2, <1>3, <1>4

\* A charge that went through is what the provider reports, so it is noticed at once.
LEMMA VerificationInv ==
  ASSUME RunInv, Verification
  PROVE  RunInv'
<1> USE DEF Verification, Execute, RunInv, counters, flags, ledger
<1>1. policy' = policy /\ input' = input
  OBVIOUS
<1>2. ~Closed /\ ~recovered
  BY DEF OpenInv, Working, Nodes
<1>3. execution \in [type : ExecutionTypes, payment : PaymentStatuses]
  BY DEF TypeInv, TypeOK
<1>4. outcome' \in Outcomes \ {"none"}
  BY <1>3 DEF Verified, FetchedStatus, ExecutionTypes, PaymentStatuses, Outcomes
<1>5. outcome' = "RECOVERED" <=> captured > 0
  <2>1. captured > 0 => outcome' = "RECOVERED"
    BY DEF CaptureInv, Verified, FetchedStatus
  <2>2. outcome' = "RECOVERED" => execution.payment = "SUCCESS"
    BY <1>3 DEF Verified, FetchedStatus, ExecutionTypes, PaymentStatuses
  <2> QED
    BY <2>1, <2>2 DEF CaptureInv
<1>6. recovered' = (outcome' = "RECOVERED") /\ stopped' = (stopped \/ outcome' = "RECOVERED")
  BY <1>2 DEF TypeInv, TypeOK
<1>7. \/ node' = "completion" /\ recovered'
      \/ node' = "replan" /\ ~recovered' /\ replan_count < MaxReplans
      \/ node' = "escalation" /\ ~recovered'
  BY DEF RouteAfterVerification
<1>8. TypeInv'
  BY <1>4, <1>6, <1>7, AgentAssumption DEF TypeInv, TypeOK, Nodes
<1>9. CountersInv' /\ BudgetInv' /\ ReportInv'
  BY <1>1, <1>2, <1>4, <1>7, Typing, FixedCase
     DEF CountersInv, BudgetInv, ReportInv, MessagesSent
<1>10. OpenInv' /\ ApprovalInv'
  BY <1>1, <1>2, <1>7, FixedCase DEF OpenInv, ApprovalInv, Working, Nodes
<1>11. CaptureInv'
  BY <1>1, <1>2, <1>5, <1>6, <1>7 DEF CaptureInv
<1>12. EndInv'
  BY <1>6, <1>7 DEF EndInv
<1> QED
  BY <1>8, <1>9, <1>10, <1>11, <1>12

\* A replan opens one more pass of the budget.
LEMMA ReplanInv ==
  ASSUME RunInv, Replan
  PROVE  RunInv'
<1> USE DEF Replan, Execute, RunInv, counters, flags, ledger
<1>1. policy' = policy /\ input' = input
  OBVIOUS
<1>2. TypeInv'
  BY AgentAssumption DEF TypeInv, TypeOK, Nodes
<1>3. CountersInv' /\ BudgetInv' /\ ReportInv'
  BY <1>1, Typing, FixedCase
     DEF CountersInv, BudgetInv, ReportInv, MessagesSent, OpenInv, Nodes, Working
<1>4. OpenInv' /\ ApprovalInv' /\ CaptureInv' /\ EndInv'
  BY <1>1, Typing, FixedCase
     DEF OpenInv, ApprovalInv, CaptureInv, EndInv, ReportInv, CountersInv, Nodes,
         Working
<1> QED
  BY <1>2, <1>3, <1>4

\* An escalation stops the case.
LEMMA EscalationInv ==
  ASSUME RunInv, Escalation
  PROVE  RunInv'
<1> USE DEF Escalation, Execute, RunInv, counters, flags, ledger
<1>1. policy' = policy /\ input' = input
  OBVIOUS
<1>2. TypeInv'
  BY AgentAssumption DEF TypeInv, TypeOK, Nodes
<1>3. CountersInv' /\ BudgetInv' /\ ReportInv'
  BY <1>1, Typing, FixedCase
     DEF CountersInv, BudgetInv, ReportInv, MessagesSent, OpenInv, Nodes, Working
<1>4. OpenInv' /\ ApprovalInv' /\ CaptureInv' /\ EndInv'
  BY <1>1, Typing, FixedCase
     DEF OpenInv, ApprovalInv, CaptureInv, EndInv, ReportInv, CountersInv, Nodes,
         Working
<1> QED
  BY <1>2, <1>3, <1>4

\* Completion closes what the nodes before it have left open: a refused case.
LEMMA CompletionInv ==
  ASSUME RunInv, Completion
  PROVE  RunInv'
<1> USE DEF Completion, Execute, RunInv, counters, flags, ledger
<1>1. policy' = policy /\ input' = input
  OBVIOUS
<1>2. TypeInv'
  BY AgentAssumption DEF TypeInv, TypeOK, Nodes
<1>3. CountersInv' /\ BudgetInv'
  BY <1>1, Typing, FixedCase DEF CountersInv, BudgetInv, MessagesSent
<1>4. ReportInv'
  BY <1>1, FixedCase DEF ReportInv
<1>5. OpenInv' /\ ApprovalInv' /\ CaptureInv'
  BY <1>1 DEF OpenInv, ApprovalInv, CaptureInv, Working, Nodes
<1>6. EndInv'
  BY <1>1, FixedCase DEF EndInv
<1> QED
  BY <1>2, <1>3, <1>4, <1>5, <1>6

\* When the runtime gives up, everything stays as it was.
LEMMA OutOfStepsInv ==
  ASSUME RunInv, OutOfSteps
  PROVE  RunInv'
<1> USE DEF OutOfSteps, RunInv, counters, flags, ledger
<1>1. policy' = policy /\ input' = input
  OBVIOUS
<1>2. TypeInv'
  BY AgentAssumption DEF TypeInv, TypeOK, Nodes
<1>3. CountersInv' /\ BudgetInv' /\ ReportInv'
  BY <1>1, Typing, FixedCase
     DEF CountersInv, BudgetInv, ReportInv, MessagesSent, OpenInv, Nodes, Working
<1>4. OpenInv' /\ ApprovalInv' /\ CaptureInv' /\ EndInv'
  BY <1>1, Typing, FixedCase
     DEF OpenInv, ApprovalInv, CaptureInv, EndInv, ReportInv, CountersInv, Nodes,
         Working
<1> QED
  BY <1>2, <1>3, <1>4

\* A stuttering step changes nothing the invariant mentions.
LEMMA StutterInv ==
  ASSUME RunInv, UNCHANGED vars
  PROVE  RunInv'
BY DEF RunInv, vars, counters, flags, ledger, TypeInv, TypeOK, CountersInv, OpenInv,
       ApprovalInv, CaptureInv, EndInv, BudgetInv, ReportInv, Closed, Barred, MessagesSent

\* The invariant holds in every run of the graph.
THEOREM Invariance == Spec => []RunInv
<1>1. RunInv /\ [Next]_vars => RunInv'
  BY RiskDetectionInv, ContextBuilderInv, DiagnosisInv, StrategyInv, PolicyCheckInv,
     ActionExecutionInv, ObservationInv, VerificationInv, ReplanInv, EscalationInv,
     CompletionInv, OutOfStepsInv, StutterInv DEF Next
<1> QED
  BY InitInv, <1>1, PTL DEF Spec

-----------------------------------------------------------------------------
(* The properties.                                                          *)

\* Every variable keeps its type: no node leaves AgentState with a value that the routing
\* functions or the service do not know.
THEOREM TypeCorrect == Spec => []TypeOK
<1>1. RunInv => TypeOK
  BY DEF RunInv, TypeInv
<1> QED
  BY <1>1, Invariance, PTL

\* Whatever the planner proposes and however many replans are allowed, the charges of a run
\* stay within max_retries (node_policy_check before node_action_execution).
THEOREM RetryLimitHolds == Spec => []ChargesWithinRetryLimit
<1>1. RunInv => ChargesWithinRetryLimit
  BY DEF RunInv, CountersInv, ChargesWithinRetryLimit
<1> QED
  BY <1>1, Invariance, PTL

\* A barred customer, a closed case and an amount over the limit see no charge and no
\* message (node_risk_detection and the first checks of the policy).
THEOREM BarredCaseHolds == Spec => []BarredCaseIsLeftAlone
<1>1. RunInv => BarredCaseIsLeftAlone
  BY Typing DEF RunInv, CountersInv, BarredCaseIsLeftAlone, Barred, MessagesSent
<1> QED
  BY <1>1, Invariance, PTL

\* No run takes the messages of the kinds the policy caps past the cap, in all its passes
\* together: the counter node_policy_check compares is still the one that
\* node_action_execution raises.
THEOREM CustomerIsSparedHolds == Spec => CustomerIsSpared
<1>1. RunInv /\ [Next]_vars
       => [communication_count' > communication_count /\ strategy # "PAYMENT_METHOD_UPDATE" =>
             communication_count' <= policy.max_messages_per_case]_vars
  <2> SUFFICES ASSUME RunInv, Next, strategy # "PAYMENT_METHOD_UPDATE",
                      communication_count' > communication_count
               PROVE  communication_count' <= policy.max_messages_per_case
    OBVIOUS
  <2>1. /\ communication_count \in Nat /\ policy.max_messages_per_case \in Nat
    BY Typing DEF RunInv
  <2>2. ActionExecution
    BY <2>1 DEF Next, RiskDetection, ContextBuilder, Diagnosis, Strategy, PolicyCheck,
                Observation, Verification, Replan, Escalation, Completion, OutOfSteps,
                Execute, counters
  <2>3. /\ strategy \in {"CHECKOUT_RECOVERY", "REMINDER"}
        /\ communication_count' = communication_count + 1
    BY <2>1, <2>2 DEF ActionExecution, ChargeCustomer, SendCheckoutRecovery, SendMessage,
                      RecordOnly, counters
  <2>4. ActionType[strategy] \in MessageActions
    BY <2>3 DEF ActionType, MessageActions
  <2> QED
    BY <2>1, <2>2, <2>3, <2>4 DEF RunInv, ApprovalInv, ActionExecution, Execute
<1> QED
  BY <1>1, BarredCaseHolds, Invariance, PTL DEF Spec, CustomerIsSpared, CappedMessagesWithinCap

\* A run that ends has closed the case and reports a recovery exactly when there is one
\* (node_verification, node_escalation, node_completion).
THEOREM EndHolds == Spec => []EndedRunLeavesNothingOpen
<1>1. RunInv => EndedRunLeavesNothingOpen
  BY Typing DEF RunInv, CaptureInv, EndInv, EndedRunLeavesNothingOpen
<1> QED
  BY <1>1, Invariance, PTL

\* After a charge has gone through the run neither charges nor writes again
\* (node_verification and route_after_verification).
THEOREM CaptureIsLast == Spec => NothingAfterCapture
<1>1. RunInv /\ [Next]_vars
       => [captured > 0 => UNCHANGED <<attempts, communication_count>>]_vars
  <2> SUFFICES ASSUME RunInv, Next, captured > 0
               PROVE  UNCHANGED <<attempts, communication_count>>
    OBVIOUS
  <2>1. node # "action_execution"
    BY DEF RunInv, CaptureInv
  <2> QED
    BY <2>1 DEF Next, RiskDetection, ContextBuilder, Diagnosis, Strategy, PolicyCheck,
                ActionExecution, Observation, Verification, Replan, Escalation, Completion,
                OutOfSteps, Execute, counters, ledger
<1> QED
  BY <1>1, Invariance, PTL DEF Spec, NothingAfterCapture

-----------------------------------------------------------------------------
(* The run implements its contract.                                         *)

Fields ==
  {"status", "limit", "found", "retries", "messages", "actions", "paid", "result"}

\* make_initial_state is a fresh run of the contract.
LEMMA InitImplements == Init => Contract!Init
<1> SUFFICES ASSUME Init  PROVE Contract!Init
  OBVIOUS
<1> DEFINE found == IF input.recovered THEN "recovered" ELSE IF Closed THEN "void" ELSE "open"
<1>1. input \in Input
  BY AgentAssumption DEF Init
<1>2. attempts + MessagesSent = 0 /\ (captured > 0) = FALSE /\ node = "risk_detection"
  BY <1>1 DEF Init, MessagesSent, Input
<1>3. retry_count = input.retry_count /\ communication_count = input.communication_count
  BY DEF Init
<1>4. ContractRun = Contract!FreshRun(policy.max_retries, input.retry_count,
                                      input.communication_count, found)
  <2> HIDE DEF Init
  <2> QED
    BY <1>2, <1>3 DEF ContractRun, Contract!FreshRun
<1>5. /\ policy.max_retries \in {p.max_retries : p \in Policies}
      /\ input.retry_count \in {i.retry_count : i \in Inputs}
                                 \union {i.communication_count : i \in Inputs}
      /\ input.communication_count \in {i.retry_count : i \in Inputs}
                                         \union {i.communication_count : i \in Inputs}
  BY DEF Init
<1>6. found \in {"open", "recovered", "void"}
  OBVIOUS
<1> QED
  BY <1>4, <1>5, <1>6 DEF Contract!Init

\* A node that neither acts nor ends the run is a stutter of the contract.
LEMMA SilentStep ==
  ASSUME node \in Nodes, node' \in Nodes, UNCHANGED <<policy, input>>,
         UNCHANGED <<retry_count, communication_count, attempts, captured>>
  PROVE  UNCHANGED ContractRun
<1>1. (Closed <=> Closed') /\ MessagesSent' = MessagesSent
  BY DEF Closed, MessagesSent
<1> QED
  BY <1>1 DEF ContractRun, Nodes

\* ContractRun is a function on the fields of the contract's record, so two of them are
\* compared field by field.
LEMMA RecordFields ==
  /\ ContractRun = [f \in Fields |-> ContractRun[f]]
  /\ ContractRun' = [f \in Fields |-> (ContractRun')[f]]
<1>1. ContractRun = [f \in Fields |-> ContractRun[f]]
  BY Zenon DEF ContractRun, Fields
<1>2. ContractRun' = [f \in Fields |-> (ContractRun')[f]]
  BY Zenon DEF ContractRun, Fields
<1> QED
  BY <1>1, <1>2

\* A run inside the loop that has captured nothing may act.
LEMMA MayActOpen ==
  ASSUME node = "action_execution", ~Closed, captured = 0,
          attempts + MessagesSent <= MaxReplans
  PROVE  Contract!MayAct(ContractRun)
<1>1. ~input.recovered /\ ~(captured > 0)
  BY DEF Closed
<1>2. ContractRun.status = "running" /\ ContractRun.found = "open"
  BY <1>1 DEF ContractRun
<1>3. ~ContractRun.paid
  BY <1>1 DEF ContractRun
<1>4. ContractRun.actions <= MaxReplans
  BY DEF ContractRun
<1> QED
  BY <1>2, <1>3, <1>4 DEF Contract!MayAct

\* How a run found its case does not change.
LEMMA FixedFound ==
  ASSUME policy' = policy, input' = input
  PROVE  ContractRun'.found = ContractRun.found /\ ContractRun'.limit = ContractRun.limit
BY FixedCase DEF ContractRun

\* A charge of node_action_execution is a charge the contract permits.
LEMMA ChargeImplements ==
  ASSUME RunInv, ActionExecution, ChargeCustomer
  PROVE  ContractRun' \in Contract!Charged(ContractRun)
<1> USE DEF RunInv
<1>1. node = "action_execution" /\ node' = "observation" /\ policy' = policy /\ input' = input
  BY DEF ActionExecution, Execute
<1>2. ~Closed /\ captured = 0 /\ retry_count < policy.max_retries
  BY <1>1, Typing DEF OpenInv, ApprovalInv, CaptureInv, Working, Nodes, ChargeCustomer,
                      ActionType, RetryActions
<1>3. attempts + MessagesSent <= MaxReplans
  BY <1>1, Typing, AgentAssumption DEF BudgetInv, TypeInv, TypeOK, MessagesSent
<1>4. /\ retry_count' = retry_count + 1 /\ communication_count' = communication_count
      /\ attempts' + MessagesSent' = attempts + MessagesSent + 1
  BY <1>1, Typing DEF ChargeCustomer, MessagesSent
<1>5. Contract!MayAct(ContractRun) /\ ContractRun.retries < ContractRun.limit
  BY <1>1, <1>2, <1>3, MayActOpen DEF ContractRun
<1>6. ContractRun' = [ContractRun EXCEPT !.retries = @ + 1, !.actions = @ + 1,
                                         !.paid = (captured' > 0)]
  <2>1. /\ ContractRun'.status = ContractRun.status /\ ContractRun'.result = ContractRun.result
        /\ ContractRun'.messages = ContractRun.messages
    BY <1>1, <1>4 DEF ContractRun
  <2>2. ContractRun'.retries = ContractRun.retries + 1
    BY <1>4 DEF ContractRun
  <2>3. ContractRun'.actions = ContractRun.actions + 1
    BY <1>4 DEF ContractRun
  <2>4. ContractRun'.paid = (captured' > 0)
    BY DEF ContractRun
  <2> QED
    BY <1>1, <2>1, <2>2, <2>3, <2>4, FixedFound, RecordFields DEF Fields
<1>7. (captured' > 0) \in BOOLEAN
  OBVIOUS
<1> QED
  BY <1>5, <1>6, <1>7 DEF Contract!Charged

\* A message of node_action_execution is a message the contract permits.
LEMMA MessageImplements ==
  ASSUME RunInv, ActionExecution, SendCheckoutRecovery \/ SendMessage
  PROVE  ContractRun' \in Contract!Messaged(ContractRun)
<1> USE DEF RunInv
<1>1. node = "action_execution" /\ node' = "observation" /\ policy' = policy /\ input' = input
  BY DEF ActionExecution, Execute
<1>2. ~Closed /\ captured = 0
  BY <1>1, Typing DEF OpenInv, CaptureInv, Working, Nodes
<1>3. attempts + MessagesSent <= MaxReplans
  BY <1>1, Typing, AgentAssumption DEF BudgetInv, TypeInv, TypeOK, MessagesSent
<1>4. /\ retry_count' = retry_count /\ communication_count' = communication_count + 1
      /\ attempts' = attempts /\ captured' = captured
      /\ attempts' + MessagesSent' = attempts + MessagesSent + 1
  BY <1>1, Typing DEF SendCheckoutRecovery, SendMessage, MessagesSent, ledger
<1>5. Contract!MayAct(ContractRun)
  BY <1>1, <1>2, <1>3, MayActOpen
<1>6. ContractRun' = [ContractRun EXCEPT !.messages = @ + 1, !.actions = @ + 1]
  <2>1. /\ ContractRun'.status = ContractRun.status /\ ContractRun'.result = ContractRun.result
        /\ ContractRun'.retries = ContractRun.retries
    BY <1>1, <1>4 DEF ContractRun
  <2>2. ContractRun'.messages = ContractRun.messages + 1
    BY <1>4 DEF ContractRun
  <2>3. ContractRun'.actions = ContractRun.actions + 1
    BY <1>4 DEF ContractRun
  <2>4. ContractRun'.paid = ContractRun.paid
    BY <1>4 DEF ContractRun
  <2> QED
    BY <1>1, <2>1, <2>2, <2>3, <2>4, FixedFound, RecordFields DEF Fields
<1> QED
  BY <1>5, <1>6 DEF Contract!Messaged

\* A run that completes reports what its contract says it reports.
LEMMA CompletionImplements ==
  ASSUME RunInv, Completion
  PROVE  ContractRun' \in Contract!Finished(ContractRun)
<1> USE DEF RunInv
<1>1. /\ node = "completion" /\ node' = "END" /\ policy' = policy /\ input' = input
      /\ UNCHANGED <<retry_count, communication_count, attempts, captured, recovered, outcome>>
  BY DEF Completion, Execute, counters, ledger
<1>2. MessagesSent' = MessagesSent
  BY <1>1 DEF MessagesSent
<1>3. ContractRun.status = "running"
  BY <1>1 DEF ContractRun
<1>4. ContractRun' = [ContractRun EXCEPT !.status = "finished", !.result = ContractRun'.result]
  <2>1. ContractRun'.status = "finished"
    BY <1>1 DEF ContractRun
  <2>2. /\ ContractRun'.retries = ContractRun.retries
        /\ ContractRun'.messages = ContractRun.messages
        /\ ContractRun'.actions = ContractRun.actions
    BY <1>1, <1>2 DEF ContractRun
  <2>3. ContractRun'.paid = ContractRun.paid
    BY <1>1 DEF ContractRun
  <2> QED
    BY <1>1, <2>1, <2>2, <2>3, FixedFound, RecordFields DEF Fields
<1>5. EndInv' /\ ReportInv' /\ CaptureInv'
  BY CompletionInv
<1>6. CASE captured > 0
  <2>1. ~Closed /\ recovered /\ outcome # "none"
    BY <1>1, <1>6, Typing DEF CountersInv, CaptureInv, ReportInv, Closed
  <2>2. ContractRun'.result = "recovered"
    BY <1>1, <2>1 DEF ContractRun
  <2>3. ContractRun.paid /\ ContractRun.found = "open"
    BY <1>6, <2>1 DEF ContractRun, Closed
  <2> QED
    BY <1>3, <1>4, <2>2, <2>3 DEF Contract!Finished
<1>7. CASE ~(captured > 0) /\ Closed
  <2>1. outcome = "none" /\ (escalated' <=> input.recovered)
    BY <1>1, <1>5, <1>7, FixedCase DEF ReportInv
  <2>2. ContractRun'.result = IF input.recovered THEN "escalated" ELSE "stopped"
    BY <1>1, <2>1 DEF ContractRun
  <2>3. ~ContractRun.paid
        /\ ContractRun.found = IF input.recovered THEN "recovered" ELSE "void"
    BY <1>7 DEF ContractRun
  <2> QED
    BY <1>3, <1>4, <2>2, <2>3 DEF Contract!Finished
<1>8. CASE ~(captured > 0) /\ ~Closed
  <2>1. ~recovered /\ escalated'
    BY <1>1, <1>5, <1>8, FixedCase DEF CaptureInv, EndInv, Closed
  <2>2. ContractRun'.result = "escalated"
    BY <1>1, <2>1 DEF ContractRun
  <2>3. ~ContractRun.paid /\ ContractRun.found = "open"
    BY <1>8 DEF ContractRun, Closed
  <2> QED
    BY <1>3, <1>4, <2>2, <2>3 DEF Contract!Finished
<1> QED
  BY <1>6, <1>7, <1>8

\* A run that exceeds the node limit raises.
LEMMA OutOfStepsImplements ==
  ASSUME OutOfSteps
  PROVE  ContractRun' \in Contract!Raised(ContractRun)
<1>1. ContractRun.status = "running"
  BY DEF OutOfSteps, ContractRun, Nodes
<1>2. (Closed <=> Closed') /\ MessagesSent' = MessagesSent
  BY FixedCase DEF OutOfSteps, MessagesSent, counters
<1>3. ContractRun' = [ContractRun EXCEPT !.status = "raised"]
  BY <1>2 DEF OutOfSteps, ContractRun, Nodes, counters, ledger
<1> QED
  BY <1>1, <1>3 DEF Contract!Raised

\* Every step of the graph is a step of the contract or none.
LEMMA StepImplements ==
  ASSUME RunInv, [Next]_vars
  PROVE  [Contract!Next]_ContractRun
<1>1. CASE RiskDetection \/ ContextBuilder \/ Diagnosis \/ Strategy \/ PolicyCheck
           \/ Observation \/ Verification \/ Replan \/ Escalation
  <2>1. node \in Nodes /\ UNCHANGED <<policy, input>>
    BY <1>1 DEF RiskDetection, ContextBuilder, Diagnosis, Strategy, PolicyCheck, Observation,
                Verification, Replan, Escalation, Execute, Nodes
  <2>2. UNCHANGED <<retry_count, communication_count, attempts, captured>>
    BY <1>1 DEF RiskDetection, ContextBuilder, Diagnosis, Strategy, PolicyCheck, Observation,
                Verification, Replan, Escalation, counters, ledger
  <2>3. node' \in Nodes
    <3>1. CASE PolicyCheck
      BY <3>1, AuthorizeDecides
         DEF PolicyCheck, Execute, RouteAfterPolicyCheck, Decisions, Nodes
    <3>2. CASE ~PolicyCheck
      BY <1>1, <3>2 DEF RiskDetection, ContextBuilder, Diagnosis, Strategy, Observation,
                Verification, RouteAfterVerification, Replan, Escalation, Execute, Nodes
    <3> QED
      BY <3>1, <3>2
  <2> QED
    BY <2>1, <2>2, <2>3, SilentStep
<1>2. CASE ActionExecution
  <2>1. decision = "APPROVED"
    BY <1>2 DEF RunInv, ApprovalInv, ActionExecution, Execute
  <2>2. CASE RecordOnly
    BY <1>2, <2>2, SilentStep DEF ActionExecution, Execute, RecordOnly, counters, ledger, Nodes
  <2> QED
    BY <1>2, <2>1, <2>2, ChargeImplements, MessageImplements
       DEF ActionExecution, Contract!Next, Contract!Successors
<1>3. CASE Completion
  BY <1>3, CompletionImplements DEF Contract!Next, Contract!Successors
<1>4. CASE OutOfSteps
  BY <1>4, OutOfStepsImplements DEF Contract!Next, Contract!Successors
<1>5. CASE UNCHANGED vars
  BY <1>5 DEF vars, counters, flags, ledger, ContractRun, Closed, MessagesSent
<1> QED
  BY <1>1, <1>2, <1>3, <1>4, <1>5 DEF Next

\* Every run of the graph is a run AgentContract allows: what RecoveryService assumes of the
\* agent is what recovery_graph.py and its nodes do.
THEOREM RunImplementsContract == Spec => ImplementsContract
BY InitImplements, StepImplements, Invariance, PTL
   DEF Spec, ImplementsContract, Contract!Spec

=============================================================================
