----------------------------- MODULE RecoveryService -----------------------------
(***************************************************************************)
(* One recovery case and everything that writes to it: the agent runs       *)
(* dispatched for it (agent_dispatch.py, tasks.py, recovery_service.py),    *)
(* the operator who escalates it, and the checkout and webhook handlers     *)
(* that reconcile a payment the customer made (razorpay_checkout.py).       *)
(*                                                                         *)
(* Each actor works in a database transaction of its own.  An agent run     *)
(* reads the case row when it begins, runs the graph for seconds without a  *)
(* lock, and at its end writes the columns that differ from what it read.   *)
(* Inside the graph a run does what AgentContract permits.                  *)
(***************************************************************************)
EXTENDS Naturals, FiniteSets

CONSTANTS
  Runs,         \* identities of the AgentRun rows that may be created
  Backend,      \* AGENT_EXECUTION_BACKEND: "inline" or "celery"
  Provider,     \* PAYMENT_PROVIDER: "simulator" or "razorpay_test"
  RetryLimit,   \* max_retries of the active policy
  MaxReplans,   \* max_replans of make_initial_state
  TaskRetries,  \* max_retries of run_recovery_agent_task
  MaxCrashes    \* bound on process failures

ASSUME ServiceAssumption ==
  /\ Backend \in {"inline", "celery"}
  /\ Provider \in {"simulator", "razorpay_test"}
  /\ {RetryLimit, MaxReplans, TaskRetries, MaxCrashes} \subseteq Nat

VARIABLES
  case,      \* the committed RecoveryCase row
  row,       \* run_status of each AgentRun row
  job,       \* where the execution of each run is, who executes it, which attempt it is
  loaded,    \* the case row as the executing session read it
  agent,     \* the graph's progress (a run of AgentContract)
  audit,     \* business events in the audit ledger
  captured,  \* environment: the customer has paid the case's Razorpay order
  charges,   \* environment: charges the agent asked the provider for
  payments,  \* environment: payments that went through
  keys,      \* environment: idempotency keys the provider has seen, by retry number: the case
             \* is always this one and the strategy that of its rule
  crashes    \* process failures so far

environment == <<captured, charges, payments, keys>>
vars == <<case, row, job, loaded, agent, audit, environment, crashes>>

Agent == INSTANCE AgentContract WITH
           run <- agent, Limits <- {RetryLimit}, Counts <- {0}

CaseRows ==
  [status : {"DETECTED", "RECOVERED", "ESCALATED", "STOPPED"}, recovered : BOOLEAN,
   stopped : BOOLEAN, retries : Nat, messages : Nat, amount : BOOLEAN, order : BOOLEAN]

Jobs ==
  [place : {"none", "started", "queued", "executing", "committed", "gone"},
   by : {"inline", "celery"}, attempt : 0 .. TaskRetries]

TypeOK ==
  /\ case \in CaseRows
  /\ row \in [Runs -> {"none", "RUNNING", "COMPLETED", "ERROR"}]
  /\ job \in [Runs -> Jobs]
  /\ loaded \in [Runs -> CaseRows]
  /\ agent \in [Runs -> Agent!RunStates]
  /\ audit \subseteq {"ESCALATED", "PAYMENT_SUCCESS", "REVENUE_RECOVERED"}
  /\ captured \in BOOLEAN
  /\ charges \in Nat /\ payments \in Nat /\ keys \subseteq Nat
  /\ crashes \in 0 .. MaxCrashes

\* A case as create_case_from_payment_failure leaves it.
NewCase ==
  [status |-> "DETECTED", recovered |-> FALSE, stopped |-> FALSE, retries |-> 0,
   messages |-> 0, amount |-> FALSE, order |-> FALSE]

Init ==
  /\ case = NewCase
  /\ row = [r \in Runs |-> "none"]
  /\ job = [r \in Runs |-> [place |-> "none", by |-> "inline", attempt |-> 0]]
  /\ loaded = [r \in Runs |-> NewCase]
  /\ agent = [r \in Runs |-> Agent!FreshRun(RetryLimit, 0, 0, "open")]
  /\ audit = {}
  /\ captured = FALSE /\ charges = 0 /\ payments = 0 /\ keys = {}
  /\ crashes = 0

-----------------------------------------------------------------------------
(* Dispatching a run.                                                       *)

\* start_agent_run and the commit of dispatch_agent_run: refused for a resolved case,
\* whatever other runs are under way.
StartRun(r) ==
  /\ row[r] = "none"
  /\ ~case.recovered /\ ~case.stopped
  /\ row' = [row EXCEPT ![r] = "RUNNING"]
  /\ job' = [job EXCEPT ![r].place = "started"]
  /\ UNCHANGED <<case, loaded, agent, audit, environment, crashes>>

\* The rest of dispatch_agent_run: the task queue, or the API process itself when that is
\* the backend or the queue refuses the task.
Enqueue(r) ==
  /\ job[r].place = "started"
  /\ \E by \in {"inline", Backend} :
       job' = [job EXCEPT ![r].place = "queued", ![r].by = by]
  /\ UNCHANGED <<case, row, loaded, agent, audit, environment, crashes>>

-----------------------------------------------------------------------------
(* Executing a run: execute_agent_run.                                      *)

\* Seeded fault: is_recovered is not passed on.
BeginUninformed(r) ==
  /\ job[r].place = "queued" /\ row[r] = "RUNNING"
  /\ job' = [job EXCEPT ![r].place = "executing"]
  /\ loaded' = [loaded EXCEPT ![r] = case]
  /\ agent' = [agent EXCEPT ![r] = Agent!FreshRun(RetryLimit, case.retries, case.messages, "open")]
  /\ UNCHANGED <<case, row, audit, environment, crashes>>

\* A run that is no longer RUNNING is returned untouched; otherwise its session reads the
\* case and the graph starts from the counters in it.  Only is_recovered is passed on.
Begin(r) ==
  /\ job[r].place = "queued"
  /\ IF row[r] # "RUNNING"
     THEN /\ job' = [job EXCEPT ![r].place = "committed"]
          /\ UNCHANGED <<loaded, agent>>
     ELSE /\ job' = [job EXCEPT ![r].place = "executing"]
          /\ loaded' = [loaded EXCEPT ![r] = case]
          /\ agent' = [agent EXCEPT ![r] =
               Agent!FreshRun(RetryLimit, case.retries, case.messages,
                              IF case.recovered THEN "recovered" ELSE "open")]
  /\ UNCHANGED <<case, row, audit, environment, crashes>>

\* A step of the graph.  Charges reach the provider at once, whatever becomes of the
\* transaction; Razorpay's never succeed by themselves.
AgentStep(r) ==
  /\ job[r].place = "executing"
  /\ \E next \in Agent!Successors(agent[r]) :
       /\ next.paid => Provider = "simulator"
       /\ agent' = [agent EXCEPT ![r] = next]
       /\ IF next.retries > agent[r].retries
          THEN /\ charges' = charges + 1
               /\ keys' = keys \union {next.retries}
               /\ payments' = IF next.paid THEN payments + 1 ELSE payments
          ELSE UNCHANGED <<charges, keys, payments>>
  /\ UNCHANGED <<case, row, job, loaded, audit, captured, crashes>>

\* Seeded fault: the run's retries are added to the loaded count once more.
AssignedTwice(r) ==
  LET a == agent[r]
  IN  [loaded[r] EXCEPT !.retries = @ + a.retries, !.messages = a.messages,
         !.recovered = (a.paid \/ @), !.stopped = TRUE, !.amount = (a.paid \/ @),
         !.status = IF a.paid THEN "RECOVERED" ELSE "ESCALATED"]

\* Seeded fault: the run forgets that it found the case recovered.
AssignedForgetting(r) ==
  LET a == agent[r]
  IN  [loaded[r] EXCEPT !.retries = a.retries, !.messages = a.messages,
         !.recovered = a.paid, !.stopped = TRUE, !.amount = (a.paid \/ @),
         !.status = IF a.paid THEN "RECOVERED" ELSE "ESCALATED"]

\* The case as _apply_agent_result assigns it.  The final state of a run that ended says
\* stopped, and recovered also when the run found the case recovered; without a
\* verification result such a case takes the escalation branch.
Assigned(r) ==
  LET a     == agent[r]
      ended == [loaded[r] EXCEPT !.retries = a.retries, !.messages = a.messages,
                                 !.recovered = (a.paid \/ loaded[r].recovered),
                                 !.stopped = TRUE]
  IN  CASE a.result = "recovered" -> [ended EXCEPT !.status = "RECOVERED", !.amount = TRUE]
        [] a.result = "escalated" -> [ended EXCEPT !.status = "ESCALATED"]
        [] OTHER                  -> [ended EXCEPT !.status = "STOPPED"]

\* SQLAlchemy's UPDATE: the columns whose assigned value differs from the loaded one.
Written(old, new, current) ==
  [f \in DOMAIN current |-> IF new[f] # old[f] THEN new[f] ELSE current[f]]

\* Seeded fault: the last attempt raises like the others and nothing marks the run.
FailAttemptUnmarked(r, assigned) ==
  /\ job' = [job EXCEPT ![r].place = IF @ = "executing" /\ job[r].by = "celery"
                                        /\ job[r].attempt < TaskRetries
                                     THEN "queued" ELSE "committed",
                        ![r].attempt = IF @ < TaskRetries THEN @ + 1 ELSE @]
  /\ UNCHANGED <<case, row>>

\* The end of an attempt that failed: Celery takes it up again after a rollback, the last
\* attempt (the only one of an inline run) marks the run ERROR and keeps what the session
\* had assigned to the case.
FailAttempt(r, assigned) ==
  IF job[r].by = "celery" /\ job[r].attempt < TaskRetries
  THEN /\ job' = [job EXCEPT ![r].place = "queued", ![r].attempt = @ + 1]
       /\ UNCHANGED <<case, row>>
  ELSE /\ job' = [job EXCEPT ![r].place = "committed"]
       /\ row' = [row EXCEPT ![r] = "ERROR"]
       /\ case' = Written(loaded[r], assigned, case)

\* The graph raised.
Fail(r) ==
  /\ job[r].place = "executing" /\ agent[r].status = "raised"
  /\ FailAttempt(r, loaded[r])
  /\ UNCHANGED <<loaded, agent, audit, environment, crashes>>

\* Seeded fault: what the audit service raises is logged and ignored.
ApplySwallowing(r) ==
  /\ job[r].place = "executing" /\ agent[r].status = "finished"
  /\ case' = Written(loaded[r], Assigned(r), case)
  /\ row' = [row EXCEPT ![r] = "COMPLETED"]
  /\ job' = [job EXCEPT ![r].place = "committed"]
  /\ audit' = IF agent[r].result = "escalated" THEN audit \union {"ESCALATED"} ELSE audit
  /\ UNCHANGED <<loaded, agent, environment, crashes>>

\* The result is applied and committed.  The REVENUE_RECOVERED event of a recovered case
\* names the provider's transaction id, which is no UUID: AuditService.record raises
\* before it writes, after the case has been assigned.
Apply(r) ==
  /\ job[r].place = "executing" /\ agent[r].status = "finished"
  /\ IF agent[r].result = "recovered"
     THEN FailAttempt(r, Assigned(r)) /\ UNCHANGED audit
     ELSE /\ case' = Written(loaded[r], Assigned(r), case)
          /\ row' = [row EXCEPT ![r] = "COMPLETED"]
          /\ job' = [job EXCEPT ![r].place = "committed"]
          /\ audit' = IF agent[r].result = "escalated" THEN audit \union {"ESCALATED"}
                      ELSE audit
  /\ UNCHANGED <<loaded, agent, environment, crashes>>

\* The task is acknowledged after it has run (task_acks_late).
Acknowledge(r) ==
  /\ job[r].place = "committed"
  /\ job' = [job EXCEPT ![r].place = "gone"]
  /\ UNCHANGED <<case, row, loaded, agent, audit, environment, crashes>>

\* The process holding the run dies and its transaction rolls back.  A background task
\* of the API process is lost; an unacknowledged Celery task is delivered again, unless
\* only the worker's child died (task_reject_on_worker_lost is not set).
Crash(r) ==
  /\ crashes < MaxCrashes
  /\ crashes' = crashes + 1
  /\ job[r].place \in {"started", "queued", "executing", "committed"}
  /\ \/ job' = [job EXCEPT ![r].place = "gone"]
     \/ /\ job[r].by = "celery" /\ job[r].place \in {"executing", "committed"}
        /\ job' = [job EXCEPT ![r].place = "queued"]
  /\ UNCHANGED <<case, row, loaded, agent, audit, environment>>

-----------------------------------------------------------------------------
(* The other writers.                                                       *)

\* escalate_case, with no look at the case's state.
OperatorEscalates ==
  /\ case' = [case EXCEPT !.status = "ESCALATED", !.stopped = TRUE]
  /\ audit' = audit \union {"ESCALATED"}
  /\ UNCHANGED <<row, job, loaded, agent, environment, crashes>>

\* create_order: one order per case, none for a terminal case.
CreateOrder ==
  /\ Provider = "razorpay_test"
  /\ case.status = "DETECTED" /\ ~case.recovered /\ ~case.stopped
  /\ ~case.order
  /\ case' = [case EXCEPT !.order = TRUE]
  /\ UNCHANGED <<row, job, loaded, agent, audit, environment, crashes>>

\* The customer pays the order in the provider's checkout.
CustomerPays ==
  /\ case.order /\ ~captured
  /\ captured' = TRUE
  /\ payments' = payments + 1
  /\ UNCHANGED <<case, row, job, loaded, agent, audit, charges, keys, crashes>>

\* Seeded fault: the callback's word is taken for the payment.
ReconcileUnverified ==
  /\ case.order /\ ~case.recovered
  /\ case' = [case EXCEPT !.status = "RECOVERED", !.recovered = TRUE, !.stopped = TRUE,
                          !.amount = TRUE]
  /\ audit' = audit \union {"PAYMENT_SUCCESS", "REVENUE_RECOVERED"}
  /\ UNCHANGED <<row, job, loaded, agent, environment, crashes>>

\* _reconcile_captured_payment, called by the checkout callback or by the webhook, under
\* a row lock on the case.  A request whose flush the driver refuses rolls back and is no
\* step here (CheckoutReconciliation has it); nothing obliges Reconcile to happen.
Reconcile ==
  /\ captured /\ ~case.recovered
  /\ case' = [case EXCEPT !.status = "RECOVERED", !.recovered = TRUE, !.stopped = TRUE,
                          !.amount = TRUE]
  /\ audit' = audit \union {"PAYMENT_SUCCESS", "REVENUE_RECOVERED"}
  /\ UNCHANGED <<row, job, loaded, agent, environment, crashes>>

-----------------------------------------------------------------------------
Execution(r) == Enqueue(r) \/ Begin(r) \/ AgentStep(r) \/ Fail(r) \/ Apply(r) \/ Acknowledge(r)

Next ==
  \/ \E r \in Runs : StartRun(r) \/ Execution(r) \/ Crash(r)
  \/ OperatorEscalates \/ CreateOrder \/ CustomerPays \/ Reconcile

Spec == Init /\ [][Next]_vars

\* A queued run is taken up and an executing one goes on; nothing obliges the operator,
\* the customer or the callers of the API.
FairSpec == Spec /\ \A r \in Runs : WF_vars(Execution(r))

-----------------------------------------------------------------------------
(* Properties.                                                              *)

\* A recovery is never undone: once the row says recovered it keeps saying so, with its
\* amount, and a stopped case is never reopened, although a run that read the row before
\* writes it after (_apply_agent_result assigns all of these columns).
RecoveryIsNeverUndone ==
  [][/\ case.recovered => case'.recovered /\ case'.amount
     /\ case.stopped => case'.stopped]_vars

\* Money is only reported when money moved: a recovered case, and only a recovered case,
\* has a recovered amount, a payment stands behind it, and it is closed.
RecoveredMeansPaid ==
  /\ case.recovered <=> case.amount
  /\ case.recovered => payments > 0 /\ case.stopped

\* The stored retry count never claims charges that were not made nor exceeds the limit.
StoredRetriesAreReal == case.retries <= charges /\ case.retries <= RetryLimit

\* A run that has been completed or marked ERROR is never executed again, although its
\* task may be delivered again: its status stays and it asks for no further charge.
FinishedRunIsFinal ==
  [][\A r \in Runs : row[r] \in {"COMPLETED", "ERROR"} =>
       row'[r] = row[r] /\ agent'[r].retries = agent[r].retries]_vars

\* A run that completed has closed the case, with whatever other writers came between.
CompletedRunClosesCase == (\E r \in Runs : row[r] = "COMPLETED") => case.stopped

\* Unless a process fails every started run ends, through queue refusals, failing attempts
\* and Celery retries (dispatch_agent_run, run_recovery_agent_task).
StartedRunsEnd ==
  \A r \in Runs :
    row[r] = "RUNNING" ~> row[r] \in {"COMPLETED", "ERROR"} \/ crashes > 0

\* With Razorpay, where every recovery goes through Reconcile, the ledger and the case
\* agree on it.
ReconciledMeansAudited == case.recovered <=> "REVENUE_RECOVERED" \in audit

\* Where the ledger misses a recovery, a run marked ERROR tells of it: the failing audit
\* record of _apply_agent_result is never passed over in silence.
UnauditedRecoveryIsAnError ==
  case.recovered /\ "REVENUE_RECOVERED" \notin audit => \E r \in Runs : row[r] = "ERROR"

\* models/recovery.py: once RECOVERED, no further actions.  A run that begins after the
\* recovery charges nobody and writes to nobody, though it was started before.
RecoveredCaseIsLeftAlone == \A r \in Runs : loaded[r].recovered => agent[r].actions = 0

\* The attempts of a run that are over, and the one under way if it has acted.
Attempts ==
  {x \in Runs \X (0 .. TaskRetries) :
     \/ x[2] < job[x[1]].attempt
     \/ x[2] = job[x[1]].attempt /\ agent[x[1]].actions > 0}

\* The customer pays at most once for each attempt at a run, once more for each process
\* failure, which may have an attempt delivered again after it was paid, and once in the
\* checkout: no more, however runs, retries and redeliveries interleave
\* (run_recovery_agent_task, _apply_agent_result).
OnePaymentPerAttempt ==
  payments <= Cardinality(Attempts) + crashes + (IF captured THEN 1 ELSE 0)

-----------------------------------------------------------------------------
(* What the documents say and this code does not do: each of the following  *)
(* is violated, in the situation the README describes.                      *)

\* docs/architecture.md: a recovery records a REVENUE_RECOVERED audit event.
RecoveryIsAudited == case.recovered => "REVENUE_RECOVERED" \in audit

\* docs/SECURITY_AND_SAFETY.md: a hard upper bound on the retry attempts of a case.
ChargesWithinPolicy == charges <= RetryLimit

\* models/recovery.py, docs/architecture.md: once RECOVERED, no further actions.  A run that
\* ends after the case was recovered leaves its status alone.
RunKeepsRecoveredStatus ==
  [][\A r \in Runs : case.recovered /\ row'[r] # row[r] => case'.status = case.status]_vars

\* docs/architecture.md: replays of an action with the same idempotency key are blocked,
\* so the customer pays at most once under each key.
OnePaymentPerKey == payments <= Cardinality(keys)

\* docs/architecture.md: the agent works on re-fetched authoritative state, so a run that
\* read a stopped case does nothing to the customer.
StoppedCaseIsLeftAlone == \A r \in Runs : loaded[r].stopped => agent[r].actions = 0

=============================================================================
