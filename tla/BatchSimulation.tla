------------------------------ MODULE BatchSimulation ------------------------------
(***************************************************************************)
(* One batch experiment: the row of simulation_runs and the executions of   *)
(* it (simulation.py, simulation_service.py, tasks.py), with the simulated  *)
(* payments, the recovery verifier and the baseline they use (simulator/).  *)
(*                                                                         *)
(* POST /simulation/run commits the row and executes it in a background     *)
(* task, through the session of the request, which nothing commits again:   *)
(* when the task is over the session is dropped and rolled back.            *)
(* execute_simulation_task has a session of its own and commits it.  Every  *)
(* execution locks the row by its first flush and reads the active policy   *)
(* once.  Nothing has validated a stored policy, and reading one of which   *)
(* no PolicyConfig can be made raises.  The seed fixes the events and every *)
(* draw, but not what the language model answers nor the model file of the  *)
(* moment, on which the agent depends as well.                              *)
(***************************************************************************)
EXTENDS Naturals, Sequences, FiniteSets

CONSTANTS
  Batches,     \* the batches a seed can produce: sequences of events
  Policies,    \* the policies that can be active
  Refused,     \* those of which no PolicyConfig can be made
  Agents,      \* what the agent can make of the events of a batch, under each policy
  Background,  \* background tasks that execute the run (at most one per request)
  Tasks,       \* deliveries of execute_simulation_task
  MaxInt,      \* the largest value of an INTEGER column
  MaxCrashes,  \* bound on processes that die
  None

ASSUME SimulationAssumption ==
  /\ MaxInt \in Nat /\ MaxCrashes \in Nat
  /\ Background \intersect Tasks = {} /\ Refused \subseteq Policies
  /\ None \notin Policies \union [at_risk : Nat, revenue : Nat]

VARIABLES
  batch,     \* the events
  baseline,  \* is_baseline
  agent,     \* the outcomes the agent can have
  row,       \* the committed row
  policy,    \* the active policy
  work,      \* the executions
  crashes

vars == <<batch, baseline, agent, row, policy, work, crashes>>
fixed == <<batch, baseline, agent>>

Workers == Background \union Tasks

-----------------------------------------------------------------------------
(* The simulated payments.  Probabilities in units of 1/10000.              *)

\* RETRY_SUCCESS_PROB, by the number of the retry from 0, in percent.
RetrySuccess ==
  [INSUFFICIENT_FUNDS |-> <<0, 40, 60, 75>>, BANK_DECLINE |-> <<0, 25, 45, 55>>,
   EXPIRED_METHOD |-> <<0, 0, 0, 0>>, GATEWAY_TEMPORARY |-> <<0, 70, 90, 95>>,
   AUTH_FAILURE |-> <<0, 20, 35, 45>>, MANDATE_FAILURE |-> <<0, 30, 50, 65>>,
   SUBSCRIPTION_GRACE |-> <<0, 40, 55, 70>>, UNKNOWN |-> <<0, 10, 15, 20>>,
   CHECKOUT_ABANDONED |-> <<0, 15, 25, 35>>]

SegmentFactor == [standard |-> 100, premium |-> 115, enterprise |-> 125, at_risk |-> 75]

Events ==
  [reason : DOMAIN RetrySuccess, segment : DOMAIN SegmentFactor, amount : Nat, draw : Nat]

Outcomes == [recovered : BOOLEAN, escalated : BOOLEAN, raises : BOOLEAN]

\* A batch has num_events events, which is itself in a column; the agent plays each of them.
ASSUME BatchesAssumption ==
  /\ \A b \in Batches : b \in Seq(Events) /\ Len(b) <= MaxInt
  /\ \A b \in Batches : None \notin [DOMAIN b -> Outcomes]
  /\ \A a \in Agents : a \in [Policies -> Seq(SUBSET Outcomes)]
  /\ \A a \in Agents, b \in Batches, p \in Policies : Len(b) <= Len(a[p])

\* simulate_retry_outcome: never certain, whatever the segment.
SuccessProbability(reason, retry, segment) ==
  LET chance == RetrySuccess[reason][IF retry < 3 THEN retry + 1 ELSE 4] * SegmentFactor[segment]
  IN  IF chance < 9900 THEN chance ELSE 9900

\* PaymentSimulator.execute_retry
ExecuteRetry(event, retry) ==
  IF event.draw < SuccessProbability(event.reason, retry, event.segment)
  THEN "SUCCESS" ELSE "FAILED"

\* RecoveryVerifier.verify_payment_attempt
Verify(event, payment, already) ==
  CASE already             -> [outcome |-> "ALREADY_RECOVERED", amount |-> 0]
    [] ~already /\ payment = "SUCCESS" -> [outcome |-> "RECOVERED", amount |-> event.amount]
    [] OTHER               -> [outcome |-> "FAILED", amount |-> 0]

Positions == DOMAIN batch

\* The sums of an amount of every event, up to each position of the batch and of all of it.
RunningTotal(amount) ==
  LET total[n \in 0 .. Len(batch)] == IF n = 0 THEN 0 ELSE total[n - 1] + amount[n]
  IN  total

Total(amount) == RunningTotal(amount)[Len(batch)]

\* What an event can come to under policy p: the baseline retries once, the agent does what
\* it can do.
Possible(p, i) ==
  IF baseline
  THEN {[recovered |-> Verify(batch[i], ExecuteRetry(batch[i], 1), FALSE).outcome = "RECOVERED",
         escalated |-> FALSE, raises |-> FALSE]}
  ELSE agent[p][i]

\* What the events of one execution can come to together.
Plays(p) == {o \in [Positions -> Outcomes] : \A i \in Positions : o[i] \in Possible(p, i)}

\* BaselineSimulator.run_batch and compute_metrics.
BaselineMetrics ==
  LET result    == [i \in Positions |-> Verify(batch[i], ExecuteRetry(batch[i], 1), FALSE)]
      recovered == {i \in Positions : result[i].outcome = "RECOVERED"}
  IN  [at_risk |-> Total([i \in Positions |-> batch[i].amount]),
       revenue |-> Total([i \in Positions |-> result[i].amount]),
       recovered |-> Cardinality(recovered), total |-> Len(batch)]

-----------------------------------------------------------------------------
\* A row as create_run makes it: its report is the JSON column, its sums have columns too.
NewRow == [status |-> "PENDING", progress |-> 0, at_risk |-> 0, revenue |-> 0, total |-> 0,
           recovered |-> 0, escalated |-> 0, report |-> None]

Sums == {"at_risk", "revenue", "total", "recovered", "escalated"}

\* An execution: the row as its session holds it, and as its transaction has made it.
Ready ==
  [at |-> "ready", next |-> 1, policy |-> None, plays |-> None, held |-> NewRow,
   made |-> NewRow, revenue |-> 0, recovered |-> 0, escalated |-> 0]

Init ==
  /\ batch \in Batches
  /\ baseline \in BOOLEAN
  /\ agent \in Agents
  /\ row = NewRow
  /\ policy \in Policies
  /\ work = [w \in Workers |-> Ready]
  /\ crashes = 0

\* The row is locked by an execution from its first flush to the end of its transaction.
Holding == {w \in Workers : work[w].at \in {"running", "raised", "flushed"}}

AtRisk == Total([i \in Positions |-> batch[i].amount])

\* Execution x assigns a new row: the flush writes the columns whose value changes.
Assigned(x, new) ==
  [x EXCEPT !.held = new,
            !.made = [f \in DOMAIN new |-> IF new[f] # x.held[f] THEN new[f] ELSE @[f]]]

Find(w) ==
  /\ work[w].at = "ready"
  /\ work' = [work EXCEPT ![w].at = "found", ![w].held = row]
  /\ UNCHANGED <<fixed, row, policy, crashes>>

\* The run is RUNNING, whatever it was before, and the policy has been read.
Started(w, at, plays) ==
  Assigned([work[w] EXCEPT !.at = at, !.policy = policy, !.plays = plays, !.made = row],
           [work[w].held EXCEPT !.status = "RUNNING"])

\* What the events of this execution will come to is drawn here, among all that the policy
\* allows.
Begin(w) ==
  /\ work[w].at = "found" /\ Holding = {}
  /\ \/ /\ policy \notin Refused
        /\ \E o \in Plays(policy) : work' = [work EXCEPT ![w] = Started(w, "running", o)]
     \/ /\ policy \in Refused
        /\ work' = [work EXCEPT ![w] = Started(w, "raised", None)]
  /\ UNCHANGED <<fixed, row, policy, crashes>>

\* Seeded fault: every event is played under the policy of the moment.
PlayedUnderCurrent(w, i) ==
  IF policy = work[w].policy THEN work[w].plays[i]
  ELSE CHOOSE e \in Possible(policy, i) : TRUE

\* Seeded fault: the baseline is left to the agent.
PlayedByAgent(w, i) == CHOOSE e \in agent[work[w].policy][i] : TRUE

\* What an event comes to in execution w.
Played(w, i) == work[w].plays[i]

\* One event of the loop, and the progress.
Play(w) ==
  LET i == work[w].next
      e == Played(w, i)
      x == work[w]
  IN  /\ x.at = "running" /\ i <= Len(batch)
      /\ work' = [work EXCEPT ![w] =
           IF e.raises THEN [x EXCEPT !.at = "raised"]
           ELSE Assigned([x EXCEPT
                  !.next = i + 1,
                  !.revenue = IF e.recovered THEN @ + batch[i].amount ELSE @,
                  !.recovered = IF e.recovered THEN @ + 1 ELSE @,
                  !.escalated = IF e.escalated THEN @ + 1 ELSE @],
                [x.held EXCEPT !.progress = ((i - 1) * 100) \div Len(batch)])]
      /\ UNCHANGED <<fixed, row, policy, crashes>>

\* The results are flushed.  A sum that does not fit its column fails the flush, and then
\* the one that would record FAILED: the error ends the execution.
Finish(w) ==
  LET x == work[w]
  IN  /\ x.at = "running" /\ x.next > Len(batch)
      /\ work' = [work EXCEPT ![w] =
           IF AtRisk > MaxInt THEN [x EXCEPT !.at = "ended"]
           ELSE Assigned([x EXCEPT !.at = "flushed"],
                  [status |-> "COMPLETED", progress |-> 100, at_risk |-> AtRisk,
                   revenue |-> x.revenue, total |-> Len(batch), recovered |-> x.recovered,
                   escalated |-> x.escalated,
                   report |-> [at_risk |-> AtRisk, revenue |-> x.revenue]])]
      /\ UNCHANGED <<fixed, row, policy, crashes>>

\* The policy could not be read, or an event raised.
RecordFailure(w) ==
  /\ work[w].at = "raised"
  /\ work' = [work EXCEPT ![w] =
       Assigned([@ EXCEPT !.at = "flushed"], [@.held EXCEPT !.status = "FAILED"])]
  /\ UNCHANGED <<fixed, row, policy, crashes>>

\* Seeded fault: the task, too, leaves its session uncommitted.
CommitNothing(w) ==
  /\ w \in Tasks /\ work[w].at = "flushed"
  /\ work' = [work EXCEPT ![w].at = "ended"]
  /\ UNCHANGED <<fixed, row, policy, crashes>>

\* execute_simulation_task commits.
Commit(w) ==
  /\ w \in Tasks /\ work[w].at = "flushed"
  /\ row' = work[w].made
  /\ work' = [work EXCEPT ![w].at = "ended"]
  /\ UNCHANGED <<fixed, policy, crashes>>

\* Nobody commits the session of a background task.
Drop(w) ==
  /\ w \in Background /\ work[w].at = "flushed"
  /\ work' = [work EXCEPT ![w].at = "ended"]
  /\ UNCHANGED <<fixed, row, policy, crashes>>

\* The process dies; the task may be delivered again.
Crash(w) ==
  /\ crashes < MaxCrashes /\ work[w].at \notin {"ready", "ended"}
  /\ crashes' = crashes + 1
  /\ \/ work' = [work EXCEPT ![w].at = "ended"]
     \/ w \in Tasks /\ work' = [work EXCEPT ![w] = Ready]
  /\ UNCHANGED <<fixed, row, policy>>

ActivatePolicy ==
  /\ policy' \in Policies \ {policy}
  /\ UNCHANGED <<fixed, row, work, crashes>>

Proceed(w) ==
  Begin(w) \/ Play(w) \/ Finish(w) \/ RecordFailure(w) \/ Commit(w) \/ Drop(w)

Next == (\E w \in Workers : Find(w) \/ Proceed(w) \/ Crash(w)) \/ ActivatePolicy

Spec == Init /\ [][Next]_vars

\* An execution goes on; waiting for the lock of another ends when that one does.
FairSpec == Spec /\ \A w \in Workers : WF_vars(Proceed(w))

TypeOK ==
  /\ row.status \in {"PENDING", "COMPLETED", "FAILED"}
  /\ policy \in Policies
  /\ \A w \in Workers :
       /\ work[w].at \in {"ready", "found", "running", "raised", "flushed", "ended"}
       /\ work[w].next \in 1 .. Len(batch) + 1
       /\ work[w].policy \in Policies \union {None}
       /\ work[w].plays \in [Positions -> Outcomes] \union {None}
  /\ row.progress \in 0 .. 100
  /\ \A f \in Sums : row[f] \in 0 .. MaxInt
  /\ crashes \in 0 .. MaxCrashes

-----------------------------------------------------------------------------
(* Properties.                                                              *)

\* What a whole batch comes to when its events come to o.
Expected(o) ==
  [at_risk |-> AtRisk, total |-> Len(batch),
   revenue |-> Total([i \in Positions |-> IF o[i].recovered THEN batch[i].amount ELSE 0]),
   recovered |-> Cardinality({i \in Positions : o[i].recovered}),
   escalated |-> Cardinality({i \in Positions : o[i].escalated})]

AllPlays == UNION {Plays(p) : p \in Policies \ Refused}

\* The report of a run is that of one execution of the whole batch under one policy, although
\* the policy may change and the run be executed again meanwhile, even over one that ended
\* otherwise (execute_run: all results computed from real simulation execution).
ReportComesFromOnePolicy ==
  /\ row.report # None =>
       \E o \in AllPlays : row.report = [at_risk |-> AtRisk, revenue |-> Expected(o).revenue]
  /\ row.status = "COMPLETED" => row.report # None

\* The columns of a run that has a report add up to it.  They mix two executions only if
\* these came to different outcomes, under two policies or by different answers of the
\* agent: a flush writes what differs from the row as it was found.
ColumnsMatchReport ==
  LET played == {work[w].plays : w \in Tasks} \ {None}
  IN  row.report # None =>
        \A o \in AllPlays : baseline \/ played = {o} => \A f \in Sums : row[f] = Expected(o)[f]

\* The baseline of the service and BaselineSimulator, which replay the same draws in two
\* ways, report the same revenue and count.
BaselinesAgree ==
  row.status = "COMPLETED" /\ baseline =>
    /\ row.revenue = BaselineMetrics.revenue
    /\ row.recovered = BaselineMetrics.recovered
    /\ row.at_risk = BaselineMetrics.at_risk

\* No simulated retry is certain and none helps an expired method; a later retry of the
\* same payment never has the lower chance.
RetriesAreNeverCertain ==
  \A r \in DOMAIN RetrySuccess, s \in {batch[i].segment : i \in Positions} : \A n \in 0 .. 4 :
    /\ SuccessProbability(r, n, s) <= 9900
    /\ SuccessProbability(r, n, s) <= SuccessProbability(r, n + 1, s)
    /\ (r = "EXPIRED_METHOD" \/ n = 0) => SuccessProbability(r, n, s) = 0

\* What a run shows of itself is the simulation it names: one policy, all of the batch.
ReportsAreWhole ==
  /\ TypeOK
  /\ ReportComesFromOnePolicy
  /\ ColumnsMatchReport
  /\ BaselinesAgree
  /\ RetriesAreNeverCertain

\* Executing a baseline run again changes nothing that it has reported: its seed reproduces
\* it, whatever policy is active by then.  Only its status can turn to FAILED, and only by an
\* execution that found a policy it could not read.
BaselineIsReproducible ==
  [][baseline /\ row.report # None =>
       /\ \A f \in DOMAIN row \ {"status"} : row'[f] = row[f]
       /\ row.status = "COMPLETED" /\ row'.status # "COMPLETED" =>
            \E w \in Tasks : work[w].policy \in Refused]_vars

\* A run that a task has taken up is reported, unless a process dies or the amount at risk
\* does not fit its column.  (Nothing of the kind holds of background tasks.)
TakenUpRunIsReported ==
  \A w \in Tasks :
    work[w].at \in {"running", "raised"} ~>
      row.status # "PENDING" \/ crashes > 0 \/ AtRisk > MaxInt

=============================================================================
