------------------------- MODULE RecoveryServiceProofs -------------------------
(***************************************************************************)
(* Theorems about the service around the agent: any set of runs, either     *)
(* backend and provider, any retry limit, replan budget, number of task     *)
(* attempts and of process failures.                                        *)
(*                                                                         *)
(* The properties speak of the case row; what a run writes into it at its   *)
(* end depends on what it read at its beginning and on what the graph did   *)
(* since.  ServiceInv therefore adds, for every run, how its loaded row     *)
(* relates to the committed one and how its report relates to its charges.  *)
(* ChargeInv counts the payments, by the attempts that may have made them.   *)
(***************************************************************************)
EXTENDS RecoveryService, FiniteSetTheorems, TLAPS

\* What the row a run read says of the row as it is, and of itself.
LoadedInv(r) ==
  /\ loaded[r].recovered <=> loaded[r].amount
  /\ loaded[r].stopped => case.stopped
  /\ loaded[r].recovered <=> agent[r].found = "recovered"

\* What the graph has done by now, and what it reports if it has finished.
AgentInv(r) ==
  /\ agent[r].limit = RetryLimit
  /\ agent[r].found \in {"open", "recovered"}
  /\ agent[r].found = "recovered" => agent[r].actions = 0 /\ ~agent[r].paid
  /\ agent[r].paid => payments > 0 /\ Provider = "simulator"
  /\ agent[r].retries <= charges
  /\ agent[r].retries <= RetryLimit
  /\ agent[r].status = "finished" =>
       agent[r].result = IF agent[r].paid THEN "recovered" ELSE "escalated"

\* Only a run that is still RUNNING executes, and a completed one has closed the case.
RowInv(r) ==
  /\ job[r].place = "executing" => row[r] = "RUNNING"
  /\ row[r] = "COMPLETED" => case.stopped

\* The ledger: it never claims a recovery that is not stored, and misses one only if the
\* run that stored it was marked ERROR, which no Razorpay run ever has reason to do.
LedgerInv ==
  /\ "REVENUE_RECOVERED" \in audit => case.recovered
  /\ UnauditedRecoveryIsAnError
  /\ Provider = "razorpay_test" => ReconciledMeansAudited

ServiceInv ==
  /\ TypeOK
  /\ RecoveredMeansPaid
  /\ StoredRetriesAreReal
  /\ captured => payments > 0
  /\ \A r \in Runs : LoadedInv(r) /\ AgentInv(r) /\ RowInv(r)
  /\ LedgerInv

-----------------------------------------------------------------------------
(* The operators the steps are built from.                                  *)

\* What a run reports: recovered for a charge that went through, escalated otherwise.
Report(a) == IF a.paid THEN "recovered" ELSE "escalated"

\* A run starts with no action, no payment and no report.
LEMMA FreshRunFacts ==
  ASSUME NEW retries \in Nat, NEW messages \in Nat, NEW found \in {"open", "recovered"}
  PROVE  LET a == Agent!FreshRun(RetryLimit, retries, messages, found)
         IN  /\ a \in Agent!RunStates
             /\ a.limit = RetryLimit /\ a.found = found /\ a.retries = retries
             /\ a.actions = 0 /\ ~a.paid /\ a.status = "running" /\ a.result = "none"
  BY ServiceAssumption DEF Agent!FreshRun, Agent!RunStates

\* A step of the graph keeps the limit and the way the case was found; it acts only on an
\* open case and within the limit, and it reports what it was paid.
LEMMA SuccessorFacts ==
  ASSUME NEW a \in Agent!RunStates, NEW b \in Agent!Successors(a),
         a.found \in {"open", "recovered"}
  PROVE  /\ b \in Agent!RunStates
         /\ b.limit = a.limit /\ b.found = a.found
         /\ b.retries = a.retries \/ (b.retries = a.retries + 1 /\ b.retries <= a.limit)
         /\ b.retries = a.retries => b.paid = a.paid
         /\ a.found = "recovered" => b.actions = a.actions /\ b.paid = a.paid
         /\ b.status = "finished" => b.result = Report(b)
<1>1. CASE b \in Agent!Charged(a)
  <2>1. /\ Agent!MayAct(a) /\ a.retries < a.limit
        /\ \/ b = [a EXCEPT !.retries = @ + 1, !.actions = @ + 1, !.paid = TRUE]
           \/ b = [a EXCEPT !.retries = @ + 1, !.actions = @ + 1, !.paid = FALSE]
    BY <1>1 DEF Agent!Charged
  <2>2. b \in Agent!RunStates
    <3>1. a.retries + 1 \in Nat /\ a.messages + 1 \in Nat /\ a.actions + 1 \in Nat
      BY DEF Agent!RunStates
    <3> QED
      BY <2>1, <3>1, ZenonT(30) DEF Agent!RunStates
  <2>3. /\ b.limit = a.limit /\ b.found = a.found /\ b.status = a.status
        /\ b.retries = a.retries + 1
    BY <2>1 DEF Agent!RunStates
  <2>4. a.status = "running" /\ a.found = "open"
    BY <2>1 DEF Agent!MayAct
  <2>5. a.retries \in Nat /\ a.limit \in Nat
    BY DEF Agent!RunStates
  <2> QED
    BY <2>1, <2>2, <2>3, <2>4, <2>5
<1>2. CASE b \in Agent!Messaged(a)
  <2>1. /\ Agent!MayAct(a)
        /\ b = [a EXCEPT !.messages = @ + 1, !.actions = @ + 1]
    BY <1>2 DEF Agent!Messaged
  <2>2. b \in Agent!RunStates
    <3>1. a.retries + 1 \in Nat /\ a.messages + 1 \in Nat /\ a.actions + 1 \in Nat
      BY DEF Agent!RunStates
    <3> QED
      BY <2>1, <3>1, ZenonT(30) DEF Agent!RunStates
  <2>3. /\ b.limit = a.limit /\ b.found = a.found /\ b.status = a.status
        /\ b.retries = a.retries /\ b.paid = a.paid
    BY <2>1 DEF Agent!RunStates
  <2>4. a.status = "running" /\ a.found = "open"
    BY <2>1 DEF Agent!MayAct
  <2> QED
    BY <2>2, <2>3, <2>4
<1>3. CASE b \in Agent!Finished(a)
  BY <1>3 DEF Agent!Finished, Agent!RunStates, Report
<1>4. CASE b \in Agent!Raised(a)
  BY <1>4 DEF Agent!Raised, Agent!RunStates, Report
<1> QED
  BY <1>1, <1>2, <1>3, <1>4 DEF Agent!Successors

\* The UPDATE of a session writes a case row, column by column.
LEMMA WrittenFacts ==
  ASSUME NEW old \in CaseRows, NEW new \in CaseRows, NEW current \in CaseRows
  PROVE  LET w == Written(old, new, current)
         IN  /\ w \in CaseRows
             /\ w.recovered = IF new.recovered # old.recovered
                              THEN new.recovered ELSE current.recovered
             /\ w.stopped = IF new.stopped # old.stopped THEN new.stopped ELSE current.stopped
             /\ w.amount = IF new.amount # old.amount THEN new.amount ELSE current.amount
             /\ w.retries = IF new.retries # old.retries THEN new.retries ELSE current.retries
  BY DEF Written, CaseRows

\* A run that finished assigns a case row that is stopped, that is recovered, with its
\* amount, if it was paid or found it so, and that has the run's own retry count.
LEMMA AssignedFacts ==
  ASSUME NEW r \in Runs, TypeOK, agent[r].status = "finished",
         agent[r].result = Report(agent[r])
  PROVE  /\ Assigned(r) \in CaseRows
         /\ Assigned(r).recovered = (agent[r].paid \/ loaded[r].recovered)
         /\ Assigned(r).amount = (agent[r].paid \/ loaded[r].amount)
         /\ Assigned(r).stopped
         /\ Assigned(r).retries = agent[r].retries
<1>1. /\ loaded[r] \in CaseRows /\ agent[r].retries \in Nat /\ agent[r].messages \in Nat
      /\ agent[r].paid \in BOOLEAN
  BY DEF TypeOK, Agent!RunStates
<1>2. CASE agent[r].paid
  BY <1>1, <1>2 DEF Assigned, Report, CaseRows
<1>3. CASE ~agent[r].paid
  BY <1>1, <1>3 DEF Assigned, Report, CaseRows
<1> QED
  BY <1>1, <1>2, <1>3

-----------------------------------------------------------------------------
(* Initial state and steps.                                                 *)

LEMMA InitInv == Init => ServiceInv
<1> SUFFICES ASSUME Init  PROVE ServiceInv
  OBVIOUS
<1>1. NewCase \in CaseRows
  BY DEF NewCase, CaseRows
<1>2. 0 \in 0 .. TaskRetries /\ 0 \in 0 .. MaxCrashes /\ RetryLimit \in Nat
  BY ServiceAssumption
<1>3. [place |-> "none", by |-> "inline", attempt |-> 0] \in Jobs
  BY <1>2 DEF Jobs
<1>4. Agent!FreshRun(RetryLimit, 0, 0, "open") \in Agent!RunStates
  BY FreshRunFacts
<1>5. TypeOK
  BY <1>1, <1>2, <1>3, <1>4 DEF Init, TypeOK
<1>6. RecoveredMeansPaid /\ StoredRetriesAreReal /\ LedgerInv
  BY <1>2 DEF Init, NewCase, RecoveredMeansPaid, StoredRetriesAreReal, LedgerInv,
              UnauditedRecoveryIsAnError, ReconciledMeansAudited
<1>7. ASSUME NEW r \in Runs  PROVE LoadedInv(r) /\ AgentInv(r) /\ RowInv(r)
  BY <1>2 DEF Init, NewCase, LoadedInv, AgentInv, RowInv, Agent!FreshRun
<1> QED
  BY <1>5, <1>6, <1>7 DEF Init, ServiceInv

\* The ways a job moves keep it a job.
LEMMA JobTypes ==
  ASSUME TypeOK, NEW q \in Runs
  PROVE  /\ job[q] \in Jobs
         /\ \A place \in {"none", "started", "queued", "executing", "committed", "gone"} :
              /\ [job EXCEPT ![q].place = place] \in [Runs -> Jobs]
              /\ \A by \in {"inline", "celery"} :
                   [job EXCEPT ![q].place = place, ![q].by = by] \in [Runs -> Jobs]
              /\ job[q].attempt < TaskRetries =>
                   [job EXCEPT ![q].place = place, ![q].attempt = @ + 1] \in [Runs -> Jobs]
<1>1. job[q] \in Jobs /\ job \in [Runs -> Jobs]
  BY DEF TypeOK
<1>2. job[q].attempt < TaskRetries => job[q].attempt + 1 \in 0 .. TaskRetries
  BY <1>1, ServiceAssumption DEF Jobs
<1> SUFFICES ASSUME NEW place \in {"none", "started", "queued", "executing", "committed", "gone"}
             PROVE  /\ [job EXCEPT ![q].place = place] \in [Runs -> Jobs]
                    /\ \A by \in {"inline", "celery"} :
                         [job EXCEPT ![q].place = place, ![q].by = by] \in [Runs -> Jobs]
                    /\ job[q].attempt < TaskRetries =>
                         [job EXCEPT ![q].place = place, ![q].attempt = @ + 1]
                           \in [Runs -> Jobs]
  BY <1>1
<1>3. [job EXCEPT ![q].place = place] \in [Runs -> Jobs]
  BY <1>1, ZenonT(30) DEF Jobs
<1>4. ASSUME NEW by \in {"inline", "celery"}
      PROVE  [job EXCEPT ![q].place = place, ![q].by = by] \in [Runs -> Jobs]
  BY <1>1, ZenonT(30) DEF Jobs
<1>5. ASSUME job[q].attempt < TaskRetries
      PROVE  [job EXCEPT ![q].place = place, ![q].attempt = @ + 1] \in [Runs -> Jobs]
  BY <1>1, <1>2, <1>5, ZenonT(30) DEF Jobs
<1> QED
  BY <1>3, <1>4, <1>5

\* A job that moves to another place leaves the others where they are.
LEMMA Moves ==
  ASSUME TypeOK, NEW q \in Runs,
         NEW place \in {"none", "started", "queued", "executing", "committed", "gone"},
         \/ job' = [job EXCEPT ![q].place = place]
         \/ \E by \in {"inline", "celery"} :
              job' = [job EXCEPT ![q].place = place, ![q].by = by]
         \/ /\ job[q].attempt < TaskRetries
            /\ job' = [job EXCEPT ![q].place = place, ![q].attempt = @ + 1]
  PROVE  /\ job' \in [Runs -> Jobs]
         /\ job'[q].place = place
         /\ \A r \in Runs \ {q} : job'[r] = job[r]
<1>1. job \in [Runs -> Jobs] /\ job[q] \in Jobs
  BY DEF TypeOK
<1>2. job' \in [Runs -> Jobs]
  <2>1. CASE job' = [job EXCEPT ![q].place = place]
    BY <2>1, JobTypes
  <2>2. CASE \E by \in {"inline", "celery"} :
               job' = [job EXCEPT ![q].place = place, ![q].by = by]
    <3>1. PICK by \in {"inline", "celery"} :
                 job' = [job EXCEPT ![q].place = place, ![q].by = by]
      BY <2>2
    <3>2. [job EXCEPT ![q].place = place, ![q].by = by] \in [Runs -> Jobs]
      BY JobTypes
    <3> QED
      BY <3>1, <3>2
  <2>3. CASE /\ job[q].attempt < TaskRetries
             /\ job' = [job EXCEPT ![q].place = place, ![q].attempt = @ + 1]
    BY <2>3, JobTypes, Zenon
  <2> QED
    BY <2>1, <2>2, <2>3
<1>3. \A r \in Runs \ {q} : job'[r] = job[r]
  BY <1>1
<1>4. job'[q].place = place
  BY <1>1 DEF Jobs
<1> QED
  BY <1>2, <1>3, <1>4

\* What the end of a run does to the case row, whatever others wrote since the run read it:
\* nothing is undone, and what is written was paid for and is within the limit.
LEMMA WriteFacts ==
  ASSUME ServiceInv, NEW q \in Runs, NEW new,
         \/ new = loaded[q]
         \/ new = Assigned(q) /\ agent[q].status = "finished",
         case' = Written(loaded[q], new, case)
  PROVE  /\ case' \in CaseRows
         /\ case.recovered => case'.recovered
         /\ case.stopped => case'.stopped
         /\ case'.recovered <=> case'.amount
         /\ case'.recovered => case'.stopped /\ payments > 0
         /\ case'.retries <= charges /\ case'.retries <= RetryLimit
         /\ new = loaded[q] \/ ~agent[q].paid => (case'.recovered <=> case.recovered)
         /\ new = Assigned(q) /\ agent[q].status = "finished" => case'.stopped
<1>1. /\ case \in CaseRows /\ loaded[q] \in CaseRows
      /\ agent[q] \in Agent!RunStates
      /\ LoadedInv(q) /\ AgentInv(q)
      /\ RecoveredMeansPaid /\ StoredRetriesAreReal
  BY DEF ServiceInv, TypeOK
<1>2. agent[q].status = "finished" => agent[q].result = Report(agent[q])
  BY <1>1 DEF AgentInv, Report
<1>3. agent[q].status = "finished" =>
        /\ Assigned(q) \in CaseRows
        /\ Assigned(q).recovered = (agent[q].paid \/ loaded[q].recovered)
        /\ Assigned(q).amount = (agent[q].paid \/ loaded[q].amount)
        /\ Assigned(q).stopped
        /\ Assigned(q).retries = agent[q].retries
  BY <1>2, AssignedFacts DEF ServiceInv
<1>4. new \in CaseRows
  BY <1>1, <1>3
<1>5. /\ case' \in CaseRows
      /\ case'.recovered = IF new.recovered # loaded[q].recovered
                           THEN new.recovered ELSE case.recovered
      /\ case'.stopped = IF new.stopped # loaded[q].stopped THEN new.stopped ELSE case.stopped
      /\ case'.amount = IF new.amount # loaded[q].amount THEN new.amount ELSE case.amount
      /\ case'.retries = IF new.retries # loaded[q].retries THEN new.retries ELSE case.retries
  BY <1>1, <1>4, WrittenFacts
<1>6. /\ case.recovered \in BOOLEAN /\ case.stopped \in BOOLEAN /\ case.amount \in BOOLEAN
      /\ loaded[q].recovered \in BOOLEAN /\ loaded[q].stopped \in BOOLEAN
      /\ loaded[q].amount \in BOOLEAN /\ agent[q].paid \in BOOLEAN
  BY <1>1 DEF CaseRows, Agent!RunStates
<1>7. CASE new = loaded[q]
  <2>1. UNCHANGED <<case.recovered, case.stopped, case.amount, case.retries>>
    BY <1>5, <1>7
  <2>2. /\ case.recovered <=> case.amount
        /\ case.recovered => case.stopped /\ payments > 0
        /\ case.retries <= charges /\ case.retries <= RetryLimit
    BY <1>1 DEF RecoveredMeansPaid, StoredRetriesAreReal
  <2>3. new = Assigned(q) /\ agent[q].status = "finished" => case'.stopped
    BY <1>1, <1>3, <1>7, <2>1 DEF LoadedInv
  <2> QED
    BY <1>5, <1>6, <2>1, <2>2, <2>3
<1>8. CASE new = Assigned(q) /\ agent[q].status = "finished"
  <2>1. case'.stopped
    BY <1>1, <1>3, <1>5, <1>6, <1>8 DEF LoadedInv
  <2>2. /\ case.recovered <=> case.amount
        /\ case.recovered => payments > 0
        /\ case.retries <= charges /\ case.retries <= RetryLimit
        /\ loaded[q].recovered <=> loaded[q].amount
        /\ agent[q].paid => payments > 0 /\ ~loaded[q].recovered
        /\ agent[q].retries <= charges /\ agent[q].retries <= RetryLimit
    BY <1>1 DEF RecoveredMeansPaid, StoredRetriesAreReal, LoadedInv, AgentInv
  <2>3. CASE agent[q].paid
    <3>1. case'.recovered /\ case'.amount
      BY <1>3, <1>5, <1>6, <1>8, <2>2, <2>3
    <3> QED
      BY <1>3, <1>5, <1>8, <2>1, <2>2, <2>3, <3>1
  <2>4. CASE ~agent[q].paid
    <3>1. case'.recovered = case.recovered /\ case'.amount = case.amount
      BY <1>3, <1>5, <1>6, <1>8, <2>2, <2>4
    <3> QED
      BY <1>3, <1>5, <1>8, <2>1, <2>2, <2>4, <3>1
  <2> QED
    BY <2>3, <2>4
<1> QED
  BY <1>7, <1>8

\* A run that a step leaves alone keeps its part of the invariant.
LEMMA RunFrame ==
  ASSUME ServiceInv, NEW r \in Runs,
         loaded'[r] = loaded[r], agent'[r] = agent[r], row'[r] = row[r],
         job'[r].place = "executing" => job[r].place = "executing",
         case.stopped => case'.stopped,
         payments > 0 => payments' > 0,
         charges' \in {charges, charges + 1}
  PROVE  LoadedInv(r)' /\ AgentInv(r)' /\ RowInv(r)'
<1>1. LoadedInv(r) /\ AgentInv(r) /\ RowInv(r)
  BY DEF ServiceInv
<1>2. charges \in Nat /\ agent[r].retries \in Nat
  BY DEF ServiceInv, TypeOK, Agent!RunStates
<1>3. agent'[r].retries <= charges'
  BY <1>1, <1>2 DEF AgentInv
<1>4. LoadedInv(r)' /\ RowInv(r)'
  BY <1>1 DEF LoadedInv, RowInv
<1>5. AgentInv(r)'
  BY <1>1, <1>3 DEF AgentInv
<1> QED
  BY <1>4, <1>5

\* Runs marked ERROR stay marked; the ledger's part of the invariant stays with them.
LEMMA LedgerFrame ==
  ASSUME ServiceInv, audit' \in {audit, audit \union {"ESCALATED"}},
         case'.recovered <=> case.recovered,
         \A r \in Runs : row[r] = "ERROR" => row'[r] = "ERROR"
  PROVE  LedgerInv'
BY DEF ServiceInv, LedgerInv, UnauditedRecoveryIsAnError, ReconciledMeansAudited

LEMMA StartRunStep ==
  ASSUME ServiceInv, NEW q \in Runs, StartRun(q)
  PROVE  ServiceInv'
<1>1. TypeOK
  BY DEF ServiceInv
<1>2. /\ job' \in [Runs -> Jobs] /\ job'[q].place = "started"
      /\ \A r \in Runs \ {q} : job'[r] = job[r]
  BY <1>1, Moves DEF StartRun
<1>3. TypeOK'
  BY <1>1, <1>2 DEF StartRun, TypeOK, environment
<1>4. row[q] = "none" /\ row'[q] = "RUNNING" /\ \A r \in Runs \ {q} : row'[r] = row[r]
  BY <1>1 DEF StartRun, TypeOK
<1>5. /\ RecoveredMeansPaid' /\ StoredRetriesAreReal'
      /\ (captured => payments > 0)'
  BY DEF ServiceInv, StartRun, environment, RecoveredMeansPaid, StoredRetriesAreReal
<1>6. ASSUME NEW r \in Runs, r # q  PROVE LoadedInv(r)' /\ AgentInv(r)' /\ RowInv(r)'
  BY <1>2, <1>4, <1>6, RunFrame DEF StartRun, environment
<1>7. LoadedInv(q)' /\ AgentInv(q)' /\ RowInv(q)'
  <2>1. LoadedInv(q) /\ AgentInv(q)
    BY DEF ServiceInv
  <2> QED
    BY <2>1, <1>2, <1>4 DEF StartRun, environment, LoadedInv, AgentInv, RowInv
<1>8. LedgerInv'
  BY <1>4, LedgerFrame DEF StartRun
<1> QED
  BY <1>3, <1>5, <1>6, <1>7, <1>8 DEF ServiceInv

\* The steps that only move a job: handing it over, acknowledging it, losing it.
LEMMA MoveStep ==
  ASSUME ServiceInv, NEW q \in Runs, Enqueue(q) \/ Acknowledge(q) \/ Crash(q)
  PROVE  ServiceInv'
<1>1. TypeOK
  BY DEF ServiceInv
<1>2. /\ job' \in [Runs -> Jobs] /\ job'[q].place # "executing"
      /\ \A r \in Runs \ {q} : job'[r] = job[r]
  <2>1. CASE Enqueue(q)
    <3>1. PICK by \in {"inline", Backend} :
                 job' = [job EXCEPT ![q].place = "queued", ![q].by = by]
      BY <2>1 DEF Enqueue
    <3>2. by \in {"inline", "celery"}
      BY ServiceAssumption
    <3> QED
      BY <1>1, <3>1, <3>2, Moves
  <2>2. CASE Acknowledge(q)
    BY <1>1, <2>2, Moves DEF Acknowledge
  <2>3. CASE Crash(q)
    <3>1. \/ job' = [job EXCEPT ![q].place = "gone"]
          \/ job' = [job EXCEPT ![q].place = "queued"]
      BY <2>3 DEF Crash
    <3> QED
      BY <1>1, <3>1, Moves
  <2> QED
    BY <2>1, <2>2, <2>3
<1>3. UNCHANGED <<case, row, loaded, agent, audit, captured, charges, payments, keys>>
  BY DEF Enqueue, Acknowledge, Crash, environment
<1>4. crashes' \in 0 .. MaxCrashes
  BY <1>1, ServiceAssumption DEF Enqueue, Acknowledge, Crash, TypeOK
<1>5. TypeOK'
  BY <1>1, <1>2, <1>3, <1>4 DEF TypeOK
<1>6. RecoveredMeansPaid' /\ StoredRetriesAreReal' /\ (captured => payments > 0)'
  BY <1>3 DEF ServiceInv, RecoveredMeansPaid, StoredRetriesAreReal
<1>7. ASSUME NEW r \in Runs  PROVE LoadedInv(r)' /\ AgentInv(r)' /\ RowInv(r)'
  BY <1>2, <1>3, RunFrame
<1>8. LedgerInv'
  BY <1>3, LedgerFrame
<1> QED
  BY <1>5, <1>6, <1>7, <1>8 DEF ServiceInv

LEMMA BeginStep ==
  ASSUME ServiceInv, NEW q \in Runs, Begin(q)
  PROVE  ServiceInv'
<1>1. TypeOK
  BY DEF ServiceInv
<1>2. UNCHANGED <<case, row, audit, captured, charges, payments, keys, crashes>>
  BY DEF Begin, environment
<1> DEFINE found  == IF case.recovered THEN "recovered" ELSE "open"
           fresh == Agent!FreshRun(RetryLimit, case.retries, case.messages, found)
<1>3. case \in CaseRows /\ case.retries \in Nat /\ case.messages \in Nat
  BY <1>1 DEF TypeOK, CaseRows
<1>4. /\ fresh \in Agent!RunStates
      /\ fresh.limit = RetryLimit /\ fresh.found = found /\ fresh.retries = case.retries
      /\ fresh.actions = 0 /\ ~fresh.paid /\ fresh.status = "running"
  BY <1>3, FreshRunFacts
<1>5. CASE row[q] # "RUNNING"
  <2>1. job' = [job EXCEPT ![q].place = "committed"] /\ UNCHANGED <<loaded, agent>>
    BY <1>5 DEF Begin
  <2>2. /\ job' \in [Runs -> Jobs] /\ job'[q].place # "executing"
        /\ \A r \in Runs \ {q} : job'[r] = job[r]
    BY <1>1, <2>1, Moves
  <2>3. TypeOK'
    BY <1>1, <1>2, <2>1, <2>2 DEF TypeOK
  <2>4. ASSUME NEW r \in Runs  PROVE LoadedInv(r)' /\ AgentInv(r)' /\ RowInv(r)'
    BY <1>2, <2>1, <2>2, RunFrame
  <2>5. LedgerInv'
    BY <1>2, LedgerFrame
  <2> QED
    BY <1>2, <2>3, <2>4, <2>5 DEF ServiceInv, RecoveredMeansPaid, StoredRetriesAreReal
<1>6. CASE row[q] = "RUNNING"
  <2>1. /\ job' = [job EXCEPT ![q].place = "executing"]
        /\ loaded' = [loaded EXCEPT ![q] = case]
        /\ agent' = [agent EXCEPT ![q] = fresh]
    BY <1>6 DEF Begin
  <2>2. /\ job' \in [Runs -> Jobs] /\ job'[q].place = "executing"
        /\ \A r \in Runs \ {q} : job'[r] = job[r]
    BY <1>1, <2>1, Moves
  <2>3. loaded' \in [Runs -> CaseRows] /\ agent' \in [Runs -> Agent!RunStates]
    BY <1>1, <1>3, <1>4, <2>1 DEF TypeOK
  <2>4. TypeOK'
    BY <1>1, <1>2, <2>2, <2>3 DEF TypeOK
  <2>5. /\ loaded'[q] = case /\ agent'[q] = fresh
        /\ \A r \in Runs \ {q} : loaded'[r] = loaded[r] /\ agent'[r] = agent[r]
    BY <1>1, <2>1 DEF TypeOK
  <2>6. ASSUME NEW r \in Runs, r # q  PROVE LoadedInv(r)' /\ AgentInv(r)' /\ RowInv(r)'
    BY <1>2, <2>2, <2>5, <2>6, RunFrame
  <2>7. LoadedInv(q)'
    BY <1>2, <1>4, <2>5 DEF ServiceInv, RecoveredMeansPaid, LoadedInv
  <2>8. AgentInv(q)'
    <3>1. case.retries <= charges /\ case.retries <= RetryLimit
      BY DEF ServiceInv, StoredRetriesAreReal
    <3> HIDE DEF fresh
    <3> QED
      BY <1>2, <1>4, <2>5, <3>1 DEF AgentInv
  <2>9. RowInv(q)'
    BY <1>2, <1>6 DEF RowInv
  <2>10. LedgerInv'
    BY <1>2, LedgerFrame
  <2> QED
    BY <1>2, <2>4, <2>6, <2>7, <2>8, <2>9, <2>10
       DEF ServiceInv, RecoveredMeansPaid, StoredRetriesAreReal
<1> QED
  BY <1>5, <1>6

\* A step of the graph touches the outside world and the run, not the database.
LEMMA AgentStepStep ==
  ASSUME ServiceInv, NEW q \in Runs, AgentStep(q)
  PROVE  ServiceInv'
<1>1. TypeOK /\ AgentInv(q) /\ LoadedInv(q) /\ RowInv(q)
  BY DEF ServiceInv
<1>2. UNCHANGED <<case, row, job, loaded, audit, captured, crashes>>
  BY DEF AgentStep
<1>3. PICK next \in Agent!Successors(agent[q]) :
        /\ next.paid => Provider = "simulator"
        /\ agent' = [agent EXCEPT ![q] = next]
        /\ IF next.retries > agent[q].retries
           THEN /\ charges' = charges + 1
                /\ keys' = keys \union {next.retries}
                /\ payments' = IF next.paid THEN payments + 1 ELSE payments
           ELSE UNCHANGED <<charges, keys, payments>>
  BY DEF AgentStep
<1>4. /\ agent[q] \in Agent!RunStates /\ agent[q].retries \in Nat /\ agent[q].limit = RetryLimit
      /\ agent[q].found \in {"open", "recovered"} /\ agent[q].paid \in BOOLEAN
      /\ charges \in Nat /\ payments \in Nat /\ keys \subseteq Nat
  BY <1>1 DEF TypeOK, AgentInv, Agent!RunStates
<1>5. /\ next \in Agent!RunStates
      /\ next.limit = RetryLimit /\ next.found = agent[q].found
      /\ \/ next.retries = agent[q].retries
         \/ next.retries = agent[q].retries + 1 /\ next.retries <= RetryLimit
      /\ next.retries = agent[q].retries => next.paid = agent[q].paid
      /\ agent[q].found = "recovered" =>
           next.actions = agent[q].actions /\ next.paid = agent[q].paid
      /\ next.status = "finished" => next.result = Report(next)
  BY <1>4, SuccessorFacts
<1>6. /\ agent' \in [Runs -> Agent!RunStates] /\ agent'[q] = next
      /\ \A r \in Runs \ {q} : agent'[r] = agent[r]
  BY <1>1, <1>3, <1>5 DEF TypeOK
<1>7. /\ charges' \in Nat /\ payments' \in Nat /\ keys' \subseteq Nat
      /\ charges' \in {charges, charges + 1} /\ payments <= payments'
      /\ next.retries > agent[q].retries => charges' = charges + 1
      /\ next.retries > agent[q].retries /\ next.paid => payments' > 0
  <2>1. next.retries \in Nat /\ next.paid \in BOOLEAN
    BY <1>5 DEF Agent!RunStates
  <2>2. CASE next.retries > agent[q].retries
    <3>1. payments' \in {payments, payments + 1} /\ (next.paid => payments' = payments + 1)
      BY <1>3, <2>1, <2>2
    <3>2. keys' \subseteq Nat
      BY <1>3, <1>4, <2>1, <2>2
    <3>3. charges' = charges + 1
      BY <1>3, <2>2
    <3>4. payments <= payments' /\ payments' \in Nat /\ (next.paid => payments' > 0)
      BY <1>4, <3>1
    <3> QED
      BY <1>4, <3>2, <3>3, <3>4
  <2>3. CASE ~(next.retries > agent[q].retries)
    <3>1. UNCHANGED <<charges, keys, payments>>
      BY <1>3, <2>3
    <3> QED
      BY <1>4, <2>3, <3>1
  <2> QED
    BY <2>2, <2>3
<1>8. TypeOK'
  BY <1>1, <1>2, <1>6, <1>7 DEF TypeOK
<1>9. RecoveredMeansPaid' /\ StoredRetriesAreReal' /\ (captured => payments > 0)'
  <2>1. case.retries \in Nat
    BY <1>1 DEF TypeOK, CaseRows
  <2> QED
    BY <1>2, <1>4, <1>7, <2>1 DEF ServiceInv, RecoveredMeansPaid, StoredRetriesAreReal
<1>10. ASSUME NEW r \in Runs, r # q  PROVE LoadedInv(r)' /\ AgentInv(r)' /\ RowInv(r)'
  BY <1>2, <1>4, <1>6, <1>7, <1>10, RunFrame
<1>11. LoadedInv(q)' /\ RowInv(q)'
  BY <1>1, <1>2, <1>5, <1>6 DEF LoadedInv, RowInv
<1>12. AgentInv(q)'
  <2>1. /\ agent[q].found = "recovered" => agent[q].actions = 0 /\ ~agent[q].paid
        /\ agent[q].paid => payments > 0
        /\ agent[q].retries <= charges /\ agent[q].retries <= RetryLimit
    BY <1>1 DEF AgentInv
  <2>2. next.paid => payments' > 0
    <3>1. CASE next.retries = agent[q].retries
      <4>1. next.paid = agent[q].paid
        BY <1>5, <3>1
      <4> QED
        BY <1>4, <1>7, <2>1, <4>1
    <3>2. CASE next.retries = agent[q].retries + 1
      BY <1>4, <1>7, <3>2
    <3> QED
      BY <1>5, <3>1, <3>2
  <2>3. next.retries <= charges' /\ next.retries <= RetryLimit
    BY <1>4, <1>5, <1>7, <2>1
  <2>4. next.found = "recovered" => next.actions = 0 /\ ~next.paid
    BY <1>5, <2>1
  <2> QED
    BY <1>3, <1>4, <1>5, <1>6, <2>2, <2>3, <2>4 DEF AgentInv, Report
<1>13. LedgerInv'
  BY <1>2, LedgerFrame
<1> QED
  BY <1>8, <1>9, <1>10, <1>11, <1>12, <1>13 DEF ServiceInv

\* The end of an attempt, whether the run is taken up again or marked ERROR.
LEMMA FailAttemptStep ==
  ASSUME ServiceInv, NEW q \in Runs, NEW new,
         job[q].place = "executing",
         \/ new = loaded[q]
         \/ new = Assigned(q) /\ agent[q].status = "finished",
         FailAttempt(q, new),
         UNCHANGED <<loaded, agent, audit, environment, crashes>>
  PROVE  ServiceInv'
<1>1. TypeOK
  BY DEF ServiceInv
<1>2. CASE job[q].by = "celery" /\ job[q].attempt < TaskRetries
  <2>1. /\ job' = [job EXCEPT ![q].place = "queued", ![q].attempt = @ + 1]
        /\ UNCHANGED <<case, row>>
    BY <1>2 DEF FailAttempt
  <2>2. /\ job' \in [Runs -> Jobs] /\ job'[q].place = "queued"
        /\ \A r \in Runs \ {q} : job'[r] = job[r]
    BY <1>1, <1>2, <2>1, Moves
  <2>3. TypeOK'
    BY <1>1, <2>1, <2>2 DEF TypeOK, environment
  <2>4. ASSUME NEW r \in Runs  PROVE LoadedInv(r)' /\ AgentInv(r)' /\ RowInv(r)'
    BY <2>1, <2>2, RunFrame DEF environment
  <2>5. LedgerInv'
    BY <2>1, LedgerFrame
  <2> QED
    BY <2>1, <2>3, <2>4, <2>5
       DEF ServiceInv, RecoveredMeansPaid, StoredRetriesAreReal, environment
<1>3. CASE ~(job[q].by = "celery" /\ job[q].attempt < TaskRetries)
  <2>1. /\ job' = [job EXCEPT ![q].place = "committed"]
        /\ row' = [row EXCEPT ![q] = "ERROR"]
        /\ case' = Written(loaded[q], new, case)
    BY <1>3 DEF FailAttempt
  <2>2. /\ job' \in [Runs -> Jobs] /\ job'[q].place = "committed"
        /\ \A r \in Runs \ {q} : job'[r] = job[r]
    BY <1>1, <2>1, Moves
  <2>3. /\ row' \in [Runs -> {"none", "RUNNING", "COMPLETED", "ERROR"}]
        /\ row'[q] = "ERROR" /\ \A r \in Runs \ {q} : row'[r] = row[r]
    BY <1>1, <2>1 DEF TypeOK
  <2>4. /\ case' \in CaseRows
        /\ case.recovered => case'.recovered
        /\ case.stopped => case'.stopped
        /\ case'.recovered <=> case'.amount
        /\ case'.recovered => case'.stopped /\ payments > 0
        /\ case'.retries <= charges /\ case'.retries <= RetryLimit
        /\ new = loaded[q] \/ ~agent[q].paid => (case'.recovered <=> case.recovered)
    BY <2>1, WriteFacts
  <2>5. TypeOK'
    BY <1>1, <2>2, <2>3, <2>4 DEF TypeOK, environment
  <2>6. RecoveredMeansPaid' /\ StoredRetriesAreReal' /\ (captured => payments > 0)'
    BY <2>4 DEF ServiceInv, RecoveredMeansPaid, StoredRetriesAreReal, environment
  <2>7. ASSUME NEW r \in Runs, r # q  PROVE LoadedInv(r)' /\ AgentInv(r)' /\ RowInv(r)'
    BY <2>2, <2>3, <2>4, <2>7, RunFrame DEF environment
  <2>8. LoadedInv(q)' /\ AgentInv(q)' /\ RowInv(q)'
    BY <2>2, <2>3, <2>4 DEF ServiceInv, LoadedInv, AgentInv, RowInv, environment
  <2>9. LedgerInv'
    <3>1. LedgerInv /\ (agent[q].paid => Provider = "simulator")
      BY DEF ServiceInv, AgentInv
    <3>2. UnauditedRecoveryIsAnError'
      BY <2>3 DEF UnauditedRecoveryIsAnError
    <3>3. Provider = "razorpay_test" => ReconciledMeansAudited'
      BY <3>1, <2>4 DEF LedgerInv, ReconciledMeansAudited
    <3> QED
      BY <3>1, <3>2, <3>3, <2>4 DEF LedgerInv
  <2> QED
    BY <2>5, <2>6, <2>7, <2>8, <2>9 DEF ServiceInv
<1> QED
  BY <1>2, <1>3

LEMMA ApplyStep ==
  ASSUME ServiceInv, NEW q \in Runs, Apply(q)
  PROVE  ServiceInv'
<1>1. TypeOK /\ AgentInv(q)
  BY DEF ServiceInv
<1>2. job[q].place = "executing" /\ agent[q].status = "finished"
  BY DEF Apply
<1>3. CASE agent[q].result = "recovered"
  <2>1. FailAttempt(q, Assigned(q)) /\ UNCHANGED <<loaded, agent, audit, environment, crashes>>
    BY <1>3 DEF Apply
  <2> QED
    BY <1>2, <2>1, FailAttemptStep
<1>4. CASE agent[q].result # "recovered"
  <2>1. /\ case' = Written(loaded[q], Assigned(q), case)
        /\ row' = [row EXCEPT ![q] = "COMPLETED"]
        /\ job' = [job EXCEPT ![q].place = "committed"]
        /\ audit' \in {audit, audit \union {"ESCALATED"}}
        /\ UNCHANGED <<loaded, agent, captured, charges, payments, keys, crashes>>
    BY <1>4 DEF Apply, environment
  <2>2. /\ job' \in [Runs -> Jobs] /\ job'[q].place = "committed"
        /\ \A r \in Runs \ {q} : job'[r] = job[r]
    BY <1>1, <2>1, Moves
  <2>3. /\ row' \in [Runs -> {"none", "RUNNING", "COMPLETED", "ERROR"}]
        /\ row'[q] = "COMPLETED" /\ \A r \in Runs \ {q} : row'[r] = row[r]
    BY <1>1, <2>1 DEF TypeOK
  <2>4. ~agent[q].paid
    BY <1>1, <1>2, <1>4 DEF AgentInv
  <2>5. /\ case' \in CaseRows
        /\ case.stopped => case'.stopped
        /\ case'.recovered <=> case'.amount
        /\ case'.recovered => case'.stopped /\ payments > 0
        /\ case'.retries <= charges /\ case'.retries <= RetryLimit
        /\ case'.recovered <=> case.recovered
        /\ case'.stopped
    BY <1>2, <2>1, <2>4, WriteFacts
  <2>6. TypeOK'
    BY <1>1, <2>1, <2>2, <2>3, <2>5 DEF TypeOK
  <2>7. RecoveredMeansPaid' /\ StoredRetriesAreReal' /\ (captured => payments > 0)'
    BY <2>1, <2>5 DEF ServiceInv, RecoveredMeansPaid, StoredRetriesAreReal
  <2>8. ASSUME NEW r \in Runs, r # q  PROVE LoadedInv(r)' /\ AgentInv(r)' /\ RowInv(r)'
    BY <2>1, <2>2, <2>3, <2>5, <2>8, RunFrame
  <2>9. LoadedInv(q)' /\ AgentInv(q)' /\ RowInv(q)'
    BY <2>1, <2>2, <2>5 DEF ServiceInv, LoadedInv, AgentInv, RowInv
  <2>10. row[q] = "RUNNING"
    BY <1>2 DEF ServiceInv, RowInv
  <2>11. LedgerInv'
    BY <2>1, <2>3, <2>5, <2>10, LedgerFrame
  <2> QED
    BY <2>6, <2>7, <2>8, <2>9, <2>11 DEF ServiceInv
<1> QED
  BY <1>3, <1>4

LEMMA FailStep ==
  ASSUME ServiceInv, NEW q \in Runs, Fail(q)
  PROVE  ServiceInv'
BY FailAttemptStep DEF Fail

\* The other writers of the case row.
LEMMA OtherWriterStep ==
  ASSUME ServiceInv, OperatorEscalates \/ CreateOrder \/ CustomerPays \/ Reconcile
  PROVE  ServiceInv'
<1>1. /\ TypeOK /\ RecoveredMeansPaid /\ StoredRetriesAreReal /\ (captured => payments > 0)
      /\ case \in CaseRows /\ payments \in Nat
  BY DEF ServiceInv, TypeOK
<1>2. UNCHANGED <<row, job, loaded, agent, charges, keys, crashes>>
  BY DEF OperatorEscalates, CreateOrder, CustomerPays, Reconcile, environment
<1>3. CASE OperatorEscalates
  <2>1. /\ case' = [case EXCEPT !.status = "ESCALATED", !.stopped = TRUE]
        /\ audit' = audit \union {"ESCALATED"} /\ UNCHANGED <<captured, payments>>
    BY <1>3 DEF OperatorEscalates, environment
  <2>2. case' \in CaseRows
    BY <1>1, <2>1, ZenonT(30) DEF CaseRows
  <2>3. /\ case'.recovered = case.recovered /\ case'.amount = case.amount
        /\ case'.retries = case.retries /\ case'.stopped
    BY <1>1, <2>1 DEF CaseRows
  <2>4. TypeOK' /\ RecoveredMeansPaid' /\ StoredRetriesAreReal' /\ (captured => payments > 0)'
    BY <1>1, <1>2, <2>1, <2>2, <2>3 DEF TypeOK, RecoveredMeansPaid, StoredRetriesAreReal
  <2>5. ASSUME NEW r \in Runs  PROVE LoadedInv(r)' /\ AgentInv(r)' /\ RowInv(r)'
    BY <1>2, <2>1, <2>3, RunFrame
  <2>6. LedgerInv'
    BY <1>2, <2>1, <2>3, LedgerFrame
  <2> QED
    BY <2>4, <2>5, <2>6 DEF ServiceInv
<1>4. CASE CreateOrder
  <2>1. case' = [case EXCEPT !.order = TRUE] /\ UNCHANGED <<audit, captured, payments>>
    BY <1>4 DEF CreateOrder, environment
  <2>2. case' \in CaseRows
    BY <1>1, <2>1 DEF CaseRows
  <2>3. /\ case'.recovered = case.recovered /\ case'.amount = case.amount
        /\ case'.retries = case.retries /\ case'.stopped = case.stopped
    BY <1>1, <2>1 DEF CaseRows
  <2>4. TypeOK' /\ RecoveredMeansPaid' /\ StoredRetriesAreReal' /\ (captured => payments > 0)'
    BY <1>1, <1>2, <2>1, <2>2, <2>3 DEF TypeOK, RecoveredMeansPaid, StoredRetriesAreReal
  <2>5. ASSUME NEW r \in Runs  PROVE LoadedInv(r)' /\ AgentInv(r)' /\ RowInv(r)'
    BY <1>2, <2>1, <2>3, RunFrame
  <2>6. LedgerInv'
    BY <1>2, <2>1, <2>3, LedgerFrame
  <2> QED
    BY <2>4, <2>5, <2>6 DEF ServiceInv
<1>5. CASE CustomerPays
  <2>1. captured' = TRUE /\ payments' = payments + 1 /\ UNCHANGED <<case, audit>>
    BY <1>5 DEF CustomerPays
  <2>2. payments' \in Nat /\ payments' > 0
    BY <1>1, <2>1
  <2>3. TypeOK' /\ RecoveredMeansPaid' /\ StoredRetriesAreReal' /\ (captured => payments > 0)'
    BY <1>1, <1>2, <2>1, <2>2 DEF TypeOK, RecoveredMeansPaid, StoredRetriesAreReal
  <2>4. ASSUME NEW r \in Runs  PROVE LoadedInv(r)' /\ AgentInv(r)' /\ RowInv(r)'
    BY <1>2, <2>1, <2>2, RunFrame
  <2>5. LedgerInv'
    BY <1>2, <2>1, LedgerFrame
  <2> QED
    BY <2>3, <2>4, <2>5 DEF ServiceInv
<1>6. CASE Reconcile
  <2>1. /\ captured
        /\ case' = [case EXCEPT !.status = "RECOVERED", !.recovered = TRUE, !.stopped = TRUE,
                                !.amount = TRUE]
        /\ audit' = audit \union {"PAYMENT_SUCCESS", "REVENUE_RECOVERED"}
        /\ UNCHANGED <<captured, payments>>
    BY <1>6 DEF Reconcile, environment
  <2>2. case' \in CaseRows
    BY <1>1, <2>1, ZenonT(30) DEF CaseRows
  <2>3. /\ case'.recovered /\ case'.amount /\ case'.stopped
        /\ case'.retries = case.retries
    BY <1>1, <2>1 DEF CaseRows
  <2>4. TypeOK' /\ RecoveredMeansPaid' /\ StoredRetriesAreReal' /\ (captured => payments > 0)'
    BY <1>1, <1>2, <2>1, <2>2, <2>3 DEF TypeOK, RecoveredMeansPaid, StoredRetriesAreReal
  <2>5. ASSUME NEW r \in Runs  PROVE LoadedInv(r)' /\ AgentInv(r)' /\ RowInv(r)'
    BY <1>2, <2>1, <2>3, RunFrame
  <2>6. LedgerInv'
    BY <2>1, <2>3 DEF LedgerInv, UnauditedRecoveryIsAnError, ReconciledMeansAudited
  <2> QED
    BY <2>4, <2>5, <2>6 DEF ServiceInv
<1> QED
  BY <1>3, <1>4, <1>5, <1>6

LEMMA StutterStep ==
  ASSUME ServiceInv, UNCHANGED vars
  PROVE  ServiceInv'
<1>1. UNCHANGED <<case, row, job, loaded, agent, audit, captured, charges, payments, keys,
                  crashes>>
  BY DEF vars, environment
<1>2. ASSUME NEW r \in Runs  PROVE LoadedInv(r)' /\ AgentInv(r)' /\ RowInv(r)'
  BY <1>1, RunFrame
<1>3. LedgerInv'
  BY <1>1, LedgerFrame
<1> QED
  BY <1>1, <1>2, <1>3 DEF ServiceInv, TypeOK, RecoveredMeansPaid, StoredRetriesAreReal

LEMMA NextInv == ServiceInv /\ [Next]_vars => ServiceInv'
<1> SUFFICES ASSUME ServiceInv, [Next]_vars  PROVE ServiceInv'
  OBVIOUS
<1>1. ASSUME NEW q \in Runs, StartRun(q) \/ Execution(q) \/ Crash(q)  PROVE ServiceInv'
  BY <1>1, StartRunStep, MoveStep, BeginStep, AgentStepStep, FailStep, ApplyStep
     DEF Execution
<1> QED
  BY <1>1, OtherWriterStep, StutterStep DEF Next

-----------------------------------------------------------------------------
(* The theorems.                                                            *)

\* Every state of the service satisfies the inductive invariant.
THEOREM ServiceInvariance == Spec => []ServiceInv
BY InitInv, NextInv, PTL DEF Spec

\* Rows, jobs, runs and counters keep their types through all interleavings.
THEOREM TypeCorrect == Spec => []TypeOK
<1>1. ServiceInv => TypeOK
  BY DEF ServiceInv
<1> QED
  BY <1>1, ServiceInvariance, PTL

\* _apply_agent_result, _reconcile_captured_payment: money is reported only when money moved.
THEOREM MoneyIsReal == Spec => []RecoveredMeansPaid
<1>1. ServiceInv => RecoveredMeansPaid
  BY DEF ServiceInv
<1> QED
  BY <1>1, ServiceInvariance, PTL

\* _apply_agent_result: the stored retry count stays within the charges made and the limit,
\* although overlapping runs write it from what each of them read.
THEOREM RetriesAreReal == Spec => []StoredRetriesAreReal
<1>1. ServiceInv => StoredRetriesAreReal
  BY DEF ServiceInv
<1> QED
  BY <1>1, ServiceInvariance, PTL

\* _apply_agent_result: a run that completed has closed the case.
THEOREM CompletionCloses == Spec => []CompletedRunClosesCase
<1>1. ServiceInv => CompletedRunClosesCase
  BY DEF ServiceInv, RowInv, CompletedRunClosesCase
<1> QED
  BY <1>1, ServiceInvariance, PTL

\* AuditService.record: a recovery the ledger misses is told by a run marked ERROR.
THEOREM NoSilentLoss == Spec => []UnauditedRecoveryIsAnError
<1>1. ServiceInv => UnauditedRecoveryIsAnError
  BY DEF ServiceInv, LedgerInv
<1> QED
  BY <1>1, ServiceInvariance, PTL

\* execute_agent_run: a run that read a recovered case does nothing to the customer.
THEOREM RecoveredCaseUntouched == Spec => []RecoveredCaseIsLeftAlone
<1>1. ServiceInv => RecoveredCaseIsLeftAlone
  BY DEF ServiceInv, LoadedInv, AgentInv, RecoveredCaseIsLeftAlone
<1> QED
  BY <1>1, ServiceInvariance, PTL

\* _reconcile_captured_payment: with Razorpay the ledger and the case agree on recovery.
THEOREM RazorpayAudited ==
  ASSUME Provider = "razorpay_test"
  PROVE  Spec => []ReconciledMeansAudited
<1>1. ServiceInv => ReconciledMeansAudited
  BY DEF ServiceInv, LedgerInv
<1> QED
  BY <1>1, ServiceInvariance, PTL

\* _apply_agent_result: what a stale session writes undoes no recovery and reopens nothing.
THEOREM NothingIsUndone == Spec => RecoveryIsNeverUndone
<1> DEFINE Kept == /\ case.recovered => case'.recovered /\ case'.amount
                   /\ case.stopped => case'.stopped
<1>1. ServiceInv /\ ServiceInv' /\ [Next]_vars => [Kept]_vars
  <2> SUFFICES ASSUME ServiceInv, ServiceInv', Next  PROVE Kept
    BY DEF vars
  <2>1. case \in CaseRows /\ (case'.recovered <=> case'.amount)
    BY DEF ServiceInv, TypeOK, RecoveredMeansPaid
  <2>2. ASSUME NEW q \in Runs, Fail(q) \/ Apply(q)
        PROVE  (case.recovered => case'.recovered) /\ (case.stopped => case'.stopped)
    <3>1. \/ case' = case
          \/ case' = Written(loaded[q], loaded[q], case)
          \/ case' = Written(loaded[q], Assigned(q), case) /\ agent[q].status = "finished"
      BY <2>2 DEF Fail, Apply, FailAttempt
    <3> QED
      BY <3>1, WriteFacts
  <2>3. ASSUME NEW q \in Runs, StartRun(q) \/ Execution(q) \/ Crash(q)
        PROVE  (case.recovered => case'.recovered) /\ (case.stopped => case'.stopped)
    <3>1. CASE Fail(q) \/ Apply(q)
      BY <2>2, <3>1
    <3>2. CASE ~(Fail(q) \/ Apply(q))
      <4>1. case' = case
        BY <2>3, <3>2 DEF StartRun, Execution, Crash, Enqueue, Begin, AgentStep, Acknowledge
      <4> QED
        BY <4>1
    <3> QED
      BY <3>1, <3>2
  <2>4. ASSUME OperatorEscalates \/ CreateOrder \/ CustomerPays \/ Reconcile
        PROVE  (case.recovered => case'.recovered) /\ (case.stopped => case'.stopped)
    BY <2>1, <2>4 DEF OperatorEscalates, CreateOrder, CustomerPays, Reconcile, CaseRows
  <2>5. (case.recovered => case'.recovered) /\ (case.stopped => case'.stopped)
    BY <2>3, <2>4 DEF Next
  <2> QED
    BY <2>1, <2>5
<1> QED
  BY <1>1, ServiceInvariance, PTL DEF Spec, RecoveryIsNeverUndone

\* execute_agent_run: a finished run stays finished and charges nobody, however often its
\* task is delivered.
THEOREM FinishedStaysFinished == Spec => FinishedRunIsFinal
<1> DEFINE Final == \A r \in Runs : row[r] \in {"COMPLETED", "ERROR"} =>
                      row'[r] = row[r] /\ agent'[r].retries = agent[r].retries
<1>1. ServiceInv /\ [Next]_vars => [Final]_vars
  <2> SUFFICES ASSUME ServiceInv, Next, NEW r \in Runs, row[r] \in {"COMPLETED", "ERROR"}
               PROVE  row'[r] = row[r] /\ agent'[r] = agent[r]
    BY DEF vars
  <2>1. TypeOK /\ job[r].place # "executing"
    BY DEF ServiceInv, RowInv
  <2>2. ASSUME NEW q \in Runs, StartRun(q) \/ Execution(q) \/ Crash(q)
        PROVE  row'[r] = row[r] /\ agent'[r] = agent[r]
    <3>1. row \in [Runs -> {"none", "RUNNING", "COMPLETED", "ERROR"}]
          /\ agent \in [Runs -> Agent!RunStates]
      BY <2>1 DEF TypeOK
    <3>2. CASE StartRun(q) \/ Enqueue(q) \/ Acknowledge(q) \/ Crash(q)
      BY <3>1, <3>2 DEF StartRun, Enqueue, Acknowledge, Crash
    <3>3. CASE Begin(q)
      BY <3>1, <3>3 DEF Begin
    <3>4. CASE AgentStep(q)
      BY <2>1, <3>1, <3>4 DEF AgentStep
    <3>5. CASE Fail(q) \/ Apply(q)
      BY <2>1, <3>1, <3>5 DEF Fail, Apply, FailAttempt
    <3> QED
      BY <2>2, <3>2, <3>3, <3>4, <3>5 DEF Execution
  <2>3. ASSUME OperatorEscalates \/ CreateOrder \/ CustomerPays \/ Reconcile
        PROVE  row'[r] = row[r] /\ agent'[r] = agent[r]
    BY <2>3 DEF OperatorEscalates, CreateOrder, CustomerPays, Reconcile
  <2> QED
    BY <2>2, <2>3 DEF Next
<1> QED
  BY <1>1, ServiceInvariance, PTL DEF Spec, FinishedRunIsFinal

-----------------------------------------------------------------------------
(* Every payment has an attempt of its own, a crash, or the customer.  An    *)
(* attempt that waits to be executed has paid nothing yet; one that is taken *)
(* up again after a crash forgets a payment, and the crash stands for it.    *)

StartedRuns == {r \in Runs : row[r] # "none"}
Waiting == {"none", "started", "queued"}

\* The attempts that may have paid.
Paying ==
  {x \in Runs \X (0 .. TaskRetries) :
     \/ x[2] < job[x[1]].attempt
     \/ x[2] = job[x[1]].attempt /\ agent[x[1]].paid /\ job[x[1]].place \notin Waiting}

RunChargeInv(r) ==
  /\ job[r].place # "none" \/ job[r].attempt # 0 \/ agent[r].actions > 0 => row[r] # "none"
  /\ agent[r].paid => agent[r].actions > 0

ChargeInv ==
  /\ \A r \in Runs : RunChargeInv(r)
  /\ IsFiniteSet(StartedRuns)
  /\ payments <= Cardinality(Paying) + crashes + (IF captured THEN 1 ELSE 0)

\* The attempts of finitely many runs are finitely many.
LEMMA AttemptsAreFinite ==
  ASSUME NEW S, IsFiniteSet(S), NEW T, T \subseteq S \X (0 .. TaskRetries)
  PROVE  IsFiniteSet(T) /\ Cardinality(T) \in Nat
<1>1. IsFiniteSet(0 .. TaskRetries)
  BY FS_Interval, ServiceAssumption
<1>2. IsFiniteSet(S \X (0 .. TaskRetries))
  BY <1>1, FS_Product
<1> QED
  BY <1>2, FS_Subset, FS_CardinalityType

\* Every attempt that may have paid or acted is one of a started run.
LEMMA PayingIsFinite ==
  ASSUME TypeOK, ChargeInv
  PROVE  /\ IsFiniteSet(Paying) /\ Cardinality(Paying) \in Nat
         /\ IsFiniteSet(Attempts) /\ Cardinality(Attempts) \in Nat
         /\ Paying \subseteq Attempts
<1>1. \A r \in Runs : job[r].attempt \in Nat
  BY ServiceAssumption DEF TypeOK, Jobs
<1>2. Attempts \subseteq StartedRuns \X (0 .. TaskRetries)
  BY <1>1, ServiceAssumption DEF Attempts, StartedRuns, ChargeInv, RunChargeInv
<1>3. Paying \subseteq Attempts
  BY DEF Paying, Attempts, ChargeInv, RunChargeInv
<1> QED
  BY <1>2, <1>3, AttemptsAreFinite DEF ChargeInv

\* A step about run q only: the attempts of the others are what they were, and the
\* invariant is kept if the count makes up for what q's lose.
LEMMA ChargeFrame ==
  ASSUME TypeOK, TypeOK', ChargeInv, NEW q \in Runs, row'[q] # "none", RunChargeInv(q)',
         \A r \in Runs \ {q} : UNCHANGED <<agent[r], job[r], row[r]>>
  PROVE  /\ \A r \in Runs : RunChargeInv(r)'
         /\ IsFiniteSet(StartedRuns')
         /\ IsFiniteSet(Paying') /\ Cardinality(Paying') \in Nat
         /\ \A x \in Paying : x[1] # q => x \in Paying'
<1>1. ASSUME NEW r \in Runs  PROVE RunChargeInv(r)'
  BY DEF ChargeInv, RunChargeInv
<1>2. IsFiniteSet(StartedRuns')
  <2>1. StartedRuns' \subseteq StartedRuns \union {q}
    BY DEF StartedRuns
  <2>2. IsFiniteSet(StartedRuns \union {q})
    BY FS_AddElement DEF ChargeInv
  <2> QED
    BY <2>1, <2>2, FS_Subset
<1>3. Paying' \subseteq StartedRuns' \X (0 .. TaskRetries)
  <2>1. \A r \in Runs : job'[r].attempt \in Nat
    BY ServiceAssumption DEF TypeOK, Jobs
  <2> QED
    BY <1>1, <2>1, ServiceAssumption DEF Paying, StartedRuns, RunChargeInv
<1>4. \A x \in Paying : x[1] # q => x \in Paying'
  BY DEF Paying
<1> QED
  BY <1>1, <1>2, <1>3, <1>4, AttemptsAreFinite

\* Nothing is paid and no paying attempt of q's is forgotten.
LEMMA ChargeKept ==
  ASSUME TypeOK, TypeOK', ChargeInv, NEW q \in Runs, row'[q] # "none", RunChargeInv(q)',
         \A r \in Runs \ {q} : UNCHANGED <<agent[r], job[r], row[r]>>,
         UNCHANGED <<payments, captured>>, crashes <= crashes',
         \A x \in Paying : x[1] = q => x \in Paying'
  PROVE  ChargeInv'
<1>1. /\ \A r \in Runs : RunChargeInv(r)'
      /\ IsFiniteSet(StartedRuns')
      /\ IsFiniteSet(Paying') /\ Cardinality(Paying') \in Nat
      /\ Paying \subseteq Paying'
  BY ChargeFrame
<1>2. Cardinality(Paying) <= Cardinality(Paying') /\ Cardinality(Paying) \in Nat
  BY <1>1, FS_Subset, PayingIsFinite
<1>3. crashes \in Nat /\ crashes' \in Nat /\ payments \in Nat
  BY ServiceAssumption DEF TypeOK
<1> QED
  BY <1>1, <1>2, <1>3 DEF ChargeInv

\* A charge that goes through is the run's first: it is one payment and one paid run more.
LEMMA ChargeFacts ==
  ASSUME NEW a \in Agent!RunStates, NEW b \in Agent!Successors(a),
         a.found \in {"open", "recovered"}, a.paid => a.actions > 0
  PROVE  /\ b.retries > a.retries => ~a.paid
         /\ b.retries <= a.retries => b.paid = a.paid
         /\ b.paid => b.actions > 0
<1>1. a.retries \in Nat /\ a.actions \in Nat /\ a.paid \in BOOLEAN
  BY DEF Agent!RunStates
<1>2. /\ b.retries = a.retries \/ b.retries = a.retries + 1
      /\ b.retries = a.retries => b.paid = a.paid
  BY SuccessorFacts
<1>3. CASE b \in Agent!Charged(a)
  <2>1. /\ Agent!MayAct(a)
        /\ \/ b = [a EXCEPT !.retries = @ + 1, !.actions = @ + 1, !.paid = TRUE]
           \/ b = [a EXCEPT !.retries = @ + 1, !.actions = @ + 1, !.paid = FALSE]
    BY <1>3 DEF Agent!Charged
  <2>2. ~a.paid /\ b.actions = a.actions + 1
    BY <2>1 DEF Agent!MayAct, Agent!RunStates
  <2> QED
    BY <1>1, <1>2, <2>2
<1>4. CASE b \in Agent!Messaged(a)
  <2>1. Agent!MayAct(a) /\ b = [a EXCEPT !.messages = @ + 1, !.actions = @ + 1]
    BY <1>4 DEF Agent!Messaged
  <2>2. ~a.paid /\ b.actions = a.actions + 1
    BY <2>1 DEF Agent!MayAct, Agent!RunStates
  <2> QED
    BY <1>1, <1>2, <2>2
<1>5. CASE b \in Agent!Finished(a) \union Agent!Raised(a)
  <2>1. b.retries = a.retries /\ b.actions = a.actions
    BY <1>5 DEF Agent!Finished, Agent!Raised, Agent!RunStates
  <2> QED
    BY <1>1, <1>2, <2>1
<1> QED
  BY <1>3, <1>4, <1>5 DEF Agent!Successors

\* A job's place and its attempt after the steps that write them.
LEMMA JobAfter ==
  ASSUME TypeOK, NEW q \in Runs, NEW place, NEW by
  PROVE  /\ job' = [job EXCEPT ![q].place = place] =>
              /\ job'[q].place = place /\ job'[q].attempt = job[q].attempt
              /\ \A r \in Runs \ {q} : job'[r] = job[r]
         /\ job' = [job EXCEPT ![q].place = place, ![q].by = by] =>
              /\ job'[q].place = place /\ job'[q].attempt = job[q].attempt
              /\ \A r \in Runs \ {q} : job'[r] = job[r]
         /\ job' = [job EXCEPT ![q].place = place, ![q].attempt = @ + 1] =>
              /\ job'[q].place = place /\ job'[q].attempt = job[q].attempt + 1
              /\ \A r \in Runs \ {q} : job'[r] = job[r]
<1>1. job \in [Runs -> Jobs] /\ job[q] \in Jobs
  BY DEF TypeOK
<1> QED
  BY <1>1 DEF Jobs

\* The steps that move a job or its row.
LEMMA ChargeMoveStep ==
  ASSUME ServiceInv, ServiceInv', ChargeInv, NEW q \in Runs,
         StartRun(q) \/ Enqueue(q) \/ Acknowledge(q) \/ (Begin(q) /\ row[q] # "RUNNING")
  PROVE  ChargeInv'
<1>1. /\ TypeOK /\ TypeOK' /\ RunChargeInv(q) /\ job[q] \in Jobs
      /\ row \in [Runs -> {"none", "RUNNING", "COMPLETED", "ERROR"}]
      /\ crashes \in Nat
  BY ServiceAssumption DEF ServiceInv, ChargeInv, TypeOK
<1>2. UNCHANGED <<agent, captured, payments, crashes>>
  BY DEF StartRun, Enqueue, Acknowledge, Begin, environment
<1> DEFINE Moved(place, by) ==
              /\ \/ job' = [job EXCEPT ![q].place = place]
                 \/ job' = [job EXCEPT ![q].place = place, ![q].by = by]
              /\ place \in Waiting => job[q].place \in Waiting
              /\ \/ row' = row /\ job[q].place # "none"
                 \/ row' = [row EXCEPT ![q] = "RUNNING"]
<1>3. \E place, by : Moved(place, by)
  <2>1. CASE StartRun(q)
    <3>1. Moved("started", "inline")
      BY <1>1, <2>1 DEF StartRun, Waiting, RunChargeInv
    <3> QED
      BY <3>1
  <2>2. CASE Enqueue(q)
    <3>1. PICK by \in {"inline", Backend} :
            job' = [job EXCEPT ![q].place = "queued", ![q].by = by]
      BY <2>2 DEF Enqueue
    <3>2. Moved("queued", by)
      BY <2>2, <3>1 DEF Enqueue, Waiting
    <3> QED
      BY <3>2
  <2>3. CASE Acknowledge(q)
    <3>1. Moved("gone", "inline")
      BY <2>3 DEF Acknowledge, Waiting
    <3> QED
      BY <3>1
  <2>4. CASE Begin(q) /\ row[q] # "RUNNING"
    <3>1. Moved("committed", "inline")
      BY <2>4 DEF Begin, Waiting
    <3> QED
      BY <3>1
  <2> QED
    BY <2>1, <2>2, <2>3, <2>4
<1>9. PICK place, by : Moved(place, by)
  BY <1>3
<1>4. /\ job'[q].place = place /\ job'[q].attempt = job[q].attempt
      /\ \A r \in Runs \ {q} : job'[r] = job[r]
  <2>1. CASE job' = [job EXCEPT ![q].place = place]
    BY <1>1, <2>1, JobAfter
  <2>2. CASE job' = [job EXCEPT ![q].place = place, ![q].by = by]
    BY <1>1, <2>2, JobAfter
  <2> QED
    BY <1>9, <2>1, <2>2
<1>5. row'[q] # "none" /\ \A r \in Runs \ {q} : row'[r] = row[r]
  BY <1>1, <1>9 DEF RunChargeInv
<1>6. RunChargeInv(q)'
  BY <1>1, <1>2, <1>5 DEF RunChargeInv
<1>7. \A x \in Paying : x[1] = q => x \in Paying'
  BY <1>2, <1>9, <1>4 DEF Paying
<1> QED
  BY <1>1, <1>2, <1>4, <1>5, <1>6, <1>7, ChargeKept

\* A process that fails forgets at most the payment of the attempt it was executing.
LEMMA ChargeCrashStep ==
  ASSUME ServiceInv, ServiceInv', ChargeInv, NEW q \in Runs, Crash(q)
  PROVE  ChargeInv'
<1>1. /\ TypeOK /\ TypeOK' /\ RunChargeInv(q) /\ job[q] \in Jobs
      /\ job[q].attempt \in 0 .. TaskRetries /\ job[q].attempt \in Nat
      /\ crashes \in Nat /\ payments \in Nat
  BY ServiceAssumption DEF ServiceInv, ChargeInv, TypeOK, Jobs
<1>2. UNCHANGED <<agent, captured, payments, row>> /\ crashes' = crashes + 1
      /\ job[q].place # "none"
  BY DEF Crash, environment
<1>3. PICK place : job' = [job EXCEPT ![q].place = place]
  BY DEF Crash
<1>4. /\ job'[q].place = place /\ job'[q].attempt = job[q].attempt
      /\ \A r \in Runs \ {q} : job'[r] = job[r]
  BY <1>1, <1>3, JobAfter
<1>5. row'[q] # "none" /\ RunChargeInv(q)'
  BY <1>1, <1>2, <1>4 DEF RunChargeInv
<1> DEFINE y == <<q, job[q].attempt>>
<1>6. /\ \A r \in Runs : RunChargeInv(r)'
      /\ IsFiniteSet(StartedRuns')
      /\ IsFiniteSet(Paying') /\ Cardinality(Paying') \in Nat
      /\ \A x \in Paying : x[1] # q => x \in Paying'
  BY <1>1, <1>2, <1>4, <1>5, ChargeFrame
<1>7. Paying \subseteq Paying' \union {y}
  <2>1. \A x \in Paying : x[1] = q => x \in Paying' \/ x = y
    BY <1>1, <1>4 DEF Paying
  <2> QED
    BY <1>6, <2>1
<1> HIDE DEF y
<1>8. Cardinality(Paying) <= Cardinality(Paying') + 1 /\ Cardinality(Paying) \in Nat
  <2>1. /\ IsFiniteSet(Paying' \union {y})
        /\ Cardinality(Paying' \union {y}) \in {Cardinality(Paying'), Cardinality(Paying') + 1}
    BY <1>6, FS_AddElement
  <2>2. Cardinality(Paying) <= Cardinality(Paying' \union {y})
    BY <1>7, <2>1, FS_Subset
  <2> QED
    BY <1>1, <1>6, <2>1, <2>2, PayingIsFinite
<1> QED
  BY <1>1, <1>2, <1>6, <1>8 DEF ChargeInv

\* An attempt that begins was waiting, and has paid nothing.
LEMMA ChargeBeginStep ==
  ASSUME ServiceInv, ServiceInv', ChargeInv, NEW q \in Runs, Begin(q), row[q] = "RUNNING"
  PROVE  ChargeInv'
<1>1. /\ TypeOK /\ TypeOK' /\ RunChargeInv(q) /\ crashes \in Nat
      /\ agent \in [Runs -> Agent!RunStates] /\ case.retries \in Nat /\ case.messages \in Nat
  BY ServiceAssumption DEF ServiceInv, ChargeInv, TypeOK, CaseRows
<1>2. /\ UNCHANGED <<row, captured, payments, crashes>> /\ job[q].place = "queued"
      /\ job' = [job EXCEPT ![q].place = "executing"]
  BY DEF Begin, environment
<1>3. /\ job'[q].place = "executing" /\ job'[q].attempt = job[q].attempt
      /\ \A r \in Runs \ {q} : job'[r] = job[r]
  BY <1>1, <1>2, JobAfter
<1>4. /\ \A r \in Runs \ {q} : agent'[r] = agent[r]
      /\ agent'[q].actions = 0 /\ ~agent'[q].paid
  <2> DEFINE fresh == Agent!FreshRun(RetryLimit, case.retries, case.messages,
                                     IF case.recovered THEN "recovered" ELSE "open")
  <2>1. agent' = [agent EXCEPT ![q] = fresh]
    BY DEF Begin
  <2>2. fresh.actions = 0 /\ ~fresh.paid
    BY <1>1, FreshRunFacts
  <2> HIDE DEF fresh
  <2> QED
    BY <1>1, <2>1, <2>2
<1>5. row'[q] # "none" /\ RunChargeInv(q)'
  BY <1>2, <1>4 DEF RunChargeInv
<1>6. \A x \in Paying : x[1] = q => x \in Paying'
  BY <1>2, <1>3 DEF Paying, Waiting
<1> QED
  BY <1>1, <1>2, <1>3, <1>4, <1>5, <1>6, ChargeKept

\* A charge that goes through adds a payment and a paying attempt.
LEMMA ChargeAgentStep ==
  ASSUME ServiceInv, ServiceInv', ChargeInv, NEW q \in Runs, AgentStep(q)
  PROVE  ChargeInv'
<1>1. /\ TypeOK /\ TypeOK' /\ RunChargeInv(q)
      /\ agent \in [Runs -> Agent!RunStates] /\ agent[q] \in Agent!RunStates
      /\ payments \in Nat /\ crashes \in Nat /\ AgentInv(q)
      /\ job[q].attempt \in 0 .. TaskRetries /\ job[q].attempt \in Nat
  BY ServiceAssumption DEF ServiceInv, ChargeInv, TypeOK, Jobs
<1>2. UNCHANGED <<row, job, captured, crashes>> /\ job[q].place = "executing"
  BY DEF AgentStep
<1>3. PICK next \in Agent!Successors(agent[q]) :
        /\ agent' = [agent EXCEPT ![q] = next]
        /\ IF next.retries > agent[q].retries
           THEN payments' = IF next.paid THEN payments + 1 ELSE payments
           ELSE payments' = payments
  BY DEF AgentStep
<1>4. /\ next \in Agent!RunStates /\ agent[q].retries \in Nat /\ next.retries \in Nat
      /\ next.paid \in BOOLEAN /\ agent[q].paid \in BOOLEAN
      /\ next.retries > agent[q].retries => ~agent[q].paid
      /\ next.retries <= agent[q].retries => next.paid = agent[q].paid
      /\ next.paid => next.actions > 0
  <2>1. agent[q].found \in {"open", "recovered"} /\ (agent[q].paid => agent[q].actions > 0)
    BY <1>1 DEF AgentInv, RunChargeInv
  <2>2. next \in Agent!RunStates
    BY <1>1, <2>1, SuccessorFacts
  <2>3. /\ next.retries > agent[q].retries => ~agent[q].paid
        /\ next.retries <= agent[q].retries => next.paid = agent[q].paid
        /\ next.paid => next.actions > 0
    BY <1>1, <2>1, ChargeFacts
  <2> QED
    BY <1>1, <2>2, <2>3 DEF Agent!RunStates
<1>5. /\ agent'[q] = next /\ \A r \in Runs \ {q} : agent'[r] = agent[r]
      /\ row'[q] # "none" /\ RunChargeInv(q)'
  BY <1>1, <1>2, <1>3, <1>4 DEF RunChargeInv
<1>6. CASE next.paid = agent[q].paid
  <2>1. payments' = payments
    BY <1>3, <1>4, <1>6
  <2>2. \A x \in Paying : x[1] = q => x \in Paying'
    BY <1>2, <1>5, <1>6 DEF Paying
  <2> QED
    BY <1>1, <1>2, <1>5, <2>1, <2>2, ChargeKept
<1>7. CASE next.paid # agent[q].paid
  <2>1. next.retries > agent[q].retries /\ ~agent[q].paid /\ next.paid
    BY <1>4, <1>7
  <2>2. payments' = payments + 1
    BY <1>3, <2>1
  <2> DEFINE y == <<q, job[q].attempt>>
  <2>3. y \notin Paying
    BY <1>1, <2>1 DEF Paying
  <2>4. y \in Paying' /\ \A x \in Paying : x[1] = q => x \in Paying'
    BY <1>1, <1>2, <1>5, <2>1 DEF Paying, Waiting
  <2> HIDE DEF y
  <2>5. /\ \A r \in Runs : RunChargeInv(r)'
        /\ IsFiniteSet(StartedRuns')
        /\ IsFiniteSet(Paying') /\ Cardinality(Paying') \in Nat
        /\ Paying \union {y} \subseteq Paying'
    BY <1>1, <1>2, <1>5, <2>4, ChargeFrame
  <2>6. Cardinality(Paying) + 1 <= Cardinality(Paying') /\ Cardinality(Paying) \in Nat
    <3>1. IsFiniteSet(Paying) /\ Cardinality(Paying) \in Nat
      BY <1>1, PayingIsFinite
    <3>2. Cardinality(Paying \union {y}) = Cardinality(Paying) + 1
      BY <2>3, <3>1, FS_AddElement
    <3> QED
      BY <2>5, <3>1, <3>2, FS_Subset
  <2> QED
    BY <1>1, <1>2, <2>2, <2>5, <2>6 DEF ChargeInv
<1> QED
  BY <1>6, <1>7

\* An attempt that ends is over, or stays the one that paid.
LEMMA ChargeEndStep ==
  ASSUME ServiceInv, ServiceInv', ChargeInv, NEW q \in Runs, Fail(q) \/ Apply(q)
  PROVE  ChargeInv'
<1>1. /\ TypeOK /\ TypeOK' /\ RunChargeInv(q) /\ job[q] \in Jobs /\ crashes \in Nat
      /\ row \in [Runs -> {"none", "RUNNING", "COMPLETED", "ERROR"}]
      /\ job[q].attempt \in Nat
  BY ServiceAssumption DEF ServiceInv, ChargeInv, TypeOK, Jobs
<1>2. UNCHANGED <<agent, captured, payments, crashes>> /\ job[q].place = "executing"
  BY DEF Fail, Apply, environment
<1>3. \/ job' = [job EXCEPT ![q].place = "queued", ![q].attempt = @ + 1] /\ row' = row
      \/ /\ job' = [job EXCEPT ![q].place = "committed"]
         /\ \E status \in {"ERROR", "COMPLETED"} : row' = [row EXCEPT ![q] = status]
  BY DEF Fail, Apply, FailAttempt
<1>4. /\ \A r \in Runs \ {q} : job'[r] = job[r] /\ row'[r] = row[r]
      /\ row'[q] # "none" /\ RunChargeInv(q)'
  <2>1. row[q] # "none"
    BY <1>1, <1>2 DEF RunChargeInv
  <2>2. \A r \in Runs \ {q} : job'[r] = job[r]
    BY <1>1, <1>3, JobAfter
  <2>3. row'[q] # "none" /\ \A r \in Runs \ {q} : row'[r] = row[r]
    BY <1>1, <1>3, <2>1
  <2> QED
    BY <1>1, <1>2, <2>2, <2>3 DEF RunChargeInv
<1>5. \A x \in Paying : x[1] = q => x \in Paying'
  <2>1. \/ job'[q].attempt = job[q].attempt + 1
        \/ job'[q].attempt = job[q].attempt /\ job'[q].place = "committed"
    BY <1>1, <1>3, JobAfter
  <2> QED
    BY <1>1, <1>2, <2>1 DEF Paying, Waiting
<1> QED
  BY <1>1, <1>2, <1>4, <1>5, ChargeKept

\* The other writers.  Only the customer's payment moves money, once.
LEMMA ChargeOtherStep ==
  ASSUME ServiceInv, ServiceInv', ChargeInv,
         OperatorEscalates \/ CreateOrder \/ CustomerPays \/ Reconcile \/ UNCHANGED vars
  PROVE  ChargeInv'
<1>1. UNCHANGED <<row, job, agent, crashes>>
  BY DEF OperatorEscalates, CreateOrder, CustomerPays, Reconcile, environment, vars
<1>2. captured \in BOOLEAN /\ payments \in Nat /\ Cardinality(Paying) \in Nat /\ crashes \in Nat
  BY PayingIsFinite, ServiceAssumption DEF ServiceInv, TypeOK
<1>3. (\A r \in Runs : RunChargeInv(r)') /\ IsFiniteSet(StartedRuns') /\ Paying' = Paying
  BY <1>1 DEF ChargeInv, RunChargeInv, StartedRuns, Paying
<1>4. \/ UNCHANGED <<captured, payments>>
      \/ ~captured /\ captured' = TRUE /\ payments' = payments + 1
  BY DEF OperatorEscalates, CreateOrder, CustomerPays, Reconcile, environment, vars
<1>5. payments' <= Cardinality(Paying') + crashes' + (IF captured' THEN 1 ELSE 0)
  BY <1>1, <1>2, <1>3, <1>4 DEF ChargeInv
<1> QED
  BY <1>3, <1>5 DEF ChargeInv

LEMMA ChargeNext == ServiceInv /\ ServiceInv' /\ ChargeInv /\ [Next]_vars => ChargeInv'
<1> SUFFICES ASSUME ServiceInv, ServiceInv', ChargeInv, [Next]_vars  PROVE ChargeInv'
  OBVIOUS
<1>1. ASSUME NEW q \in Runs, StartRun(q) \/ Execution(q) \/ Crash(q)  PROVE ChargeInv'
  <2>1. CASE StartRun(q) \/ Enqueue(q) \/ Acknowledge(q) \/ (Begin(q) /\ row[q] # "RUNNING")
    BY <2>1, ChargeMoveStep
  <2>2. CASE Begin(q) /\ row[q] = "RUNNING"
    BY <2>2, ChargeBeginStep
  <2>3. CASE AgentStep(q)
    BY <2>3, ChargeAgentStep
  <2>4. CASE Fail(q) \/ Apply(q)
    BY <2>4, ChargeEndStep
  <2>5. CASE Crash(q)
    BY <2>5, ChargeCrashStep
  <2> QED
    BY <1>1, <2>1, <2>2, <2>3, <2>4, <2>5 DEF Execution
<1>2. ASSUME OperatorEscalates \/ CreateOrder \/ CustomerPays \/ Reconcile \/ UNCHANGED vars
      PROVE  ChargeInv'
  BY <1>2, ChargeOtherStep
<1> QED
  BY <1>1, <1>2 DEF Next

LEMMA ChargeInit == Init => ChargeInv
<1> SUFFICES ASSUME Init  PROVE ChargeInv
  OBVIOUS
<1>1. ASSUME NEW r \in Runs
      PROVE  /\ job[r].place = "none" /\ job[r].attempt = 0 /\ row[r] = "none"
             /\ agent[r].actions = 0 /\ ~agent[r].paid
  BY DEF Init, Agent!FreshRun
<1>2. StartedRuns = {} /\ Paying = {}
  <2>1. \A x \in Runs \X (0 .. TaskRetries) : ~(x[2] < 0) /\ x[1] \in Runs
    BY ServiceAssumption
  <2> QED
    BY <1>1, <2>1 DEF StartedRuns, Paying
<1>3. IsFiniteSet(StartedRuns) /\ Cardinality(Paying) = 0
  BY <1>2, FS_EmptySet
<1>4. payments = 0 /\ captured = FALSE /\ crashes = 0
  BY DEF Init
<1> QED
  BY <1>1, <1>3, <1>4 DEF ChargeInv, RunChargeInv

\* run_recovery_agent_task, _apply_agent_result: whatever runs overlap, however often their
\* attempts fail and are taken up again and whatever a crash has delivered twice, each
\* attempt pays at most once, and only a crash makes room for one more.
THEOREM AttemptsPayOnce == Spec => []OnePaymentPerAttempt
<1>1. ServiceInv /\ ChargeInv => OnePaymentPerAttempt
  <2> SUFFICES ASSUME ServiceInv, ChargeInv
               PROVE  payments <= Cardinality(Attempts) + crashes
                                    + (IF captured THEN 1 ELSE 0)
    BY DEF OnePaymentPerAttempt
  <2>1. /\ IsFiniteSet(Attempts) /\ Paying \subseteq Attempts
        /\ Cardinality(Paying) \in Nat /\ Cardinality(Attempts) \in Nat
    BY PayingIsFinite DEF ServiceInv
  <2>2. Cardinality(Paying) <= Cardinality(Attempts)
    BY <2>1, FS_Subset
  <2>3. payments \in Nat /\ crashes \in Nat
    BY ServiceAssumption DEF ServiceInv, TypeOK
  <2> QED
    BY <2>1, <2>2, <2>3 DEF ChargeInv
<1>2. Spec => []ChargeInv
  BY ServiceInvariance, ChargeInit, ChargeNext, PTL DEF Spec
<1> QED
  BY <1>1, <1>2, ServiceInvariance, PTL

=============================================================================
