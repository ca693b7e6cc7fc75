--------------------------- MODULE PolicyStoreProofs ---------------------------
(***************************************************************************)
(* Theorems about the policy store: any number of policies, versions and    *)
(* runs, and any overlap of the requests.                                   *)
(*                                                                         *)
(* The properties compare what was stored when a request began with what is *)
(* active now.  StoreInv carries that knowledge through a request: a policy *)
(* it found stored and that is still active is one it saw active, so that   *)
(* its commit deactivates it; and no two requests each began after the      *)
(* other was committed.                                                     *)
(*                                                                         *)
(* The last section is about the run that has loaded a policy: what the     *)
(* engine answers it, for every set of policies and of requests.            *)
(***************************************************************************)
EXTENDS MCPolicy, PolicyEngineProofs

InProgress(p) == post[p].at \in {"read", "flushed"}

\* A policy is stored by the commit of its own request, which is the last thing that does.
RowInv ==
  \A p \in Policies :
    /\ row[p].stored => post[p].at = "ended"
    /\ row[p].active => row[p].stored

\* What a request or run found stored still is; a request did not find its own policy,
\* nor one that found it.
SinceInv ==
  /\ \A x \in Policies \union Runs : since[x] \subseteq Stored
  /\ \A p \in Policies : post[p].at = "idle" => since[p] = {}
  /\ \A p, q \in Policies : q \in since[p] => p \notin since[q]

\* The predecessors of a policy: deactivated by it, or about to be.
SeenInv ==
  /\ \A p \in Policies : InProgress(p) => post[p].seen \subseteq since[p]
  /\ \A p \in Policies : \A q \in since[p] :
       /\ InProgress(p) /\ row[q].active => q \in post[p].seen
       /\ row[p].stored => ~row[q].active

\* Whoever is no longer active has a successor, so somebody is active.
SuccessorInv ==
  /\ \A p \in Stored : ~row[p].active => \E q \in Stored : p \in since[q]
  /\ Stored # {} => Active # {}

StoreInv ==
  /\ TypeOK /\ RowInv /\ SinceInv /\ SeenInv /\ SuccessorInv
  /\ RunsDecideUnderCurrentPolicy

-----------------------------------------------------------------------------
(* Initial state and steps.                                                 *)

LEMMA InitInv == Init => StoreInv
<1> SUFFICES ASSUME Init  PROVE StoreInv
  OBVIOUS
<1>1. Stored = {} /\ Active = {}
  BY DEF Init, Stored, Active, NoRow
<1>2. TypeOK
  BY DEF Init, TypeOK, NoRow
<1>3. RowInv /\ SeenInv
  BY DEF Init, RowInv, SeenInv, InProgress, NoRow
<1>4. SinceInv /\ SuccessorInv
  BY <1>1 DEF Init, SinceInv, SuccessorInv
<1>5. RunsDecideUnderCurrentPolicy
  BY DEF Init, RunsDecideUnderCurrentPolicy
<1> QED
  BY <1>2, <1>3, <1>4, <1>5 DEF StoreInv

\* A run's decision does not depend on requests that begin after it was made.
LEMMA RunsFrame ==
  ASSUME StoreInv, run' = run,
         \A r \in Runs : since'[r] = since[r],
         \A q \in Stored : since'[q] = since[q]
  PROVE  RunsDecideUnderCurrentPolicy'
<1> SUFFICES ASSUME NEW r \in Runs, run[r].at # "idle"
             PROVE  IF run[r].policy = Default THEN since[r] = {}
                    ELSE ~\E q \in since[r] : run[r].policy \in since'[q]
  BY DEF RunsDecideUnderCurrentPolicy
<1>1. since[r] \subseteq Stored
  BY DEF StoreInv, SinceInv
<1> QED
  BY <1>1 DEF StoreInv, RunsDecideUnderCurrentPolicy

LEMMA ReadActiveStep ==
  ASSUME StoreInv, NEW p \in Policies, ReadActive(p)
  PROVE  StoreInv'
<1>1. /\ post[p].at = "idle"
      /\ post' = [post EXCEPT ![p] = [at |-> "read", seen |-> Active]]
      /\ since' = [since EXCEPT ![p] = Stored]
      /\ row' = row /\ run' = run
  BY DEF ReadActive
<1>2. TypeOK /\ Stored \subseteq Policies /\ Active \subseteq Policies
  BY DEF StoreInv, Stored, Active
<1>3. TypeOK'
  BY <1>1, <1>2 DEF TypeOK
<1>4. Stored' = Stored /\ Active' = Active
  BY <1>1 DEF Stored, Active
<1>5. /\ since'[p] = Stored
      /\ \A x \in (Policies \union Runs) \ {p} : since'[x] = since[x]
      /\ post'[p] = [at |-> "read", seen |-> Active]
      /\ \A q \in Policies \ {p} : post'[q] = post[q]
  BY <1>1, <1>2 DEF TypeOK
<1>6. p \notin Stored /\ p \notin Runs
  BY <1>1, StoreAssumption DEF StoreInv, RowInv, Stored
<1>7. RowInv'
  BY <1>1, <1>5, <1>6 DEF StoreInv, RowInv, Stored
<1>8. SinceInv'
  <2>1. \A x \in Policies \union Runs : since'[x] \subseteq Stored
    BY <1>5 DEF StoreInv, SinceInv
  <2>2. \A q \in Policies : post'[q].at = "idle" => since'[q] = {}
    BY <1>5 DEF StoreInv, SinceInv
  <2>3. \A x \in Policies : p \notin since'[x]
    BY <1>6, <2>1
  <2>4. \A a, b \in Policies : b \in since'[a] => a \notin since'[b]
    BY <1>5, <2>3 DEF StoreInv, SinceInv
  <2> QED
    BY <1>4, <2>1, <2>2, <2>4 DEF SinceInv
<1>9. SeenInv'
  <2>1. Active \subseteq Stored
    BY DEF StoreInv, RowInv, Stored, Active
  <2>2. ASSUME NEW a \in Policies
        PROVE  /\ InProgress(a)' => post'[a].seen \subseteq since'[a]
               /\ \A q \in since'[a] :
                    /\ InProgress(a)' /\ row[q].active => q \in post'[a].seen
                    /\ row[a].stored => ~row[q].active
    <3>1. CASE a = p
      BY <1>2, <1>5, <1>6, <2>1, <3>1 DEF InProgress, Active, Stored
    <3>2. CASE a # p
      BY <1>5, <3>2 DEF StoreInv, SeenInv, InProgress
    <3> QED
      BY <3>1, <3>2
  <2> QED
    BY <1>1, <2>2 DEF SeenInv
<1>10. SuccessorInv'
  BY <1>1, <1>2, <1>4, <1>5, <1>6 DEF StoreInv, SuccessorInv
<1>11. RunsDecideUnderCurrentPolicy'
  BY <1>1, <1>2, <1>5, <1>6, RunsFrame
<1> QED
  BY <1>3, <1>7, <1>8, <1>9, <1>10, <1>11 DEF StoreInv

\* A request that waits or ends without a commit.
LEMMA NoCommitStep ==
  ASSUME StoreInv, NEW p \in Policies, Flush(p) \/ Rollback(p)
  PROVE  StoreInv'
<1>1. /\ InProgress(p) /\ row' = row /\ run' = run /\ since' = since
      /\ \E at \in {"flushed", "ended"} : post' = [post EXCEPT ![p].at = at]
  BY DEF Flush, Rollback, InProgress
<1>2. TypeOK
  BY DEF StoreInv
<1>3. PICK at \in {"flushed", "ended"} : post' = [post EXCEPT ![p].at = at]
  BY <1>1
<1>4. /\ post' \in [Policies -> [at : {"idle", "read", "flushed", "ended"},
                                 seen : SUBSET Policies]]
      /\ post'[p].at = at /\ post'[p].seen = post[p].seen
      /\ \A q \in Policies \ {p} : post'[q] = post[q]
  BY <1>2, <1>3 DEF TypeOK
<1>5. TypeOK'
  BY <1>1, <1>2, <1>4 DEF TypeOK
<1>6. Stored' = Stored /\ Active' = Active
  BY <1>1 DEF Stored, Active
<1>7. RowInv'
  BY <1>1, <1>4 DEF StoreInv, RowInv, InProgress
<1>8. SinceInv'
  BY <1>1, <1>4, <1>6 DEF StoreInv, SinceInv
<1>9. SeenInv'
  BY <1>1, <1>4 DEF StoreInv, SeenInv, InProgress
<1>10. SuccessorInv'
  BY <1>1, <1>6 DEF StoreInv, SuccessorInv
<1>11. RunsDecideUnderCurrentPolicy'
  BY <1>1, RunsFrame
<1> QED
  BY <1>5, <1>7, <1>8, <1>9, <1>10, <1>11 DEF StoreInv

LEMMA CommitStep ==
  ASSUME StoreInv, NEW p \in Policies, Commit(p)
  PROVE  StoreInv' /\ Active' # {}
<1>1. PICK v \in Versions, valid \in BOOLEAN :
        row' = [q \in Policies |->
          IF q = p THEN [stored |-> TRUE, active |-> TRUE, version |-> v, valid |-> valid]
          ELSE [row[q] EXCEPT !.active = @ /\ q \notin post[p].seen]]
  BY DEF Commit
<1>2. /\ post[p].at = "flushed" /\ post' = [post EXCEPT ![p].at = "ended"]
      /\ run' = run /\ since' = since
  BY DEF Commit
<1>3. TypeOK
  BY DEF StoreInv
<1>4. row' \in [Policies -> [stored : BOOLEAN, active : BOOLEAN,
                             version : Versions \union {0}, valid : BOOLEAN]]
  <2>1. ASSUME NEW q \in Policies
        PROVE  row'[q] \in [stored : BOOLEAN, active : BOOLEAN,
                            version : Versions \union {0}, valid : BOOLEAN]
    <3>1. row[q] \in [stored : BOOLEAN, active : BOOLEAN,
                      version : Versions \union {0}, valid : BOOLEAN]
      BY <1>3 DEF TypeOK
    <3>2. CASE q = p
      BY <1>1, <3>2
    <3>3. CASE q # p
      BY <1>1, <3>1, <3>3
    <3> QED
      BY <3>2, <3>3
  <2> QED
    BY <1>1, <2>1
<1>5. /\ row'[p].stored /\ row'[p].active
      /\ \A q \in Policies \ {p} :
           /\ row'[q].stored = row[q].stored
           /\ row'[q].active = (row[q].active /\ q \notin post[p].seen)
  BY <1>1, <1>3 DEF TypeOK
<1>6. /\ post' \in [Policies -> [at : {"idle", "read", "flushed", "ended"},
                                 seen : SUBSET Policies]]
      /\ post'[p].at = "ended" /\ \A q \in Policies \ {p} : post'[q] = post[q]
  <2> DEFINE Posts == [at : {"idle", "read", "flushed", "ended"}, seen : SUBSET Policies]
             r == [post[p] EXCEPT !.at = "ended"]
  <2>1. post \in [Policies -> Posts] /\ post' = [post EXCEPT ![p] = r]
    BY <1>2, <1>3 DEF TypeOK
  <2>2. post[p] \in Posts
    BY <2>1
  <2>3. r \in Posts /\ r.at = "ended"
    BY <2>2
  <2> HIDE DEF Posts, r
  <2>4. /\ post' \in [Policies -> Posts] /\ post'[p] = r
        /\ \A q \in Policies \ {p} : post'[q] = post[q]
    BY <2>1, <2>3
  <2> QED
    BY <2>3, <2>4 DEF Posts
<1>7. TypeOK'
  BY <1>2, <1>3, <1>4, <1>6 DEF TypeOK
<1>8. p \notin Stored /\ Stored' = Stored \union {p} /\ p \in Active'
  BY <1>2, <1>5 DEF StoreInv, RowInv, Stored, Active
<1>9. RowInv'
  BY <1>5, <1>6 DEF StoreInv, RowInv
<1>10. SinceInv'
  BY <1>2, <1>6, <1>8 DEF StoreInv, SinceInv
<1>11. SeenInv'
  <2>1. ASSUME NEW a \in Policies
        PROVE  /\ InProgress(a)' => post'[a].seen \subseteq since[a]
               /\ \A q \in since[a] :
                    /\ InProgress(a)' /\ row'[q].active => q \in post'[a].seen
                    /\ row'[a].stored => ~row'[q].active
    <3>1. \A q \in since[a] : q \in Policies \ {p}
      BY <1>8 DEF StoreInv, SinceInv, Stored
    <3>2. CASE a = p
      BY <1>2, <1>5, <1>6, <3>1, <3>2 DEF StoreInv, SeenInv, InProgress
    <3>3. CASE a # p
      BY <1>5, <1>6, <3>1, <3>3 DEF StoreInv, SeenInv, InProgress
    <3> QED
      BY <3>2, <3>3
  <2> QED
    BY <1>2, <2>1 DEF SeenInv
<1>12. SuccessorInv'
  <2>1. ASSUME NEW a \in Stored', ~row'[a].active  PROVE \E q \in Stored' : a \in since'[q]
    <3>1. a \in Stored /\ a \in Policies \ {p}
      BY <1>5, <1>8, <2>1 DEF Stored
    <3>2. CASE a \in post[p].seen
      BY <1>2, <1>8, <3>2 DEF StoreInv, SeenInv, InProgress
    <3>3. CASE a \notin post[p].seen
      <4>1. ~row[a].active
        BY <1>5, <2>1, <3>1, <3>3
      <4> QED
        BY <1>2, <1>8, <3>1, <4>1 DEF StoreInv, SuccessorInv
    <3> QED
      BY <3>2, <3>3
  <2> QED
    BY <1>8, <2>1 DEF SuccessorInv
<1>13. RunsDecideUnderCurrentPolicy'
  BY <1>2, RunsFrame
<1> QED
  BY <1>7, <1>8, <1>9, <1>10, <1>11, <1>12, <1>13 DEF StoreInv

LEMMA LoadPolicyStep ==
  ASSUME StoreInv, NEW r \in Runs, LoadPolicy(r)
  PROVE  StoreInv'
<1>1. PICK p \in Served :
        run' = [run EXCEPT ![r] =
          [at |-> IF p = Default \/ row[p].valid THEN "deciding" ELSE "failed", policy |-> p]]
  BY DEF LoadPolicy
<1>2. since' = [since EXCEPT ![r] = Stored] /\ row' = row /\ post' = post
  BY DEF LoadPolicy
<1>3. TypeOK /\ Stored \subseteq Policies
  BY DEF StoreInv, Stored
<1>4. p \in Active \/ (p = Default /\ Active = {})
  BY DEF Served
<1>5. p \in Policies \union {Default}
  BY <1>4 DEF Active
<1>6. TypeOK'
  BY <1>1, <1>2, <1>3, <1>5 DEF TypeOK
<1>7. /\ since'[r] = Stored /\ r \notin Policies
      /\ \A x \in (Policies \union Runs) \ {r} : since'[x] = since[x]
      /\ run'[r].policy = p /\ \A s \in Runs \ {r} : run'[s] = run[s]
  BY <1>1, <1>2, <1>3, StoreAssumption DEF TypeOK
<1>8. Stored' = Stored /\ Active' = Active
  BY <1>2 DEF Stored, Active
<1>9. \A q \in Policies : since'[q] = since[q]
  BY <1>7
<1>10. RowInv' /\ SinceInv' /\ SeenInv'
  BY <1>2, <1>3, <1>7, <1>8, <1>9 DEF StoreInv, RowInv, SinceInv, SeenInv, InProgress
<1>11. SuccessorInv'
  BY <1>2, <1>3, <1>8, <1>9 DEF StoreInv, SuccessorInv
<1>12. RunsDecideUnderCurrentPolicy'
  <2>1. ASSUME NEW s \in Runs, run'[s].at # "idle"
        PROVE  IF run'[s].policy = Default THEN since'[s] = {}
               ELSE ~\E q \in since'[s] : run'[s].policy \in since'[q]
    <3>1. since[s] \subseteq Policies
      BY <1>3 DEF StoreInv, SinceInv
    <3>2. CASE s # r
      BY <1>7, <1>9, <2>1, <3>1, <3>2 DEF StoreInv, RunsDecideUnderCurrentPolicy
    <3>3. CASE s = r /\ p = Default
      BY <1>4, <1>7, <3>3, StoreAssumption DEF StoreInv, SuccessorInv, Active
    <3>4. CASE s = r /\ p # Default
      <4>1. p \in Active
        BY <1>4, <3>4
      <4>2. \A q \in Stored : p \notin since[q]
        BY <4>1 DEF StoreInv, SeenInv, Active, Stored
      <4> QED
        BY <1>3, <1>7, <1>9, <3>4, <4>2
    <3> QED
      BY <3>2, <3>3, <3>4
  <2> QED
    BY <2>1 DEF RunsDecideUnderCurrentPolicy
<1> QED
  BY <1>6, <1>10, <1>11, <1>12 DEF StoreInv

LEMMA NextInv == StoreInv /\ [Next]_vars => StoreInv'
<1> SUFFICES ASSUME StoreInv, [Next]_vars  PROVE StoreInv'
  OBVIOUS
<1>1. CASE UNCHANGED vars
  BY <1>1 DEF vars, StoreInv, TypeOK, RowInv, SinceInv, SeenInv, SuccessorInv, Stored, Active,
              InProgress, RunsDecideUnderCurrentPolicy
<1>2. CASE Next
  BY <1>2, ReadActiveStep, NoCommitStep, CommitStep, LoadPolicyStep DEF Next
<1> QED
  BY <1>1, <1>2

-----------------------------------------------------------------------------
(* The theorems.                                                            *)

\* Every state of the store satisfies the inductive invariant.
THEOREM StoreInvariance == Spec => []StoreInv
BY InitInv, NextInv, PTL DEF Spec

\* Rows, requests and runs keep their types.
THEOREM StoreTypes == Spec => []TypeOK
<1>1. StoreInv => TypeOK
  BY DEF StoreInv
<1> QED
  BY <1>1, StoreInvariance, PTL

\* create_policy: two policies are active only if their requests overlapped.
THEOREM OverlapOnly == Spec => []TwoActiveOnlyIfConcurrent
<1>1. StoreInv => TwoActiveOnlyIfConcurrent
  BY DEF StoreInv, RowInv, SeenInv, Active, TwoActiveOnlyIfConcurrent
<1> QED
  BY <1>1, StoreInvariance, PTL

\* get_active_policy: the policy activated after all others is the one served.
THEOREM LastIsServed == Spec => []LastActivationWins
<1>1. StoreInv => LastActivationWins
  <2> SUFFICES ASSUME StoreInv, NEW p \in Stored, Stored \ {p} \subseteq since[p]
               PROVE  Served = {p}
    BY DEF LastActivationWins
  <2>1. p \in Policies /\ row[p].version \in Nat
    <3>1. p \in Policies /\ row[p] \in [stored : BOOLEAN, active : BOOLEAN,
                                       version : Versions \union {0}, valid : BOOLEAN]
      BY DEF Stored, StoreInv, TypeOK
    <3>2. row[p].version \in Versions \union {0}
      BY <3>1
    <3>3. \A v \in Versions \union {0} : v \in Nat
      BY StoreAssumption
    <3> QED
      BY <3>1, <3>2, <3>3, Zenon
  <2>2. p \notin since[p] /\ \A q \in Stored \ {p} : p \notin since[q]
    BY <2>1 DEF StoreInv, SinceInv, Stored
  <2>3. row[p].active
    BY <2>2 DEF StoreInv, SuccessorInv
  <2>4. \A q \in Stored \ {p} : ~row[q].active
    BY <2>1 DEF StoreInv, SeenInv, Stored
  <2>5. Active = {p}
    BY <2>1, <2>3, <2>4 DEF StoreInv, RowInv, Active, Stored
  <2>6. row[p].version >= row[p].version
    BY <2>1
  <2> QED
    BY <2>5, <2>6 DEF Served
<1> QED
  BY <1>1, StoreInvariance, PTL

\* execute_agent_run: a run never decides under a replaced policy.
THEOREM CurrentPolicyDecides == Spec => []RunsDecideUnderCurrentPolicy
<1>1. StoreInv => RunsDecideUnderCurrentPolicy
  BY DEF StoreInv
<1> QED
  BY <1>1, StoreInvariance, PTL

\* create_policy: replacing the policy leaves no moment without one.
THEOREM AlwaysSomePolicy == Spec => NeverWithoutPolicy
<1>1. StoreInv /\ [Next]_vars => [Active # {} => Active' # {}]_vars
  <2> SUFFICES ASSUME StoreInv, Next, Active # {}  PROVE Active' # {}
    BY DEF vars
  <2>1. ASSUME NEW p \in Policies, Commit(p)  PROVE Active' # {}
    BY <2>1, CommitStep
  <2>2. CASE row' = row
    BY <2>2 DEF Active
  <2> QED
    BY <2>1, <2>2 DEF Next, ReadActive, Flush, Rollback, LoadPolicy
<1> QED
  BY <1>1, StoreInvariance, PTL DEF Spec, NeverWithoutPolicy

-----------------------------------------------------------------------------
(* The run and the engine.  A question and the policy it is asked under are *)
(* of the engine's types; the answers are then those of the pipeline, which *)
(* PolicyEngineProofs says of every policy and every context.               *)

QuestionInv == Asked => policy \in PolicyConfig /\ ctx \in AuthorizationContext

\* Every request of the bounded set is one the engine can be asked.
LEMMA RequestsAreContexts == Requests \subseteq AuthorizationContext
<1>1. Contexts \subseteq AuthorizationContext
  BY ContextsAssumption DEF Contexts, AuthorizationContext, ActionTypes, RetryActions, MessageActions
<1>2. ASSUME NEW c \in AuthorizationContext
      PROVE  /\ [c EXCEPT !.amount_is_number = FALSE] \in AuthorizationContext
             /\ [c EXCEPT !.suspended = TRUE] \in AuthorizationContext
             /\ [c EXCEPT !.timeout_elapsed = FALSE] \in AuthorizationContext
  BY DEF AuthorizationContext
<1> QED
  BY <1>1, <1>2 DEF Requests

LEMMA QuestionInvariance == MCSpec => []QuestionInv
<1>1. MCInit => QuestionInv
  BY DEF MCInit, QuestionInv, Asked
<1>2. QuestionInv /\ [Step \/ AskEngine]_MCVars => QuestionInv'
  <2> SUFFICES ASSUME QuestionInv, [Step \/ AskEngine]_MCVars  PROVE QuestionInv'
    OBVIOUS
  <2>1. CASE AskEngine
    <3>1. PICK p \in Configs, c \in Requests : request' = <<p, c>>
      BY <2>1 DEF AskEngine
    <3> QED
      BY <3>1, ConfigsAssumption, RequestsAreContexts DEF QuestionInv, policy, ctx
  <2>2. CASE request' = request
    BY <2>2 DEF QuestionInv, Asked, policy, ctx
  <2> QED
    BY <2>1, <2>2 DEF Step, MCVars
<1> QED
  BY <1>1, <1>2, PTL DEF MCSpec

\* PolicyEngine.authorize, told without the order of its checks: whatever policy the store
\* serves and whatever a run asks, an approval means exactly that every limit is kept, and
\* no approval comes back as the budget is used up.
THEOREM ApprovalIsExactlyWithinLimits == MCSpec => []ApprovalsAreExact
<1>1. QuestionInv => ApprovedExactlyWithinLimits
  <2> SUFFICES ASSUME QuestionInv, Asked  PROVE ApprovedExactlyWithinLimits
    BY DEF ApprovedExactlyWithinLimits
  <2> DEFINE p == policy
             c == ctx
  <2>1. p \in PolicyConfig /\ c \in AuthorizationContext
    BY DEF QuestionInv
  <2>2. Verdict(c) = "APPROVED" <=> NothingObjects(p, c)
    BY ApprovedIffNothingObjects DEF Verdict
  <2> HIDE DEF p, c
  <2>3. /\ PaymentSucceeded(p, c) <=> c.succeeded /\ p.stop_on_payment_success
        /\ OptedOut(p, c) <=> c.opted_out /\ p.stop_on_opt_out
        /\ Suspended(p, c) <=> c.suspended /\ p.stop_on_suspension
    BY DEF PaymentSucceeded, OptedOut, Suspended
  <2>4. (~(c.amount <= 0) /\ ~AmountExceedsLimit(p, c))
          <=> c.amount \in 1 .. p.max_auto_recovery_amount
    BY <2>1 DEF AmountExceedsLimit, PolicyConfig, AuthorizationContext
  <2>5. (~RetriesExhausted(p, c) /\ ~IntervalNotSatisfied(p, c))
          <=> (c.action_type \in RetryActions =>
                 /\ p.max_retries - c.retry_count > 0
                 /\ \/ c.hours_since_last = None
                    \/ c.hours_since_last >= p.min_retry_interval)
    BY <2>1 DEF RetriesExhausted, IntervalNotSatisfied, PolicyConfig, AuthorizationContext, None
  <2>6. ~MessagesExhausted(p, c)
          <=> (c.action_type \in MessageActions =>
                 p.max_messages_per_case - c.communication_count > 0)
    BY <2>1 DEF MessagesExhausted, PolicyConfig, AuthorizationContext
  <2>7. (IsCheckout(c) => /\ c.timeout_elapsed
                          /\ ~CheckoutAmountTooLow(p, c)
                          /\ ~CheckoutMessagesExhausted(p, c))
          <=> (c.action_type = "send_checkout_recovery" =>
                 /\ c.timeout_elapsed
                 /\ c.amount >= p.min_checkout_amount
                 /\ p.max_recovery_messages - c.checkout_messages > 0)
    BY <2>1 DEF CheckoutAmountTooLow, CheckoutMessagesExhausted, IsCheckout, PolicyConfig,
                AuthorizationContext
  <2>8. (~UnknownFailure(p, c) /\ ~LowConfidence(p, c))
          <=> /\ c.failure_reason = "UNKNOWN" => ~p.unknown_failure
              /\ c.confidence \in {None} \union (p.low_confidence_threshold .. 100)
    BY <2>1 DEF UnknownFailure, LowConfidence, PolicyConfig, AuthorizationContext, Percent, None
  <2>9. NothingObjects(p, c) <=>
          /\ ~c.recovered /\ ~(c.succeeded /\ p.stop_on_payment_success)
          /\ (c.opted_out => ~p.stop_on_opt_out) /\ (c.suspended => ~p.stop_on_suspension)
          /\ c.amount_is_number /\ c.amount \in 1 .. p.max_auto_recovery_amount
          /\ c.failure_reason = "UNKNOWN" => ~p.unknown_failure
          /\ c.confidence \in {None} \union (p.low_confidence_threshold .. 100)
          /\ c.action_type \in RetryActions =>
               /\ p.max_retries - c.retry_count > 0
               /\ \/ c.hours_since_last = None
                  \/ c.hours_since_last >= p.min_retry_interval
          /\ c.action_type \in MessageActions =>
               p.max_messages_per_case - c.communication_count > 0
          /\ c.action_type = "send_checkout_recovery" =>
               /\ c.timeout_elapsed
               /\ c.amount >= p.min_checkout_amount
               /\ p.max_recovery_messages - c.checkout_messages > 0
    BY <2>3, <2>4, <2>5, <2>6, <2>7, <2>8 DEF NothingObjects
  <2> QED
    BY <2>2, <2>9 DEF ApprovedExactlyWithinLimits, p, c
<1>2. QuestionInv => UsageNeverUnlocks
  <2> SUFFICES ASSUME QuestionInv, Asked, Verdict(ctx) # "APPROVED",
                      NEW used \in {[ctx EXCEPT !.retry_count = @ + 1],
                                    [ctx EXCEPT !.communication_count = @ + 1],
                                    [ctx EXCEPT !.checkout_messages = @ + 1]}
               PROVE  Verdict(used) # "APPROVED"
    BY DEF UsageNeverUnlocks
  <2>1. policy \in PolicyConfig /\ ctx \in AuthorizationContext
    BY DEF QuestionInv
  <2>2. UsedUp(ctx, used)
    BY <2>1 DEF UsedUp, AuthorizationContext
  <2> QED
    BY <2>1, <2>2, UsageNeverApproves DEF Verdict
<1> QED
  BY <1>1, <1>2, QuestionInvariance, PTL DEF ApprovalsAreExact

\* PolicyEngine._run_pipeline: a resolved case is never acted on and never escalated, and a
\* customer who opted out or is suspended is refused, whatever else the request breaks.
THEOREM LeftAloneIsLeftAlone == MCSpec => []LeftAloneBeatsEveryOtherRule
<1>1. QuestionInv => LeftAloneBeatsEveryOtherRule
  BY BarsComeFirst DEF LeftAloneBeatsEveryOtherRule, Verdict, PaymentSucceeded, OptedOut, Suspended
<1> QED
  BY <1>1, QuestionInvariance, PTL

=============================================================================
