-------------------------------- MODULE PolicyStore --------------------------------
(***************************************************************************)
(* The store of merchant policies (policy_service.py, policies.py): POST    *)
(* /policies reads the active rows, deactivates them, inserts a new active  *)
(* row and commits; an agent run reads the active row of highest version,   *)
(* or the default file when there is none, and validates it.                *)
(*                                                                         *)
(* READ COMMITTED: a request deactivates the rows it saw active, waiting    *)
(* for a request that has touched one of them and not committed.            *)
(***************************************************************************)
EXTENDS Naturals, FiniteSets

CONSTANTS
  Policies,  \* the policies POSTed, one request each
  Versions,  \* the versions a payload can carry (1 when it carries none)
  Runs,      \* agent runs that load the policy
  Default    \* the policy of merchant_default_v1.json

ASSUME StoreAssumption ==
  /\ Versions \subseteq Nat
  /\ Default \notin Policies
  /\ Policies \intersect Runs = {}

VARIABLES
  row,   \* the committed row of each policy
  post,  \* the request that makes each policy, and the rows it saw active
  run,   \* what each agent run loaded
  since  \* for each request and run, the policies committed when it began (history)

vars == <<row, post, run, since>>

NoRow == [stored |-> FALSE, active |-> FALSE, version |-> 0, valid |-> FALSE]

TypeOK ==
  /\ row \in [Policies -> [stored : BOOLEAN, active : BOOLEAN,
                           version : Versions \union {0}, valid : BOOLEAN]]
  /\ post \in [Policies -> [at : {"idle", "read", "flushed", "ended"},
                            seen : SUBSET Policies]]
  /\ run \in [Runs -> [at : {"idle", "deciding", "failed"},
                       policy : Policies \union {Default}]]
  /\ since \in [Policies \union Runs -> SUBSET Policies]

Init ==
  /\ row = [p \in Policies |-> NoRow]
  /\ post = [p \in Policies |-> [at |-> "idle", seen |-> {}]]
  /\ run = [r \in Runs |-> [at |-> "idle", policy |-> Default]]
  /\ since = [x \in Policies \union Runs |-> {}]

Stored == {p \in Policies : row[p].stored}
Active == {p \in Policies : row[p].active}

-----------------------------------------------------------------------------
\* Seeded fault: only the policy that is served is read.
ReadServedOnly(p) ==
  /\ post[p].at = "idle"
  /\ \E s \in SUBSET Active :
       /\ IF Active = {} THEN s = {}
          ELSE \E a \in Active : s = {a} /\ \A b \in Active : row[a].version >= row[b].version
       /\ post' = [post EXCEPT ![p] = [at |-> "read", seen |-> s]]
  /\ since' = [since EXCEPT ![p] = Stored]
  /\ UNCHANGED <<row, run>>

\* create_policy reads the active rows.
ReadActive(p) ==
  /\ post[p].at = "idle"
  /\ post' = [post EXCEPT ![p] = [at |-> "read", seen |-> Active]]
  /\ since' = [since EXCEPT ![p] = Stored]
  /\ UNCHANGED <<row, run>>

\* The flush: the updates wait for whoever else has updated one of the rows.
Flush(p) ==
  /\ post[p].at = "read"
  /\ \A q \in Policies : post[q].at = "flushed" => post[q].seen \intersect post[p].seen = {}
  /\ post' = [post EXCEPT ![p].at = "flushed"]
  /\ UNCHANGED <<row, run, since>>

\* The commit in get_db.  The payload is stored as it came, valid or not.
Commit(p) ==
  /\ post[p].at = "flushed"
  /\ \E v \in Versions, valid \in BOOLEAN :
       row' = [q \in Policies |->
         IF q = p THEN [stored |-> TRUE, active |-> TRUE, version |-> v, valid |-> valid]
         ELSE [row[q] EXCEPT !.active = @ /\ q \notin post[p].seen]]
  /\ post' = [post EXCEPT ![p].at = "ended"]
  /\ UNCHANGED <<run, since>>

\* The request dies or fails: everything is rolled back.
Rollback(p) ==
  /\ post[p].at \in {"read", "flushed"}
  /\ post' = [post EXCEPT ![p].at = "ended"]
  /\ UNCHANGED <<row, run, since>>

-----------------------------------------------------------------------------
\* Seeded fault: the highest version is served, active or not.
NewestVersion ==
  IF Stored = {} THEN {Default}
  ELSE {p \in Stored : \A q \in Stored : row[p].version >= row[q].version}

\* get_active_policy: any of the active policies that share the highest version.
Served ==
  IF Active = {} THEN {Default}
  ELSE {p \in Active : \A q \in Active : row[p].version >= row[q].version}

\* get_active_policy_config in execute_agent_run: a stored policy that the schema refuses
\* raises, and the run fails.
LoadPolicy(r) ==
  /\ run[r].at = "idle"
  /\ \E p \in Served :
       run' = [run EXCEPT ![r] =
         [at |-> IF p = Default \/ row[p].valid THEN "deciding" ELSE "failed", policy |-> p]]
  /\ since' = [since EXCEPT ![r] = Stored]
  /\ UNCHANGED <<row, post>>

Next ==
  \/ \E p \in Policies : ReadActive(p) \/ Flush(p) \/ Commit(p) \/ Rollback(p)
  \/ \E r \in Runs : LoadPolicy(r)

Spec == Init /\ [][Next]_vars

-----------------------------------------------------------------------------
(* Properties.                                                              *)

\* Two policies are active at once only if their requests overlapped: neither was committed
\* when the other began (create_policy: deactivate existing active policy).
TwoActiveOnlyIfConcurrent ==
  \A p, q \in Active : p # q => p \notin since[q] /\ q \notin since[p]

\* Once all other activations that were ever committed precede it, a policy is the one
\* served, whatever its version: an older version number does not lose to a newer one.
LastActivationWins ==
  \A p \in Stored : Stored \ {p} \subseteq since[p] => Served = {p}

\* A run never decides under a policy that had been replaced when it loaded it, and falls
\* back to the default file only if no policy was ever activated.
RunsDecideUnderCurrentPolicy ==
  \A r \in Runs : run[r].at # "idle" =>
    IF run[r].policy = Default THEN since[r] = {}
    ELSE ~\E q \in since[r] : run[r].policy \in since[q]

\* Replacing the policy leaves no moment without one, however the request ends.
NeverWithoutPolicy == [][Active # {} => Active' # {}]_vars

=============================================================================
