------------------------------ MODULE EventIngestion ------------------------------
(***************************************************************************)
(* Event ingestion (events.py, demo.py, create_case_* and dispatch_agent_   *)
(* run): a request checks the idempotency key, resolves the customer,       *)
(* inserts the case, commits, starts an agent run and commits again.        *)
(*                                                                         *)
(* The database runs READ COMMITTED: a request sees what others committed;  *)
(* an insert under a unique key waits for a request that holds the same key *)
(* uncommitted and raises IntegrityError if the key is then taken.  The     *)
(* caller of an event that got no answer sends it again.                    *)
(***************************************************************************)
EXTENDS Naturals, FiniteSets

CONSTANTS
  Keys,        \* idempotency keys of the events callers send
  DemoKeys,    \* the fresh keys run_demo_scenario makes up
  Customers,   \* customer ids (the UUID derived from the customer_id string)
  CustomerOf,  \* the customer an event is about
  EmailHash,   \* the email hash of the stub made for a customer: 8 digits of its id
  Requests,    \* requests that may be in progress at a time
  MaxCrashes,  \* bound on requests that die
  None

AllKeys == Keys \union DemoKeys

ASSUME IngestionAssumption ==
  /\ Keys \intersect DemoKeys = {}
  /\ CustomerOf \in [AllKeys -> Customers]
  /\ DOMAIN EmailHash = Customers
  /\ None \notin AllKeys \union Customers
  /\ MaxCrashes \in Nat

VARIABLES
  cases,      \* the committed case rows by source_event_key: how many, whose, agent runs
  customers,  \* the committed customer rows
  req,        \* the requests in progress
  answers,    \* the answers callers received
  queued,     \* the runs handed to the task queue or to a background task
  crashes

vars == <<cases, customers, req, answers, queued, crashes>>

Idle == [at |-> "idle", key |-> None, customer |-> None, new |-> None]

TypeOK ==
  /\ cases \in [AllKeys -> [count : Nat, customer : Customers \union {None}, runs : Nat]]
  /\ customers \subseteq Customers
  /\ req \in [Requests ->
       [at : {"idle", "checked", "absent", "located", "inserted", "created", "started"},
        key : AllKeys \union {None}, customer : Customers \union {None},
        new : Customers \union {None}]]
  /\ answers \in [AllKeys -> SUBSET {"ACCEPTED", "DUPLICATE"}]
  /\ queued \subseteq AllKeys
  /\ crashes \in 0 .. MaxCrashes

Init ==
  /\ cases = [k \in AllKeys |-> [count |-> 0, customer |-> None, runs |-> 0]]
  /\ customers = {}
  /\ req = [h \in Requests |-> Idle]
  /\ answers = [k \in AllKeys |-> {}]
  /\ queued = {}
  /\ crashes = 0

\* Request h ends; whatever it has not committed is rolled back.
Ends(h) == req' = [req EXCEPT ![h] = Idle]

-----------------------------------------------------------------------------
\* Seeded fault: only a case the agent has started on counts as seen before.
DuplicateOfStarted(k) ==
  /\ k \in Keys /\ cases[k].runs > 0
  /\ answers' = [answers EXCEPT ![k] = @ \union {"DUPLICATE"}]
  /\ UNCHANGED <<cases, customers, req, queued, crashes>>

\* The idempotency check finds a case: its id is answered and nothing else is done.
Duplicate(k) ==
  /\ k \in Keys /\ cases[k].count > 0
  /\ answers' = [answers EXCEPT ![k] = @ \union {"DUPLICATE"}]
  /\ UNCHANGED <<cases, customers, req, queued, crashes>>

\* It finds none.  The demo endpoint makes up a fresh key and checks nothing.
Check(h, k) ==
  /\ req[h] = Idle /\ cases[k].count = 0
  /\ k \in DemoKeys => \A g \in Requests : req[g].key # k
  /\ req' = [req EXCEPT ![h] = [Idle EXCEPT !.at = "checked", !.key = k]]
  /\ UNCHANGED <<cases, customers, answers, queued, crashes>>

\* Two customers whose stubs have the same unique email hash.
SameStub(c, d) == c = d \/ EmailHash[c] = EmailHash[d]

\* _get_or_create_customer_id: the customer by id, or the one holding the email hash.
FindCustomer(h) ==
  LET c == CustomerOf[req[h].key]
  IN  /\ req[h].at = "checked"
      /\ \/ /\ c \in customers
            /\ req' = [req EXCEPT ![h].at = "located", ![h].customer = c]
         \/ /\ c \notin customers
            /\ \E d \in customers :
                 /\ SameStub(c, d)
                 /\ req' = [req EXCEPT ![h].at = "located", ![h].customer = d]
         \/ /\ \A d \in customers : ~SameStub(c, d)
            /\ req' = [req EXCEPT ![h].at = "absent", ![h].customer = c]
      /\ UNCHANGED <<cases, customers, answers, queued, crashes>>

\* The stub is inserted, unless another request has inserted it since: then the request
\* ends in an error.
InsertCustomer(h) ==
  LET c == req[h].customer
  IN  /\ req[h].at = "absent"
      /\ \A g \in Requests : req[g].new # None => ~SameStub(c, req[g].new)
      /\ IF \E d \in customers : SameStub(c, d) THEN Ends(h)
         ELSE req' = [req EXCEPT ![h].at = "located", ![h].new = c]
      /\ UNCHANGED <<cases, customers, answers, queued, crashes>>

\* Seeded fault: source_event_key is not unique.
InsertCaseUnchecked(h) ==
  /\ req[h].at = "located"
  /\ req' = [req EXCEPT ![h].at = "inserted"]
  /\ UNCHANGED <<cases, customers, answers, queued, crashes>>

\* The case and its CASE_CREATED event are inserted, under the unique source_event_key.
InsertCase(h) ==
  /\ req[h].at = "located"
  /\ \A g \in Requests : req[g].at = "inserted" => req[g].key # req[h].key
  /\ IF cases[req[h].key].count > 0 THEN Ends(h)
     ELSE req' = [req EXCEPT ![h].at = "inserted"]
  /\ UNCHANGED <<cases, customers, answers, queued, crashes>>

\* What a commit makes of the inserts of request h.
Stored(h) ==
  /\ cases' = [cases EXCEPT ![req[h].key].count = @ + 1,
                            ![req[h].key].customer = req[h].customer]
  /\ customers' = customers \union ({req[h].new} \ {None})

CommitCase(h) ==
  /\ req[h].at = "inserted" /\ req[h].key \in Keys
  /\ Stored(h)
  /\ req' = [req EXCEPT ![h].at = "created", ![h].new = None]
  /\ UNCHANGED <<answers, queued, crashes>>

\* Seeded fault: the failure to start a run is logged and the event accepted.
StartRunOrNot(h) ==
  /\ req[h].at = "created"
  /\ req' = [req EXCEPT ![h].at = "started"]
  /\ \/ cases' = [cases EXCEPT ![req[h].key].runs = @ + 1]
     \/ UNCHANGED cases
  /\ UNCHANGED <<customers, answers, queued, crashes>>

\* start_agent_run and the commit in dispatch_agent_run.  The case comes from the request's
\* own session, which still holds it open.
StartRun(h) ==
  /\ req[h].at = "created"
  /\ req' = [req EXCEPT ![h].at = "started"]
  /\ cases' = [cases EXCEPT ![req[h].key].runs = @ + 1]
  /\ UNCHANGED <<customers, answers, queued, crashes>>

\* The demo endpoint has not committed before: case and run are committed together.
StartDemo(h) ==
  /\ req[h].at = "inserted" /\ req[h].key \in DemoKeys
  /\ cases' = [cases EXCEPT ![req[h].key] =
       [count |-> @.count + 1, customer |-> req[h].customer, runs |-> @.runs + 1]]
  /\ customers' = customers \union ({req[h].new} \ {None})
  /\ req' = [req EXCEPT ![h].at = "started", ![h].new = None]
  /\ UNCHANGED <<answers, queued, crashes>>

\* The run is handed over and the caller answered.
Accept(h) ==
  /\ req[h].at = "started"
  /\ queued' = queued \union {req[h].key}
  /\ answers' = [answers EXCEPT ![req[h].key] = @ \union {"ACCEPTED"}]
  /\ Ends(h)
  /\ UNCHANGED <<cases, customers, crashes>>

\* The process, or the connection to the caller, dies.
Crash(h) ==
  /\ req[h] # Idle /\ crashes < MaxCrashes
  /\ crashes' = crashes + 1
  /\ Ends(h)
  /\ UNCHANGED <<cases, customers, answers, queued>>

Proceed(h) ==
  \/ FindCustomer(h) \/ InsertCustomer(h) \/ InsertCase(h) \/ CommitCase(h)
  \/ StartRun(h) \/ StartDemo(h) \/ Accept(h)

Next ==
  \/ \E k \in Keys : Duplicate(k)
  \/ \E h \in Requests : (\E k \in AllKeys : Check(h, k)) \/ Proceed(h) \/ Crash(h)

Spec == Init /\ [][Next]_vars

\* A request goes on, and the caller of an event sends it until it is answered.
Fairness ==
  /\ \A h \in Requests : WF_vars(Proceed(h))
  /\ \A k \in Keys : SF_vars(Duplicate(k) \/ \E h \in Requests : Check(h, k))

FairSpec == Spec /\ Fairness

-----------------------------------------------------------------------------
(* Properties.                                                              *)

\* However often and however concurrently an event is sent it makes one case, and its
\* ingestion starts at most one run (events.py: no double processing).
OneCasePerKey == \A k \in AllKeys : cases[k].count <= 1 /\ cases[k].runs <= cases[k].count

\* An answer is true when it is given and afterwards: accepted means that the agent is on
\* the case, and either answer that the case exists.
AnswersAreTrue ==
  \A k \in AllKeys :
    /\ "ACCEPTED" \in answers[k] => cases[k].runs = 1 /\ k \in queued
    /\ answers[k] # {} => cases[k].count = 1

\* Every case belongs to a stored customer with the email hash of the event's own, and no
\* two customers share one, although two events may bring in a new customer at once.
CasesHaveTheirCustomer ==
  /\ \A k \in AllKeys : cases[k].count > 0 =>
       cases[k].customer \in customers /\ SameStub(cases[k].customer, CustomerOf[k])
  /\ \A c, d \in customers : c # d => EmailHash[c] # EmailHash[d]

\* A case is left without an agent run only if a request died between its two commits
\* (events.py commits the case before dispatch_agent_run); repeating the event is then
\* answered DUPLICATE and starts none.
IdleCaseMeansCrash ==
  \A k \in AllKeys :
    /\ cases[k].count > 0 /\ cases[k].runs = 0
    /\ ~\E h \in Requests : req[h].key = k /\ req[h].at = "created"
    => crashes > 0

\* A caller that goes on sending its event is answered: integrity errors and waits on
\* unique keys (_get_or_create_customer_id, create_case_*) do not go on for ever.
EventsAreAnswered == \A k \in Keys : <>(answers[k] # {})

=============================================================================
