------------------------- MODULE EventIngestionProofs -------------------------
(***************************************************************************)
(* Theorems about event ingestion: any events, customers and email hashes,  *)
(* any number of requests at a time and of requests that die.               *)
(*                                                                         *)
(* The properties are about committed rows and answers.  RequestInv and     *)
(* PairInv say what the requests in progress hold that is not committed: a  *)
(* key no case has, a stub no customer has, and neither of them twice.      *)
(***************************************************************************)
EXTENDS EventIngestion, TLAPS

RequestTypes ==
  [at : {"idle", "checked", "absent", "located", "inserted", "created", "started"},
   key : AllKeys \union {None}, customer : Customers \union {None},
   new : Customers \union {None}]

CaseTypes == [count : Nat, customer : Customers \union {None}, runs : Nat]

\* What request h knows, by how far it has come.
RequestInv(h) ==
  LET r == req[h]
  IN  /\ r.at # "idle" => r.key \in AllKeys
      /\ r.at = "absent" => r.customer = CustomerOf[r.key]
      /\ r.at \in {"located", "inserted"} =>
           /\ r.customer \in customers \/ (r.customer = r.new /\ r.new # None)
           /\ SameStub(r.customer, CustomerOf[r.key])
      /\ r.new # None => /\ r.at \in {"located", "inserted"}
                         /\ \A d \in customers : ~SameStub(d, r.new)
      /\ r.at = "inserted" => cases[r.key].count = 0
      /\ r.at = "created" => cases[r.key].count = 1 /\ cases[r.key].runs = 0
      /\ r.at = "started" => cases[r.key].count = 1 /\ cases[r.key].runs = 1

\* Two requests never hold the same uncommitted key or stub, or start the same run.
PairInv(g, h) ==
  /\ req[g].at \in {"inserted", "created"} /\ req[g].at = req[h].at => req[g].key # req[h].key
  /\ req[g].new # None /\ req[h].new # None => ~SameStub(req[g].new, req[h].new)

IngestionInv ==
  /\ TypeOK
  /\ OneCasePerKey /\ AnswersAreTrue /\ CasesHaveTheirCustomer /\ IdleCaseMeansCrash
  /\ \A h \in Requests : RequestInv(h)
  /\ \A g, h \in Requests : g # h => PairInv(g, h)

-----------------------------------------------------------------------------
(* Initial state, and the shapes of a step.                                 *)

LEMMA InitInv == Init => IngestionInv
<1> SUFFICES ASSUME Init  PROVE IngestionInv
  OBVIOUS
<1>1. Idle \in RequestTypes /\ 0 \in 0 .. MaxCrashes
  BY IngestionAssumption DEF Idle, RequestTypes
<1>2. TypeOK
  BY <1>1 DEF Init, TypeOK, RequestTypes
<1>3. OneCasePerKey /\ AnswersAreTrue /\ CasesHaveTheirCustomer /\ IdleCaseMeansCrash
  BY DEF Init, OneCasePerKey, AnswersAreTrue, CasesHaveTheirCustomer, IdleCaseMeansCrash
<1>4. ASSUME NEW h \in Requests  PROVE RequestInv(h)
  BY DEF Init, RequestInv, Idle
<1>5. ASSUME NEW g \in Requests, NEW h \in Requests  PROVE PairInv(g, h)
  BY DEF Init, PairInv, Idle
<1> QED
  BY <1>2, <1>3, <1>4, <1>5 DEF IngestionInv

LEMMA Typing ==
  ASSUME TypeOK, NEW h \in Requests
  PROVE  req \in [Requests -> RequestTypes] /\ req[h] \in RequestTypes
BY DEF TypeOK, RequestTypes

\* A request whose row lies untouched keeps what it knows while other requests move, as
\* long as no row is committed.
LEMMA OtherRequests ==
  ASSUME IngestionInv, NEW h \in Requests, NEW r \in RequestTypes,
         req' = [req EXCEPT ![h] = r], UNCHANGED <<cases, customers>>
  PROVE  /\ req' \in [Requests -> RequestTypes]
         /\ req'[h] = r /\ \A g \in Requests \ {h} : req'[g] = req[g]
         /\ \A g \in Requests \ {h} : RequestInv(g)'
         /\ \A f, g \in Requests \ {h} : f # g => PairInv(f, g)'
<1>1. req \in [Requests -> RequestTypes]
  BY Typing DEF IngestionInv
<1>2. /\ req' \in [Requests -> RequestTypes]
      /\ req'[h] = r /\ \A g \in Requests \ {h} : req'[g] = req[g]
  BY <1>1
<1>3. ASSUME NEW g \in Requests \ {h}  PROVE RequestInv(g)'
  BY <1>2 DEF IngestionInv, RequestInv
<1>4. ASSUME NEW f \in Requests \ {h}, NEW g \in Requests \ {h}, f # g  PROVE PairInv(f, g)'
  BY <1>2, <1>4 DEF IngestionInv, PairInv
<1> QED
  BY <1>2, <1>3, <1>4

\* PairInv is symmetric, so a request is compared with the others in one direction only.
LEMMA PairSymmetric ==
  ASSUME NEW g \in Requests, NEW h \in Requests, PairInv(g, h)'
  PROVE  PairInv(h, g)'
BY DEF PairInv, SameStub

\* A step of h that commits nothing, answers nobody and keeps IdleCaseMeansCrash: what is
\* left to show is about h itself.
LEMMA RequestStep ==
  ASSUME IngestionInv, NEW h \in Requests, NEW r \in RequestTypes,
         req' = [req EXCEPT ![h] = r], UNCHANGED <<cases, customers, answers, queued>>,
         crashes' \in crashes .. MaxCrashes,
         req[h].at # "created" \/ crashes' > 0,
         RequestInv(h)',
         \A g \in Requests \ {h} : PairInv(h, g)'
  PROVE  IngestionInv'
<1>1. /\ req' \in [Requests -> RequestTypes]
      /\ req'[h] = r /\ \A g \in Requests \ {h} : req'[g] = req[g]
      /\ \A g \in Requests \ {h} : RequestInv(g)'
      /\ \A f, g \in Requests \ {h} : f # g => PairInv(f, g)'
  BY OtherRequests
<1>2. crashes \in Nat /\ crashes' \in 0 .. MaxCrashes /\ crashes <= crashes'
  BY IngestionAssumption DEF IngestionInv, TypeOK
<1>3. TypeOK'
  BY <1>1, <1>2 DEF IngestionInv, TypeOK, RequestTypes
<1>4. OneCasePerKey' /\ AnswersAreTrue' /\ CasesHaveTheirCustomer'
  BY DEF IngestionInv, OneCasePerKey, AnswersAreTrue, CasesHaveTheirCustomer
<1>5. IdleCaseMeansCrash'
  <2> SUFFICES ASSUME NEW k \in AllKeys, cases[k].count > 0, cases[k].runs = 0,
                      ~\E g \in Requests : req'[g].key = k /\ req'[g].at = "created"
               PROVE  crashes' > 0
    BY DEF IdleCaseMeansCrash
  <2>1. CASE \E g \in Requests : req[g].key = k /\ req[g].at = "created"
    BY <1>1, <2>1
  <2>2. CASE ~\E g \in Requests : req[g].key = k /\ req[g].at = "created"
    <3>1. crashes > 0
      BY <2>2 DEF IngestionInv, IdleCaseMeansCrash
    <3> QED
      BY <1>2, <3>1
  <2> QED
    BY <2>1, <2>2
<1>6. \A f, g \in Requests : f # g => PairInv(f, g)'
  BY <1>1, PairSymmetric
<1> QED
  BY <1>1, <1>3, <1>4, <1>5, <1>6 DEF IngestionInv

\* A request that ends without a commit leaves nothing behind.
LEMMA EndStep ==
  ASSUME IngestionInv, NEW h \in Requests, Ends(h),
         UNCHANGED <<cases, customers, answers, queued>>,
         crashes' \in crashes .. MaxCrashes,
         req[h].at # "created" \/ crashes' > 0
  PROVE  IngestionInv'
<1>1. Idle \in RequestTypes
  BY DEF Idle, RequestTypes
<1>2. req' = [req EXCEPT ![h] = Idle]
  BY DEF Ends
<1>3. req'[h] = Idle
  BY <1>1, <1>2, OtherRequests
<1>4. RequestInv(h)'
  BY <1>3 DEF RequestInv, Idle
<1>5. ASSUME NEW g \in Requests \ {h}  PROVE PairInv(h, g)'
  BY <1>3 DEF PairInv, Idle
<1> QED
  BY <1>1, <1>2, <1>4, <1>5, RequestStep

-----------------------------------------------------------------------------
(* The steps that commit no row.                                            *)

LEMMA DuplicateStep ==
  ASSUME IngestionInv, NEW k \in Keys, Duplicate(k)
  PROVE  IngestionInv'
<1>1. /\ cases[k].count > 0 /\ k \in AllKeys
      /\ answers' = [answers EXCEPT ![k] = @ \union {"DUPLICATE"}]
      /\ UNCHANGED <<cases, customers, req, queued, crashes>>
  BY DEF Duplicate, AllKeys
<1>2. TypeOK /\ cases[k].count = 1
  BY <1>1 DEF IngestionInv, OneCasePerKey, TypeOK
<1>3. TypeOK'
  BY <1>1, <1>2 DEF TypeOK
<1>4. AnswersAreTrue'
  BY <1>1, <1>2 DEF IngestionInv, AnswersAreTrue, TypeOK
<1>5. OneCasePerKey' /\ CasesHaveTheirCustomer' /\ IdleCaseMeansCrash'
  BY <1>1 DEF IngestionInv, OneCasePerKey, CasesHaveTheirCustomer, IdleCaseMeansCrash
<1>6. /\ \A h \in Requests : RequestInv(h)'
      /\ \A g, h \in Requests : g # h => PairInv(g, h)'
  BY <1>1 DEF IngestionInv, RequestInv, PairInv
<1> QED
  BY <1>3, <1>4, <1>5, <1>6 DEF IngestionInv

LEMMA CheckStep ==
  ASSUME IngestionInv, NEW h \in Requests, NEW k \in AllKeys, Check(h, k)
  PROVE  IngestionInv'
<1> DEFINE r == [Idle EXCEPT !.at = "checked", !.key = k]
<1>1. /\ r \in RequestTypes
      /\ r.at = "checked" /\ r.key = k /\ r.new = None
  BY DEF Idle, RequestTypes
<1>2. /\ req[h] = Idle /\ req' = [req EXCEPT ![h] = r]
      /\ UNCHANGED <<cases, customers, answers, queued, crashes>>
  BY DEF Check
<1>3. req[h].at # "created" /\ crashes' \in crashes .. MaxCrashes
  BY <1>2 DEF Idle, IngestionInv, TypeOK
<1> HIDE DEF r
<1>4. req'[h] = r
  BY <1>1, <1>2, OtherRequests
<1>5. RequestInv(h)'
  BY <1>1, <1>4 DEF RequestInv
<1>6. ASSUME NEW g \in Requests \ {h}  PROVE PairInv(h, g)'
  BY <1>1, <1>4 DEF PairInv
<1> QED
  BY <1>1, <1>2, <1>3, <1>5, <1>6, RequestStep

\* The updates of one request's record stay in its type.
LEMMA RequestMoves ==
  ASSUME IngestionInv, NEW h \in Requests, NEW r,
         NEW at \in {"absent", "located", "inserted", "created", "started"},
         r = [req[h] EXCEPT !.at = at]
  PROVE  /\ r \in RequestTypes /\ r.at = at /\ r.key = req[h].key
         /\ r.customer = req[h].customer /\ r.new = req[h].new
<1>1. req[h] \in RequestTypes
  BY Typing DEF IngestionInv
<1> QED
  BY <1>1 DEF RequestTypes

LEMMA RequestHolds ==
  ASSUME IngestionInv, NEW h \in Requests
  PROVE  LET r == [req[h] EXCEPT !.at = "located", !.new = req[h].customer]
         IN  /\ r \in RequestTypes /\ r.at = "located" /\ r.key = req[h].key
             /\ r.customer = req[h].customer /\ r.new = req[h].customer
<1> DEFINE r == [req[h] EXCEPT !.at = "located", !.new = req[h].customer]
<1>1. req[h] \in RequestTypes
  BY Typing DEF IngestionInv
<1>2. req[h].customer \in Customers \union {None}
  BY <1>1 DEF RequestTypes
<1>3. r \in RequestTypes
  BY <1>1, <1>2, ZenonT(30) DEF RequestTypes
<1> QED
  BY <1>1, <1>3 DEF RequestTypes

LEMMA FindCustomerStep ==
  ASSUME IngestionInv, NEW h \in Requests, FindCustomer(h)
  PROVE  IngestionInv'
<1> DEFINE c == CustomerOf[req[h].key]
<1>1. /\ req[h].at = "checked" /\ req[h].key \in AllKeys /\ req[h].new = None
      /\ UNCHANGED <<cases, customers, answers, queued, crashes>>
  BY DEF FindCustomer, IngestionInv, RequestInv
<1>2. c \in Customers /\ customers \subseteq Customers
  BY <1>1, IngestionAssumption DEF IngestionInv, TypeOK
<1>3. PICK at \in {"absent", "located"}, d \in Customers :
        /\ req' = [req EXCEPT ![h].at = at, ![h].customer = d]
        /\ at = "located" => d \in customers /\ SameStub(d, c)
        /\ at = "absent" => d = c
  <2>1. CASE c \in customers /\ req' = [req EXCEPT ![h].at = "located", ![h].customer = c]
    BY <1>2, <2>1 DEF SameStub
  <2>2. CASE \E d \in customers :
               /\ SameStub(c, d)
               /\ req' = [req EXCEPT ![h].at = "located", ![h].customer = d]
    BY <1>2, <2>2 DEF SameStub
  <2>3. CASE req' = [req EXCEPT ![h].at = "absent", ![h].customer = c]
    BY <1>2, <2>3
  <2> QED
    BY <2>1, <2>2, <2>3 DEF FindCustomer
<1> DEFINE r == [req[h] EXCEPT !.at = at, !.customer = d]
<1>4. /\ r \in RequestTypes /\ r.at = at /\ r.key = req[h].key
      /\ r.customer = d /\ r.new = req[h].new
  <2>1. d \in Customers \union {None} /\ at \in {"absent", "located", "inserted", "created", "started"}
    OBVIOUS
  <2>2. req[h] \in RequestTypes
    BY Typing DEF IngestionInv
  <2>3. r \in RequestTypes
    BY <2>1, <2>2, ZenonT(30) DEF RequestTypes
  <2> QED
    BY <2>2, <2>3 DEF RequestTypes
<1>5. req' = [req EXCEPT ![h] = r]
  BY <1>3
<1> HIDE DEF r
<1>6. req'[h] = r
  BY <1>1, <1>4, <1>5, OtherRequests
<1>7. RequestInv(h)'
  BY <1>1, <1>3, <1>4, <1>6 DEF RequestInv
<1>8. ASSUME NEW g \in Requests \ {h}  PROVE PairInv(h, g)'
  BY <1>1, <1>4, <1>6 DEF PairInv
<1>9. crashes' \in crashes .. MaxCrashes
  BY <1>1 DEF IngestionInv, TypeOK
<1> QED
  BY <1>1, <1>4, <1>5, <1>7, <1>8, <1>9, RequestStep

LEMMA InsertCustomerStep ==
  ASSUME IngestionInv, NEW h \in Requests, InsertCustomer(h)
  PROVE  IngestionInv'
<1> DEFINE c == req[h].customer
           r == [req[h] EXCEPT !.at = "located", !.new = c]
<1>1. /\ req[h].at = "absent" /\ req[h].key \in AllKeys /\ c = CustomerOf[req[h].key]
      /\ UNCHANGED <<cases, customers, answers, queued, crashes>>
      /\ \A g \in Requests : req[g].new # None => ~SameStub(c, req[g].new)
  BY DEF InsertCustomer, IngestionInv, RequestInv
<1>2. c \in Customers /\ c # None /\ crashes' \in crashes .. MaxCrashes
  BY <1>1, IngestionAssumption DEF IngestionInv, TypeOK
<1>3. CASE \E d \in customers : SameStub(c, d)
  BY <1>1, <1>2, <1>3, EndStep DEF InsertCustomer
<1>4. CASE ~\E d \in customers : SameStub(c, d)
  <2>1. req' = [req EXCEPT ![h] = r]
    BY <1>4 DEF InsertCustomer
  <2>2. /\ r \in RequestTypes /\ r.at = "located" /\ r.key = req[h].key
        /\ r.customer = c /\ r.new = c
    BY RequestHolds
  <2> HIDE DEF r
  <2>3. req'[h] = r /\ \A g \in Requests \ {h} : req'[g] = req[g]
    BY <1>1, <2>1, <2>2, OtherRequests
  <2>4. RequestInv(h)'
    BY <1>1, <1>2, <1>4, <2>2, <2>3 DEF RequestInv, SameStub
  <2>5. ASSUME NEW g \in Requests \ {h}  PROVE PairInv(h, g)'
    BY <1>1, <2>2, <2>3 DEF PairInv, SameStub
  <2> QED
    BY <1>1, <1>2, <2>1, <2>2, <2>4, <2>5, RequestStep
<1> QED
  BY <1>3, <1>4

LEMMA InsertCaseStep ==
  ASSUME IngestionInv, NEW h \in Requests, InsertCase(h)
  PROVE  IngestionInv'
<1> DEFINE r == [req[h] EXCEPT !.at = "inserted"]
<1>1. /\ req[h].at = "located" /\ req[h].key \in AllKeys
      /\ UNCHANGED <<cases, customers, answers, queued, crashes>>
      /\ \A g \in Requests : req[g].at = "inserted" => req[g].key # req[h].key
  BY DEF InsertCase, IngestionInv, RequestInv
<1>2. crashes' \in crashes .. MaxCrashes
  BY <1>1 DEF IngestionInv, TypeOK
<1>3. CASE cases[req[h].key].count > 0
  BY <1>1, <1>2, <1>3, EndStep DEF InsertCase
<1>4. CASE ~(cases[req[h].key].count > 0)
  <2>1. req' = [req EXCEPT ![h] = r]
    BY <1>4 DEF InsertCase
  <2>2. /\ r \in RequestTypes /\ r.at = "inserted" /\ r.key = req[h].key
        /\ r.customer = req[h].customer /\ r.new = req[h].new
    BY RequestMoves
  <2>3. cases[req[h].key].count = 0
    BY <1>1, <1>4 DEF IngestionInv, TypeOK
  <2> HIDE DEF r
  <2>4. req'[h] = r /\ \A g \in Requests \ {h} : req'[g] = req[g]
    BY <1>1, <2>1, <2>2, OtherRequests
  <2>5. RequestInv(h)'
    BY <1>1, <2>2, <2>3, <2>4 DEF IngestionInv, RequestInv
  <2>6. ASSUME NEW g \in Requests \ {h}  PROVE PairInv(h, g)'
    <3>1. req[h].new # None /\ req[g].new # None => ~SameStub(req[h].new, req[g].new)
      BY DEF IngestionInv, PairInv
    <3> QED
      BY <1>1, <2>2, <2>4, <3>1 DEF PairInv
  <2> QED
    BY <1>1, <1>2, <2>1, <2>2, <2>5, <2>6, RequestStep
<1> QED
  BY <1>3, <1>4

LEMMA CrashStep ==
  ASSUME IngestionInv, NEW h \in Requests, Crash(h)
  PROVE  IngestionInv'
<1>1. crashes' \in crashes .. MaxCrashes /\ crashes' > 0
  BY IngestionAssumption DEF Crash, IngestionInv, TypeOK
<1> QED
  BY <1>1, EndStep DEF Crash

-----------------------------------------------------------------------------
(* The steps that commit rows or answer.                                    *)

\* A commit stores the case of request h and the stub it holds.
LEMMA CommitStep ==
  ASSUME IngestionInv, NEW h \in Requests, NEW n \in {0, 1}, NEW r \in RequestTypes,
         req[h].at = "inserted",
         cases' \in [AllKeys -> CaseTypes],
         /\ cases'[req[h].key].count = 1 /\ cases'[req[h].key].runs = n
         /\ cases'[req[h].key].customer = req[h].customer,
         \A k \in AllKeys \ {req[h].key} : cases'[k] = cases[k],
         customers' = customers \union ({req[h].new} \ {None}),
         req' = [req EXCEPT ![h] = r],
         r.at = IF n = 0 THEN "created" ELSE "started",
         r.key = req[h].key /\ r.new = None,
         UNCHANGED <<answers, queued, crashes>>
  PROVE  IngestionInv'
<1> DEFINE k0 == req[h].key
           old == req[h]
<1>1. /\ k0 \in AllKeys /\ cases[k0].count = 0
      /\ old.customer \in customers \/ (old.customer = old.new /\ old.new # None)
      /\ SameStub(old.customer, CustomerOf[k0])
      /\ old.new # None => \A d \in customers : ~SameStub(d, old.new)
  BY DEF IngestionInv, RequestInv
<1>2. TypeOK /\ req \in [Requests -> RequestTypes] /\ old \in RequestTypes
  BY Typing DEF IngestionInv
<1>3. /\ req' \in [Requests -> RequestTypes]
      /\ req'[h] = r /\ \A g \in Requests \ {h} : req'[g] = req[g]
  BY <1>2
<1>4. customers' \subseteq Customers
  BY <1>2 DEF TypeOK, RequestTypes
<1>5. TypeOK'
  BY <1>2, <1>3, <1>4 DEF TypeOK, RequestTypes, CaseTypes
<1>6. OneCasePerKey'
  BY DEF IngestionInv, OneCasePerKey
<1>7. AnswersAreTrue'
  <2>1. answers[k0] = {}
    BY <1>1 DEF IngestionInv, AnswersAreTrue
  <2> QED
    BY <2>1 DEF IngestionInv, AnswersAreTrue
<1>8. CasesHaveTheirCustomer'
  <2>1. ASSUME NEW k \in AllKeys, cases'[k].count > 0
        PROVE  cases'[k].customer \in customers' /\ SameStub(cases'[k].customer, CustomerOf[k])
    <3>1. CASE k = k0
      BY <1>1, <3>1
    <3>2. CASE k # k0
      BY <2>1, <3>2 DEF IngestionInv, CasesHaveTheirCustomer
    <3> QED
      BY <3>1, <3>2
  <2>2. ASSUME NEW c \in customers', NEW d \in customers', c # d
        PROVE  EmailHash[c] # EmailHash[d]
    <3>1. CASE c \in customers /\ d \in customers
      BY <2>2, <3>1 DEF IngestionInv, CasesHaveTheirCustomer
    <3>2. CASE c \notin customers
      BY <1>1, <2>2, <3>2 DEF SameStub
    <3>3. CASE d \notin customers
      BY <1>1, <2>2, <3>3 DEF SameStub
    <3> QED
      BY <3>1, <3>2, <3>3
  <2> QED
    BY <2>1, <2>2 DEF CasesHaveTheirCustomer
<1>9. IdleCaseMeansCrash'
  <2> SUFFICES ASSUME NEW k \in AllKeys, cases'[k].count > 0, cases'[k].runs = 0,
                      ~\E g \in Requests : req'[g].key = k /\ req'[g].at = "created"
               PROVE  crashes > 0
    BY DEF IdleCaseMeansCrash
  <2>1. k # k0
    BY <1>3
  <2>2. ~\E g \in Requests : req[g].key = k /\ req[g].at = "created"
    BY <1>3, <2>1
  <2> QED
    BY <2>1, <2>2 DEF IngestionInv, IdleCaseMeansCrash
<1>10. ASSUME NEW g \in Requests  PROVE RequestInv(g)'
  <2>1. CASE g = h
    BY <1>1, <1>3, <2>1 DEF RequestInv
  <2>2. CASE g # h
    <3>1. RequestInv(g) /\ PairInv(g, h)
      BY <2>2 DEF IngestionInv
    <3>2. req[g].at \in {"created", "started", "inserted"} => req[g].key # k0
      BY <1>1, <3>1 DEF RequestInv, PairInv
    <3>3. req[g].new # None => \A d \in customers' : ~SameStub(d, req[g].new)
      BY <3>1 DEF RequestInv, PairInv, SameStub
    <3> QED
      BY <1>3, <2>2, <3>1, <3>2, <3>3 DEF RequestInv
  <2> QED
    BY <2>1, <2>2
<1>11. ASSUME NEW f \in Requests, NEW g \in Requests, f # g  PROVE PairInv(f, g)'
  <2>1. PairInv(f, g) /\ RequestInv(f) /\ RequestInv(g)
    BY <1>11 DEF IngestionInv
  <2>2. CASE f = h
    BY <1>1, <1>3, <1>11, <2>1, <2>2 DEF PairInv, RequestInv
  <2>3. CASE g = h
    BY <1>1, <1>3, <1>11, <2>1, <2>3 DEF PairInv, RequestInv
  <2>4. CASE f # h /\ g # h
    BY <1>3, <2>1, <2>4 DEF PairInv
  <2> QED
    BY <2>2, <2>3, <2>4
<1> QED
  BY <1>5, <1>6, <1>7, <1>8, <1>9, <1>10, <1>11 DEF IngestionInv

\* What both commits of an inserted case do to its row and to the request.
LEMMA CommitCaseStep ==
  ASSUME IngestionInv, NEW h \in Requests, CommitCase(h)
  PROVE  IngestionInv'
<1> DEFINE k0 == req[h].key
           r == [req[h] EXCEPT !.at = "created", !.new = None]
<1>1. /\ req[h].at = "inserted" /\ Stored(h)
      /\ req' = [req EXCEPT ![h] = r] /\ UNCHANGED <<answers, queued, crashes>>
  BY DEF CommitCase
<1>2. /\ k0 \in AllKeys /\ cases[k0].count = 0 /\ cases[k0].runs = 0
      /\ cases \in [AllKeys -> CaseTypes] /\ req[h] \in RequestTypes
  <2>1. k0 \in AllKeys /\ cases[k0].count = 0
    BY <1>1 DEF IngestionInv, RequestInv
  <2>2. cases \in [AllKeys -> CaseTypes] /\ req[h] \in RequestTypes
    BY Typing DEF IngestionInv, TypeOK, CaseTypes
  <2>3. cases[k0].runs \in Nat /\ cases[k0].runs <= cases[k0].count
    BY <2>1, <2>2 DEF IngestionInv, OneCasePerKey, CaseTypes
  <2> QED
    BY <2>1, <2>2, <2>3
<1>3. r \in RequestTypes
  BY <1>2, ZenonT(30) DEF RequestTypes
<1>4. r.at = "created" /\ r.key = k0 /\ r.new = None
  BY <1>2 DEF RequestTypes
<1>5. cases' \in [AllKeys -> CaseTypes]
  <2>1. cases[k0].count + 1 \in Nat /\ req[h].customer \in Customers \union {None}
    BY <1>2 DEF RequestTypes, CaseTypes
  <2>2. cases' = [cases EXCEPT ![k0].count = @ + 1, ![k0].customer = req[h].customer]
    BY <1>1 DEF Stored
  <2> QED
    BY <1>2, <2>1, <2>2, ZenonT(30) DEF CaseTypes
<1>6. /\ cases'[k0].count = 1 /\ cases'[k0].runs = 0 /\ cases'[k0].customer = req[h].customer
      /\ \A k \in AllKeys \ {k0} : cases'[k] = cases[k]
      /\ customers' = customers \union ({req[h].new} \ {None})
  <2>1. customers' = customers \union ({req[h].new} \ {None})
    BY <1>1 DEF Stored
  <2>2. cases' = [cases EXCEPT ![k0].count = @ + 1, ![k0].customer = req[h].customer]
    BY <1>1 DEF Stored
  <2> HIDE DEF k0
  <2>3. \A k \in AllKeys \ {k0} : cases'[k] = cases[k]
    BY <1>2, <2>2
  <2>4. cases'[k0] = [cases[k0] EXCEPT !.count = @ + 1, !.customer = req[h].customer]
    BY <1>2, <2>2
  <2>5. cases[k0] \in CaseTypes /\ cases[k0].count + 1 = 1
    BY <1>2
  <2>6. cases'[k0].count = 1 /\ cases'[k0].runs = 0 /\ cases'[k0].customer = req[h].customer
    BY <1>2, <2>4, <2>5 DEF CaseTypes
  <2> QED
    BY <2>1, <2>3, <2>6
<1> HIDE DEF r
<1> QED
  BY <1>1, <1>3, <1>4, <1>5, <1>6, CommitStep

LEMMA StartDemoStep ==
  ASSUME IngestionInv, NEW h \in Requests, StartDemo(h)
  PROVE  IngestionInv'
<1> DEFINE k0 == req[h].key
           r == [req[h] EXCEPT !.at = "started", !.new = None]
           stored == [count |-> cases[k0].count + 1, customer |-> req[h].customer,
                      runs |-> cases[k0].runs + 1]
<1>1. /\ req[h].at = "inserted"
      /\ cases' = [cases EXCEPT ![k0] = stored]
      /\ customers' = customers \union ({req[h].new} \ {None})
      /\ req' = [req EXCEPT ![h] = r] /\ UNCHANGED <<answers, queued, crashes>>
  BY DEF StartDemo
<1>2. /\ k0 \in AllKeys /\ cases[k0].count = 0 /\ cases[k0].runs = 0
      /\ cases \in [AllKeys -> CaseTypes] /\ req[h] \in RequestTypes
  <2>1. k0 \in AllKeys /\ cases[k0].count = 0
    BY <1>1 DEF IngestionInv, RequestInv
  <2>2. cases \in [AllKeys -> CaseTypes] /\ req[h] \in RequestTypes
    BY Typing DEF IngestionInv, TypeOK, CaseTypes
  <2>3. cases[k0].runs \in Nat /\ cases[k0].runs <= cases[k0].count
    BY <2>1, <2>2 DEF IngestionInv, OneCasePerKey, CaseTypes
  <2> QED
    BY <2>1, <2>2, <2>3
<1>3. r \in RequestTypes
  BY <1>2, ZenonT(30) DEF RequestTypes
<1>4. r.at = "started" /\ r.key = k0 /\ r.new = None
  BY <1>2 DEF RequestTypes
<1>5. stored \in CaseTypes /\ stored.count = 1 /\ stored.runs = 1
      /\ stored.customer = req[h].customer
  BY <1>2 DEF RequestTypes, CaseTypes
<1> HIDE DEF r, stored
<1>6. /\ cases' \in [AllKeys -> CaseTypes] /\ cases'[k0] = stored
      /\ \A k \in AllKeys \ {k0} : cases'[k] = cases[k]
  BY <1>1, <1>2, <1>5
<1>7. /\ cases'[k0].count = 1 /\ cases'[k0].runs = 1
      /\ cases'[k0].customer = req[h].customer
  BY <1>5, <1>6
<1>8. r.at = IF 1 = 0 THEN "created" ELSE "started"
  BY <1>4
<1> QED
  BY <1>1, <1>3, <1>4, <1>6, <1>7, <1>8, CommitStep

LEMMA StartRunStep ==
  ASSUME IngestionInv, NEW h \in Requests, StartRun(h)
  PROVE  IngestionInv'
<1> DEFINE k0 == req[h].key
           r == [req[h] EXCEPT !.at = "started"]
<1>1. /\ req[h].at = "created" /\ req' = [req EXCEPT ![h] = r]
      /\ cases' = [cases EXCEPT ![k0].runs = @ + 1]
      /\ UNCHANGED <<customers, answers, queued, crashes>>
  BY DEF StartRun
<1>2. /\ k0 \in AllKeys /\ cases[k0].count = 1 /\ cases[k0].runs = 0
      /\ cases \in [AllKeys -> CaseTypes] /\ req[h].new = None
      /\ req \in [Requests -> RequestTypes] /\ TypeOK
  BY <1>1, Typing DEF IngestionInv, RequestInv, TypeOK, CaseTypes
<1>3. /\ r \in RequestTypes /\ r.at = "started" /\ r.key = k0
      /\ r.customer = req[h].customer /\ r.new = None
  BY <1>2, RequestMoves
<1> HIDE DEF r
<1>4. /\ req' \in [Requests -> RequestTypes]
      /\ req'[h] = r /\ \A g \in Requests \ {h} : req'[g] = req[g]
  BY <1>1, <1>2, <1>3
<1>5. /\ cases' \in [AllKeys -> CaseTypes]
      /\ cases'[k0].count = 1 /\ cases'[k0].runs = 1
      /\ cases'[k0].customer = cases[k0].customer
      /\ \A k \in AllKeys \ {k0} : cases'[k] = cases[k]
  BY <1>1, <1>2 DEF CaseTypes
<1>6. TypeOK'
  BY <1>1, <1>2, <1>4, <1>5 DEF TypeOK, RequestTypes, CaseTypes
<1>7. OneCasePerKey' /\ CasesHaveTheirCustomer'
  BY <1>1, <1>2, <1>5 DEF IngestionInv, OneCasePerKey, CasesHaveTheirCustomer
<1>8. AnswersAreTrue'
  BY <1>1, <1>2, <1>5 DEF IngestionInv, AnswersAreTrue
<1>9. IdleCaseMeansCrash'
  BY <1>1, <1>2, <1>4, <1>5 DEF IngestionInv, IdleCaseMeansCrash
<1>10. ASSUME NEW g \in Requests  PROVE RequestInv(g)'
  <2>1. CASE g = h
    BY <1>2, <1>3, <1>4, <1>5, <2>1 DEF RequestInv
  <2>2. CASE g # h
    <3>1. RequestInv(g) /\ PairInv(g, h)
      BY <2>2 DEF IngestionInv
    <3>2. req[g].at \in {"inserted", "created", "started"} =>
            req[g].key # k0 \/ req[g].at = "started"
      BY <1>1, <1>2, <3>1 DEF RequestInv, PairInv
    <3> QED
      BY <1>1, <1>2, <1>4, <1>5, <2>2, <3>1, <3>2 DEF RequestInv
  <2> QED
    BY <2>1, <2>2
<1>11. ASSUME NEW f \in Requests, NEW g \in Requests, f # g  PROVE PairInv(f, g)'
  BY <1>3, <1>4, <1>11 DEF IngestionInv, PairInv
<1> QED
  BY <1>6, <1>7, <1>8, <1>9, <1>10, <1>11 DEF IngestionInv

LEMMA AcceptStep ==
  ASSUME IngestionInv, NEW h \in Requests, Accept(h)
  PROVE  IngestionInv'
<1> DEFINE k0 == req[h].key
<1>1. /\ req[h].at = "started" /\ req' = [req EXCEPT ![h] = Idle]
      /\ queued' = queued \union {k0}
      /\ answers' = [answers EXCEPT ![k0] = @ \union {"ACCEPTED"}]
      /\ UNCHANGED <<cases, customers, crashes>>
  BY DEF Accept, Ends
<1>2. /\ k0 \in AllKeys /\ cases[k0].count = 1 /\ cases[k0].runs = 1 /\ TypeOK
  BY <1>1 DEF IngestionInv, RequestInv
<1>3. Idle \in RequestTypes /\ Idle.at = "idle" /\ Idle.new = None
  BY DEF Idle, RequestTypes
<1>4. /\ req' \in [Requests -> RequestTypes]
      /\ req'[h] = Idle /\ \A g \in Requests \ {h} : req'[g] = req[g]
      /\ \A g \in Requests \ {h} : RequestInv(g)'
      /\ \A f, g \in Requests \ {h} : f # g => PairInv(f, g)'
  BY <1>1, <1>3, OtherRequests
<1>5. TypeOK'
  BY <1>1, <1>2, <1>4 DEF TypeOK, RequestTypes
<1>6. OneCasePerKey' /\ CasesHaveTheirCustomer'
  BY <1>1 DEF IngestionInv, OneCasePerKey, CasesHaveTheirCustomer
<1>7. AnswersAreTrue'
  BY <1>1, <1>2 DEF IngestionInv, AnswersAreTrue, TypeOK
<1>8. IdleCaseMeansCrash'
  BY <1>1, <1>2, <1>4 DEF IngestionInv, IdleCaseMeansCrash
<1>9. RequestInv(h)' /\ \A g \in Requests \ {h} : PairInv(h, g)' /\ PairInv(g, h)'
  BY <1>3, <1>4 DEF RequestInv, PairInv
<1> QED
  BY <1>4, <1>5, <1>6, <1>7, <1>8, <1>9 DEF IngestionInv

LEMMA NextInv == IngestionInv /\ [Next]_vars => IngestionInv'
<1> SUFFICES ASSUME IngestionInv, [Next]_vars  PROVE IngestionInv'
  OBVIOUS
<1>1. CASE UNCHANGED vars
  BY <1>1 DEF vars, IngestionInv, TypeOK, OneCasePerKey, AnswersAreTrue,
              CasesHaveTheirCustomer, IdleCaseMeansCrash, RequestInv, PairInv
<1>2. CASE Next
  <2>1. ASSUME NEW h \in Requests, Proceed(h)  PROVE IngestionInv'
    BY <2>1, FindCustomerStep, InsertCustomerStep, InsertCaseStep, CommitCaseStep,
       StartRunStep, StartDemoStep, AcceptStep DEF Proceed
  <2> QED
    BY <1>2, <2>1, DuplicateStep, CheckStep, CrashStep DEF Next
<1> QED
  BY <1>1, <1>2

-----------------------------------------------------------------------------
(* The theorems.                                                            *)

\* Every state of the ingestion satisfies the inductive invariant.
THEOREM IngestionInvariance == Spec => []IngestionInv
BY InitInv, NextInv, PTL DEF Spec

\* Rows, requests and answers keep their types.
THEOREM IngestionTypes == Spec => []TypeOK
<1>1. IngestionInv => TypeOK
  BY DEF IngestionInv
<1> QED
  BY <1>1, IngestionInvariance, PTL

\* events.py: an event makes one case and starts one run, however often it is sent.
THEOREM NoDoubleProcessing == Spec => []OneCasePerKey
<1>1. IngestionInv => OneCasePerKey
  BY DEF IngestionInv
<1> QED
  BY <1>1, IngestionInvariance, PTL

\* events.py: what a caller is answered is true.
THEOREM TrueAnswers == Spec => []AnswersAreTrue
<1>1. IngestionInv => AnswersAreTrue
  BY DEF IngestionInv
<1> QED
  BY <1>1, IngestionInvariance, PTL

\* _get_or_create_customer_id: every case has a stored customer, one per email hash.
THEOREM CustomersAreStored == Spec => []CasesHaveTheirCustomer
<1>1. IngestionInv => CasesHaveTheirCustomer
  BY DEF IngestionInv
<1> QED
  BY <1>1, IngestionInvariance, PTL

\* events.py, dispatch_agent_run: only a crash leaves a case without a run.
THEOREM IdleOnlyAfterCrash == Spec => []IdleCaseMeansCrash
<1>1. IngestionInv => IdleCaseMeansCrash
  BY DEF IngestionInv
<1> QED
  BY <1>1, IngestionInvariance, PTL

=============================================================================
