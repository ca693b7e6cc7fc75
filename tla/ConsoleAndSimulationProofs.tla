----------------------- MODULE ConsoleAndSimulationProofs -----------------------
(***************************************************************************)
(* Theorems about the two pages of the browser, and about the experiments   *)
(* that are started from one of them.                                       *)
(*                                                                         *)
(* The pages: any number of cases, of checkouts and of calls, whose answers *)
(* arrive in any order.  Each part has an invariant of its own that says    *)
(* what a call under way knows: a checkout the case of its order, a load of *)
(* the list that what it read is not older than what is shown, a trail the  *)
(* case that is selected; the list and the trail as long as no other call   *)
(* can have come between.                                                   *)
(*                                                                         *)
(* The experiments: any batch, any agent and any number of executions of    *)
(* one run.  SimulationInv says what an execution's session and its open    *)
(* transaction hold, against the committed row: what the loop has counted   *)
(* is the part of the result that lies before the next event, and a result  *)
(* that the row had when it was found is still there at the commit.         *)
(***************************************************************************)
EXTENDS MCConsole, BatchSimulation, FiniteSetTheorems, WellFoundedInduction, TLAPS

-----------------------------------------------------------------------------
(* The invariants of the pages.                                             *)

Pages ==
  [case : Cases \union {NoCase}, generating : BOOLEAN,
   state : {"READY", "CREATING_ORDER", "CHECKOUT_OPEN", "VERIFYING", "VERIFIED",
            "DISMISSED", "ERROR"}]

Calls ==
  [at : {"unused", "ordering", "loading", "open", "verifying", "ended"},
   case : Cases \union {NoCase}, order : Cases \union {NoCase},
   answer : {"none", "recovered", "uncaptured", "refused"}]

\* A call of startCheckout, when the server has recovered the cases in done.
CallOK(c, done) ==
  /\ c.at = "unused" => c.case = NoCase /\ c.order = NoCase /\ c.answer = "none"
  /\ c.at # "unused" => c.case \in Cases
  /\ c.at \in {"loading", "open", "verifying"} => c.order = c.case
  /\ c.answer # "none" => c.at = "ended"
  /\ c.answer = "recovered" => c.order \in done

Accepted == \E k \in Checkouts : checkouts[k].answer \in {"recovered", "uncaptured"}

\* Until a generation interferes the state of the page tells of the one checkout there is.
OneCheckout ==
  ~overtaken =>
    /\ \A j, k \in At({"ordering", "loading", "open", "verifying"}) : j = k
    /\ Running # {} => page.state \in {"CREATING_ORDER", "VERIFYING"}

CheckoutInv ==
  /\ page \in Pages /\ recovered \subseteq Cases /\ overtaken \in BOOLEAN
  /\ checkouts \in [Checkouts -> Calls]
  /\ \A k \in Checkouts : CallOK(checkouts[k], recovered)
  /\ page.state = "VERIFIED" => Accepted
  /\ OneCheckout

LoadCalls ==
  [at : {"asked", "answered", "ended"}, by : {"mount", "button", "timer"}, version : Nat]

ByTimer == \E k \in 1 .. Len(loads) : loads[k].by = "timer"

\* The list is as old as some answer; without a timer the page waits for the one call there is.
ListInv ==
  /\ version \in Nat /\ list \in [shown : Nat, loading : BOOLEAN] /\ loads \in Seq(LoadCalls)
  /\ list.shown <= version
  /\ \A k \in 1 .. Len(loads) : loads[k].version <= version
  /\ ByTimer \/ \A k \in Open(loads) :
                  /\ list.loading
                  /\ \A j \in Open(loads) : j = k
                  /\ loads[k].at = "answered" => list.shown <= loads[k].version

TrailCalls == [at : {"asked", "ended"}, case : Listed]

\* Until two calls cross, the one under way asks about the selected case.
PanelInv ==
  /\ panel \in [selected : Listed \union {Nothing}, trail : Listed \union {Nothing},
                loading : BOOLEAN]
  /\ trails \in Seq(TrailCalls) /\ crossed \in BOOLEAN
  /\ ~crossed => /\ \A k \in Open(trails) : trails[k].case = panel.selected
                 /\ panel.loading \/ panel.trail \in {panel.selected, Nothing}

LabInv ==
  lab \in [running : BOOLEAN, runs : Nat, result : Nat] /\ ResultIsOfLastRun

ConsoleInv == CheckoutInv /\ ListInv /\ PanelInv /\ LabInv

-----------------------------------------------------------------------------
(* The checkout page.                                                       *)

\* A step that changes one call, and can only add to what the server has recovered.
LEMMA CallStep ==
  ASSUME CheckoutInv, NEW k \in Checkouts, NEW c \in Calls,
         checkouts' = [checkouts EXCEPT ![k] = c],
         recovered \subseteq recovered', CallOK(c, recovered'), checkouts[k].answer = "none"
  PROVE  /\ checkouts' \in [Checkouts -> Calls]
         /\ \A j \in Checkouts : CallOK(checkouts'[j], recovered')
         /\ checkouts'[k] = c /\ \A j \in Checkouts \ {k} : checkouts'[j] = checkouts[j]
         /\ Accepted => Accepted'
<1>1. checkouts \in [Checkouts -> Calls] /\ \A j \in Checkouts : CallOK(checkouts[j], recovered)
  BY DEF CheckoutInv
<1>2. checkouts' \in [Checkouts -> Calls] /\ checkouts'[k] = c
      /\ \A j \in Checkouts \ {k} : checkouts'[j] = checkouts[j]
  BY <1>1
<1>3. \A j \in Checkouts : CallOK(checkouts'[j], recovered')
  BY <1>1, <1>2 DEF CallOK
<1>4. Accepted => Accepted'
  BY <1>2 DEF Accepted
<1> QED
  BY <1>2, <1>3, <1>4

\* The page's own steps leave the calls alone.
LEMMA PageStep ==
  ASSUME CheckoutInv, GenerateCase \/ CaseGenerated \/ EnterCase
  PROVE  CheckoutInv'
<1>1. page \in Pages /\ overtaken \in BOOLEAN
  BY DEF CheckoutInv
<1>2. UNCHANGED <<checkouts, recovered>>
  BY DEF GenerateCase, CaseGenerated, EnterCase
<1>3. page' \in Pages /\ overtaken' \in BOOLEAN /\ (page'.state = "VERIFIED" => page.state = "VERIFIED")
  <2>1. CASE GenerateCase
    BY <1>1, <2>1 DEF GenerateCase, Pages
  <2>2. CASE EnterCase
    BY <1>1, <2>2 DEF EnterCase, Pages
  <2>3. CASE CaseGenerated
    <3>1. CASE \E c \in Cases : page' = [case |-> c, generating |-> FALSE, state |-> "READY"]
      BY <1>1, <2>3, <3>1 DEF CaseGenerated, Pages
    <3>2. CASE page' = [page EXCEPT !.generating = FALSE, !.state = "ERROR"]
      BY <1>1, <2>3, <3>2 DEF CaseGenerated, Pages
    <3> QED
      BY <2>3, <3>1, <3>2 DEF CaseGenerated
  <2> QED
    BY <2>1, <2>2, <2>3
<1>4. OneCheckout'
  <2>1. Running' = Running /\ \A places : At(places)' = At(places)
    BY <1>2 DEF Running, At
  <2>2. CASE CaseGenerated
    BY <2>1, <2>2 DEF CaseGenerated, CheckoutInv, OneCheckout
  <2>3. CASE GenerateCase \/ EnterCase
    <3>1. page'.state = page.state /\ overtaken' = overtaken
      BY <1>1, <2>3 DEF GenerateCase, EnterCase, Pages
    <3> QED
      BY <2>1, <3>1 DEF CheckoutInv, OneCheckout
  <2> QED
    BY <2>2, <2>3
<1> QED
  BY <1>2, <1>3, <1>4 DEF CheckoutInv, Accepted

\* The button is usable only when no checkout is under way, until a generation interferes.
LEMMA StartStep ==
  ASSUME CheckoutInv, StartCheckout
  PROVE  CheckoutInv'
<1>1. page \in Pages /\ checkouts \in [Checkouts -> Calls]
  BY DEF CheckoutInv
<1>2. UNCHANGED <<recovered, overtaken>>
  BY DEF StartCheckout
<1>3. ~overtaken => At({"ordering", "loading", "open", "verifying"}) = {}
  BY DEF CheckoutInv, OneCheckout, StartCheckout, Usable, Running, At
<1>4. CASE page.case = NoCase
  <2>1. page' = [page EXCEPT !.state = "ERROR"] /\ checkouts' = checkouts
    BY <1>4 DEF StartCheckout
  <2>2. page' \in Pages /\ page'.state = "ERROR"
    BY <1>1, <2>1 DEF Pages
  <2>3. OneCheckout'
    BY <1>2, <1>3, <2>1 DEF OneCheckout, Running, At
  <2> QED
    BY <1>2, <2>1, <2>2, <2>3 DEF CheckoutInv
<1>5. CASE page.case # NoCase
  <2>1. PICK k \in At({"unused"}) :
          checkouts' = [checkouts EXCEPT ![k].at = "ordering", ![k].case = page.case]
    BY <1>5 DEF StartCheckout
  <2> DEFINE c == [checkouts[k] EXCEPT !.at = "ordering", !.case = page.case]
  <2>2. /\ k \in Checkouts /\ checkouts[k] \in Calls /\ checkouts[k].at = "unused"
        /\ CallOK(checkouts[k], recovered) /\ page.case \in Cases
    BY <1>1, <1>5 DEF At, CheckoutInv, Pages
  <2>3. /\ c \in Calls /\ c.at = "ordering" /\ c.case = page.case /\ c.order = NoCase
        /\ c.answer = "none" /\ checkouts[k].answer = "none"
    BY <2>2 DEF Calls, CallOK
  <2>4. checkouts' = [checkouts EXCEPT ![k] = c]
    BY <1>1, <2>1, <2>2 DEF Calls
  <2> HIDE DEF c
  <2>5. CallOK(c, recovered')
    BY <2>2, <2>3 DEF CallOK
  <2>6. /\ checkouts' \in [Checkouts -> Calls]
        /\ \A j \in Checkouts : CallOK(checkouts'[j], recovered')
        /\ checkouts'[k] = c /\ \A j \in Checkouts \ {k} : checkouts'[j] = checkouts[j]
    BY <1>2, <2>2, <2>3, <2>4, <2>5, CallStep
  <2>7. page' \in Pages /\ page'.state = "CREATING_ORDER"
    BY <1>1, <1>5 DEF StartCheckout, Pages
  <2>8. OneCheckout'
    BY <1>2, <1>3, <2>6, <2>7 DEF OneCheckout, Running, At
  <2> QED
    BY <1>2, <2>6, <2>7, <2>8 DEF CheckoutInv
<1> QED
  BY <1>4, <1>5

\* The steps of a checkout under way, up to the answer of /verify.
LEMMA CheckoutStep ==
  ASSUME CheckoutInv, NEW k \in Checkouts,
         OrderCreated(k) \/ CheckoutFails(k) \/ OpenWindow(k) \/ Dismiss(k) \/ Pay(k)
  PROVE  CheckoutInv'
<1>1. /\ page \in Pages /\ checkouts \in [Checkouts -> Calls]
      /\ checkouts[k] \in Calls /\ CallOK(checkouts[k], recovered)
  BY DEF CheckoutInv
<1>2. UNCHANGED <<recovered, overtaken>>
  BY DEF OrderCreated, CheckoutFails, OpenWindow, Dismiss, Pay
<1>3. /\ checkouts[k].at \in {"ordering", "loading", "open"} /\ checkouts[k].answer = "none"
      /\ checkouts[k].case \in Cases
  BY <1>1 DEF OrderCreated, CheckoutFails, OpenWindow, Dismiss, Pay, CallOK
<1>4. PICK c \in Calls :
        /\ checkouts' = [checkouts EXCEPT ![k] = c]
        /\ c.case = checkouts[k].case /\ c.answer = "none"
        /\ \/ c.at = "loading" /\ c.order = c.case /\ checkouts[k].at = "ordering" /\ page' = page
           \/ /\ c.at \in {"open", "verifying", "ended"} /\ c.order = checkouts[k].order
              /\ c.at = "open" => checkouts[k].at = "loading"
              /\ c.at = "verifying" => checkouts[k].at = "open"
              /\ page' \in Pages /\ page'.state # "VERIFIED"
              /\ c.at = "verifying" => page'.state = "VERIFYING"
  <2>1. CASE OrderCreated(k)
    <3> DEFINE c == [checkouts[k] EXCEPT !.at = "loading", !.order = checkouts[k].case]
    <3>1. c \in Calls /\ checkouts' = [checkouts EXCEPT ![k] = c]
      BY <1>1, <2>1 DEF OrderCreated, Calls
    <3>2. /\ c.at = "loading" /\ c.order = c.case /\ c.case = checkouts[k].case
          /\ c.answer = checkouts[k].answer
      BY <1>1 DEF Calls
    <3> QED
      BY <1>3, <2>1, <3>1, <3>2 DEF OrderCreated
  <2>2. CASE CheckoutFails(k) \/ OpenWindow(k) \/ Dismiss(k) \/ Pay(k)
    <3>1. PICK at \in {"open", "verifying", "ended"} :
            /\ checkouts' = [checkouts EXCEPT ![k].at = at]
            /\ at = "open" => checkouts[k].at = "loading"
            /\ at = "verifying" => checkouts[k].at = "open"
            /\ page' \in Pages /\ page'.state # "VERIFIED"
            /\ at = "verifying" => page'.state = "VERIFYING"
      BY <1>1, <2>2 DEF CheckoutFails, OpenWindow, Dismiss, Pay, Pages
    <3> DEFINE c == [checkouts[k] EXCEPT !.at = at]
    <3>2. c \in Calls /\ checkouts' = [checkouts EXCEPT ![k] = c]
      BY <1>1, <3>1 DEF Calls
    <3>3. /\ c.at = at /\ c.order = checkouts[k].order /\ c.case = checkouts[k].case
          /\ c.answer = checkouts[k].answer
      BY <1>1 DEF Calls
    <3> QED
      BY <1>3, <3>1, <3>2, <3>3
  <2> QED
    BY <2>1, <2>2
<1>5. CallOK(c, recovered')
  BY <1>1, <1>2, <1>3, <1>4 DEF CallOK
<1>6. /\ checkouts' \in [Checkouts -> Calls]
      /\ \A j \in Checkouts : CallOK(checkouts'[j], recovered')
      /\ checkouts'[k] = c /\ \A j \in Checkouts \ {k} : checkouts'[j] = checkouts[j]
      /\ Accepted => Accepted'
  BY <1>2, <1>3, <1>4, <1>5, CallStep
<1>7. page' \in Pages /\ (page'.state = "VERIFIED" => page.state = "VERIFIED")
  BY <1>1, <1>4
<1>8. OneCheckout'
  <2> SUFFICES ASSUME ~overtaken
               PROVE  /\ \A i, j \in At({"ordering", "loading", "open", "verifying"})' : i = j
                      /\ Running' # {} => page'.state \in {"CREATING_ORDER", "VERIFYING"}
    BY <1>2 DEF OneCheckout
  <2>1. At({"ordering", "loading", "open", "verifying"}) = {k}
    BY <1>3 DEF CheckoutInv, OneCheckout, At
  <2>2. \A j \in Checkouts \ {k} : checkouts'[j].at \notin {"ordering", "loading", "open", "verifying"}
    BY <1>6, <2>1 DEF At
  <2>3. Running' # {} => c.at \in {"loading", "verifying"}
    BY <1>4, <1>6, <2>2 DEF Running, At
  <2>4. c.at = "loading" => page.state \in {"CREATING_ORDER", "VERIFYING"}
    BY <1>3, <1>4 DEF CheckoutInv, OneCheckout, Running, At
  <2> QED
    BY <1>4, <2>2, <2>3, <2>4 DEF At
<1> QED
  BY <1>2, <1>6, <1>7, <1>8 DEF CheckoutInv

\* The answer of /verify ends the checkout; what it says of the case the server has done.
LEMMA AnswerStep ==
  ASSUME CheckoutInv, NEW k \in Checkouts, VerifyAnswered(k)
  PROVE  CheckoutInv'
<1>1. /\ page \in Pages /\ checkouts \in [Checkouts -> Calls]
      /\ checkouts[k] \in Calls /\ CallOK(checkouts[k], recovered) /\ recovered \subseteq Cases
  BY DEF CheckoutInv
<1>2. checkouts[k].at = "verifying" /\ overtaken' = overtaken
  BY DEF VerifyAnswered
<1>3. PICK a \in {"recovered", "uncaptured", "refused"} :
        /\ checkouts' = [checkouts EXCEPT ![k].at = "ended", ![k].answer = a]
        /\ page' = [page EXCEPT !.state = IF a = "refused" THEN "ERROR" ELSE "VERIFIED"]
        /\ \/ recovered' = recovered \union {checkouts[k].order}
           \/ a # "recovered" /\ UNCHANGED recovered
  BY DEF VerifyAnswered
<1> DEFINE c == [checkouts[k] EXCEPT !.at = "ended", !.answer = a]
<1>4. c \in Calls /\ checkouts' = [checkouts EXCEPT ![k] = c]
  BY <1>1, <1>3 DEF Calls
<1>5. /\ c.at = "ended" /\ c.answer = a /\ c.case = checkouts[k].case
      /\ c.order = checkouts[k].order /\ checkouts[k].order \in Cases
      /\ checkouts[k].answer = "none" /\ checkouts[k].case \in Cases
  BY <1>1, <1>2 DEF Calls, CallOK
<1> HIDE DEF c
<1>6. recovered \subseteq recovered' /\ recovered' \subseteq Cases /\ CallOK(c, recovered')
  BY <1>1, <1>3, <1>5 DEF CallOK
<1>7. /\ checkouts' \in [Checkouts -> Calls]
      /\ \A j \in Checkouts : CallOK(checkouts'[j], recovered')
      /\ checkouts'[k] = c /\ \A j \in Checkouts \ {k} : checkouts'[j] = checkouts[j]
  BY <1>4, <1>5, <1>6, CallStep
<1>8. page' \in Pages /\ (page'.state = "VERIFIED" => Accepted')
  <2>1. page' \in Pages /\ (page'.state = "VERIFIED" => a # "refused")
    BY <1>1, <1>3 DEF Pages
  <2> QED
    BY <1>3, <1>5, <1>7, <2>1 DEF Accepted
<1>9. OneCheckout'
  <2> SUFFICES ASSUME ~overtaken
               PROVE  At({"ordering", "loading", "open", "verifying"})' = {}
    BY <1>2 DEF OneCheckout, Running, At
  <2>1. At({"ordering", "loading", "open", "verifying"}) = {k}
    BY <1>2 DEF CheckoutInv, OneCheckout, At
  <2> QED
    BY <1>5, <1>7, <2>1 DEF At
<1> QED
  BY <1>2, <1>6, <1>7, <1>8, <1>9 DEF CheckoutInv

LEMMA CheckoutNextInv == CheckoutInv /\ [CheckoutNext]_checkoutVars => CheckoutInv'
<1>1. ASSUME CheckoutInv, UNCHANGED checkoutVars  PROVE CheckoutInv'
  BY <1>1 DEF CheckoutInv, checkoutVars, Accepted, OneCheckout, Running, At
<1> QED
  BY <1>1, PageStep, StartStep, CheckoutStep, AnswerStep DEF CheckoutNext

-----------------------------------------------------------------------------
(* The list of cases.                                                       *)

\* A step that neither makes nor changes a load.
LEMMA ListFrame ==
  ASSUME ListInv, loads' = loads, list' = list, version' \in Nat, version <= version'
  PROVE  ListInv'
<1>1. /\ version \in Nat /\ list \in [shown : Nat, loading : BOOLEAN] /\ loads \in Seq(LoadCalls)
      /\ list.shown <= version /\ \A k \in 1 .. Len(loads) : loads[k].version <= version
  BY DEF ListInv
<1>2. \A k \in 1 .. Len(loads) : loads[k].version \in Nat
  <2>1. \A k \in 1 .. Len(loads) : loads[k] \in LoadCalls
    BY <1>1
  <2> QED
    BY <2>1 DEF LoadCalls
<1>3. list'.shown <= version' /\ \A k \in 1 .. Len(loads') : loads'[k].version <= version'
  BY <1>1, <1>2
<1> QED
  BY <1>1, <1>3 DEF ListInv, ByTimer, Open

\* The button is usable only when the page is not loading; the timer does not ask.
LEMMA LoadStep ==
  ASSUME ListInv, version' = version, NEW by \in {"button", "timer"}, Load(by),
         by = "button" => ~list.loading
  PROVE  ListInv'
<1> DEFINE call == [at |-> "asked", by |-> by, version |-> 0]
<1>1. /\ version \in Nat /\ list \in [shown : Nat, loading : BOOLEAN] /\ loads \in Seq(LoadCalls)
      /\ list.shown <= version /\ \A k \in 1 .. Len(loads) : loads[k].version <= version
  BY DEF ListInv
<1>2. /\ call \in LoadCalls /\ call.at = "asked" /\ call.by = by /\ call.version = 0
      /\ loads' = Append(loads, call)
  BY DEF LoadCalls, Load
<1> HIDE DEF call
<1>3. /\ loads' \in Seq(LoadCalls) /\ Len(loads') = Len(loads) + 1 /\ Len(loads) \in Nat
      /\ loads'[Len(loads) + 1] = call /\ \A k \in 1 .. Len(loads) : loads'[k] = loads[k]
  BY <1>1, <1>2
<1>4. list' \in [shown : Nat, loading : BOOLEAN] /\ list'.loading = TRUE /\ list'.shown = list.shown
  BY <1>1 DEF Load
<1>5. \A k \in 1 .. Len(loads') : loads'[k].version <= version'
  BY <1>1, <1>2, <1>3
<1>6. ByTimer' \/ \A k \in Open(loads') : k = Len(loads) + 1
  <2>1. CASE by = "timer"
    BY <1>2, <1>3, <2>1 DEF ByTimer
  <2>2. CASE by = "button" /\ ByTimer
    BY <1>3, <2>2 DEF ByTimer
  <2>3. CASE by = "button" /\ ~ByTimer
    <3>1. Open(loads) = {}
      BY <2>3 DEF ListInv
    <3> QED
      BY <1>3, <3>1 DEF Open
  <2> QED
    BY <2>1, <2>2, <2>3
<1>7. ByTimer' \/ \A k \in Open(loads') :
                    /\ list'.loading
                    /\ \A j \in Open(loads') : j = k
                    /\ loads'[k].at = "answered" => list'.shown <= loads'[k].version
  BY <1>2, <1>3, <1>4, <1>6
<1> QED
  BY <1>1, <1>3, <1>4, <1>5, <1>7 DEF ListInv

\* What the server answers is at least as new as what any earlier answer showed.
LEMMA ReadStep ==
  ASSUME ListInv, NEW k \in 1 .. Len(loads), ListIsRead(k)
  PROVE  ListInv'
<1> DEFINE call == [loads[k] EXCEPT !.at = "answered", !.version = version]
<1>1. /\ version \in Nat /\ list \in [shown : Nat, loading : BOOLEAN] /\ loads \in Seq(LoadCalls)
      /\ list.shown <= version /\ \A j \in 1 .. Len(loads) : loads[j].version <= version
      /\ loads[k] \in LoadCalls
  BY DEF ListInv
<1>2. /\ call \in LoadCalls /\ call.at = "answered" /\ call.by = loads[k].by
      /\ call.version = version /\ loads' = [loads EXCEPT ![k] = call]
      /\ loads[k].at = "asked" /\ version' = version /\ list' = list
  BY <1>1 DEF LoadCalls, ListIsRead
<1> HIDE DEF call
<1>3. /\ loads' \in Seq(LoadCalls) /\ Len(loads') = Len(loads)
      /\ loads'[k] = call /\ \A j \in 1 .. Len(loads) : j # k => loads'[j] = loads[j]
  BY <1>1, <1>2
<1>4. (ByTimer => ByTimer') /\ Open(loads') = Open(loads)
  BY <1>2, <1>3 DEF ByTimer, Open
<1>5. \A j \in 1 .. Len(loads') : loads'[j].version <= version'
  BY <1>1, <1>2, <1>3
<1>6. ByTimer' \/ \A i \in Open(loads') :
                    /\ list'.loading
                    /\ \A j \in Open(loads') : j = i
                    /\ loads'[i].at = "answered" => list'.shown <= loads'[i].version
  <2> SUFFICES ASSUME ~ByTimer, NEW i \in Open(loads)
               PROVE  /\ list.loading /\ \A j \in Open(loads) : j = i
                      /\ loads'[i].at = "answered" => list.shown <= loads'[i].version
    BY <1>2, <1>4
  <2>1. i \in 1 .. Len(loads) /\ list.loading /\ (\A j \in Open(loads) : j = i)
        /\ (loads[i].at = "answered" => list.shown <= loads[i].version)
    BY DEF ListInv, Open
  <2> QED
    BY <1>1, <1>2, <1>3, <2>1
<1> QED
  BY <1>1, <1>2, <1>3, <1>5, <1>6 DEF ListInv

\* An answer that arrives ends its load; by itself it never shows an older list.
LEMMA ArriveStep ==
  ASSUME ListInv, NEW k \in 1 .. Len(loads), ListArrives(k)
  PROVE  ListInv' /\ (list'.shown < list.shown => ByTimer)
<1> DEFINE call == [loads[k] EXCEPT !.at = "ended"]
<1>1. /\ version \in Nat /\ list \in [shown : Nat, loading : BOOLEAN] /\ loads \in Seq(LoadCalls)
      /\ list.shown <= version /\ \A j \in 1 .. Len(loads) : loads[j].version <= version
      /\ loads[k] \in LoadCalls
  BY DEF ListInv
<1>2. /\ call \in LoadCalls /\ call.at = "ended" /\ call.by = loads[k].by
      /\ call.version = loads[k].version /\ loads' = [loads EXCEPT ![k] = call]
      /\ loads[k].at = "answered" /\ version' = version
  BY <1>1 DEF LoadCalls, ListArrives
<1> HIDE DEF call
<1>3. PICK shown \in {loads[k].version, list.shown} : list' = [shown |-> shown, loading |-> FALSE]
  BY DEF ListArrives
<1>4. /\ loads' \in Seq(LoadCalls) /\ Len(loads') = Len(loads)
      /\ loads'[k] = call /\ \A j \in 1 .. Len(loads) : j # k => loads'[j] = loads[j]
  BY <1>1, <1>2
<1>5. loads[k].version \in Nat /\ list.shown \in Nat
  BY <1>1 DEF LoadCalls
<1>6. list' \in [shown : Nat, loading : BOOLEAN] /\ list'.shown = shown /\ shown <= version
  BY <1>1, <1>3, <1>5
<1>7. \A j \in 1 .. Len(loads') : loads'[j].version <= version'
  BY <1>1, <1>2, <1>4
<1>8. k \in Open(loads) /\ Open(loads') = Open(loads) \ {k} /\ (ByTimer => ByTimer')
  BY <1>2, <1>4 DEF Open, ByTimer
<1>9. CASE ByTimer
  BY <1>1, <1>2, <1>4, <1>6, <1>7, <1>8, <1>9 DEF ListInv
<1>10. CASE ~ByTimer
  <2>1. Open(loads') = {} /\ list.shown <= loads[k].version
    BY <1>2, <1>8, <1>10 DEF ListInv
  <2>2. ~(list'.shown < list.shown)
    BY <1>3, <1>5, <1>6, <2>1
  <2> QED
    BY <1>1, <1>2, <1>4, <1>6, <1>7, <2>1, <2>2 DEF ListInv
<1> QED
  BY <1>9, <1>10

\* The list after any step of the page, and the only way to show an older one.
LEMMA ListNextInv ==
  ListInv /\ [ListNext]_dashboardVars => ListInv' /\ (list'.shown < list.shown => ByTimer)
<1> SUFFICES ASSUME ListInv, [ListNext]_dashboardVars
             PROVE  ListInv' /\ (list'.shown < list.shown => ByTimer)
  OBVIOUS
<1>1. version \in Nat /\ list.shown \in Nat /\ list \in [shown : Nat, loading : BOOLEAN]
  BY DEF ListInv
<1>2. CASE CasesChange \/ ResetDemo \/ UNCHANGED dashboardVars
  <2>1. loads' = loads /\ list' = list /\ version' \in {version, version + 1}
    BY <1>2 DEF CasesChange, ResetDemo, dashboardVars
  <2> QED
    BY <1>1, <2>1, ListFrame
<1>3. CASE Refresh \/ TimerFires
  <2>1. ListInv'
    BY <1>3, LoadStep DEF Refresh, TimerFires
  <2>2. list'.shown = list.shown
    BY <1>1, <1>3 DEF Refresh, TimerFires, Load
  <2> QED
    BY <1>1, <2>1, <2>2
<1>4. ASSUME NEW k \in 1 .. Len(loads), ListIsRead(k) \/ ListArrives(k)
      PROVE  ListInv' /\ (list'.shown < list.shown => ByTimer)
  <2>1. CASE ListIsRead(k)
    <3>1. list' = list
      BY <2>1 DEF ListIsRead
    <3> QED
      BY <1>1, <2>1, <3>1, ReadStep
  <2> QED
    BY <1>4, <2>1, ArriveStep
<1> QED
  BY <1>2, <1>3, <1>4 DEF ListNext

-----------------------------------------------------------------------------
(* The panel of the selected case, and the laboratory.                      *)

LEMMA SelectStep ==
  ASSUME PanelInv, SelectCase
  PROVE  PanelInv'
<1>1. /\ panel \in [selected : Listed \union {Nothing}, trail : Listed \union {Nothing},
                    loading : BOOLEAN]
      /\ trails \in Seq(TrailCalls) /\ crossed \in BOOLEAN
  BY DEF PanelInv
<1>2. PICK c \in Listed : /\ panel' = [panel EXCEPT !.selected = c, !.loading = TRUE]
                          /\ trails' = Append(trails, [at |-> "asked", case |-> c])
  BY DEF SelectCase
<1>3. /\ panel' \in [selected : Listed \union {Nothing}, trail : Listed \union {Nothing},
                     loading : BOOLEAN]
      /\ panel'.selected = c /\ panel'.loading = TRUE
  BY <1>1, <1>2
<1>4. /\ trails' \in Seq(TrailCalls) /\ Len(trails') = Len(trails) + 1 /\ Len(trails) \in Nat
      /\ trails'[Len(trails) + 1].case = c
      /\ \A k \in 1 .. Len(trails) : trails'[k] = trails[k]
  BY <1>1, <1>2 DEF TrailCalls
<1>5. crossed' \in BOOLEAN /\ (~crossed' => Open(trails) = {})
  BY DEF SelectCase
<1>6. Open(trails) = {} => \A k \in Open(trails') : trails'[k].case = c
  BY <1>4 DEF Open
<1> QED
  BY <1>3, <1>4, <1>5, <1>6 DEF PanelInv

LEMMA TrailStep ==
  ASSUME PanelInv, NEW k \in 1 .. Len(trails), TrailArrives(k)
  PROVE  PanelInv'
<1> DEFINE call == [trails[k] EXCEPT !.at = "ended"]
<1>1. /\ panel \in [selected : Listed \union {Nothing}, trail : Listed \union {Nothing},
                    loading : BOOLEAN]
      /\ trails \in Seq(TrailCalls) /\ crossed \in BOOLEAN /\ trails[k] \in TrailCalls
  BY DEF PanelInv
<1>2. /\ call \in TrailCalls /\ call.at = "ended" /\ trails' = [trails EXCEPT ![k] = call]
      /\ trails[k].at = "asked" /\ trails[k].case \in Listed /\ crossed' = crossed
  BY <1>1 DEF TrailCalls, TrailArrives
<1> HIDE DEF call
<1>3. PICK t \in {trails[k].case, Nothing} : panel' = [panel EXCEPT !.trail = t, !.loading = FALSE]
  BY DEF TrailArrives
<1>4. /\ trails' \in Seq(TrailCalls) /\ Len(trails') = Len(trails)
      /\ trails'[k] = call /\ \A j \in 1 .. Len(trails) : j # k => trails'[j] = trails[j]
  BY <1>1, <1>2
<1>5. /\ panel' \in [selected : Listed \union {Nothing}, trail : Listed \union {Nothing},
                     loading : BOOLEAN]
      /\ panel'.selected = panel.selected /\ panel'.trail = t
  BY <1>1, <1>2, <1>3
<1>6. k \in Open(trails) /\ Open(trails') = Open(trails) \ {k}
  BY <1>2, <1>4 DEF Open
<1>7. ~crossed' => /\ \A j \in Open(trails') : trails'[j].case = panel'.selected
                   /\ panel'.trail \in {panel'.selected, Nothing}
  BY <1>2, <1>3, <1>4, <1>5, <1>6 DEF PanelInv, Open
<1> QED
  BY <1>1, <1>2, <1>4, <1>5, <1>7 DEF PanelInv

LEMMA PanelNextInv == PanelInv /\ [PanelNext]_dashboardVars => PanelInv'
<1>1. ASSUME PanelInv, UNCHANGED dashboardVars  PROVE PanelInv'
  BY <1>1 DEF PanelInv, dashboardVars, Open
<1> QED
  BY <1>1, SelectStep, TrailStep DEF PanelNext

LEMMA LabNextInv == LabInv /\ [LabNext]_dashboardVars => LabInv'
<1> SUFFICES ASSUME LabInv, [LabNext]_dashboardVars  PROVE LabInv'
  OBVIOUS
<1>1. lab \in [running : BOOLEAN, runs : Nat, result : Nat] /\ lab.result \in {0, lab.runs}
  BY DEF LabInv, ResultIsOfLastRun
<1>2. CASE RunSimulation
  BY <1>1, <1>2 DEF RunSimulation, LabInv, ResultIsOfLastRun
<1>3. CASE SimulationAnswered
  BY <1>1, <1>3 DEF SimulationAnswered, LabInv, ResultIsOfLastRun
<1>4. CASE UNCHANGED dashboardVars
  BY <1>4 DEF dashboardVars, LabInv, ResultIsOfLastRun
<1> QED
  BY <1>2, <1>3, <1>4 DEF LabNext

-----------------------------------------------------------------------------
(* The console.                                                             *)

LEMMA ConsoleInit == MCInit => ConsoleInv
<1> SUFFICES ASSUME MCInit  PROVE ConsoleInv
  OBVIOUS
<1>1. CheckoutInv
  <2>1. /\ page \in Pages /\ page.state = "READY"
        /\ recovered = {} /\ overtaken = FALSE
    BY DEF MCInit, CheckoutInit, Pages
  <2>2. /\ checkouts \in [Checkouts -> Calls]
        /\ \A k \in Checkouts : /\ checkouts[k].at = "unused" /\ checkouts[k].case = NoCase
                                 /\ checkouts[k].order = NoCase /\ checkouts[k].answer = "none"
    BY DEF MCInit, CheckoutInit, Calls
  <2>3. OneCheckout
    BY <2>2 DEF OneCheckout, Running, At
  <2> QED
    BY <2>1, <2>2, <2>3 DEF CheckoutInv, CallOK
<1>2. ListInv
  <2> DEFINE call == [at |-> "asked", by |-> "mount", version |-> 0]
  <2>1. /\ call \in LoadCalls /\ call.version = 0 /\ call.at = "asked" /\ loads = <<call>>
        /\ version = 0 /\ list = [shown |-> 0, loading |-> TRUE]
    BY DEF MCInit, DashboardInit, LoadCalls
  <2> HIDE DEF call
  <2>2. loads \in Seq(LoadCalls) /\ Len(loads) = 1 /\ loads[1] = call
    BY <2>1
  <2> QED
    BY <2>1, <2>2 DEF ListInv, Open
<1>3. PanelInv
  <2>1. /\ panel = [selected |-> Nothing, trail |-> Nothing, loading |-> FALSE]
        /\ trails = <<>> /\ crossed = FALSE
    BY DEF MCInit, DashboardInit
  <2>2. trails \in Seq(TrailCalls) /\ Len(trails) = 0
    BY <2>1
  <2>3. \A k \in Open(trails) : FALSE
    BY <2>2 DEF Open
  <2>4. panel \in [selected : Listed \union {Nothing}, trail : Listed \union {Nothing},
                  loading : BOOLEAN] /\ panel.trail = Nothing
    BY <2>1
  <2> QED
    BY <2>1, <2>2, <2>3, <2>4 DEF PanelInv
<1>4. LabInv
  BY DEF MCInit, DashboardInit, LabInv, ResultIsOfLastRun
<1> QED
  BY <1>1, <1>2, <1>3, <1>4 DEF ConsoleInv

\* The parts in turn: a step of one leaves the others as they are.
LEMMA ConsoleNext ==
  ConsoleInv /\ [MCNext]_MCVars
    => ConsoleInv' /\ [list'.shown < list.shown => ByTimer]_dashboardVars
<1> SUFFICES ASSUME ConsoleInv, [MCNext]_MCVars
             PROVE  ConsoleInv' /\ [list'.shown < list.shown => ByTimer]_dashboardVars
  OBVIOUS
<1>1. CheckoutInv /\ ListInv /\ PanelInv /\ LabInv
  BY DEF ConsoleInv
<1>2. [CheckoutNext]_checkoutVars
  BY DEF MCNext, MCVars, On
<1>3. [ListNext]_dashboardVars \/ UNCHANGED <<list, loads, version>>
  BY DEF MCNext, MCVars, On, PanelNext, LabNext, SelectCase, TrailArrives, RunSimulation,
         SimulationAnswered, dashboardVars
<1>4. [PanelNext]_dashboardVars \/ UNCHANGED <<panel, trails, crossed>>
  BY DEF MCNext, MCVars, On, ListNext, LabNext, CasesChange, Refresh, ResetDemo, TimerFires,
         ListIsRead, ListArrives, RunSimulation, SimulationAnswered, dashboardVars
<1>5. [LabNext]_dashboardVars \/ lab' = lab
  BY DEF MCNext, MCVars, On, ListNext, PanelNext, CasesChange, Refresh, ResetDemo, TimerFires,
         ListIsRead, ListArrives, SelectCase, TrailArrives, dashboardVars
<1>6. CheckoutInv'
  BY <1>1, <1>2, CheckoutNextInv
<1>7. ListInv' /\ (list'.shown < list.shown => ByTimer)
  <2>1. CASE UNCHANGED <<list, loads, version>>
    <3>1. version \in Nat /\ list.shown \in Nat
      BY <1>1 DEF ListInv
    <3> QED
      BY <1>1, <2>1, <3>1, ListFrame
  <2> QED
    BY <1>1, <1>3, <2>1, ListNextInv
<1>8. PanelInv'
  <2>1. CASE UNCHANGED <<panel, trails, crossed>>
    BY <1>1, <2>1 DEF PanelInv, Open
  <2> QED
    BY <1>1, <1>4, <2>1, PanelNextInv
<1>9. LabInv'
  <2>1. CASE lab' = lab
    BY <1>1, <2>1 DEF LabInv, ResultIsOfLastRun
  <2> QED
    BY <1>1, <1>5, <2>1, LabNextInv
<1> QED
  BY <1>6, <1>7, <1>8, <1>9 DEF ConsoleInv

LEMMA ConsoleInvariance == MCSpec => []ConsoleInv
BY ConsoleInit, ConsoleNext, PTL DEF MCSpec

\* startCheckout: however many checkouts are begun, two are under way at once only after the
\* end of a generation made the button usable again.
THEOREM OneCheckoutAtATime == MCSpec => []SecondCheckoutOnlyWhenOvertaken
<1>1. ConsoleInv => SecondCheckoutOnlyWhenOvertaken
  <2> SUFFICES ASSUME ConsoleInv, ~overtaken  PROVE ~(Cardinality(Running) > 1)
    BY DEF SecondCheckoutOnlyWhenOvertaken
  <2>1. \A j, k \in Running : j = k
    BY DEF ConsoleInv, CheckoutInv, OneCheckout, Running, At
  <2>2. CASE Running = {}
    BY <2>2, FS_EmptySet
  <2>3. CASE Running # {}
    <3>1. PICK k \in Running : Running = {k}
      BY <2>1, <2>3
    <3>2. Cardinality(Running) = 1
      BY <3>1, FS_Singleton
    <3> QED
      BY <3>2
  <2> QED
    BY <2>2, <2>3
<1> QED
  BY <1>1, ConsoleInvariance, PTL

\* The handlers of the two pages: in whatever order the answers come, each is taken for that
\* of the question it answers, outside the situations the property names.
THEOREM AnswersAreTakenForTheirOwn == MCSpec => AnswersMeetTheirQuestion
<1>1. ConsoleInv => /\ CheckoutPageTypeOK
                    /\ VerifyNamesTheOrdersCase
                    /\ VerifiedMeansAccepted
                    /\ OtherTrailOnlyWhenCrossed
                    /\ ResultIsOfLastRun
  <2> SUFFICES ASSUME CheckoutInv, PanelInv, LabInv
               PROVE  /\ CheckoutPageTypeOK
                      /\ VerifyNamesTheOrdersCase
                      /\ VerifiedMeansAccepted
                      /\ OtherTrailOnlyWhenCrossed
                      /\ ResultIsOfLastRun
    BY DEF ConsoleInv
  <2>1. ASSUME NEW k \in Checkouts
        PROVE  checkouts[k] \in
                 IF checkouts[k].at = "unused"
                 THEN [at : {"unused"}, case : {NoCase}, order : {NoCase}, answer : {"none"}]
                 ELSE [at : {"ordering", "loading", "open", "verifying", "ended"}, case : Cases,
                       order : Cases \union {NoCase},
                       answer : {"none", "recovered", "uncaptured", "refused"}]
    <3>1. checkouts[k] \in Calls /\ CallOK(checkouts[k], recovered)
      BY DEF CheckoutInv
    <3> QED
      BY <3>1 DEF CallOK, Calls
  <2>2. CheckoutPageTypeOK
    BY <2>1 DEF CheckoutInv, CheckoutPageTypeOK, Pages
  <2>3. VerifyNamesTheOrdersCase
    BY DEF CheckoutInv, CallOK, VerifyNamesTheOrdersCase, At
  <2>4. VerifiedMeansAccepted
    BY DEF CheckoutInv, CallOK, VerifiedMeansAccepted, Accepted
  <2>5. OtherTrailOnlyWhenCrossed
    BY DEF PanelInv, OtherTrailOnlyWhenCrossed
  <2> QED
    BY <2>2, <2>3, <2>4, <2>5 DEF LabInv
<1> QED
  BY <1>1, ConsoleInvariance, ConsoleNext, PTL
     DEF MCSpec, AnswersMeetTheirQuestion, OlderListOnlyAfterReset, ByTimer

-----------------------------------------------------------------------------
(* Sums.                                                                    *)

\* A set of natural numbers has a least one.
LEMMA LeastNumber ==
  ASSUME NEW T \in SUBSET Nat, T # {}
  PROVE  \E n \in T : \A m \in T : n <= m
<1> DEFINE R == {ss \in Nat \X Nat : ss[1] < ss[2]}
<1>1. IsWellFoundedOn(R, Nat)
  BY NatLessThanWellFounded DEF OpToRel
<1>2. \E x \in T : \A y \in T : ~ (<<y, x>> \in R)
  <2> HIDE DEF R
  <2> QED
    BY <1>1, WFMin
<1>3. PICK x \in T : \A y \in T : ~ (<<y, x>> \in R)
  BY <1>2
<1>4. ASSUME NEW y \in T  PROVE x <= y
  <2>1. ~ (y < x)
    BY <1>3
  <2> QED
    BY <2>1
<1> QED
  BY <1>4

\* f is the running total of a up to n.
IsRunningTotal(f, a, n) == f = [k \in 0 .. n |-> IF k = 0 THEN 0 ELSE f[k - 1] + a[k]]

\* There is a running total of any length: a shortest one that is missing could be had from
\* the one before.
LEMMA RunningTotalExists ==
  ASSUME NEW N \in Nat, NEW a
  PROVE  \E f : IsRunningTotal(f, a, N)
<1> DEFINE Missing == {n \in Nat : ~ \E f : IsRunningTotal(f, a, n)}
<1> SUFFICES ASSUME Missing # {}  PROVE FALSE
  OBVIOUS
<1>1. PICK n \in Missing : \A m \in Missing : n <= m
  BY LeastNumber
<1>2. n # 0
  <2>1. IsRunningTotal([k \in 0 .. 0 |-> 0], a, 0)
    BY DEF IsRunningTotal
  <2> QED
    BY <2>1, <1>1
<1>3. n - 1 \in Nat /\ n - 1 \notin Missing
  BY <1>1, <1>2
<1>4. PICK g : IsRunningTotal(g, a, n - 1)
  BY <1>3
<1> DEFINE h == [k \in 0 .. n |-> IF k = n THEN g[n - 1] + a[n] ELSE g[k]]
<1>5. \A k \in 0 .. n - 1 : g[k] = IF k = 0 THEN 0 ELSE g[k - 1] + a[k]
  BY <1>4 DEF IsRunningTotal
<1>6. \A k \in 0 .. n : h[k] = IF k = 0 THEN 0 ELSE h[k - 1] + a[k]
  BY <1>1, <1>2, <1>3, <1>5
<1>7. IsRunningTotal(h, a, n)
  <2>1. h = [k \in 0 .. n |-> h[k]]
    OBVIOUS
  <2> HIDE DEF h
  <2>2. [k \in 0 .. n |-> h[k]] = [k \in 0 .. n |-> IF k = 0 THEN 0 ELSE h[k - 1] + a[k]]
    BY <1>6
  <2> QED
    BY <2>1, <2>2 DEF IsRunningTotal
<1> QED
  BY <1>7, <1>1

\* The running total of a batch starts from 0 and grows by one amount at a time.
LEMMA RunningTotalStep ==
  ASSUME NEW a, Len(batch) \in Nat
  PROVE  /\ RunningTotal(a)[0] = 0
         /\ \A k \in 1 .. Len(batch) : RunningTotal(a)[k] = RunningTotal(a)[k - 1] + a[k]
<1> DEFINE t == RunningTotal(a)
<1>1. t = CHOOSE f : IsRunningTotal(f, a, Len(batch))
  BY DEF RunningTotal, IsRunningTotal
<1>2. IsRunningTotal(t, a, Len(batch))
  BY <1>1, RunningTotalExists
<1> HIDE DEF t
<1>3. \A k \in 0 .. Len(batch) : t[k] = IF k = 0 THEN 0 ELSE t[k - 1] + a[k]
  BY <1>2 DEF IsRunningTotal
<1> QED
  BY <1>3 DEF t

-----------------------------------------------------------------------------
(* What a batch comes to.                                                   *)

\* What the experiment is given, and the outcomes of whole batches.
InputOK ==
  /\ batch \in Batches /\ batch \in Seq(Events) /\ Len(batch) <= MaxInt
  /\ baseline \in BOOLEAN

AnyPlays == UNION {[DOMAIN b -> Outcomes] : b \in Batches}

\* What the events are worth when they come to o, and how many of the first n events are
\* recovered or escalated.
Amounts == [i \in Positions |-> batch[i].amount]
Gains(o) == [i \in Positions |-> IF o[i].recovered THEN batch[i].amount ELSE 0]
RecoveredIn(o, n) == {i \in 1 .. n : o[i].recovered}
EscalatedIn(o, n) == {i \in 1 .. n : o[i].escalated}

\* Every event comes to something: an amount at risk and at most that amount recovered.
LEMMA Results ==
  ASSUME InputOK, NEW o \in AllPlays
  PROVE  /\ Len(batch) \in Nat /\ Positions = 1 .. Len(batch)
         /\ o \in [Positions -> Outcomes] /\ o \in AnyPlays /\ o # None
         /\ \A i \in Positions :
              /\ o[i] \in Outcomes
              /\ Amounts[i] \in Nat /\ Amounts[i] = batch[i].amount
              /\ Gains(o)[i] = IF o[i].recovered THEN batch[i].amount ELSE 0
<1>1. Len(batch) \in Nat /\ Positions = 1 .. Len(batch)
  BY DEF InputOK, Positions
<1>2. o \in [Positions -> Outcomes]
  BY DEF AllPlays, Plays
<1>3. o \in AnyPlays /\ o # None
  BY <1>2, BatchesAssumption DEF InputOK, AnyPlays, Positions
<1>4. ASSUME NEW i \in Positions
      PROVE  batch[i] \in Events
  BY <1>1 DEF InputOK
<1> QED
  BY <1>1, <1>2, <1>3, <1>4 DEF Amounts, Gains, Events

\* The retry of the baseline.
Retried(i) == [recovered |-> ExecuteRetry(batch[i], 1) = "SUCCESS", escalated |-> FALSE,
               raises |-> FALSE]

\* The baseline comes to the same in every execution, whatever the policy.
LEMMA BaselineHasNoPolicy ==
  ASSUME baseline, NEW o \in AllPlays
  PROVE  /\ o = [i \in Positions |-> Retried(i)]
         /\ \A q \in AllPlays : q = o
<1>1. ASSUME NEW p, NEW i  PROVE Possible(p, i) = {Retried(i)}
  <2>1. Verify(batch[i], ExecuteRetry(batch[i], 1), FALSE).outcome = "RECOVERED"
          <=> ExecuteRetry(batch[i], 1) = "SUCCESS"
    BY DEF Verify
  <2> QED
    BY <2>1 DEF Possible, Retried
<1>2. ASSUME NEW q \in AllPlays  PROVE q = [i \in Positions |-> Retried(i)]
  <2>1. PICK p \in Policies : q \in Plays(p)
    BY DEF AllPlays
  <2>2. q \in [Positions -> Outcomes] /\ \A i \in Positions : q[i] = Retried(i)
    BY <1>1, <2>1 DEF Plays
  <2> QED
    BY <2>2
<1> QED
  BY <1>2

\* Expected, in the terms of the loop.
LEMMA ExpectedIs ==
  ASSUME InputOK, NEW o \in AllPlays
  PROVE  /\ AtRisk = Total(Amounts)
         /\ Expected(o) = [at_risk |-> AtRisk, total |-> Len(batch), revenue |-> Total(Gains(o)),
                           recovered |-> Cardinality(RecoveredIn(o, Len(batch))),
                           escalated |-> Cardinality(EscalatedIn(o, Len(batch)))]
<1>1. AtRisk = Total(Amounts)
  BY DEF AtRisk, Amounts
<1>2. Positions = 1 .. Len(batch)
  BY Results
<1>3. Expected(o) = [at_risk |-> AtRisk, total |-> Len(batch), revenue |-> Total(Gains(o)),
                     recovered |-> Cardinality({i \in Positions : o[i].recovered}),
                     escalated |-> Cardinality({i \in Positions : o[i].escalated})]
  BY DEF Expected, Gains
<1> QED
  BY <1>1, <1>2, <1>3 DEF RecoveredIn, EscalatedIn

\* The experiment is given once and for all, and so is what it comes to.
LEMMA FixedInput ==
  ASSUME UNCHANGED fixed
  PROVE  /\ InputOK => InputOK'
         /\ AtRisk' = AtRisk /\ Amounts' = Amounts /\ Positions' = Positions
         /\ AllPlays' = AllPlays
         /\ \A o \in AllPlays : Expected(o)' = Expected(o) /\ Gains(o)' = Gains(o)
         /\ \A a : RunningTotal(a)' = RunningTotal(a)
<1>1. batch' = batch /\ baseline' = baseline /\ agent' = agent
  BY DEF fixed
<1>2. Positions' = Positions
  BY <1>1 DEF Positions
<1>3. \A a : RunningTotal(a)' = RunningTotal(a)
  BY <1>1 DEF RunningTotal
<1>4. Amounts' = Amounts /\ AtRisk' = AtRisk
  BY <1>1, <1>2 DEF Amounts, AtRisk, Total, RunningTotal
<1>5. AllPlays' = AllPlays
  <2>1. \A p, i : Possible(p, i)' = Possible(p, i)
    BY <1>1 DEF Possible
  <2>2. \A p : Plays(p)' = Plays(p)
    BY <1>2, <2>1 DEF Plays
  <2> QED
    BY <2>2 DEF AllPlays
<1>6. ASSUME NEW o \in AllPlays  PROVE Gains(o)' = Gains(o)
  BY <1>1, <1>2 DEF Gains
<1>7. ASSUME NEW o \in AllPlays  PROVE Expected(o)' = Expected(o)
  BY <1>1, <1>2, <1>4 DEF Expected, Total, RunningTotal
<1>8. InputOK => InputOK'
  BY <1>1 DEF InputOK
<1> QED
  BY <1>2, <1>3, <1>4, <1>5, <1>6, <1>7, <1>8
-----------------------------------------------------------------------------
(* The inductive invariant.                                                 *)

Statuses == {"PENDING", "RUNNING", "COMPLETED", "FAILED"}
Columns == 0 .. MaxInt

Rows ==
  [status : Statuses, progress : 0 .. 100, at_risk : Columns, revenue : Columns,
   total : Columns, recovered : Columns, escalated : Columns,
   report : [at_risk : Nat, revenue : Nat] \union {None}]

Executions ==
  [at : {"ready", "found", "running", "raised", "flushed", "ended"}, next : Nat \ {0},
   policy : Policies \union {None}, plays : AnyPlays \union {None}, held : Rows, made : Rows,
   revenue : Nat, recovered : Nat, escalated : Nat]

\* The report of a whole batch, played under some policy.
IsReport(r) == \E o \in AllPlays : r = [at_risk |-> AtRisk, revenue |-> Expected(o).revenue]

\* Nothing but o is behind the committed columns: the baseline always comes to the same, and
\* the executions that are over came to nothing else.
Done == {work[w].plays : w \in {v \in Tasks : work[v].at = "ended"}} \ {None}
Only(o) == baseline \/ Done \subseteq {o}

RowInv ==
  /\ row \in Rows /\ row.status # "RUNNING"
  /\ row.report = None \/ IsReport(row.report)
  /\ row.status = "COMPLETED" => row.report # None
  /\ row.report # None =>
       /\ \A o \in AllPlays : Only(o) => \A f \in Sums : row[f] = Expected(o)[f]
       /\ baseline => row.progress = 100

\* What the row was when execution w found it: a result it had then is still there.
FoundInv(w) ==
  /\ work[w].held.report # None => row.report # None
  /\ \A o \in AllPlays : Only(o) =>
       \A f \in Sums : work[w].held[f] = Expected(o)[f] => row[f] = Expected(o)[f]

\* The loop: what the events before the next one come to to in this execution.
LoopInv(w) ==
  LET n == work[w].next - 1
  IN  /\ work[w].recovered <= n /\ work[w].escalated <= n
      /\ \A o \in AllPlays : work[w].plays = o =>
           /\ work[w].revenue = RunningTotal(Gains(o))[n]
           /\ work[w].revenue <= RunningTotal(Amounts)[n]
           /\ work[w].recovered = Cardinality(RecoveredIn(o, n))
           /\ work[w].escalated = Cardinality(EscalatedIn(o, n))

\* The transaction so far: it has written the status and the progress.
OpenInv(w) ==
  /\ work[w].policy \in Policies
  /\ work[w].held.status = "RUNNING"
  /\ work[w].made.report = row.report /\ \A f \in Sums : work[w].made[f] = row[f]
  /\ baseline /\ work[w].held.progress = 100 => work[w].made.progress = 100

\* What has raised is not the baseline, unless the policy could not be read.
RaisedInv(w) ==
  baseline => work[w].policy \in Refused /\ work[w].made.progress = row.progress

\* The transaction as it will be committed: all the results,
ResultsInv(w) ==
  /\ work[w].plays \in AllPlays
  /\ work[w].made.status = "COMPLETED" /\ IsReport(work[w].made.report)
  /\ \A o \in AllPlays : Only(o) /\ (baseline \/ work[w].plays = o) =>
       \A f \in Sums : work[w].made[f] = Expected(o)[f]
  /\ baseline => work[w].made.progress = 100

\* or the failure, and the results that were there before.
FailureInv(w) ==
  /\ work[w].made.status = "FAILED" /\ RaisedInv(w)
  /\ work[w].made.report = row.report /\ \A f \in Sums : work[w].made[f] = row[f]

WorkInv(w) ==
  /\ work[w].next <= Len(batch) + 1 /\ work[w].plays \in [Positions -> Outcomes] \union {None}
  /\ work[w].at \in {"ready", "found"} =>
       work[w].next = 1 /\ work[w].revenue = 0 /\ work[w].recovered = 0 /\ work[w].escalated = 0
  /\ work[w].at = "found" =>
       /\ work[w].held.status # "RUNNING"
       /\ baseline /\ work[w].held.progress = 100 => row.progress = 100
  /\ work[w].at \in {"found", "running", "raised"} => FoundInv(w)
  /\ work[w].at = "running" => work[w].plays \in AllPlays /\ LoopInv(w)
  /\ work[w].at \in {"running", "raised"} => OpenInv(w)
  /\ work[w].at = "raised" => RaisedInv(w)
  /\ work[w].at = "flushed" => work[w].policy \in Policies /\ (ResultsInv(w) \/ FailureInv(w))

SimulationInv ==
  /\ InputOK /\ policy \in Policies /\ crashes \in 0 .. MaxCrashes
  /\ work \in [Workers -> Executions]
  /\ \A v, w \in Holding : v = w
  /\ RowInv
  /\ \A w \in Workers : WorkInv(w)

-----------------------------------------------------------------------------
(* What a step leaves as it was.                                            *)

\* What an execution that has ended is remembered for is not forgotten.
LEMMA DoneGrows ==
  ASSUME NEW w \in Workers, NEW y, work \in [Workers -> Executions],
         work[w].at # "ended", work' = [work EXCEPT ![w] = y]
  PROVE  Done \subseteq Done'
<1> SUFFICES ASSUME NEW q \in Done  PROVE q \in Done'
  OBVIOUS
<1>1. PICK v \in Tasks : work[v].at = "ended" /\ work[v].plays = q
  BY DEF Done
<1>2. v \in Workers /\ v # w
  BY <1>1 DEF Workers
<1>3. work'[v] = work[v]
  BY <1>2
<1> QED
  BY <1>1, <1>3 DEF Done

LEMMA OnlyLater ==
  ASSUME UNCHANGED fixed, Done \subseteq Done', NEW o \in AllPlays, Only(o)'
  PROVE  Only(o)
BY DEF Only, fixed

LEMMA RowKept ==
  ASSUME UNCHANGED <<fixed, row>>, Done \subseteq Done', RowInv
  PROVE  RowInv'
<1>1. AtRisk' = AtRisk /\ AllPlays' = AllPlays /\ \A o \in AllPlays : Expected(o)' = Expected(o)
  BY FixedInput
<1>2. \A o \in AllPlays : Only(o)' => Only(o)
  BY OnlyLater
<1>3. baseline' = baseline /\ row' = row
  BY DEF fixed
<1>4. row.report = None \/ IsReport(row.report) => row'.report = None \/ IsReport(row.report)'
  BY <1>1, <1>3 DEF IsReport
<1> QED
  BY <1>1, <1>2, <1>3, <1>4 DEF RowInv

\* The execution of another.
LEMMA WorkKept ==
  ASSUME UNCHANGED <<fixed, row>>, Done \subseteq Done', NEW w \in Workers,
         work'[w] = work[w], WorkInv(w)
  PROVE  WorkInv(w)'
<1>1. /\ AtRisk' = AtRisk /\ Amounts' = Amounts /\ AllPlays' = AllPlays
      /\ Positions' = Positions
      /\ \A o \in AllPlays : Expected(o)' = Expected(o) /\ Gains(o)' = Gains(o)
      /\ \A a : RunningTotal(a)' = RunningTotal(a)
  BY FixedInput
<1>2. \A o \in AllPlays : Only(o)' => Only(o)
  BY OnlyLater
<1>3. baseline' = baseline /\ batch' = batch /\ row' = row
  BY DEF fixed
<1>4. FoundInv(w) => FoundInv(w)'
  BY <1>1, <1>2, <1>3 DEF FoundInv
<1>5. LoopInv(w) => LoopInv(w)'
  <2>1. \A o, n : /\ RecoveredIn(o, n)' = RecoveredIn(o, n)
                  /\ EscalatedIn(o, n)' = EscalatedIn(o, n)
    BY DEF RecoveredIn, EscalatedIn
  <2> QED
    BY <1>1, <2>1 DEF LoopInv
<1>6. OpenInv(w) => OpenInv(w)'
  BY <1>1, <1>3 DEF OpenInv
<1>7. ResultsInv(w) => ResultsInv(w)'
  BY <1>1, <1>2, <1>3 DEF ResultsInv, IsReport
<1>8. FailureInv(w) => FailureInv(w)'
  BY <1>3 DEF FailureInv, RaisedInv
<1>9. RaisedInv(w) => RaisedInv(w)'
  BY <1>3 DEF RaisedInv
<1> QED
  BY <1>1, <1>3, <1>4, <1>5, <1>6, <1>7, <1>8, <1>9 DEF WorkInv

\* A step of one execution that commits nothing.
LEMMA ExecutionStep ==
  ASSUME SimulationInv, UNCHANGED <<fixed, row>>, policy' \in Policies,
         crashes' \in 0 .. MaxCrashes, NEW w \in Workers, NEW y \in Executions,
         work' = [work EXCEPT ![w] = y], work[w].at # "ended",
         y.at \in {"running", "raised", "flushed"} => w \in Holding \/ Holding = {},
         Done \subseteq Done' => WorkInv(w)'
  PROVE  SimulationInv'
<1>1. InputOK' /\ work' \in [Workers -> Executions]
  BY FixedInput DEF SimulationInv
<1>2. Done \subseteq Done'
  BY DoneGrows DEF SimulationInv
<1>3. work'[w] = y /\ \A v \in Workers \ {w} : work'[v] = work[v]
  BY DEF SimulationInv
<1>4. \A v \in Workers : WorkInv(v)'
  BY <1>2, <1>3, WorkKept DEF SimulationInv
<1>5. RowInv'
  BY <1>2, RowKept DEF SimulationInv
<1>6. \A u, v \in Holding' : u = v
  <2>1. Holding' \subseteq Holding \union {w} /\ (w \in Holding' => w \in Holding \/ Holding = {})
    BY <1>3 DEF Holding
  <2> QED
    BY <2>1 DEF SimulationInv
<1> QED
  BY <1>1, <1>4, <1>5, <1>6 DEF SimulationInv

\* What a flush makes of the row: the columns whose value the session has changed.
LEMMA AssignedFields ==
  ASSUME NEW x \in Executions, NEW new \in Rows
  PROVE  /\ Assigned(x, new) \in Executions
         /\ Assigned(x, new).held = new
         /\ Assigned(x, new).at = x.at /\ Assigned(x, new).next = x.next
         /\ Assigned(x, new).policy = x.policy /\ Assigned(x, new).plays = x.plays
         /\ Assigned(x, new).revenue = x.revenue
         /\ Assigned(x, new).recovered = x.recovered
         /\ Assigned(x, new).escalated = x.escalated
         /\ \A f \in Sums \union {"status", "progress", "report"} :
              Assigned(x, new).made[f] = IF new[f] # x.held[f] THEN new[f] ELSE x.made[f]
<1> DEFINE merged == [f \in DOMAIN new |-> IF new[f] # x.held[f] THEN new[f] ELSE x.made[f]]
<1>1. x.held \in Rows /\ x.made \in Rows
  BY DEF Executions
<1>2. DOMAIN new = {"status", "progress", "at_risk", "revenue", "total", "recovered",
                    "escalated", "report"}
  BY DEF Rows
<1>3. merged \in Rows
  <2>1. merged = [status |-> merged.status, progress |-> merged.progress,
                  at_risk |-> merged.at_risk, revenue |-> merged.revenue,
                  total |-> merged.total, recovered |-> merged.recovered,
                  escalated |-> merged.escalated, report |-> merged.report]
    BY <1>2
  <2>2. /\ merged.status \in Statuses /\ merged.progress \in 0 .. 100
        /\ merged.at_risk \in Columns /\ merged.revenue \in Columns
        /\ merged.total \in Columns /\ merged.recovered \in Columns
        /\ merged.escalated \in Columns
        /\ merged.report \in [at_risk : Nat, revenue : Nat] \union {None}
    BY <1>1, <1>2 DEF Rows
  <2> HIDE DEF merged
  <2> QED
    BY <2>1, <2>2 DEF Rows
<1>4. Assigned(x, new) = [x EXCEPT !.held = new, !.made = merged]
  BY DEF Assigned, Executions
<1>5. \A f \in Sums \union {"status", "progress", "report"} :
        merged[f] = IF new[f] # x.held[f] THEN new[f] ELSE x.made[f]
  BY <1>2 DEF Sums
<1> HIDE DEF merged
<1> QED
  BY <1>3, <1>4, <1>5 DEF Executions

-----------------------------------------------------------------------------
(* The steps.                                                               *)

LEMMA NewRowIsRow == NewRow \in Rows
BY SimulationAssumption DEF NewRow, Rows, Statuses, Columns

LEMMA ReadyIsExecution == Ready \in Executions
BY NewRowIsRow DEF Ready, Executions

LEMMA InitInv == Init => SimulationInv
<1> SUFFICES ASSUME Init  PROVE SimulationInv
  OBVIOUS
<1>1. InputOK
  BY BatchesAssumption DEF Init, InputOK
<1>2. RowInv
  BY NewRowIsRow DEF Init, RowInv, NewRow
<1>3. work \in [Workers -> Executions] /\ \A w \in Workers : work[w] = Ready
  BY ReadyIsExecution DEF Init
<1>4. \A w \in Workers : WorkInv(w)
  <2>1. Len(batch) \in Nat
    BY <1>1 DEF InputOK
  <2> QED
    BY <1>3, <2>1 DEF WorkInv, Ready
<1>5. Holding = {}
  BY <1>3 DEF Holding, Ready
<1>6. policy \in Policies /\ crashes \in 0 .. MaxCrashes
  BY SimulationAssumption DEF Init
<1> QED
  BY <1>1, <1>2, <1>3, <1>4, <1>5, <1>6 DEF SimulationInv

LEMMA FindStep ==
  ASSUME SimulationInv, NEW w \in Workers, Find(w)
  PROVE  SimulationInv'
<1> DEFINE y == [work[w] EXCEPT !.at = "found", !.held = row]
<1>1. work[w] \in Executions /\ row \in Rows /\ row.status # "RUNNING" /\ WorkInv(w)
  BY DEF SimulationInv, RowInv
<1>2. y \in Executions
  BY <1>1 DEF Executions
<1>3. work' = [work EXCEPT ![w] = y] /\ work[w].at = "ready" /\ row' = row
  BY DEF Find
<1>4. /\ y.at = "found" /\ y.held = row /\ y.next = work[w].next /\ y.revenue = work[w].revenue
      /\ y.plays = work[w].plays /\ y.recovered = work[w].recovered /\ y.escalated = work[w].escalated
  BY <1>1 DEF Executions
<1> HIDE DEF y
<1>5. work'[w] = y
  BY <1>3 DEF SimulationInv
<1>6. WorkInv(w)'
  <2>1. FoundInv(w)'
    BY <1>3, <1>4, <1>5 DEF FoundInv
  <2>2. batch' = batch /\ Positions' = Positions
    BY DEF Find, fixed, Positions
  <2> QED
    BY <1>1, <1>3, <1>4, <1>5, <2>1, <2>2 DEF WorkInv
<1>7. UNCHANGED <<fixed, row, policy, crashes>>
  BY DEF Find
<1> QED
  BY <1>2, <1>3, <1>4, <1>6, <1>7, ExecutionStep DEF SimulationInv

\* The loop after a step, in terms of what was given before.
LEMMA LoopNext ==
  ASSUME UNCHANGED fixed, NEW w \in Workers, NEW n \in Nat, work'[w].next - 1 = n,
         work'[w].recovered <= n, work'[w].escalated <= n,
         \A o \in AllPlays : work'[w].plays = o =>
           /\ work'[w].revenue = RunningTotal(Gains(o))[n]
           /\ work'[w].revenue <= RunningTotal(Amounts)[n]
           /\ work'[w].recovered = Cardinality(RecoveredIn(o, n))
           /\ work'[w].escalated = Cardinality(EscalatedIn(o, n))
  PROVE  LoopInv(w)'
<1>1. /\ Amounts' = Amounts
      /\ AllPlays' = AllPlays /\ \A o \in AllPlays : Gains(o)' = Gains(o)
      /\ \A a : RunningTotal(a)' = RunningTotal(a)
  BY FixedInput
<1>2. \A o, m : /\ RecoveredIn(o, m)' = RecoveredIn(o, m)
               /\ EscalatedIn(o, m)' = EscalatedIn(o, m)
  BY DEF RecoveredIn, EscalatedIn
<1> QED
  BY <1>1, <1>2 DEF LoopInv

\* An execution that starts its loop, or whose policy is refused.
LEMMA StartedStep ==
  ASSUME SimulationInv, NEW w \in Workers, NEW at, NEW plays,
         \/ at = "running" /\ plays \in AllPlays
         \/ at = "raised" /\ plays = None /\ policy \in Refused,
         work[w].at = "found", Holding = {}, work' = [work EXCEPT ![w] = Started(w, at, plays)],
         UNCHANGED <<fixed, row, policy, crashes>>
  PROVE  SimulationInv'
<1> DEFINE x == [work[w] EXCEPT !.at = at, !.policy = policy, !.plays = plays, !.made = row]
           new == [work[w].held EXCEPT !.status = "RUNNING"]
           y == Assigned(x, new)
<1>1. /\ work[w] \in Executions /\ work[w].held \in Rows /\ row \in Rows /\ policy \in Policies
      /\ WorkInv(w) /\ InputOK
  BY DEF SimulationInv, RowInv, Executions
<1>p. plays \in AnyPlays \union {None} /\ plays \in [Positions -> Outcomes] \union {None}
  BY <1>1, Results
<1>2. /\ x \in Executions /\ x.at = at /\ x.policy = policy /\ x.made = row /\ x.plays = plays
      /\ x.held = work[w].held /\ x.next = 1 /\ x.revenue = 0 /\ x.recovered = 0
      /\ x.escalated = 0
  BY <1>1, <1>p DEF Executions, WorkInv
<1>3. /\ new \in Rows /\ new.status = "RUNNING" /\ new.progress = work[w].held.progress
      /\ new.report = work[w].held.report /\ \A f \in Sums : new[f] = work[w].held[f]
  BY <1>1 DEF Rows, Statuses, Sums
<1>4. work' = [work EXCEPT ![w] = y]
  BY DEF Started
<1> HIDE DEF x, new
<1>5. /\ y \in Executions /\ y.held = new /\ y.at = at /\ y.policy = policy
      /\ y.plays = plays /\ y.next = 1 /\ y.revenue = 0 /\ y.recovered = 0 /\ y.escalated = 0
      /\ y.made.report = row.report /\ y.made.progress = row.progress
      /\ \A f \in Sums : y.made[f] = row[f]
  BY <1>2, <1>3, AssignedFields
<1> HIDE DEF y
<1>6. work'[w] = y
  BY <1>4 DEF SimulationInv
<1>7. UNCHANGED <<fixed, row, policy, crashes>>
  OBVIOUS
<1>8. ASSUME Done \subseteq Done'  PROVE WorkInv(w)'
  <2>1. /\ batch' = batch /\ baseline' = baseline /\ row' = row /\ Positions' = Positions
        /\ AllPlays' = AllPlays
    BY <1>7, FixedInput DEF fixed
  <2>2. FoundInv(w)'
    <3>1. FoundInv(w)
      BY <1>1 DEF WorkInv
    <3>2. \A o \in AllPlays : (Only(o)' => Only(o)) /\ Expected(o)' = Expected(o)
      BY <1>7, <1>8, OnlyLater, FixedInput
    <3> QED
      BY <1>3, <1>5, <1>6, <2>1, <3>1, <3>2 DEF FoundInv
  <2>3. OpenInv(w)'
    BY <1>1, <1>3, <1>5, <1>6, <2>1 DEF OpenInv, WorkInv
  <2>5. at = "raised" => RaisedInv(w)'
    BY <1>5, <1>6, <2>1 DEF RaisedInv
  <2>4. LoopInv(w)'
    <3>1. Len(batch) \in Nat
      BY DEF SimulationInv, InputOK
    <3>2. \A o \in AllPlays : RunningTotal(Gains(o))[0] = 0 /\ RunningTotal(Amounts)[0] = 0
      BY <3>1, RunningTotalStep
    <3>3. ASSUME NEW o \in AllPlays
          PROVE  Cardinality(RecoveredIn(o, 0)) = 0 /\ Cardinality(EscalatedIn(o, 0)) = 0
      <4>1. RecoveredIn(o, 0) = {} /\ EscalatedIn(o, 0) = {}
        BY DEF RecoveredIn, EscalatedIn
      <4> QED
        BY <4>1, FS_EmptySet
    <3>4. /\ work'[w].next - 1 = 0 /\ work'[w].recovered <= 0 /\ work'[w].escalated <= 0
          /\ \A o \in AllPlays :
               /\ work'[w].revenue = RunningTotal(Gains(o))[0]
               /\ work'[w].revenue <= RunningTotal(Amounts)[0]
               /\ work'[w].recovered = Cardinality(RecoveredIn(o, 0))
               /\ work'[w].escalated = Cardinality(EscalatedIn(o, 0))
      BY <1>5, <1>6, <3>2, <3>3
    <3> QED
      BY <1>7, <3>4, LoopNext
  <2> QED
    BY <1>p, <1>5, <1>6, <2>1, <2>2, <2>3, <2>4, <2>5, <1>1 DEF WorkInv, InputOK
<1> QED
  BY <1>1, <1>4, <1>5, <1>7, <1>8, ExecutionStep DEF SimulationInv

LEMMA BeginStep ==
  ASSUME SimulationInv, NEW w \in Workers, Begin(w)
  PROVE  SimulationInv'
<1>1. /\ work[w].at = "found" /\ Holding = {} /\ UNCHANGED <<fixed, row, policy, crashes>>
      /\ policy \in Policies
  BY DEF Begin, SimulationInv
<1>2. ASSUME policy \notin Refused, NEW o \in Plays(policy),
             work' = [work EXCEPT ![w] = Started(w, "running", o)]
      PROVE  SimulationInv'
  <2>1. o \in AllPlays
    BY <1>1, <1>2 DEF AllPlays
  <2> QED
    BY <1>1, <1>2, <2>1, StartedStep
<1>3. ASSUME policy \in Refused, work' = [work EXCEPT ![w] = Started(w, "raised", None)]
      PROVE  SimulationInv'
  BY <1>1, <1>3, StartedStep
<1> QED
  BY <1>2, <1>3 DEF Begin

\* The running totals of natural numbers are natural numbers.
LEMMA RunningTotalIsNat ==
  ASSUME Len(batch) \in Nat, NEW a, \A i \in 1 .. Len(batch) : a[i] \in Nat
  PROVE  \A n \in 0 .. Len(batch) : RunningTotal(a)[n] \in Nat
<1> DEFINE t == RunningTotal(a)
           Bad == {n \in 0 .. Len(batch) : t[n] \notin Nat}
<1> SUFFICES ASSUME Bad # {}  PROVE FALSE
  OBVIOUS
<1>1. t[0] = 0 /\ \A k \in 1 .. Len(batch) : t[k] = t[k - 1] + a[k]
  BY RunningTotalStep
<1> HIDE DEF t
<1>2. Bad \in SUBSET Nat
  OBVIOUS
<1>3. PICK n \in Bad : \A m \in Bad : n <= m
  <2> HIDE DEF Bad
  <2> QED
    BY <1>2, LeastNumber
<1>4. n \in 1 .. Len(batch) /\ t[n] \notin Nat
  BY <1>1, <1>3
<1>5. n - 1 \in 0 .. Len(batch) /\ n - 1 \notin Bad
  BY <1>2, <1>3, <1>4
<1>6. t[n - 1] \in Nat
  BY <1>5
<1>7. t[n] = t[n - 1] + a[n] /\ a[n] \in Nat
  BY <1>1, <1>4
<1>8. t[n] \in Nat
  <2> DEFINE u == t[n - 1]  v == a[n]
  <2> HIDE DEF u, v
  <2>1. u \in Nat /\ v \in Nat
    BY <1>6, <1>7 DEF u, v
  <2>2. u + v \in Nat
    BY <2>1
  <2> QED
    BY <1>7, <2>2 DEF u, v
<1> QED
  BY <1>4, <1>8

LEMMA TotalsAreNat ==
  ASSUME InputOK, NEW o \in AllPlays
  PROVE  /\ \A n \in 0 .. Len(batch) : /\ RunningTotal(Amounts)[n] \in Nat
                                       /\ RunningTotal(Gains(o))[n] \in Nat
         /\ AtRisk \in Nat /\ AtRisk = RunningTotal(Amounts)[Len(batch)]
         /\ Expected(o).revenue \in Nat
         /\ Expected(o).revenue = RunningTotal(Gains(o))[Len(batch)]
<1>1. Len(batch) \in Nat /\ \A i \in 1 .. Len(batch) : Amounts[i] \in Nat /\ Gains(o)[i] \in Nat
  BY Results
<1>2. \A n \in 0 .. Len(batch) : RunningTotal(Amounts)[n] \in Nat /\ RunningTotal(Gains(o))[n] \in Nat
  BY <1>1, RunningTotalIsNat
<1>3. AtRisk = RunningTotal(Amounts)[Len(batch)]
  BY ExpectedIs DEF Total
<1>4. Expected(o).revenue = RunningTotal(Gains(o))[Len(batch)]
  BY ExpectedIs DEF Total
<1> QED
  BY <1>1, <1>2, <1>3, <1>4

\* One event more.
LEMMA OneMore ==
  ASSUME InputOK, NEW o \in AllPlays, NEW i \in 1 .. Len(batch)
  PROVE  LET r == o[i] IN
         /\ RunningTotal(Gains(o))[i] =
              RunningTotal(Gains(o))[i - 1] + (IF r.recovered THEN batch[i].amount ELSE 0)
         /\ RunningTotal(Amounts)[i] = RunningTotal(Amounts)[i - 1] + batch[i].amount
         /\ Cardinality(RecoveredIn(o, i)) =
              Cardinality(RecoveredIn(o, i - 1)) + (IF r.recovered THEN 1 ELSE 0)
         /\ Cardinality(EscalatedIn(o, i)) =
              Cardinality(EscalatedIn(o, i - 1)) + (IF r.escalated THEN 1 ELSE 0)
<1>1. Len(batch) \in Nat /\ i \in Positions
  BY Results
<1>2. /\ RunningTotal(Gains(o))[i] = RunningTotal(Gains(o))[i - 1] + Gains(o)[i]
      /\ RunningTotal(Amounts)[i] = RunningTotal(Amounts)[i - 1] + Amounts[i]
  BY <1>1, RunningTotalStep
<1>3. /\ Gains(o)[i] = IF o[i].recovered THEN batch[i].amount ELSE 0
      /\ Amounts[i] = batch[i].amount
  BY <1>1, Results
<1>4. ASSUME NEW S \in SUBSET (1 .. i - 1)
      PROVE  /\ IsFiniteSet(S) /\ Cardinality(S) \in Nat
             /\ Cardinality(S \union {i}) = Cardinality(S) + 1
  <2>1. IsFiniteSet(1 .. i - 1)
    BY <1>1, FS_Interval
  <2>2. IsFiniteSet(S)
    BY <2>1, FS_Subset
  <2> QED
    BY <2>2, FS_AddElement, FS_CardinalityType
<1>5. /\ RecoveredIn(o, i - 1) \in SUBSET (1 .. i - 1)
      /\ RecoveredIn(o, i) = RecoveredIn(o, i - 1)
                               \union (IF o[i].recovered THEN {i} ELSE {})
  BY DEF RecoveredIn
<1>6. /\ EscalatedIn(o, i - 1) \in SUBSET (1 .. i - 1)
      /\ EscalatedIn(o, i) = EscalatedIn(o, i - 1)
                               \union (IF o[i].escalated THEN {i} ELSE {})
  BY DEF EscalatedIn
<1>7. Cardinality(RecoveredIn(o, i)) =
        Cardinality(RecoveredIn(o, i - 1)) + (IF o[i].recovered THEN 1 ELSE 0)
  <2> DEFINE S == RecoveredIn(o, i - 1)
  <2>1. Cardinality(S) \in Nat /\ Cardinality(S \union {i}) = Cardinality(S) + 1
    BY <1>4, <1>5
  <2>2. CASE o[i].recovered
    <3>1. RecoveredIn(o, i) = S \union {i}
      BY <1>5, <2>2
    <3> QED
      BY <2>1, <2>2, <3>1
  <2>3. CASE ~o[i].recovered
    <3>1. RecoveredIn(o, i) = S
      BY <1>5, <2>3
    <3> QED
      BY <2>1, <2>3, <3>1
  <2> QED
    BY <2>2, <2>3
<1>8. Cardinality(EscalatedIn(o, i)) =
        Cardinality(EscalatedIn(o, i - 1)) + (IF o[i].escalated THEN 1 ELSE 0)
  <2> DEFINE S == EscalatedIn(o, i - 1)
  <2>1. Cardinality(S) \in Nat /\ Cardinality(S \union {i}) = Cardinality(S) + 1
    BY <1>4, <1>6
  <2>2. CASE o[i].escalated
    <3>1. EscalatedIn(o, i) = S \union {i}
      BY <1>6, <2>2
    <3> QED
      BY <2>1, <2>2, <3>1
  <2>3. CASE ~o[i].escalated
    <3>1. EscalatedIn(o, i) = S
      BY <1>6, <2>3
    <3> QED
      BY <2>1, <2>3, <3>1
  <2> QED
    BY <2>2, <2>3
<1> QED
  BY <1>2, <1>3, <1>7, <1>8

\* Progress is shown in whole percents and never complete before the end.
LEMMA ProgressIsPartial ==
  ASSUME NEW i \in Nat, NEW n \in Nat, 1 <= i, i <= n
  PROVE  ((i - 1) * 100) \div n \in 0 .. 99
<1> DEFINE a == (i - 1) * 100
           q == a \div n
<1>1. a \in Nat /\ a < 100 * n
  OBVIOUS
<1>2. n > 0
  OBVIOUS
<1> HIDE DEF a
<1>3. q \in Int /\ n * q <= a /\ a < n * q + n
  BY <1>1, <1>2
<1> HIDE DEF q
<1>4. q >= 0
  <2>1. CASE q <= -1
    <3>1. n * q <= -n
      BY <1>2, <1>3, <2>1
    <3> QED
      BY <1>1, <1>3, <3>1
  <2> QED
    BY <1>3, <2>1
<1>5. q <= 99
  <2>1. CASE q >= 100
    <3>1. n * q >= n * 100
      BY <1>2, <1>3, <2>1
    <3> QED
      BY <1>1, <1>3, <3>1
  <2> QED
    BY <1>3, <2>1
<1> QED
  BY <1>3, <1>4, <1>5 DEF q, a

\* One event, if it does not raise.
LEMMA PlayOnStep ==
  ASSUME SimulationInv, NEW w \in Workers, Play(w), ~Played(w, work[w].next).raises
  PROVE  SimulationInv'
<1> DEFINE i == work[w].next
           e == Played(w, i)
           p == work[w].policy
           o == work[w].plays
           x == [work[w] EXCEPT
                   !.next = i + 1,
                   !.revenue = IF e.recovered THEN @ + batch[i].amount ELSE @,
                   !.recovered = IF e.recovered THEN @ + 1 ELSE @,
                   !.escalated = IF e.escalated THEN @ + 1 ELSE @]
           percent == ((i - 1) * 100) \div Len(batch)
           new == [work[w].held EXCEPT !.progress = percent]
           y == Assigned(x, new)
<1>1. /\ work[w] \in Executions /\ work[w].held \in Rows /\ work[w].made \in Rows
      /\ WorkInv(w) /\ InputOK /\ work[w].at = "running"
  BY DEF SimulationInv, Play, Executions
<1>2. Len(batch) \in Nat /\ i \in 1 .. Len(batch)
  BY <1>1 DEF Play, InputOK, Executions
<1>3. work' = [work EXCEPT ![w] = y]
  BY DEF Play
<1>4. FoundInv(w) /\ LoopInv(w) /\ OpenInv(w) /\ p \in Policies /\ o \in AllPlays
  BY <1>1 DEF WorkInv, OpenInv
<1>5. i \in Positions /\ batch[i].amount \in Nat /\ e = o[i]
  BY <1>1, <1>2, <1>4, Results DEF Played
<1>6. percent \in 0 .. 100 /\ percent # 100
  <2> HIDE DEF i
  <2>1. i \in Nat /\ 1 <= i /\ i <= Len(batch)
    BY <1>2
  <2>2. percent \in 0 .. 99
    BY <1>2, <2>1, ProgressIsPartial
  <2> HIDE DEF percent
  <2> QED
    BY <2>2
<1>7. /\ new \in Rows /\ new.status = "RUNNING" /\ new.progress # 100
      /\ new.report = work[w].held.report /\ \A f \in Sums : new[f] = work[w].held[f]
  <2>1. work[w].held.status = "RUNNING"
    BY <1>4 DEF OpenInv
  <2> HIDE DEF percent
  <2> QED
    BY <1>1, <1>6, <2>1 DEF Rows, Sums
<1>8. /\ x \in Executions /\ x.at = "running" /\ x.policy = p /\ x.plays = o /\ x.next = i + 1
      /\ x.held = work[w].held /\ x.made = work[w].made
      /\ x.revenue = work[w].revenue + (IF o[i].recovered THEN batch[i].amount ELSE 0)
      /\ x.recovered = work[w].recovered + (IF o[i].recovered THEN 1 ELSE 0)
      /\ x.escalated = work[w].escalated + (IF o[i].escalated THEN 1 ELSE 0)
  <2>1. i + 1 \in Nat \ {0}
    BY <1>2
  <2>2. /\ x.at = "running" /\ x.policy = p /\ x.plays = o /\ x.next = i + 1
        /\ x.held = work[w].held /\ x.made = work[w].made
        /\ x.revenue = IF e.recovered THEN work[w].revenue + batch[i].amount ELSE work[w].revenue
        /\ x.recovered = IF e.recovered THEN work[w].recovered + 1 ELSE work[w].recovered
        /\ x.escalated = IF e.escalated THEN work[w].escalated + 1 ELSE work[w].escalated
    <3> HIDE DEF e
    <3> QED
      BY <1>1 DEF Executions
  <2>3. work[w].revenue \in Nat /\ work[w].recovered \in Nat /\ work[w].escalated \in Nat
    BY <1>1 DEF Executions
  <2>4. /\ x.revenue = work[w].revenue + (IF o[i].recovered THEN batch[i].amount ELSE 0)
        /\ x.recovered = work[w].recovered + (IF o[i].recovered THEN 1 ELSE 0)
        /\ x.escalated = work[w].escalated + (IF o[i].escalated THEN 1 ELSE 0)
    <3> HIDE DEF e, i, o, x
    <3> QED
      BY <1>5, <2>2, <2>3
  <2>5. x.revenue \in Nat /\ x.recovered \in Nat /\ x.escalated \in Nat
    <3> HIDE DEF e, i, o, x
    <3> QED
      BY <1>5, <2>3, <2>4
  <2>6. x \in Executions
    <3> HIDE DEF e
    <3> QED
      BY <1>1, <2>1, <2>2, <2>5 DEF Executions
  <2> QED
    BY <2>2, <2>4, <2>6
<1> HIDE DEF x, new, e
<1>9. /\ y \in Executions /\ y.held = new /\ y.at = "running" /\ y.policy = p
      /\ y.plays = o /\ y.next = i + 1 /\ y.revenue = x.revenue /\ y.recovered = x.recovered
      /\ y.escalated = x.escalated
      /\ y.made.report = work[w].made.report /\ \A f \in Sums : y.made[f] = work[w].made[f]
  BY <1>7, <1>8, AssignedFields
<1> HIDE DEF y
<1>10. work'[w] = y
  BY <1>3 DEF SimulationInv
<1>11. UNCHANGED <<fixed, row, policy, crashes>>
  BY DEF Play
<1>12. ASSUME Done \subseteq Done'  PROVE WorkInv(w)'
  <2>1. /\ batch' = batch /\ baseline' = baseline /\ row' = row /\ Positions' = Positions
        /\ AllPlays' = AllPlays
    BY <1>11, FixedInput DEF fixed
  <2>2. FoundInv(w)'
    <3>1. \A q \in AllPlays : (Only(q)' => Only(q)) /\ Expected(q)' = Expected(q)
      BY <1>11, <1>12, OnlyLater, FixedInput
    <3> QED
      BY <1>4, <1>7, <1>9, <1>10, <2>1, <3>1 DEF FoundInv
  <2>3. OpenInv(w)'
    BY <1>4, <1>7, <1>9, <1>10, <2>1 DEF OpenInv
  <2>4. LoopInv(w)'
    <3>1. /\ work[w].revenue \in Nat /\ work[w].recovered \in Nat /\ work[w].escalated \in Nat
          /\ i \in Nat /\ i - 1 \in 0 .. Len(batch) /\ i \in 0 .. Len(batch)
      BY <1>1, <1>2 DEF Executions
    <3>2. /\ work[w].recovered <= i - 1 /\ work[w].escalated <= i - 1
          /\ work[w].revenue = RunningTotal(Gains(o))[i - 1]
          /\ work[w].revenue <= RunningTotal(Amounts)[i - 1]
          /\ work[w].recovered = Cardinality(RecoveredIn(o, i - 1))
          /\ work[w].escalated = Cardinality(EscalatedIn(o, i - 1))
      BY <1>4 DEF LoopInv
    <3>3. /\ RunningTotal(Gains(o))[i] =
               RunningTotal(Gains(o))[i - 1] + (IF o[i].recovered THEN batch[i].amount ELSE 0)
          /\ RunningTotal(Amounts)[i] = RunningTotal(Amounts)[i - 1] + batch[i].amount
          /\ Cardinality(RecoveredIn(o, i)) =
               Cardinality(RecoveredIn(o, i - 1)) + (IF o[i].recovered THEN 1 ELSE 0)
          /\ Cardinality(EscalatedIn(o, i)) =
               Cardinality(EscalatedIn(o, i - 1)) + (IF o[i].escalated THEN 1 ELSE 0)
      BY <1>1, <1>2, <1>4, OneMore
    <3>4. RunningTotal(Amounts)[i - 1] \in Nat
      BY <1>1, <1>4, <3>1, TotalsAreNat
    <3> HIDE DEF i, o
    <3>5. /\ y.recovered <= i /\ y.escalated <= i
          /\ y.revenue = RunningTotal(Gains(o))[i] /\ y.revenue <= RunningTotal(Amounts)[i]
          /\ y.recovered = Cardinality(RecoveredIn(o, i))
          /\ y.escalated = Cardinality(EscalatedIn(o, i))
      <4>1. /\ y.revenue =
                 work[w].revenue + (IF o[i].recovered THEN batch[i].amount ELSE 0)
            /\ y.recovered = work[w].recovered + (IF o[i].recovered THEN 1 ELSE 0)
            /\ y.escalated = work[w].escalated + (IF o[i].escalated THEN 1 ELSE 0)
        BY <1>8, <1>9
      <4>2. y.recovered <= i /\ y.escalated <= i
        BY <3>1, <3>2, <4>1
      <4>3. y.revenue = RunningTotal(Gains(o))[i]
        BY <3>2, <3>3, <4>1
      <4>4. y.revenue <= RunningTotal(Amounts)[i]
        <5> DEFINE total == RunningTotal(Amounts)[i - 1]
                   amount == batch[i].amount
                   gained == IF o[i].recovered THEN amount ELSE 0
        <5>1. gained \in Nat /\ amount \in Nat /\ gained <= amount
          BY <1>5
        <5>2. /\ y.revenue = work[w].revenue + gained
              /\ RunningTotal(Amounts)[i] = total + amount
              /\ work[w].revenue <= total /\ total \in Nat /\ work[w].revenue \in Nat
          BY <3>1, <3>2, <3>3, <3>4, <4>1
        <5> HIDE DEF total, amount, gained
        <5> QED
          BY <5>1, <5>2
      <4>5. /\ y.recovered = Cardinality(RecoveredIn(o, i))
            /\ y.escalated = Cardinality(EscalatedIn(o, i))
        BY <3>2, <3>3, <4>1
      <4> QED
        BY <4>2, <4>3, <4>4, <4>5
    <3>6. y.next - 1 = i
      BY <1>9, <3>1
    <3> QED
      BY <1>9, <1>10, <1>11, <3>1, <3>5, <3>6, LoopNext
  <2>5. y.next <= Len(batch) + 1 /\ o \in [Positions -> Outcomes]
    BY <1>1, <1>2, <1>4, <1>9, Results
  <2> QED
    BY <1>4, <1>9, <1>10, <2>1, <2>2, <2>3, <2>4, <2>5 DEF WorkInv
<1>13. w \in Holding
  BY <1>1 DEF Holding
<1> QED
  BY <1>1, <1>3, <1>9, <1>11, <1>12, <1>13, ExecutionStep DEF SimulationInv

LEMMA PlayRaisesStep ==
  ASSUME SimulationInv, NEW w \in Workers, Play(w), Played(w, work[w].next).raises
  PROVE  SimulationInv'
<1> DEFINE y == [work[w] EXCEPT !.at = "raised"]
<1>1. work[w] \in Executions /\ WorkInv(w) /\ InputOK /\ work[w].at = "running"
  BY DEF SimulationInv, Play
<1>2. work[w].next \in Positions
  BY <1>1, Results DEF Play, InputOK, Executions, Positions
<1>3. FoundInv(w) /\ OpenInv(w) /\ work[w].policy \in Policies /\ work[w].plays \in AllPlays
  BY <1>1 DEF WorkInv, OpenInv
<1>4. ~baseline
  <2> SUFFICES ASSUME baseline  PROVE FALSE
    OBVIOUS
  <2>1. work[w].plays[work[w].next] = Retried(work[w].next)
    BY <1>2, <1>3, BaselineHasNoPolicy
  <2> QED
    BY <2>1 DEF Played, Retried
<1>5. work' = [work EXCEPT ![w] = y]
  BY DEF Play
<1>6. y \in Executions /\ y.at = "raised" /\ y.held = work[w].held /\ y.made = work[w].made
      /\ y.policy = work[w].policy /\ y.next = work[w].next /\ y.plays = work[w].plays
  BY <1>1 DEF Executions
<1> HIDE DEF y
<1>7. work'[w] = y
  BY <1>5 DEF SimulationInv
<1>8. UNCHANGED <<fixed, row, policy, crashes>>
  BY DEF Play
<1>9. ASSUME Done \subseteq Done'  PROVE WorkInv(w)'
  <2>1. /\ batch' = batch /\ baseline' = baseline /\ row' = row /\ Positions' = Positions
        /\ AllPlays' = AllPlays
    BY <1>8, FixedInput DEF fixed
  <2>2. FoundInv(w)'
    <3>1. \A q \in AllPlays : (Only(q)' => Only(q)) /\ Expected(q)' = Expected(q)
      BY <1>8, <1>9, OnlyLater, FixedInput
    <3> QED
      BY <1>3, <1>6, <1>7, <2>1, <3>1 DEF FoundInv
  <2>3. OpenInv(w)'
    BY <1>3, <1>6, <1>7, <2>1 DEF OpenInv
  <2>4. RaisedInv(w)'
    BY <1>4, <2>1 DEF RaisedInv
  <2> QED
    BY <1>1, <1>6, <1>7, <2>1, <2>2, <2>3, <2>4 DEF WorkInv
<1>10. w \in Holding
  BY <1>1 DEF Holding
<1> QED
  BY <1>1, <1>5, <1>6, <1>8, <1>9, <1>10, ExecutionStep DEF SimulationInv

LEMMA RecordFailureStep ==
  ASSUME SimulationInv, NEW w \in Workers, RecordFailure(w)
  PROVE  SimulationInv'
<1> DEFINE x == [work[w] EXCEPT !.at = "flushed"]
           new == [work[w].held EXCEPT !.status = "FAILED"]
           y == Assigned(x, new)
<1>1. /\ work[w] \in Executions /\ work[w].held \in Rows /\ WorkInv(w)
      /\ work[w].at = "raised"
  BY DEF SimulationInv, RecordFailure, Executions
<1>2. OpenInv(w) /\ RaisedInv(w)
  BY <1>1 DEF WorkInv
<1>3. /\ x \in Executions /\ x.at = "flushed" /\ x.policy = work[w].policy
      /\ x.plays = work[w].plays
      /\ x.held = work[w].held /\ x.made = work[w].made /\ x.next = work[w].next
  BY <1>1 DEF Executions
<1>4. /\ new \in Rows /\ new.status = "FAILED" /\ work[w].held.status = "RUNNING"
      /\ new.progress = work[w].held.progress
      /\ new.report = work[w].held.report /\ \A f \in Sums : new[f] = work[w].held[f]
  BY <1>1, <1>2 DEF Rows, Statuses, Sums, OpenInv
<1>5. work' = [work EXCEPT ![w] = y]
  BY DEF RecordFailure
<1> HIDE DEF x, new
<1>6. /\ y \in Executions /\ y.at = "flushed" /\ y.policy = work[w].policy
      /\ y.plays = work[w].plays /\ y.next = work[w].next /\ y.made.status = "FAILED"
      /\ y.made.progress = work[w].made.progress
      /\ y.made.report = work[w].made.report /\ \A f \in Sums : y.made[f] = work[w].made[f]
  BY <1>3, <1>4, AssignedFields
<1> HIDE DEF y
<1>7. work'[w] = y
  BY <1>5 DEF SimulationInv
<1>8. UNCHANGED <<fixed, row, policy, crashes>>
  BY DEF RecordFailure
<1>9. WorkInv(w)'
  <2>1. batch' = batch /\ baseline' = baseline /\ row' = row /\ Positions' = Positions
    BY <1>8, FixedInput DEF fixed
  <2>2. FailureInv(w)'
    BY <1>2, <1>6, <1>7, <2>1 DEF FailureInv, OpenInv, RaisedInv
  <2> QED
    BY <1>1, <1>2, <1>6, <1>7, <2>1, <2>2 DEF WorkInv, OpenInv
<1>10. w \in Holding
  BY <1>1 DEF Holding
<1> QED
  BY <1>1, <1>5, <1>6, <1>8, <1>9, <1>10, ExecutionStep DEF SimulationInv

\* An execution that leaves without committing, or is delivered again.
LEMMA LeaveStep ==
  ASSUME SimulationInv, NEW w \in Workers, work[w].at # "ended",
         UNCHANGED <<fixed, row, policy>>, crashes' \in 0 .. MaxCrashes,
         \/ work' = [work EXCEPT ![w].at = "ended"]
         \/ work' = [work EXCEPT ![w] = Ready]
  PROVE  SimulationInv'
<1>1. work[w] \in Executions /\ WorkInv(w) /\ policy' \in Policies
  BY DEF SimulationInv
<1>2. CASE work' = [work EXCEPT ![w].at = "ended"]
  <2> DEFINE y == [work[w] EXCEPT !.at = "ended"]
  <2>1. /\ y \in Executions /\ y.at = "ended" /\ y.next = work[w].next
        /\ y.plays = work[w].plays
    BY <1>1 DEF Executions
  <2>2. work' = [work EXCEPT ![w] = y]
    BY <1>2
  <2> HIDE DEF y
  <2>3. work'[w] = y /\ batch' = batch /\ Positions' = Positions
    BY <2>2 DEF SimulationInv, fixed, Positions
  <2>4. WorkInv(w)'
    BY <1>1, <2>1, <2>3 DEF WorkInv
  <2> QED
    BY <1>1, <2>1, <2>2, <2>4, ExecutionStep
<1>3. CASE work' = [work EXCEPT ![w] = Ready]
  <2>1. work'[w] = Ready /\ batch' = batch
    BY <1>3 DEF SimulationInv, fixed
  <2>2. Len(batch) \in Nat
    BY DEF SimulationInv, InputOK
  <2>3. WorkInv(w)'
    BY <2>1, <2>2 DEF WorkInv, Ready
  <2>4. Ready.at = "ready"
    BY DEF Ready
  <2> QED
    BY <1>1, <1>3, <2>3, <2>4, ReadyIsExecution, ExecutionStep
<1> QED
  BY <1>2, <1>3

\* What a completed loop has counted is the expected result, and fits the columns.
LEMMA LoopAtTheEnd ==
  ASSUME InputOK, NEW w \in Workers, LoopInv(w), work[w] \in Executions,
         work[w].plays \in AllPlays, work[w].next = Len(batch) + 1, AtRisk <= MaxInt
  PROVE  LET e == Expected(work[w].plays) IN
         /\ e.at_risk = AtRisk /\ e.total = Len(batch) /\ e.revenue = work[w].revenue
         /\ e.recovered = work[w].recovered /\ e.escalated = work[w].escalated
         /\ \A f \in Sums : e[f] \in Columns
<1> DEFINE o == work[w].plays
<1>1. Len(batch) \in Nat /\ Len(batch) <= MaxInt /\ MaxInt \in Nat
  BY SimulationAssumption DEF InputOK
<1>2. /\ work[w].recovered <= Len(batch) /\ work[w].escalated <= Len(batch)
      /\ work[w].revenue = RunningTotal(Gains(o))[Len(batch)]
      /\ work[w].revenue <= RunningTotal(Amounts)[Len(batch)]
      /\ work[w].recovered = Cardinality(RecoveredIn(o, Len(batch)))
      /\ work[w].escalated = Cardinality(EscalatedIn(o, Len(batch)))
  <2>1. work[w].next - 1 = Len(batch)
    BY <1>1
  <2> QED
    BY <2>1 DEF LoopInv
<1>3. /\ Expected(o).at_risk = AtRisk /\ Expected(o).total = Len(batch)
      /\ Expected(o).revenue = work[w].revenue /\ Expected(o).recovered = work[w].recovered
      /\ Expected(o).escalated = work[w].escalated
  BY <1>2, ExpectedIs, TotalsAreNat
<1>4. AtRisk \in Nat /\ work[w].revenue <= AtRisk
  BY <1>2, TotalsAreNat
<1>5. work[w].revenue \in Nat /\ work[w].recovered \in Nat /\ work[w].escalated \in Nat
  BY DEF Executions
<1> HIDE DEF o
<1>6. \A f \in Sums : Expected(o)[f] \in Columns
  BY <1>1, <1>2, <1>3, <1>4, <1>5 DEF Sums, Columns
<1> QED
  BY <1>3, <1>6 DEF o

LEMMA FinishStep ==
  ASSUME SimulationInv, NEW w \in Workers, Finish(w), ~(AtRisk > MaxInt)
  PROVE  SimulationInv'
<1> DEFINE x == [work[w] EXCEPT !.at = "flushed"]
           o == work[w].plays
           new == [status |-> "COMPLETED", progress |-> 100, at_risk |-> AtRisk,
                   revenue |-> work[w].revenue, total |-> Len(batch),
                   recovered |-> work[w].recovered, escalated |-> work[w].escalated,
                   report |-> [at_risk |-> AtRisk, revenue |-> work[w].revenue]]
           y == Assigned(x, new)
<1>1. /\ work[w] \in Executions /\ WorkInv(w) /\ InputOK /\ work[w].at = "running"
      /\ RowInv
  BY DEF SimulationInv, Finish
<1>2. /\ FoundInv(w) /\ LoopInv(w) /\ OpenInv(w) /\ o \in AllPlays
      /\ work[w].policy \in Policies
  BY <1>1 DEF WorkInv, OpenInv
<1>3. work[w].next = Len(batch) + 1 /\ Len(batch) \in Nat
  BY <1>1 DEF Finish, WorkInv, InputOK, Executions
<1>4. AtRisk \in Nat /\ AtRisk <= MaxInt
  BY <1>1, <1>2, SimulationAssumption, TotalsAreNat
<1>5. /\ Expected(o).at_risk = AtRisk /\ Expected(o).total = Len(batch)
      /\ Expected(o).revenue = work[w].revenue /\ Expected(o).recovered = work[w].recovered
      /\ Expected(o).escalated = work[w].escalated
      /\ \A f \in Sums : Expected(o)[f] \in Columns
  BY <1>1, <1>2, <1>3, <1>4, LoopAtTheEnd
<1>6. /\ x \in Executions /\ x.at = "flushed" /\ x.policy = work[w].policy /\ x.plays = o
      /\ x.next = work[w].next
      /\ x.held = work[w].held /\ x.made = work[w].made
  BY <1>1 DEF Executions
<1>7. work' = [work EXCEPT ![w] = y]
  BY DEF Finish
<1> HIDE DEF o
<1>8. /\ new.status = "COMPLETED" /\ new.progress = 100
      /\ new.report = [at_risk |-> AtRisk, revenue |-> Expected(o).revenue]
      /\ \A f \in Sums : new[f] = Expected(o)[f]
  BY <1>5 DEF Sums
<1>9. new \in Rows
  <2>1. /\ AtRisk \in Columns /\ work[w].revenue \in Columns /\ Len(batch) \in Columns
        /\ work[w].recovered \in Columns /\ work[w].escalated \in Columns
    BY <1>5 DEF Sums
  <2>2. AtRisk \in Nat /\ work[w].revenue \in Nat
    BY <1>1, <1>4 DEF Executions
  <2> QED
    BY <2>1, <2>2 DEF Rows, Statuses
<1> HIDE DEF x, new
<1>10. /\ y \in Executions /\ y.at = "flushed" /\ y.policy = work[w].policy /\ y.plays = o
       /\ y.next = work[w].next
       /\ \A f \in Sums \union {"status", "progress", "report"} :
            y.made[f] = IF new[f] # work[w].held[f] THEN new[f] ELSE work[w].made[f]
  BY <1>6, <1>9, AssignedFields
<1> HIDE DEF y
<1>11. work'[w] = y
  BY <1>7 DEF SimulationInv
<1>12. UNCHANGED <<fixed, row, policy, crashes>>
  BY DEF Finish
<1>13. ASSUME Done \subseteq Done'  PROVE WorkInv(w)'
  <2>1. batch' = batch /\ baseline' = baseline /\ row' = row /\ Positions' = Positions
    BY <1>12, FixedInput DEF fixed
  <2>2. /\ AtRisk' = AtRisk /\ AllPlays' = AllPlays
        /\ \A q \in AllPlays : (Only(q)' => Only(q)) /\ Expected(q)' = Expected(q)
    BY <1>12, <1>13, OnlyLater, FixedInput
  <2>3. y.made.status = "COMPLETED"
    BY <1>2, <1>8, <1>10 DEF OpenInv
  <2>4. IsReport(y.made.report)
    <3>1. CASE new.report # work[w].held.report
      BY <1>2, <1>8, <1>10, <3>1 DEF IsReport
    <3>2. CASE new.report = work[w].held.report
      <4>1. new.report # None
        BY <1>1, <1>2, <1>4, <1>8, SimulationAssumption, TotalsAreNat
      <4>2. row.report # None /\ y.made.report = row.report
        BY <1>2, <1>10, <3>2, <4>1 DEF FoundInv, OpenInv
      <4> QED
        BY <1>1, <4>2 DEF RowInv
    <3> QED
      BY <3>1, <3>2
  <2>5. ASSUME NEW q \in AllPlays, Only(q), baseline \/ o = q, NEW f \in Sums
        PROVE  y.made[f] = Expected(q)[f]
    <3>1. new[f] = Expected(q)[f]
      BY <1>2, <1>8, <2>5, BaselineHasNoPolicy
    <3>2. work[w].held[f] = Expected(q)[f] => work[w].made[f] = Expected(q)[f]
      BY <1>2, <2>5 DEF FoundInv, OpenInv
    <3> QED
      BY <1>10, <3>1, <3>2
  <2>6. baseline => y.made.progress = 100
    BY <1>2, <1>8, <1>10 DEF OpenInv
  <2>7. ResultsInv(w)'
    <3>1. IsReport(work[w].made.report)'
      BY <1>11, <2>2, <2>4 DEF IsReport
    <3>2. \A q \in AllPlays' : Only(q)' /\ (baseline' \/ work'[w].plays = q) =>
            \A f \in Sums : work'[w].made[f] = Expected(q)'[f]
      BY <1>10, <1>11, <2>1, <2>2, <2>5
    <3> QED
      BY <1>2, <1>10, <1>11, <2>1, <2>2, <2>3, <2>6, <3>1, <3>2 DEF ResultsInv
  <2>8. o \in [Positions -> Outcomes]
    BY <1>1, <1>2, Results
  <2> QED
    BY <1>2, <1>3, <1>10, <1>11, <2>1, <2>7, <2>8 DEF WorkInv
<1>14. w \in Holding
  BY <1>1 DEF Holding
<1> QED
  BY <1>1, <1>7, <1>10, <1>12, <1>13, <1>14, ExecutionStep DEF SimulationInv

LEMMA CommitStep ==
  ASSUME SimulationInv, NEW w \in Workers, Commit(w)
  PROVE  SimulationInv'
<1>1. /\ work[w] \in Executions /\ work[w].made \in Rows /\ work[w].at = "flushed"
      /\ work[w].policy \in Policies /\ (ResultsInv(w) \/ FailureInv(w))
      /\ w \in Tasks /\ row' = work[w].made /\ UNCHANGED <<fixed, policy, crashes>>
  BY DEF SimulationInv, Commit, WorkInv, Executions
<1>2. /\ work \in [Workers -> Executions] /\ InputOK /\ RowInv
      /\ \A v \in Workers : WorkInv(v)
      /\ \A u, v \in Holding : u = v
  BY DEF SimulationInv
<1> DEFINE y == [work[w] EXCEPT !.at = "ended"]
<1>3. y \in Executions /\ y.at = "ended" /\ y.next = work[w].next /\ y.plays = work[w].plays
  BY <1>1 DEF Executions
<1>4. work' = [work EXCEPT ![w] = y]
  BY DEF Commit
<1> HIDE DEF y
<1>5. work'[w] = y /\ \A v \in Workers \ {w} : work'[v] = work[v]
  BY <1>2, <1>4
<1>6. Done \subseteq Done' /\ (work[w].plays # None => work[w].plays \in Done')
  <2>1. Done \subseteq Done'
    BY <1>1, <1>2, <1>4, DoneGrows
  <2>2. work'[w].plays = work[w].plays /\ w \in {v \in Tasks : work'[v].at = "ended"}
    BY <1>1, <1>3, <1>5
  <2> QED
    BY <2>1, <2>2 DEF Done
<1>7. /\ batch' = batch /\ baseline' = baseline /\ AtRisk' = AtRisk /\ Positions' = Positions
      /\ AllPlays' = AllPlays
      /\ \A o \in AllPlays : Expected(o)' = Expected(o)
      /\ \A o \in AllPlays : Only(o)' => Only(o) /\ (baseline \/ work[w].plays \in {o, None})
  <2>1. batch' = batch /\ baseline' = baseline
    BY <1>1 DEF fixed
  <2> QED
    BY <1>1, <1>6, <2>1, OnlyLater, FixedInput DEF Only
\* What is committed.
<1>8. /\ row'.report = None \/ IsReport(row'.report)
      /\ row.report # None => row'.report # None
      /\ row'.status = "COMPLETED" => row'.report # None
      /\ row'.status \in {"COMPLETED", "FAILED"}
      /\ baseline /\ row.progress = 100 => row'.progress = 100
      /\ baseline /\ row'.report # None => row'.progress = 100
      /\ \A o \in AllPlays : Only(o)' => \A f \in Sums :
           /\ row'.report # None => row'[f] = Expected(o)[f]
           /\ row[f] = Expected(o)[f] => row'[f] = Expected(o)[f]
  <2>1. CASE ResultsInv(w)
    <3>1. IsReport(row'.report)
      BY <1>1, <2>1 DEF ResultsInv
    <3>2. row'.report # None
      BY <1>2, <3>1, SimulationAssumption, TotalsAreNat DEF IsReport
    <3>3. work[w].plays # None
      BY <1>2, <2>1, Results DEF ResultsInv
    <3>4. \A o \in AllPlays : Only(o)' => Only(o) /\ (baseline \/ work[w].plays = o)
      BY <1>7, <3>3
    <3> QED
      BY <1>1, <2>1, <3>1, <3>2, <3>4 DEF ResultsInv
  <2>2. CASE FailureInv(w)
    <3>1. \A o \in AllPlays : Only(o)' => Only(o)
      BY <1>7
    <3> QED
      BY <1>1, <1>2, <2>2, <3>1 DEF FailureInv, RaisedInv, RowInv
  <2> QED
    BY <1>1, <2>1, <2>2
<1>9. RowInv'
  <2>1. row'.report = None \/ IsReport(row.report)'
    <3>1. IsReport(row'.report) => \E q \in AllPlays :
            row'.report = [at_risk |-> AtRisk', revenue |-> Expected(q)'.revenue]
      BY <1>7 DEF IsReport
    <3> QED
      BY <1>7, <1>8, <3>1 DEF IsReport
  <2> QED
    BY <1>1, <1>7, <1>8, <2>1 DEF RowInv
<1>10. ASSUME NEW v \in Workers  PROVE WorkInv(v)'
  <2>1. CASE v = w
    BY <1>2, <1>3, <1>5, <1>7, <2>1 DEF WorkInv
  <2>2. CASE v # w
    <3>1. work'[v] = work[v] /\ WorkInv(v)
      BY <1>2, <1>5, <2>2
    <3>2. work[v].at \notin {"running", "raised", "flushed"}
      BY <1>1, <1>2, <2>2 DEF Holding
    <3>3. work[v].at = "found" => FoundInv(v)'
      BY <1>7, <1>8, <3>1 DEF FoundInv, WorkInv
    <3>4. /\ work[v].next <= Len(batch) + 1
          /\ work[v].plays \in [Positions -> Outcomes] \union {None}
          /\ work[v].at \in {"ready", "found"} =>
               /\ work[v].next = 1 /\ work[v].revenue = 0
               /\ work[v].recovered = 0 /\ work[v].escalated = 0
          /\ work[v].at = "found" => work[v].held.status # "RUNNING"
      BY <3>1 DEF WorkInv
    <3> QED
      BY <1>7, <1>8, <3>1, <3>2, <3>3, <3>4 DEF WorkInv
  <2> QED
    BY <2>1, <2>2
<1>11. Holding' \subseteq Holding
  BY <1>3, <1>5 DEF Holding
<1>12. InputOK' /\ work' \in [Workers -> Executions] /\ policy' \in Policies
       /\ crashes' \in 0 .. MaxCrashes
  BY <1>1, <1>2, <1>3, <1>4, FixedInput DEF SimulationInv
<1> QED
  BY <1>2, <1>9, <1>10, <1>11, <1>12 DEF SimulationInv

\* A step that no execution takes.
LEMMA PolicyStep ==
  ASSUME SimulationInv, UNCHANGED <<fixed, row, work, crashes>>, policy' \in Policies
  PROVE  SimulationInv'
<1>1. Done' = Done /\ Holding' = Holding
  BY DEF Done, Holding
<1>2. RowInv' /\ \A w \in Workers : WorkInv(w)'
  BY <1>1, RowKept, WorkKept DEF SimulationInv
<1>3. InputOK'
  BY FixedInput DEF SimulationInv
<1> QED
  BY <1>1, <1>2, <1>3 DEF SimulationInv

LEMMA SimulationNext == SimulationInv /\ [Next]_vars => SimulationInv'
<1> SUFFICES ASSUME SimulationInv, [Next]_vars  PROVE SimulationInv'
  OBVIOUS
<1>1. ASSUME NEW w \in Workers, Find(w) \/ Begin(w) \/ Play(w)  PROVE SimulationInv'
  BY <1>1, FindStep, BeginStep, PlayOnStep, PlayRaisesStep
<1>2. ASSUME NEW w \in Workers, Finish(w)  PROVE SimulationInv'
  <2>1. CASE AtRisk > MaxInt
    <3>1. /\ work' = [work EXCEPT ![w].at = "ended"] /\ UNCHANGED <<fixed, row, policy>>
          /\ crashes' \in 0 .. MaxCrashes /\ work[w].at # "ended"
      BY <1>2, <2>1 DEF Finish, SimulationInv
    <3> QED
      BY <3>1, LeaveStep
  <2>2. CASE ~(AtRisk > MaxInt)
    BY <1>2, <2>2, FinishStep
  <2> QED
    BY <2>1, <2>2
<1>3. ASSUME NEW w \in Workers, RecordFailure(w) \/ Commit(w)  PROVE SimulationInv'
  BY <1>3, RecordFailureStep, CommitStep
<1>4. ASSUME NEW w \in Workers, Drop(w)  PROVE SimulationInv'
  <2>1. /\ work' = [work EXCEPT ![w].at = "ended"] /\ UNCHANGED <<fixed, row, policy>>
        /\ crashes' \in 0 .. MaxCrashes /\ work[w].at # "ended"
    BY <1>4 DEF Drop, SimulationInv
  <2> QED
    BY <2>1, LeaveStep
<1>5. ASSUME NEW w \in Workers, Crash(w)  PROVE SimulationInv'
  <2>1. crashes' \in 0 .. MaxCrashes
    BY <1>5, SimulationAssumption DEF Crash, SimulationInv
  <2>2. /\ work' = [work EXCEPT ![w].at = "ended"] \/ work' = [work EXCEPT ![w] = Ready]
        /\ UNCHANGED <<fixed, row, policy>> /\ work[w].at # "ended"
    BY <1>5 DEF Crash
  <2> QED
    BY <2>1, <2>2, LeaveStep
<1>6. CASE ActivatePolicy \/ UNCHANGED vars
  BY <1>6, PolicyStep DEF ActivatePolicy, vars, fixed, SimulationInv
<1> QED
  BY <1>1, <1>2, <1>3, <1>4, <1>5, <1>6 DEF Next, Proceed

LEMMA SimulationInvariance == Spec => []SimulationInv
BY InitInv, SimulationNext, PTL DEF Spec

-----------------------------------------------------------------------------
(* The chances of a retry.                                                  *)

\* Every row of the table starts from 0, rises with the retries, and is 0 for an expired method.
LEMMA RetryTable ==
  ASSUME NEW r \in DOMAIN RetrySuccess
  PROVE  LET c == RetrySuccess[r] IN
         /\ c[1] = 0 /\ c[2] \in Nat /\ c[3] \in Nat /\ c[4] \in Nat
         /\ c[2] <= c[3] /\ c[3] <= c[4]
         /\ r = "EXPIRED_METHOD" => c[2] = 0 /\ c[3] = 0 /\ c[4] = 0
<1>1. r \in {"INSUFFICIENT_FUNDS", "BANK_DECLINE", "EXPIRED_METHOD", "GATEWAY_TEMPORARY",
             "AUTH_FAILURE", "MANDATE_FAILURE", "SUBSCRIPTION_GRACE", "UNKNOWN",
             "CHECKOUT_ABANDONED"}
  BY DEF RetrySuccess
<1>2. CASE r \in {"INSUFFICIENT_FUNDS", "BANK_DECLINE", "EXPIRED_METHOD"}
  BY <1>2 DEF RetrySuccess
<1>3. CASE r \in {"GATEWAY_TEMPORARY", "AUTH_FAILURE", "MANDATE_FAILURE"}
  BY <1>3 DEF RetrySuccess
<1>4. CASE r \in {"SUBSCRIPTION_GRACE", "UNKNOWN", "CHECKOUT_ABANDONED"}
  BY <1>4 DEF RetrySuccess
<1> QED
  BY <1>1, <1>2, <1>3, <1>4

\* A factor keeps the order of two chances and of what the cap leaves of them.
LEMMA FactorKeepsOrder ==
  ASSUME NEW s \in DOMAIN SegmentFactor, NEW a \in Nat, NEW b \in Nat, a <= b
  PROVE  LET x == a * SegmentFactor[s]
             y == b * SegmentFactor[s]
         IN  /\ x \in Nat /\ y \in Nat /\ x <= y /\ (a = 0 => x = 0)
<1>1. s \in {"standard", "premium", "enterprise", "at_risk"}
  BY DEF SegmentFactor
<1>2. SegmentFactor[s] \in {75, 100, 115, 125}
  BY <1>1 DEF SegmentFactor
<1> DEFINE f == SegmentFactor[s]
<1>3. f \in {75, 100, 115, 125}
  BY <1>2
<1> HIDE DEF f
<1>4. a * f \in Nat /\ b * f \in Nat /\ a * f <= b * f /\ (a = 0 => a * f = 0)
  <2>1. CASE f = 75
    BY <2>1
  <2>2. CASE f = 100
    BY <2>2
  <2>3. CASE f = 115
    BY <2>3
  <2>4. CASE f = 125
    BY <2>4
  <2> QED
    BY <1>3, <2>1, <2>2, <2>3, <2>4
<1> QED
  BY <1>4 DEF f

LEMMA ChancesAreBounded ==
  ASSUME NEW r \in DOMAIN RetrySuccess, NEW s \in DOMAIN SegmentFactor, NEW n \in 0 .. 4
  PROVE  /\ SuccessProbability(r, n, s) <= 9900
         /\ SuccessProbability(r, n, s) <= SuccessProbability(r, n + 1, s)
         /\ (r = "EXPIRED_METHOD" \/ n = 0) => SuccessProbability(r, n, s) = 0
<1> DEFINE Entry(k) == IF k < 3 THEN k + 1 ELSE 4
           a == RetrySuccess[r][Entry(n)]
           b == RetrySuccess[r][Entry(n + 1)]
           x == a * SegmentFactor[s]
           y == b * SegmentFactor[s]
<1>2. a \in Nat /\ b \in Nat /\ a <= b /\ (r = "EXPIRED_METHOD" \/ n = 0 => a = 0)
  <2> DEFINE c == RetrySuccess[r]
  <2>1. /\ c[1] = 0 /\ c[2] \in Nat /\ c[3] \in Nat /\ c[4] \in Nat
        /\ c[2] <= c[3] /\ c[3] <= c[4]
        /\ r = "EXPIRED_METHOD" => c[2] = 0 /\ c[3] = 0 /\ c[4] = 0
    BY RetryTable
  <2>2. \/ n = 0 /\ a = c[1] /\ b = c[2]
        \/ n = 1 /\ a = c[2] /\ b = c[3]
        \/ n = 2 /\ a = c[3] /\ b = c[4]
        \/ n \in {3, 4} /\ a = c[4] /\ b = c[4]
    OBVIOUS
  <2> HIDE DEF c, a, b
  <2> QED
    BY <2>1, <2>2
<1>3. x \in Nat /\ y \in Nat /\ x <= y /\ (a = 0 => x = 0)
  <2> HIDE DEF a, b
  <2> QED
    BY <1>2, FactorKeepsOrder
<1>4. /\ SuccessProbability(r, n, s) = IF x < 9900 THEN x ELSE 9900
      /\ SuccessProbability(r, n + 1, s) = IF y < 9900 THEN y ELSE 9900
  BY DEF SuccessProbability
<1> HIDE DEF a, x, y
<1> QED
  BY <1>2, <1>3, <1>4

-----------------------------------------------------------------------------
(* The results of the experiment.                                           *)

\* BaselineSimulator replays the retry that the service makes of each event.
LEMMA BaselinesPlayAlike ==
  ASSUME InputOK, baseline, NEW o \in AllPlays
  PROVE  /\ BaselineMetrics.at_risk = Expected(o).at_risk
         /\ BaselineMetrics.revenue = Expected(o).revenue
         /\ BaselineMetrics.recovered = Expected(o).recovered
<1> DEFINE result == [i \in Positions |-> Verify(batch[i], ExecuteRetry(batch[i], 1), FALSE)]
           amounts == [i \in Positions |-> result[i].amount]
<1>1. ASSUME NEW i \in Positions
      PROVE  /\ result[i].outcome = "RECOVERED" <=> o[i].recovered
             /\ result[i].amount = Gains(o)[i]
  <2> DEFINE won == ExecuteRetry(batch[i], 1) = "SUCCESS"
  <2>1. o[i].recovered = won
    BY BaselineHasNoPolicy DEF Retried
  <2>2. result[i] = IF won THEN [outcome |-> "RECOVERED", amount |-> batch[i].amount]
                    ELSE [outcome |-> "FAILED", amount |-> 0]
    BY DEF Verify
  <2>3. Gains(o)[i] = IF o[i].recovered THEN batch[i].amount ELSE 0
    BY DEF Gains
  <2> HIDE DEF won, result
  <2> QED
    BY <2>1, <2>2, <2>3
<1>2. amounts = Gains(o)
  <2>1. amounts = [i \in Positions |-> Gains(o)[i]]
    BY <1>1
  <2>2. Gains(o) = [i \in Positions |-> Gains(o)[i]]
    BY DEF Gains
  <2> QED
    BY <2>1, <2>2
<1>3. {i \in Positions : result[i].outcome = "RECOVERED"} = RecoveredIn(o, Len(batch))
  BY <1>1, Results DEF RecoveredIn
<1>4. BaselineMetrics =
        [at_risk |-> Total(Amounts), revenue |-> Total(amounts),
         recovered |-> Cardinality({i \in Positions : result[i].outcome = "RECOVERED"}),
         total |-> Len(batch)]
  BY DEF BaselineMetrics, Amounts
<1>5. Expected(o) = [at_risk |-> Total(Amounts), total |-> Len(batch), revenue |-> Total(Gains(o)),
                     recovered |-> Cardinality(RecoveredIn(o, Len(batch))),
                     escalated |-> Cardinality(EscalatedIn(o, Len(batch)))]
  BY ExpectedIs
<1> HIDE DEF result, amounts
<1>6. BaselineMetrics =
        [at_risk |-> Total(Amounts), revenue |-> Total(Gains(o)),
         recovered |-> Cardinality(RecoveredIn(o, Len(batch))), total |-> Len(batch)]
  BY <1>2, <1>3, <1>4
<1> QED
  BY <1>5, <1>6

LEMMA WholeReports == SimulationInv => ReportsAreWhole
<1> SUFFICES ASSUME SimulationInv  PROVE ReportsAreWhole
  OBVIOUS
<1>1. /\ InputOK /\ policy \in Policies /\ RowInv /\ work \in [Workers -> Executions]
      /\ \A w \in Workers : WorkInv(w)
  BY DEF SimulationInv
<1>2. TypeOK
  <2>1. /\ row.status \in {"PENDING", "COMPLETED", "FAILED"} /\ row.progress \in 0 .. 100
        /\ \A f \in Sums : row[f] \in 0 .. MaxInt
    BY <1>1 DEF RowInv, Rows, Statuses, Columns, Sums
  <2>2. ASSUME NEW w \in Workers
        PROVE  /\ work[w].at \in {"ready", "found", "running", "raised", "flushed", "ended"}
               /\ work[w].next \in 1 .. Len(batch) + 1
               /\ work[w].policy \in Policies \union {None}
               /\ work[w].plays \in [Positions -> Outcomes] \union {None}
    <3>1. work[w] \in Executions /\ work[w].plays \in [Positions -> Outcomes] \union {None} /\ work[w].next <= Len(batch) + 1 /\ Len(batch) \in Nat
      BY <1>1 DEF WorkInv, InputOK
    <3> QED
      BY <3>1 DEF Executions
  <2> QED
    BY <1>1, <2>1, <2>2 DEF TypeOK, SimulationInv
<1>3. ReportComesFromOnePolicy
  BY <1>1 DEF RowInv, IsReport, ReportComesFromOnePolicy
<1>4. ASSUME NEW o \in AllPlays, row.report # None,
             baseline \/ {work[w].plays : w \in Tasks} \ {None} = {o}
      PROVE  \A f \in Sums : row[f] = Expected(o)[f]
  <2>1. Done \subseteq {work[w].plays : w \in Tasks} \ {None}
    BY DEF Done
  <2>2. Only(o)
    BY <1>4, <2>1 DEF Only
  <2> QED
    BY <1>1, <1>4, <2>2 DEF RowInv
<1>5. ColumnsMatchReport
  BY <1>4 DEF ColumnsMatchReport
<1>6. BaselinesAgree
  <2> SUFFICES ASSUME row.status = "COMPLETED", baseline
               PROVE  /\ row.revenue = BaselineMetrics.revenue
                      /\ row.recovered = BaselineMetrics.recovered
                      /\ row.at_risk = BaselineMetrics.at_risk
    BY DEF BaselinesAgree
  <2>1. row.report # None
    BY <1>1 DEF RowInv
  <2>2. PICK o \in AllPlays : row.report = [at_risk |-> AtRisk, revenue |-> Expected(o).revenue]
    BY <1>1, <2>1 DEF RowInv, IsReport
  <2>3. \A f \in Sums : row[f] = Expected(o)[f]
    BY <1>4, <2>1
  <2> QED
    BY <1>1, <2>3, BaselinesPlayAlike DEF Sums
<1>7. RetriesAreNeverCertain
  <2>1. \A i \in Positions : batch[i].segment \in DOMAIN SegmentFactor
    <3>1. Positions = 1 .. Len(batch)
      BY <1>1 DEF InputOK, Positions
    <3>2. \A i \in 1 .. Len(batch) : batch[i] \in Events
      BY <1>1 DEF InputOK
    <3> QED
      BY <3>1, <3>2 DEF Events
  <2> QED
    BY <2>1, ChancesAreBounded DEF RetriesAreNeverCertain
<1> QED
  BY <1>2, <1>3, <1>5, <1>6, <1>7 DEF ReportsAreWhole

\* The only step that changes a row is a commit, and what a baseline commits is the row,
\* except for its status when its policy was refused.
LEMMA BaselineRowKept ==
  ASSUME SimulationInv, [Next]_vars, baseline, row.report # None
  PROVE  /\ \A f \in DOMAIN row \ {"status"} : row'[f] = row[f]
         /\ row.status = "COMPLETED" /\ row'.status # "COMPLETED" =>
              \E w \in Tasks : work[w].policy \in Refused
<1>1. CASE \E w \in Workers : Commit(w)
  <2>1. PICK w \in Workers : Commit(w)
    BY <1>1
  <2>2. /\ work[w].at = "flushed" /\ row' = work[w].made /\ w \in Tasks
        /\ InputOK /\ RowInv /\ WorkInv(w) /\ work[w] \in Executions
    BY <2>1 DEF Commit, SimulationInv
  <2>3. row \in Rows
    BY <2>2 DEF RowInv
  <2>4. DOMAIN row \ {"status"} = Sums \union {"progress", "report"}
    BY <2>3 DEF Rows, Sums
  <2>5. CASE ResultsInv(w)
    <3> DEFINE o == work[w].plays
    <3>1. o \in AllPlays /\ Only(o)
      BY <2>5 DEF ResultsInv, Only
    <3>2. \A f \in Sums : row'[f] = Expected(o)[f] /\ row[f] = Expected(o)[f]
      BY <2>2, <2>5, <3>1 DEF ResultsInv, RowInv
    <3>3. row'.status = "COMPLETED" /\ row'.progress = 100 /\ row.progress = 100
      BY <2>2, <2>5 DEF ResultsInv, RowInv
    <3>4. row'.report = row.report
      <4>1. IsReport(row'.report) /\ IsReport(row.report)
        BY <2>2, <2>5 DEF ResultsInv, RowInv
      <4>2. PICK q \in AllPlays : row'.report = [at_risk |-> AtRisk, revenue |-> Expected(q).revenue]
        BY <4>1 DEF IsReport
      <4>3. PICK s \in AllPlays : row.report = [at_risk |-> AtRisk, revenue |-> Expected(s).revenue]
        BY <4>1 DEF IsReport
      <4> QED
        BY <4>2, <4>3, BaselineHasNoPolicy
    <3> QED
      BY <2>4, <3>2, <3>3, <3>4
  <2>6. CASE FailureInv(w)
    <3>1. work[w].policy \in Refused /\ row'.progress = row.progress /\ row'.report = row.report
          /\ \A f \in Sums : row'[f] = row[f]
      BY <2>2, <2>6 DEF FailureInv, RaisedInv
    <3> QED
      BY <2>2, <2>4, <3>1
  <2> QED
    BY <2>2, <2>5, <2>6 DEF WorkInv
<1>2. CASE ~ \E w \in Workers : Commit(w)
  <2>1. row' = row
    <3>1. CASE \E w \in Workers : Find(w) \/ Begin(w) \/ Play(w)
      BY <3>1 DEF Find, Begin, Play
    <3>2. CASE \E w \in Workers : Finish(w) \/ RecordFailure(w) \/ Drop(w) \/ Crash(w)
      BY <3>2 DEF Finish, RecordFailure, Drop, Crash
    <3>3. CASE ActivatePolicy \/ UNCHANGED vars
      BY <3>3 DEF ActivatePolicy, vars
    <3> QED
      BY <1>2, <3>1, <3>2, <3>3 DEF Next, Proceed
  <2> QED
    BY <2>1
<1> QED
  BY <1>1, <1>2

\* Whatever the batch, however many executions of a run there are, of the request or of the
\* task, how often they die and are delivered again, whatever the agent is answered in each
\* and whatever policy is activated meanwhile, readable or not, a report is that of one
\* execution of the whole batch under one policy, the columns are those of the report unless
\* executions came to different outcomes, and the two baselines agree (execute_run).
THEOREM ReportsAreOfTheWholeBatch == Spec => []ReportsAreWhole
BY SimulationInvariance, WholeReports, PTL

\* What a baseline run has reported stays as it is, whoever executes it again; a completed one
\* can only turn to FAILED, through an execution that found a policy it could not read.
THEOREM SeedsReproduceBaselines == Spec => BaselineIsReproducible
<1>1. SimulationInv /\ [Next]_vars =>
        [baseline /\ row.report # None =>
           /\ \A f \in DOMAIN row \ {"status"} : row'[f] = row[f]
           /\ row.status = "COMPLETED" /\ row'.status # "COMPLETED" =>
                \E w \in Tasks : work[w].policy \in Refused]_vars
  BY BaselineRowKept
<1> QED
  BY <1>1, SimulationInvariance, PTL DEF Spec, BaselineIsReproducible

=============================================================================
