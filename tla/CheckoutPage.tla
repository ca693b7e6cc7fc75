------------------------------- MODULE CheckoutPage -------------------------------
(***************************************************************************)
(* The browser's checkout page (CheckoutPage.tsx): generate or enter a case, *)
(* have its order created, open Razorpay's window, have the payment         *)
(* verified.  Every await is a point where other callbacks run; between      *)
(* them the page is single-threaded.                                        *)
(*                                                                         *)
(* The server answers as razorpay_checkout.py does: the order of a case is   *)
(* its own and is returned again, and a 200 of /verify says "verified",      *)
(* "pending" or "verification_failed" in its body.                          *)
(***************************************************************************)
EXTENDS Naturals, FiniteSets

CONSTANTS
  Cases,         \* the cases generated or entered
  MaxCheckouts,  \* bound on the checkouts started
  NoCase

ASSUME PageAssumption == NoCase \notin Cases /\ MaxCheckouts \in Nat

VARIABLES
  page,       \* the component's state
  checkouts,  \* the calls of startCheckout, with what their closures hold
  recovered,  \* the cases the server has marked RECOVERED
  overtaken   \* a generation ended while a checkout was under way (history)

checkoutVars == <<page, checkouts, recovered, overtaken>>

Checkouts == 1 .. MaxCheckouts

CheckoutInit ==
  /\ page \in [case : Cases \union {NoCase}, generating : {FALSE}, state : {"READY"}]
  /\ checkouts = [k \in Checkouts |-> [at |-> "unused", case |-> NoCase, order |-> NoCase,
                                       answer |-> "none"]]
  /\ recovered = {}
  /\ overtaken = FALSE

At(places) == {k \in Checkouts : checkouts[k].at \in places}
Running == At({"ordering", "loading", "verifying"})

\* Razorpay's window covers the page: nothing on it can be used.
Usable == At({"open"}) = {}

-----------------------------------------------------------------------------
\* handleGenerateCase, its button being disabled while one is generated.
GenerateCase ==
  /\ Usable /\ ~page.generating
  /\ page' = [page EXCEPT !.generating = TRUE]
  /\ UNCHANGED <<checkouts, recovered, overtaken>>

\* Its end sets the state of the page, whatever a checkout under way had set it to.
CaseGenerated ==
  /\ page.generating
  /\ \/ \E c \in Cases : page' = [case |-> c, generating |-> FALSE, state |-> "READY"]
     \/ page' = [page EXCEPT !.generating = FALSE, !.state = "ERROR"]
  /\ overtaken' = (overtaken \/ Running # {})
  /\ UNCHANGED <<checkouts, recovered>>

EnterCase ==
  /\ Usable
  /\ \E c \in Cases \union {NoCase} : page' = [page EXCEPT !.case = c]
  /\ UNCHANGED <<checkouts, recovered, overtaken>>

\* Seeded fault: the button can be used during the verification.
StartCheckoutWhileVerifying ==
  /\ Usable /\ page.state # "CREATING_ORDER" /\ page.case # NoCase
  /\ \E k \in At({"unused"}) :
       checkouts' = [checkouts EXCEPT ![k].at = "ordering", ![k].case = page.case]
  /\ page' = [page EXCEPT !.state = "CREATING_ORDER"]
  /\ UNCHANGED <<recovered, overtaken>>

\* startCheckout up to its first await: the closure keeps the case of this moment.
StartCheckout ==
  /\ Usable /\ page.state \notin {"CREATING_ORDER", "VERIFYING"}
  /\ IF page.case = NoCase
     THEN page' = [page EXCEPT !.state = "ERROR"] /\ UNCHANGED checkouts
     ELSE /\ \E k \in At({"unused"}) :
               checkouts' = [checkouts EXCEPT ![k].at = "ordering", ![k].case = page.case]
          /\ page' = [page EXCEPT !.state = "CREATING_ORDER"]
  /\ UNCHANGED <<recovered, overtaken>>

\* POST /payments/orders answers with the case's order; the script is loaded next.
OrderCreated(k) ==
  /\ checkouts[k].at = "ordering"
  /\ checkouts' = [checkouts EXCEPT ![k].at = "loading", ![k].order = checkouts[k].case]
  /\ UNCHANGED <<page, recovered, overtaken>>

\* Seeded fault: the error is caught and the state forgotten.
CheckoutFailsSilently(k) ==
  /\ checkouts[k].at \in {"ordering", "loading"}
  /\ checkouts' = [checkouts EXCEPT ![k].at = "ended"]
  /\ UNCHANGED <<page, recovered, overtaken>>

\* The outer catch: the order or the script could not be had.
CheckoutFails(k) ==
  /\ checkouts[k].at \in {"ordering", "loading"}
  /\ checkouts' = [checkouts EXCEPT ![k].at = "ended"]
  /\ page' = [page EXCEPT !.state = "ERROR"]
  /\ UNCHANGED <<recovered, overtaken>>

OpenWindow(k) ==
  /\ checkouts[k].at = "loading"
  /\ checkouts' = [checkouts EXCEPT ![k].at = "open"]
  /\ page' = [page EXCEPT !.state = "CHECKOUT_OPEN"]
  /\ UNCHANGED <<recovered, overtaken>>

Dismiss(k) ==
  /\ checkouts[k].at = "open"
  /\ checkouts' = [checkouts EXCEPT ![k].at = "ended"]
  /\ page' = [page EXCEPT !.state = "DISMISSED"]
  /\ UNCHANGED <<recovered, overtaken>>

\* handler, called by Razorpay with the payment of the window's order; POST /verify names
\* the order and the closure's case.
Pay(k) ==
  /\ checkouts[k].at = "open"
  /\ checkouts' = [checkouts EXCEPT ![k].at = "verifying"]
  /\ page' = [page EXCEPT !.state = "VERIFYING"]
  /\ UNCHANGED <<recovered, overtaken>>

\* The answer of /verify, or the loss of it after the server had reconciled.  A case that
\* does not own the order is refused.  The page looks at the status code alone.
VerifyAnswered(k) ==
  /\ checkouts[k].at = "verifying"
  /\ \E a \in {"recovered", "uncaptured", "refused"} :
       /\ a # "refused" => checkouts[k].case = checkouts[k].order
       /\ checkouts' = [checkouts EXCEPT ![k].at = "ended", ![k].answer = a]
       /\ page' = [page EXCEPT !.state = IF a = "refused" THEN "ERROR" ELSE "VERIFIED"]
       /\ \/ recovered' = recovered \union {checkouts[k].order}
          \/ a # "recovered" /\ UNCHANGED recovered
  /\ UNCHANGED overtaken

CheckoutNext ==
  \/ GenerateCase \/ CaseGenerated \/ EnterCase \/ StartCheckout
  \/ \E k \in Checkouts :
       \/ OrderCreated(k) \/ CheckoutFails(k) \/ OpenWindow(k)
       \/ Dismiss(k) \/ Pay(k) \/ VerifyAnswered(k)

-----------------------------------------------------------------------------
(* Properties.                                                              *)

\* The page and its calls keep their types: a checkout that was started has a case.
CheckoutPageTypeOK ==
  /\ page \in [case : Cases \union {NoCase}, generating : BOOLEAN,
               state : {"READY", "CREATING_ORDER", "CHECKOUT_OPEN", "VERIFYING", "VERIFIED",
                        "DISMISSED", "ERROR"}]
  /\ \A k \in Checkouts :
       checkouts[k] \in
         IF checkouts[k].at = "unused"
         THEN [at : {"unused"}, case : {NoCase}, order : {NoCase}, answer : {"none"}]
         ELSE [at : {"ordering", "loading", "open", "verifying", "ended"}, case : Cases,
               order : Cases \union {NoCase},
               answer : {"none", "recovered", "uncaptured", "refused"}]
  /\ recovered \subseteq Cases
  /\ overtaken \in BOOLEAN

\* However the field was edited meanwhile, a payment is verified under the case its order
\* was created for, so the server never refuses it as another case's ("Case does not own
\* this order").
VerifyNamesTheOrdersCase ==
  \A k \in At({"verifying"}) : checkouts[k].case = checkouts[k].order

\* The page keeps to one checkout at a time, unless a generation ended meanwhile and made
\* its button usable again.
SecondCheckoutOnlyWhenOvertaken == Cardinality(Running) > 1 => overtaken

\* The page says VERIFIED only if the server accepted a payment, and the case of an
\* accepted payment is recovered except when the server said it was not captured: the page
\* then says "Case marked RECOVERED" of a case that is not.
VerifiedMeansAccepted ==
  /\ page.state = "VERIFIED" => \E k \in Checkouts : checkouts[k].answer \in {"recovered", "uncaptured"}
  /\ \A k \in Checkouts : checkouts[k].answer = "recovered" => checkouts[k].order \in recovered

\* Every request is answered or fails, and the page can be used again afterwards.
CheckoutPageComesBack ==
  /\ page.generating ~> ~page.generating
  /\ page.state \in {"CREATING_ORDER", "VERIFYING"} ~> page.state \notin {"CREATING_ORDER", "VERIFYING"}

=============================================================================
