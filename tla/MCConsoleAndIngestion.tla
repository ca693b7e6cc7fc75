----------------------------- MODULE MCConsoleAndIngestion -----------------------------
(***************************************************************************)
(* A page of the browser, or the events that callers send to the API: the   *)
(* two models share no state, so a behaviour stays with one of them, and    *)
(* the other one waits in its first state.                                  *)
(***************************************************************************)
EXTENDS MCConsole, MCIngestion

SideInit ==
  /\ Init
  /\ \/ MCInit
     \/ part = "events" /\ CheckoutInit /\ page.case = NoCase /\ DashboardInit

SideNext ==
  \/ MCNext /\ UNCHANGED vars
  \/ part = "events" /\ Next /\ UNCHANGED MCVars

\* Fairness of EventIngestion, where it applies.
EventsFairness ==
  /\ \A h \in Requests : WF_vars(part = "events" /\ Proceed(h))
  /\ \A k \in Keys :
       SF_vars(part = "events" /\ (Duplicate(k) \/ \E h \in Requests : Check(h, k)))

SideSpec == SideInit /\ [][SideNext]_<<MCVars, vars>> /\ MCFairness /\ EventsFairness

\* Every event that callers keep sending is answered (POST /events, ingest_payment_event).
CallersAreAnswered == part = "events" => EventsAreAnswered

=============================================================================
