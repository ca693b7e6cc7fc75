--------------------------------- MODULE MCConsole ---------------------------------
(***************************************************************************)
(* The two pages of the browser that talk to the API.  The router mounts one *)
(* page at a time, and the three parts of the dashboard share no state, so a *)
(* behaviour stays on one part.                                             *)
(***************************************************************************)
EXTENDS CheckoutPage, Dashboard

VARIABLE part

MCVars == <<part, checkoutVars, dashboardVars>>

MCInit == part \in {"checkout", "list", "panel", "lab"} /\ CheckoutInit /\ DashboardInit

On(name, Step, others) == part = name /\ Step /\ UNCHANGED <<part, others>>

MCNext ==
  \/ On("checkout", CheckoutNext, dashboardVars)
  \/ On("list", ListNext, checkoutVars)
  \/ On("panel", PanelNext, checkoutVars)
  \/ On("lab", LabNext, checkoutVars)

\* The browser ends every request it makes, with an answer or an error.
MCFairness ==
  /\ WF_MCVars(On("checkout", CaseGenerated, dashboardVars))
  /\ \A k \in Checkouts :
       WF_MCVars(On("checkout", OrderCreated(k) \/ CheckoutFails(k) \/ OpenWindow(k)
                                  \/ VerifyAnswered(k), dashboardVars))
  /\ \A k \in 1 .. MaxLoads :
       WF_MCVars(On("list", k <= Len(loads) /\ (ListIsRead(k) \/ ListArrives(k)), checkoutVars))
  /\ \A k \in 1 .. MaxTrails :
       WF_MCVars(On("panel", k <= Len(trails) /\ TrailArrives(k), checkoutVars))
  /\ WF_MCVars(On("lab", SimulationAnswered, checkoutVars))

MCSpec == MCInit /\ [][MCNext]_MCVars /\ MCFairness

\* Whatever request of the dashboard fails, the part it belongs to can be used again (the
\* finally of loadData, selectCase and runSimulation).
DashboardPartsComeBack ==
  /\ part = "list" => (list.loading ~> ~list.loading)
  /\ part = "panel" => (panel.loading ~> ~panel.loading)
  /\ part = "lab" => (lab.running ~> ~lab.running)

\* Every answer is taken for that of the question it answers: the payment for its order's
\* case, a success for the server's, a trail for the selected case's, a result for the last
\* run's, a list for the newest; where a conjunct allows for an exception it names the one
\* situation that is wrong (the handlers of CheckoutPage and DashboardPage keep what they
\* ask about in closures while the user goes on).
AnswersMeetTheirQuestion ==
  /\ [](/\ CheckoutPageTypeOK
        /\ VerifyNamesTheOrdersCase
        /\ VerifiedMeansAccepted
        /\ OtherTrailOnlyWhenCrossed
        /\ ResultIsOfLastRun)
  /\ OlderListOnlyAfterReset

\* Whatever request fails, the page it belongs to can be used again.
PagesComeBack == CheckoutPageComesBack /\ DashboardPartsComeBack

=============================================================================
