------------------------------ MODULE CaseMetrics ------------------------------
(***************************************************************************)
(* The metrics (metrics_service.py, endpoints/metrics.py) read the cases    *)
(* that event ingestion stored.  The totals are computed first; the table   *)
(* by failure reason comes last and asks each stored reason for its         *)
(* .value.  The column is String(50), so SQLAlchemy hands back a plain str  *)
(* that has no such attribute, and the whole request ends in an error.      *)
(***************************************************************************)
EXTENDS EventIngestion

Error == [answered |-> FALSE, total |-> 0]

\* The cases a request is about.  No code ever sets simulation_run_id on a case, so a
\* request for one run is about none.
Selected(runId) == IF runId = None THEN {k \in AllKeys : cases[k].count > 0} ELSE {}

\* compute_overview: zeros for no case, and an error as soon as there is one, whose failure
\* reason has no .value.  The totals it computes before are lost with the answer.
Overview(runId) ==
  IF Selected(runId) # {} THEN Error ELSE [answered |-> TRUE, total |-> 0]

\* endpoints/metrics.py: "Real-time metrics computed from the database."  Whatever is
\* stored, the overview of all cases is answered and counts the stored ones.
OverviewCountsTheCases ==
  Overview(None) =
    [answered |-> TRUE, total |-> Cardinality({k \in AllKeys : cases[k].count > 0})]

=============================================================================
