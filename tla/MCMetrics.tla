------------------------------- MODULE MCMetrics -------------------------------
(* Ingestion of one event of one customer, read by the metrics.               *)
EXTENDS CaseMetrics

CONSTANTS k1, a

MCCustomerOf == [k \in AllKeys |-> a]
MCEmailHash == [c \in Customers |-> 1]
=============================================================================
