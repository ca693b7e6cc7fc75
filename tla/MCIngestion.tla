------------------------------- MODULE MCIngestion -------------------------------
(* Two events and a demo scenario.  The events' customers a and b have stubs with the  *)
(* same email hash; the demo's customer d has one of its own.                          *)
EXTENDS EventIngestion

CONSTANTS k1, k2, k3, a, b, d

MCCustomerOf == [k \in AllKeys |-> IF k = k1 THEN a ELSE IF k = k2 THEN b ELSE d]
MCEmailHash == [c \in Customers |-> IF c = d THEN 2 ELSE 1]
=============================================================================
