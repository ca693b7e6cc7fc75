---------------------- MODULE CheckoutReconciliationProofs ----------------------
(***************************************************************************)
(* Theorems about the checkout: any cases, orders, payments and concurrent  *)
(* requests, any number of crashes and of provider outages.                 *)
(*                                                                         *)
(* CheckoutInv says what a request in progress may rely on.  It holds the   *)
(* row lock of its case, so the order it read is still the stored one and   *)
(* the case is still open; a payment it was told of has been captured and   *)
(* can only be refunded; and an order a customer was shown is stored.       *)
(*                                                                         *)
(* The same invariant carries the refinement: for any case, the checkout    *)
(* implements the steps RecoveryService has for it.                         *)
(***************************************************************************)
EXTENDS CheckoutRefinement, TLAPS

Settled == {"captured", "refunded"}

\* The case rows: an order belongs to the case that stores it, and a recovered case has
\* one ledger entry and the settled payment of its own order.
RowInv(c) ==
  LET r == case[c]
  IN  /\ r.order # None => orders[r.order] = c
      /\ r.recovered <=> r.payment # None
      /\ r.recovered => /\ r.stopped /\ r.order # None
                        /\ payments[r.payment].order = r.order
                        /\ payments[r.payment].status \in Settled
      /\ ledger[c].recovered = IF r.recovered THEN 1 ELSE 0

\* A payment is for an order that was shown.
PaymentInv(p) ==
  /\ payments[p].status = "none" => payments[p].order = None
  /\ payments[p].status # "none" => payments[p].order \in disclosed
  /\ [payment |-> p, type |-> "payment.captured"] \in receipts => payments[p].status \in Settled

\* What request h knows, by how far it has come.
TxnInv(h) ==
  LET t == txn[h]
  IN  /\ t.at = "idle" => t.case = None /\ t.event = None
      /\ t.at \in {"ordering", "ordered"} =>
           /\ t.case \in Cases /\ t.event = None
           /\ case[t.case].order = None /\ ~case[t.case].recovered
      /\ t.at = "ordered" => t.order \in Orders /\ orders[t.order] = t.case
      /\ t.at = "received" => t.case = None /\ t.event # None /\ t.payment = t.event.payment
      /\ t.at \in {"verifying", "fetched"} =>
           /\ t.case \in Cases /\ t.payment \in Payments
           /\ t.order = case[t.case].order /\ t.order # None /\ ~case[t.case].recovered
           /\ t.event # None => t.event = [payment |-> t.payment, type |-> "payment.captured"]
      /\ t.event # None /\ t.event.type = "payment.captured" =>
           payments[t.payment].status \in Settled
      /\ t.at = "fetched" /\ t.seen.order # None =>
           /\ t.seen.order = payments[t.payment].order
           /\ t.seen.status = "captured" => payments[t.payment].status \in Settled
           /\ t.event # None => t.seen.status \in Settled
           /\ t.seen.status = "refunded" => payments[t.payment].status = "refunded"

\* FOR UPDATE: a row lock has one holder.
LockInv == \A g, h \in Handlers : g # h /\ txn[g].case # None => txn[g].case # txn[h].case

CheckoutInv ==
  /\ TypeOK
  /\ \A c \in Cases : RowInv(c)
  /\ \A p \in Payments : PaymentInv(p)
  /\ \A h \in Handlers : TxnInv(h)
  /\ LockInv
  /\ ShownOrderIsStored
  /\ ReceiptMeansReconciled

-----------------------------------------------------------------------------
(* Initial state, and what a step leaves alone.                             *)

LEMMA InitInv == Init => CheckoutInv
<1> SUFFICES ASSUME Init  PROVE CheckoutInv
  OBVIOUS
<1>1. Unavailable \in Fetched
  BY DEF Unavailable, Fetched
<1>2. Idle \in Transactions
  BY <1>1 DEF Idle, Transactions
<1>3. [order |-> None, status |-> "none"] \in Fetched
  BY DEF Fetched
<1>4. 0 \in 0 .. MaxCrashes /\ 0 \in 0 .. MaxOutages
  BY CheckoutAssumption
<1>5. TypeOK
  BY <1>2, <1>3, <1>4 DEF Init, TypeOK, CaseRows, Ledgers
<1>6. ASSUME NEW c \in Cases  PROVE RowInv(c)
  BY DEF Init, RowInv
<1>7. ASSUME NEW p \in Payments  PROVE PaymentInv(p)
  BY DEF Init, PaymentInv
<1>8. ASSUME NEW h \in Handlers  PROVE TxnInv(h)
  BY DEF Init, TxnInv, Idle
<1>9. LockInv /\ ShownOrderIsStored /\ ReceiptMeansReconciled
  BY DEF Init, LockInv, Idle, ShownOrderIsStored, ReceiptMeansReconciled
<1> QED
  BY <1>5, <1>6, <1>7, <1>8, <1>9 DEF CheckoutInv

\* What the provider never takes back.
OrdersKept == \A o \in Orders : orders[o] # None => orders'[o] = orders[o]

PaymentsKept ==
  \A p \in Payments :
    /\ payments[p].status # "none" => payments'[p].order = payments[p].order
    /\ payments[p].status \in Settled => payments'[p].status \in Settled
    /\ payments[p].status = "refunded" => payments'[p].status = "refunded"

\* A request that a step leaves alone, with the case it has locked, keeps what it knows.
LEMMA TxnFrame ==
  ASSUME CheckoutInv, NEW h \in Handlers, txn'[h] = txn[h], OrdersKept, PaymentsKept,
         txn[h].case \in Cases => /\ case'[txn[h].case].order = case[txn[h].case].order
                                  /\ case'[txn[h].case].recovered = case[txn[h].case].recovered
  PROVE  TxnInv(h)'
<1>1. /\ TxnInv(h) /\ txn[h] \in Transactions /\ \A p \in Payments : PaymentInv(p)
      /\ None \notin Cases
  BY CheckoutAssumption DEF CheckoutInv, TypeOK
<1>2. /\ txn[h].event # None => txn[h].event \in Events /\ txn[h].event.payment \in Payments
      /\ txn[h].order \in Orders \union {None}
  BY <1>1 DEF Transactions, Events
<1>3. txn[h].event # None => txn[h].payment \in Payments
  <2>1. txn[h].at \in {"idle", "ordering", "ordered", "received", "verifying", "fetched"}
    BY <1>1 DEF Transactions
  <2> QED
    BY <1>1, <1>2, <2>1 DEF TxnInv
<1>4. txn[h].at = "ordered" => orders'[txn[h].order] = txn[h].case
  BY <1>1 DEF TxnInv, OrdersKept
<1>5. txn[h].event # None /\ txn[h].event.type = "payment.captured" =>
        payments'[txn[h].payment].status \in Settled
  BY <1>1, <1>3 DEF TxnInv, PaymentsKept
<1>6. txn[h].at = "fetched" /\ txn[h].seen.order # None =>
        /\ txn[h].seen.order = payments'[txn[h].payment].order
        /\ txn[h].seen.status = "captured" => payments'[txn[h].payment].status \in Settled
        /\ txn[h].event # None => txn[h].seen.status \in Settled
        /\ txn[h].seen.status = "refunded" => payments'[txn[h].payment].status = "refunded"
  BY <1>1 DEF TxnInv, PaymentsKept, PaymentInv
<1> QED
  BY <1>1, <1>4, <1>5, <1>6 DEF TxnInv

\* A step of request h that touches no row, receipt, order or payment: what is left to show
\* is about h itself.
LEMMA RequestStep ==
  ASSUME CheckoutInv, NEW h \in Handlers, NEW t \in Transactions,
         txn' = [txn EXCEPT ![h] = t],
         UNCHANGED <<case, ledger, receipts, provider, disclosed>>,
         crashes' \in 0 .. MaxCrashes, outages' \in 0 .. MaxOutages,
         t.case \in {None, txn[h].case} \/ \A g \in Handlers : txn[g].case # t.case,
         TxnInv(h)'
  PROVE  CheckoutInv'
<1>1. TypeOK /\ txn \in [Handlers -> Transactions]
  BY DEF CheckoutInv, TypeOK
<1>2. /\ txn' \in [Handlers -> Transactions] /\ txn'[h] = t
      /\ \A g \in Handlers \ {h} : txn'[g] = txn[g]
  BY <1>1
<1>3. TypeOK'
  BY <1>1, <1>2 DEF TypeOK, provider
<1>4. OrdersKept /\ PaymentsKept
  BY DEF OrdersKept, PaymentsKept, provider
<1>5. ASSUME NEW g \in Handlers  PROVE TxnInv(g)'
  BY <1>2, <1>4, TxnFrame
<1>6. LockInv'
  <2> SUFFICES ASSUME NEW f \in Handlers, NEW g \in Handlers, f # g, txn'[f].case # None
               PROVE  txn'[f].case # txn'[g].case
    BY DEF LockInv
  <2>1. txn[f].case # None => txn[f].case # txn[g].case
    BY DEF CheckoutInv, LockInv
  <2>2. txn[g].case # None => txn[g].case # txn[f].case
    BY DEF CheckoutInv, LockInv
  <2> QED
    BY <1>2, <2>1, <2>2
<1>7. ShownOrderIsStored' /\ ReceiptMeansReconciled'
  BY DEF CheckoutInv, ShownOrderIsStored, ReceiptMeansReconciled, provider
<1>8. /\ \A c \in Cases : RowInv(c)'
      /\ \A p \in Payments : PaymentInv(p)'
  BY DEF CheckoutInv, RowInv, PaymentInv, provider
<1> QED
  BY <1>3, <1>5, <1>6, <1>7, <1>8 DEF CheckoutInv

\* The end of request h, which may have written the row it has locked.
LEMMA RequestEnds ==
  ASSUME CheckoutInv, NEW h \in Handlers, Ends(h), UNCHANGED provider,
         \A c \in Cases : \/ c = txn[h].case
                          \/ case'[c].order = case[c].order /\ case'[c].recovered = case[c].recovered
  PROVE  /\ txn' \in [Handlers -> Transactions]
         /\ \A g \in Handlers : TxnInv(g)'
         /\ LockInv'
<1>1. txn \in [Handlers -> Transactions] /\ None \notin Cases
  BY CheckoutAssumption DEF CheckoutInv, TypeOK
<1>2. Idle \in Transactions
  BY DEF Idle, Transactions, Unavailable, Fetched
<1>3. /\ txn' \in [Handlers -> Transactions] /\ txn'[h] = Idle
      /\ \A g \in Handlers \ {h} : txn'[g] = txn[g]
  BY <1>1, <1>2 DEF Ends
<1>4. OrdersKept /\ PaymentsKept
  BY DEF OrdersKept, PaymentsKept, provider
<1>5. TxnInv(h)'
  BY <1>3 DEF TxnInv, Idle
<1>6. ASSUME NEW g \in Handlers \ {h}  PROVE TxnInv(g)'
  <2>1. txn[g].case \in Cases => txn[g].case # txn[h].case
    BY <1>1 DEF CheckoutInv, LockInv
  <2> QED
    BY <1>3, <1>4, <2>1, TxnFrame
<1>7. LockInv'
  BY <1>3 DEF CheckoutInv, LockInv, Idle
<1> QED
  BY <1>3, <1>5, <1>6, <1>7

\* A step of nobody's request that writes no order or recovery into a row.
LEMMA RequestsStay ==
  ASSUME CheckoutInv, txn' = txn, OrdersKept, PaymentsKept,
         \A c \in Cases : case'[c].order = case[c].order /\ case'[c].recovered = case[c].recovered
  PROVE  (\A g \in Handlers : TxnInv(g)') /\ LockInv'
BY TxnFrame DEF CheckoutInv, LockInv

-----------------------------------------------------------------------------
(* Steps that begin or carry on a request.                                  *)

LEMMA LockForOrderInv ==
  ASSUME CheckoutInv, NEW h \in Handlers, NEW c \in Cases, LockForOrder(h, c)
  PROVE  CheckoutInv'
<1> DEFINE t == [Idle EXCEPT !.at = "ordering", !.case = c]
<1>1. t \in Transactions /\ t.case = c /\ t.at = "ordering" /\ t.event = None
  BY DEF Idle, Transactions, Unavailable, Fetched
<1>2. txn \in [Handlers -> Transactions] /\ crashes \in 0 .. MaxCrashes /\ outages \in 0 .. MaxOutages
  BY DEF CheckoutInv, TypeOK
<1>3. /\ txn' = [txn EXCEPT ![h] = t] /\ UNCHANGED <<case, ledger, receipts, provider, disclosed>>
      /\ crashes' \in 0 .. MaxCrashes /\ outages' \in 0 .. MaxOutages
      /\ \A g \in Handlers : txn[g].case # c
      /\ case[c].order = None /\ ~case[c].recovered
  BY <1>2 DEF LockForOrder, Unlocked
<1> HIDE DEF t
<1>4. TxnInv(h)'
  BY <1>1, <1>2, <1>3 DEF TxnInv
<1> QED
  BY <1>1, <1>3, <1>4, RequestStep

LEMMA LockForCallbackInv ==
  ASSUME CheckoutInv, NEW h \in Handlers, NEW c \in Cases, NEW p \in Payments,
         LockForCallback(h, c, p)
  PROVE  CheckoutInv'
<1> DEFINE t == [Idle EXCEPT !.at = "verifying", !.case = c, !.order = case[c].order,
                             !.payment = p]
<1>1. case \in [Cases -> CaseRows] /\ case[c].order \in Orders \union {None}
  BY DEF CheckoutInv, TypeOK, CaseRows
<1>2. /\ t \in Transactions /\ t.case = c /\ t.at = "verifying" /\ t.event = None
      /\ t.payment = p /\ t.order = case[c].order
  BY <1>1 DEF Idle, Transactions, Unavailable, Fetched
<1>3. txn \in [Handlers -> Transactions] /\ crashes \in 0 .. MaxCrashes /\ outages \in 0 .. MaxOutages
  BY DEF CheckoutInv, TypeOK
<1>4. /\ txn' = [txn EXCEPT ![h] = t] /\ UNCHANGED <<case, ledger, receipts, provider, disclosed>>
      /\ crashes' \in 0 .. MaxCrashes /\ outages' \in 0 .. MaxOutages
      /\ \A g \in Handlers : txn[g].case # c
      /\ case[c].order # None /\ ~case[c].recovered
  BY <1>3 DEF LockForCallback, Unlocked
<1> HIDE DEF t
<1>5. TxnInv(h)'
  BY <1>2, <1>3, <1>4 DEF TxnInv
<1> QED
  BY <1>2, <1>4, <1>5, RequestStep

LEMMA ReceiveInv ==
  ASSUME CheckoutInv, NEW h \in Handlers, NEW e \in Events, Receive(h, e)
  PROVE  CheckoutInv'
<1> DEFINE t == [Idle EXCEPT !.at = "received", !.event = e, !.payment = e.payment]
<1>1. e # None /\ e.payment \in Payments
  BY CheckoutAssumption DEF Events
<1>2. /\ t \in Transactions /\ t.case = None /\ t.at = "received" /\ t.event = e
      /\ t.payment = e.payment
  BY <1>1 DEF Idle, Transactions, Unavailable, Fetched
<1>3. txn \in [Handlers -> Transactions] /\ crashes \in 0 .. MaxCrashes /\ outages \in 0 .. MaxOutages
  BY DEF CheckoutInv, TypeOK
<1>4. /\ txn' = [txn EXCEPT ![h] = t] /\ UNCHANGED <<case, ledger, receipts, provider, disclosed>>
      /\ crashes' \in 0 .. MaxCrashes /\ outages' \in 0 .. MaxOutages
      /\ payments' = payments /\ Emitted(e)
  BY <1>3 DEF Receive, provider
<1> HIDE DEF t
<1>5. TxnInv(h)'
  BY <1>1, <1>2, <1>3, <1>4 DEF TxnInv, Emitted, Settled
<1> QED
  BY <1>2, <1>4, <1>5, RequestStep

LEMMA LockForWebhookInv ==
  ASSUME CheckoutInv, NEW h \in Handlers, LockForWebhook(h)
  PROVE  CheckoutInv'
<1>1. /\ txn \in [Handlers -> Transactions] /\ case \in [Cases -> CaseRows] /\ TxnInv(h)
      /\ crashes \in 0 .. MaxCrashes /\ outages \in 0 .. MaxOutages
  BY DEF CheckoutInv, TypeOK
<1>2. PICK c \in Matches(h) :
        /\ Unlocked(c) /\ ~case[c].recovered
        /\ txn' = [txn EXCEPT ![h].at = "verifying", ![h].case = c, ![h].order = case[c].order]
  BY DEF LockForWebhook
<1>3. c \in Cases /\ case[c].order # None /\ case[c].order \in Orders \union {None}
  BY <1>1 DEF Matches, CaseRows
<1> DEFINE t == [txn[h] EXCEPT !.at = "verifying", !.case = c, !.order = case[c].order]
<1>4. txn[h] \in Transactions /\ txn[h].event \in Events /\ txn[h].at = "received"
  BY <1>1 DEF TxnInv, Transactions, LockForWebhook
<1>5. /\ t \in Transactions /\ t.case = c /\ t.at = "verifying" /\ t.event = txn[h].event
      /\ t.payment = txn[h].payment /\ t.order = case[c].order
  BY <1>3, <1>4 DEF Transactions
<1>6. /\ txn' = [txn EXCEPT ![h] = t] /\ UNCHANGED <<case, ledger, receipts, provider, disclosed>>
      /\ crashes' \in 0 .. MaxCrashes /\ outages' \in 0 .. MaxOutages
      /\ payments' = payments
      /\ \A g \in Handlers : txn[g].case # c
  BY <1>1, <1>2 DEF LockForWebhook, Unlocked, provider
<1>7. t.event = [payment |-> t.payment, type |-> "payment.captured"] /\ t.payment \in Payments
  BY <1>1, <1>4, <1>5 DEF LockForWebhook, TxnInv, Events
<1>8. payments[t.payment].status \in Settled
  BY <1>1, <1>4, <1>5 DEF LockForWebhook, TxnInv
<1>9. txn'[h] = t
  BY <1>1, <1>6
<1> HIDE DEF t
<1>10. TxnInv(h)'
  BY <1>2, <1>3, <1>5, <1>6, <1>7, <1>8, <1>9 DEF TxnInv
<1> QED
  BY <1>5, <1>6, <1>10, RequestStep

\* What the provider answers is true when it answers, and a refund stays one.
LEMMA FetchInv ==
  ASSUME CheckoutInv, NEW h \in Handlers, Fetch(h)
  PROVE  CheckoutInv'
<1>1. /\ txn \in [Handlers -> Transactions] /\ payments \in [Payments -> Fetched] /\ TxnInv(h)
      /\ crashes \in 0 .. MaxCrashes /\ outages \in 0 .. MaxOutages
      /\ txn[h] \in Transactions /\ txn[h].at = "verifying"
      /\ None \notin Orders
  BY CheckoutAssumption DEF CheckoutInv, TypeOK, Fetch
<1>2. txn[h].payment \in Payments /\ payments[txn[h].payment] \in Fetched
  BY <1>1 DEF TxnInv
<1>3. Unavailable \in Fetched /\ Unavailable.order = None
  BY DEF Unavailable, Fetched
<1>4. PICK seen \in {payments[txn[h].payment], Unavailable} :
        txn' = [txn EXCEPT ![h].at = "fetched", ![h].seen = seen]
  BY DEF Fetch
<1> DEFINE t == [txn[h] EXCEPT !.at = "fetched", !.seen = seen]
<1>5. /\ t \in Transactions /\ t.at = "fetched" /\ t.seen = seen /\ t.case = txn[h].case
      /\ t.order = txn[h].order /\ t.payment = txn[h].payment /\ t.event = txn[h].event
  BY <1>1, <1>2, <1>3 DEF Transactions
<1>6. /\ txn' = [txn EXCEPT ![h] = t] /\ UNCHANGED <<case, ledger, receipts, provider, disclosed>>
      /\ crashes' \in 0 .. MaxCrashes /\ payments' = payments
  BY <1>1, <1>4 DEF Fetch, provider
<1>7. outages' \in 0 .. MaxOutages
  BY <1>1, CheckoutAssumption DEF Fetch
<1>8. txn'[h] = t
  BY <1>1, <1>6
<1> HIDE DEF t
<1>9. TxnInv(h)'
  BY <1>1, <1>2, <1>3, <1>4, <1>5, <1>6, <1>8 DEF TxnInv, Settled
<1> QED
  BY <1>5, <1>6, <1>7, <1>9, RequestStep

LEMMA CrashInv ==
  ASSUME CheckoutInv, NEW h \in Handlers, Crash(h)
  PROVE  CheckoutInv'
<1>1. Idle \in Transactions /\ Idle.case = None
  BY DEF Idle, Transactions, Unavailable, Fetched
<1>2. /\ txn \in [Handlers -> Transactions] /\ crashes \in 0 .. MaxCrashes /\ outages \in 0 .. MaxOutages
  BY DEF CheckoutInv, TypeOK
<1>3. /\ txn' = [txn EXCEPT ![h] = Idle] /\ UNCHANGED <<case, ledger, receipts, provider, disclosed>>
      /\ outages' = outages
  BY DEF Crash, Ends
<1>4. crashes' \in 0 .. MaxCrashes
  BY <1>2, CheckoutAssumption DEF Crash
<1>5. TxnInv(h)'
  BY <1>2, <1>3 DEF TxnInv, Idle
<1> QED
  BY <1>1, <1>2, <1>3, <1>4, <1>5, RequestStep

-----------------------------------------------------------------------------
(* Orders and payments at the provider.                                     *)

LEMMA OrderAtProviderInv ==
  ASSUME CheckoutInv, NEW h \in Handlers, OrderAtProvider(h)
  PROVE  CheckoutInv'
<1>1. /\ txn \in [Handlers -> Transactions] /\ orders \in [Orders -> Cases \union {None}]
      /\ TxnInv(h) /\ txn[h].at = "ordering" /\ txn[h] \in Transactions
      /\ None \notin Cases
  BY CheckoutAssumption DEF CheckoutInv, TypeOK, OrderAtProvider
<1>2. CASE Ends(h) /\ UNCHANGED orders
  <2>1. Idle \in Transactions /\ Idle.case = None
    BY DEF Idle, Transactions, Unavailable, Fetched
  <2>2. /\ txn' = [txn EXCEPT ![h] = Idle]
        /\ UNCHANGED <<case, ledger, receipts, provider, disclosed>>
        /\ crashes' \in 0 .. MaxCrashes /\ outages' \in 0 .. MaxOutages
    BY <1>2 DEF OrderAtProvider, Ends, provider, CheckoutInv, TypeOK
  <2>3. TxnInv(h)'
    BY <1>1, <2>2 DEF TxnInv, Idle
  <2> QED
    BY <2>1, <2>2, <2>3, RequestStep
<1>3. CASE ~(Ends(h) /\ UNCHANGED orders)
  <2>1. PICK o \in Orders :
          /\ orders[o] = None
          /\ orders' = [orders EXCEPT ![o] = txn[h].case]
          /\ txn' = [txn EXCEPT ![h].at = "ordered", ![h].order = o]
    BY <1>3 DEF OrderAtProvider
  <2>2. UNCHANGED <<case, ledger, receipts, payments, disclosed, crashes, outages>>
    BY DEF OrderAtProvider
  <2>3. /\ txn[h].case \in Cases /\ txn[h].event = None
        /\ case[txn[h].case].order = None /\ ~case[txn[h].case].recovered
    BY <1>1 DEF TxnInv
  <2> DEFINE t == [txn[h] EXCEPT !.at = "ordered", !.order = o]
  <2>4. /\ t \in Transactions /\ t.at = "ordered" /\ t.order = o
        /\ t.case = txn[h].case /\ t.event = None
    BY <1>1, <2>3 DEF Transactions
  <2>5. txn' = [txn EXCEPT ![h] = t]
    BY <1>1, <2>1
  <2> HIDE DEF t
  <2>6. /\ txn' \in [Handlers -> Transactions] /\ txn'[h] = t
        /\ \A g \in Handlers \ {h} : txn'[g] = txn[g]
    BY <1>1, <2>4, <2>5
  <2>7. /\ orders' \in [Orders -> Cases \union {None}] /\ orders'[o] = txn[h].case
        /\ OrdersKept /\ PaymentsKept
    BY <1>1, <2>1, <2>2, <2>3 DEF OrdersKept, PaymentsKept
  <2>8. TypeOK'
    BY <2>2, <2>6, <2>7 DEF CheckoutInv, TypeOK
  <2>9. TxnInv(h)'
    BY <2>2, <2>3, <2>4, <2>6, <2>7 DEF TxnInv
  <2>10. ASSUME NEW g \in Handlers  PROVE TxnInv(g)'
    BY <2>2, <2>6, <2>7, <2>9, TxnFrame
  <2>11. LockInv'
    BY <2>4, <2>6 DEF CheckoutInv, LockInv
  <2>12. ASSUME NEW c \in Cases  PROVE RowInv(c)'
    <3>1. RowInv(c) /\ case[c].order \in Orders \union {None}
      BY DEF CheckoutInv, TypeOK, CaseRows
    <3>2. case[c].order # None => orders'[case[c].order] = c
      BY <1>1, <2>7, <3>1 DEF RowInv, OrdersKept
    <3> QED
      BY <2>2, <3>1, <3>2 DEF RowInv
  <2>13. ShownOrderIsStored'
    <3> SUFFICES ASSUME NEW x \in disclosed  PROVE \E c \in Cases : orders'[x] = c /\ case[c].order = x
      BY <2>2 DEF ShownOrderIsStored
    <3>1. x \in Orders
      BY DEF CheckoutInv, TypeOK
    <3> QED
      BY <1>1, <2>7, <3>1 DEF CheckoutInv, ShownOrderIsStored, OrdersKept
  <2>14. /\ ReceiptMeansReconciled'
         /\ \A p \in Payments : PaymentInv(p)'
    BY <2>2 DEF CheckoutInv, ReceiptMeansReconciled, PaymentInv
  <2> QED
    BY <2>8, <2>10, <2>11, <2>12, <2>13, <2>14 DEF CheckoutInv
<1> QED
  BY <1>2, <1>3

LEMMA AgentRetryOrderInv ==
  ASSUME CheckoutInv, NEW c \in Cases, AgentRetryOrder(c)
  PROVE  CheckoutInv'
<1>1. orders \in [Orders -> Cases \union {None}] /\ None \notin Cases
  BY CheckoutAssumption DEF CheckoutInv, TypeOK
<1>2. PICK o \in Orders : orders[o] = None /\ orders' = [orders EXCEPT ![o] = c]
  BY DEF AgentRetryOrder
<1>3. UNCHANGED <<case, ledger, receipts, txn, payments, disclosed, crashes, outages>>
  BY DEF AgentRetryOrder
<1>4. orders' \in [Orders -> Cases \union {None}] /\ OrdersKept /\ PaymentsKept
  BY <1>1, <1>2, <1>3 DEF OrdersKept, PaymentsKept
<1>5. TypeOK'
  BY <1>3, <1>4 DEF CheckoutInv, TypeOK
<1>6. (\A g \in Handlers : TxnInv(g)') /\ LockInv'
  BY <1>3, <1>4, RequestsStay
<1>7. ASSUME NEW d \in Cases  PROVE RowInv(d)'
  <2>1. RowInv(d) /\ case[d].order \in Orders \union {None}
    BY DEF CheckoutInv, TypeOK, CaseRows
  <2>2. case[d].order # None => orders'[case[d].order] = d
    BY <1>1, <1>4, <2>1 DEF RowInv, OrdersKept
  <2> QED
    BY <1>3, <2>1, <2>2 DEF RowInv
<1>8. ShownOrderIsStored'
  <2> SUFFICES ASSUME NEW x \in disclosed  PROVE \E d \in Cases : orders'[x] = d /\ case[d].order = x
    BY <1>3 DEF ShownOrderIsStored
  <2>1. x \in Orders
    BY DEF CheckoutInv, TypeOK
  <2> QED
    BY <1>1, <1>4, <2>1 DEF CheckoutInv, ShownOrderIsStored, OrdersKept
<1>9. ReceiptMeansReconciled' /\ \A p \in Payments : PaymentInv(p)'
  BY <1>3 DEF CheckoutInv, ReceiptMeansReconciled, PaymentInv
<1> QED
  BY <1>5, <1>6, <1>7, <1>8, <1>9 DEF CheckoutInv

\* A change of payments alone that keeps what was settled.
LEMMA PaymentsChange ==
  ASSUME CheckoutInv, UNCHANGED <<case, ledger, receipts, txn, orders, disclosed, crashes, outages>>,
         payments' \in [Payments -> Fetched], PaymentsKept,
         \A p \in Payments : PaymentInv(p)',
         \A p \in Payments : payments'[p].status = "captured" =>
            payments'[p] = payments[p] \/ [payment |-> p, type |-> "payment.captured"] \notin receipts
  PROVE  CheckoutInv'
<1>1. OrdersKept
  BY DEF OrdersKept
<1>2. TypeOK'
  BY DEF CheckoutInv, TypeOK
<1>3. (\A g \in Handlers : TxnInv(g)') /\ LockInv'
  BY <1>1, RequestsStay
<1>4. ASSUME NEW c \in Cases  PROVE RowInv(c)'
  <2>1. RowInv(c) /\ case[c].payment \in Payments \union {None}
    BY DEF CheckoutInv, TypeOK, CaseRows
  <2> QED
    BY <2>1 DEF RowInv, PaymentsKept, Settled
<1>5. ShownOrderIsStored' /\ ReceiptMeansReconciled'
  BY DEF CheckoutInv, ShownOrderIsStored, ReceiptMeansReconciled
<1> QED
  BY <1>2, <1>3, <1>4, <1>5 DEF CheckoutInv

LEMMA AuthorizeInv ==
  ASSUME CheckoutInv, NEW p \in Payments, NEW o \in Orders, Authorize(p, o)
  PROVE  CheckoutInv'
<1>1. /\ payments \in [Payments -> Fetched] /\ payments[p].status = "none" /\ o \in disclosed
      /\ payments' = [payments EXCEPT ![p] = [order |-> o, status |-> "authorized"]]
      /\ UNCHANGED <<case, ledger, receipts, txn, orders, disclosed, crashes, outages>>
  BY DEF CheckoutInv, TypeOK, Authorize
<1>2. [order |-> o, status |-> "authorized"] \in Fetched
  BY DEF Fetched
<1>3. /\ payments' \in [Payments -> Fetched]
      /\ payments'[p] = [order |-> o, status |-> "authorized"]
      /\ \A q \in Payments \ {p} : payments'[q] = payments[q]
  BY <1>1, <1>2
<1>4. PaymentsKept
  BY <1>1, <1>3 DEF PaymentsKept, Settled
<1>5. ASSUME NEW q \in Payments  PROVE PaymentInv(q)'
  BY <1>1, <1>3 DEF CheckoutInv, PaymentInv, Settled
<1>6. \A q \in Payments : payments'[q].status = "captured" => payments'[q] = payments[q]
  BY <1>3
<1> QED
  BY <1>1, <1>3, <1>4, <1>5, <1>6, PaymentsChange

LEMMA SettleInv ==
  ASSUME CheckoutInv, NEW p \in Payments, Settle(p)
  PROVE  CheckoutInv'
<1>1. /\ payments \in [Payments -> Fetched] /\ payments[p] \in Fetched /\ PaymentInv(p)
      /\ UNCHANGED <<case, ledger, receipts, txn, orders, disclosed, crashes, outages>>
  BY DEF CheckoutInv, TypeOK, Settle
<1>2. PICK status \in {"failed", "captured", "refunded"} :
        /\ payments' = [payments EXCEPT ![p].status = status]
        /\ \/ payments[p].status = "authorized" /\ status # "refunded"
           \/ payments[p].status = "captured" /\ status = "refunded"
  BY DEF Settle
<1>3. /\ payments' \in [Payments -> Fetched]
      /\ payments'[p].status = status /\ payments'[p].order = payments[p].order
      /\ \A q \in Payments \ {p} : payments'[q] = payments[q]
  BY <1>1, <1>2 DEF Fetched
<1>4. PaymentsKept
  BY <1>2, <1>3 DEF PaymentsKept, Settled
<1>5. payments[p].status = "authorized" => [payment |-> p, type |-> "payment.captured"] \notin receipts
  BY <1>1 DEF PaymentInv, Settled
<1>6. ASSUME NEW q \in Payments  PROVE PaymentInv(q)'
  <2>1. CASE q = p
    BY <1>1, <1>2, <1>3, <1>5, <2>1 DEF PaymentInv, Settled
  <2>2. CASE q # p
    BY <1>1, <1>3, <2>2 DEF CheckoutInv, PaymentInv
  <2> QED
    BY <2>1, <2>2
<1>7. \A q \in Payments : payments'[q].status = "captured" =>
        payments'[q] = payments[q] \/ [payment |-> q, type |-> "payment.captured"] \notin receipts
  BY <1>2, <1>3, <1>5
<1> QED
  BY <1>1, <1>3, <1>4, <1>6, <1>7, PaymentsChange

-----------------------------------------------------------------------------
(* Steps that write a row, a receipt or an answer.                          *)

LEMMA OrderAgainInv ==
  ASSUME CheckoutInv, NEW c \in Cases, OrderAgain(c)
  PROVE  CheckoutInv'
<1>1. /\ UNCHANGED <<case, ledger, receipts, txn, provider, crashes, outages>>
      /\ disclosed' = disclosed \union {case[c].order}
      /\ case[c].order # None /\ case[c].order \in Orders \union {None}
      /\ RowInv(c)
  BY DEF OrderAgain, CheckoutInv, TypeOK, CaseRows
<1>2. OrdersKept /\ PaymentsKept
  BY <1>1 DEF OrdersKept, PaymentsKept, provider
<1>3. TypeOK'
  BY <1>1 DEF CheckoutInv, TypeOK, provider
<1>4. (\A g \in Handlers : TxnInv(g)') /\ LockInv'
  BY <1>1, <1>2, RequestsStay
<1>5. ShownOrderIsStored'
  BY <1>1 DEF CheckoutInv, ShownOrderIsStored, RowInv, provider
<1>6. ReceiptMeansReconciled' /\ \A d \in Cases : RowInv(d)'
  BY <1>1 DEF CheckoutInv, ReceiptMeansReconciled, RowInv, provider
<1>7. \A p \in Payments : PaymentInv(p)'
  BY <1>1 DEF CheckoutInv, PaymentInv, provider
<1> QED
  BY <1>3, <1>4, <1>5, <1>6, <1>7 DEF CheckoutInv

LEMMA OperatorEscalatesInv ==
  ASSUME CheckoutInv, NEW c \in Cases, OperatorEscalates(c)
  PROVE  CheckoutInv'
<1>1. /\ UNCHANGED <<receipts, txn, provider, disclosed, crashes, outages>>
      /\ case' = [case EXCEPT ![c].status = "ESCALATED", ![c].stopped = TRUE]
      /\ ledger' = [ledger EXCEPT ![c].escalated = TRUE]
      /\ case \in [Cases -> CaseRows] /\ ledger \in [Cases -> Ledgers]
  BY DEF OperatorEscalates, CheckoutInv, TypeOK
<1>2. ASSUME NEW d \in Cases
      PROVE  /\ case'[d] \in CaseRows /\ ledger'[d] \in Ledgers
             /\ case'[d].order = case[d].order /\ case'[d].recovered = case[d].recovered
             /\ case'[d].payment = case[d].payment
             /\ case[d].stopped => case'[d].stopped
             /\ ledger'[d].recovered = ledger[d].recovered
  <2>1. case[d] \in CaseRows /\ ledger[d] \in Ledgers
    BY <1>1
  <2>2. CASE d # c
    BY <1>1, <2>1, <2>2
  <2>3. CASE d = c
    <3>1. /\ case'[c] = [case[c] EXCEPT !.status = "ESCALATED", !.stopped = TRUE]
          /\ ledger'[c] = [ledger[c] EXCEPT !.escalated = TRUE]
      BY <1>1
    <3>2. case'[c] \in CaseRows
      BY <2>1, <2>3, <3>1 DEF CaseRows
    <3>3. ledger'[c] \in Ledgers /\ ledger'[c].recovered = ledger[c].recovered
      BY <2>1, <2>3, <3>1 DEF Ledgers
    <3>4. /\ case'[c].order = case[c].order /\ case'[c].recovered = case[c].recovered
          /\ case'[c].payment = case[c].payment /\ case'[c].stopped
      BY <2>1, <2>3, <3>1 DEF CaseRows
    <3> QED
      BY <2>3, <3>2, <3>3, <3>4
  <2> QED
    BY <2>2, <2>3
<1>3. case' \in [Cases -> CaseRows] /\ ledger' \in [Cases -> Ledgers]
  BY <1>1, <1>2
<1>4. OrdersKept /\ PaymentsKept
  BY <1>1 DEF OrdersKept, PaymentsKept, provider
<1>5. TypeOK'
  BY <1>1, <1>3 DEF CheckoutInv, TypeOK, provider
<1>6. (\A g \in Handlers : TxnInv(g)') /\ LockInv'
  BY <1>1, <1>2, <1>4, RequestsStay
<1>7. ASSUME NEW d \in Cases  PROVE RowInv(d)'
  BY <1>1, <1>2 DEF CheckoutInv, RowInv, provider
<1>8. ShownOrderIsStored' /\ ReceiptMeansReconciled'
  BY <1>1, <1>2 DEF CheckoutInv, ShownOrderIsStored, ReceiptMeansReconciled, provider
<1>9. \A p \in Payments : PaymentInv(p)'
  BY <1>1 DEF CheckoutInv, PaymentInv, provider
<1> QED
  BY <1>5, <1>6, <1>7, <1>8, <1>9 DEF CheckoutInv

\* The row lock kept the case open and without an order while the provider created one; no
\* customer can have paid that order before.
LEMMA CommitOrderInv ==
  ASSUME CheckoutInv, NEW h \in Handlers, CommitOrder(h)
  PROVE  CheckoutInv'
<1> DEFINE c == txn[h].case
           o == txn[h].order
<1>1. /\ c \in Cases /\ o \in Orders /\ orders[o] = c /\ o # None /\ c # None
      /\ case[c].order = None /\ ~case[c].recovered
  BY CheckoutAssumption DEF CommitOrder, CheckoutInv, TxnInv
<1>2. /\ case \in [Cases -> CaseRows] /\ case' = [case EXCEPT ![c].order = o] /\ Ends(h)
      /\ disclosed' = disclosed \union {o} \/ disclosed' = disclosed
      /\ UNCHANGED <<ledger, receipts, provider, crashes, outages>>
      /\ orders' = orders /\ payments' = payments
  BY DEF CommitOrder, CheckoutInv, TypeOK, provider
<1>3. /\ case'[c] = [case[c] EXCEPT !.order = o] /\ case[c] \in CaseRows
      /\ \A d \in Cases \ {c} : case'[d] = case[d]
  BY <1>1, <1>2
<1>4. /\ case'[c] \in CaseRows /\ case'[c].order = o /\ ~case'[c].recovered
      /\ case'[c].payment = case[c].payment
  BY <1>1, <1>3 DEF CaseRows
<1>5. case' \in [Cases -> CaseRows]
  BY <1>2, <1>3, <1>4
<1>6. /\ txn' \in [Handlers -> Transactions]
      /\ \A g \in Handlers : TxnInv(g)'
      /\ LockInv'
  BY <1>2, <1>3, RequestEnds
<1>7. TypeOK'
  BY <1>1, <1>2, <1>5, <1>6 DEF CheckoutInv, TypeOK, provider
<1> HIDE DEF c, o
<1>8. ASSUME NEW d \in Cases  PROVE RowInv(d)'
  BY <1>1, <1>2, <1>3, <1>4 DEF CheckoutInv, RowInv
<1>9. ASSUME NEW p \in Payments  PROVE PaymentInv(p)'
  BY <1>2 DEF CheckoutInv, PaymentInv
<1>10. ShownOrderIsStored'
  <2> SUFFICES ASSUME NEW x \in disclosed'  PROVE \E d \in Cases : orders[x] = d /\ case'[d].order = x
    BY <1>2 DEF ShownOrderIsStored
  <2>1. CASE x = o
    BY <1>1, <1>4, <2>1
  <2>2. CASE x # o
    <3>1. PICK d \in Cases : orders[x] = d /\ case[d].order = x
      BY <1>2, <2>2 DEF CheckoutInv, ShownOrderIsStored
    <3>2. x # None
      BY <1>2, <2>2, CheckoutAssumption DEF CheckoutInv, TypeOK
    <3> QED
      BY <1>1, <1>3, <3>1, <3>2
  <2> QED
    BY <2>1, <2>2
<1>11. ReceiptMeansReconciled'
  <2> SUFFICES ASSUME NEW p \in Payments, NEW d \in Cases,
                      [payment |-> p, type |-> "payment.captured"] \in receipts,
                      payments[p].status = "captured", payments[p].order = case'[d].order
               PROVE  case'[d].recovered
    BY <1>2 DEF ReceiptMeansReconciled
  <2>1. payments[p].order \in disclosed /\ payments[p].order # None
    BY CheckoutAssumption DEF CheckoutInv, PaymentInv, TypeOK
  <2>2. PICK e \in Cases : orders[payments[p].order] = e /\ case[e].order = payments[p].order
    BY <2>1 DEF CheckoutInv, ShownOrderIsStored
  <2>3. d # c
    BY <1>1, <1>4, <2>1, <2>2
  <2> QED
    BY <1>3, <2>3 DEF CheckoutInv, ReceiptMeansReconciled
<1> QED
  BY <1>6, <1>7, <1>8, <1>9, <1>10, <1>11 DEF CheckoutInv

\* The end of a request that touches no row but may commit its receipt.
LEMMA ReceiptStep ==
  ASSUME CheckoutInv, NEW h \in Handlers, Ends(h),
         UNCHANGED <<case, ledger, provider, disclosed, crashes, outages>>,
         receipts' \subseteq receipts \union (Events \intersect {txn[h].event}),
         \A p \in Payments : \A d \in Cases :
           /\ txn[h].event = [payment |-> p, type |-> "payment.captured"]
           /\ txn[h].event \in receipts'
           /\ payments[p].status = "captured" /\ payments[p].order = case[d].order
           => case[d].recovered
  PROVE  CheckoutInv'
<1>1. /\ txn' \in [Handlers -> Transactions]
      /\ \A g \in Handlers : TxnInv(g)'
      /\ LockInv'
  BY RequestEnds
<1>2. TypeOK'
  BY <1>1 DEF CheckoutInv, TypeOK, provider
<1>3. ASSUME NEW p \in Payments  PROVE PaymentInv(p)'
  <2>1. txn[h].event = [payment |-> p, type |-> "payment.captured"] => payments[p].status \in Settled
    <3> SUFFICES ASSUME txn[h].event = [payment |-> p, type |-> "payment.captured"]
                 PROVE  payments[p].status \in Settled
      OBVIOUS
    <3>1. txn[h] \in Transactions /\ TxnInv(h) /\ txn[h].event # None
      BY CheckoutAssumption DEF CheckoutInv, TypeOK, Events
    <3>2. txn[h].at \in {"idle", "ordering", "ordered", "received", "verifying", "fetched"}
      BY <3>1 DEF Transactions
    <3>3. txn[h].at \in {"received", "verifying", "fetched"}
      BY <3>1, <3>2 DEF TxnInv
    <3>4. txn[h].payment = p
      BY <3>1, <3>3 DEF TxnInv
    <3> QED
      BY <3>1, <3>4 DEF TxnInv
  <2> QED
    BY <2>1 DEF CheckoutInv, PaymentInv, provider
<1>4. \A c \in Cases : RowInv(c)'
  BY DEF CheckoutInv, RowInv, provider
<1>5. ShownOrderIsStored' /\ ReceiptMeansReconciled'
  BY DEF CheckoutInv, ShownOrderIsStored, ReceiptMeansReconciled, provider
<1> QED
  BY <1>1, <1>2, <1>3, <1>4, <1>5 DEF CheckoutInv

\* A captured payment belongs to an order some case stores, so a capture that is only
\* recorded is one of a recovered case.
LEMMA KeepReceiptInv ==
  ASSUME CheckoutInv, NEW h \in Handlers, KeepReceipt(h)
  PROVE  CheckoutInv'
<1>1. /\ txn[h] \in Transactions /\ TxnInv(h) /\ txn[h].at = "received"
      /\ txn[h].event \in Events /\ txn[h].payment = txn[h].event.payment
  BY DEF KeepReceipt, CheckoutInv, TypeOK, TxnInv, Transactions
<1>2. ASSUME NEW p \in Payments, NEW d \in Cases,
             txn[h].event = [payment |-> p, type |-> "payment.captured"],
             payments[p].status = "captured", payments[p].order = case[d].order
      PROVE  case[d].recovered
  <2>1. txn[h].payment = p /\ payments[p].order \in disclosed /\ payments[p].order # None
    BY <1>1, <1>2, CheckoutAssumption DEF CheckoutInv, PaymentInv, TypeOK
  <2>2. d \in Matches(h)
    BY <1>2, <2>1 DEF Matches
  <2>3. PICK c \in Matches(h) : case[c].recovered
    BY <1>2, <2>2 DEF KeepReceipt
  <2>4. c \in Cases /\ case[c].order = case[d].order
    BY <1>2, <2>1, <2>3 DEF Matches
  <2>5. c = d
    BY <1>2, <2>1, <2>4 DEF CheckoutInv, RowInv
  <2> QED
    BY <2>3, <2>5
<1> QED
  BY <1>1, <1>2, ReceiptStep DEF KeepReceipt

\* A webhook's payment was captured when the webhook was sent: fetched and not captured any
\* more, it was refunded.
LEMMA DeclineInv ==
  ASSUME CheckoutInv, NEW h \in Handlers, Decline(h)
  PROVE  CheckoutInv'
<1>1. /\ txn[h] \in Transactions /\ TxnInv(h) /\ txn[h].at = "fetched"
      /\ txn[h].event \in Events \union {None}
  BY DEF Decline, CheckoutInv, TypeOK, Transactions
<1>2. CASE UNCHANGED receipts
  <2>1. \A p \in Payments : \A d \in Cases :
          /\ [payment |-> p, type |-> "payment.captured"] \in receipts
          /\ payments[p].status = "captured" /\ payments[p].order = case[d].order
          => case[d].recovered
    BY DEF CheckoutInv, ReceiptMeansReconciled
  <2> QED
    BY <1>2, <2>1, ReceiptStep DEF Decline
<1>3. CASE ~UNCHANGED receipts
  <2>1. /\ txn[h].seen.order = txn[h].order /\ txn[h].seen.status # "captured"
        /\ receipts' = receipts \union {txn[h].event} /\ txn[h].event \in Events
    BY <1>1, <1>3 DEF Decline, WithReceipt
  <2>2. txn[h].event # None /\ txn[h].seen.order # None
    BY <1>1, <2>1, CheckoutAssumption DEF TxnInv
  <2>3. /\ payments[txn[h].payment].status = "refunded"
        /\ txn[h].event = [payment |-> txn[h].payment, type |-> "payment.captured"]
    BY <1>1, <2>1, <2>2 DEF TxnInv, Settled
  <2> QED
    BY <2>1, <2>3, ReceiptStep DEF Decline
<1> QED
  BY <1>2, <1>3

\* A refused write leaves nothing behind but the end of its request.
LEMMA CreditRefusedInv ==
  ASSUME CheckoutInv, NEW h \in Handlers, CreditRefused(h)
  PROVE  CheckoutInv'
<1>1. \A p \in Payments : \A d \in Cases :
        /\ [payment |-> p, type |-> "payment.captured"] \in receipts
        /\ payments[p].status = "captured" /\ payments[p].order = case[d].order
        => case[d].recovered
  BY DEF CheckoutInv, ReceiptMeansReconciled
<1> QED
  BY <1>1, ReceiptStep DEF CreditRefused

\* The lock kept the case open, so this is its first entry.
LEMMA CreditInv ==
  ASSUME CheckoutInv, NEW h \in Handlers, Credit(h)
  PROVE  CheckoutInv'
<1> DEFINE c == txn[h].case
           p == txn[h].payment
           r == [case[c] EXCEPT !.payment = p, !.status = "RECOVERED", !.recovered = TRUE,
                                !.stopped = TRUE]
<1>1. /\ c \in Cases /\ p \in Payments /\ txn[h] \in Transactions /\ p # None
      /\ case[c].order # None /\ ~case[c].recovered
      /\ txn[h].event # None => txn[h].event = [payment |-> p, type |-> "payment.captured"]
      /\ payments[p].order = case[c].order /\ payments[p].status \in Settled
  BY CheckoutAssumption DEF Credit, CheckoutInv, TxnInv, TypeOK
<1>2. /\ case \in [Cases -> CaseRows] /\ ledger \in [Cases -> Ledgers]
      /\ case' = [case EXCEPT ![c] = r] /\ Ends(h)
      /\ ledger' = [ledger EXCEPT ![c].recovered = @ + 1]
      /\ receipts' = WithReceipt(h)
      /\ UNCHANGED <<provider, disclosed, crashes, outages>>
      /\ orders' = orders /\ payments' = payments
  BY DEF Credit, CheckoutInv, TypeOK, provider
<1>3. /\ case'[c] = r /\ case[c] \in CaseRows /\ ledger[c] \in Ledgers
      /\ \A d \in Cases \ {c} : case'[d] = case[d] /\ ledger'[d] = ledger[d]
      /\ ledger'[c] = [ledger[c] EXCEPT !.recovered = @ + 1]
  BY <1>1, <1>2
<1>4. /\ r \in CaseRows /\ r.order = case[c].order /\ r.recovered /\ r.stopped
      /\ r.payment = p
  BY <1>1, <1>3 DEF CaseRows
<1>5. ledger[c].recovered = 0
  BY <1>1 DEF CheckoutInv, RowInv
<1>6. ledger'[c].recovered = 1 /\ ledger'[c] \in Ledgers
  BY <1>3, <1>5 DEF Ledgers
<1>7. case' \in [Cases -> CaseRows] /\ ledger' \in [Cases -> Ledgers]
  BY <1>2, <1>3, <1>4, <1>6
<1>8. /\ txn' \in [Handlers -> Transactions]
      /\ \A g \in Handlers : TxnInv(g)'
      /\ LockInv'
  BY <1>2, <1>3, RequestEnds
<1>9. receipts' \subseteq Events
  BY <1>1, <1>2 DEF CheckoutInv, TypeOK, WithReceipt, Transactions
<1>10. TypeOK'
  BY <1>2, <1>7, <1>8, <1>9 DEF CheckoutInv, TypeOK, provider
<1>11. \A q \in Payments : [payment |-> q, type |-> "payment.captured"] \in receipts'
          => [payment |-> q, type |-> "payment.captured"] \in receipts \/ q = p
  BY <1>1, <1>2 DEF WithReceipt
<1> HIDE DEF c, p, r
<1>12. ASSUME NEW d \in Cases  PROVE RowInv(d)'
  BY <1>1, <1>2, <1>3, <1>4, <1>6 DEF CheckoutInv, RowInv
<1>13. ASSUME NEW q \in Payments  PROVE PaymentInv(q)'
  BY <1>1, <1>2, <1>11 DEF CheckoutInv, PaymentInv
<1>14. ShownOrderIsStored'
  BY <1>2, <1>3, <1>4 DEF CheckoutInv, ShownOrderIsStored
<1>15. ReceiptMeansReconciled'
  <2> SUFFICES ASSUME NEW q \in Payments, NEW d \in Cases,
                      [payment |-> q, type |-> "payment.captured"] \in receipts',
                      payments[q].status = "captured", payments[q].order = case'[d].order
               PROVE  case'[d].recovered
    BY <1>2 DEF ReceiptMeansReconciled
  <2>1. CASE d = c
    BY <1>3, <1>4, <2>1
  <2>2. CASE d # c
    <3>1. case'[d] = case[d]
      BY <1>3, <2>2
    <3>2. q # p
      BY <1>1, <2>2, <3>1 DEF CheckoutInv, RowInv
    <3> QED
      BY <1>11, <3>1, <3>2 DEF CheckoutInv, ReceiptMeansReconciled
  <2> QED
    BY <2>1, <2>2
<1> QED
  BY <1>8, <1>10, <1>12, <1>13, <1>14, <1>15 DEF CheckoutInv

-----------------------------------------------------------------------------
(* The theorems.                                                            *)

LEMMA NextInv == CheckoutInv /\ [Next]_vars => CheckoutInv'
<1> SUFFICES ASSUME CheckoutInv, [Next]_vars  PROVE CheckoutInv'
  OBVIOUS
<1>1. CASE UNCHANGED vars
  <2>1. /\ UNCHANGED <<case, ledger, receipts, txn, orders, payments, disclosed, crashes>>
        /\ UNCHANGED outages
    BY <1>1 DEF vars, provider
  <2>2. TypeOK' /\ LockInv' /\ ShownOrderIsStored' /\ ReceiptMeansReconciled'
    BY <2>1 DEF CheckoutInv, TypeOK, LockInv, ShownOrderIsStored, ReceiptMeansReconciled
  <2>3. \A c \in Cases : RowInv(c)'
    BY <2>1 DEF CheckoutInv, RowInv
  <2>4. \A p \in Payments : PaymentInv(p)'
    BY <2>1 DEF CheckoutInv, PaymentInv
  <2>5. \A h \in Handlers : TxnInv(h)'
    BY <2>1 DEF CheckoutInv, TxnInv
  <2> QED
    BY <2>2, <2>3, <2>4, <2>5 DEF CheckoutInv
<1>2. ASSUME NEW h \in Handlers, NEW c \in Cases, LockForOrder(h, c)  PROVE CheckoutInv'
  BY <1>2, LockForOrderInv
<1>3. ASSUME NEW h \in Handlers, NEW c \in Cases, NEW p \in Payments, LockForCallback(h, c, p)
      PROVE  CheckoutInv'
  BY <1>3, LockForCallbackInv
<1>4. ASSUME NEW h \in Handlers, NEW e \in Events, Receive(h, e)  PROVE CheckoutInv'
  BY <1>4, ReceiveInv
<1>5. ASSUME NEW h \in Handlers, OrderStep(h)  PROVE CheckoutInv'
  BY <1>5, OrderAtProviderInv, CommitOrderInv DEF OrderStep
<1>6. ASSUME NEW h \in Handlers, WebhookStep(h)  PROVE CheckoutInv'
  BY <1>6, KeepReceiptInv, LockForWebhookInv DEF WebhookStep
<1>7. ASSUME NEW h \in Handlers, Reconciliation(h)  PROVE CheckoutInv'
  BY <1>7, FetchInv, CreditInv, CreditRefusedInv, DeclineInv DEF Reconciliation
<1>8. ASSUME NEW h \in Handlers, Crash(h)  PROVE CheckoutInv'
  BY <1>8, CrashInv
<1>9. ASSUME NEW c \in Cases, OrderAgain(c) \/ AgentRetryOrder(c) \/ OperatorEscalates(c)
      PROVE  CheckoutInv'
  BY <1>9, OrderAgainInv, AgentRetryOrderInv, OperatorEscalatesInv
<1>10. ASSUME NEW p \in Payments, Settle(p)  PROVE CheckoutInv'
  BY <1>10, SettleInv
<1>11. ASSUME NEW p \in Payments, NEW o \in Orders, Authorize(p, o)  PROVE CheckoutInv'
  BY <1>11, AuthorizeInv
<1> QED
  BY <1>1, <1>2, <1>3, <1>4, <1>5, <1>6, <1>7, <1>8, <1>9, <1>10, <1>11 DEF Next

\* The invariant of the checkout holds in every reachable state, for any numbers of cases,
\* orders, payments, requests, crashes and outages.
THEOREM CheckoutInvariance == Spec => []CheckoutInv
BY InitInv, NextInv, PTL DEF Spec

\* The rows, receipts and requests of the checkout keep their types (models/recovery.py,
\* models/webhook.py).
THEOREM CheckoutTypes == Spec => []TypeOK
<1>1. CheckoutInv => TypeOK
  BY DEF CheckoutInv
<1> QED
  BY <1>1, CheckoutInvariance, PTL

\* A case marked recovered was paid by a payment of its own order, and no payment pays two
\* cases (_reconcile_captured_payment).
THEOREM OwnPaymentRecovers == Spec => []RecoveredByOwnPayment
<1>1. CheckoutInv => RecoveredByOwnPayment
  <2> SUFFICES ASSUME CheckoutInv  PROVE RecoveredByOwnPayment
    OBVIOUS
  <2>1. \A c \in Cases : RowInv(c)
    BY DEF CheckoutInv
  <2> QED
    BY <2>1 DEF RecoveredByOwnPayment, RowInv, Settled
<1> QED
  BY <1>1, CheckoutInvariance, PTL

\* An order shown to a customer is the stored order of its case, for good (create_order
\* commits before it answers, and holds the row lock while the provider works).
THEOREM ShownOrdersAreStored == Spec => []ShownOrderIsStored
<1>1. CheckoutInv => ShownOrderIsStored
  BY DEF CheckoutInv
<1> QED
  BY <1>1, CheckoutInvariance, PTL

\* A committed webhook receipt is never a capture that was dropped (razorpay_webhook inserts
\* the receipt in the transaction that reconciles).
THEOREM ReceiptsAreHonest == Spec => []ReceiptMeansReconciled
<1>1. CheckoutInv => ReceiptMeansReconciled
  BY DEF CheckoutInv
<1> QED
  BY <1>1, CheckoutInvariance, PTL

\* No step pays a case again or enters a recovery twice, whichever of the callback and the
\* webhooks comes first (verify_payment, razorpay_webhook).
THEOREM CreditIsSingle == Spec => CreditedOnce
<1>1. CheckoutInv /\ CheckoutInv' /\ [Next]_vars =>
        [\A c \in Cases :
           /\ ledger'[c].recovered = IF case'[c].recovered THEN 1 ELSE 0
           /\ case[c].payment # None => case'[c].payment = case[c].payment]_vars
  <2> SUFFICES ASSUME CheckoutInv, CheckoutInv', [Next]_vars, NEW c \in Cases
               PROVE  /\ ledger'[c].recovered = IF case'[c].recovered THEN 1 ELSE 0
                      /\ case[c].payment # None => case'[c].payment = case[c].payment
    OBVIOUS
  <2>1. ledger'[c].recovered = IF case'[c].recovered THEN 1 ELSE 0
    BY DEF CheckoutInv, RowInv
  <2>2. case \in [Cases -> CaseRows]
    BY DEF CheckoutInv, TypeOK
  <2>3. UNCHANGED case => case'[c].payment = case[c].payment
    OBVIOUS
  <2>4. ASSUME NEW h \in Handlers, Credit(h)
        PROVE  case[c].payment # None => case'[c].payment = case[c].payment
    <3>1. ~case[txn[h].case].recovered /\ txn[h].case \in Cases
      BY <2>4 DEF Credit, CheckoutInv, TxnInv
    <3>2. CASE c = txn[h].case
      BY <3>1, <3>2 DEF CheckoutInv, RowInv
    <3>3. CASE c # txn[h].case
      BY <2>2, <2>4, <3>3 DEF Credit
    <3> QED
      BY <3>2, <3>3
  <2>5. ASSUME NEW h \in Handlers, CommitOrder(h)  PROVE case'[c].payment = case[c].payment
    <3>1. case'[c] = IF c = txn[h].case THEN [case[c] EXCEPT !.order = txn[h].order] ELSE case[c]
      BY <2>2, <2>5 DEF CommitOrder
    <3> QED
      BY <2>2, <3>1 DEF CaseRows
  <2>6. ASSUME NEW d \in Cases, OperatorEscalates(d)  PROVE case'[c].payment = case[c].payment
    <3>1. CASE c = d
      <4>1. case'[c] = [case[c] EXCEPT !.status = "ESCALATED", !.stopped = TRUE]
        BY <2>2, <2>6, <3>1 DEF OperatorEscalates
      <4> QED
        BY <2>2, <4>1 DEF CaseRows
    <3>2. CASE c # d
      BY <2>2, <2>6, <3>2 DEF OperatorEscalates
    <3> QED
      BY <3>1, <3>2
  <2>7. \/ UNCHANGED case
        \/ \E h \in Handlers : Credit(h) \/ CommitOrder(h)
        \/ \E d \in Cases : OperatorEscalates(d)
    BY DEF Next, vars, LockForOrder, LockForCallback, Receive, OrderStep, OrderAtProvider,
           WebhookStep, KeepReceipt, LockForWebhook, Reconciliation, Fetch, CreditRefused,
           Decline, Crash, OrderAgain, AgentRetryOrder, Settle, Authorize
  <2> QED
    BY <2>1, <2>3, <2>4, <2>5, <2>6, <2>7
<1> QED
  BY <1>1, CheckoutInvariance, PTL DEF Spec, CreditedOnce

-----------------------------------------------------------------------------
(* The refinement of RecoveryService.                                       *)

\* A case stays open while its order is being created: the row lock keeps everybody else,
\* the operator included, from closing it.
OrderingInv ==
  \A h \in Handlers : txn[h].at \in {"ordering", "ordered"} =>
    case[txn[h].case].status = "DETECTED" /\ ~case[txn[h].case].stopped

LEMMA OrderingInvStep ==
  ASSUME CheckoutInv, OrderingInv, [Next]_vars
  PROVE  OrderingInv'
<1> USE DEF OrderingInv
<1>1. /\ txn \in [Handlers -> Transactions] /\ case \in [Cases -> CaseRows]
      /\ None \notin Cases
      /\ \A h \in Handlers : TxnInv(h)
  BY CheckoutAssumption DEF CheckoutInv, TypeOK
<1>2. \A h \in Handlers : txn[h].at \in {"ordering", "ordered"} => txn[h].case \in Cases
  BY <1>1 DEF TxnInv
<1>3. CASE UNCHANGED <<case, txn>>
  BY <1>3
<1>4. ASSUME NEW h \in Handlers, NEW c \in Cases, LockForOrder(h, c)  PROVE OrderingInv'
  <2>1. /\ txn' = [txn EXCEPT ![h] = [Idle EXCEPT !.at = "ordering", !.case = c]]
        /\ case' = case /\ case[c].status = "DETECTED" /\ ~case[c].stopped
    BY <1>4 DEF LockForOrder
  <2> QED
    BY <1>1, <2>1 DEF Idle
<1>5. ASSUME NEW h \in Handlers, case' = case, txn' = [txn EXCEPT ![h] = txn'[h]],
             txn'[h].at \in {"ordering", "ordered"} =>
               txn[h].at = "ordering" /\ txn'[h].case = txn[h].case
      PROVE  OrderingInv'
  BY <1>1, <1>5
<1>6. ASSUME NEW h \in Handlers, NEW c \in Cases, NEW p \in Payments, LockForCallback(h, c, p)
      PROVE  OrderingInv'
  BY <1>1, <1>5, <1>6 DEF LockForCallback, Idle
<1>7. ASSUME NEW h \in Handlers, NEW e \in Events, Receive(h, e)  PROVE OrderingInv'
  BY <1>1, <1>5, <1>7 DEF Receive, Idle
<1>8. ASSUME NEW h \in Handlers, OrderAtProvider(h)  PROVE OrderingInv'
  <2>1. case' = case /\ txn[h] \in Transactions /\ txn[h].at = "ordering"
    BY <1>1, <1>8 DEF OrderAtProvider
  <2>2. CASE Ends(h)
    BY <1>1, <1>5, <2>1, <2>2 DEF Ends, Idle
  <2>3. ASSUME NEW o \in Orders, txn' = [txn EXCEPT ![h].at = "ordered", ![h].order = o]
        PROVE  OrderingInv'
    BY <1>1, <1>5, <2>1, <2>3 DEF Transactions
  <2> QED
    BY <1>8, <2>2, <2>3 DEF OrderAtProvider
<1>9. ASSUME NEW h \in Handlers, Ends(h), \A c \in Cases : c = txn[h].case \/ case'[c] = case[c]
      PROVE  OrderingInv'
  <2>1. /\ txn'[h] = Idle /\ \A g \in Handlers \ {h} : txn'[g] = txn[g]
    BY <1>1, <1>9 DEF Ends
  <2>2. SUFFICES ASSUME NEW g \in Handlers, txn'[g].at \in {"ordering", "ordered"}
                 PROVE  case'[txn'[g].case].status = "DETECTED" /\ ~case'[txn'[g].case].stopped
    OBVIOUS
  <2>3. g # h
    BY <2>1, <2>2 DEF Idle
  <2>4. txn[g].case \in Cases /\ txn[g].case # None /\ txn[g].case # txn[h].case
    BY <1>1, <1>2, <2>1, <2>2, <2>3 DEF CheckoutInv, LockInv
  <2> QED
    BY <1>9, <2>1, <2>2, <2>3, <2>4
<1>10. ASSUME NEW h \in Handlers, CommitOrder(h) \/ Credit(h)  PROVE OrderingInv'
  <2>1. Ends(h) /\ \A c \in Cases : c = txn[h].case \/ case'[c] = case[c]
    BY <1>1, <1>10 DEF CommitOrder, Credit
  <2> QED
    BY <1>9, <2>1
<1>11. ASSUME NEW h \in Handlers, KeepReceipt(h) \/ CreditRefused(h) \/ Decline(h) \/ Crash(h)
       PROVE  OrderingInv'
  <2>1. Ends(h) /\ case' = case
    BY <1>11 DEF KeepReceipt, CreditRefused, Decline, Crash
  <2> QED
    BY <1>9, <2>1
<1>12. ASSUME NEW h \in Handlers, LockForWebhook(h)  PROVE OrderingInv'
  <2>1. PICK c \in Cases : txn' = [txn EXCEPT ![h].at = "verifying", ![h].case = c,
                                              ![h].order = case[c].order]
    BY <1>12 DEF LockForWebhook, Matches
  <2>2. case' = case /\ txn[h] \in Transactions
    BY <1>1, <1>12 DEF LockForWebhook
  <2> QED
    BY <1>1, <1>5, <2>1, <2>2 DEF Transactions
<1>13. ASSUME NEW h \in Handlers, Fetch(h)  PROVE OrderingInv'
  <2>1. PICK seen : txn' = [txn EXCEPT ![h].at = "fetched", ![h].seen = seen]
    BY <1>13 DEF Fetch
  <2>2. case' = case /\ txn[h] \in Transactions
    BY <1>1, <1>13 DEF Fetch
  <2> QED
    BY <1>1, <1>5, <2>1, <2>2 DEF Transactions
<1>14. ASSUME NEW c \in Cases, OperatorEscalates(c)  PROVE OrderingInv'
  <2>1. /\ txn' = txn /\ \A h \in Handlers : txn[h].case # c
        /\ \A d \in Cases \ {c} : case'[d] = case[d]
    BY <1>1, <1>14 DEF OperatorEscalates, Unlocked
  <2> QED
    BY <1>2, <2>1
<1> QED
  BY <1>3, <1>4, <1>6, <1>7, <1>8, <1>10, <1>11, <1>12, <1>13, <1>14
     DEF Next, vars, OrderStep, WebhookStep, Reconciliation, OrderAgain, AgentRetryOrder,
         Settle, Authorize

\* What the mapped variables say, by what the case row says.
LEMMA MappedRow ==
  ASSUME CheckoutInv
  PROVE  /\ case[TheCase] \in CaseRows /\ ledger[TheCase] \in Ledgers
         /\ case[TheCase].order = None => ~OrderIsPaid /\ case[TheCase].payment = None
         /\ case[TheCase].recovered <=> case[TheCase].payment # None
         /\ ledger[TheCase].recovered > 0 <=> case[TheCase].recovered
<1>1. case[TheCase] \in CaseRows /\ ledger[TheCase] \in Ledgers /\ RowInv(TheCase)
  BY TheCaseAssumption DEF CheckoutInv, TypeOK
<1>2. case[TheCase].order = None => ~OrderIsPaid
  <2> SUFFICES ASSUME case[TheCase].order = None, NEW p \in Payments, payments[p].order = None,
                      payments[p].status \in {"captured", "refunded"}
               PROVE  FALSE
    BY DEF OrderIsPaid
  <2> QED
    BY CheckoutAssumption DEF CheckoutInv, PaymentInv, TypeOK
<1> QED
  BY <1>1, <1>2 DEF RowInv, CaseRows, Ledgers

\* ServiceRow is a function on the columns, so two rows are compared column by column.
Columns == {"status", "recovered", "stopped", "retries", "messages", "amount", "order"}

LEMMA RowFields ==
  /\ ServiceRow = [f \in Columns |-> ServiceRow[f]]
  /\ ServiceRow' = [f \in Columns |-> (ServiceRow')[f]]
<1>1. ServiceRow = [f \in Columns |-> ServiceRow[f]]
  BY Zenon DEF ServiceRow, Columns
<1>2. ServiceRow' = [f \in Columns |-> (ServiceRow')[f]]
  BY Zenon DEF ServiceRow, Columns
<1> QED
  BY <1>1, <1>2

\* A step that changes nothing the service sees.
LEMMA Invisible ==
  ASSUME UNCHANGED <<ServiceRow, ServiceAudit, OrderIsPaid>>
  PROVE  UNCHANGED Service!vars
BY DEF Service!vars, Service!environment

LEMMA NothingHappened ==
  ASSUME case' = case, ledger' = ledger, payments' = payments
  PROVE  UNCHANGED Service!vars
BY Invisible DEF ServiceRow, ServiceAudit, OrderIsPaid

LEMMA RefinedInit == Init => Service!Init
<1> SUFFICES ASSUME Init  PROVE Service!Init
  OBVIOUS
<1>1. ServiceRow = Service!NewCase
  BY TheCaseAssumption DEF Init, ServiceRow, Service!NewCase
<1>2. ServiceAudit = {}
  BY TheCaseAssumption DEF Init, ServiceAudit
<1>3. OrderIsPaid = FALSE
  BY DEF Init, OrderIsPaid
<1> QED
  BY <1>1, <1>2, <1>3 DEF Service!Init

\* The commit of create_order is the service's CreateOrder: nobody can have paid the order,
\* which no response has shown.
LEMMA RefinedCommit ==
  ASSUME CheckoutInv, OrderingInv, NEW h \in Handlers, CommitOrder(h)
  PROVE  [Service!Next]_(Service!vars)
<1> DEFINE c == txn[h].case
           o == txn[h].order
<1>1. /\ c \in Cases /\ o \in Orders /\ orders[o] = c /\ o # None
      /\ case[c].order = None /\ ~case[c].recovered
      /\ case[c].status = "DETECTED" /\ ~case[c].stopped
      /\ case \in [Cases -> CaseRows]
  BY CheckoutAssumption DEF CommitOrder, CheckoutInv, TxnInv, OrderingInv, TypeOK
<1>2. /\ case' = [case EXCEPT ![c].order = o]
      /\ ledger' = ledger /\ payments' = payments
  BY DEF CommitOrder, provider
<1> HIDE DEF c, o
<1>3. CASE c # TheCase
  <2>1. case'[TheCase] = case[TheCase]
    BY <1>1, <1>2, <1>3, TheCaseAssumption
  <2> QED
    BY <1>2, <2>1, Invisible DEF ServiceRow, ServiceAudit, OrderIsPaid
<1>4. CASE c = TheCase
  <2>1. /\ case'[TheCase] = [case[TheCase] EXCEPT !.order = o]
        /\ case[TheCase] \in CaseRows
    BY <1>1, <1>2, <1>4
  <2>2. ServiceRow' = [ServiceRow EXCEPT !.order = TRUE]
    <3>1. /\ case'[TheCase].status = case[TheCase].status
          /\ case'[TheCase].recovered = case[TheCase].recovered
          /\ case'[TheCase].stopped = case[TheCase].stopped
          /\ case'[TheCase].payment = case[TheCase].payment
          /\ case'[TheCase].order = o
      BY <2>1 DEF CaseRows
    <3>2. /\ ServiceRow'.status = ServiceRow.status
          /\ ServiceRow'.recovered = ServiceRow.recovered
          /\ ServiceRow'.stopped = ServiceRow.stopped
          /\ ServiceRow'.retries = ServiceRow.retries
          /\ ServiceRow'.messages = ServiceRow.messages
          /\ ServiceRow'.amount = ServiceRow.amount
      BY <3>1 DEF ServiceRow
    <3>3. ServiceRow'.order = TRUE
      BY <1>1, <3>1 DEF ServiceRow
    <3> QED
      BY <3>2, <3>3, RowFields DEF Columns
  <2>3. ServiceAudit' = ServiceAudit
    BY <1>2 DEF ServiceAudit
  <2>4. ~OrderIsPaid /\ ~OrderIsPaid'
    <3>1. ~OrderIsPaid
      BY <1>1, <1>4, MappedRow
    <3>2. ASSUME NEW p \in Payments, payments[p].order = o, payments[p].status # "none"
          PROVE  FALSE
      <4>1. o \in disclosed
        BY <3>2 DEF CheckoutInv, PaymentInv
      <4> QED
        BY <1>1, <4>1 DEF CheckoutInv, ShownOrderIsStored
    <3>3. case'[TheCase].order = o
      BY <2>1 DEF CaseRows
    <3> QED
      BY <1>2, <3>1, <3>2, <3>3 DEF OrderIsPaid
  <2>5. Service!CreateOrder
    <3>1. ServiceRow.status = "DETECTED" /\ ~ServiceRow.recovered /\ ~ServiceRow.stopped
          /\ ~ServiceRow.order
      BY <1>1, <1>4 DEF ServiceRow
    <3>2. OrderIsPaid' = OrderIsPaid
      BY <2>4 DEF OrderIsPaid
    <3>3. UNCHANGED Service!environment
      BY <3>2 DEF Service!environment
    <3> QED
      BY <2>2, <2>3, <3>1, <3>3 DEF Service!CreateOrder
  <2> QED
    BY <2>5 DEF Service!Next
<1> QED
  BY <1>3, <1>4

\* _reconcile_captured_payment is one step of the service: the fetched payment was made,
\* and the row lock kept the case unrecovered.
LEMMA RefinedCredit ==
  ASSUME CheckoutInv, NEW h \in Handlers, Credit(h)
  PROVE  [Service!Next]_(Service!vars)
<1> DEFINE c == txn[h].case
           p == txn[h].payment
<1>1. /\ c \in Cases /\ p \in Payments /\ p # None
      /\ case[c].order # None /\ ~case[c].recovered
      /\ payments[p].order = case[c].order /\ payments[p].status \in Settled
      /\ case \in [Cases -> CaseRows] /\ ledger \in [Cases -> Ledgers]
  BY CheckoutAssumption DEF Credit, CheckoutInv, TxnInv, TypeOK
<1>2. /\ case' = [case EXCEPT ![c] =
                    [@ EXCEPT !.payment = p, !.status = "RECOVERED", !.recovered = TRUE,
                              !.stopped = TRUE]]
      /\ ledger' = [ledger EXCEPT ![c].recovered = @ + 1]
      /\ payments' = payments
  BY DEF Credit, provider
<1> HIDE DEF c, p
<1>3. CASE c # TheCase
  <2>1. case'[TheCase] = case[TheCase] /\ ledger'[TheCase] = ledger[TheCase]
    BY <1>1, <1>2, <1>3, TheCaseAssumption
  <2> QED
    BY <1>2, <2>1, Invisible DEF ServiceRow, ServiceAudit, OrderIsPaid
<1>4. CASE c = TheCase
  <2>1. /\ case'[TheCase] = [case[TheCase] EXCEPT !.payment = p, !.status = "RECOVERED",
                                                  !.recovered = TRUE, !.stopped = TRUE]
        /\ case[TheCase] \in CaseRows
        /\ ledger'[TheCase] = [ledger[TheCase] EXCEPT !.recovered = @ + 1]
        /\ ledger[TheCase] \in Ledgers
    BY <1>1, <1>2, <1>4
  <2>2. ServiceRow' = [ServiceRow EXCEPT !.status = "RECOVERED", !.recovered = TRUE,
                                         !.stopped = TRUE, !.amount = TRUE]
    <3>1. /\ case'[TheCase].status = "RECOVERED" /\ case'[TheCase].recovered = TRUE
          /\ case'[TheCase].stopped = TRUE /\ case'[TheCase].payment = p
          /\ case'[TheCase].order = case[TheCase].order
      BY <2>1 DEF CaseRows
    <3>2. /\ ServiceRow'.status = "RECOVERED"
          /\ ServiceRow'.recovered = TRUE
          /\ ServiceRow'.stopped = TRUE
          /\ ServiceRow'.retries = ServiceRow.retries
          /\ ServiceRow'.messages = ServiceRow.messages
          /\ ServiceRow'.order = ServiceRow.order
      BY <3>1 DEF ServiceRow
    <3>3. ServiceRow'.amount = TRUE
      BY <1>1, <3>1 DEF ServiceRow
    <3> QED
      BY <3>2, <3>3, RowFields DEF Columns
  <2>3. ServiceAudit' = ServiceAudit \union {"PAYMENT_SUCCESS", "REVENUE_RECOVERED"}
    <3>1. /\ ledger'[TheCase].recovered > 0
          /\ ledger'[TheCase].escalated = ledger[TheCase].escalated
      BY <2>1 DEF Ledgers
    <3> QED
      BY <3>1 DEF ServiceAudit
  <2>4. OrderIsPaid /\ OrderIsPaid'
    <3>1. OrderIsPaid
      BY <1>1, <1>4 DEF OrderIsPaid, Settled
    <3>2. case'[TheCase].order = case[TheCase].order
      BY <2>1 DEF CaseRows
    <3> QED
      BY <1>2, <3>1, <3>2 DEF OrderIsPaid
  <2>5. Service!Reconcile
    <3>1. ~ServiceRow.recovered
      BY <1>1, <1>4 DEF ServiceRow
    <3> QED
      BY <2>2, <2>3, <2>4, <3>1 DEF Service!Reconcile, Service!environment
  <2> QED
    BY <2>5 DEF Service!Next
<1> QED
  BY <1>3, <1>4

LEMMA RefinedEscalation ==
  ASSUME CheckoutInv, NEW c \in Cases, OperatorEscalates(c)
  PROVE  [Service!Next]_(Service!vars)
<1>1. /\ case' = [case EXCEPT ![c].status = "ESCALATED", ![c].stopped = TRUE]
      /\ ledger' = [ledger EXCEPT ![c].escalated = TRUE]
      /\ payments' = payments
      /\ case \in [Cases -> CaseRows] /\ ledger \in [Cases -> Ledgers]
  BY DEF OperatorEscalates, provider, CheckoutInv, TypeOK
<1>2. CASE c # TheCase
  <2>1. case'[TheCase] = case[TheCase] /\ ledger'[TheCase] = ledger[TheCase]
    BY <1>1, <1>2, TheCaseAssumption
  <2> QED
    BY <1>1, <2>1, Invisible DEF ServiceRow, ServiceAudit, OrderIsPaid
<1>3. CASE c = TheCase
  <2>1. /\ case'[TheCase] = [case[TheCase] EXCEPT !.status = "ESCALATED", !.stopped = TRUE]
        /\ case[TheCase] \in CaseRows
        /\ ledger'[TheCase] = [ledger[TheCase] EXCEPT !.escalated = TRUE]
        /\ ledger[TheCase] \in Ledgers
    BY <1>1, <1>3
  <2>2. /\ case'[TheCase].status = "ESCALATED" /\ case'[TheCase].stopped = TRUE
        /\ case'[TheCase].recovered = case[TheCase].recovered
        /\ case'[TheCase].payment = case[TheCase].payment
        /\ case'[TheCase].order = case[TheCase].order
        /\ ledger'[TheCase].escalated
        /\ ledger'[TheCase].recovered = ledger[TheCase].recovered
    BY <2>1 DEF CaseRows, Ledgers
  <2>3. ServiceRow' = [ServiceRow EXCEPT !.status = "ESCALATED", !.stopped = TRUE]
    <3>1. /\ ServiceRow'.status = "ESCALATED"
          /\ ServiceRow'.stopped = TRUE
          /\ ServiceRow'.recovered = ServiceRow.recovered
          /\ ServiceRow'.retries = ServiceRow.retries
          /\ ServiceRow'.messages = ServiceRow.messages
          /\ ServiceRow'.amount = ServiceRow.amount
          /\ ServiceRow'.order = ServiceRow.order
      BY <2>2 DEF ServiceRow
    <3> QED
      BY <3>1, RowFields DEF Columns
  <2>4. ServiceAudit' = ServiceAudit \union {"ESCALATED"}
    BY <2>2 DEF ServiceAudit
  <2>5. OrderIsPaid' = OrderIsPaid
    BY <1>1, <2>2 DEF OrderIsPaid
  <2>6. UNCHANGED Service!environment
    BY <2>5 DEF Service!environment
  <2>7. Service!OperatorEscalates
    BY <2>3, <2>4, <2>6 DEF Service!OperatorEscalates
  <2> QED
    BY <2>7 DEF Service!Next
<1> QED
  BY <1>2, <1>3

\* A change of one payment is nothing to the case, or it is the capture that pays its order.
LEMMA RefinedPayment ==
  ASSUME CheckoutInv, NEW p \in Payments,
         UNCHANGED <<case, ledger>>, \A q \in Payments \ {p} : payments'[q] = payments[q],
         \/ payments'[p].status \notin Settled /\ payments[p].status \notin Settled
         \/ /\ payments'[p].order = payments[p].order
            /\ payments'[p].status \in Settled
            /\ \/ payments[p].status \in Settled
               \/ /\ payments[p].status = "authorized"
                  /\ \A q \in Payments : payments[q].order = payments[p].order
                                           => payments[q].status \notin Settled
  PROVE  [Service!Next]_(Service!vars)
<1>1. ServiceRow' = ServiceRow /\ ServiceAudit' = ServiceAudit
  BY DEF ServiceRow, ServiceAudit
<1>2. CASE OrderIsPaid' = OrderIsPaid
  BY <1>1, <1>2, Invisible
<1>3. CASE OrderIsPaid' # OrderIsPaid
  <2>1. /\ payments'[p].order = payments[p].order /\ payments'[p].status \in Settled
        /\ payments[p].status = "authorized"
        /\ \A q \in Payments : payments[q].order = payments[p].order
                                 => payments[q].status \notin Settled
        /\ payments[p].order = case[TheCase].order
    BY <1>3 DEF OrderIsPaid, Settled
  <2>2. ~OrderIsPaid /\ OrderIsPaid'
    BY <2>1 DEF OrderIsPaid, Settled
  <2>3. ServiceRow.order
    <3>1. payments[p].order \in disclosed /\ None \notin disclosed
      BY <2>1, CheckoutAssumption DEF CheckoutInv, PaymentInv, TypeOK
    <3> QED
      BY <2>1, <3>1 DEF ServiceRow
  <2>4. Service!CustomerPays
    <3>1. OrderIsPaid' = TRUE
      BY <2>2 DEF OrderIsPaid
    <3> QED
      BY <1>1, <2>2, <2>3, <3>1 DEF Service!CustomerPays
  <2> QED
    BY <2>4 DEF Service!Next
<1> QED
  BY <1>2, <1>3

LEMMA RefinedNext == CheckoutInv /\ OrderingInv /\ [Next]_vars => [Service!Next]_(Service!vars)
<1> SUFFICES ASSUME CheckoutInv, OrderingInv, [Next]_vars  PROVE [Service!Next]_(Service!vars)
  OBVIOUS
<1>1. CASE UNCHANGED <<case, ledger, payments>>
  BY <1>1, NothingHappened
<1>2. ASSUME NEW h \in Handlers, CommitOrder(h)  PROVE [Service!Next]_(Service!vars)
  BY <1>2, RefinedCommit
<1>3. ASSUME NEW h \in Handlers, Credit(h)  PROVE [Service!Next]_(Service!vars)
  BY <1>3, RefinedCredit
<1>4. ASSUME NEW c \in Cases, OperatorEscalates(c)  PROVE [Service!Next]_(Service!vars)
  BY <1>4, RefinedEscalation
<1>5. payments \in [Payments -> Fetched]
  BY DEF CheckoutInv, TypeOK
<1>6. ASSUME NEW p \in Payments, NEW o \in Orders, Authorize(p, o)
      PROVE  [Service!Next]_(Service!vars)
  <2>1. /\ UNCHANGED <<case, ledger>> /\ \A q \in Payments \ {p} : payments'[q] = payments[q]
        /\ payments'[p].status = "authorized" /\ payments[p].status = "none"
    BY <1>5, <1>6 DEF Authorize
  <2> QED
    BY <2>1, RefinedPayment DEF Settled
<1>7. ASSUME NEW p \in Payments, Settle(p)  PROVE [Service!Next]_(Service!vars)
  <2>1. PICK status \in {"failed", "captured", "refunded"} :
          /\ payments' = [payments EXCEPT ![p].status = status]
          /\ \/ payments[p].status = "authorized" /\ status = "failed"
             \/ /\ payments[p].status = "authorized" /\ status = "captured"
                /\ \A q \in Payments : payments[q].order = payments[p].order
                                         => payments[q].status \notin Settled
             \/ payments[p].status = "captured" /\ status = "refunded"
    BY <1>7 DEF Settle, Settled
  <2>2. /\ UNCHANGED <<case, ledger>> /\ \A q \in Payments \ {p} : payments'[q] = payments[q]
        /\ payments'[p].status = status /\ payments'[p].order = payments[p].order
    BY <1>5, <1>7, <2>1 DEF Settle, Fetched
  <2> QED
    BY <2>1, <2>2, RefinedPayment DEF Settled
<1>8. \/ UNCHANGED <<case, ledger, payments>>
      \/ \E h \in Handlers : CommitOrder(h) \/ Credit(h)
      \/ \E c \in Cases : OperatorEscalates(c)
      \/ \E p \in Payments : Settle(p) \/ \E o \in Orders : Authorize(p, o)
  <2> DEFINE still == UNCHANGED <<case, ledger, payments>>
  <2>1. UNCHANGED vars => still
    BY DEF vars, provider
  <2>2. ASSUME NEW h \in Handlers
        PROVE  /\ \A c \in Cases : LockForOrder(h, c) => still
               /\ \A c \in Cases, p \in Payments : LockForCallback(h, c, p) => still
               /\ \A e \in Events : Receive(h, e) => still
               /\ Crash(h) => still
    BY DEF LockForOrder, LockForCallback, Receive, Crash, provider
  <2>3. ASSUME NEW h \in Handlers, OrderStep(h)  PROVE still \/ CommitOrder(h)
    BY <2>3 DEF OrderStep, OrderAtProvider
  <2>4. ASSUME NEW h \in Handlers, WebhookStep(h)  PROVE still
    BY <2>4 DEF WebhookStep, KeepReceipt, LockForWebhook, provider
  <2>5. ASSUME NEW h \in Handlers, Reconciliation(h)  PROVE still \/ Credit(h)
    BY <2>5 DEF Reconciliation, Fetch, CreditRefused, Decline, provider
  <2>6. ASSUME NEW c \in Cases  PROVE OrderAgain(c) \/ AgentRetryOrder(c) => still
    BY DEF OrderAgain, AgentRetryOrder, provider
  <2> HIDE DEF still
  <2>7. \/ still
        \/ \E h \in Handlers : CommitOrder(h) \/ Credit(h)
        \/ \E c \in Cases : OperatorEscalates(c)
        \/ \E p \in Payments : Settle(p) \/ \E o \in Orders : Authorize(p, o)
    BY <2>1, <2>2, <2>3, <2>4, <2>5, <2>6, Zenon DEF Next
  <2> QED
    BY <2>7 DEF still
<1> QED
  BY <1>1, <1>2, <1>3, <1>4, <1>6, <1>7, <1>8

\* For each case the checkout, with its requests, locks, webhooks, crashes and outages, does
\* what RecoveryService lets the provider's side do: create one order for an open case, be
\* paid once, reconcile once (create_order, _reconcile_captured_payment, escalate_case).
THEOREM CheckoutImplementsService == Spec => ImplementsService
<1>1. Init => OrderingInv
  BY DEF Init, OrderingInv, Idle
<1>2. CheckoutInv /\ OrderingInv /\ [Next]_vars => OrderingInv'
  BY OrderingInvStep
<1> QED
  BY <1>1, <1>2, RefinedInit, RefinedNext, CheckoutInvariance, PTL
     DEF Spec, ImplementsService

=============================================================================
