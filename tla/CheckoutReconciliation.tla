-------------------------- MODULE CheckoutReconciliation --------------------------
(***************************************************************************)
(* The Razorpay side of the recovery cases (razorpay_checkout.py,           *)
(* webhooks.py): orders created for cases, the customer's payments, the     *)
(* checkout callback and the webhooks that report them.                     *)
(*                                                                         *)
(* A request is a database transaction txn[h]: it holds the row lock of     *)
(* txn[h].case (SELECT ... FOR UPDATE) and the uncommitted webhook receipt  *)
(* of txn[h].event until it commits or rolls back.  Calls to the provider   *)
(* happen in between and cannot be rolled back.  Requests that are refused  *)
(* or that repeat a stored answer change no case and have no action.        *)
(***************************************************************************)
EXTENDS Naturals, FiniteSets

CONSTANTS
  Cases, Orders, Payments,  \* recovery cases; order and payment ids of the provider
  Handlers,                 \* requests that may be in progress at a time
  MaxCrashes,               \* bound on requests that die before they commit
  MaxOutages,               \* bound on fetches the provider does not answer
  None

\* A webhook: about which payment, and of which type.
Events == [payment : Payments, type : {"payment.captured", "payment.authorized"}]

ASSUME CheckoutAssumption ==
  /\ MaxCrashes \in Nat /\ MaxOutages \in Nat
  /\ None \notin Cases \union Orders \union Payments \union Events

VARIABLES
  case,       \* the committed case rows
  ledger,     \* the audit events of each case
  receipts,   \* the committed ProviderWebhook rows
  txn,        \* the requests in progress
  orders,     \* provider: the case each order was created for
  payments,   \* provider: the customers' payments
  disclosed,  \* the orders a response of create_order gave to a customer
  crashes, outages

provider == <<orders, payments>>
vars == <<case, ledger, receipts, txn, provider, disclosed, crashes, outages>>

CaseRows ==
  [status : {"DETECTED", "ESCALATED", "RECOVERED"}, recovered : BOOLEAN, stopped : BOOLEAN,
   order : Orders \union {None}, payment : Payments \union {None}]

Ledgers == [recovered : Nat, escalated : BOOLEAN]

\* What a fetched payment says; the answer of an unreachable provider names no order.
Fetched == [order : Orders \union {None},
            status : {"none", "authorized", "captured", "refunded", "failed"}]
Unavailable == [order |-> None, status |-> "failed"]

Transactions ==
  [at : {"idle", "ordering", "ordered", "received", "verifying", "fetched"},
   case : Cases \union {None}, order : Orders \union {None},
   payment : Payments \union {None}, event : Events \union {None}, seen : Fetched]

Idle == [at |-> "idle", case |-> None, order |-> None, payment |-> None, event |-> None,
         seen |-> Unavailable]

TypeOK ==
  /\ case \in [Cases -> CaseRows]
  /\ ledger \in [Cases -> Ledgers]
  /\ receipts \subseteq Events
  /\ txn \in [Handlers -> Transactions]
  /\ orders \in [Orders -> Cases \union {None}]
  /\ payments \in [Payments -> Fetched]
  /\ disclosed \subseteq Orders
  /\ crashes \in 0 .. MaxCrashes /\ outages \in 0 .. MaxOutages

Init ==
  /\ case = [c \in Cases |-> [status |-> "DETECTED", recovered |-> FALSE, stopped |-> FALSE,
                              order |-> None, payment |-> None]]
  /\ ledger = [c \in Cases |-> [recovered |-> 0, escalated |-> FALSE]]
  /\ receipts = {}
  /\ txn = [h \in Handlers |-> Idle]
  /\ orders = [o \in Orders |-> None]
  /\ payments = [p \in Payments |-> [order |-> None, status |-> "none"]]
  /\ disclosed = {}
  /\ crashes = 0 /\ outages = 0

\* Seeded fault: the row is read without FOR UPDATE.
UnlockedAnyway(c) == TRUE

\* The row lock of the case is free.
Unlocked(c) == \A h \in Handlers : txn[h].case # c

\* The end of request h, by a commit or a rollback.
Ends(h) == txn' = [txn EXCEPT ![h] = Idle]

-----------------------------------------------------------------------------
(* create_order.                                                            *)

\* Seeded fault: an order for a case that is closed.
LockForOrderOfAny(h, c) ==
  /\ txn[h] = Idle /\ Unlocked(c)
  /\ ~case[c].recovered
  /\ case[c].order = None
  /\ txn' = [txn EXCEPT ![h] = [Idle EXCEPT !.at = "ordering", !.case = c]]
  /\ UNCHANGED <<case, ledger, receipts, provider, disclosed, crashes, outages>>

\* The case is read under a lock and refused when it is terminal.  With an order already
\* stored that order is answered (see OrderAgain).
LockForOrder(h, c) ==
  /\ txn[h] = Idle /\ Unlocked(c)
  /\ case[c].status = "DETECTED" /\ ~case[c].recovered /\ ~case[c].stopped
  /\ case[c].order = None
  /\ txn' = [txn EXCEPT ![h] = [Idle EXCEPT !.at = "ordering", !.case = c]]
  /\ UNCHANGED <<case, ledger, receipts, provider, disclosed, crashes, outages>>

\* The answer to a customer whose case has an order.
OrderAgain(c) ==
  /\ Unlocked(c) /\ case[c].order # None
  /\ ~case[c].recovered /\ ~case[c].stopped
  /\ disclosed' = disclosed \union {case[c].order}
  /\ UNCHANGED <<case, ledger, receipts, txn, provider, crashes, outages>>

\* The provider creates the order, or refuses it and the request rolls back.
OrderAtProvider(h) ==
  /\ txn[h].at = "ordering"
  /\ \/ \E o \in Orders :
          /\ orders[o] = None
          /\ orders' = [orders EXCEPT ![o] = txn[h].case]
          /\ txn' = [txn EXCEPT ![h].at = "ordered", ![h].order = o]
     \/ Ends(h) /\ UNCHANGED orders
  /\ UNCHANGED <<case, ledger, receipts, payments, disclosed, crashes, outages>>

\* The order is stored and committed; then the customer learns of it.
CommitOrder(h) ==
  /\ txn[h].at = "ordered"
  /\ case' = [case EXCEPT ![txn[h].case].order = txn[h].order]
  /\ Ends(h)
  /\ \/ disclosed' = disclosed \union {txn[h].order}
     \/ UNCHANGED disclosed
  /\ UNCHANGED <<ledger, receipts, provider, crashes, outages>>

\* RazorpayTestProvider.retry_payment, called by an agent run: an order for the case that
\* is stored in no case row and shown to no customer.
AgentRetryOrder(c) ==
  /\ ~case[c].recovered
  /\ \E o \in Orders : orders[o] = None /\ orders' = [orders EXCEPT ![o] = c]
  /\ UNCHANGED <<case, ledger, receipts, txn, payments, disclosed, crashes, outages>>

-----------------------------------------------------------------------------
(* The customer and the provider.                                           *)

\* The customer tries to pay an order the checkout page shows.
Authorize(p, o) ==
  /\ payments[p].status = "none" /\ o \in disclosed
  /\ payments' = [payments EXCEPT ![p] = [order |-> o, status |-> "authorized"]]
  /\ UNCHANGED <<case, ledger, receipts, txn, orders, disclosed, crashes, outages>>

\* The attempt fails, is captured (one payment of an order is), or is refunded later.
Settle(p) ==
  /\ \/ /\ payments[p].status = "authorized"
        /\ \E status \in {"failed", "captured"} :
             /\ status = "captured" =>
                  \A q \in Payments : payments[q].order = payments[p].order
                                        => payments[q].status \notin {"captured", "refunded"}
             /\ payments' = [payments EXCEPT ![p].status = status]
     \/ /\ payments[p].status = "captured"
        /\ payments' = [payments EXCEPT ![p].status = "refunded"]
  /\ UNCHANGED <<case, ledger, receipts, txn, orders, disclosed, crashes, outages>>

-----------------------------------------------------------------------------
(* verify_payment: the checkout page posts the payment it was given.        *)

\* The case of the order is locked; a valid signature says that the provider gave out this
\* pair of order and payment.  A recovered case is answered from the row.
LockForCallback(h, c, p) ==
  /\ txn[h] = Idle /\ Unlocked(c)
  /\ case[c].order # None /\ payments[p].order = case[c].order
  /\ ~case[c].recovered
  /\ txn' = [txn EXCEPT ![h] = [Idle EXCEPT !.at = "verifying", !.case = c,
                                            !.order = case[c].order, !.payment = p]]
  /\ UNCHANGED <<case, ledger, receipts, provider, disclosed, crashes, outages>>

-----------------------------------------------------------------------------
(* razorpay_webhook.                                                        *)

\* The provider has reason to send e, again and again until it is answered with success.
Emitted(e) ==
  IF e.type = "payment.captured" THEN payments[e.payment].status \in {"captured", "refunded"}
  ELSE payments[e.payment].status # "none"

\* Seeded fault: the receipt is committed before the event is handled.
ReceiveCommitted(h, e) ==
  /\ txn[h] = Idle /\ Emitted(e)
  /\ e \notin receipts /\ \A g \in Handlers : txn[g].event # e
  /\ receipts' = receipts \union {e}
  /\ txn' = [txn EXCEPT ![h] = [Idle EXCEPT !.at = "received", !.event = e,
                                            !.payment = e.payment]]
  /\ UNCHANGED <<case, ledger, provider, disclosed, crashes, outages>>

\* The receipt is inserted; the unique event id holds back a second delivery until this
\* one ends and makes it a duplicate if the receipt was committed.
Receive(h, e) ==
  /\ txn[h] = Idle /\ Emitted(e)
  /\ e \notin receipts /\ \A g \in Handlers : txn[g].event # e
  /\ txn' = [txn EXCEPT ![h] = [Idle EXCEPT !.at = "received", !.event = e,
                                            !.payment = e.payment]]
  /\ UNCHANGED <<case, ledger, receipts, provider, disclosed, crashes, outages>>

\* The case whose order the webhook names, if any.
Matches(h) == {c \in Cases : case[c].order # None
                               /\ case[c].order = payments[txn[h].payment].order}

\* Only a capture on a known order reconciles, and only a case not yet recovered: in every
\* other case the receipt alone is kept.
KeepReceipt(h) ==
  /\ txn[h].at = "received"
  /\ \/ txn[h].event.type # "payment.captured"
     \/ Matches(h) = {}
     \/ \E c \in Matches(h) : Unlocked(c) /\ case[c].recovered
  /\ receipts' = receipts \union {txn[h].event}
  /\ Ends(h)
  /\ UNCHANGED <<case, ledger, provider, disclosed, crashes, outages>>

LockForWebhook(h) ==
  /\ txn[h].at = "received" /\ txn[h].event.type = "payment.captured"
  /\ \E c \in Matches(h) :
       /\ Unlocked(c) /\ ~case[c].recovered
       /\ txn' = [txn EXCEPT ![h].at = "verifying", ![h].case = c, ![h].order = case[c].order]
  /\ UNCHANGED <<case, ledger, receipts, provider, disclosed, crashes, outages>>

-----------------------------------------------------------------------------
(* _reconcile_captured_payment.                                             *)

\* RazorpayTestProvider.get_payment.  A fetch without an answer yields a payment of no
\* order, not an exception.
Fetch(h) ==
  /\ txn[h].at = "verifying"
  /\ \/ /\ txn' = [txn EXCEPT ![h].at = "fetched", ![h].seen = payments[txn[h].payment]]
        /\ UNCHANGED outages
     \/ /\ outages < MaxOutages /\ outages' = outages + 1
        /\ txn' = [txn EXCEPT ![h].at = "fetched", ![h].seen = Unavailable]
  /\ UNCHANGED <<case, ledger, receipts, provider, disclosed, crashes>>

\* The receipt of a webhook is committed with whatever else its request did.
WithReceipt(h) ==
  IF txn[h].event = None THEN receipts ELSE receipts \union {txn[h].event}

\* Seeded fault: an authorized payment is taken for a captured one.
CreditAuthorized(h) ==
  /\ txn[h].at = "fetched" /\ txn[h].seen.order = txn[h].order
  /\ txn[h].seen.status \in {"captured", "authorized"}
  /\ case' = [case EXCEPT ![txn[h].case] =
       [@ EXCEPT !.payment = txn[h].payment, !.status = "RECOVERED", !.recovered = TRUE,
                 !.stopped = TRUE]]
  /\ ledger' = [ledger EXCEPT ![txn[h].case].recovered = @ + 1]
  /\ receipts' = WithReceipt(h)
  /\ Ends(h)
  /\ UNCHANGED <<provider, disclosed, crashes, outages>>

\* A captured payment of the case's order closes the case.
Credit(h) ==
  /\ txn[h].at = "fetched" /\ txn[h].seen.order = txn[h].order
  /\ txn[h].seen.status = "captured"
  /\ case' = [case EXCEPT ![txn[h].case] =
       [@ EXCEPT !.payment = txn[h].payment, !.status = "RECOVERED", !.recovered = TRUE,
                 !.stopped = TRUE]]
  /\ ledger' = [ledger EXCEPT ![txn[h].case].recovered = @ + 1]
  /\ receipts' = WithReceipt(h)
  /\ Ends(h)
  /\ UNCHANGED <<provider, disclosed, crashes, outages>>

\* The same write, refused by the driver: provider_payment_timestamp is a column without a
\* time zone and the value has one, so the flush raises, the request answers 500 and rolls
\* back, with its receipt.  asyncpg, which the settings name, always refuses; other drivers
\* store the value.
CreditRefused(h) ==
  /\ txn[h].at = "fetched" /\ txn[h].seen.order = txn[h].order
  /\ txn[h].seen.status = "captured"
  /\ Ends(h)
  /\ UNCHANGED <<case, ledger, receipts, provider, disclosed, crashes, outages>>

\* Seeded fault: an unanswered fetch is reported like a payment that is not captured.
KeepReceiptOfOutage(h) ==
  /\ txn[h].at = "fetched" /\ txn[h].seen.status # "captured"
  /\ receipts' = WithReceipt(h)
  /\ Ends(h)
  /\ UNCHANGED <<case, ledger, provider, disclosed, crashes, outages>>

\* A payment of another order, or of none, is refused and the receipt rolled back with the
\* request; one that is not captured is answered "pending" or "verification_failed".  (With
\* the keys configured nothing raises in the code's try: get_payment catches for itself.)
Decline(h) ==
  /\ txn[h].at = "fetched"
  /\ \/ txn[h].seen.order # txn[h].order /\ UNCHANGED receipts
     \/ /\ txn[h].seen.order = txn[h].order /\ txn[h].seen.status # "captured"
        /\ receipts' = WithReceipt(h)
  /\ Ends(h)
  /\ UNCHANGED <<case, ledger, provider, disclosed, crashes, outages>>

-----------------------------------------------------------------------------
\* escalate_case: the status is written without a look at it, once the row is unlocked.
OperatorEscalates(c) ==
  /\ Unlocked(c)
  /\ case' = [case EXCEPT ![c].status = "ESCALATED", ![c].stopped = TRUE]
  /\ ledger' = [ledger EXCEPT ![c].escalated = TRUE]
  /\ UNCHANGED <<receipts, txn, provider, disclosed, crashes, outages>>

\* A request dies, or its commit fails: the transaction rolls back.
Crash(h) ==
  /\ txn[h] # Idle /\ crashes < MaxCrashes
  /\ crashes' = crashes + 1
  /\ Ends(h)
  /\ UNCHANGED <<case, ledger, receipts, provider, disclosed, outages>>

Reconciliation(h) == Fetch(h) \/ Credit(h) \/ CreditRefused(h) \/ Decline(h)
WebhookStep(h) == KeepReceipt(h) \/ LockForWebhook(h)
OrderStep(h) == OrderAtProvider(h) \/ CommitOrder(h)

Next ==
  \/ \E h \in Handlers :
       \/ \E c \in Cases : LockForOrder(h, c) \/ \E p \in Payments : LockForCallback(h, c, p)
       \/ \E e \in Events : Receive(h, e)
       \/ OrderStep(h) \/ WebhookStep(h) \/ Reconciliation(h) \/ Crash(h)
  \/ \E c \in Cases : OrderAgain(c) \/ AgentRetryOrder(c) \/ OperatorEscalates(c)
  \/ \E p \in Payments : Settle(p) \/ \E o \in Orders : Authorize(p, o)

Spec == Init /\ [][Next]_vars

\* A request in progress goes on, and is served when a row lock is released again and
\* again; the provider delivers an event until it is answered with success.  Customers,
\* operators and agents are free.
FairSpec ==
  /\ Spec
  /\ \A h \in Handlers : WF_vars(OrderStep(h)) /\ SF_vars(WebhookStep(h))
                           /\ WF_vars(Reconciliation(h))
  /\ \A e \in Events : SF_vars(\E h \in Handlers : Receive(h, e))

-----------------------------------------------------------------------------
(* Properties.                                                              *)

\* A recovered case was paid: the payment stored in it was captured on the case's own
\* order (_reconcile_captured_payment, by callback, webhook or both at once), and no
\* payment is credited to two cases.
RecoveredByOwnPayment ==
  /\ \A c \in Cases : case[c].recovered =>
       /\ case[c].payment # None /\ case[c].stopped
       /\ payments[case[c].payment].order = case[c].order
       /\ payments[case[c].payment].status \in {"captured", "refunded"}
  /\ \A c, d \in Cases : c # d /\ case[c].recovered => case[c].payment # case[d].payment

\* The callback and every delivery of the webhook together enter a recovery in the ledger
\* exactly once, and a credited payment is never exchanged for another.
CreditedOnce ==
  [][\A c \in Cases :
       /\ ledger'[c].recovered = IF case'[c].recovered THEN 1 ELSE 0
       /\ case[c].payment # None => case'[c].payment = case[c].payment]_vars

\* A stored receipt is an event that was dealt with, although it is inserted before the
\* event is handled and the provider may not answer: if the payment it announces is still
\* captured, the case of its order is recovered.
ReceiptMeansReconciled ==
  \A p \in Payments : \A c \in Cases :
    /\ [payment |-> p, type |-> "payment.captured"] \in receipts
    /\ payments[p].status = "captured" /\ payments[p].order = case[c].order
    => case[c].recovered

\* Whatever a customer can pay finds its case: an order shown in the checkout is the
\* order its case stores, for good, however create_order requests overlap or die.
ShownOrderIsStored == \A o \in disclosed : \E c \in Cases : orders[o] = c /\ case[c].order = o

\* README.md, "Revenue is counted only when all conditions match": once a payment of a case's
\* order is captured the case is recovered, unless the money was given back first.  The
\* refused write of Credit keeps this from happening, at every delivery.
CaptureIsReconciled ==
  \A p \in Payments :
    payments[p].status = "captured" ~>
      \/ payments[p].status = "refunded"
      \/ \E c \in Cases : case[c].order = payments[p].order /\ case[c].recovered

\* Nothing else forgets a capture: through outages, crashes, lost callbacks and concurrent
\* requests it is reconciled in the end, unless the driver refuses the write again and again
\* (the receipt is rolled back with every request that fails, and delivered anew).
OnlyRefusalsForgetCaptures ==
  []<><<\E h \in Handlers : CreditRefused(h)>>_vars \/ CaptureIsReconciled

=============================================================================
