--------------------------- MODULE PolicyEngineProofs ---------------------------
(***************************************************************************)
(* Facts about PolicyEngine for every policy and every request.             *)
(***************************************************************************)
EXTENDS PolicyEngine, TLAPS

\* A set of positions that contains the last of sixteen has a first one.
LEMMA FirstPosition ==
  ASSUME NEW S \in SUBSET (1 .. 16), 16 \in S
  PROVE  \E i \in 1 .. 16 : i \in S /\ \A j \in 1 .. i - 1 : j \notin S
<1> SUFFICES ASSUME \A i \in 1 .. 16 : i \in S => \E j \in 1 .. i - 1 : j \in S
             PROVE  FALSE
  OBVIOUS
<1>1. \A j \in 1 .. 4 : j \notin S
  OBVIOUS
<1>2. \A j \in 1 .. 8 : j \notin S
  BY <1>1
<1>3. \A j \in 1 .. 12 : j \notin S
  BY <1>2
<1>4. \A j \in 1 .. 16 : j \notin S
  BY <1>3
<1> QED
  BY <1>4

\* The verdict is that of a check that applies and that no applying check precedes
\* (the early returns of PolicyEngine._run_pipeline).
LEMMA AuthorizeIsFirst ==
  ASSUME NEW p, NEW c
  PROVE  \E i \in 1 .. 16 :
           /\ Pipeline(p, c)[i].applies
           /\ \A j \in 1 .. i - 1 : ~Pipeline(p, c)[j].applies
           /\ Authorize(p, c).decision = Pipeline(p, c)[i].decision
<1> DEFINE checks == Pipeline(p, c)
           P(i) == checks[i].applies /\ \A j \in 1 .. i - 1 : ~checks[j].applies
           first == CHOOSE i \in 1 .. 16 : P(i)
           S == {i \in 1 .. 16 : checks[i].applies}
<1>1. checks[16].applies
  BY DEF Pipeline, Check
<1>2. \E i \in 1 .. 16 : P(i)
  <2> HIDE DEF checks
  <2>1. S \in SUBSET (1 .. 16) /\ 16 \in S
    BY <1>1
  <2>2. PICK i \in 1 .. 16 : i \in S /\ \A j \in 1 .. i - 1 : j \notin S
    <3> HIDE DEF S
    <3> QED  BY <2>1, FirstPosition
  <2>3. \A j \in 1 .. i - 1 : ~checks[j].applies
    BY <2>2
  <2> QED
    BY <2>2, <2>3
<1>3. first \in 1 .. 16 /\ P(first)
  <2> HIDE DEF P
  <2> QED  BY <1>2
<1>4. Authorize(p, c).decision = checks[first].decision
  BY DEF Authorize
<1> HIDE DEF first, checks
<1>5. P(first)
  BY <1>3
<1> QED
  BY <1>3, <1>4, <1>5 DEF checks

\* The engine always answers with one of its four decisions: no request falls through the
\* checks (PolicyEngine.authorize).
THEOREM AuthorizeDecides ==
  ASSUME NEW p, NEW c
  PROVE  Authorize(p, c).decision \in Decisions
<1>1. \A i \in 1 .. 16 : Pipeline(p, c)[i].decision \in Decisions
  BY DEF Pipeline, Check, Decisions
<1> QED
  BY <1>1, AuthorizeIsFirst

\* An approval means that none of the fifteen checks applied: only the last entry of the
\* pipeline approves.
LEMMA ApprovalPassesAllChecks ==
  ASSUME NEW p, NEW c, Authorize(p, c).decision = "APPROVED"
  PROVE  \A j \in 1 .. 15 : ~Pipeline(p, c)[j].applies
<1>1. \A i \in 1 .. 15 : Pipeline(p, c)[i].decision # "APPROVED"
  BY DEF Pipeline, Check
<1>2. PICK i \in 1 .. 16 :
        /\ \A j \in 1 .. i - 1 : ~Pipeline(p, c)[j].applies
        /\ Authorize(p, c).decision = Pipeline(p, c)[i].decision
  BY AuthorizeIsFirst
<1>3. i = 16
  BY <1>1, <1>2
<1> QED
  BY <1>2, <1>3

\* What the limits of a policy forbid is never approved, whatever else the request says: a
\* retry at the limit or before the interval, a message at the cap, a checkout message
\* too early, too small or beyond its own cap, an amount that is no number, not positive
\* or over the automatic limit, and any action on a case that is recovered or paid, or
\* for a customer who opted out or is suspended (PolicyEngine._run_pipeline).
THEOREM ApprovalRespectsPolicy ==
  ASSUME NEW p, NEW c, Authorize(p, c).decision = "APPROVED"
  PROVE  /\ ~c.recovered /\ ~PaymentSucceeded(p, c)
         /\ ~OptedOut(p, c) /\ ~Suspended(p, c)
         /\ c.amount_is_number /\ ~(c.amount <= 0) /\ ~AmountExceedsLimit(p, c)
         /\ ~RetriesExhausted(p, c) /\ ~IntervalNotSatisfied(p, c)
         /\ ~MessagesExhausted(p, c)
         /\ IsCheckout(c) => /\ c.timeout_elapsed
                             /\ ~CheckoutAmountTooLow(p, c)
                             /\ ~CheckoutMessagesExhausted(p, c)
         /\ ~UnknownFailure(p, c) /\ ~LowConfidence(p, c)
<1>1. \A j \in 1 .. 15 : ~Pipeline(p, c)[j].applies
  BY ApprovalPassesAllChecks
<1>2. /\ ~Pipeline(p, c)[1].applies /\ ~Pipeline(p, c)[2].applies
      /\ ~Pipeline(p, c)[3].applies /\ ~Pipeline(p, c)[4].applies
      /\ ~Pipeline(p, c)[5].applies /\ ~Pipeline(p, c)[6].applies
      /\ ~Pipeline(p, c)[7].applies /\ ~Pipeline(p, c)[8].applies
      /\ ~Pipeline(p, c)[9].applies /\ ~Pipeline(p, c)[10].applies
      /\ ~Pipeline(p, c)[11].applies /\ ~Pipeline(p, c)[12].applies
      /\ ~Pipeline(p, c)[13].applies /\ ~Pipeline(p, c)[14].applies
      /\ ~Pipeline(p, c)[15].applies
  BY <1>1
<1> QED
  BY <1>2 DEF Pipeline, Check

\* What no check objects to is approved: a refusal always names a limit or a bar that the
\* request meets (the end of PolicyEngine._run_pipeline).
LEMMA UnopposedIsApproved ==
  ASSUME NEW p, NEW c, \A j \in 1 .. 15 : ~Pipeline(p, c)[j].applies
  PROVE  Authorize(p, c).decision = "APPROVED"
<1>1. PICK i \in 1 .. 16 :
        /\ Pipeline(p, c)[i].applies
        /\ Authorize(p, c).decision = Pipeline(p, c)[i].decision
  BY AuthorizeIsFirst
<1>2. i = 16
  BY <1>1
<1> QED
  BY <1>1, <1>2 DEF Pipeline, Check

\* None of the fifteen checks before the last applies.
NothingObjects(p, c) ==
  /\ ~c.recovered /\ ~PaymentSucceeded(p, c)
  /\ ~OptedOut(p, c) /\ ~Suspended(p, c)
  /\ c.amount_is_number /\ ~(c.amount <= 0) /\ ~AmountExceedsLimit(p, c)
  /\ ~RetriesExhausted(p, c) /\ ~IntervalNotSatisfied(p, c)
  /\ ~MessagesExhausted(p, c)
  /\ IsCheckout(c) => /\ c.timeout_elapsed
                      /\ ~CheckoutAmountTooLow(p, c)
                      /\ ~CheckoutMessagesExhausted(p, c)
  /\ ~UnknownFailure(p, c) /\ ~LowConfidence(p, c)

\* An approval is exactly the absence of an objection, in whatever order they are looked for.
LEMMA ApprovedIffNothingObjects ==
  ASSUME NEW p, NEW c
  PROVE  Authorize(p, c).decision = "APPROVED" <=> NothingObjects(p, c)
<1>1. ASSUME Authorize(p, c).decision = "APPROVED"  PROVE NothingObjects(p, c)
  BY <1>1, ApprovalRespectsPolicy DEF NothingObjects
<1>2. ASSUME NothingObjects(p, c)  PROVE Authorize(p, c).decision = "APPROVED"
  <2>1. \A j \in 1 .. 15 : ~Pipeline(p, c)[j].applies
    <3>1. /\ ~Pipeline(p, c)[1].applies /\ ~Pipeline(p, c)[2].applies
          /\ ~Pipeline(p, c)[3].applies /\ ~Pipeline(p, c)[4].applies
          /\ ~Pipeline(p, c)[5].applies /\ ~Pipeline(p, c)[6].applies
          /\ ~Pipeline(p, c)[7].applies /\ ~Pipeline(p, c)[8].applies
          /\ ~Pipeline(p, c)[9].applies /\ ~Pipeline(p, c)[10].applies
          /\ ~Pipeline(p, c)[11].applies /\ ~Pipeline(p, c)[12].applies
          /\ ~Pipeline(p, c)[13].applies /\ ~Pipeline(p, c)[14].applies
          /\ ~Pipeline(p, c)[15].applies
      BY <1>2 DEF NothingObjects, Pipeline, Check, CheckoutAmountTooLow,
                  CheckoutMessagesExhausted
    <3> QED
      BY <3>1
  <2> QED
    BY <2>1, UnopposedIsApproved
<1> QED
  BY <1>1, <1>2

\* Two requests that the same checks object to are approved together.
LEMMA ApprovedByTheSameChecks ==
  ASSUME NEW p, NEW c, NEW d, Authorize(p, d).decision = "APPROVED",
         \A j \in 1 .. 15 : Pipeline(p, c)[j].applies => Pipeline(p, d)[j].applies
  PROVE  Authorize(p, c).decision = "APPROVED"
<1>1. \A j \in 1 .. 15 : ~Pipeline(p, d)[j].applies
  BY ApprovalPassesAllChecks
<1>2. \A j \in 1 .. 15 : ~Pipeline(p, c)[j].applies
  BY <1>1
<1> QED
  BY <1>2, UnopposedIsApproved

\* A request with more of its budget used: d is c after some retries and messages.
UsedUp(c, d) ==
  /\ c \in AuthorizationContext /\ d \in AuthorizationContext
  /\ \A f \in DOMAIN c \ {"retry_count", "communication_count", "checkout_messages"} :
       d[f] = c[f]
  /\ d.retry_count >= c.retry_count
  /\ d.communication_count >= c.communication_count
  /\ d.checkout_messages >= c.checkout_messages

\* Using up budget never unlocks an action, in one step or in many: what is refused stays
\* refused when any of the three counters grows (the comparisons of _run_pipeline).
THEOREM UsageNeverApproves ==
  ASSUME NEW p \in PolicyConfig, NEW c, NEW d, UsedUp(c, d),
         Authorize(p, c).decision # "APPROVED"
  PROVE  Authorize(p, d).decision # "APPROVED"
<1> SUFFICES ASSUME Authorize(p, d).decision = "APPROVED"  PROVE FALSE
  OBVIOUS
<1>1. /\ c.recovered = d.recovered /\ c.succeeded = d.succeeded
      /\ c.opted_out = d.opted_out /\ c.suspended = d.suspended
      /\ c.amount = d.amount /\ c.amount_is_number = d.amount_is_number
      /\ c.action_type = d.action_type /\ c.hours_since_last = d.hours_since_last
      /\ c.failure_reason = d.failure_reason /\ c.confidence = d.confidence
      /\ c.timeout_elapsed = d.timeout_elapsed
  BY DEF UsedUp, AuthorizationContext
<1>2. /\ RetriesExhausted(p, c) => RetriesExhausted(p, d)
      /\ MessagesExhausted(p, c) => MessagesExhausted(p, d)
      /\ CheckoutMessagesExhausted(p, c) => CheckoutMessagesExhausted(p, d)
  BY <1>1 DEF UsedUp, AuthorizationContext, PolicyConfig, RetriesExhausted,
              MessagesExhausted, CheckoutMessagesExhausted, IsCheckout
<1>3. /\ PaymentSucceeded(p, c) <=> PaymentSucceeded(p, d)
      /\ OptedOut(p, c) <=> OptedOut(p, d)
      /\ Suspended(p, c) <=> Suspended(p, d)
      /\ AmountExceedsLimit(p, c) <=> AmountExceedsLimit(p, d)
      /\ IsCheckout(c) <=> IsCheckout(d)
      /\ CheckoutAmountTooLow(p, c) <=> CheckoutAmountTooLow(p, d)
      /\ IntervalNotSatisfied(p, c) <=> IntervalNotSatisfied(p, d)
      /\ UnknownFailure(p, c) <=> UnknownFailure(p, d)
      /\ LowConfidence(p, c) <=> LowConfidence(p, d)
  BY <1>1 DEF PaymentSucceeded, OptedOut, Suspended, AmountExceedsLimit, IsCheckout,
              CheckoutAmountTooLow, IntervalNotSatisfied, UnknownFailure, LowConfidence
<1>4. \A j \in 1 .. 15 : Pipeline(p, c)[j].applies => Pipeline(p, d)[j].applies
  BY <1>1, <1>2, <1>3 DEF Pipeline, Check
<1> QED
  BY <1>4, ApprovedByTheSameChecks

\* The four checks at the head of the pipeline beat all others: a resolved case is always
\* STOP and only a resolved case is, and a customer who opted out or is suspended is
\* DENIED, whatever other limits the request breaks (PolicyEngine._run_pipeline).
THEOREM BarsComeFirst ==
  ASSUME NEW p, NEW c
  PROVE  /\ Authorize(p, c).decision = "STOP" <=> c.recovered \/ PaymentSucceeded(p, c)
         /\ ~(c.recovered \/ PaymentSucceeded(p, c)) /\ (OptedOut(p, c) \/ Suspended(p, c))
              => Authorize(p, c).decision = "DENIED"
<1>1. PICK i \in 1 .. 16 :
        /\ Pipeline(p, c)[i].applies
        /\ \A j \in 1 .. i - 1 : ~Pipeline(p, c)[j].applies
        /\ Authorize(p, c).decision = Pipeline(p, c)[i].decision
  BY AuthorizeIsFirst
<1>2. /\ Pipeline(p, c)[1].applies <=> c.recovered
      /\ Pipeline(p, c)[2].applies <=> PaymentSucceeded(p, c)
      /\ Pipeline(p, c)[3].applies <=> OptedOut(p, c)
      /\ Pipeline(p, c)[4].applies <=> Suspended(p, c)
  BY DEF Pipeline, Check
<1>3. /\ \A j \in 1 .. 2 : Pipeline(p, c)[j].decision = "STOP"
      /\ \A j \in 3 .. 4 : Pipeline(p, c)[j].decision = "DENIED"
      /\ \A j \in 3 .. 16 : Pipeline(p, c)[j].decision # "STOP"
  BY DEF Pipeline, Check
<1>4. CASE c.recovered \/ PaymentSucceeded(p, c)
  <2>1. i \in 1 .. 2
    BY <1>1, <1>2, <1>4
  <2> QED
    BY <1>1, <1>3, <1>4, <2>1
<1>5. CASE ~(c.recovered \/ PaymentSucceeded(p, c))
  <2>1. i \in 3 .. 16
    BY <1>1, <1>2, <1>5
  <2>2. OptedOut(p, c) \/ Suspended(p, c) => i \in 3 .. 4
    BY <1>1, <1>2, <2>1
  <2> QED
    BY <1>1, <1>3, <1>5, <2>1, <2>2
<1> QED
  BY <1>4, <1>5

=============================================================================
