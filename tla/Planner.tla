---------------------------------- MODULE Planner ----------------------------------
(***************************************************************************)
(* The planner of one agent run: the evidence of node_context_builder, then *)
(* node_diagnosis and node_strategy, each asking a reasoning provider for a *)
(* completion.  Four layers can answer for a silent or confused model: the  *)
(* scoring heuristic, another HTTP attempt, LocalDeterministicProvider      *)
(* behind the provider, and the rule table behind the node.                 *)
(*                                                                         *)
(* Probabilities and confidences are in units of 1/10000.  An amount is a   *)
(* power of ten in paise.  A model's text is "prose" (not JSON), "misfit"   *)
(* (JSON the schema refuses) or the record it parses to; ReasoningText has  *)
(* the parsing.                                                             *)
(***************************************************************************)
EXTENDS Naturals, Sequences, FiniteSets

CONSTANTS
  Providers,      \* subset of {"deterministic", "cloudflare", "openai"}
  Exponents,      \* the amounts at risk, as powers of ten
  RetryCounts,    \* retry_count of the case when the run starts
  Probabilities,  \* what a trained model may predict
  Diagnoses,      \* the diagnoses a model may give, as records
  Proposals,      \* the strategies a model may propose, as records
  None

Priority ==
  <<"CHECKOUT_ABANDONED", "MANDATE_FAILURE", "SUBSCRIPTION_GRACE", "INSUFFICIENT_FUNDS",
    "EXPIRED_METHOD", "GATEWAY_TEMPORARY", "AUTH_FAILURE", "BANK_DECLINE", "UNKNOWN">>

Reasons == {Priority[i] : i \in DOMAIN Priority}

Strategies ==
  {"RETRY_NOW", "SCHEDULE_RETRY", "PAYMENT_METHOD_UPDATE", "REMINDER",
   "CHECKOUT_RECOVERY", "PROMISE_TO_PAY", "ESCALATE"}

Retries == {"RETRY_NOW", "SCHEDULE_RETRY"}
Scale == 10000

DiagnosisOutput ==
  [category : Reasons, label : Reasons \union {None}, strategy : Strategies,
   confidence : 0 .. Scale, review : BOOLEAN, by : {"model", "local", "node"}]

StrategyOutput ==
  [strategy : Strategies, delay : Nat, expected : Nat, confidence : 0 .. Scale,
   by : {"model", "local", "node"}]

ASSUME PlannerAssumption ==
  /\ Providers \subseteq {"deterministic", "cloudflare", "openai"}
  /\ Exponents \subseteq Nat /\ RetryCounts \subseteq Nat
  /\ \A e \in Exponents : 10 ^ e \in Nat  \* amounts are whole paise
  /\ Probabilities \subseteq 0 .. Scale
  /\ \A d \in Diagnoses : [d EXCEPT !.by = "model"] = d /\ d \in DiagnosisOutput
  /\ \A p \in Proposals : /\ [p EXCEPT !.by = "model"] = p
                          /\ [p EXCEPT !.delay = 0] \in StrategyOutput
                          /\ p.delay \in Nat \union {None}
  /\ None \notin Reasons \union Nat

VARIABLES
  request,    \* the configured provider and what the case and its evidence are
  stage,      \* the completion in progress, or "done"
  answers,    \* the HTTP answers of this completion
  diagnosis,  \* case_diagnosis
  proposal    \* case_strategy

vars == <<request, stage, answers, diagnosis, proposal>>

-----------------------------------------------------------------------------
(* Evidence: ml_scoring_service.py and the heuristic of scoring_service.py. *)

Recoverability ==
  [INSUFFICIENT_FUNDS |-> 70, EXPIRED_METHOD |-> 55, GATEWAY_TEMPORARY |-> 85,
   BANK_DECLINE |-> 50, AUTH_FAILURE |-> 45, MANDATE_FAILURE |-> 60,
   SUBSCRIPTION_GRACE |-> 65, CHECKOUT_ABANDONED |-> 50, UNKNOWN |-> 15]

AtMost(a, b) == IF a < b THEN a ELSE b
AtLeast(a, b) == IF a > b THEN a ELSE b

\* RecoveryScoringService.score with the default history and engagement, rounded.
Score(reason, exponent, retries) ==
  (4000 * AtMost(exponent, 7) + 7) \div 14 + 1275 + 35 * Recoverability[reason]
    + AtLeast(1500 - 375 * AtMost(retries, 4), 0) + 750 - 100 * AtMost(retries, 4)

\* get_rule_based_retry_delay_hours
RecommendedDelay(reason, retries) ==
  CASE reason = "GATEWAY_TEMPORARY"                    -> 2
    [] reason = "INSUFFICIENT_FUNDS"                   -> IF retries = 0 THEN 24 ELSE 48
    [] reason = "BANK_DECLINE"                         -> 48
    [] reason \in {"AUTH_FAILURE", "EXPIRED_METHOD"}   -> 0
    [] reason = "CHECKOUT_ABANDONED"                   -> 1
    [] OTHER                                           -> 24

\* node_context_builder: a trained model, the heuristic, or neither when scoring raises.
Evidence(reason, exponent, retries) ==
  Probabilities \union {Score(reason, exponent, retries), None}

\* The failure reason an event type is spelled like: the service's scenarios are like none,
\* the simulator's CHECKOUT_ABANDONED events carry the reason of that name.
Namesakes(reason) == {None} \union ({reason} \intersect {"CHECKOUT_ABANDONED"})

Requests ==
  UNION {[provider : Providers, reason : {reason}, event : Namesakes(reason), exponent : {e},
          retries : {n}, probability : Evidence(reason, e, n)] :
         reason \in Reasons, e \in Exponents, n \in RetryCounts}

Amount == 10 ^ request.exponent

\* What the nodes take for the delay when scoring left none.
Delay == IF request.probability = None THEN 24
         ELSE RecommendedDelay(request.reason, request.retries)

-----------------------------------------------------------------------------
(* The two rule tables.                                                     *)

\* STRATEGY_MAP of LocalDeterministicProvider: strategy, delay, confidence.
LocalRules ==
  [INSUFFICIENT_FUNDS |-> <<"SCHEDULE_RETRY", 24, 7500>>,
   EXPIRED_METHOD     |-> <<"PAYMENT_METHOD_UPDATE", 0, 6000>>,
   GATEWAY_TEMPORARY  |-> <<"RETRY_NOW", 2, 8500>>,
   BANK_DECLINE       |-> <<"SCHEDULE_RETRY", 48, 5500>>,
   AUTH_FAILURE       |-> <<"REMINDER", 0, 5000>>,
   MANDATE_FAILURE    |-> <<"SCHEDULE_RETRY", 24, 6500>>,
   SUBSCRIPTION_GRACE |-> <<"SCHEDULE_RETRY", 24, 6500>>,
   CHECKOUT_ABANDONED |-> <<"CHECKOUT_RECOVERY", 0, 5500>>,
   UNKNOWN            |-> <<"ESCALATE", 0, 2000>>]

\* strategy_map of _fallback_diagnosis: strategy, confidence.
NodeRules ==
  [INSUFFICIENT_FUNDS |-> <<"SCHEDULE_RETRY", 7500>>,
   EXPIRED_METHOD     |-> <<"PAYMENT_METHOD_UPDATE", 6000>>,
   GATEWAY_TEMPORARY  |-> <<"RETRY_NOW", 8500>>,
   BANK_DECLINE       |-> <<"SCHEDULE_RETRY", 5500>>,
   AUTH_FAILURE       |-> <<"REMINDER", 5000>>,
   MANDATE_FAILURE    |-> <<"SCHEDULE_RETRY", 6500>>,
   SUBSCRIPTION_GRACE |-> <<"SCHEDULE_RETRY", 6500>>,
   CHECKOUT_ABANDONED |-> <<"CHECKOUT_RECOVERY", 5500>>,
   UNKNOWN            |-> <<"ESCALATE", 2000>>]

\* The probability of the evidence, but never for an unknown cause.
Confidence(strategy, byRule) ==
  IF request.probability # None /\ strategy # "ESCALATE" THEN request.probability ELSE byRule

\* LocalDeterministicProvider on the diagnosis prompt, which names the failure reason.
LocalDiagnosis ==
  LET rule == LocalRules[request.reason]
  IN  [category |-> request.reason, label |-> None, strategy |-> rule[1],
       confidence |-> Confidence(rule[1], rule[3]), review |-> request.reason = "UNKNOWN",
       by |-> "local"]

\* _fallback_diagnosis
NodeDiagnosis ==
  LET rule == NodeRules[request.reason]
  IN  [category |-> request.reason, label |-> None, strategy |-> rule[1],
       confidence |-> Confidence(rule[1], rule[2]), review |-> request.reason = "UNKNOWN",
       by |-> "node"]

\* Seeded fault: the strategy prompt does not name the failure category.
MentionedInLabel == IF diagnosis.label = None THEN "UNKNOWN" ELSE diagnosis.label

\* The strategy prompt has no failure reason: the first reason of the list that the prompt
\* mentions, in the category, in a model's label or in the event type, is taken.
Mentioned ==
  LET named == {i \in DOMAIN Priority :
                  Priority[i] \in {diagnosis.category, diagnosis.label, request.event}}
  IN  Priority[CHOOSE i \in named : \A j \in named : i <= j]

\* The amount is printed in rupees.  Without evidence the strategy prompt does not say
\* INR, and the rupees are taken for paise.
LocalEstimate == IF request.probability = None THEN Amount \div 100 ELSE Amount

LocalStrategy ==
  LET rule == LocalRules[Mentioned]
  IN  [strategy |-> rule[1], delay |-> rule[2],
       expected |-> IF rule[1] = "ESCALATE" THEN 0 ELSE LocalEstimate,
       confidence |-> Confidence(rule[1], rule[3]), by |-> "local"]

\* _fallback_strategy follows the diagnosis.
NodeStrategy ==
  [strategy |-> diagnosis.strategy,
   delay |-> IF diagnosis.strategy \in Retries THEN Delay ELSE 0,
   expected |-> IF diagnosis.strategy = "ESCALATE" THEN 0 ELSE Amount,
   confidence |-> diagnosis.confidence, by |-> "node"]

-----------------------------------------------------------------------------
(* A completion.                                                            *)

NoDiagnosis == [by |-> "none"]
NoProposal == [by |-> "none"]

Init ==
  /\ request \in Requests
  /\ stage = "diagnosis"
  /\ answers = <<>>
  /\ diagnosis = NoDiagnosis
  /\ proposal = NoProposal

\* The node takes output d (or p) and the graph goes on to the next completion.
Diagnosed(d) ==
  /\ stage = "diagnosis" /\ stage' = "strategy"
  /\ diagnosis' = d
  /\ answers' = <<>>
  /\ UNCHANGED <<request, proposal>>

Proposed(p) ==
  /\ stage = "strategy" /\ stage' = "done"
  /\ proposal' = p
  /\ UNCHANGED <<request, answers, diagnosis>>

\* The provider answers with the local rules, whose output the node always accepts.
AnsweredLocally == Diagnosed(LocalDiagnosis) \/ Proposed(LocalStrategy)

\* The node cannot use the text.
AnsweredByNode == Diagnosed(NodeDiagnosis) \/ Proposed(NodeStrategy)

\* The node uses the model's text.  A retry without a delay gets the recommended one.
AnsweredByModel ==
  \/ \E d \in Diagnoses : Diagnosed(d)
  \/ \E p \in Proposals :
       Proposed([p EXCEPT !.delay =
         IF @ # None THEN @ ELSE IF p.strategy \in Retries THEN Delay ELSE 0])

\* LocalDeterministicProvider, also when Cloudflare's credentials are missing.
CompleteLocally ==
  /\ request.provider \in {"deterministic", "cloudflare"} /\ answers = <<>>
  /\ AnsweredLocally

Transient == {"server_error", "network"}
Refusals  == {"rate_limit", "auth_error", "other"}

\* The requests one completion may send: the loop of the Cloudflare provider, and the
\* max_retries = 2 of the OpenAI client, which the code leaves at its default.
MaxAttempts == [deterministic |-> 1, cloudflare |-> 2, openai |-> 3]

\* The answers after which a request is sent again.  The OpenAI client has its own: a
\* rate limit (429) and a conflict or request timeout (409, 408) are among them.
RetriedAnswers ==
  [deterministic |-> {}, cloudflare |-> Transient,
   openai |-> Transient \union {"rate_limit", "conflict"}]

HasAttemptsLeft == Len(answers) + 1 < MaxAttempts[request.provider]

AskAgain(a) ==
  /\ stage # "done"
  /\ answers' = Append(answers, a)
  /\ UNCHANGED <<request, stage, diagnosis, proposal>>

\* Seeded fault: only the last answer is remembered and the attempts are not counted.
CloudflareAttemptEndless ==
  /\ request.provider = "cloudflare"
  /\ \E a \in Transient \union Refusals \union {"json"} :
       IF a \in RetriedAnswers.cloudflare
       THEN /\ stage # "done" /\ answers' = <<a>>
            /\ UNCHANGED <<request, stage, diagnosis, proposal>>
       ELSE IF a = "json" THEN AnsweredByNode \/ AnsweredByModel
       ELSE AnsweredLocally

\* One HTTP attempt.  JSON is returned, whatever it says: only the node checks it against
\* the schema.
CloudflareAttempt ==
  /\ request.provider = "cloudflare"
  /\ \E a \in Transient \union Refusals \union {"prose", "json"} :
       IF a \in RetriedAnswers.cloudflare /\ HasAttemptsLeft THEN AskAgain(a)
       ELSE IF a = "json" THEN AnsweredByNode \/ AnsweredByModel
       ELSE AnsweredLocally

\* OpenAIProvider leaves the requests to its client, which sends again or raises (an answer
\* can say that it is not worth repeating; none is taken to ask for a repeat), and all checks of the text to the node.
CompleteWithOpenAI ==
  /\ request.provider = "openai"
  /\ \/ \E a \in RetriedAnswers.openai : HasAttemptsLeft /\ AskAgain(a)
     \/ AnsweredLocally \/ AnsweredByNode \/ AnsweredByModel

Next == CompleteLocally \/ CloudflareAttempt \/ CompleteWithOpenAI

Spec == Init /\ [][Next]_vars

\* Every HTTP call has a timeout, so a completion goes on.
FairSpec == Spec /\ WF_vars(Next)

TypeOK ==
  /\ request.provider \in Providers /\ request.reason \in Reasons
  /\ request.probability \in Evidence(request.reason, request.exponent, request.retries)
  /\ stage \in {"diagnosis", "strategy", "done"}
  /\ answers \in Seq(Transient \union Refusals \union {"conflict"})
  /\ Len(answers) < MaxAttempts[request.provider]
  /\ diagnosis \in DiagnosisOutput \union {NoDiagnosis}
  /\ proposal \in StrategyOutput \union {NoProposal}

-----------------------------------------------------------------------------
(* Properties.                                                              *)

\* The provider's own loop sends a request again only after an outage, never after a rate
\* limit or a refused credential, and no client repeats one that was refused
\* (CloudflareWorkersAIProvider.complete, OpenAIProvider.complete).
RetriesOnlyAfterOutage ==
  \A i \in DOMAIN answers :
    /\ request.provider = "cloudflare" => answers[i] \in Transient
    /\ answers[i] \notin {"auth_error", "other"}

\* Whichever layer stands in for the model, and each completion may be answered by another
\* one, the outcome is the same: the rule's strategy for the failure reason of the case, one
\* confidence throughout, and an escalation with a human review exactly for UNKNOWN.
RulesAgreeWithoutModel ==
  stage = "done" /\ diagnosis.by # "model" /\ proposal.by # "model" =>
    /\ proposal.strategy = NodeRules[request.reason][1]
    /\ diagnosis.strategy = proposal.strategy
    /\ proposal.confidence = diagnosis.confidence
    /\ (proposal.strategy = "ESCALATE") <=> (request.reason = "UNKNOWN")
    /\ diagnosis.review <=> (request.reason = "UNKNOWN")

\* An unknown failure is never made confident by the evidence: without a model both
\* confidences stay at the rule's.
EvidenceNeverExplainsUnknown ==
  /\ stage # "diagnosis" /\ diagnosis.by # "model" /\ request.reason = "UNKNOWN" =>
       diagnosis.confidence = NodeRules.UNKNOWN[2]
  /\ stage = "done" /\ proposal.by = "local" /\ proposal.strategy = "ESCALATE" =>
       proposal.confidence = LocalRules.UNKNOWN[3]

\* The delay of a retry is the recommended one whichever layer proposes it, except that the
\* local rules know neither the longer delay of a repeated INSUFFICIENT_FUNDS retry nor the
\* 24 hours that stand in for missing evidence.
RetryDelayIsRecommended ==
  /\ stage = "done" /\ proposal.by # "model" /\ diagnosis.by # "model"
  /\ proposal.strategy \in Retries /\ proposal.delay # Delay
  => /\ proposal.by = "local"
     /\ \/ request.probability = None
        \/ request.reason = "INSUFFICIENT_FUNDS" /\ request.retries > 0

\* The rules never expect to recover more than the amount at risk.
EstimateWithinAmount ==
  stage = "done" /\ proposal.by # "model" => proposal.expected <= Amount

\* The heuristic that stands in for a trained model ranks the failure reasons as the rules'
\* confidences do, falls with every retry up to the fourth, and is a probability.
HeuristicRanksLikeTheRules ==
  LET S(r, n) == Score(r, request.exponent, n)
  IN  stage = "diagnosis" => \A r, q \in Reasons : \A n \in RetryCounts :
        /\ NodeRules[r][2] > NodeRules[q][2] => S(r, n) > S(q, n)
        /\ S(r, n + 1) <= S(r, n) /\ (n < 4 => S(r, n + 1) < S(r, n))
        /\ S(r, n) <= Scale

\* Whoever answers in the place of the model plans by the rules, and no refusal is worth
\* another request.
PlanFollowsTheRules ==
  /\ TypeOK
  /\ RetriesOnlyAfterOutage
  /\ RulesAgreeWithoutModel
  /\ EvidenceNeverExplainsUnknown
  /\ RetryDelayIsRecommended
  /\ EstimateWithinAmount
  /\ HeuristicRanksLikeTheRules

\* A run gets its strategy: no answer of a provider leaves the planner without one.
PlannerAnswers == <>(stage = "done")

-----------------------------------------------------------------------------
(* What a document says and this code does not do: the following is         *)
(* violated, in the situation the README describes.                         *)

\* llm_provider.py, "rate limits (429) & quota exhaustion trigger immediate fallback without
\* retry loops": no request is repeated after a rate limit.  The OpenAI client does.
RateLimitsFallBackAtOnce == \A i \in DOMAIN answers : answers[i] # "rate_limit"

=============================================================================
