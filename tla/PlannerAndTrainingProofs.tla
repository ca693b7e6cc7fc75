--------------------------- MODULE PlannerAndTrainingProofs ---------------------------
(***************************************************************************)
(* Theorems about what may pass for a model: the rules that answer in a     *)
(* language model's place, the files a recovery model is served from, and   *)
(* the data it is trained on.  The first part is for any case, probability  *)
(* and mixture of the layers that answer, the second for any sequence of    *)
(* trainings, interruptions and loads, the third for any file of events,    *)
(* read in any order, and any two cutoff fractions.  The last part is for   *)
(* an answer of any length: what a model's text is read as.                *)
(*                                                                         *)
(* PlanInv remembers by whom each completion was answered and therefore     *)
(* what it is: a diagnosis that is not a model's is that of the rule for    *)
(* the case's failure reason, and a proposal is the one its layer computes  *)
(* from the case and the diagnosis.  TrainingInv says what a training has   *)
(* made so far and by which training each file was written; ScorerInv  *)
(* adds what a load has read so far of the file it found and of those       *)
(* written over it meanwhile.                                               *)
(*                                                                         *)
(* PipelineInv is all the third part needs of the file: it is finite, its   *)
(* rows are events and no two share their id.  Of it the order statistics   *)
(* of the splits are derived: there is a row at every position and rank,    *)
(* since otherwise the least row past it would be there, and the recursive  *)
(* sums of the two pipelines are equal, since there is no least row where   *)
(* they part.  Of an answer it is enough to know that it is made of tokens: *)
(* the positions that are kept are found as those of the file are.         *)
(***************************************************************************)
EXTENDS Planner, ReasoningText, ModelTraining, DataPipeline, Integers, FiniteSetTheorems,
        WellFoundedInduction, TLAPS

\* The two diagnoses that stand in for the model's, and the two proposals.
PlanInv ==
  /\ request \in Requests
  /\ stage \in {"diagnosis", "strategy", "done"}
  /\ answers \in Seq(RetriedAnswers[request.provider])
  /\ Len(answers) < MaxAttempts[request.provider]
  /\ stage = "diagnosis" => diagnosis = NoDiagnosis
  /\ stage # "diagnosis" =>
       /\ diagnosis \in DiagnosisOutput
       /\ diagnosis.by # "model" => diagnosis \in {LocalDiagnosis, NodeDiagnosis}
  /\ stage # "done" => proposal = NoProposal
  /\ stage = "done" =>
       /\ proposal \in StrategyOutput
       /\ proposal.by = "local" => proposal = LocalStrategy
       /\ proposal.by = "node" => proposal = NodeStrategy

-----------------------------------------------------------------------------
(* The tables.                                                              *)

LEMMA NineReasons ==
  /\ Reasons = {"CHECKOUT_ABANDONED", "MANDATE_FAILURE", "SUBSCRIPTION_GRACE",
                "INSUFFICIENT_FUNDS", "EXPIRED_METHOD", "GATEWAY_TEMPORARY", "AUTH_FAILURE",
                "BANK_DECLINE", "UNKNOWN"}
  /\ DOMAIN Priority = 1 .. 9
<1>1. DOMAIN Priority = 1 .. 9
  BY DEF Priority
<1>2. /\ Priority[1] = "CHECKOUT_ABANDONED" /\ Priority[2] = "MANDATE_FAILURE"
      /\ Priority[3] = "SUBSCRIPTION_GRACE" /\ Priority[4] = "INSUFFICIENT_FUNDS"
      /\ Priority[5] = "EXPIRED_METHOD" /\ Priority[6] = "GATEWAY_TEMPORARY"
      /\ Priority[7] = "AUTH_FAILURE" /\ Priority[8] = "BANK_DECLINE" /\ Priority[9] = "UNKNOWN"
  BY DEF Priority
<1>3. \A i \in 1 .. 9 : i = 1 \/ i = 2 \/ i = 3 \/ i = 4 \/ i = 5 \/ i = 6 \/ i = 7 \/ i = 8 \/ i = 9
  OBVIOUS
<1> QED
  BY <1>1, <1>2, <1>3 DEF Reasons

LEMMA InRange ==
  ASSUME NEW x \in Int, NEW b \in Int, 0 <= x, x <= b
  PROVE  x \in 0 .. b
OBVIOUS

LEMMA ScaleIsInt == Scale \in Int
BY DEF Scale

\* The two rule tables agree (STRATEGY_MAP and strategy_map), and only UNKNOWN escalates.
LEMMA RulesAgree ==
  ASSUME NEW r \in Reasons
  PROVE  /\ LocalRules[r][1] = NodeRules[r][1] /\ LocalRules[r][3] = NodeRules[r][2]
         /\ LocalRules[r][1] \in Strategies /\ LocalRules[r][2] \in Nat
         /\ LocalRules[r][3] \in 0 .. Scale
         /\ LocalRules[r][1] = "ESCALATE" <=> r = "UNKNOWN"
<1>1. r \in {"CHECKOUT_ABANDONED", "MANDATE_FAILURE", "SUBSCRIPTION_GRACE",
             "INSUFFICIENT_FUNDS", "EXPIRED_METHOD", "GATEWAY_TEMPORARY", "AUTH_FAILURE",
             "BANK_DECLINE", "UNKNOWN"}
  BY NineReasons
<1>2. LocalRules[r][1] = NodeRules[r][1] /\ LocalRules[r][3] = NodeRules[r][2]
  BY <1>1 DEF LocalRules, NodeRules
<1>3. LocalRules[r][1] \in Strategies /\ LocalRules[r][2] \in Nat
  BY <1>1 DEF LocalRules, Strategies
<1>4. LocalRules[r][3] \in 0 .. Scale
  <2>1. LocalRules[r][3] \in {7500, 6000, 8500, 5500, 5000, 6500, 2000}
    BY <1>1 DEF LocalRules
  <2>2. LocalRules[r][3] \in Int /\ 0 <= LocalRules[r][3] /\ LocalRules[r][3] <= Scale
    BY <2>1 DEF Scale
  <2> QED
    BY <2>2, ScaleIsInt, InRange
<1>5. LocalRules[r][1] = "ESCALATE" <=> r = "UNKNOWN"
  BY <1>1 DEF LocalRules
<1> QED
  BY <1>2, <1>3, <1>4, <1>5

\* get_rule_based_retry_delay_hours knows a longer delay than the rules only for a repeated
\* retry after INSUFFICIENT_FUNDS.
LEMMA DelaysAgree ==
  ASSUME NEW r \in Reasons, NEW n \in Nat
  PROVE  /\ RecommendedDelay(r, n) \in Nat
         /\ LocalRules[r][1] \in Retries /\ LocalRules[r][2] # RecommendedDelay(r, n)
              => r = "INSUFFICIENT_FUNDS" /\ n > 0
<1>1. r \in {"CHECKOUT_ABANDONED", "MANDATE_FAILURE", "SUBSCRIPTION_GRACE",
             "INSUFFICIENT_FUNDS", "EXPIRED_METHOD", "GATEWAY_TEMPORARY", "AUTH_FAILURE",
             "BANK_DECLINE", "UNKNOWN"}
  BY NineReasons
<1> QED
  BY <1>1 DEF LocalRules, Retries, RecommendedDelay

\* RecoveryScoringService.score is a probability, and the ranking it gives is that of the
\* rules' confidences.
LEMMA ScoreFacts ==
  ASSUME NEW r \in Reasons, NEW e \in Nat, NEW n \in Nat
  PROVE  /\ Score(r, e, n) \in 0 .. Scale
         /\ Score(r, e, n + 1) <= Score(r, e, n)
         /\ n < 4 => Score(r, e, n + 1) < Score(r, e, n)
<1>1. Recoverability[r] \in 15 .. 85
  <2>1. r \in {"CHECKOUT_ABANDONED", "MANDATE_FAILURE", "SUBSCRIPTION_GRACE",
               "INSUFFICIENT_FUNDS", "EXPIRED_METHOD", "GATEWAY_TEMPORARY", "AUTH_FAILURE",
               "BANK_DECLINE", "UNKNOWN"}
    BY NineReasons
  <2> QED
    BY <2>1 DEF Recoverability
<1> DEFINE size == (4000 * AtMost(e, 7) + 7) \div 14
           part == 35 * Recoverability[r]
           grace == AtLeast(1500 - 375 * AtMost(n, 4), 0)
           wear == 100 * AtMost(n, 4)
           lessGrace == AtLeast(1500 - 375 * AtMost(n + 1, 4), 0)
           moreWear == 100 * AtMost(n + 1, 4)
<1>2. size \in Int /\ 0 <= size /\ size <= 2000
  <2>1. AtMost(e, 7) \in 0 .. 7
    BY DEF AtMost
  <2> DEFINE x == AtMost(e, 7)
             y == 4000 * x + 7
             z == y \div 14
  <2>2. x \in Int /\ 0 <= x /\ x <= 7
    BY <2>1
  <2> HIDE DEF x
  <2>3. y \in Int /\ 0 <= y /\ y <= 28007
    BY <2>2
  <2> HIDE DEF y
  <2>4. z \in Int /\ 0 <= z /\ z <= 2000
    BY <2>3
  <2> HIDE DEF z
  <2>5. size = z
    BY DEF x, y, z
  <2> QED
    BY <2>4, <2>5
<1>3. part \in Int /\ 525 <= part /\ part <= 2975
  <2> DEFINE x == Recoverability[r]
  <2>1. x \in Int /\ 15 <= x /\ x <= 85
    BY <1>1
  <2> HIDE DEF x
  <2>2. 35 * x \in Int /\ 525 <= 35 * x /\ 35 * x <= 2975
    BY <2>1
  <2>3. part = 35 * x
    BY DEF x
  <2> QED
    BY <2>2, <2>3
<1>4. /\ grace \in Nat /\ lessGrace \in Nat /\ lessGrace <= grace /\ grace <= 1500
      /\ wear \in Nat /\ moreWear \in Nat /\ wear <= moreWear /\ moreWear <= 400
      /\ n < 4 => moreWear > wear
  BY DEF AtMost, AtLeast
<1>5. /\ Score(r, e, n) = size + 1275 + part + grace + 750 - wear
      /\ Score(r, e, n + 1) = size + 1275 + part + lessGrace + 750 - moreWear
  BY DEF Score
<1> HIDE DEF size, part, grace, wear, lessGrace, moreWear
<1>6. Score(r, e, n) \in 0 .. Scale
  <2>1. Score(r, e, n) \in Int /\ 0 <= Score(r, e, n) /\ Score(r, e, n) <= 10000
    BY <1>2, <1>3, <1>4, <1>5
  <2>2. Score(r, e, n) <= Scale
    BY <2>1 DEF Scale
  <2> QED
    BY <2>1, <2>2, ScaleIsInt, InRange
<1>7. /\ Score(r, e, n + 1) <= Score(r, e, n)
      /\ n < 4 => Score(r, e, n + 1) < Score(r, e, n)
  BY <1>2, <1>3, <1>4, <1>5
<1> QED
  BY <1>6, <1>7

LEMMA ScoreRanks ==
  ASSUME NEW r \in Reasons, NEW q \in Reasons, NEW e \in Nat, NEW n \in Nat,
         NodeRules[r][2] > NodeRules[q][2]
  PROVE  Score(r, e, n) > Score(q, e, n)
<1>1. Recoverability[r] > Recoverability[q] /\ Recoverability[r] \in Nat /\ Recoverability[q] \in Nat
  <2>1. {r, q} \subseteq
          {"CHECKOUT_ABANDONED", "MANDATE_FAILURE", "SUBSCRIPTION_GRACE",
           "INSUFFICIENT_FUNDS", "EXPIRED_METHOD", "GATEWAY_TEMPORARY", "AUTH_FAILURE",
           "BANK_DECLINE", "UNKNOWN"}
    BY NineReasons
  <2> QED
    BY <2>1 DEF Recoverability, NodeRules
<1> DEFINE size == (4000 * AtMost(e, 7) + 7) \div 14
           grace == AtLeast(1500 - 375 * AtMost(n, 4), 0)
           wear == 100 * AtMost(n, 4)
<1>2. size \in Int /\ grace \in Int /\ wear \in Int
  BY DEF AtMost, AtLeast
<1>3. /\ Score(r, e, n) = size + 1275 + 35 * Recoverability[r] + grace + 750 - wear
      /\ Score(q, e, n) = size + 1275 + 35 * Recoverability[q] + grace + 750 - wear
  BY DEF Score
<1> HIDE DEF size, grace, wear
<1> QED
  BY <1>1, <1>2, <1>3

-----------------------------------------------------------------------------
(* What each layer answers.                                                 *)

LEMMA CaseFacts ==
  ASSUME request \in Requests
  PROVE  /\ request.provider \in Providers /\ request.reason \in Reasons
         /\ request.event \in {None, request.reason}
         /\ request.event \in Reasons \union {None}
         /\ request.exponent \in Exponents /\ request.retries \in RetryCounts
         /\ request.probability \in Evidence(request.reason, request.exponent, request.retries)
         /\ request.exponent \in Nat /\ request.retries \in Nat
         /\ request.probability \in (0 .. Scale) \union {None}
         /\ Amount \in Nat /\ Delay \in Nat
<1>1. PICK reason \in Reasons, e \in Exponents, n \in RetryCounts :
        request \in [provider : Providers, reason : {reason}, event : Namesakes(reason),
                    exponent : {e}, retries : {n}, probability : Evidence(reason, e, n)]
  <2> DEFINE Asked(reason, e, n) ==
               [provider : Providers, reason : {reason}, event : Namesakes(reason),
                exponent : {e}, retries : {n}, probability : Evidence(reason, e, n)]
  <2>1. Requests = UNION {Asked(reason, e, n) : reason \in Reasons, e \in Exponents, n \in RetryCounts}
    BY DEF Requests
  <2> HIDE DEF Asked
  <2>2. \E reason \in Reasons, e \in Exponents, n \in RetryCounts : request \in Asked(reason, e, n)
    BY <2>1
  <2> QED
    BY <2>2 DEF Asked
<1>2. /\ request.provider \in Providers /\ request.reason = reason
      /\ request.event \in Namesakes(reason) /\ request.exponent = e /\ request.retries = n
      /\ request.probability \in Evidence(reason, e, n)
  BY <1>1
<1>3. e \in Nat /\ n \in Nat /\ 10 ^ e \in Nat /\ Probabilities \subseteq 0 .. Scale
  BY PlannerAssumption
<1>4. Score(reason, e, n) \in 0 .. Scale
  BY <1>3, ScoreFacts
<1>5. request.probability \in (0 .. Scale) \union {None}
  BY <1>2, <1>3, <1>4 DEF Evidence
<1>6. Delay \in Nat
  BY <1>2, <1>3, DelaysAgree DEF Delay
<1>7. Amount \in Nat
  BY <1>2, <1>3 DEF Amount
<1>8. request.event \in {None, request.reason}
  BY <1>2 DEF Namesakes
<1> QED
  BY <1>2, <1>3, <1>5, <1>6, <1>7, <1>8

\* The two diagnoses that stand in for the model's differ in nothing but their author.
LEMMA RuleDiagnoses ==
  ASSUME request \in Requests, NEW d \in {LocalDiagnosis, NodeDiagnosis}
  PROVE  /\ d \in DiagnosisOutput /\ d.by # "model"
         /\ d.category = request.reason /\ d.label = None
         /\ d.strategy = NodeRules[request.reason][1]
         /\ d.confidence = Confidence(NodeRules[request.reason][1], NodeRules[request.reason][2])
         /\ d.review <=> request.reason = "UNKNOWN"
<1> DEFINE r == request.reason
<1>1. r \in Reasons
  BY CaseFacts
<1>2. /\ LocalRules[r][1] = NodeRules[r][1] /\ LocalRules[r][3] = NodeRules[r][2]
      /\ NodeRules[r][1] \in Strategies /\ NodeRules[r][2] \in 0 .. Scale
  BY <1>1, RulesAgree
<1>3. Confidence(NodeRules[r][1], NodeRules[r][2]) \in 0 .. Scale
  BY <1>2, CaseFacts DEF Confidence
<1>4. PICK by \in {"local", "node"} :
        d = [category |-> r, label |-> None, strategy |-> NodeRules[r][1],
             confidence |-> Confidence(NodeRules[r][1], NodeRules[r][2]),
             review |-> r = "UNKNOWN", by |-> by]
  BY <1>2 DEF LocalDiagnosis, NodeDiagnosis
<1>5. /\ d.by = by /\ d.category = r /\ d.label = None /\ d.strategy = NodeRules[r][1]
      /\ d.confidence = Confidence(NodeRules[r][1], NodeRules[r][2])
      /\ d.review = (r = "UNKNOWN")
  BY <1>4
<1>6. (r = "UNKNOWN") \in BOOLEAN
  OBVIOUS
<1>7. d \in DiagnosisOutput
  BY <1>1, <1>2, <1>3, <1>4, <1>6 DEF DiagnosisOutput
<1> QED
  BY <1>5, <1>7

LEMMA FirstOfNine ==
  ASSUME NEW S \in SUBSET (1 .. 9), S # {}
  PROVE  \E i \in S : \A j \in S : i <= j
<1> SUFFICES ASSUME \A i \in S : \E j \in S : ~(i <= j)  PROVE FALSE
  OBVIOUS
<1>1. 1 \notin S
  OBVIOUS
<1>2. 2 \notin S /\ 3 \notin S
  BY <1>1
<1>3. 4 \notin S /\ 5 \notin S
  BY <1>1, <1>2
<1>4. 6 \notin S /\ 7 \notin S
  BY <1>1, <1>2, <1>3
<1>5. 8 \notin S /\ 9 \notin S
  BY <1>1, <1>2, <1>3, <1>4
<1>6. \A i \in 1 .. 9 : i = 1 \/ i = 2 \/ i = 3 \/ i = 4 \/ i = 5 \/ i = 6 \/ i = 7 \/ i = 8 \/ i = 9
  OBVIOUS
<1> QED
  BY <1>1, <1>2, <1>3, <1>4, <1>5, <1>6

\* The reason that the local rules read out of the strategy prompt: always one, and that of
\* the diagnosis unless a model's label or the event type names another.
LEMMA MentionedIsAReason ==
  ASSUME diagnosis \in DiagnosisOutput, request.event \in Reasons \union {None}
  PROVE  /\ Mentioned \in Reasons
         /\ diagnosis.label = None /\ request.event \in {None, diagnosis.category} =>
              Mentioned = diagnosis.category
<1> DEFINE named == {i \in DOMAIN Priority :
                      Priority[i] \in {diagnosis.category, diagnosis.label, request.event}}
           first == CHOOSE i \in named : \A j \in named : i <= j
<1>1. diagnosis.category \in Reasons
  BY DEF DiagnosisOutput
<1>2. named \in SUBSET (1 .. 9) /\ named # {}
  BY <1>1, NineReasons DEF Reasons
<1>3. first \in named
  <2>1. \E i \in named : \A j \in named : i <= j
    BY <1>2, FirstOfNine
  <2> HIDE DEF named
  <2> QED
    BY <2>1
<1>4. Mentioned = Priority[first]
  BY DEF Mentioned
<1> HIDE DEF first
<1>5. /\ first \in DOMAIN Priority
      /\ Priority[first] \in {diagnosis.category, diagnosis.label, request.event}
  BY <1>3
<1>6. Priority[first] \in Reasons /\ None \notin Reasons
  BY <1>5, PlannerAssumption DEF Reasons
<1> QED
  BY <1>4, <1>5, <1>6

\* What the local rules propose, whatever the diagnosis.
LEMMA LocalStrategyFacts ==
  ASSUME request \in Requests, diagnosis \in DiagnosisOutput
  PROVE  /\ LocalStrategy \in StrategyOutput /\ LocalStrategy.by = "local"
         /\ LocalStrategy.strategy = LocalRules[Mentioned][1]
         /\ LocalStrategy.delay = LocalRules[Mentioned][2]
         /\ LocalStrategy.expected <= Amount
         /\ LocalStrategy.confidence = Confidence(LocalRules[Mentioned][1], LocalRules[Mentioned][3])
<1>1. Mentioned \in Reasons
  BY MentionedIsAReason, CaseFacts
<1>2. /\ LocalRules[Mentioned][1] \in Strategies /\ LocalRules[Mentioned][2] \in Nat
      /\ LocalRules[Mentioned][3] \in 0 .. Scale
  BY <1>1, RulesAgree
<1>3. Confidence(LocalRules[Mentioned][1], LocalRules[Mentioned][3]) \in 0 .. Scale
  BY <1>2, CaseFacts DEF Confidence
<1>4. LocalEstimate \in Nat /\ LocalEstimate <= Amount
  <2>1. Amount \in Nat
    BY CaseFacts
  <2>2. \A a \in Nat : a \div 100 \in Nat /\ a \div 100 <= a
    OBVIOUS
  <2> QED
    BY <2>1, <2>2 DEF LocalEstimate
<1> DEFINE expected == IF LocalRules[Mentioned][1] = "ESCALATE" THEN 0 ELSE LocalEstimate
<1>5. expected \in Nat /\ expected <= Amount
  BY <1>4, CaseFacts
<1>6. LocalStrategy = [strategy |-> LocalRules[Mentioned][1], delay |-> LocalRules[Mentioned][2],
                       expected |-> expected,
                       confidence |-> Confidence(LocalRules[Mentioned][1], LocalRules[Mentioned][3]),
                       by |-> "local"]
  BY DEF LocalStrategy
<1> HIDE DEF expected
<1> QED
  BY <1>2, <1>3, <1>5, <1>6 DEF StrategyOutput

\* The node's fallback follows the diagnosis.
LEMMA NodeStrategyFacts ==
  ASSUME request \in Requests, diagnosis \in DiagnosisOutput
  PROVE  /\ NodeStrategy \in StrategyOutput /\ NodeStrategy.by = "node"
         /\ NodeStrategy.strategy = diagnosis.strategy
         /\ NodeStrategy.confidence = diagnosis.confidence
         /\ NodeStrategy.strategy \in Retries => NodeStrategy.delay = Delay
         /\ NodeStrategy.expected <= Amount
<1>1. Amount \in Nat /\ Delay \in Nat
  BY CaseFacts
<1> QED
  BY <1>1 DEF NodeStrategy, DiagnosisOutput, StrategyOutput

-----------------------------------------------------------------------------
(* The completions.                                                         *)

LEMMA AttemptsFacts ==
  ASSUME request \in Requests
  PROVE  /\ request.provider \in {"deterministic", "cloudflare", "openai"}
         /\ MaxAttempts[request.provider] \in Nat /\ 0 < MaxAttempts[request.provider]
<1>1. request.provider \in {"deterministic", "cloudflare", "openai"}
  BY CaseFacts, PlannerAssumption
<1> QED
  BY <1>1 DEF MaxAttempts

LEMMA InitInv == Init => PlanInv
<1> SUFFICES ASSUME Init  PROVE PlanInv
  OBVIOUS
<1>1. request \in Requests
  BY DEF Init
<1>2. answers \in Seq(RetriedAnswers[request.provider]) /\ Len(answers) = 0
  BY DEF Init
<1> QED
  BY <1>1, <1>2, AttemptsFacts DEF Init, PlanInv

LEMMA DiagnosedStep ==
  ASSUME PlanInv, NEW d \in DiagnosisOutput, Diagnosed(d),
         d.by # "model" => d \in {LocalDiagnosis, NodeDiagnosis}
  PROVE  PlanInv'
<1>1. LocalDiagnosis' = LocalDiagnosis /\ NodeDiagnosis' = NodeDiagnosis
  BY DEF Diagnosed, LocalDiagnosis, NodeDiagnosis, Confidence
<1>2. answers' \in Seq(RetriedAnswers[request.provider]) /\ Len(answers') = 0
  BY DEF Diagnosed
<1>3. request' = request /\ 0 < MaxAttempts[request.provider]
  BY AttemptsFacts DEF Diagnosed, PlanInv
<1> QED
  BY <1>1, <1>2, <1>3 DEF PlanInv, Diagnosed

LEMMA ProposedStep ==
  ASSUME PlanInv, NEW p \in StrategyOutput, Proposed(p),
         p.by = "local" => p = LocalStrategy, p.by = "node" => p = NodeStrategy
  PROVE  PlanInv'
<1>1. UNCHANGED <<request, answers, diagnosis>>
  BY DEF Proposed
<1>2. LocalDiagnosis' = LocalDiagnosis /\ NodeDiagnosis' = NodeDiagnosis
  BY <1>1 DEF LocalDiagnosis, NodeDiagnosis, Confidence
<1>3. LocalStrategy' = LocalStrategy /\ NodeStrategy' = NodeStrategy
  <2>1. request' = request /\ diagnosis' = diagnosis
    BY <1>1
  <2>2. Mentioned' = Mentioned
    BY <2>1 DEF Mentioned
  <2>3. Amount' = Amount /\ Delay' = Delay
    BY <2>1 DEF Amount, Delay
  <2>4. LocalEstimate' = LocalEstimate
    BY <2>1, <2>3 DEF LocalEstimate
  <2>5. LocalStrategy' = LocalStrategy
    BY <2>1, <2>2, <2>4 DEF LocalStrategy, Confidence
  <2>6. NodeStrategy' = NodeStrategy
    BY <2>1, <2>3 DEF NodeStrategy
  <2> QED
    BY <2>5, <2>6
<1> QED
  BY <1>1, <1>2, <1>3 DEF PlanInv, Proposed

LEMMA LocalStep ==
  ASSUME PlanInv, AnsweredLocally
  PROVE  PlanInv'
<1>1. CASE Diagnosed(LocalDiagnosis)
  BY <1>1, RuleDiagnoses, DiagnosedStep DEF PlanInv
<1>2. CASE Proposed(LocalStrategy)
  <2>1. diagnosis \in DiagnosisOutput
    BY <1>2 DEF Proposed, PlanInv
  <2>2. LocalStrategy \in StrategyOutput /\ LocalStrategy.by = "local"
    BY <2>1, LocalStrategyFacts DEF PlanInv
  <2> QED
    BY <1>2, <2>2, ProposedStep
<1> QED
  BY <1>1, <1>2 DEF AnsweredLocally

LEMMA NodeStep ==
  ASSUME PlanInv, AnsweredByNode
  PROVE  PlanInv'
<1>1. CASE Diagnosed(NodeDiagnosis)
  BY <1>1, RuleDiagnoses, DiagnosedStep DEF PlanInv
<1>2. CASE Proposed(NodeStrategy)
  <2>1. diagnosis \in DiagnosisOutput
    BY <1>2 DEF Proposed, PlanInv
  <2>2. NodeStrategy \in StrategyOutput /\ NodeStrategy.by = "node"
    BY <2>1, NodeStrategyFacts DEF PlanInv
  <2> QED
    BY <1>2, <2>2, ProposedStep
<1> QED
  BY <1>1, <1>2 DEF AnsweredByNode

LEMMA ModelStep ==
  ASSUME PlanInv, AnsweredByModel
  PROVE  PlanInv'
<1>1. ASSUME NEW d \in Diagnoses, Diagnosed(d)  PROVE PlanInv'
  <2>1. [d EXCEPT !.by = "model"] = d /\ d \in DiagnosisOutput
    BY PlannerAssumption
  <2>2. d.by = "model"
    BY <2>1 DEF DiagnosisOutput
  <2> QED
    BY <1>1, <2>1, <2>2, DiagnosedStep
<1>2. ASSUME NEW p \in Proposals,
             Proposed([p EXCEPT !.delay =
               IF @ # None THEN @ ELSE IF p.strategy \in Retries THEN Delay ELSE 0])
      PROVE  PlanInv'
  <2> DEFINE delay == IF p.delay # None THEN p.delay
                      ELSE IF p.strategy \in Retries THEN Delay ELSE 0
             q == [p EXCEPT !.delay = delay]
             z == [p EXCEPT !.delay = 0]
  <2>1. /\ [p EXCEPT !.by = "model"] = p /\ z \in StrategyOutput
        /\ p.delay \in Nat \union {None}
    BY PlannerAssumption
  <2>2. delay \in Nat
    BY <2>1, CaseFacts DEF PlanInv
  <2>3. q = [z EXCEPT !.delay = delay]
    OBVIOUS
  <2> HIDE DEF delay
  <2>4. q \in StrategyOutput
    <3> HIDE DEF z, q
    <3> QED
      BY <2>1, <2>2, <2>3 DEF StrategyOutput
  <2>5. q.by = "model"
    <3>1. "by" \in DOMAIN z /\ DOMAIN z = DOMAIN p
      <4>1. DOMAIN z = DOMAIN p
        OBVIOUS
      <4> HIDE DEF z
      <4> QED
        BY <2>1, <4>1 DEF StrategyOutput
    <3>2. p.by = "model" /\ q.by = p.by
      BY <2>1, <3>1
    <3> QED
      BY <3>2
  <2>6. Proposed(q)
    BY <1>2 DEF delay
  <2> HIDE DEF q, z
  <2> QED
    BY <2>4, <2>5, <2>6, ProposedStep
<1> QED
  BY <1>1, <1>2 DEF AnsweredByModel

\* A provider asks again after the answers it retries, and only while attempts are left.
LEMMA AskAgainStep ==
  ASSUME PlanInv, NEW a \in RetriedAnswers[request.provider], AskAgain(a), HasAttemptsLeft
  PROVE  PlanInv'
<1>1. UNCHANGED <<request, stage, diagnosis, proposal>> /\ answers' = Append(answers, a)
  BY DEF AskAgain
<1>2. /\ answers' \in Seq(RetriedAnswers[request'.provider])
      /\ Len(answers') < MaxAttempts[request'.provider]
  <2> DEFINE S == RetriedAnswers[request.provider]
             m == MaxAttempts[request.provider]
  <2>1. answers \in Seq(S) /\ a \in S /\ Len(answers) + 1 < m /\ request' = request
    BY <1>1 DEF PlanInv, HasAttemptsLeft
  <2> HIDE DEF S, m
  <2>2. Append(answers, a) \in Seq(S) /\ Len(Append(answers, a)) = Len(answers) + 1
    BY <2>1
  <2>3. answers' \in Seq(S) /\ Len(answers') < m
    BY <1>1, <2>1, <2>2
  <2> QED
    BY <2>1, <2>3 DEF S, m
<1>3. LocalDiagnosis' = LocalDiagnosis /\ NodeDiagnosis' = NodeDiagnosis
  BY <1>1 DEF LocalDiagnosis, NodeDiagnosis, Confidence
<1>4. LocalStrategy' = LocalStrategy /\ NodeStrategy' = NodeStrategy
  BY <1>1 DEF LocalStrategy, NodeStrategy, Mentioned, Confidence, LocalEstimate, Amount, Delay
<1> QED
  BY <1>1, <1>2, <1>3, <1>4 DEF PlanInv

LEMMA NextInv == PlanInv /\ [Next]_vars => PlanInv'
<1> SUFFICES ASSUME PlanInv, [Next]_vars  PROVE PlanInv'
  OBVIOUS
<1>1. CASE CompleteLocally
  BY <1>1, LocalStep DEF CompleteLocally
<1>2. CASE CloudflareAttempt
  <2>1. ASSUME NEW a \in RetriedAnswers.cloudflare, HasAttemptsLeft, AskAgain(a)  PROVE PlanInv'
    <3>1. a \in RetriedAnswers[request.provider]
      BY <1>2, <2>1 DEF CloudflareAttempt
    <3> QED
      BY <2>1, <3>1, AskAgainStep
  <2> QED
    BY <1>2, <2>1, LocalStep, NodeStep, ModelStep DEF CloudflareAttempt
<1>3. CASE CompleteWithOpenAI
  <2>1. ASSUME NEW a \in RetriedAnswers.openai, HasAttemptsLeft, AskAgain(a)  PROVE PlanInv'
    <3>1. a \in RetriedAnswers[request.provider]
      BY <1>3, <2>1 DEF CompleteWithOpenAI
    <3> QED
      BY <2>1, <3>1, AskAgainStep
  <2> QED
    BY <1>3, <2>1, LocalStep, NodeStep, ModelStep DEF CompleteWithOpenAI
<1>4. CASE UNCHANGED vars
  <2>1. LocalDiagnosis' = LocalDiagnosis /\ NodeDiagnosis' = NodeDiagnosis
    BY <1>4 DEF vars, LocalDiagnosis, NodeDiagnosis, Confidence
  <2>2. LocalStrategy' = LocalStrategy /\ NodeStrategy' = NodeStrategy
    BY <1>4 DEF vars, LocalStrategy, NodeStrategy, Mentioned, Confidence, LocalEstimate, Amount, Delay
  <2> QED
    BY <1>4, <2>1, <2>2 DEF PlanInv, vars
<1> QED
  BY <1>1, <1>2, <1>3, <1>4 DEF Next

LEMMA PlanInvariance == Spec => []PlanInv
BY InitInv, NextInv, PTL DEF Spec

-----------------------------------------------------------------------------
(* What the invariant says of a plan.                                       *)

LEMMA PlanTypes == PlanInv => TypeOK /\ RetriesOnlyAfterOutage
<1> SUFFICES ASSUME PlanInv  PROVE TypeOK /\ RetriesOnlyAfterOutage
  OBVIOUS
<1> DEFINE S == RetriedAnswers[request.provider]
           all == Transient \union Refusals \union {"conflict"}
<1>1. answers \in Seq(S) /\ Len(answers) < MaxAttempts[request.provider]
  BY DEF PlanInv
<1>a. /\ request.provider \in {"deterministic", "cloudflare", "openai"} /\ S \subseteq all
      /\ request.provider = "cloudflare" => S = Transient
      /\ "auth_error" \notin S /\ "other" \notin S
  BY AttemptsFacts, CaseFacts, PlannerAssumption DEF PlanInv, RetriedAnswers, Transient, Refusals
<1> HIDE DEF S, all
<1>2. \A i \in DOMAIN answers : answers[i] \in S
  BY <1>1
<1>3. answers \in Seq(all)
  BY <1>1, <1>a
<1>4. /\ request.provider \in Providers /\ request.reason \in Reasons
      /\ request.probability \in Evidence(request.reason, request.exponent, request.retries)
  BY CaseFacts DEF PlanInv
<1>5. /\ stage \in {"diagnosis", "strategy", "done"}
      /\ diagnosis \in DiagnosisOutput \union {NoDiagnosis}
      /\ proposal \in StrategyOutput \union {NoProposal}
  BY DEF PlanInv
<1> QED
  BY <1>1, <1>a, <1>2, <1>3, <1>4, <1>5 DEF TypeOK, RetriesOnlyAfterOutage, all

\* A plan without a model, whichever of the two layers answered each of its completions.
LEMMA RulePlan ==
  ASSUME PlanInv, stage = "done", diagnosis.by # "model", proposal.by # "model"
  PROVE  /\ proposal.strategy = NodeRules[request.reason][1]
         /\ diagnosis.strategy = NodeRules[request.reason][1]
         /\ proposal.confidence = diagnosis.confidence
         /\ diagnosis.review <=> request.reason = "UNKNOWN"
         /\ proposal.strategy \in Retries =>
              \/ proposal.by = "local" /\ proposal.delay = LocalRules[request.reason][2]
              \/ proposal.delay = Delay
<1> DEFINE r == request.reason
<1>1. /\ request \in Requests /\ diagnosis \in DiagnosisOutput
      /\ diagnosis \in {LocalDiagnosis, NodeDiagnosis} /\ proposal \in StrategyOutput
      /\ proposal.by = "local" => proposal = LocalStrategy
      /\ proposal.by = "node" => proposal = NodeStrategy
  BY DEF PlanInv
<1>2. /\ diagnosis.category = r /\ diagnosis.label = None
      /\ diagnosis.strategy = NodeRules[r][1]
      /\ diagnosis.confidence = Confidence(NodeRules[r][1], NodeRules[r][2])
      /\ diagnosis.review <=> r = "UNKNOWN"
  BY <1>1, RuleDiagnoses
<1>3. r \in Reasons /\ LocalRules[r][1] = NodeRules[r][1] /\ LocalRules[r][3] = NodeRules[r][2]
  BY <1>1, CaseFacts, RulesAgree
<1>4. Mentioned = r
  <2>1. request.event \in {None, diagnosis.category} /\ request.event \in Reasons \union {None}
    BY <1>1, <1>2, CaseFacts
  <2> QED
    BY <1>1, <1>2, <2>1, MentionedIsAReason
<1>5. CASE proposal.by = "local"
  <2>1. /\ LocalStrategy.strategy = LocalRules[r][1] /\ LocalStrategy.delay = LocalRules[r][2]
        /\ LocalStrategy.confidence = Confidence(LocalRules[r][1], LocalRules[r][3])
    BY <1>1, <1>4, LocalStrategyFacts
  <2> QED
    BY <1>1, <1>2, <1>3, <1>5, <2>1
<1>6. CASE proposal.by = "node"
  <2>1. /\ NodeStrategy.strategy = diagnosis.strategy
        /\ NodeStrategy.confidence = diagnosis.confidence
        /\ NodeStrategy.strategy \in Retries => NodeStrategy.delay = Delay
    BY <1>1, NodeStrategyFacts
  <2> QED
    BY <1>1, <1>2, <1>6, <2>1
<1>7. proposal.by \in {"local", "node"}
  BY <1>1 DEF StrategyOutput
<1> QED
  BY <1>5, <1>6, <1>7

LEMMA RulesAgreeHolds == PlanInv => RulesAgreeWithoutModel
<1> SUFFICES ASSUME PlanInv, stage = "done", diagnosis.by # "model", proposal.by # "model"
             PROVE  RulesAgreeWithoutModel
  BY DEF RulesAgreeWithoutModel
<1>1. request.reason \in Reasons
  BY CaseFacts DEF PlanInv
<1>2. NodeRules[request.reason][1] = "ESCALATE" <=> request.reason = "UNKNOWN"
  BY <1>1, RulesAgree
<1>3. /\ proposal.strategy = NodeRules[request.reason][1]
      /\ diagnosis.strategy = NodeRules[request.reason][1]
      /\ proposal.confidence = diagnosis.confidence
      /\ diagnosis.review <=> request.reason = "UNKNOWN"
  BY RulePlan
<1> QED
  BY <1>2, <1>3 DEF RulesAgreeWithoutModel

LEMMA EvidenceHolds == PlanInv => EvidenceNeverExplainsUnknown
<1> SUFFICES ASSUME PlanInv  PROVE EvidenceNeverExplainsUnknown
  OBVIOUS
<1>1. "UNKNOWN" \in Reasons /\ NodeRules["UNKNOWN"][1] = "ESCALATE"
  BY NineReasons DEF NodeRules
<1>2. ASSUME stage # "diagnosis", diagnosis.by # "model", request.reason = "UNKNOWN"
      PROVE  diagnosis.confidence = NodeRules.UNKNOWN[2]
  <2>1. diagnosis.confidence = Confidence("ESCALATE", NodeRules["UNKNOWN"][2])
    BY <1>1, <1>2, RuleDiagnoses DEF PlanInv
  <2> QED
    BY <2>1 DEF Confidence
<1>3. ASSUME stage = "done", proposal.by = "local", proposal.strategy = "ESCALATE"
      PROVE  proposal.confidence = LocalRules.UNKNOWN[3]
  <2>1. request \in Requests /\ diagnosis \in DiagnosisOutput /\ proposal = LocalStrategy
    BY <1>3 DEF PlanInv
  <2>2. /\ LocalRules[Mentioned][1] = "ESCALATE"
        /\ proposal.confidence = Confidence("ESCALATE", LocalRules[Mentioned][3])
    BY <1>3, <2>1, LocalStrategyFacts
  <2>3. Mentioned = "UNKNOWN"
    BY <2>1, <2>2, MentionedIsAReason, CaseFacts, RulesAgree
  <2> QED
    BY <2>2, <2>3 DEF Confidence
<1> QED
  BY <1>2, <1>3 DEF EvidenceNeverExplainsUnknown

LEMMA DelayHolds == PlanInv => RetryDelayIsRecommended
<1> SUFFICES ASSUME PlanInv, stage = "done", diagnosis.by # "model", proposal.by # "model",
                    proposal.strategy \in Retries, proposal.delay # Delay
             PROVE  /\ proposal.by = "local"
                    /\ \/ request.probability = None
                       \/ request.reason = "INSUFFICIENT_FUNDS" /\ request.retries > 0
  BY DEF RetryDelayIsRecommended
<1>1. request.reason \in Reasons /\ request.retries \in Nat
  BY CaseFacts DEF PlanInv
<1>2. /\ proposal.by = "local" /\ proposal.delay = LocalRules[request.reason][2]
      /\ proposal.strategy = NodeRules[request.reason][1]
  BY RulePlan
<1>3. LocalRules[request.reason][1] \in Retries
  BY <1>1, <1>2, RulesAgree
<1>4. ASSUME request.probability # None
      PROVE  request.reason = "INSUFFICIENT_FUNDS" /\ request.retries > 0
  <2>1. Delay = RecommendedDelay(request.reason, request.retries)
    BY <1>4 DEF Delay
  <2> QED
    BY <1>1, <1>2, <1>3, <2>1, DelaysAgree
<1> QED
  BY <1>2, <1>4

LEMMA EstimateHolds == PlanInv => EstimateWithinAmount
<1> SUFFICES ASSUME PlanInv, stage = "done", proposal.by # "model"
             PROVE  proposal.expected <= Amount
  BY DEF EstimateWithinAmount
<1>1. /\ request \in Requests /\ diagnosis \in DiagnosisOutput
      /\ proposal.by \in {"local", "node"} /\ proposal \in {LocalStrategy, NodeStrategy}
  BY DEF PlanInv, StrategyOutput
<1> QED
  BY <1>1, LocalStrategyFacts, NodeStrategyFacts

LEMMA RankingHolds == PlanInv => HeuristicRanksLikeTheRules
<1> SUFFICES ASSUME PlanInv, NEW r \in Reasons, NEW q \in Reasons, NEW n \in RetryCounts
             PROVE  LET S(x, m) == Score(x, request.exponent, m)
                    IN  /\ NodeRules[r][2] > NodeRules[q][2] => S(r, n) > S(q, n)
                        /\ S(r, n + 1) <= S(r, n) /\ (n < 4 => S(r, n + 1) < S(r, n))
                        /\ S(r, n) <= Scale
  BY DEF HeuristicRanksLikeTheRules
<1>1. request.exponent \in Nat /\ n \in Nat
  BY CaseFacts, PlannerAssumption DEF PlanInv
<1>2. NodeRules[r][2] > NodeRules[q][2] =>
        Score(r, request.exponent, n) > Score(q, request.exponent, n)
  BY <1>1, ScoreRanks
<1>3. /\ Score(r, request.exponent, n) \in 0 .. Scale
      /\ Score(r, request.exponent, n + 1) <= Score(r, request.exponent, n)
      /\ n < 4 => Score(r, request.exponent, n + 1) < Score(r, request.exponent, n)
  BY <1>1, ScoreFacts
<1>4. Score(r, request.exponent, n) <= Scale
  <2>1. \A x \in 0 .. Scale : x <= Scale
    BY ScaleIsInt
  <2> QED
    BY <1>3, <2>1
<1> QED
  BY <1>2, <1>3, <1>4

\* llm_provider.py, llm_nodes.py: whichever layer stands in for the model, and each completion
\* may be answered by another one, the plan is that of the rules for the case, within its
\* amount and never confident about an unknown failure; the provider's own loop repeats a
\* request only after an outage, and nobody repeats one that was refused.
THEOREM PlansFollowTheRules == Spec => []PlanFollowsTheRules
<1>1. PlanInv => PlanFollowsTheRules
  BY PlanTypes, RulesAgreeHolds, EvidenceHolds, DelayHolds, EstimateHolds, RankingHolds
     DEF PlanFollowsTheRules
<1> QED
  BY <1>1, PlanInvariance, PTL

-----------------------------------------------------------------------------
(* The scripts.                                                             *)

\* What a step that learns may be made of: neither the test rows nor a measurement or a file.
LearnInputs ==
  {"train", "validation", "preprocessor", "tuned", "calibrated", "prior", "tokens", "lightgbm",
   "transformer", "hybrid"}

\* The script and the step that write a file.
WrittenAt(file) ==
  CASE file = "lightgbm_recovery_model.joblib" -> <<"lightgbm", 6>>
    [] file = "feature_order.json" -> <<"lightgbm", 7>>
    [] file = "metadata.json" -> <<"lightgbm", 8>>
    [] file = "evaluation_report.json" -> <<"lightgbm", 9>>
    [] file = "evaluation_report.md" -> <<"lightgbm", 10>>
    [] file = "optimized_recovery_model.joblib" -> <<"suite", 13>>
    [] file = "ml_optimization_report.json" -> <<"suite", 14>>
    [] file = "lightgbm.txt" -> <<"hybrid", 9>>
    [] file = "transformer.pt" -> <<"hybrid", 10>>
    [] file = "hybrid_metadata.json" -> <<"hybrid", 11>>
    [] file = "test_predictions.parquet" -> <<"hybrid", 12>>

\* The model is the first thing a script writes.
FirstWrite == [lightgbm |-> 6, suite |-> 13, hybrid |-> 9]

\* A step of script s at position i.
StepOK(s, i, step) ==
  /\ step.kind = "learn" => step.from \subseteq LearnInputs
  /\ step.kind # "learn" => step.out \notin LearnInputs
  /\ step.out \in {"test_metrics", "test_results", "operating_point"} => "test" \in step.from
  /\ step.kind = "write" => WrittenAt(step.out) = <<s, i>> /\ i >= FirstWrite[s]

ScriptOK(s) ==
  /\ \A i \in 1 .. Len(Script[s]) : StepOK(s, i, Script[s][i])
  /\ FirstWrite[s] \in 1 .. Len(Script[s]) /\ Script[s][FirstWrite[s]].kind = "write"
  /\ Script[s][FirstWrite[s]].out = Bundle[s]
  /\ Len(Script[s]) \in Nat \ {0} /\ Script[s][Len(Script[s])].kind = "write"


LEMMA LightgbmScriptOK == ScriptOK("lightgbm")
<1> DEFINE S == Script["lightgbm"]
           a1 == Learn("preprocessor", {"train"})
           a2 == Learn("model", {"preprocessor", "train"})
           a3 == Measure("train_metrics", {"model", "train"})
           a4 == Measure("validation_metrics", {"model", "validation"})
           a5 == Measure("test_metrics", {"model", "test"})
           a6 == Write("lightgbm_recovery_model.joblib", {"preprocessor", "model"})
           a7 == Write("feature_order.json", {})
           a8 == Write("metadata.json", {"model"})
           a9 == Write("evaluation_report.json", {"train_metrics", "validation_metrics",
                                                  "test_metrics"})
           a10 == Write("evaluation_report.md", {"train_metrics", "validation_metrics",
                                                 "test_metrics"})
           T == <<a1, a2>> \o <<a3, a4, a5, a6, a7, a8, a9, a10>>
<1>1. S = T
  BY DEF Script, LightgbmFit, LightgbmReport
<1>s1. StepOK("lightgbm", 1, a1)
  BY DEF StepOK, Learn, LearnInputs
<1>s2. StepOK("lightgbm", 2, a2)
  BY DEF StepOK, Learn, LearnInputs
<1>s3. StepOK("lightgbm", 3, a3)
  BY DEF StepOK, Measure, LearnInputs
<1>s4. StepOK("lightgbm", 4, a4)
  BY DEF StepOK, Measure, LearnInputs
<1>s5. StepOK("lightgbm", 5, a5)
  BY DEF StepOK, Measure, LearnInputs
<1>s6. StepOK("lightgbm", 6, a6)
  BY DEF StepOK, Write, LearnInputs, WrittenAt, FirstWrite
<1>s7. StepOK("lightgbm", 7, a7)
  BY DEF StepOK, Write, LearnInputs, WrittenAt, FirstWrite
<1>s8. StepOK("lightgbm", 8, a8)
  BY DEF StepOK, Write, LearnInputs, WrittenAt, FirstWrite
<1>s9. StepOK("lightgbm", 9, a9)
  BY DEF StepOK, Write, LearnInputs, WrittenAt, FirstWrite
<1>s10. StepOK("lightgbm", 10, a10)
  BY DEF StepOK, Write, LearnInputs, WrittenAt, FirstWrite
<1>2. a6.kind = "write" /\ a6.out = Bundle["lightgbm"] /\ a10.kind = "write"
  BY DEF Write, Bundle
<1> HIDE DEF a1, a2, a3, a4, a5, a6, a7, a8, a9, a10
<1>3. Len(T) = 10
      /\ T[1] = a1 /\ T[2] = a2 /\ T[3] = a3 /\ T[4] = a4 /\ T[5] = a5 /\ T[6] = a6
      /\ T[7] = a7 /\ T[8] = a8 /\ T[9] = a9 /\ T[10] = a10
  OBVIOUS
<1> HIDE DEF S, T
<1>4. ASSUME NEW i \in 1 .. 10  PROVE StepOK("lightgbm", i, S[i])
  BY <1>1, <1>3, <1>s1, <1>s2, <1>s3, <1>s4, <1>s5, <1>s6, <1>s7, <1>s8, <1>s9, <1>s10
<1> QED
  BY <1>1, <1>2, <1>3, <1>4 DEF ScriptOK, S, FirstWrite

LEMMA SuiteScriptOK == ScriptOK("suite")
<1> DEFINE S == Script["suite"]
           a1 == Learn("preprocessor", {"train"})
           a2 == Learn("prior", {"train"})
           a3 == Learn("baseline", {"preprocessor", "train"})
           a4 == Learn("tuned", {"preprocessor", "train"})
           a5 == Learn("calibrated", {"tuned", "validation"})
           a6 == Learn("boosting", {"preprocessor", "train"})
           a7 == Learn("high_confidence_threshold", {"calibrated", "validation"})
           a8 == Learn("balanced_threshold", {"calibrated", "validation"})
           a9 == Measure("baseline_metrics", {"prior", "baseline", "test"})
           a10 == Measure("test_metrics", {"tuned", "calibrated", "balanced_threshold", "test"})
           a11 == Measure("operating_point", {"calibrated", "high_confidence_threshold", "test"})
           a12 == Measure("breakdown", {"calibrated", "balanced_threshold",
                                        "high_confidence_threshold", "test"})
           a13 == Write("optimized_recovery_model.joblib", {"preprocessor", "calibrated",
                                                            "tuned", "balanced_threshold",
                                                            "high_confidence_threshold"})
           a14 == Write("ml_optimization_report.json", {"baseline_metrics", "test_metrics",
                                                        "operating_point", "breakdown"})
           T == <<a1, a2, a3, a4, a5, a6>> \o <<a7, a8>> \o <<a9, a10, a11, a12>> \o <<a13, a14>>
<1>1. S = T
  BY DEF Script, SuiteCandidates, SuiteThresholds, SuiteFinal, SuiteFiles
<1>s1. StepOK("suite", 1, a1)
  BY DEF StepOK, Learn, LearnInputs
<1>s2. StepOK("suite", 2, a2)
  BY DEF StepOK, Learn, LearnInputs
<1>s3. StepOK("suite", 3, a3)
  BY DEF StepOK, Learn, LearnInputs
<1>s4. StepOK("suite", 4, a4)
  BY DEF StepOK, Learn, LearnInputs
<1>s5. StepOK("suite", 5, a5)
  BY DEF StepOK, Learn, LearnInputs
<1>s6. StepOK("suite", 6, a6)
  BY DEF StepOK, Learn, LearnInputs
<1>s7. StepOK("suite", 7, a7)
  BY DEF StepOK, Learn, LearnInputs
<1>s8. StepOK("suite", 8, a8)
  BY DEF StepOK, Learn, LearnInputs
<1>s9. StepOK("suite", 9, a9)
  BY DEF StepOK, Measure, LearnInputs
<1>s10. StepOK("suite", 10, a10)
  BY DEF StepOK, Measure, LearnInputs
<1>s11. StepOK("suite", 11, a11)
  BY DEF StepOK, Measure, LearnInputs
<1>s12. StepOK("suite", 12, a12)
  BY DEF StepOK, Measure, LearnInputs
<1>s13. StepOK("suite", 13, a13)
  BY DEF StepOK, Write, LearnInputs, WrittenAt, FirstWrite
<1>s14. StepOK("suite", 14, a14)
  BY DEF StepOK, Write, LearnInputs, WrittenAt, FirstWrite
<1>2. a13.kind = "write" /\ a13.out = Bundle["suite"] /\ a14.kind = "write"
  BY DEF Write, Bundle
<1> HIDE DEF a1, a2, a3, a4, a5, a6, a7, a8, a9, a10, a11, a12, a13, a14
<1>3. Len(T) = 14
      /\ T[1] = a1 /\ T[2] = a2 /\ T[3] = a3 /\ T[4] = a4 /\ T[5] = a5 /\ T[6] = a6
      /\ T[7] = a7 /\ T[8] = a8 /\ T[9] = a9 /\ T[10] = a10 /\ T[11] = a11 /\ T[12] = a12
      /\ T[13] = a13 /\ T[14] = a14
  OBVIOUS
<1> HIDE DEF S, T
<1>4. ASSUME NEW i \in 1 .. 14  PROVE StepOK("suite", i, S[i])
  BY <1>1, <1>3, <1>s1, <1>s2, <1>s3, <1>s4, <1>s5, <1>s6, <1>s7, <1>s8, <1>s9, <1>s10, <1>s11,
     <1>s12, <1>s13, <1>s14
<1> QED
  BY <1>1, <1>2, <1>3, <1>4 DEF ScriptOK, S, FirstWrite

LEMMA HybridScriptOK == ScriptOK("hybrid")
<1> DEFINE S == Script["hybrid"]
           a1 == Learn("prior", {"train"})
           a2 == Learn("rule", {"prior", "train"})
           a3 == Learn("lightgbm", {"train", "validation"})
           a4 == Learn("tokens", {"train"})
           a5 == Learn("transformer", {"tokens", "train", "validation"})
           a6 == Learn("hybrid", {"lightgbm", "transformer", "validation"})
           a7 == Learn("threshold", {"hybrid", "validation"})
           a8 == Measure("test_results", {"prior", "rule", "lightgbm", "transformer", "hybrid",
                                          "threshold", "test"})
           a9 == Write("lightgbm.txt", {"lightgbm"})
           a10 == Write("transformer.pt", {"transformer", "tokens"})
           a11 == Write("hybrid_metadata.json", {"hybrid", "threshold", "test_results"})
           a12 == Write("test_predictions.parquet", {"prior", "rule", "lightgbm", "transformer",
                                                     "hybrid", "test"})
           T == <<a1, a2>> \o <<a3>> \o <<a4>> \o <<a5>> \o <<a6>> \o <<a7, a8>> \o <<a9, a10,
                  a11, a12>>
<1>1. S = T
  BY DEF Script, HybridBaselines, HybridLightgbm, HybridTokens, HybridTransformer, HybridFusion,
     HybridFinal, HybridFiles
<1>s1. StepOK("hybrid", 1, a1)
  BY DEF StepOK, Learn, LearnInputs
<1>s2. StepOK("hybrid", 2, a2)
  BY DEF StepOK, Learn, LearnInputs
<1>s3. StepOK("hybrid", 3, a3)
  BY DEF StepOK, Learn, LearnInputs
<1>s4. StepOK("hybrid", 4, a4)
  BY DEF StepOK, Learn, LearnInputs
<1>s5. StepOK("hybrid", 5, a5)
  BY DEF StepOK, Learn, LearnInputs
<1>s6. StepOK("hybrid", 6, a6)
  BY DEF StepOK, Learn, LearnInputs
<1>s7. StepOK("hybrid", 7, a7)
  BY DEF StepOK, Learn, LearnInputs
<1>s8. StepOK("hybrid", 8, a8)
  BY DEF StepOK, Measure, LearnInputs
<1>s9. StepOK("hybrid", 9, a9)
  BY DEF StepOK, Write, LearnInputs, WrittenAt, FirstWrite
<1>s10. StepOK("hybrid", 10, a10)
  BY DEF StepOK, Write, LearnInputs, WrittenAt, FirstWrite
<1>s11. StepOK("hybrid", 11, a11)
  BY DEF StepOK, Write, LearnInputs, WrittenAt, FirstWrite
<1>s12. StepOK("hybrid", 12, a12)
  BY DEF StepOK, Write, LearnInputs, WrittenAt, FirstWrite
<1>2. a9.kind = "write" /\ a9.out = Bundle["hybrid"] /\ a12.kind = "write"
  BY DEF Write, Bundle
<1> HIDE DEF a1, a2, a3, a4, a5, a6, a7, a8, a9, a10, a11, a12
<1>3. Len(T) = 12
      /\ T[1] = a1 /\ T[2] = a2 /\ T[3] = a3 /\ T[4] = a4 /\ T[5] = a5 /\ T[6] = a6
      /\ T[7] = a7 /\ T[8] = a8 /\ T[9] = a9 /\ T[10] = a10 /\ T[11] = a11 /\ T[12] = a12
  OBVIOUS
<1> HIDE DEF S, T
<1>4. ASSUME NEW i \in 1 .. 12  PROVE StepOK("hybrid", i, S[i])
  BY <1>1, <1>3, <1>s1, <1>s2, <1>s3, <1>s4, <1>s5, <1>s6, <1>s7, <1>s8, <1>s9, <1>s10, <1>s11,
     <1>s12
<1> QED
  BY <1>1, <1>2, <1>3, <1>4 DEF ScriptOK, S, FirstWrite

\* Every file is written at one place of one script, and the model before the rest.
LEMMA ScriptsOK ==
  /\ Scripts = {"lightgbm", "suite", "hybrid"}
  /\ \A s \in Scripts : ScriptOK(s)
<1>1. Scripts = {"lightgbm", "suite", "hybrid"}
  BY DEF Scripts, Script
<1> QED
  BY <1>1, LightgbmScriptOK, SuiteScriptOK, HybridScriptOK

\* The step of its script that writes a file.
Place(file) == WrittenAt(file)[2]

LEMMA FilesArePlaced ==
  ASSUME NEW s \in Scripts
  PROVE  /\ \A f \in FilesOf(s) :
              /\ f \in Files /\ Place(f) \in 1 .. Len(Script[s])
              /\ Script[s][Place(f)].out = f /\ Script[s][Place(f)].kind = "write"
              /\ Place(f) >= FirstWrite[s]
              /\ \A t \in Scripts : f \in FilesOf(t) => t = s
         /\ \A i \in 1 .. Len(Script[s]) : Script[s][i].kind = "write" =>
              Script[s][i].out \in FilesOf(s) /\ Place(Script[s][i].out) = i
         /\ Bundle[s] \in FilesOf(s) /\ Place(Bundle[s]) = FirstWrite[s]
<1>1. \A t \in Scripts : \A f \in FilesOf(t) : \E i \in 1 .. Len(Script[t]) :
        Script[t][i].kind = "write" /\ Script[t][i].out = f
  BY DEF FilesOf, Steps
<1>2. ASSUME NEW t \in Scripts, NEW i \in 1 .. Len(Script[t]), Script[t][i].kind = "write"
      PROVE  WrittenAt(Script[t][i].out) = <<t, i>> /\ i >= FirstWrite[t]
  BY <1>2, ScriptsOK DEF ScriptOK, StepOK
<1>3. ASSUME NEW i \in 1 .. Len(Script[s]), Script[s][i].kind = "write"
      PROVE  Script[s][i].out \in FilesOf(s) /\ Place(Script[s][i].out) = i
  <2>1. Script[s][i].out \in FilesOf(s)
    BY <1>3 DEF FilesOf, Steps
  <2> QED
    BY <1>2, <1>3, <2>1 DEF Place
<1>4. ASSUME NEW f \in FilesOf(s)
      PROVE  /\ f \in Files /\ Place(f) \in 1 .. Len(Script[s])
             /\ Script[s][Place(f)].out = f /\ Script[s][Place(f)].kind = "write"
             /\ Place(f) >= FirstWrite[s]
             /\ \A t \in Scripts : f \in FilesOf(t) => t = s
  <2>1. PICK i \in 1 .. Len(Script[s]) : Script[s][i].kind = "write" /\ Script[s][i].out = f
    BY <1>1
  <2>2. WrittenAt(f) = <<s, i>> /\ i >= FirstWrite[s]
    BY <1>2, <2>1
  <2>3. f \in Files
    BY DEF Files, FilesOf
  <2>4. ASSUME NEW t \in Scripts, f \in FilesOf(t)  PROVE t = s
    <3>1. PICK j \in 1 .. Len(Script[t]) : Script[t][j].kind = "write" /\ Script[t][j].out = f
      BY <1>1, <2>4
    <3>2. WrittenAt(f) = <<t, j>>
      BY <1>2, <3>1
    <3> QED
      BY <2>2, <3>2
  <2> QED
    BY <2>1, <2>2, <2>3, <2>4 DEF Place
<1>5. Bundle[s] \in FilesOf(s) /\ Place(Bundle[s]) = FirstWrite[s]
  <2>1. /\ FirstWrite[s] \in 1 .. Len(Script[s]) /\ Script[s][FirstWrite[s]].kind = "write"
        /\ Script[s][FirstWrite[s]].out = Bundle[s]
    BY ScriptsOK DEF ScriptOK
  <2> QED
    BY <1>3, <2>1
<1> QED
  BY <1>3, <1>4, <1>5

-----------------------------------------------------------------------------
(* The inductive invariant.                                                 *)

\* What a step of a script leaves behind.
AllSteps == UNION {Steps(s) : s \in Scripts}
Entries ==
  [out : {p.out : p \in AllSteps}, kind : {p.kind : p \in AllSteps}, splits : SUBSET Splits]

Trainings ==
  [script : Scripts, by : Nat \ {0}, step : Nat \ {0}, open : BOOLEAN, seen : Seq(Entries)]

\* A training has made what its script says up to its step, learning nothing from the test
\* rows and testing on nothing else.
TrainingOK ==
  /\ training \in Trainings /\ training.step <= Len(Script[training.script])
  /\ Len(training.seen) = training.step - 1
  /\ training.open => Current.kind = "write"
  /\ \A i \in 1 .. Len(training.seen) :
       /\ training.seen[i].out = Script[training.script][i].out
       /\ training.seen[i].kind = Script[training.script][i].kind
       /\ training.seen[i].kind = "learn" => "test" \notin training.seen[i].splits
       /\ training.seen[i].out \in {"test_metrics", "test_results", "operating_point"} =>
            "test" \in training.seen[i].splits

\* The last training of a script, running or over.
LatestBy(s) == IF training.script = s THEN training.by ELSE last[s].by

\* The files of a script: none is newer than the model, those a running training has passed
\* are its own, and so are all those of one that has finished.
DiskOK(s) ==
  \A f \in FilesOf(s) :
    /\ disk[f].by <= disk[Bundle[s]].by /\ disk[f].by <= LatestBy(s)
    /\ training.script # s /\ last[s].end = "finished" =>
         disk[f] = [by |-> last[s].by, whole |-> TRUE]
    /\ training.script = s /\ Place(f) < training.step =>
         disk[f] = [by |-> training.by, whole |-> TRUE]
    /\ training.script = s /\ Place(f) = training.step /\ training.open =>
         disk[f].by = training.by

TrainingInv ==
  /\ training = Idle \/ TrainingOK
  /\ disk \in [Files -> [by : Nat, whole : BOOLEAN]]
  /\ last \in [Scripts -> [by : Nat, end : {"none", "finished", "interrupted"}]]
  /\ training.script # "none" => \A s \in Scripts : last[s].by < training.by
  /\ \A s \in Scripts : DiskOK(s)

LEMMA TrainingStart == TrainingInit => TrainingInv
<1> SUFFICES ASSUME TrainingInit  PROVE TrainingInv
  OBVIOUS
<1>1. /\ training = Idle /\ disk \in [Files -> [by : Nat, whole : BOOLEAN]]
      /\ last \in [Scripts -> [by : Nat, end : {"none", "finished", "interrupted"}]]
      /\ training.script = "none" /\ Idle.script = "none"
  BY DEF TrainingInit, Idle
<1>2. ASSUME NEW s \in Scripts  PROVE DiskOK(s)
  <2>1. /\ \A f \in FilesOf(s) : f \in Files /\ disk[f].by = 0
        /\ disk[Bundle[s]].by = 0 /\ last[s].by = 0 /\ last[s].end = "none"
    BY FilesArePlaced DEF TrainingInit
  <2>2. "none" \notin Scripts
    BY ScriptsOK
  <2> QED
    BY <1>1, <2>1, <2>2 DEF DiskOK, LatestBy
<1> QED
  BY <1>1, <1>2 DEF TrainingInv

\* The newest number is one, and above every other.
LEMMA NewestIsMax ==
  ASSUME TrainingInv
  PROVE  Newest \in Nat /\ \A s \in Scripts : last[s].by <= Newest
<1> DEFINE numbers == {training.by} \union {last[s].by : s \in Scripts}
<1>1. training.by \in Nat /\ \A s \in Scripts : last[s].by \in Nat
  BY DEF TrainingInv, TrainingOK, Trainings, Idle
<1>2. \E n \in numbers : \A m \in numbers : m <= n
  <2> DEFINE a == training.by  b == last["lightgbm"].by  c == last["suite"].by
             d == last["hybrid"].by
  <2>1. numbers = {a, b, c, d}
    BY ScriptsOK
  <2>2. a \in Nat /\ b \in Nat /\ c \in Nat /\ d \in Nat
    BY <1>1, ScriptsOK
  <2> HIDE DEF a, b, c, d, numbers
  <2> QED
    BY <2>1, <2>2
<1>3. Newest \in numbers /\ \A m \in numbers : m <= Newest
  BY <1>2 DEF Newest
<1> QED
  BY <1>1, <1>3

-----------------------------------------------------------------------------
(* The steps.                                                               *)

\* What a training under way is.
LEMMA TrainingFacts ==
  ASSUME TrainingInv, training.script # "none"
  PROVE  /\ TrainingOK /\ training.script \in Scripts /\ training.by \in Nat \ {0}
         /\ training.step \in 1 .. Len(Script[training.script])
         /\ Current = Script[training.script][training.step]
         /\ Current \in AllSteps
         /\ Len(Script[training.script]) \in Nat
<1>1. TrainingOK
  BY DEF TrainingInv, Idle
<1>2. training.script \in Scripts /\ training.by \in Nat \ {0} /\ training.step \in Nat \ {0}
  BY <1>1 DEF TrainingOK, Trainings
<1>3. Len(Script[training.script]) \in Nat
  BY <1>2, ScriptsOK DEF ScriptOK
<1>4. training.step \in 1 .. Len(Script[training.script])
  BY <1>1, <1>2, <1>3 DEF TrainingOK
<1>5. Current \in AllSteps
  BY <1>2, <1>4 DEF Current, Steps, AllSteps
<1> QED
  BY <1>1, <1>2, <1>3, <1>4, <1>5 DEF Current

\* What descends from clean inputs is clean.
LEMMA CleanDescent ==
  ASSUME TrainingInv, training.script # "none"
  PROVE  /\ Descent(Current) \subseteq Splits
         /\ Current.kind = "learn" => "test" \notin Descent(Current)
         /\ Current.out \in {"test_metrics", "test_results", "operating_point"} =>
              "test" \in Descent(Current)
<1>1. TrainingOK /\ training.script \in Scripts
      /\ StepOK(training.script, training.step, Current)
  BY TrainingFacts, ScriptsOK DEF ScriptOK
<1>2. ASSUME NEW i \in 1 .. Len(training.seen)
      PROVE  /\ training.seen[i] \in Entries /\ training.seen[i].splits \subseteq Splits
             /\ training.seen[i].kind # "learn" => training.seen[i].out \notin LearnInputs
             /\ training.seen[i].kind = "learn" => "test" \notin training.seen[i].splits
  <2>1. training.seen[i] \in Entries
    BY <1>1 DEF TrainingOK, Trainings
  <2>2. training.seen[i].splits \subseteq Splits
    BY <2>1 DEF Entries
  <2>3. i \in 1 .. Len(Script[training.script])
    BY <1>1, TrainingFacts DEF TrainingOK
  <2>4. StepOK(training.script, i, Script[training.script][i])
    BY <1>1, <2>3, ScriptsOK DEF ScriptOK
  <2> QED
    BY <1>1, <2>1, <2>2, <2>4 DEF TrainingOK, StepOK
<1>3. Descent(Current) \subseteq Splits
  BY <1>2 DEF Descent
<1>4. ASSUME Current.kind = "learn"  PROVE "test" \notin Descent(Current)
  <2>1. Current.from \subseteq LearnInputs
    BY <1>1, <1>4 DEF StepOK
  <2>2. "test" \notin Current.from
    BY <2>1 DEF LearnInputs
  <2>3. \A i \in 1 .. Len(training.seen) :
          training.seen[i].out \in Current.from => "test" \notin training.seen[i].splits
    BY <1>2, <2>1
  <2> QED
    BY <2>2, <2>3 DEF Descent
<1>5. Current.out \in {"test_metrics", "test_results", "operating_point"} =>
        "test" \in Descent(Current)
  BY <1>1 DEF StepOK, Descent, Splits
<1> QED
  BY <1>3, <1>4, <1>5

\* A training that goes on to its next step is still one that has done what its script says.
LEMMA NextStepOK ==
  ASSUME TrainingInv, training.script # "none", Advance,
         training.step # Len(Script[training.script])
  PROVE  /\ TrainingOK' /\ training'.script = training.script
         /\ training'.by = training.by /\ training'.step = training.step + 1
         /\ training'.open = FALSE /\ last' = last
<1> DEFINE entry == [out |-> Current.out, kind |-> Current.kind, splits |-> Descent(Current)]
<1>1. /\ TrainingOK /\ training.step \in 1 .. Len(Script[training.script])
      /\ Len(Script[training.script]) \in Nat /\ training \in Trainings
      /\ Current = Script[training.script][training.step]
  BY TrainingFacts DEF TrainingOK
<1>2. /\ training' = [training EXCEPT !.step = training.step + 1, !.open = FALSE,
                        !.seen = Append(training.seen, entry)]
      /\ last' = last
  BY DEF Advance
<1>3. entry \in Entries
  <2>1. Current \in AllSteps /\ Descent(Current) \in SUBSET Splits
    BY TrainingFacts, CleanDescent
  <2> DEFINE p == Current  S == Descent(Current)
  <2> HIDE DEF p, S
  <2>2. p \in AllSteps /\ S \in SUBSET Splits
    BY <2>1 DEF p, S
  <2>3. [out |-> p.out, kind |-> p.kind, splits |-> S] \in Entries
    BY <2>2 DEF Entries
  <2> QED
    BY <2>3 DEF p, S
<1>4. /\ entry.out = Current.out /\ entry.kind = Current.kind
      /\ entry.kind = "learn" => "test" \notin entry.splits
      /\ entry.out \in {"test_metrics", "test_results", "operating_point"} =>
           "test" \in entry.splits
  BY CleanDescent
<1> HIDE DEF entry
<1>5. /\ training' \in Trainings /\ training'.script = training.script
      /\ training'.by = training.by /\ training'.step = training.step + 1
      /\ training'.open = FALSE /\ training'.seen = Append(training.seen, entry)
  <2>1. training.seen \in Seq(Entries)
    BY <1>1 DEF Trainings
  <2>2. Append(training.seen, entry) \in Seq(Entries)
    BY <2>1, <1>3
  <2>3. training.step + 1 \in Nat \ {0}
    BY <1>1
  <2> DEFINE next == training.step + 1
             seen == Append(training.seen, entry)
  <2>4. training' = [training EXCEPT !.step = next, !.open = FALSE, !.seen = seen]
    BY <1>2
  <2>5. next \in Nat \ {0} /\ seen \in Seq(Entries)
    BY <2>2, <2>3
  <2> HIDE DEF next, seen
  <2>6. /\ training' \in Trainings /\ training'.script = training.script
        /\ training'.by = training.by /\ training'.step = next
        /\ training'.open = FALSE /\ training'.seen = seen
    BY <1>1, <2>4, <2>5 DEF Trainings
  <2> QED
    BY <2>6 DEF next, seen
<1>6. /\ training.seen \in Seq(Entries) /\ Len(training.seen) = training.step - 1
      /\ Len(training'.seen) = training.step
      /\ \A i \in 1 .. Len(training.seen) : training'.seen[i] = training.seen[i]
      /\ training'.seen[training.step] = entry
  BY <1>1, <1>3, <1>5 DEF TrainingOK, Trainings
<1>7. ASSUME NEW i \in 1 .. Len(training'.seen)
      PROVE  /\ training'.seen[i].out = Script[training'.script][i].out
             /\ training'.seen[i].kind = Script[training'.script][i].kind
             /\ training'.seen[i].kind = "learn" => "test" \notin training'.seen[i].splits
             /\ training'.seen[i].out \in {"test_metrics", "test_results", "operating_point"} =>
                  "test" \in training'.seen[i].splits
  <2>1. CASE i \in 1 .. Len(training.seen)
    BY <1>1, <1>5, <1>6, <2>1 DEF TrainingOK
  <2>2. CASE i = training.step
    BY <1>1, <1>4, <1>5, <1>6, <2>2
  <2> QED
    BY <1>1, <1>6, <2>1, <2>2
<1>8. training'.step <= Len(Script[training'.script]) /\ Len(training'.seen) = training'.step - 1
  BY <1>1, <1>5, <1>6
<1>9. TrainingOK'
  BY <1>5, <1>7, <1>8 DEF TrainingOK
<1> QED
  BY <1>2, <1>5, <1>9

\* The end of a training, finished or not.
LEMMA EndOfTraining ==
  ASSUME TrainingInv, training.script # "none", training' = Idle,
         NEW e \in {"finished", "interrupted"},
         last' = [last EXCEPT ![training.script] = [by |-> training.by, end |-> e]]
  PROVE  /\ last' \in [Scripts -> [by : Nat, end : {"none", "finished", "interrupted"}]]
         /\ last'[training.script] = [by |-> training.by, end |-> e]
         /\ \A s \in Scripts : s # training.script => last'[s] = last[s]
         /\ training'.script = "none"
         /\ \A s \in Scripts : LatestBy(s)' = LatestBy(s) /\ training'.script # s
<1>1. training.script \in Scripts /\ training.by \in Nat /\ "none" \notin Scripts
      /\ training'.script = "none"
  BY TrainingFacts, ScriptsOK DEF Idle
<1>2. last \in [Scripts -> [by : Nat, end : {"none", "finished", "interrupted"}]]
  BY DEF TrainingInv
<1>3. /\ last' \in [Scripts -> [by : Nat, end : {"none", "finished", "interrupted"}]]
      /\ last'[training.script] = [by |-> training.by, end |-> e]
      /\ \A s \in Scripts : s # training.script => last'[s] = last[s]
  BY <1>1, <1>2
<1>4. \A s \in Scripts : LatestBy(s)' = LatestBy(s)
  BY <1>1, <1>3 DEF LatestBy
<1> QED
  BY <1>1, <1>3, <1>4

LEMMA StartTrainingStep == TrainingInv /\ StartTraining => TrainingInv'
<1> SUFFICES ASSUME TrainingInv, StartTraining  PROVE TrainingInv'
  OBVIOUS
<1>1. PICK s \in Scripts :
        training' = [script |-> s, by |-> Newest + 1, step |-> 1, open |-> FALSE, seen |-> <<>>]
  BY DEF StartTraining
<1>2. training.script = "none" /\ UNCHANGED <<disk, last>>
  BY DEF StartTraining
<1>3. /\ training'.script = s /\ training'.by = Newest + 1 /\ training'.step = 1
      /\ training'.open = FALSE /\ training'.seen = <<>>
  BY <1>1
<1>4. Newest \in Nat /\ \A t \in Scripts : last[t].by <= Newest /\ last[t].by \in Nat
  BY NewestIsMax DEF TrainingInv
<1>5. Len(Script[s]) \in Nat \ {0}
  BY ScriptsOK DEF ScriptOK
<1>6. TrainingOK'
  <2>1. training' \in Trainings
    <3> DEFINE n == Newest + 1
    <3>1. n \in Nat \ {0} /\ <<>> \in Seq(Entries)
      BY <1>4
    <3>2. training' = [script |-> s, by |-> n, step |-> 1, open |-> FALSE, seen |-> <<>>]
      BY <1>1
    <3> HIDE DEF n
    <3> QED
      BY <3>1, <3>2 DEF Trainings
  <2> QED
    BY <1>3, <1>5, <2>1 DEF TrainingOK
<1>7. \A t \in Scripts : last'[t].by < training'.by
  BY <1>2, <1>3, <1>4
<1>8. ASSUME NEW t \in Scripts  PROVE DiskOK(t)'
  <2>1. ASSUME NEW f \in FilesOf(t)
        PROVE  /\ disk[f].by <= disk[Bundle[t]].by /\ disk[f].by <= last[t].by
               /\ last[t].end = "finished" => disk[f] = [by |-> last[t].by, whole |-> TRUE]
               /\ Place(f) \in Nat \ {0} /\ disk[f].by \in Nat
               /\ t = s => Place(f) >= 1
    <3>1. "none" \notin Scripts /\ Len(Script[t]) \in Nat
      BY ScriptsOK DEF ScriptOK
    <3>2. Place(f) \in 1 .. Len(Script[t]) /\ f \in Files
      BY FilesArePlaced
    <3>3. DiskOK(t) /\ disk[f].by \in Nat /\ LatestBy(t) = last[t].by /\ training.script # t
      BY <1>2, <3>1, <3>2 DEF TrainingInv, LatestBy
    <3>4. /\ disk[f].by <= disk[Bundle[t]].by /\ disk[f].by <= last[t].by
          /\ last[t].end = "finished" => disk[f] = [by |-> last[t].by, whole |-> TRUE]
      BY <3>3 DEF DiskOK
    <3>5. Place(f) \in Nat \ {0} /\ Place(f) >= 1
      BY <3>1, <3>2
    <3> QED
      BY <3>3, <3>4, <3>5
  <2>2. \A f \in FilesOf(t) : disk[f].by <= LatestBy(t)'
    BY <1>2, <1>3, <1>4, <2>1 DEF LatestBy
  <2>3. \A f \in FilesOf(t) : t = s => ~(Place(f) < 1) /\ training'.open = FALSE
    BY <1>3, <2>1
  <2> QED
    BY <1>2, <1>3, <2>1, <2>2, <2>3 DEF DiskOK
<1> QED
  BY <1>2, <1>6, <1>7, <1>8 DEF TrainingInv

LEMMA ComputeStep == TrainingInv /\ Compute => TrainingInv'
<1> SUFFICES ASSUME TrainingInv, Compute  PROVE TrainingInv'
  OBVIOUS
<1> DEFINE s == training.script
<1>1. /\ s # "none" /\ Current.kind # "write" /\ Advance /\ disk' = disk
      /\ s \in Scripts /\ training.step \in 1 .. Len(Script[s]) /\ Len(Script[s]) \in Nat
      /\ Current = Script[s][training.step]
  BY TrainingFacts DEF Compute
<1>2. training.step # Len(Script[s])
  BY <1>1, ScriptsOK DEF ScriptOK
<1>3. /\ TrainingOK' /\ training'.script = s /\ training'.by = training.by
      /\ training'.step = training.step + 1 /\ training'.open = FALSE /\ last' = last
  BY <1>1, <1>2, NextStepOK
<1> HIDE DEF s
<1>4. ASSUME NEW t \in Scripts  PROVE DiskOK(t)'
  <2>1. LatestBy(t)' = LatestBy(t)
    BY <1>3 DEF LatestBy, s
  <2>2. ASSUME NEW f \in FilesOf(t), t = s 
        PROVE Place(f) < training'.step => Place(f) < training.step
    <3>1. Script[s][Place(f)].kind = "write" /\ Place(f) \in 1 .. Len(Script[s])
      BY <2>2, FilesArePlaced
    <3> QED
      BY <1>1, <1>3, <3>1
  <2>3. DiskOK(t)
    BY DEF TrainingInv
  <2>4. ASSUME NEW f \in FilesOf(t), t = s, Place(f) < training'.step
        PROVE  disk[f] = [by |-> training.by, whole |-> TRUE]
    BY <2>2, <2>3, <2>4 DEF DiskOK, s
  <2> QED
    BY <1>1, <1>3, <2>1, <2>3, <2>4 DEF DiskOK, s
<1> QED
  BY <1>1, <1>3, <1>4 DEF TrainingInv, s

LEMMA OpenFileStep == TrainingInv /\ OpenFile => TrainingInv'
<1> SUFFICES ASSUME TrainingInv, OpenFile  PROVE TrainingInv'
  OBVIOUS
<1>0. training.script # "none"
  BY DEF OpenFile
<1>s. PICK s \in Scripts : s = training.script
  BY <1>0, TrainingFacts
<1> DEFINE g == Current.out
           written == [by |-> training.by, whole |-> FALSE]
<1>1. /\ Current.kind = "write" /\ UNCHANGED last
      /\ s \in Scripts /\ training.step \in 1 .. Len(Script[s]) /\ Len(Script[s]) \in Nat
      /\ Current = Script[s][training.step] /\ TrainingOK /\ training.by \in Nat \ {0}
      /\ training' = [training EXCEPT !.open = TRUE]
      /\ disk' = [disk EXCEPT ![g] = written]
  BY <1>0, <1>s, TrainingFacts DEF OpenFile
<1>2. /\ training' \in Trainings /\ training'.script = s /\ training'.by = training.by
      /\ training'.step = training.step /\ training'.open = TRUE /\ training'.seen = training.seen
  BY <1>s, <1>1 DEF TrainingOK, Trainings
<1>3. TrainingOK'
  <2>1. Current' = Current
    BY <1>s, <1>2 DEF Current
  <2> QED
    BY <1>s, <1>1, <1>2, <2>1 DEF TrainingOK
<1>4. g \in FilesOf(s) /\ Place(g) = training.step /\ g \in Files
  BY <1>1, FilesArePlaced
<1>5. written \in [by : Nat, whole : BOOLEAN] /\ written.by = training.by
  BY <1>1
<1> HIDE DEF g, written
<1>6. /\ disk' \in [Files -> [by : Nat, whole : BOOLEAN]] /\ disk'[g] = written
      /\ \A f \in Files : f # g => disk'[f] = disk[f]
      /\ disk \in [Files -> [by : Nat, whole : BOOLEAN]]
  BY <1>1, <1>4, <1>5 DEF TrainingInv
<1>7. \A t \in Scripts : LatestBy(t)' = LatestBy(t)
  BY <1>s, <1>1, <1>2 DEF LatestBy
<1>8. ASSUME NEW t \in Scripts, t # s  PROVE DiskOK(t)'
  <2>1. \A f \in FilesOf(t) : f # g /\ f \in Files
    BY <1>1, <1>4, <1>8, FilesArePlaced
  <2>2. \A f \in FilesOf(t) : disk'[f] = disk[f]
    BY <1>6, <2>1
  <2>3. Bundle[t] \in FilesOf(t)
    BY FilesArePlaced
  <2>4. DiskOK(t)
    BY DEF TrainingInv
  <2> QED
    BY <1>s, <1>1, <1>2, <1>7, <1>8, <2>2, <2>3, <2>4 DEF DiskOK
<1>9. DiskOK(s)'
  <2>1. DiskOK(s) /\ LatestBy(s) = training.by
    BY <1>s, <1>1 DEF TrainingInv, LatestBy
  <2>2. Bundle[s] \in FilesOf(s) /\ Bundle[s] \in Files /\ Place(Bundle[s]) = FirstWrite[s]
    BY <1>1, FilesArePlaced
  <2>3. disk'[Bundle[s]].by = training.by
    <3>1. CASE g = Bundle[s]
      BY <1>5, <1>6, <3>1
    <3>2. CASE g # Bundle[s]
      <4>1. FirstWrite[s] <= training.step /\ FirstWrite[s] \in Nat
        BY <1>1, <1>4, FilesArePlaced, ScriptsOK DEF ScriptOK
      <4>2. FirstWrite[s] # training.step
        BY <1>1, <3>2, ScriptsOK DEF ScriptOK, g
      <4>3. Place(Bundle[s]) < training.step
        BY <1>1, <2>2, <4>1, <4>2
      <4>4. disk[Bundle[s]] = [by |-> training.by, whole |-> TRUE]
        BY <1>s, <2>1, <2>2, <4>3 DEF DiskOK
      <4> QED
        BY <1>6, <2>2, <3>2, <4>4
    <3> QED
      BY <3>1, <3>2
  <2>4. ASSUME NEW f \in FilesOf(s)
        PROVE  /\ disk'[f].by <= training.by
               /\ Place(f) < training.step => disk'[f] = [by |-> training.by, whole |-> TRUE]
               /\ Place(f) = training.step => disk'[f].by = training.by
    <3>1. f \in Files /\ Script[s][Place(f)].out = f
      BY <1>1, FilesArePlaced
    <3>2. CASE f = g
      BY <1>1, <1>4, <1>5, <1>6, <3>2
    <3>3. CASE f # g
      <4>1. Place(f) # training.step
        BY <1>1, <3>1, <3>3 DEF g
      <4> QED
        BY <1>s, <1>6, <2>1, <3>1, <3>3, <4>1 DEF DiskOK
    <3> QED
      BY <3>2, <3>3
  <2> QED
    BY <1>s, <1>1, <1>2, <1>7, <2>1, <2>3, <2>4 DEF DiskOK
<1> QED
  BY <1>s, <1>1, <1>2, <1>3, <1>6, <1>8, <1>9 DEF TrainingInv

\* CloseFile on the record of the file.
LEMMA ClosedRecord ==
  ASSUME NEW file \in [by : Nat, whole : BOOLEAN]
  PROVE  [file EXCEPT !.whole = TRUE] = [by |-> file.by, whole |-> TRUE]
<1> DEFINE closed == [file EXCEPT !.whole = TRUE]
<1>1. closed \in [by : Nat, whole : BOOLEAN]
  OBVIOUS
<1>2. closed.by = file.by
  OBVIOUS
<1>3. closed.whole = TRUE
  BY Zenon
<1> QED
  <2> HIDE DEF closed
  <2>1. closed = [by |-> closed.by, whole |-> closed.whole]
    BY <1>1
  <2> QED
    BY <1>2, <1>3, <2>1, Zenon DEF closed

LEMMA CloseFileStep == TrainingInv /\ CloseFile => TrainingInv'
<1> SUFFICES ASSUME TrainingInv, CloseFile  PROVE TrainingInv'
  OBVIOUS
<1>0. training.script # "none"
  BY DEF CloseFile
<1>s. PICK s \in Scripts : s = training.script
  BY <1>0, TrainingFacts
<1> DEFINE g == Current.out
           written == [by |-> training.by, whole |-> TRUE]
<1>1. /\ training.open /\ Advance
      /\ training.step \in 1 .. Len(Script[s]) /\ Len(Script[s]) \in Nat
      /\ Current = Script[s][training.step] /\ Current.kind = "write"
      /\ training.by \in Nat \ {0} /\ disk' = [disk EXCEPT ![g].whole = TRUE]
  BY <1>0, <1>s, TrainingFacts DEF CloseFile, TrainingOK
<1>2. g \in FilesOf(s) /\ Place(g) = training.step /\ g \in Files
  BY <1>1, FilesArePlaced
<1>3. DiskOK(s) /\ disk[g].by = training.by
  <2>1. DiskOK(s)
    BY DEF TrainingInv
  <2> QED
    BY <1>s, <1>1, <1>2, <2>1 DEF DiskOK
<1>4. written \in [by : Nat, whole : BOOLEAN]
  BY <1>1
<1>5. /\ disk' \in [Files -> [by : Nat, whole : BOOLEAN]] /\ disk'[g] = written
      /\ \A f \in Files : f # g => disk'[f] = disk[f]
      /\ \A f \in Files : disk'[f].by = disk[f].by
  <2>1. disk \in [Files -> [by : Nat, whole : BOOLEAN]]
    BY DEF TrainingInv
  <2>2. [disk[g] EXCEPT !.whole = TRUE] = written
    <3> HIDE DEF g
    <3>1. disk[g] \in [by : Nat, whole : BOOLEAN] /\ disk[g].by = training.by
      BY <1>2, <1>3, <2>1
    <3> QED
      BY <3>1, ClosedRecord
  <2>3. disk' = [disk EXCEPT ![g] = written]
    BY <1>1, <2>2
  <2>4. written.by = disk[g].by
    BY <1>3
  <2> HIDE DEF written
  <2>5. disk'[g] = written /\ \A f \in Files : f # g => disk'[f] = disk[f]
    BY <1>2, <2>1, <2>3
  <2>6. disk' \in [Files -> [by : Nat, whole : BOOLEAN]]
    BY <1>4, <2>1, <2>3
  <2> QED
    BY <2>4, <2>5, <2>6
\* What the files of a script are after the step, for its training or for the last.
<1>7. ASSUME NEW f \in FilesOf(s), Place(f) <= training.step
      PROVE  disk'[f] = [by |-> training.by, whole |-> TRUE]
  <2>1. f \in Files /\ Script[s][Place(f)].out = f /\ Place(f) \in 1 .. Len(Script[s])
    BY FilesArePlaced
  <2>2. CASE f = g
    BY <1>5, <2>2
  <2>3. CASE f # g
    <3>1. Place(f) < training.step
      BY <1>1, <1>7, <2>1, <2>3
    <3> QED
      BY <1>s, <1>3, <1>5, <2>1, <2>3, <3>1 DEF DiskOK
  <2> QED
    BY <2>2, <2>3
<1>8. ASSUME NEW t \in Scripts, NEW f \in FilesOf(t)
      PROVE  /\ disk'[f].by <= disk'[Bundle[t]].by /\ disk'[f].by <= LatestBy(t)
             /\ t # s => disk'[f] = disk[f]
  <2>1. f \in Files /\ Bundle[t] \in Files /\ (t # s => f # g)
    BY <1>2, FilesArePlaced
  <2>2. DiskOK(t)
    BY DEF TrainingInv
  <2> QED
    BY <1>5, <2>1, <2>2 DEF DiskOK
<1> HIDE DEF g, written
<1>9. CASE training.step # Len(Script[s])
  <2>1. /\ TrainingOK' /\ training'.script = s /\ training'.by = training.by
        /\ training'.step = training.step + 1 /\ training'.open = FALSE /\ last' = last
    BY <1>0, <1>s, <1>1, <1>9, NextStepOK
  <2>2. ASSUME NEW t \in Scripts  PROVE DiskOK(t)'
    <3>1. LatestBy(t)' = LatestBy(t)
      BY <1>s, <2>1 DEF LatestBy
    <3>2. ASSUME NEW f \in FilesOf(t), t = s, Place(f) < training'.step
          PROVE  disk'[f] = [by |-> training.by, whole |-> TRUE]
      <4>1. Place(f) \in 1 .. Len(Script[s])
        BY <3>2, FilesArePlaced
      <4>2. Place(f) <= training.step
        BY <1>1, <2>1, <3>2, <4>1
      <4> QED
        BY <1>7, <3>2, <4>2
    <3>3. DiskOK(t)
      BY DEF TrainingInv
    <3> QED
      BY <1>s, <1>8, <2>1, <3>1, <3>2, <3>3 DEF DiskOK
  <2> QED
    BY <1>0, <1>s, <1>5, <2>1, <2>2 DEF TrainingInv
<1>10. CASE training.step = Len(Script[s])
  <2>1. /\ training' = Idle
        /\ last' = [last EXCEPT ![training.script] = [by |-> training.by, end |-> "finished"]]
    BY <1>s, <1>1, <1>10 DEF Advance
  <2>2. /\ last' \in [Scripts -> [by : Nat, end : {"none", "finished", "interrupted"}]]
        /\ last'[s] = [by |-> training.by, end |-> "finished"]
        /\ \A t \in Scripts : t # s => last'[t] = last[t]
        /\ training'.script = "none"
        /\ \A t \in Scripts : LatestBy(t)' = LatestBy(t) /\ training'.script # t
    BY <1>0, <1>s, <2>1, EndOfTraining
  <2>3. ASSUME NEW f \in FilesOf(s)  PROVE disk'[f] = [by |-> training.by, whole |-> TRUE]
    <3>1. Place(f) \in 1 .. Len(Script[s])
      BY FilesArePlaced
    <3>2. Place(f) <= training.step
      BY <1>1, <1>10, <3>1
    <3> QED
      BY <1>7, <3>2
  <2>4. ASSUME NEW t \in Scripts  PROVE DiskOK(t)'
    <3>1. DiskOK(t)
      BY DEF TrainingInv
    <3>2. CASE t = s
      <4>1. training'.script # t
        BY <2>2
      <4>2. \A f \in FilesOf(t) : disk'[f] = [by |-> last'[t].by, whole |-> TRUE]
        <5>1. last'[t].by = training.by
          BY <2>2, <3>2
        <5> QED
          BY <2>3, <3>2, <5>1
      <4>3. \A f \in FilesOf(t) :
              disk'[f].by <= disk'[Bundle[t]].by /\ disk'[f].by <= LatestBy(t)'
        BY <1>8, <2>2
      <4> QED
        BY <4>1, <4>2, <4>3 DEF DiskOK
    <3>3. CASE t # s
      BY <1>s, <1>8, <2>2, <3>1, <3>3 DEF DiskOK
    <3> QED
      BY <3>2, <3>3
  <2> QED
    BY <1>5, <2>1, <2>2, <2>4 DEF TrainingInv
<1> QED
  BY <1>9, <1>10

LEMMA InterruptStep == TrainingInv /\ Interrupt => TrainingInv'
<1> SUFFICES ASSUME TrainingInv, Interrupt  PROVE TrainingInv'
  OBVIOUS
<1>1. /\ training.script # "none" /\ training' = Idle /\ disk' = disk
      /\ last' = [last EXCEPT ![training.script] = [by |-> training.by, end |-> "interrupted"]]
  BY DEF Interrupt
<1>2. /\ last' \in [Scripts -> [by : Nat, end : {"none", "finished", "interrupted"}]]
      /\ last'[training.script].end = "interrupted"
      /\ \A t \in Scripts : t # training.script => last'[t] = last[t]
      /\ training'.script = "none"
      /\ \A t \in Scripts : LatestBy(t)' = LatestBy(t) /\ training'.script # t
  BY <1>1, EndOfTraining
<1>3. ASSUME NEW t \in Scripts  PROVE DiskOK(t)'
  <2>1. DiskOK(t)
    BY DEF TrainingInv
  <2>2. CASE t = training.script
    BY <1>1, <1>2, <2>1, <2>2 DEF DiskOK
  <2>3. CASE t # training.script
    BY <1>1, <1>2, <2>1, <2>3 DEF DiskOK
  <2> QED
    BY <2>2, <2>3
<1> QED
  BY <1>1, <1>2, <1>3 DEF TrainingInv

\* Loading a model touches nothing of the trainings.
LEMMA LoadStep ==
  ASSUME TrainingInv, UNCHANGED <<training, disk, last>>  PROVE TrainingInv'
<1>1. training' = training /\ disk' = disk /\ last' = last
  OBVIOUS
<1>2. /\ TrainingOK => TrainingOK'
      /\ \A s \in Scripts : DiskOK(s) => DiskOK(s)'
  BY <1>1 DEF TrainingOK, Current, DiskOK, LatestBy
<1> QED
  BY <1>1, <1>2 DEF TrainingInv

LEMMA TrainingInvariance == TrainingSpec => []TrainingInv
<1>1. TrainingInv /\ UNCHANGED trainingVars => TrainingInv'
  BY LoadStep DEF trainingVars
<1>2. TrainingInv /\ [TrainingNext]_trainingVars => TrainingInv'
  <2>1. TrainingInv /\ (StartLoad \/ EndLoad) => TrainingInv'
    BY LoadStep DEF StartLoad, EndLoad
  <2> QED
    BY <1>1, <2>1, StartTrainingStep, ComputeStep, OpenFileStep, CloseFileStep, InterruptStep
       DEF TrainingNext
<1> QED
  BY TrainingStart, <1>2, PTL DEF TrainingSpec

\* However often the scripts are run and interrupted, nothing a model consists of descends
\* from the test rows, and the files that describe a model are its own or older ones
\* (train_lightgbm.py, ml_optimization_suite.py, the hybrid notebook).
THEOREM TrainingKeepsItsWord == TrainingSpec => [](TestStaysLocked /\ ReportsFollowTheirModel)
<1>1. TrainingInv => TestStaysLocked
  <2> SUFFICES ASSUME TrainingInv  PROVE TestStaysLocked
    OBVIOUS
  <2>1. CASE TrainingOK
    BY <2>1 DEF TrainingOK, TestStaysLocked
  <2>2. CASE training = Idle
    BY <2>2 DEF Idle, TestStaysLocked
  <2> QED
    BY <2>1, <2>2 DEF TrainingInv
<1>2. TrainingInv => ReportsFollowTheirModel
  BY DEF TrainingInv, DiskOK, ReportsFollowTheirModel
<1> QED
  BY <1>1, <1>2, TrainingInvariance, PTL

\* The served file: until a training of its script opens it, it is not that training's, and
\* it is never older than the last training that finished.
ServedOK ==
  /\ training.script = ServedScript
       /\ (training.step < Place(ServedPath)
             \/ (training.step = Place(ServedPath) /\ ~training.open)) =>
       disk[ServedPath].by <= last[ServedScript].by
  /\ last[ServedScript].end = "finished" => last[ServedScript].by <= disk[ServedPath].by

Modes == {"none", "loading", "not_trained_fallback", "load_error_fallback", "lightgbm_tabular"}

\* A load, under way or over: its pieces are of trainings from the last finished one to the
\* one whose file it is, and where something was torn another training has begun.
LoadOK ==
  /\ scorer \in [mode : Modes, finished : Nat, of : SUBSET Nat, held : SUBSET Nat,
                 full : SUBSET Nat, torn : BOOLEAN]
  /\ scorer.finished <= last[ServedScript].by
  /\ scorer.mode = "loading" =>
       /\ scorer.full \subseteq scorer.held /\ disk[ServedPath].by \in scorer.held
       /\ \A n \in scorer.held : scorer.finished <= n /\ n <= disk[ServedPath].by
       /\ disk[ServedPath].by \in scorer.full => disk[ServedPath].whole
       /\ scorer.torn => scorer.finished < LatestBy(ServedScript)
  /\ scorer.mode = "load_error_fallback" => scorer.finished < LatestBy(ServedScript)
  /\ scorer.mode = "not_trained_fallback" => scorer.finished = 0
  /\ scorer.mode = "lightgbm_tabular" =>
       \E n \in scorer.of :
         /\ n <= disk[ServedPath].by
         /\ \A m \in scorer.of : scorer.finished <= m /\ m <= n
         /\ disk[ServedPath].by = n => disk[ServedPath].whole

ScorerInv == ServedOK /\ LoadOK

\* The served file belongs to one script.
LEMMA ServedFacts ==
  /\ ServedScript \in Scripts /\ Bundle[ServedScript] = ServedPath
  /\ ServedPath \in FilesOf(ServedScript) /\ ServedPath \in Files
  /\ Place(ServedPath) \in Nat
  /\ \A s \in Scripts : ServedPath \in FilesOf(s) => s = ServedScript
  /\ ServedScript # "none"
<1>1. \E s \in Scripts : Bundle[s] = ServedPath
  BY ScriptsOK, TrainingAssumption
<1>2. ServedScript \in Scripts /\ Bundle[ServedScript] = ServedPath
  BY <1>1 DEF ServedScript
<1>3. Len(Script[ServedScript]) \in Nat /\ ServedScript # "none"
  BY <1>2, ScriptsOK DEF ScriptOK
<1>4. /\ ServedPath \in FilesOf(ServedScript) /\ ServedPath \in Files
      /\ Place(ServedPath) \in 1 .. Len(Script[ServedScript])
      /\ \A s \in Scripts : ServedPath \in FilesOf(s) => s = ServedScript
  BY <1>2, FilesArePlaced
<1> QED
  BY <1>2, <1>3, <1>4

\* What the invariant of the trainings says of the served file.
LEMMA ServedTypes ==
  ASSUME TrainingInv
  PROVE  /\ disk[ServedPath] \in [by : Nat, whole : BOOLEAN]
         /\ disk[ServedPath].by \in Nat /\ disk[ServedPath].whole \in BOOLEAN
         /\ last[ServedScript].by \in Nat /\ LatestBy(ServedScript) \in Nat
         /\ last[ServedScript].by <= LatestBy(ServedScript)
         /\ disk[ServedPath].by <= LatestBy(ServedScript)
         /\ training.script = ServedScript =>
              last[ServedScript].by < LatestBy(ServedScript)
         /\ training.script # ServedScript /\ last[ServedScript].end = "finished" =>
              disk[ServedPath].by = last[ServedScript].by /\ disk[ServedPath].whole
<1>1. /\ disk[ServedPath] \in [by : Nat, whole : BOOLEAN]
      /\ last[ServedScript].by \in Nat
      /\ DiskOK(ServedScript)
  BY ServedFacts DEF TrainingInv
<1>2. /\ disk[ServedPath].by <= LatestBy(ServedScript)
      /\ training.script # ServedScript /\ last[ServedScript].end = "finished" =>
           disk[ServedPath].by = last[ServedScript].by /\ disk[ServedPath].whole
  BY <1>1, ServedFacts DEF DiskOK
<1>3. /\ LatestBy(ServedScript) \in Nat /\ last[ServedScript].by <= LatestBy(ServedScript)
      /\ training.script = ServedScript => last[ServedScript].by < LatestBy(ServedScript)
  <2>1. CASE training.script = ServedScript
    <3>1. training.by \in Nat /\ last[ServedScript].by < training.by
      BY <2>1, ServedFacts, TrainingFacts DEF TrainingInv
    <3> QED
      BY <1>1, <2>1, <3>1 DEF LatestBy
  <2>2. CASE training.script # ServedScript
    BY <1>1, <2>2 DEF LatestBy
  <2> QED
    BY <2>1, <2>2
<1> QED
  BY <1>1, <1>2, <1>3

\* A step that leaves the served file and the load alone keeps what is said of them.
LEMMA LoadKept ==
  ASSUME LoadOK, TrainingInv, TrainingInv', scorer' = scorer,
         disk'[ServedPath] = disk[ServedPath],
         last[ServedScript].by <= last'[ServedScript].by,
         LatestBy(ServedScript) <= LatestBy(ServedScript)'
  PROVE  LoadOK'
<1>1. /\ last[ServedScript].by \in Nat /\ last'[ServedScript].by \in Nat
      /\ LatestBy(ServedScript) \in Nat /\ LatestBy(ServedScript)' \in Nat
  <2>1. last'[ServedScript].by \in Nat
    BY ServedFacts DEF TrainingInv
  <2>2. training'.by \in Nat
    BY DEF TrainingInv, TrainingOK, Trainings, Idle
  <2> QED
    BY <2>1, <2>2, ServedTypes DEF LatestBy
<1> QED
  BY <1>1 DEF LoadOK

LEMMA ScorerStart == TrainingInit => ScorerInv
<1> SUFFICES ASSUME TrainingInit  PROVE ScorerInv
  OBVIOUS
<1>1. /\ training.script = "none" /\ disk[ServedPath].by = 0
      /\ last[ServedScript].by = 0 /\ last[ServedScript].end = "none"
  BY ServedFacts DEF TrainingInit, Idle
<1>2. scorer = Scorer("none", 0, {})
  BY DEF TrainingInit
<1>3. ServedOK
  BY <1>1, ServedFacts DEF ServedOK
<1>4. LoadOK
  BY <1>1, <1>2 DEF LoadOK, Scorer, Modes
<1> QED
  BY <1>3, <1>4 DEF ScorerInv

\* A training begins: it is the newest there is.
LEMMA ScorerStartTraining ==
  ASSUME TrainingInv, TrainingInv', ScorerInv, StartTraining  PROVE ScorerInv'
<1>1. PICK s \in Scripts :
        training' = [script |-> s, by |-> Newest + 1, step |-> 1, open |-> FALSE, seen |-> <<>>]
  BY DEF StartTraining
<1>2. training.script = "none" /\ disk' = disk /\ last' = last /\ scorer' = scorer
  BY DEF StartTraining
<1>3. training'.script = s /\ training'.by = Newest + 1
  BY <1>1
<1>4. LatestBy(ServedScript) = last[ServedScript].by /\ last[ServedScript].by \in Nat
  BY <1>2, ServedFacts, ServedTypes DEF LatestBy
<1>5. ServedOK'
  BY <1>2, <1>4, ServedTypes DEF ServedOK, ScorerInv
<1>6. LatestBy(ServedScript) <= LatestBy(ServedScript)'
  BY <1>2, <1>3, <1>4, NewestIsMax, ServedFacts DEF LatestBy
<1>7. LoadOK'
  BY <1>2, <1>4, <1>6, LoadKept DEF ScorerInv
<1> QED
  BY <1>5, <1>7 DEF ScorerInv

\* The end of a training, finished or not, or a step of one that writes nothing.
LEMMA ScorerOther ==
  ASSUME TrainingInv, TrainingInv', ScorerInv, Compute \/ Interrupt  PROVE ScorerInv'
<1>1. training.script # "none" /\ disk' = disk /\ scorer' = scorer
  BY DEF Compute, Interrupt
<1>2. /\ TrainingOK /\ training.script \in Scripts /\ training.by \in Nat \ {0}
      /\ training.step \in 1 .. Len(Script[training.script])
      /\ Len(Script[training.script]) \in Nat
      /\ Current = Script[training.script][training.step]
  BY <1>1, TrainingFacts
<1>3. CASE Compute
  <2>1. Current.kind # "write" /\ Advance
    BY <1>3 DEF Compute
  <2>2. training.step # Len(Script[training.script])
    BY <1>2, <2>1, ScriptsOK DEF ScriptOK
  <2>3. /\ training'.script = training.script /\ training'.by = training.by
        /\ training'.step = training.step + 1 /\ training'.open = FALSE /\ last' = last
    BY <1>1, <2>1, <2>2, NextStepOK
  <2>4. ServedOK'
    BY <1>1, <1>2, <2>3, ServedFacts DEF ServedOK, ScorerInv
  <2>5. LatestBy(ServedScript)' = LatestBy(ServedScript)
    BY <2>3 DEF LatestBy
  <2>6. LoadOK'
    BY <1>1, <2>3, <2>5, LoadKept, ServedTypes DEF ScorerInv
  <2> QED
    BY <2>4, <2>6 DEF ScorerInv
<1>4. CASE Interrupt
  <2>1. /\ training' = Idle
        /\ last' = [last EXCEPT ![training.script] = [by |-> training.by, end |-> "interrupted"]]
    BY <1>4 DEF Interrupt
  <2>2. /\ last'[training.script] = [by |-> training.by, end |-> "interrupted"]
        /\ \A s \in Scripts : s # training.script => last'[s] = last[s]
        /\ training'.script = "none"
        /\ \A s \in Scripts : LatestBy(s)' = LatestBy(s)
    BY <1>1, <2>1, EndOfTraining
  <2>3. last[ServedScript].by <= last'[ServedScript].by
    BY <2>2, ServedFacts, ServedTypes DEF LatestBy
  <2>4. ServedOK'
    BY <1>1, <2>2, ServedFacts DEF ServedOK, ScorerInv
  <2>5. LoadOK'
    BY <1>1, <2>2, <2>3, LoadKept, ServedFacts, ServedTypes DEF ScorerInv
  <2> QED
    BY <2>4, <2>5 DEF ScorerInv
<1> QED
  BY <1>3, <1>4

\* A file is opened: the served one is now of the newest training, and torn.
LEMMA ScorerOpen ==
  ASSUME TrainingInv, TrainingInv', ScorerInv, OpenFile  PROVE ScorerInv'
<1> DEFINE g == Current.out  n == training.by  S == ServedScript  P == ServedPath
<1>1. /\ training.script # "none" /\ ~training.open /\ Current.kind = "write"
      /\ training' = [training EXCEPT !.open = TRUE] /\ last' = last
      /\ disk' = [disk EXCEPT ![g] = [by |-> n, whole |-> FALSE]]
      /\ scorer' = IF Loading(g)
                   THEN [scorer EXCEPT !.held = @ \union {n}, !.torn = TRUE] ELSE scorer
  BY DEF OpenFile
<1>2. /\ TrainingOK /\ training.script \in Scripts /\ n \in Nat \ {0}
      /\ training.step \in 1 .. Len(Script[training.script])
      /\ Current = Script[training.script][training.step]
  BY <1>1, TrainingFacts
<1>3. /\ training'.script = training.script /\ training'.by = n
      /\ training'.step = training.step /\ training'.open = TRUE
  BY <1>1, <1>2 DEF TrainingOK, Trainings
<1>4. g \in FilesOf(training.script) /\ Place(g) = training.step
  BY <1>1, <1>2, FilesArePlaced
<1>5. disk \in [Files -> [by : Nat, whole : BOOLEAN]]
  BY DEF TrainingInv
<1>6. LatestBy(S)' = LatestBy(S)
  BY <1>1, <1>3 DEF LatestBy
<1>7. CASE g # P
  <2>1. disk'[P] = disk[P]
    BY <1>1, <1>5, <1>7, ServedFacts
  <2>2. scorer' = scorer
    BY <1>1, <1>7 DEF Loading
  <2>3. training.script = S => training.step # Place(P)
    <3> SUFFICES ASSUME training.script = S, training.step = Place(P)  PROVE FALSE
      OBVIOUS
    <3>1. Script[S][Place(P)].out = P
      BY ServedFacts, FilesArePlaced
    <3> QED
      BY <1>2, <1>7, <3>1
  <2>4. ServedOK'
    BY <1>1, <1>3, <2>1, <2>3 DEF ServedOK, ScorerInv
  <2>5. LoadOK'
    BY <1>1, <1>6, <2>1, <2>2, LoadKept, ServedTypes DEF ScorerInv
  <2> QED
    BY <2>4, <2>5 DEF ScorerInv
<1>8. CASE g = P
  <2>1. training.script = S /\ training.step = Place(P)
    BY <1>2, <1>4, <1>8, ServedFacts
  <2>2. disk'[P].by = n /\ disk'[P].whole = FALSE
    BY <1>1, <1>5, <1>8, ServedFacts
  <2>3. /\ disk[P].by <= last[S].by /\ last[S].by < n /\ LatestBy(S) = n
        /\ disk[P].by \in Nat /\ last[S].by \in Nat
    BY <1>1, <2>1, ServedTypes DEF ServedOK, ScorerInv, LatestBy
  <2>4. ServedOK'
    <3>1. last' = last /\ training'.open /\ n \in Nat /\ training'.step = training.step
      BY <1>1, <1>2, <1>3
    <3>2. last'[S].by <= disk'[P].by
      BY <2>2, <2>3, <3>1
    <3>3. ~(training'.step < Place(P)) /\ training'.open
      BY <2>1, <3>1, ServedFacts
    <3> QED
      BY <3>2, <3>3 DEF ServedOK
  <2>5. /\ scorer \in [mode : Modes, finished : Nat, of : SUBSET Nat, held : SUBSET Nat,
                       full : SUBSET Nat, torn : BOOLEAN]
        /\ scorer.finished <= last[S].by
    BY DEF ScorerInv, LoadOK
  <2>6. CASE scorer.mode = "loading"
    <3>1. scorer' = [scorer EXCEPT !.held = scorer.held \union {n}, !.torn = TRUE]
      BY <1>1, <1>8, <2>6 DEF Loading
    <3> DEFINE held == scorer.held \union {n}
    <3>2. held \in SUBSET Nat /\ scorer' = [scorer EXCEPT !.held = held, !.torn = TRUE]
      BY <1>2, <2>5, <3>1
    <3> HIDE DEF held
    <3>3. /\ scorer' \in [mode : Modes, finished : Nat, of : SUBSET Nat, held : SUBSET Nat,
                          full : SUBSET Nat, torn : BOOLEAN]
          /\ scorer'.mode = "loading" /\ scorer'.finished = scorer.finished
          /\ scorer'.full = scorer.full /\ scorer'.held = held
      BY <2>5, <2>6, <3>2
    <3>4. /\ scorer.full \subseteq scorer.held
          /\ \A m \in scorer.held : scorer.finished <= m /\ m <= disk[P].by
      BY <2>6 DEF ScorerInv, LoadOK
    <3>5. /\ scorer.full \subseteq held /\ n \in held /\ n \notin scorer.full
          /\ \A m \in held : scorer.finished <= m /\ m <= n
      BY <1>2, <2>3, <2>5, <3>4 DEF held
    <3>6. scorer.finished < LatestBy(S)'
      BY <1>2, <1>6, <2>3, <2>5
    <3> HIDE DEF n, S, P
    <3> QED
      <4>1. LoadOK'
        BY <1>1, <2>2, <2>5, <3>3, <3>5, <3>6 DEF LoadOK, S, P
      <4> QED
        BY <2>4, <4>1 DEF ScorerInv
  <2>7. CASE scorer.mode # "loading"
    <3>1. scorer' = scorer
      BY <1>1, <2>7 DEF Loading
    <3>2. LoadOK'
      BY <1>1, <1>2, <1>6, <2>2, <2>3, <2>7, <3>1 DEF LoadOK, ScorerInv
    <3> QED
      BY <2>4, <3>2 DEF ScorerInv
  <2> QED
    BY <2>6, <2>7
<1> QED
  BY <1>7, <1>8

\* A file is closed: the served one is whole.
LEMMA ScorerClose ==
  ASSUME TrainingInv, TrainingInv', ScorerInv, CloseFile  PROVE ScorerInv'
<1> DEFINE g == Current.out  n == training.by  S == ServedScript  P == ServedPath
<1>1. /\ training.script # "none" /\ training.open /\ Advance
      /\ disk' = [disk EXCEPT ![g].whole = TRUE]
      /\ scorer' = IF Loading(g) THEN [scorer EXCEPT !.full = @ \union {n}] ELSE scorer
  BY DEF CloseFile
<1>2. /\ TrainingOK /\ training.script \in Scripts /\ n \in Nat \ {0}
      /\ training.step \in 1 .. Len(Script[training.script])
      /\ Current = Script[training.script][training.step] /\ Current.kind = "write"
      /\ Len(Script[training.script]) \in Nat
  BY <1>1, TrainingFacts DEF TrainingOK
<1>3. g \in FilesOf(training.script) /\ Place(g) = training.step /\ g \in Files
  BY <1>2, FilesArePlaced
<1>4. /\ disk \in [Files -> [by : Nat, whole : BOOLEAN]]
      /\ disk[g].by = n
  <2>1. DiskOK(training.script)
    BY <1>2 DEF TrainingInv
  <2> QED
    BY <1>1, <1>3, <2>1 DEF TrainingInv, DiskOK
<1>5. /\ disk'[P].by = disk[P].by
      /\ g # P => disk'[P] = disk[P]
      /\ g = P => disk'[P].whole = TRUE /\ disk[P].by = n /\ training.script = S
  <2>1. disk[g] \in [by : Nat, whole : BOOLEAN]
    BY <1>3, <1>4
  <2>2. [disk[g] EXCEPT !.whole = TRUE] = [by |-> disk[g].by, whole |-> TRUE]
    BY <2>1, ClosedRecord
  <2>3. disk' = [disk EXCEPT ![g] = [by |-> disk[g].by, whole |-> TRUE]]
    BY <1>1, <2>2
  <2> HIDE DEF g
  <2> QED
    BY <1>2, <1>3, <1>4, <2>3, ServedFacts
\* The training goes on or has finished.
<1>6. /\ LatestBy(S)' = LatestBy(S) /\ last[S].by <= last'[S].by
      /\ ServedOK'
  <2>1. CASE training.step # Len(Script[training.script])
    <3>1. /\ training'.script = training.script /\ training'.by = n
          /\ training'.step = training.step + 1 /\ training'.open = FALSE /\ last' = last
      BY <1>1, <2>1, NextStepOK
    <3>2. LatestBy(S)' = LatestBy(S)
      BY <3>1 DEF LatestBy
    <3>3. ServedOK'
      BY <1>2, <1>5, <3>1, ServedFacts DEF ServedOK, ScorerInv
    <3> QED
      BY <3>1, <3>2, <3>3, ServedTypes
  <2>2. CASE training.step = Len(Script[training.script])
    <3>1. /\ training' = Idle
          /\ last' = [last EXCEPT ![training.script] = [by |-> n, end |-> "finished"]]
      BY <1>1, <2>2 DEF Advance
    <3>2. /\ last'[training.script] = [by |-> n, end |-> "finished"]
          /\ \A s \in Scripts : s # training.script => last'[s] = last[s]
          /\ training'.script = "none"
          /\ \A s \in Scripts : LatestBy(s)' = LatestBy(s)
      BY <1>1, <3>1, EndOfTraining
    <3>3. last[S].by <= last'[S].by
      BY <3>2, ServedFacts, ServedTypes DEF LatestBy
    <3>4. last'[S].end = "finished" => last'[S].by <= disk'[P].by
      <4>1. DiskOK(S)' /\ last'[S].by \in Nat
        BY ServedFacts DEF TrainingInv
      <4>2. training'.script # S
        BY <3>2, ServedFacts
      <4>3. last'[S].end = "finished" => disk'[P] = [by |-> last'[S].by, whole |-> TRUE]
        BY <4>1, <4>2, ServedFacts DEF DiskOK
      <4> HIDE DEF S, P
      <4> QED
        BY <4>1, <4>3
    <3>5. ServedOK'
      BY <3>2, <3>4, ServedFacts DEF ServedOK
    <3> QED
      BY <3>2, <3>3, <3>5, ServedFacts
  <2> QED
    BY <2>1, <2>2
<1>7. CASE g # P
  <2>1. scorer' = scorer
    BY <1>1, <1>7 DEF Loading
  <2>2. LoadOK'
    BY <1>5, <1>6, <1>7, <2>1, LoadKept, ServedTypes DEF ScorerInv
  <2> QED
    BY <1>6, <2>2 DEF ScorerInv
<1>8. CASE g = P
  <2>1. /\ scorer \in [mode : Modes, finished : Nat, of : SUBSET Nat, held : SUBSET Nat,
                       full : SUBSET Nat, torn : BOOLEAN]
        /\ scorer.finished <= last[S].by
    BY DEF ScorerInv, LoadOK
  <2>2. scorer.finished <= last'[S].by
    <3>1. last'[S].by \in Nat /\ last[S].by \in Nat
      BY ServedFacts, ServedTypes DEF TrainingInv
    <3> QED
      BY <1>6, <2>1, <3>1
  <2>3. CASE scorer.mode = "loading"
    <3> DEFINE full == scorer.full \union {n}
    <3>1. scorer' = [scorer EXCEPT !.full = full] /\ full \in SUBSET Nat
      BY <1>1, <1>2, <1>8, <2>1, <2>3 DEF Loading
    <3>2. n \in scorer.held
      BY <1>5, <1>8, <2>3 DEF ScorerInv, LoadOK
    <3>3. full \subseteq scorer.held
      BY <2>3, <3>2 DEF ScorerInv, LoadOK
    <3> HIDE DEF full
    <3>4. /\ scorer' \in [mode : Modes, finished : Nat, of : SUBSET Nat, held : SUBSET Nat,
                          full : SUBSET Nat, torn : BOOLEAN]
          /\ scorer'.mode = "loading" /\ scorer'.finished = scorer.finished
          /\ scorer'.full = full /\ scorer'.held = scorer.held /\ scorer'.torn = scorer.torn
      BY <2>1, <2>3, <3>1
    <3>5. LoadOK'
      BY <1>5, <1>6, <1>8, <2>2, <2>3, <3>3, <3>4 DEF LoadOK, ScorerInv
    <3> QED
      BY <1>6, <3>5 DEF ScorerInv
  <2>4. CASE scorer.mode # "loading"
    <3>1. scorer' = scorer
      BY <1>1, <2>4 DEF Loading
    <3>2. LoadOK'
      BY <1>5, <1>6, <1>8, <2>1, <2>2, <2>4, <3>1 DEF LoadOK, ScorerInv
    <3> QED
      BY <1>6, <3>2 DEF ScorerInv
  <2> QED
    BY <2>3, <2>4
<1> QED
  BY <1>7, <1>8

\* A load begins: it finds nothing, or a file no older than the last finished training.
LEMMA ScorerStartLoad ==
  ASSUME TrainingInv, ScorerInv, StartLoad  PROVE ScorerInv'
<1> DEFINE file == disk[ServedPath]
<1>1. training' = training /\ disk' = disk /\ last' = last
  BY DEF StartLoad
<1>2. ServedOK'
  BY <1>1 DEF ServedOK, ScorerInv
<1>3. /\ Finished \in Nat /\ Finished <= last[ServedScript].by
      /\ Finished <= file.by /\ file.by \in Nat /\ file.whole \in BOOLEAN
      /\ LatestBy(ServedScript)' = LatestBy(ServedScript)
  BY <1>1, ServedTypes DEF Finished, ScorerInv, ServedOK, LatestBy
<1>4. file.by > 0 /\ ~file.whole => Finished < LatestBy(ServedScript)
  BY ServedTypes DEF Finished
<1> HIDE DEF file
<1>5. CASE file.by = 0
  <2>1. scorer' = Scorer("not_trained_fallback", Finished, {})
    BY <1>3, <1>5 DEF StartLoad, file
  <2>2. Finished = 0
    BY <1>3, <1>5
  <2>3. LoadOK'
    BY <1>1, <1>3, <2>1, <2>2 DEF LoadOK, Scorer, Modes
  <2> QED
    BY <1>2, <2>3 DEF ScorerInv
<1>6. CASE file.by # 0
  <2> DEFINE full == IF file.whole THEN {file.by} ELSE {}
             torn == ~file.whole
             held == {file.by}
  <2>1. scorer' = [Scorer("loading", Finished, {}) EXCEPT
                     !.held = held, !.full = full, !.torn = torn]
    BY <1>3, <1>6 DEF StartLoad, file
  <2>2. /\ full \subseteq held /\ file.by \in held /\ held \subseteq Nat
        /\ \A n \in held : Finished <= n /\ n <= file.by
        /\ file.by \in full => file.whole
        /\ torn => Finished < LatestBy(ServedScript)
        /\ torn \in BOOLEAN
    BY <1>3, <1>4, <1>6
  <2> HIDE DEF full, torn, held
  <2>3. scorer' = [mode |-> "loading", finished |-> Finished, of |-> {}, held |-> held,
                   full |-> full, torn |-> torn]
    BY <2>1 DEF Scorer
  <2>4. LoadOK'
    BY <1>1, <1>3, <2>2, <2>3 DEF LoadOK, Modes, file
  <2> QED
    BY <1>2, <2>4 DEF ScorerInv
<1> QED
  BY <1>5, <1>6

\* A load ends with what it has read, or with an error.
LEMMA ScorerEndLoad ==
  ASSUME TrainingInv, ScorerInv, EndLoad  PROVE ScorerInv'
<1>1. training' = training /\ disk' = disk /\ last' = last /\ scorer.mode = "loading"
  BY DEF EndLoad
<1>2. ServedOK' /\ LatestBy(ServedScript)' = LatestBy(ServedScript)
  BY <1>1 DEF ServedOK, ScorerInv, LatestBy
<1>3. /\ scorer.finished \in Nat /\ scorer.finished <= last[ServedScript].by
      /\ scorer.held \subseteq Nat
      /\ scorer.full \subseteq scorer.held
      /\ \A n \in scorer.held : scorer.finished <= n /\ n <= disk[ServedPath].by
      /\ disk[ServedPath].by \in scorer.full => disk[ServedPath].whole
      /\ scorer.torn => scorer.finished < LatestBy(ServedScript)
  BY <1>1 DEF ScorerInv, LoadOK
<1>4. ASSUME NEW read \in SUBSET scorer.held,
             \E n \in read \intersect scorer.full : \A m \in read : m <= n,
             scorer' = Scorer("lightgbm_tabular", scorer.finished, read)
      PROVE  LoadOK'
  <2>1. read \in SUBSET Nat
    BY <1>3
  <2>2. \E n \in read :
          /\ n <= disk[ServedPath].by
          /\ \A m \in read : scorer.finished <= m /\ m <= n
          /\ disk[ServedPath].by = n => disk[ServedPath].whole
    BY <1>3, <1>4
  <2> QED
    BY <1>1, <1>3, <1>4, <2>1, <2>2 DEF LoadOK, Scorer, Modes
<1>5. ASSUME scorer.torn, scorer' = Scorer("load_error_fallback", scorer.finished, {})
      PROVE  LoadOK'
  BY <1>1, <1>2, <1>3, <1>5 DEF LoadOK, Scorer, Modes
<1> QED
  BY <1>2, <1>4, <1>5 DEF EndLoad, ScorerInv

LEMMA ScorerInvariance == TrainingSpec => []ScorerInv
<1>1. TrainingInv /\ TrainingInv' /\ ScorerInv /\ [TrainingNext]_trainingVars => ScorerInv'
  <2> SUFFICES ASSUME TrainingInv, TrainingInv', ScorerInv, [TrainingNext]_trainingVars
               PROVE  ScorerInv'
    OBVIOUS
  <2>1. CASE UNCHANGED trainingVars
    <3>1. training' = training /\ disk' = disk /\ last' = last /\ scorer' = scorer
      BY <2>1 DEF trainingVars
    <3> QED
      BY <3>1 DEF ScorerInv, ServedOK, LoadOK, LatestBy
  <2> QED
    BY <2>1, ScorerStartTraining, ScorerOther, ScorerOpen, ScorerClose, ScorerStartLoad,
       ScorerEndLoad DEF TrainingNext
<1> QED
  BY <1>1, ScorerStart, TrainingInvariance, PTL DEF TrainingSpec

\* Whatever training writes while a model is loaded, what is served is no older than the
\* last training that had finished, ends in a file that was written whole, and is refused
\* only when another training has begun (ml_scoring_service.py); with TrainingKeepsItsWord,
\* the models are what they say.
THEOREM ServedModelIsTheTrainedOne == TrainingSpec => []ModelsAreWhatTheySay
<1>1. TrainingInv /\ ScorerInv => ServedBundleIsCurrent
  <2> SUFFICES ASSUME TrainingInv, ScorerInv  PROVE ServedBundleIsCurrent
    OBVIOUS
  <2>1. scorer.mode = "load_error_fallback" =>
          training.script = ServedScript \/ scorer.finished < last[ServedScript].by
    BY DEF ScorerInv, LoadOK, LatestBy
  <2> QED
    BY <2>1 DEF ScorerInv, LoadOK, ServedBundleIsCurrent
<1> QED
  BY <1>1, TrainingInvariance, ScorerInvariance, TrainingKeepsItsWord, PTL
     DEF ModelsAreWhatTheySay

-----------------------------------------------------------------------------
(* Finite sets of numbers, and sums.                                        *)

\* A set of natural numbers has a least one.
LEMMA LeastNumber ==
  ASSUME NEW T \in SUBSET Nat, T # {}
  PROVE  \E n \in T : \A m \in T : n <= m
<1> DEFINE R == {ss \in Nat \X Nat : ss[1] < ss[2]}
<1>1. IsWellFoundedOn(R, Nat)
  BY NatLessThanWellFounded DEF OpToRel
<1>2. \E x \in T : \A y \in T : ~ (<<y, x>> \in R)
  <2> HIDE DEF R
  <2> QED
    BY <1>1, WFMin
<1>3. PICK x \in T : \A y \in T : ~ (<<y, x>> \in R)
  BY <1>2
<1>4. ASSUME NEW y \in T  PROVE x <= y
  <2>1. ~ (y < x)
    BY <1>3
  <2> QED
    BY <2>1
<1> QED
  BY <1>4

\* A finite one has a greatest as well: one with the fewest above it.
LEMMA GreatestNumber ==
  ASSUME NEW T \in SUBSET Nat, T # {}, IsFiniteSet(T)
  PROVE  \E n \in T : \A m \in T : m <= n
<1> DEFINE Larger(n) == {m \in T : m > n}
           Counts == {Cardinality(Larger(n)) : n \in T}
<1>1. \A n \in T : IsFiniteSet(Larger(n)) /\ Cardinality(Larger(n)) \in Nat
  BY FS_Subset, FS_CardinalityType
<1>2. PICK n \in T : \A m \in T : Cardinality(Larger(n)) <= Cardinality(Larger(m))
  <2>1. Counts \in SUBSET Nat /\ Counts # {}
    BY <1>1
  <2>2. PICK c \in Counts : \A d \in Counts : c <= d
    <3> HIDE DEF Counts
    <3> QED
      BY <2>1, LeastNumber
  <2>3. PICK n \in T : c = Cardinality(Larger(n))
    OBVIOUS
  <2>4. \A m \in T : Cardinality(Larger(m)) \in Counts
    OBVIOUS
  <2> HIDE DEF Larger, Counts
  <2> QED
    BY <2>2, <2>3, <2>4
<1>3. ASSUME NEW m \in T  PROVE m <= n
  <2> SUFFICES ASSUME m > n  PROVE FALSE
    OBVIOUS
  <2>1. Larger(m) \subseteq Larger(n) /\ m \in Larger(n) /\ m \notin Larger(m)
    <3>1. n \in Nat /\ m \in Nat /\ \A k \in T : k \in Nat
      OBVIOUS
    <3>2. ASSUME NEW k \in Larger(m)  PROVE k \in Larger(n)
      BY <3>1
    <3>3. m \in Larger(n)
      OBVIOUS
    <3>4. m \notin Larger(m)
      BY <3>1
    <3> HIDE DEF Larger
    <3> QED
      BY <3>2, <3>3, <3>4
  <2>2. Cardinality(Larger(m)) <= Cardinality(Larger(n))
        /\ (Cardinality(Larger(n)) = Cardinality(Larger(m)) => Larger(n) = Larger(m))
    BY <1>1, <2>1, FS_Subset
  <2> HIDE DEF Larger
  <2> QED
    BY <1>1, <1>2, <2>1, <2>2
<1> QED
  BY <1>3

\* Max and Min choose what they say.
LEMMA MaxMin ==
  ASSUME NEW T \in SUBSET Nat, T # {}, IsFiniteSet(T)
  PROVE  /\ Max(T) \in T /\ \A m \in T : m <= Max(T)
         /\ Min(T) \in T /\ \A m \in T : Min(T) <= m
<1>1. \E x \in T : \A y \in T : x >= y
  BY GreatestNumber
<1>2. \E x \in T : \A y \in T : x =< y
  BY LeastNumber
<1>3. Max(T) \in T /\ \A y \in T : Max(T) >= y
  BY <1>1 DEF Max
<1>4. Min(T) \in T /\ \A y \in T : Min(T) =< y
  BY <1>2 DEF Min
<1> QED
  BY <1>3, <1>4

\* The values of a function on a finite set are finitely many.
LEMMA FiniteImage ==
  ASSUME NEW S, IsFiniteSet(S), NEW f
  PROVE  IsFiniteSet({f[x] : x \in S})
<1> DEFINE T == {f[x] : x \in S}
           g == [x \in S |-> f[x]]
<1>1. g \in Surjection(S, T)
  BY DEF Surjection
<1> QED
  BY <1>1, FS_Surjection

\* What is added for a set, given the totals of its subsets.
OneMore(g, T) ==
  IF T = {} THEN 0 ELSE (CHOOSE x \in T : TRUE).retries + g[T \ {CHOOSE x \in T : TRUE}]

\* g[T] is the total of the subset T of S, for those of no more than n rows.
IsTotal(g, S, n) == g = [T \in {U \in SUBSET S : Cardinality(U) <= n} |-> OneMore(g, T)]

\* There is one: for the least n for which there were none, one more could be added.
LEMMA TotalExists ==
  ASSUME NEW S, IsFiniteSet(S), NEW N \in Nat
  PROVE  \E g : IsTotal(g, S, N)
<1> DEFINE Missing == {n \in Nat : ~ \E g : IsTotal(g, S, n)}
           Upto(n) == {U \in SUBSET S : Cardinality(U) <= n}
<1> SUFFICES ASSUME Missing # {}  PROVE FALSE
  OBVIOUS
<1>1. PICK n \in Missing : \A m \in Missing : n <= m
  <2> HIDE DEF Missing
  <2> QED
    BY LeastNumber DEF Missing
<1>2. \A U \in SUBSET S : IsFiniteSet(U) /\ Cardinality(U) \in Nat
  BY FS_Subset, FS_CardinalityType
<1>3. \A m \in Nat : \A T \in Upto(m) : T # {} =>
        m # 0 /\ T \ {CHOOSE x \in T : TRUE} \in Upto(m - 1)
  <2> SUFFICES ASSUME NEW m \in Nat, NEW T \in Upto(m), T # {}
               PROVE  m # 0 /\ T \ {CHOOSE x \in T : TRUE} \in Upto(m - 1)
    OBVIOUS
  <2> DEFINE c == CHOOSE x \in T : TRUE
  <2>1. c \in T
    OBVIOUS
  <2> HIDE DEF c
  <2>2. Cardinality(T \ {c}) = Cardinality(T) - 1 /\ Cardinality(T \ {c}) \in Nat
    BY <1>2, <2>1, FS_RemoveElement
  <2>3. Cardinality(T) \in Nat /\ Cardinality(T) <= m
    BY <1>2
  <2>4. m # 0 /\ T \ {c} \in Upto(m - 1)
    BY <2>2, <2>3
  <2> QED
    BY <2>4 DEF c
<1>4. CASE n = 0
  <2> DEFINE g == [T \in Upto(n) |-> 0]
  <2>1. \A T \in Upto(n) : T = {}
    BY <1>3, <1>4
  <2>2. g = [T \in Upto(n) |-> OneMore(g, T)]
    <3> HIDE DEF Upto
    <3> QED
      BY <2>1 DEF OneMore
  <2> QED
    BY <1>1, <2>2 DEF IsTotal
<1>5. CASE n # 0
  <2>1. PICK h : IsTotal(h, S, n - 1)
    BY <1>1, <1>5
  <2>2. n - 1 \in Nat
    BY <1>1, <1>5
  <2> DEFINE g == [T \in Upto(n) |-> OneMore(h, T)]
  <2>3. \A T \in Upto(n - 1) : h[T] = OneMore(h, T)
    BY <2>1 DEF IsTotal
  <2>4. Upto(n - 1) \subseteq Upto(n)
    BY <1>1, <1>2, <2>2
  <2>5. \A T \in Upto(n - 1) : g[T] = h[T]
    <3> HIDE DEF Upto
    <3> QED
      BY <2>3, <2>4
  <2>6. \A T \in Upto(n) : OneMore(g, T) = OneMore(h, T)
    <3> SUFFICES ASSUME NEW T \in Upto(n), T # {}  PROVE OneMore(g, T) = OneMore(h, T)
      BY DEF OneMore
    <3>1. T \ {CHOOSE x \in T : TRUE} \in Upto(n - 1)
      BY <1>1, <1>3
    <3> HIDE DEF Upto, g
    <3> QED
      BY <3>1, <2>5 DEF OneMore
  <2>7. g = [T \in Upto(n) |-> OneMore(g, T)]
    <3>1. g = [T \in Upto(n) |-> OneMore(h, T)]
      OBVIOUS
    <3> HIDE DEF g, Upto
    <3> QED
      BY <3>1, <2>6
  <2> QED
    BY <1>1, <2>7 DEF IsTotal
<1> QED
  BY <1>4, <1>5

\* Two such functions agree where both are defined: on a smallest set of rows about which
\* they did not, they would differ about a smaller one.
LEMMA TotalsAgree ==
  ASSUME NEW S, NEW R, IsFiniteSet(S), IsFiniteSet(R), NEW n \in Nat, NEW m \in Nat,
         NEW g, NEW h, IsTotal(g, S, n), IsTotal(h, R, m),
         NEW T \in SUBSET S, T \in SUBSET R, Cardinality(T) <= n, Cardinality(T) <= m
  PROVE  g[T] = h[T]
<1> DEFINE Both == {U \in SUBSET S : /\ U \in SUBSET R
                                    /\ Cardinality(U) <= n /\ Cardinality(U) <= m}
           Sizes == {Cardinality(U) : U \in {V \in Both : g[V] # h[V]}}
<1>1. \A U \in Both : IsFiniteSet(U) /\ Cardinality(U) \in Nat
  BY FS_Subset, FS_CardinalityType
<1>2. \A U \in Both : g[U] = OneMore(g, U) /\ h[U] = OneMore(h, U)
  BY DEF IsTotal
<1>3. \A U \in Both : \A x \in U : /\ U \ {x} \in Both
                                  /\ Cardinality(U \ {x}) < Cardinality(U)
  <2> SUFFICES ASSUME NEW U \in Both, NEW x \in U
               PROVE  U \ {x} \in Both /\ Cardinality(U \ {x}) < Cardinality(U)
    OBVIOUS
  <2>1. Cardinality(U \ {x}) = Cardinality(U) - 1
    BY <1>1, FS_RemoveElement
  <2>2. Cardinality(U) \in Nat /\ Cardinality(U) <= n /\ Cardinality(U) <= m
    BY <1>1
  <2> QED
    BY <2>1, <2>2
<1> SUFFICES ASSUME Sizes # {}  PROVE FALSE
  OBVIOUS
<1> HIDE DEF Both
<1>4. Sizes \in SUBSET Nat
  BY <1>1
<1>5. PICK k \in Sizes : \A j \in Sizes : k <= j
  <2> HIDE DEF Sizes
  <2> QED
    BY <1>4, LeastNumber
<1>6. PICK U \in Both : g[U] # h[U] /\ k = Cardinality(U)
  OBVIOUS
<1>7. \A V \in Both : Cardinality(V) < k => g[V] = h[V]
  <2> SUFFICES ASSUME NEW V \in Both, Cardinality(V) < k, g[V] # h[V]  PROVE FALSE
    OBVIOUS
  <2>1. Cardinality(V) \in Sizes
    OBVIOUS
  <2>2. Cardinality(V) \in Nat /\ k \in Nat
    BY <1>1, <1>6
  <2> HIDE DEF Sizes
  <2> QED
    BY <1>5, <2>1, <2>2
<1> HIDE DEF Sizes
<1>8. CASE U = {}
  BY <1>2, <1>6, <1>8 DEF OneMore
<1>9. CASE U # {}
  <2>1. (CHOOSE x \in U : TRUE) \in U
    BY <1>9
  <2>2. g[U \ {CHOOSE x \in U : TRUE}] = h[U \ {CHOOSE x \in U : TRUE}]
    BY <1>3, <1>6, <1>7, <2>1
  <2> QED
    BY <1>2, <1>6, <1>9, <2>2 DEF OneMore
<1> QED
  BY <1>8, <1>9

\* The retries of some rows are those of one of them, the one the fold takes first, and
\* of the rest.
LEMMA TotalUnfolds ==
  ASSUME NEW S, IsFiniteSet(S)
  PROVE  TotalRetries(S) =
           IF S = {} THEN 0
           ELSE (CHOOSE x \in S : TRUE).retries + TotalRetries(S \ {CHOOSE x \in S : TRUE})
<1> DEFINE Fold(R) == CHOOSE g : g = [T \in SUBSET R |-> OneMore(g, T)]
<1>1. \A R : TotalRetries(R) = Fold(R)[R]
  BY DEF TotalRetries, MapThenSumSet, MapThenFoldSet, OneMore
<1>2. ASSUME NEW R, IsFiniteSet(R)
      PROVE  Cardinality(R) \in Nat /\ IsTotal(Fold(R), R, Cardinality(R))
  <2>1. Cardinality(R) \in Nat
    BY <1>2, FS_CardinalityType
  <2>2. {U \in SUBSET R : Cardinality(U) <= Cardinality(R)} = SUBSET R
    BY <1>2, FS_Subset
  <2>3. \E g : g = [T \in SUBSET R |-> OneMore(g, T)]
    <3>1. PICK g : IsTotal(g, R, Cardinality(R))
      BY <1>2, <2>1, TotalExists
    <3> QED
      BY <3>1, <2>2 DEF IsTotal
  <2>4. Fold(R) = [T \in SUBSET R |-> OneMore(Fold(R), T)]
    BY <2>3
  <2> HIDE DEF Fold
  <2> QED
    BY <2>1, <2>2, <2>4 DEF IsTotal
<1> HIDE DEF Fold
<1> DEFINE c == CHOOSE x \in S : TRUE
           R == S \ {c}
<1>3. IsTotal(Fold(S), S, Cardinality(S)) /\ Cardinality(S) \in Nat
  BY <1>2
<1>4. Fold(S)[S] = OneMore(Fold(S), S)
  BY <1>3 DEF IsTotal
<1>5. ASSUME S # {}  PROVE Fold(S)[R] = Fold(R)[R]
  <2>1. IsFiniteSet(R) /\ R \in SUBSET S
    BY FS_Subset
  <2>2. Cardinality(R) <= Cardinality(S)
    BY <2>1, FS_Subset
  <2>3. IsTotal(Fold(R), R, Cardinality(R)) /\ Cardinality(R) \in Nat
    BY <1>2, <2>1
  <2> HIDE DEF R
  <2> QED
    BY <1>3, <2>1, <2>2, <2>3, TotalsAgree
<1> QED
  BY <1>1, <1>4, <1>5 DEF OneMore

\* The order in which the fold takes them does not matter.
LEMMA TotalWithout ==
  ASSUME NEW S, IsFiniteSet(S), \A y \in S : y.retries \in Int
  PROVE  /\ TotalRetries(S) \in Int
         /\ \A x \in S : TotalRetries(S) = x.retries + TotalRetries(S \ {x})
<1> DEFINE Good(U) == /\ TotalRetries(U) \in Int
                      /\ \A x \in U : TotalRetries(U) = x.retries + TotalRetries(U \ {x})
           Sizes == {Cardinality(U) : U \in {V \in SUBSET S : ~Good(V)}}
<1>1. \A U \in SUBSET S : IsFiniteSet(U) /\ Cardinality(U) \in Nat
  BY FS_Subset, FS_CardinalityType
<1>2. \A U \in SUBSET S : \A x \in U : /\ U \ {x} \in SUBSET S
                                       /\ Cardinality(U \ {x}) < Cardinality(U)
  <2> SUFFICES ASSUME NEW U \in SUBSET S, NEW x \in U
               PROVE  Cardinality(U \ {x}) < Cardinality(U)
    OBVIOUS
  <2>1. Cardinality(U \ {x}) = Cardinality(U) - 1
    BY <1>1, FS_RemoveElement
  <2> QED
    BY <1>1, <2>1
<1> SUFFICES ASSUME Sizes # {}  PROVE FALSE
  <2>1. Good(S)
    OBVIOUS
  <2> QED
    BY <2>1
<1>3. Sizes \in SUBSET Nat
  BY <1>1
<1>4. PICK k \in Sizes : \A j \in Sizes : k <= j
  <2> HIDE DEF Sizes
  <2> QED
    BY <1>3, LeastNumber
<1>5. PICK U \in SUBSET S : ~Good(U) /\ k = Cardinality(U)
  OBVIOUS
<1>6. \A V \in SUBSET S : Cardinality(V) < k => Good(V)
  <2> SUFFICES ASSUME NEW V \in SUBSET S, Cardinality(V) < k, ~Good(V)  PROVE FALSE
    BY Zenon
  <2> HIDE DEF Good
  <2>1. Cardinality(V) \in Sizes
    OBVIOUS
  <2>2. Cardinality(V) \in Nat /\ k \in Nat
    BY <1>1, <1>5
  <2> HIDE DEF Sizes
  <2> QED
    BY <1>4, <2>1, <2>2
<1> HIDE DEF Sizes
<1>7. \A x \in U : Good(U \ {x})
  <2> HIDE DEF Good
  <2> QED
    BY <1>2, <1>5, <1>6
<1>8. U # {}
  <2>1. TotalRetries({}) = 0
    BY FS_EmptySet, TotalUnfolds
  <2> QED
    BY <2>1, <1>5
<1> DEFINE c == CHOOSE x \in U : TRUE
<1>9. c \in U
  BY <1>8
<1>10. TotalRetries(U) = c.retries + TotalRetries(U \ {c})
  BY <1>1, <1>8, TotalUnfolds
<1> HIDE DEF c
<1>11. TotalRetries(U) \in Int
  BY <1>7, <1>9, <1>10
<1>12. ASSUME NEW x \in U  PROVE TotalRetries(U) = x.retries + TotalRetries(U \ {x})
  <2>1. CASE x = c
    BY <2>1, <1>10
  <2>2. CASE x # c
    <3>1. TotalRetries(U \ {c}) = x.retries + TotalRetries((U \ {c}) \ {x})
      BY <1>7, <1>9, <2>2
    <3>2. TotalRetries(U \ {x}) = c.retries + TotalRetries((U \ {x}) \ {c})
      BY <1>7, <1>9, <2>2
    <3>3. (U \ {c}) \ {x} = (U \ {x}) \ {c}
      OBVIOUS
    <3>4. Good((U \ {x}) \ {c})
      <4>1. (U \ {x}) \ {c} \in SUBSET S
        OBVIOUS
      <4>2. Cardinality((U \ {x}) \ {c}) < k
        <5>1. U \ {x} \in SUBSET S /\ c \in U \ {x}
          BY <1>9, <2>2
        <5>2. Cardinality((U \ {x}) \ {c}) < Cardinality(U \ {x})
              /\ Cardinality(U \ {x}) < Cardinality(U)
          BY <1>2, <5>1
        <5>3. /\ Cardinality((U \ {x}) \ {c}) \in Nat
              /\ Cardinality(U \ {x}) \in Nat /\ Cardinality(U) \in Nat
          BY <1>1, <4>1
        <5> QED
          BY <1>5, <5>2, <5>3
      <4> HIDE DEF Good
      <4> QED
        BY <1>6, <4>1, <4>2
    <3>5. TotalRetries((U \ {x}) \ {c}) \in Int /\ x.retries \in Int /\ c.retries \in Int
      BY <3>4, <1>9
    <3>6. \A i, j, m \in Int : i + (j + m) = j + (i + m)
      OBVIOUS
    <3> HIDE DEF Good
    <3>7. TotalRetries(U) = c.retries + (x.retries + TotalRetries((U \ {x}) \ {c}))
      BY <1>10, <3>1, <3>3
    <3> QED
      BY <3>2, <3>5, <3>6, <3>7
  <2> QED
    BY <2>1, <2>2
<1> QED
  BY <1>5, <1>11, <1>12

-----------------------------------------------------------------------------
(* The sorted frame.                                                        *)

\* What makes a set of rows a data set.
IsData(D) ==
  /\ IsFiniteSet(D)
  /\ \A r \in D : r.id \in Nat /\ r.at \in Nat /\ r.retries \in Int
  /\ \A r, s \in D : r.id = s.id => r = s

\* s is r or stands above it in its customer's group.
Above(s, r) == s.cust = r.cust /\ (s.at < r.at \/ (s.at = r.at /\ s.id <= r.id))

\* A customer's rows are totally ordered.
LEMMA AboveIsTotal ==
  ASSUME NEW D, IsData(D)
  PROVE  /\ \A r \in D : Above(r, r)
         /\ \A r, s, q \in D : Above(s, r) /\ Above(q, s) => Above(q, r)
         /\ \A r, s \in D : s.cust = r.cust /\ ~Above(s, r) => Above(r, s) /\ r # s
         /\ \A r, s \in D : Above(s, r) /\ Above(r, s) => r = s
  BY DEF IsData, Above

\* A row's position counts the rows that are not below it, itself among them.
LEMMA PositionIsCount ==
  ASSUME NEW D, IsData(D), NEW r \in D
  PROVE  /\ Position(D, r) = Cardinality({s \in D : Above(s, r)})
         /\ IsFiniteSet({s \in D : Above(s, r)})
         /\ Position(D, r) \in Nat \ {0}
<1> DEFINE P == {s \in D : Above(s, r)}
<1>1. Position(D, r) = Cardinality(P)
  BY DEF Position, Above
<1>2. IsFiniteSet(P)
  BY FS_Subset DEF IsData
<1>3. r \in P
  BY AboveIsTotal
<1> HIDE DEF P
<1>4. Cardinality(P) \in Nat \ {0}
  BY <1>2, <1>3, FS_CardinalityType, FS_EmptySet
<1> QED
  BY <1>1, <1>2, <1>4 DEF P

\* Positions follow that order, so the group of a row holds what is above it.
LEMMA PositionsOrder ==
  ASSUME NEW D, IsData(D), NEW r \in D, NEW s \in D, s.cust = r.cust
  PROVE  /\ Position(D, s) <= Position(D, r) <=> Above(s, r)
         /\ Position(D, s) = Position(D, r) => s = r
<1> DEFINE P(x) == {q \in D : Above(q, x)}
<1>1. \A x \in D : /\ Position(D, x) = Cardinality(P(x)) /\ IsFiniteSet(P(x))
                   /\ Cardinality(P(x)) \in Nat
  BY PositionIsCount
<1>2. ASSUME NEW x \in D, NEW y \in D, Above(x, y)
      PROVE  Cardinality(P(x)) <= Cardinality(P(y))
  <2>1. P(x) \subseteq P(y)
    BY <1>2, AboveIsTotal
  <2> HIDE DEF P
  <2> QED
    BY <1>1, <2>1, FS_Subset
<1>3. ASSUME NEW x \in D, NEW y \in D, Above(x, y), x # y
      PROVE  Cardinality(P(x)) < Cardinality(P(y))
  <2>1. P(x) \subseteq P(y) /\ y \in P(y) /\ y \notin P(x)
    BY <1>3, AboveIsTotal
  <2>2. Cardinality(P(x)) <= Cardinality(P(y)) /\ Cardinality(P(x)) # Cardinality(P(y))
    <3> HIDE DEF P
    <3> QED
      BY <1>1, <2>1, FS_Subset
  <2> HIDE DEF P
  <2> QED
    BY <1>1, <2>2
<1>4. Above(s, r) \/ (Above(r, s) /\ r # s)
  BY AboveIsTotal
<1> HIDE DEF P
<1> QED
  BY <1>1, <1>2, <1>3, <1>4

\* The group of a row is what is above it (g.cumcount() and the cumulative sums).
LEMMA GroupIsAbove ==
  ASSUME NEW D, IsData(D), NEW r \in D
  PROVE  UpTo(D, r) = {s \in D : Above(s, r)}
<1>1. ASSUME NEW s \in D
      PROVE  s.cust = r.cust /\ Position(D, s) <= Position(D, r) <=> Above(s, r)
  <2>1. CASE s.cust = r.cust
    BY <2>1, PositionsOrder
  <2>2. CASE s.cust # r.cust
    BY <2>2 DEF Above
  <2> QED
    BY <2>1, <2>2
<1> QED
  BY <1>1 DEF UpTo

\* Every place in the group up to a row is somebody's, and only his.
LEMMA PlacesAreTaken ==
  ASSUME NEW D, IsData(D), NEW r \in D, NEW n \in 1 .. Position(D, r)
  PROVE  \E s \in UpTo(D, r) : /\ s \in D /\ Position(D, s) = n
                               /\ \A q \in UpTo(D, r) : Position(D, q) = n => q = s
<1> DEFINE G == UpTo(D, r)
           N == Position(D, r)
           f == [s \in G |-> Position(D, s)]
<1>1. IsFiniteSet(G) /\ Cardinality(G) = N /\ N \in Nat
  BY PositionIsCount, GroupIsAbove
<1>2. \A s \in G : s \in D /\ s.cust = r.cust /\ Position(D, s) \in 1 .. N
  <2> SUFFICES ASSUME NEW s \in G
               PROVE  s \in D /\ s.cust = r.cust /\ Position(D, s) \in 1 .. N
    OBVIOUS
  <2>1. s \in D /\ s.cust = r.cust /\ Position(D, s) <= N
    BY DEF UpTo
  <2>2. Position(D, s) \in Nat \ {0}
    BY <2>1, PositionIsCount
  <2> QED
    BY <1>1, <2>1, <2>2
<1>3. \A s, q \in G : Position(D, s) = Position(D, q) => s = q
  BY <1>2, PositionsOrder
<1> HIDE DEF G
<1>4. f \in Injection(G, 1 .. N)
  BY <1>2, <1>3 DEF Injection, IsInjective
<1>5. IsFiniteSet(1 .. N) /\ Cardinality(1 .. N) = N
  BY <1>1, FS_Interval
<1> HIDE DEF N
<1>6. f \in Surjection(G, 1 .. N)
  <2> HIDE DEF f
  <2> QED
    BY <1>1, <1>4, <1>5, FS_Injection
<1>7. PICK s \in G : f[s] = n
  BY <1>6 DEF Surjection, N
<1>8. Position(D, s) = n
  BY <1>7
<1> QED
  BY <1>2, <1>3, <1>7, <1>8 DEF G

\* The row before a row in its group, as the gap is taken from it.
Previous(D, r) == CHOOSE s \in UpTo(D, r) : Position(D, s) = Position(D, r) - 1

\* It is there, and nothing stands between it and the row.
LEMMA PreviousIsAbove ==
  ASSUME NEW D, IsData(D), NEW r \in D, Position(D, r) # 1
  PROVE  /\ Previous(D, r) \in D /\ Position(D, Previous(D, r)) = Position(D, r) - 1
         /\ Above(Previous(D, r), r) /\ Previous(D, r) # r
         /\ \A q \in D : Above(q, r) /\ q # r => Above(q, Previous(D, r))
         /\ \A q \in UpTo(D, r) : Position(D, q) = Position(D, r) - 1 => q = Previous(D, r)
<1> DEFINE p == Previous(D, r)
<1>1. Position(D, r) \in Nat \ {0} /\ \A q \in D : Position(D, q) \in Nat \ {0}
  BY PositionIsCount
<1>2. Position(D, r) - 1 \in 1 .. Position(D, r)
  BY <1>1
<1>3. PICK s \in UpTo(D, r) : /\ Position(D, s) = Position(D, r) - 1
                              /\ \A q \in UpTo(D, r) :
                                   Position(D, q) = Position(D, r) - 1 => q = s
  BY <1>2, PlacesAreTaken
<1>4. p \in UpTo(D, r) /\ Position(D, p) = Position(D, r) - 1
  BY <1>3 DEF Previous
<1> HIDE DEF p
<1>5. p \in D /\ Above(p, r) /\ p # r
  BY <1>1, <1>4, GroupIsAbove
<1>6. ASSUME NEW q \in D, Above(q, r), q # r  PROVE Above(q, p)
  <2>1. p.cust = r.cust /\ q.cust = r.cust
    BY <1>5, <1>6 DEF Above
  <2>2. Position(D, q) <= Position(D, r) /\ Position(D, q) # Position(D, r)
    BY <1>6, <2>1, PositionsOrder
  <2>3. Position(D, q) <= Position(D, p)
    BY <1>1, <1>4, <1>5, <2>2
  <2> QED
    BY <1>5, <2>1, <2>3, PositionsOrder
<1> QED
  BY <1>3, <1>4, <1>5, <1>6 DEF p

-----------------------------------------------------------------------------
(* Order statistics.                                                        *)

\* How many rows have a lower value, and no higher one, than t.
Below(D, f, t) == Cardinality({r \in D : f[r] < t})
NotAbove(D, f, t) == Cardinality({r \in D : f[r] <= t})

\* The rows below a value are among those that do not exceed it.
LEMMA CountsAreNumbers ==
  ASSUME NEW D, IsFiniteSet(D), NEW f \in [D -> Nat], NEW t \in Nat
  PROVE  /\ Below(D, f, t) \in Nat /\ Below(D, f, t) <= NotAbove(D, f, t)
         /\ NotAbove(D, f, t) \in Nat /\ NotAbove(D, f, t) <= Cardinality(D)
         /\ \A u \in Nat : u < t => NotAbove(D, f, u) <= Below(D, f, t)
<1> DEFINE B == {r \in D : f[r] < t}
           N(u) == {r \in D : f[r] <= u}
<1>1. \A r \in D : f[r] \in Nat
  OBVIOUS
<1>2. B \subseteq N(t) /\ N(t) \subseteq D /\ \A u \in Nat : u < t => N(u) \subseteq B
  BY <1>1
<1>3. /\ IsFiniteSet(B) /\ Cardinality(B) \in Nat
      /\ \A u \in Nat : IsFiniteSet(N(u)) /\ Cardinality(N(u)) \in Nat
  BY FS_Subset, FS_CardinalityType
<1> HIDE DEF B, N
<1>4. Cardinality(B) <= Cardinality(N(t)) /\ Cardinality(N(t)) <= Cardinality(D)
  BY <1>2, <1>3, FS_Subset
<1>5. ASSUME NEW u \in Nat, u < t  PROVE Cardinality(N(u)) <= Cardinality(B)
  BY <1>2, <1>3, <1>5, FS_Subset
<1> QED
  BY <1>3, <1>4, <1>5 DEF B, N, Below, NotAbove

\* There is a value at every rank, the least that more than k rows do not exceed.
LEMMA RankExists ==
  ASSUME NEW D, IsFiniteSet(D), NEW f \in [D -> Nat], NEW k \in Nat, k < Cardinality(D)
  PROVE  \E t \in {f[r] : r \in D} :
           /\ Below(D, f, t) <= k /\ k < NotAbove(D, f, t)
           /\ \A u \in {f[r] : r \in D} : k < NotAbove(D, f, u) => t <= u
<1> DEFINE T == {f[r] : r \in D}
           C == {t \in T : k < NotAbove(D, f, t)}
<1>1. T \in SUBSET Nat /\ IsFiniteSet(T)
  BY FiniteImage
<1>2. Cardinality(D) \in Nat /\ D # {}
  BY FS_CardinalityType, FS_EmptySet
<1>3. C # {}
  <2>1. PICK m \in T : \A u \in T : u <= m
    BY <1>1, <1>2, GreatestNumber
  <2>2. \A r \in D : f[r] <= m
    BY <2>1
  <2>3. {r \in D : f[r] <= m} = D
    BY <2>2
  <2>4. NotAbove(D, f, m) = Cardinality(D)
    BY <2>3 DEF NotAbove
  <2> QED
    BY <2>4
<1>4. PICK t \in C : \A u \in C : t <= u
  <2>1. C \in SUBSET Nat
    BY <1>1
  <2> HIDE DEF C
  <2> QED
    BY <1>3, <2>1, LeastNumber
<1>5. t \in Nat /\ t \in T
  BY <1>1
<1>6. Below(D, f, t) <= k
  <2> SUFFICES ASSUME ~(Below(D, f, t) <= k)  PROVE FALSE
    OBVIOUS
  <2> DEFINE B == {r \in D : f[r] < t}
             V == {f[r] : r \in B}
  <2>1. Below(D, f, t) \in Nat
    BY <1>5, CountsAreNumbers
  <2>2. IsFiniteSet(B)
    BY FS_Subset
  <2>3. B # {}
    BY <2>1, FS_EmptySet DEF Below
  <2>4. IsFiniteSet(V) /\ V # {} /\ V \in SUBSET Nat
    BY <2>2, <2>3, FiniteImage
  <2>5. PICK u \in V : \A v \in V : v <= u
    BY <2>4, GreatestNumber
  <2>6. u \in T /\ u \in Nat /\ u < t
    BY <2>4
  <2>7. B \subseteq {r \in D : f[r] <= u}
    BY <2>5
  <2>8. Below(D, f, t) <= NotAbove(D, f, u)
    <3>1. IsFiniteSet({r \in D : f[r] <= u})
      BY FS_Subset
    <3> HIDE DEF B
    <3>2. Cardinality(B) <= Cardinality({r \in D : f[r] <= u})
      BY <2>7, <3>1, FS_Subset
    <3> QED
      BY <3>2 DEF B, Below, NotAbove
  <2>9. NotAbove(D, f, u) \in Nat
    BY <2>6, CountsAreNumbers
  <2>10. u \in C
    <3> HIDE DEF V
    <3> QED
      BY <2>1, <2>6, <2>8, <2>9
  <2> HIDE DEF C
  <2> QED
    BY <1>4, <1>5, <2>6, <2>10
<1> QED
  BY <1>4, <1>6

\* It is the only one, and a higher rank has no lower value.
LEMMA RanksAscend ==
  ASSUME NEW D, IsFiniteSet(D), NEW f \in [D -> Nat], NEW k \in Nat, NEW l \in Nat, k <= l,
         NEW t \in Nat, Below(D, f, t) <= k, k < NotAbove(D, f, t),
         NEW u \in Nat, Below(D, f, u) <= l, l < NotAbove(D, f, u)
  PROVE  t <= u
<1> SUFFICES ASSUME u < t  PROVE FALSE
  OBVIOUS
<1>1. NotAbove(D, f, u) <= Below(D, f, t)
  BY CountsAreNumbers
<1>2. NotAbove(D, f, u) \in Nat /\ Below(D, f, t) \in Nat
  BY CountsAreNumbers
<1> QED
  BY <1>1, <1>2

\* The time of a row, and its second, as functions.
TimeOf(D) == [r \in D |-> r.at]

\* Times as values of a function.
LEMMA TimesAreValues ==
  ASSUME NEW D, IsData(D)
  PROVE  /\ IsFiniteSet(D) /\ Cardinality(D) \in Nat /\ TimeOf(D) \in [D -> Nat]
         /\ Times(D) = {TimeOf(D)[r] : r \in D}
         /\ \A t : Earlier(D, t) = Below(D, TimeOf(D), t) /\ Until(D, t) = NotAbove(D, TimeOf(D), t)
<1>1. IsFiniteSet(D) /\ Cardinality(D) \in Nat /\ TimeOf(D) \in [D -> Nat]
  BY FS_CardinalityType DEF IsData, TimeOf
<1>2. \A r \in D : TimeOf(D)[r] = r.at
  BY DEF TimeOf
<1>3. Times(D) = {TimeOf(D)[r] : r \in D}
  BY <1>2 DEF Times
<1>4. ASSUME NEW t
      PROVE  Earlier(D, t) = Below(D, TimeOf(D), t) /\ Until(D, t) = NotAbove(D, TimeOf(D), t)
  <2>1. /\ {r \in D : r.at < t} = {r \in D : TimeOf(D)[r] < t}
        /\ {r \in D : r.at <= t} = {r \in D : TimeOf(D)[r] <= t}
    BY <1>2
  <2> QED
    BY <2>1 DEF Earlier, Until, Below, NotAbove
<1> QED
  BY <1>1, <1>3, <1>4

\* The time at a rank.
LEMMA RankedIsThere ==
  ASSUME NEW D, IsData(D), NEW k \in Nat, k < Cardinality(D)
  PROVE  /\ Ranked(D, k) \in Times(D) /\ Ranked(D, k) \in Nat
         /\ Earlier(D, Ranked(D, k)) <= k /\ k < Until(D, Ranked(D, k))
         /\ \A t \in Nat : Earlier(D, t) <= k /\ k < Until(D, t) => t = Ranked(D, k)
<1> DEFINE t == Ranked(D, k)
<1>1. \E u \in Times(D) : Earlier(D, u) <= k /\ k < Until(D, u)
  BY RankExists, TimesAreValues
<1>2. t \in Times(D) /\ Earlier(D, t) <= k /\ k < Until(D, t)
  BY <1>1 DEF Ranked
<1> HIDE DEF t
<1>3. t \in Nat
  BY <1>2 DEF Times, IsData
<1>4. ASSUME NEW u \in Nat, Earlier(D, u) <= k, k < Until(D, u)  PROVE u = t
  <2>1. u <= t /\ t <= u
    BY <1>2, <1>3, <1>4, RanksAscend, TimesAreValues
  <2> QED
    BY <1>3, <2>1
<1> QED
  BY <1>2, <1>3, <1>4 DEF t

\* The times at two ranks, and that there is none between neighbours.
LEMMA RankedAscends ==
  ASSUME NEW D, IsData(D), NEW k \in Nat, NEW l \in Nat, k <= l, l < Cardinality(D)
  PROVE  /\ Ranked(D, k) <= Ranked(D, l)
         /\ l = k + 1 => \A t \in Times(D) : t < Ranked(D, l) => t <= Ranked(D, k)
<1> DEFINE a == Ranked(D, k)
           b == Ranked(D, l)
<1>1. Cardinality(D) \in Nat /\ k < Cardinality(D)
  BY TimesAreValues
<1>2. /\ a \in Nat /\ Earlier(D, a) <= k /\ k < Until(D, a)
      /\ b \in Nat /\ Earlier(D, b) <= l /\ l < Until(D, b)
  BY <1>1, RankedIsThere
<1> HIDE DEF a, b
<1>3. a <= b
  BY <1>2, RanksAscend, TimesAreValues
<1>4. ASSUME l = k + 1, NEW t \in Times(D), t < b, ~(t <= a)  PROVE FALSE
  <2>1. t \in Nat /\ a < t
    BY <1>2, <1>4 DEF Times, IsData
  <2>2. /\ Until(D, a) <= Earlier(D, t) /\ Until(D, t) <= Earlier(D, b)
        /\ Earlier(D, t) \in Nat /\ Until(D, t) \in Nat /\ Until(D, a) \in Nat
        /\ Earlier(D, b) \in Nat
    BY <1>2, <1>4, <2>1, CountsAreNumbers, TimesAreValues
  <2>3. Earlier(D, t) # Until(D, t)
    <3> DEFINE E == {r \in D : r.at < t}
               U == {r \in D : r.at <= t}
    <3>1. PICK r \in D : r.at = t
      BY DEF Times
    <3>2. r \in U /\ r \notin E
      BY <2>1, <3>1
    <3>3. E \subseteq U
      BY <2>1 DEF IsData
    <3>4. IsFiniteSet(U) /\ IsFiniteSet(E)
      BY FS_Subset DEF IsData
    <3> HIDE DEF E, U
    <3>5. Cardinality(E) # Cardinality(U)
      BY <3>2, <3>3, <3>4, FS_Subset
    <3> QED
      BY <3>5 DEF E, U, Earlier, Until
  <2>4. Earlier(D, t) <= Until(D, t)
    BY <2>1, CountsAreNumbers, TimesAreValues
  <2> QED
    BY <1>2, <1>4, <2>2, <2>3, <2>4
<1> QED
  BY <1>3, <1>4 DEF a, b

\* The rank of a cut-off.
CutRank(D, percent) == (percent * Cardinality(D)) \div 100

\* Both cut-offs are at a rank, and the share before it is what the split promises.
LEMMA CutRanks ==
  ASSUME NEW D, IsFiniteSet(D), D # {}
  PROVE  /\ \A p \in {70, 85} : /\ CutRank(D, p) \in Nat /\ CutRank(D, p) < Cardinality(D)
                                /\ 100 * CutRank(D, p) <= p * Cardinality(D)
         /\ CutRank(D, 70) <= CutRank(D, 85)
<1> DEFINE n == Cardinality(D)
<1>1. n \in Nat /\ n # 0
  BY FS_CardinalityType, FS_EmptySet
<1> HIDE DEF n
<1>2. /\ (70 * n) \div 100 \in Nat /\ (70 * n) \div 100 < n /\ 100 * ((70 * n) \div 100) <= 70 * n
      /\ (85 * n) \div 100 \in Nat /\ (85 * n) \div 100 < n /\ 100 * ((85 * n) \div 100) <= 85 * n
      /\ (70 * n) \div 100 <= (85 * n) \div 100
  BY <1>1
<1> QED
  BY <1>2 DEF n, CutRank

\* chrono_cutoffs takes the time at that rank.
LEMMA CutoffIsRanked ==
  ASSUME NEW D, NEW p
  PROVE  Cutoff(D, p) = Ranked(D, CutRank(D, p))
BY DEF Cutoff, Ranked, CutRank

\* What a split by time needs to know of its two cut-offs.
LEMMA Cutoffs ==
  ASSUME NEW D, IsData(D), D # {}
  PROVE  /\ \A p \in {70, 85} : /\ Cutoff(D, p) \in Nat /\ Cutoff(D, p) \in Times(D)
                                /\ Earlier(D, Cutoff(D, p)) <= CutRank(D, p)
                                /\ CutRank(D, p) < Until(D, Cutoff(D, p))
         /\ Cutoff(D, 70) <= Cutoff(D, 85)
<1>1. \A p \in {70, 85} : CutRank(D, p) \in Nat /\ CutRank(D, p) < Cardinality(D)
  BY CutRanks DEF IsData
<1>2. CutRank(D, 70) <= CutRank(D, 85)
  BY CutRanks DEF IsData
<1>3. ASSUME NEW p \in {70, 85}
      PROVE  /\ Cutoff(D, p) \in Nat /\ Cutoff(D, p) \in Times(D)
             /\ Earlier(D, Cutoff(D, p)) <= CutRank(D, p)
             /\ CutRank(D, p) < Until(D, Cutoff(D, p))
  BY <1>1, CutoffIsRanked, RankedIsThere
<1>4. Cutoff(D, 70) <= Cutoff(D, 85)
  BY <1>1, <1>2, CutoffIsRanked, RankedAscends
<1> QED
  BY <1>3, <1>4

-----------------------------------------------------------------------------
(* The data set.                                                            *)

\* The file stays valid: finitely many rows, made of events, with distinct ids.
PipelineInv ==
  /\ IsFiniteSet(rows)
  /\ \A r \in rows : r.id \in Ids /\ \E e \in Events : r = Row(r.id, e)
  /\ \A r, s \in rows : r.id = s.id => r = s

\* A row holds the fields of its event.
LEMMA RowFields ==
  ASSUME NEW id, NEW e
  PROVE  /\ Row(id, e).id = id /\ Row(id, e).cust = e.cust /\ Row(id, e).at = e.at
         /\ Row(id, e).reason = e.reason /\ Row(id, e).retries = e.retries
BY DEF Row

\* A valid file is a data set.
LEMMA ValidIsData == PipelineInv => IsData(rows)
<1> SUFFICES ASSUME PipelineInv  PROVE IsData(rows)
  OBVIOUS
<1>1. ASSUME NEW r \in rows  PROVE r.id \in Nat /\ r.at \in Nat /\ r.retries \in Int
  <2>1. r.id \in Ids /\ \E e \in Events : r = Row(r.id, e)
    BY DEF PipelineInv
  <2>2. PICK e \in Events : r = Row(r.id, e)
    BY <2>1
  <2>3. r.at = e.at /\ r.retries = e.retries
    BY <2>2, RowFields
  <2>4. r.id \in Nat
    BY <2>1, PipelineAssumption
  <2>5. e.at \in Nat /\ e.retries \in Int
    BY PipelineAssumption
  <2> QED
    BY <2>3, <2>4, <2>5
<1> QED
  BY <1>1 DEF PipelineInv, IsData

\* Loading keeps the file valid.
LEMMA PipelineInvariance == PipelineSpec => []PipelineInv
<1>1. PipelineInit => PipelineInv
  BY FS_EmptySet DEF PipelineInit, PipelineInv
<1>2. PipelineInv /\ [AddRow]_rows => PipelineInv'
  <2> SUFFICES ASSUME PipelineInv, [AddRow]_rows  PROVE PipelineInv'
    OBVIOUS
  <2>1. CASE UNCHANGED rows
    BY <2>1 DEF PipelineInv
  <2>2. CASE AddRow
    <3>1. PICK id \in Ids, e \in Events :
            (\A r \in rows : r.id # id) /\ rows' = rows \union {Row(id, e)}
      BY <2>2 DEF AddRow
    <3>2. Row(id, e).id = id
      BY RowFields
    <3>3. IsFiniteSet(rows')
      BY <3>1, FS_AddElement DEF PipelineInv
    <3>4. ASSUME NEW r \in rows'  PROVE r.id \in Ids /\ \E d \in Events : r = Row(r.id, d)
      BY <3>1, <3>2 DEF PipelineInv
    <3>5. ASSUME NEW r \in rows', NEW s \in rows', r.id = s.id  PROVE r = s
      BY <3>1, <3>2, <3>5 DEF PipelineInv
    <3> QED
      BY <3>3, <3>4, <3>5 DEF PipelineInv
  <2> QED
    BY <2>1, <2>2
<1> QED
  BY <1>1, <1>2, PTL DEF PipelineSpec

\* Distinct ids are as many as the rows.
LEMMA PipelineTypes == PipelineInv => PipelineTypeOK
<1> SUFFICES ASSUME PipelineInv  PROVE Cardinality(rows) = Cardinality({r.id : r \in rows})
  BY DEF PipelineInv, PipelineTypeOK
<1> DEFINE f == [r \in rows |-> r.id]
           T == {r.id : r \in rows}
<1>1. f \in Surjection(rows, T)
  BY DEF Surjection
<1>2. f \in Injection(rows, T)
  BY DEF Injection, IsInjective, PipelineInv
<1> HIDE DEF f, T
<1>3. Cardinality(T) = Cardinality(rows)
  BY <1>1, <1>2, FS_Surjection DEF PipelineInv
<1> QED
  BY <1>3 DEF T

-----------------------------------------------------------------------------
(* Nothing looks ahead.                                                     *)

\* What the cumulative columns hold at a row: its own value and those of the rows before it.
LEMMA GroupTotals ==
  ASSUME NEW D, IsData(D), NEW r \in D
  PROVE  /\ IsFiniteSet(UpTo(D, r)) /\ Cardinality(UpTo(D, r)) = Position(D, r)
         /\ r \in UpTo(D, r) /\ UpTo(D, r) \subseteq D
         /\ TotalRetries(UpTo(D, r)) = r.retries + TotalRetries(UpTo(D, r) \ {r})
         /\ TotalRetries(UpTo(D, r)) \in Int /\ TotalRetries(UpTo(D, r) \ {r}) \in Int
<1> DEFINE G == UpTo(D, r)
<1>1. IsFiniteSet(G) /\ Cardinality(G) = Position(D, r) /\ G \subseteq D /\ r \in G
  BY PositionIsCount, GroupIsAbove, AboveIsTotal
<1> HIDE DEF G
<1>2. \A x \in G : x.retries \in Int
  BY <1>1 DEF IsData
<1>3. TotalRetries(G) \in Int /\ TotalRetries(G) = r.retries + TotalRetries(G \ {r})
  BY <1>1, <1>2, TotalWithout
<1>4. TotalRetries(G \ {r}) \in Int
  <2>1. IsFiniteSet(G \ {r}) /\ \A x \in G \ {r} : x.retries \in Int
    BY <1>1, <1>2, FS_RemoveElement
  <2> QED
    BY <2>1, TotalWithout
<1> QED
  BY <1>1, <1>3, <1>4 DEF G

\* The checks add_history_features makes of its own result.
LEMMA FirstEvent ==
  ASSUME NEW D, IsData(D), NEW r \in D
  PROVE  LET h == HistoryPandas(D, r)
         IN  IF h.events = 0 THEN h.gap = NoGap /\ h.retries = 0 /\ h.same = 0
             ELSE h.gap \in Nat
<1> DEFINE h == HistoryPandas(D, r)
<1>1. Position(D, r) \in Nat \ {0}
  BY PositionIsCount
<1>2. /\ h.events = Position(D, r) - 1
      /\ h.retries = TotalRetries(UpTo(D, r)) - r.retries
      /\ h.same = Cardinality({s \in UpTo(D, r) : s.reason = r.reason}) - 1
      /\ h.gap = IF Position(D, r) = 1 THEN NoGap ELSE r.at - Previous(D, r).at
  BY DEF HistoryPandas, Previous
<1> HIDE DEF h
<1>3. CASE Position(D, r) = 1
  <2>1. UpTo(D, r) = {r}
    <3>1. PICK x : UpTo(D, r) = {x}
      BY <1>3, GroupTotals, FS_Singleton
    <3> QED
      BY <3>1, GroupTotals
  <2>2. TotalRetries({r} \ {r}) = 0
    <3>1. {r} \ {r} = {}
      OBVIOUS
    <3> QED
      BY <3>1, FS_EmptySet, TotalUnfolds
  <2>3. TotalRetries(UpTo(D, r)) = r.retries + 0 /\ r.retries \in Int
    BY <2>1, <2>2, GroupTotals DEF IsData
  <2>4. Cardinality({s \in UpTo(D, r) : s.reason = r.reason}) = 1
    <3>1. {s \in UpTo(D, r) : s.reason = r.reason} = {r}
      BY <2>1
    <3> QED
      BY <3>1, FS_Singleton
  <2>5. h.events = 0 /\ h.same = 0 /\ h.gap = NoGap
    BY <1>2, <1>3, <2>4
  <2>6. h.retries = 0
    BY <1>2, <2>3
  <2> QED
    BY <2>5, <2>6 DEF h
<1>4. CASE Position(D, r) # 1
  <2>1. Previous(D, r) \in D /\ Above(Previous(D, r), r)
    BY <1>4, PreviousIsAbove
  <2>2. Previous(D, r).at \in Nat /\ r.at \in Nat /\ Previous(D, r).at <= r.at
    BY <2>1 DEF IsData, Above
  <2>3. h.gap \in Nat
    BY <1>2, <1>4, <2>2
  <2>4. h.events # 0
    BY <1>1, <1>2, <1>4
  <2> QED
    BY <2>3, <2>4 DEF h
<1> QED
  BY <1>3, <1>4

SecondOf(D) == [r \in D |-> Sec(r)]

\* Seconds as values of a function.
LEMMA SecondsAreValues ==
  ASSUME NEW D, IsData(D)
  PROVE  SecondOf(D) \in [D -> Nat] /\ \A r \in D : SecondOf(D)[r] = Sec(r)
<1>1. ASSUME NEW r \in D  PROVE Sec(r) \in Nat
  <2>1. r.at \in Nat /\ Second \in Nat /\ Second # 0
    BY PipelineAssumption DEF IsData
  <2> QED
    BY <2>1 DEF Sec
<1> QED
  BY <1>1 DEF SecondOf

\* The second-granular cut-off is the second at the same rank.
LEMMA SecondCutoffs ==
  ASSUME NEW D, IsData(D), D # {}, NEW p \in {70, 85}
  PROVE  /\ SecondCutoff(D, p) \in Nat /\ \E r \in D : Sec(r) = SecondCutoff(D, p)
         /\ Below(D, SecondOf(D), SecondCutoff(D, p)) <= CutRank(D, p)
         /\ CutRank(D, p) < NotAbove(D, SecondOf(D), SecondCutoff(D, p))
<1> DEFINE f == SecondOf(D)
           T == {f[r] : r \in D}
           k == CutRank(D, p)
           C == {t \in {Sec(r) : r \in D} : Cardinality({r \in D : Sec(r) <= t}) >= k + 1}
<1>1. f \in [D -> Nat] /\ \A r \in D : f[r] = Sec(r)
  BY SecondsAreValues
<1>2. k \in Nat /\ k < Cardinality(D) /\ IsFiniteSet(D)
  BY CutRanks DEF IsData
<1> HIDE DEF f, k
<1>3. T \subseteq Nat
  BY <1>1
<1>4. PICK t \in T : /\ Below(D, f, t) <= k /\ k < NotAbove(D, f, t)
                     /\ \A u \in T : k < NotAbove(D, f, u) => t <= u
  BY <1>1, <1>2, RankExists
<1>5. \A u \in T : NotAbove(D, f, u) \in Nat
  BY <1>1, <1>2, <1>3, CountsAreNumbers
<1>6. C = {u \in T : k < NotAbove(D, f, u)}
  <2>1. T = {Sec(r) : r \in D}
    BY <1>1
  <2>2. \A u \in T : {r \in D : Sec(r) <= u} = {r \in D : f[r] <= u}
    BY <1>1
  <2>3. \A u \in T : Cardinality({r \in D : Sec(r) <= u}) = NotAbove(D, f, u)
    BY <2>2 DEF NotAbove
  <2>4. \A u \in T : Cardinality({r \in D : Sec(r) <= u}) >= k + 1 <=> k < NotAbove(D, f, u)
    BY <1>2, <1>5, <2>3
  <2> HIDE DEF T
  <2> QED
    BY <2>1, <2>4
<1>7. Min(C) = t
  <2>1. t \in C /\ \A u \in C : t <= u
    BY <1>4, <1>6
  <2>2. C \subseteq Nat
    BY <1>3, <1>6
  <2> HIDE DEF C
  <2>3. Min(C) \in C /\ \A y \in C : Min(C) =< y
    BY <2>1 DEF Min
  <2>4. Min(C) <= t /\ t <= Min(C) /\ Min(C) \in Nat /\ t \in Nat
    BY <2>1, <2>2, <2>3
  <2> QED
    BY <2>4
<1>8. SecondCutoff(D, p) = t
  BY <1>7 DEF SecondCutoff, CutRank, k
<1>9. \E r \in D : Sec(r) = t
  BY <1>1
<1> QED
  BY <1>3, <1>4, <1>8, <1>9 DEF f, k

\* The share of the rows before a cut-off at a rank.
LEMMA ShareIsBounded ==
  ASSUME NEW D, IsFiniteSet(D), D # {}, NEW f \in [D -> Nat], NEW t \in Nat, NEW p \in {70, 85},
         Below(D, f, t) <= CutRank(D, p)
  PROVE  Below(D, f, t) * 100 <= p * Cardinality(D)
<1>1. CutRank(D, p) \in Nat /\ 100 * CutRank(D, p) <= p * Cardinality(D)
  BY CutRanks
<1>2. Below(D, f, t) \in Nat /\ Cardinality(D) \in Nat
  BY CountsAreNumbers, FS_CardinalityType
<1>3. p * Cardinality(D) \in Nat
  BY <1>2
<1> QED
  BY <1>1, <1>2, <1>3

\* What the three shares and orders come from, for a nonempty file.
LEMMA PandasSplits ==
  ASSUME NEW D, IsData(D), D # {}
  PROVE  /\ \A r \in D : /\ SplitPandas(D, r) = "train" <=> r.at < Cutoff(D, 70)
                         /\ SplitPandas(D, r) # "test" <=> r.at < Cutoff(D, 85)
                         /\ SplitPandas(D, r) \in {"train", "validation", "test"}
         /\ Cardinality({r \in D : SplitPandas(D, r) \in {"train"}}) * 100 <= 70 * Cardinality(D)
         /\ Cardinality({r \in D : SplitPandas(D, r) \in {"train", "validation"}}) * 100
              <= 85 * Cardinality(D)
<1>1. /\ Cutoff(D, 70) \in Nat /\ Cutoff(D, 85) \in Nat /\ Cutoff(D, 70) <= Cutoff(D, 85)
      /\ Earlier(D, Cutoff(D, 70)) <= CutRank(D, 70)
      /\ Earlier(D, Cutoff(D, 85)) <= CutRank(D, 85)
  BY Cutoffs
<1>2. ASSUME NEW r \in D
      PROVE  /\ SplitPandas(D, r) = "train" <=> r.at < Cutoff(D, 70)
             /\ SplitPandas(D, r) # "test" <=> r.at < Cutoff(D, 85)
             /\ SplitPandas(D, r) \in {"train", "validation", "test"}
  <2>1. r.at \in Nat
    BY DEF IsData
  <2> QED
    BY <1>1, <2>1 DEF SplitPandas
<1>3. /\ {r \in D : SplitPandas(D, r) \in {"train"}} = {r \in D : r.at < Cutoff(D, 70)}
      /\ {r \in D : SplitPandas(D, r) \in {"train", "validation"}}
           = {r \in D : r.at < Cutoff(D, 85)}
  BY <1>2
<1>4. /\ Cardinality({r \in D : SplitPandas(D, r) \in {"train"}}) = Earlier(D, Cutoff(D, 70))
      /\ Cardinality({r \in D : SplitPandas(D, r) \in {"train", "validation"}})
           = Earlier(D, Cutoff(D, 85))
  BY <1>3 DEF Earlier
<1>5. /\ Earlier(D, Cutoff(D, 70)) * 100 <= 70 * Cardinality(D)
      /\ Earlier(D, Cutoff(D, 85)) * 100 <= 85 * Cardinality(D)
  BY <1>1, ShareIsBounded, TimesAreValues
<1> QED
  BY <1>2, <1>4, <1>5

\* The same for the split by seconds.
LEMMA SparkSplits ==
  ASSUME NEW D, IsData(D), D # {}
  PROVE  /\ \A r \in D : /\ SplitSpark(D, r) = "train" <=> Sec(r) < SecondCutoff(D, 70)
                         /\ SplitSpark(D, r) \in {"train", "validation"} <=>
                              Sec(r) < SecondCutoff(D, 70) \/ Sec(r) < SecondCutoff(D, 85)
         /\ SecondCutoff(D, 70) <= SecondCutoff(D, 85)
         /\ Cardinality({r \in D : SplitSpark(D, r) \in {"train"}}) * 100 <= 70 * Cardinality(D)
         /\ Cardinality({r \in D : SplitSpark(D, r) \in {"train", "validation"}}) * 100
              <= 85 * Cardinality(D)
<1> DEFINE f == SecondOf(D)
           a == SecondCutoff(D, 70)
           b == SecondCutoff(D, 85)
<1>1. f \in [D -> Nat] /\ IsFiniteSet(D) /\ \A r \in D : f[r] = Sec(r) /\ Sec(r) \in Nat
  <2>1. f \in [D -> Nat] /\ \A r \in D : f[r] = Sec(r)
    BY SecondsAreValues
  <2> HIDE DEF f
  <2> QED
    BY <2>1 DEF IsData
<1>2. /\ a \in Nat /\ Below(D, f, a) <= CutRank(D, 70) /\ CutRank(D, 70) < NotAbove(D, f, a)
      /\ b \in Nat /\ Below(D, f, b) <= CutRank(D, 85) /\ CutRank(D, 85) < NotAbove(D, f, b)
  BY SecondCutoffs
<1> HIDE DEF f, a, b
<1>3. a <= b
  <2>1. /\ CutRank(D, 70) \in Nat /\ CutRank(D, 85) \in Nat /\ CutRank(D, 70) <= CutRank(D, 85)
    BY CutRanks DEF IsData
  <2> QED
    BY <1>1, <1>2, <2>1, RanksAscend
<1>4. ASSUME NEW r \in D
      PROVE  /\ SplitSpark(D, r) = "train" <=> Sec(r) < a
             /\ SplitSpark(D, r) \in {"train", "validation"} <=> Sec(r) < a \/ Sec(r) < b
             /\ SplitSpark(D, r) \in {"train", "validation"} <=> Sec(r) < b
  <2>1. /\ SplitSpark(D, r) = "train" <=> Sec(r) < a
        /\ SplitSpark(D, r) \in {"train", "validation"} <=> Sec(r) < a \/ Sec(r) < b
    BY DEF SplitSpark, a, b
  <2>2. Sec(r) < a => Sec(r) < b
    BY <1>1, <1>2, <1>3
  <2> QED
    BY <2>1, <2>2
<1>5. /\ {r \in D : SplitSpark(D, r) \in {"train"}} = {r \in D : f[r] < a}
      /\ {r \in D : SplitSpark(D, r) \in {"train", "validation"}} = {r \in D : f[r] < b}
  BY <1>1, <1>4
<1>6. /\ Cardinality({r \in D : SplitSpark(D, r) \in {"train"}}) = Below(D, f, a)
      /\ Cardinality({r \in D : SplitSpark(D, r) \in {"train", "validation"}}) = Below(D, f, b)
  BY <1>5 DEF Below
<1>7. Below(D, f, a) * 100 <= 70 * Cardinality(D) /\ Below(D, f, b) * 100 <= 85 * Cardinality(D)
  BY <1>1, <1>2, ShareIsBounded
<1> QED
  BY <1>3, <1>4, <1>6, <1>7 DEF a, b

\* The first and the last time of some rows.
LEMMA TimesOfSome ==
  ASSUME NEW D, IsData(D), NEW S, S \subseteq D, S # {}
  PROVE  /\ \A r \in S : r.at <= Max(Times(S)) /\ Min(Times(S)) <= r.at /\ r.at \in Nat
         /\ \E r \in S : r.at = Max(Times(S))
         /\ \E r \in S : r.at = Min(Times(S))
         /\ Max(Times(S)) \in Nat /\ Min(Times(S)) \in Nat
<1>1. IsFiniteSet(S) /\ \A r \in S : r.at \in Nat
  BY FS_Subset DEF IsData
<1>2. IsFiniteSet({TimeOf(S)[r] : r \in S})
  BY <1>1, FiniteImage
<1>3. Times(S) = {TimeOf(S)[r] : r \in S}
  BY DEF Times, TimeOf
<1>4. Times(S) \in SUBSET Nat /\ Times(S) # {} /\ IsFiniteSet(Times(S))
  <2>1. Times(S) \in SUBSET Nat /\ Times(S) # {}
    BY <1>1 DEF Times
  <2> QED
    BY <2>1, <1>2, <1>3
<1>5. /\ Max(Times(S)) \in Times(S) /\ \A m \in Times(S) : m <= Max(Times(S))
      /\ Min(Times(S)) \in Times(S) /\ \A m \in Times(S) : Min(Times(S)) <= m
  BY <1>4, MaxMin
<1>6. \A r \in S : r.at \in Times(S)
  BY DEF Times
<1>7. (\E r \in S : r.at = Max(Times(S))) /\ (\E r \in S : r.at = Min(Times(S)))
  <2>1. \A m \in Times(S) : \E r \in S : r.at = m
    BY DEF Times
  <2> QED
    BY <1>5, <2>1
<1> QED
  BY <1>1, <1>4, <1>5, <1>6, <1>7

\* Two parts of the rows do not overlap when nothing of the first is later than anything of
\* the second, and only then.
LEMMA NoOverlap ==
  ASSUME NEW D, IsData(D), NEW S, S \subseteq D, NEW T, T \subseteq D
  PROVE  ~Overlaps(S, T) <=> \A r \in S, s \in T : r.at <= s.at
<1>1. CASE S = {} \/ T = {}
  BY <1>1 DEF Overlaps
<1>2. CASE S # {} /\ T # {}
  <2>1. /\ \A r \in S : r.at <= Max(Times(S)) /\ r.at \in Nat
        /\ \A s \in T : Min(Times(T)) <= s.at /\ s.at \in Nat
        /\ Max(Times(S)) \in Nat /\ Min(Times(T)) \in Nat
    BY <1>2, TimesOfSome
  <2>2. (\E r \in S : r.at = Max(Times(S))) /\ (\E s \in T : s.at = Min(Times(T)))
    BY <1>2, TimesOfSome
  <2>3. ASSUME Max(Times(S)) <= Min(Times(T)), NEW r \in S, NEW s \in T  PROVE r.at <= s.at
    BY <2>1, <2>3
  <2>4. ASSUME \A r \in S, s \in T : r.at <= s.at  PROVE Max(Times(S)) <= Min(Times(T))
    BY <2>2, <2>4
  <2>5. Overlaps(S, T) <=> ~(Max(Times(S)) <= Min(Times(T)))
    BY <1>2, <2>1 DEF Overlaps
  <2> QED
    BY <2>3, <2>4, <2>5
<1> QED
  BY <1>1, <1>2

\* The pipelines' splits go forward and pass the audit.
LEMMA SplitHolds == PipelineInv => SplitGoesForward
<1> SUFFICES ASSUME PipelineInv  PROVE SplitGoesForward
  OBVIOUS
<1>1. IsData(rows) /\ IsFiniteSet(rows)
  BY ValidIsData DEF PipelineInv
<1> DEFINE split == [r \in rows |-> SplitPandas(rows, r)]
<1>2. ASSUME rows # {}, NEW r \in rows, NEW s \in rows
      PROVE  /\ SplitPandas(rows, r) = "train" /\ SplitPandas(rows, s) # "train" => r.at < s.at
             /\ SplitPandas(rows, r) # "test" /\ SplitPandas(rows, s) = "test" => r.at < s.at
  <2>1. /\ SplitPandas(rows, r) = "train" <=> r.at < Cutoff(rows, 70)
        /\ SplitPandas(rows, r) # "test" <=> r.at < Cutoff(rows, 85)
        /\ SplitPandas(rows, s) = "train" <=> s.at < Cutoff(rows, 70)
        /\ SplitPandas(rows, s) # "test" <=> s.at < Cutoff(rows, 85)
    BY <1>1, PandasSplits
  <2>2. r.at \in Nat /\ s.at \in Nat /\ Cutoff(rows, 70) \in Nat /\ Cutoff(rows, 85) \in Nat
    BY <1>1, Cutoffs DEF IsData
  <2> QED
    BY <2>1, <2>2
<1>3. PassesAudit(rows, split)
  <2>1. ASSUME NEW a \in {"train", "validation", "test"}
        PROVE  In(rows, split, a) = {r \in rows : SplitPandas(rows, r) = a}
    BY DEF In
  <2>2. ASSUME NEW r \in In(rows, split, "train"), NEW s \in In(rows, split, "validation")
        PROVE  r.at <= s.at
    <3>1. /\ r \in rows /\ SplitPandas(rows, r) = "train"
          /\ s \in rows /\ SplitPandas(rows, s) # "train"
      BY <2>1
    <3>2. r.at < s.at /\ r.at \in Nat /\ s.at \in Nat
      BY <1>1, <1>2, <3>1 DEF IsData
    <3> QED
      BY <3>2
  <2>3. ASSUME NEW r \in In(rows, split, "validation"), NEW s \in In(rows, split, "test")
        PROVE  r.at <= s.at
    <3>1. /\ r \in rows /\ SplitPandas(rows, r) # "test"
          /\ s \in rows /\ SplitPandas(rows, s) = "test"
      BY <2>1
    <3>2. r.at < s.at /\ r.at \in Nat /\ s.at \in Nat
      BY <1>1, <1>2, <3>1 DEF IsData
    <3> QED
      BY <3>2
  <2>4. \A a : In(rows, split, a) \subseteq rows
    BY DEF In
  <2> HIDE DEF split
  <2> QED
    BY <1>1, <2>2, <2>3, <2>4, NoOverlap DEF PassesAudit
<1>4. /\ Cardinality({r \in rows : SplitPandas(rows, r) \in {"train"}}) * 100
           <= 70 * Cardinality(rows)
      /\ Cardinality({r \in rows : SplitPandas(rows, r) \in {"train", "validation"}}) * 100
           <= 85 * Cardinality(rows)
      /\ Cardinality({r \in rows : SplitSpark(rows, r) \in {"train"}}) * 100
           <= 70 * Cardinality(rows)
      /\ Cardinality({r \in rows : SplitSpark(rows, r) \in {"train", "validation"}}) * 100
           <= 85 * Cardinality(rows)
  <2>1. CASE rows = {}
    <3>1. /\ {r \in rows : SplitPandas(rows, r) \in {"train"}} = {}
          /\ {r \in rows : SplitPandas(rows, r) \in {"train", "validation"}} = {}
          /\ {r \in rows : SplitSpark(rows, r) \in {"train"}} = {}
          /\ {r \in rows : SplitSpark(rows, r) \in {"train", "validation"}} = {}
      BY <2>1
    <3>2. Cardinality({}) = 0 /\ Cardinality(rows) = 0
      BY <2>1, FS_EmptySet
    <3>3. Cardinality({}) * 100 <= 70 * Cardinality(rows)
          /\ Cardinality({}) * 100 <= 85 * Cardinality(rows)
      BY <3>2
    <3> QED
      BY <3>1, <3>3
  <2>2. CASE rows # {}
    BY <1>1, <2>2, PandasSplits, SparkSplits
  <2> QED
    BY <2>1, <2>2
<1> QED
  BY <1>2, <1>3, <1>4 DEF SplitGoesForward

\* A row of the validation split stands between any two the audit does not compare.
LEMMA AuditHolds == PipelineInv => AuditKeepsTheFutureOut
<1> SUFFICES ASSUME PipelineInv, NEW split \in [rows -> {"train", "validation", "test"}],
                    PassesAudit(rows, split), In(rows, split, "validation") # {},
                    NEW r \in In(rows, split, "train"), NEW s \in In(rows, split, "test")
             PROVE  r.at <= s.at
  BY DEF AuditKeepsTheFutureOut
<1>1. IsData(rows) /\ \A a : In(rows, split, a) \subseteq rows
  BY ValidIsData DEF In
<1>2. PICK v \in In(rows, split, "validation") : TRUE
  OBVIOUS
<1>3. r.at <= v.at /\ v.at <= s.at
  BY <1>1, NoOverlap DEF PassesAudit
<1>4. r.at \in Nat /\ v.at \in Nat /\ s.at \in Nat
  BY <1>1 DEF IsData
<1> QED
  BY <1>3, <1>4

\* A row's history is computed from what is above it.
LEMMA HistoryOfGroup ==
  ASSUME NEW D, IsData(D), NEW E, IsData(E), NEW r \in D, r \in E,
         {s \in D : Above(s, r)} = {s \in E : Above(s, r)}
  PROVE  HistoryPandas(D, r) = HistoryPandas(E, r)
<1>1. UpTo(D, r) = UpTo(E, r)
  BY GroupIsAbove
<1>2. Position(D, r) = Position(E, r)
  BY PositionIsCount
<1>3. ASSUME NEW s \in UpTo(D, r)  PROVE s \in E /\ Position(D, s) = Position(E, s)
  <2>1. s \in D /\ s \in E /\ Above(s, r)
    BY <1>1, GroupIsAbove
  <2>2. {q \in D : Above(q, s)} = {q \in E : Above(q, s)}
    <3>1. \A q \in D : Above(q, s) => Above(q, r)
      BY <2>1, AboveIsTotal
    <3>2. \A q \in E : Above(q, s) => Above(q, r)
      BY <2>1, AboveIsTotal
    <3> QED
      BY <3>1, <3>2
  <2> QED
    BY <2>1, <2>2, PositionIsCount
<1>4. ASSUME Position(D, r) # 1  PROVE Previous(D, r) = Previous(E, r)
  <2>1. Previous(D, r) \in UpTo(D, r) /\ Position(D, Previous(D, r)) = Position(D, r) - 1
    BY <1>4, PreviousIsAbove, GroupIsAbove
  <2>2. Position(E, Previous(D, r)) = Position(E, r) - 1
    BY <1>2, <1>3, <2>1
  <2> QED
    BY <1>1, <1>2, <1>4, <2>1, <2>2, PreviousIsAbove
<1>5. ASSUME NEW F \in {D, E}
      PROVE  HistoryPandas(F, r) =
               [events  |-> Position(F, r) - 1,
                retries |-> TotalRetries(UpTo(F, r)) - r.retries,
                same    |-> Cardinality({s \in UpTo(F, r) : s.reason = r.reason}) - 1,
                gap     |-> IF Position(F, r) = 1 THEN NoGap ELSE r.at - Previous(F, r).at]
  BY DEF HistoryPandas, Previous
<1>6. (IF Position(D, r) = 1 THEN NoGap ELSE r.at - Previous(D, r).at)
        = (IF Position(E, r) = 1 THEN NoGap ELSE r.at - Previous(E, r).at)
  BY <1>2, <1>4
<1> QED
  BY <1>1, <1>2, <1>5, <1>6

\* Loading a row changes the history of those it stands above, and no other.
LEMMA LaterRowsDoNotCount ==
  ASSUME PipelineInv, PipelineInv', [AddRow]_rows, NEW r \in rows,
         HistoryPandas(rows', r) # HistoryPandas(rows, r)
  PROVE  \E new \in rows' \ rows :
           new.cust = r.cust /\ (new.at < r.at \/ (new.at = r.at /\ new.id < r.id))
<1>1. CASE UNCHANGED rows
  BY <1>1
<1>2. CASE AddRow
  <2>1. PICK id \in Ids, e \in Events :
          (\A s \in rows : s.id # id) /\ rows' = rows \union {Row(id, e)}
    BY <1>2 DEF AddRow
  <2> DEFINE new == Row(id, e)
  <2>2. new.id = id
    BY RowFields
  <2> HIDE DEF new
  <2>3. rows' = rows \union {new} /\ new \notin rows /\ new.id # r.id /\ r \in rows'
    BY <2>1, <2>2 DEF new
  <2>4. IsData(rows)
    BY ValidIsData
  <2>5. IsData(rows')
    <3>1. PipelineInv' => IsData(rows)'
      BY ValidIsData, PTL
    <3> QED
      BY <3>1 DEF IsData
  <2>6. CASE Above(new, r)
    <3>1. new.id \in Nat /\ r.id \in Nat /\ new.id # r.id
      BY <2>3, <2>5 DEF IsData
    <3>2. new.cust = r.cust /\ (new.at < r.at \/ (new.at = r.at /\ new.id < r.id))
      BY <2>6, <3>1 DEF Above
    <3> QED
      BY <2>3, <3>2
  <2>7. CASE ~Above(new, r)
    <3>1. {s \in rows : Above(s, r)} = {s \in rows' : Above(s, r)}
      BY <2>3, <2>7
    <3>2. HistoryPandas(rows', r) = HistoryPandas(rows, r)
      BY <2>3, <2>4, <2>5, <3>1, HistoryOfGroup
    <3> QED
      BY <3>2
  <2> QED
    BY <2>6, <2>7
<1> QED
  BY <1>1, <1>2

-----------------------------------------------------------------------------
(* The notebooks' frame.                                                    *)

\* s is r or stands above it in the frame.
InFrame(order, s, r) == order[s.cust] < order[r.cust] \/ Above(s, r)

\* Different customers have different places in an order.
LEMMA OrderOfCustomers ==
  ASSUME NEW order \in Orders, NEW r \in rows, NEW s \in rows
  PROVE  /\ order[r.cust] \in Int /\ order[s.cust] \in Int
         /\ order[r.cust] = order[s.cust] <=> r.cust = s.cust
<1>1. r.cust \in Customers /\ s.cust \in Customers
  BY DEF Customers
<1>2. /\ order \in [Customers -> 1 .. Cardinality(Customers)]
      /\ \A c, d \in Customers : c # d => order[c] # order[d]
  BY DEF Orders
<1>3. \A n \in 1 .. Cardinality(Customers) : n \in Int
  OBVIOUS
<1> QED
  BY <1>1, <1>2, <1>3

\* The frame is totally ordered.
LEMMA FrameIsTotal ==
  ASSUME IsData(rows), NEW order \in Orders
  PROVE  /\ \A r \in rows : InFrame(order, r, r)
         /\ \A r, s, q \in rows :
              InFrame(order, s, r) /\ InFrame(order, q, s) => InFrame(order, q, r)
         /\ \A r, s \in rows : ~InFrame(order, s, r) => InFrame(order, r, s) /\ r # s
         /\ \A r, s \in rows : InFrame(order, s, r) /\ InFrame(order, r, s) => r = s
<1>1. \A r, s \in rows : /\ order[r.cust] \in Int /\ order[s.cust] \in Int
                         /\ order[r.cust] = order[s.cust] <=> r.cust = s.cust
  BY OrderOfCustomers
<1>2. \A r, s \in rows : Above(s, r) => s.cust = r.cust
  BY DEF Above
<1>3. /\ \A r \in rows : Above(r, r)
      /\ \A r, s, q \in rows : Above(s, r) /\ Above(q, s) => Above(q, r)
      /\ \A r, s \in rows : s.cust = r.cust /\ ~Above(s, r) => Above(r, s) /\ r # s
      /\ \A r, s \in rows : Above(s, r) /\ Above(r, s) => r = s
  BY AboveIsTotal
<1>4. \A r \in rows : InFrame(order, r, r)
  BY <1>3 DEF InFrame
<1>5. ASSUME NEW r \in rows, NEW s \in rows, NEW q \in rows,
             InFrame(order, s, r), InFrame(order, q, s)
      PROVE  InFrame(order, q, r)
  <2>1. CASE Above(s, r) /\ Above(q, s)
    BY <2>1, <1>3 DEF InFrame
  <2>2. CASE ~(Above(s, r) /\ Above(q, s))
    <3>1. order[q.cust] < order[r.cust]
      BY <1>1, <1>2, <1>5, <2>2 DEF InFrame
    <3> QED
      BY <3>1 DEF InFrame
  <2> QED
    BY <2>1, <2>2
<1>6. ASSUME NEW r \in rows, NEW s \in rows, ~InFrame(order, s, r)
      PROVE  InFrame(order, r, s) /\ r # s
  BY <1>1, <1>3, <1>6 DEF InFrame
<1>7. ASSUME NEW r \in rows, NEW s \in rows, InFrame(order, s, r), InFrame(order, r, s)
      PROVE  r = s
  BY <1>1, <1>2, <1>3, <1>7 DEF InFrame
<1> QED
  BY <1>4, <1>5, <1>6, <1>7

\* The rows of the customers that come earlier are as many for all rows of a customer.
LEMMA IndexIsCount ==
  ASSUME IsData(rows), NEW order \in Orders, NEW r \in rows
  PROVE  /\ Index(rows, order, r) = Cardinality({s \in rows : InFrame(order, s, r)})
         /\ IsFiniteSet({s \in rows : InFrame(order, s, r)})
         /\ Index(rows, order, r) \in Nat
         /\ \A s \in rows : s.cust = r.cust =>
              Index(rows, order, r) - Position(rows, r) = Index(rows, order, s) - Position(rows, s)
<1> DEFINE E(x) == {s \in rows : order[s.cust] < order[x.cust]}
           P == {s \in rows : Above(s, r)}
           F == {s \in rows : InFrame(order, s, r)}
<1>1. IsFiniteSet(F) /\ IsFiniteSet(P) /\ \A x \in rows : IsFiniteSet(E(x))
  BY FS_Subset DEF IsData
<1>2. F = E(r) \union P
  BY DEF InFrame
<1>3. E(r) \cap P = {}
  <2>1. ASSUME NEW s \in E(r), s \in P  PROVE FALSE
    <3>1. s \in rows /\ order[s.cust] < order[r.cust] /\ s.cust = r.cust
      BY <2>1 DEF Above
    <3>2. order[r.cust] \in Int /\ order[s.cust] = order[r.cust]
      BY <3>1, OrderOfCustomers
    <3> QED
      BY <3>1, <3>2
  <2> QED
    BY <2>1
<1>4. \A x \in rows : /\ Index(rows, order, x) = Cardinality(E(x)) + Position(rows, x)
                      /\ Cardinality(E(x)) \in Nat /\ Position(rows, x) \in Nat
  BY <1>1, FS_CardinalityType, PositionIsCount DEF Index
<1>5. Position(rows, r) = Cardinality(P)
  BY PositionIsCount
<1>6. \A s \in rows : s.cust = r.cust => E(s) = E(r)
  OBVIOUS
<1> HIDE DEF E, P, F
<1>7. Cardinality(F) = Cardinality(E(r)) + Cardinality(P) - Cardinality({})
  BY <1>1, <1>2, <1>3, FS_Union
<1>8. Cardinality(F) = Cardinality(E(r)) + Cardinality(P)
  BY <1>4, <1>5, <1>7, FS_EmptySet
<1>9. ASSUME NEW s \in rows, s.cust = r.cust
      PROVE  Index(rows, order, r) - Position(rows, r) = Index(rows, order, s) - Position(rows, s)
  <2>1. E(s) = E(r)
    BY <1>6, <1>9
  <2> QED
    BY <1>4, <2>1
<1> QED
  BY <1>1, <1>4, <1>5, <1>8, <1>9 DEF F

\* Indices follow the order of the frame.
LEMMA IndexOrders ==
  ASSUME IsData(rows), NEW order \in Orders, NEW r \in rows, NEW s \in rows
  PROVE  /\ Index(rows, order, s) <= Index(rows, order, r) <=> InFrame(order, s, r)
         /\ Index(rows, order, s) = Index(rows, order, r) => s = r
<1> DEFINE F(x) == {q \in rows : InFrame(order, q, x)}
<1>1. \A x \in rows : /\ Index(rows, order, x) = Cardinality(F(x)) /\ IsFiniteSet(F(x))
                      /\ Cardinality(F(x)) \in Nat
  BY IndexIsCount
<1>2. ASSUME NEW x \in rows, NEW y \in rows, InFrame(order, x, y)
      PROVE  Cardinality(F(x)) <= Cardinality(F(y))
  <2>1. F(x) \subseteq F(y)
    BY <1>2, FrameIsTotal
  <2> HIDE DEF F
  <2> QED
    BY <1>1, <2>1, FS_Subset
<1>3. ASSUME NEW x \in rows, NEW y \in rows, InFrame(order, x, y), x # y
      PROVE  Cardinality(F(x)) < Cardinality(F(y))
  <2>1. F(x) \subseteq F(y) /\ y \in F(y) /\ y \notin F(x)
    BY <1>3, FrameIsTotal
  <2>2. Cardinality(F(x)) <= Cardinality(F(y)) /\ Cardinality(F(x)) # Cardinality(F(y))
    <3> HIDE DEF F
    <3> QED
      BY <1>1, <2>1, FS_Subset
  <2> HIDE DEF F
  <2> QED
    BY <1>1, <2>2
<1>4. InFrame(order, s, r) \/ (InFrame(order, r, s) /\ r # s)
  BY FrameIsTotal
<1> HIDE DEF F
<1> QED
  BY <1>1, <1>2, <1>3, <1>4

\* A row is found by its index.
LEMMA RowAtItsIndex ==
  ASSUME IsData(rows), NEW order \in Orders, NEW r \in rows
  PROVE  At(rows, order, Index(rows, order, r)) = r
<1>1. \A s \in rows : Index(rows, order, s) = Index(rows, order, r) => s = r
  BY IndexOrders
<1> QED
  BY <1>1 DEF At

\* The row so many places above a row in its group is as many above it in the frame.
LEMMA RowsAbove ==
  ASSUME IsData(rows), NEW order \in Orders, NEW r \in rows,
         NEW s \in rows, s.cust = r.cust, NEW lag \in Nat,
         Position(rows, s) = Position(rows, r) - lag
  PROVE  At(rows, order, Index(rows, order, r) - lag) = s
<1>1. /\ Index(rows, order, r) - Position(rows, r) = Index(rows, order, s) - Position(rows, s)
      /\ Index(rows, order, r) \in Nat /\ Index(rows, order, s) \in Nat
      /\ Position(rows, r) \in Nat /\ Position(rows, s) \in Nat
  BY IndexIsCount, PositionIsCount
<1>2. Index(rows, order, s) = Index(rows, order, r) - lag
  BY <1>1
<1> QED
  BY <1>2, RowAtItsIndex

\* The sequence of a row: the latest rows of its group.
LEMMA SequenceIsRecent ==
  ASSUME IsData(rows), NEW order \in Orders, NEW r \in rows, NEW s \in rows
  PROVE  s \in SequenceOf(rows, order, r) <=>
           s \in UpTo(rows, r) /\ Position(rows, r) - Position(rows, s) < MaxLen
<1> DEFINE P(x) == Position(rows, x)
<1>1. \A x \in rows : P(x) \in Nat \ {0}
  BY PositionIsCount
<1>2. MaxLen \in Nat \ {0}
  BY PipelineAssumption
<1>3. ASSUME NEW lag \in 0 .. MaxLen - 1, P(r) - 1 >= lag,
             s = At(rows, order, Index(rows, order, r) - lag)
      PROVE  s \in UpTo(rows, r) /\ P(r) - P(s) < MaxLen
  <2>1. P(r) - lag \in 1 .. P(r) /\ lag \in Nat
    BY <1>1, <1>3
  <2>2. PICK q \in UpTo(rows, r) : q \in rows /\ P(q) = P(r) - lag
    BY <2>1, PlacesAreTaken
  <2>3. q.cust = r.cust
    BY <2>2 DEF UpTo
  <2>4. q = s
    BY <1>3, <2>1, <2>2, <2>3, RowsAbove
  <2> HIDE DEF P
  <2>5. P(r) - P(s) = lag
    BY <1>1, <2>1, <2>2, <2>4
  <2> QED
    BY <1>2, <1>3, <2>2, <2>4, <2>5
<1>4. ASSUME s \in UpTo(rows, r), P(r) - P(s) < MaxLen
      PROVE  \E lag \in 0 .. MaxLen - 1 :
               P(r) - 1 >= lag /\ s = At(rows, order, Index(rows, order, r) - lag)
  <2>1. s.cust = r.cust /\ P(s) <= P(r)
    BY <1>4 DEF UpTo
  <2> DEFINE lag == P(r) - P(s)
  <2>2. lag \in 0 .. MaxLen - 1 /\ P(r) - 1 >= lag /\ lag \in Nat /\ P(s) = P(r) - lag
    <3> HIDE DEF P
    <3> QED
      BY <1>1, <1>2, <1>4, <2>1
  <2> HIDE DEF lag
  <2>3. s = At(rows, order, Index(rows, order, r) - lag)
    BY <2>1, <2>2, RowsAbove
  <2> QED
    BY <2>2, <2>3
<1>5. s \in SequenceOf(rows, order, r) <=>
        \E lag \in 0 .. MaxLen - 1 :
          P(r) - 1 >= lag /\ s = At(rows, order, Index(rows, order, r) - lag)
  BY DEF SequenceOf
<1> QED
  BY <1>3, <1>4, <1>5

\* A part of a distance, in hundredths.
LEMMA PartOf ==
  ASSUME NEW m \in Nat, m < 100, NEW x \in Nat
  PROVE  m * x \in Nat /\ m * x <= 100 * x /\ (m # 0 /\ x # 0 => m * x # 0)
<1>1. \A i, j \in Nat : i * j \in Nat /\ (i # 0 /\ j # 0 => i * j # 0)
  OBVIOUS
<1>2. 100 - m \in Nat
  OBVIOUS
<1>3. (100 - m) * x = 100 * x - m * x
  OBVIOUS
<1>4. (100 - m) * x \in Nat /\ m * x \in Nat
  BY <1>1, <1>2
<1> QED
  BY <1>1, <1>3, <1>4

\* The two ranks a quantile lies between, and the rank of the pipeline's cut-off.
LEMMA QuantileRanks ==
  ASSUME NEW n \in Nat \ {0}, NEW p \in {70, 85}
  PROVE  LET h == p * (n - 1)
             k == (p * n) \div 100
         IN  /\ h \div 100 \in Nat /\ h % 100 \in Nat /\ h % 100 < 100 /\ h \div 100 < n
             /\ h % 100 # 0 => h \div 100 + 1 < n
             /\ k = h \div 100 \/ (k = h \div 100 + 1 /\ h % 100 # 0)
<1>1. CASE p = 70
  BY <1>1
<1>2. CASE p = 85
  BY <1>2
<1> QED
  BY <1>1, <1>2

\* The quantile by which the notebook splits lies by the pipeline's cut-off.
LEMMA QuantileNearCutoff ==
  ASSUME NEW D, IsData(D), D # {}, NEW p \in {70, 85}
  PROVE  /\ Quantile(D, p) \in Int
         /\ \A r \in D : r.at < Cutoff(D, p) => 100 * r.at < Quantile(D, p)
         /\ \A r \in D : 100 * r.at < Quantile(D, p) => r.at <= Cutoff(D, p)
<1> DEFINE n == Cardinality(D)
           i == (p * (n - 1)) \div 100
           m == (p * (n - 1)) % 100
           low == Ranked(D, i)
           high == IF m = 0 THEN low ELSE Ranked(D, i + 1)
           c == Cutoff(D, p)
           q == Quantile(D, p)
<1>1. n \in Nat \ {0}
  BY FS_CardinalityType, FS_EmptySet DEF IsData
<1>2. /\ i \in Nat /\ m \in Nat /\ m < 100 /\ i < n /\ (m # 0 => i + 1 < n)
      /\ CutRank(D, p) = i \/ (CutRank(D, p) = i + 1 /\ m # 0)
  <2> HIDE DEF n
  <2> QED
    BY <1>1, QuantileRanks DEF CutRank, n
<1>3. q = 100 * low + m * (high - low)
  BY DEF Quantile
<1>4. c = low \/ (c = Ranked(D, i + 1) /\ m # 0)
  BY <1>2, CutoffIsRanked
<1>5. \A r \in D : r.at \in Nat /\ r.at \in Times(D)
  BY DEF IsData, Times
<1> HIDE DEF n, i, m, q, c
<1>6. low \in Nat
  BY <1>2, RankedIsThere DEF n
<1>7. CASE m = 0
  <2>1. high = low /\ c = low
    BY <1>4, <1>7
  <2> HIDE DEF low, high
  <2>2. q = 100 * low
    BY <1>3, <1>6, <1>7, <2>1
  <2> QED
    BY <1>5, <1>6, <2>1, <2>2 DEF q, c
<1>8. CASE m # 0
  <2>1. high = Ranked(D, i + 1)
    BY <1>8
  <2>2. i + 1 \in Nat /\ i + 1 < Cardinality(D) /\ i <= i + 1
    BY <1>2, <1>8 DEF n
  <2>3. high \in Nat /\ low <= high /\ \A t \in Times(D) : t < high => t <= low
    BY <1>2, <2>1, <2>2, RankedIsThere, RankedAscends
  <2>4. c = low \/ c = high
    BY <1>4, <2>1
  <2> HIDE DEF low, high
  <2> DEFINE x == high - low
             y == m * x
  <2>5. x \in Nat /\ high = low + x
    BY <1>6, <2>3
  <2> HIDE DEF x
  <2>6. y \in Nat /\ y <= 100 * x /\ (x # 0 => y # 0)
    BY <1>2, <1>8, <2>5, PartOf
  <2>7. q = 100 * low + y
    BY <1>3 DEF x
  <2> HIDE DEF y
  <2>8. ASSUME NEW r \in D, r.at < c  PROVE 100 * r.at < q
    <3>1. r.at \in Nat /\ r.at <= low /\ (r.at < low \/ x # 0)
      <4>1. r.at < high
        BY <1>5, <1>6, <2>3, <2>4, <2>8
      <4> QED
        BY <1>5, <1>6, <2>3, <2>5, <4>1
    <3> QED
      BY <3>1, <1>6, <2>6, <2>7
  <2>9. ASSUME NEW r \in D, 100 * r.at < q  PROVE r.at <= c
    <3>1. r.at \in Nat /\ r.at < high
      <4>1. q <= 100 * high
        BY <1>6, <2>5, <2>6, <2>7
      <4>2. q \in Int
        BY <1>6, <2>6, <2>7
      <4> QED
        BY <1>5, <2>3, <2>9, <4>1, <4>2
    <3>2. r.at <= low
      BY <1>5, <2>3, <3>1
    <3> QED
      BY <1>6, <2>3, <2>4, <3>1, <3>2
  <2>10. q \in Int
    BY <1>6, <2>6, <2>7
  <2> QED
    BY <2>8, <2>9, <2>10 DEF q, c
<1> QED
  BY <1>7, <1>8

\* Splits and sequences of the notebooks do not reach into the future.
LEMMA SequencesHold == PipelineInv => SequencesStayInThePast
<1> SUFFICES ASSUME PipelineInv, NEW r \in rows, NEW s \in rows
             PROVE  /\ SplitNotebook(rows, r) = "train" /\ SplitNotebook(rows, s) # "train"
                         => r.at < s.at
                    /\ SplitNotebook(rows, r) # "test" /\ SplitNotebook(rows, s) = "test"
                         => r.at < s.at
                    /\ \A order \in Orders :
                         LET later == {q \in UpTo(rows, r) : Position(rows, q) > Position(rows, s)}
                         IN  s \in SequenceOf(rows, order, r) <=>
                               s \in UpTo(rows, r) /\ Cardinality(later) < MaxLen
  BY DEF SequencesStayInThePast
<1>1. IsData(rows) /\ rows # {}
  BY ValidIsData
<1>2. /\ SplitNotebook(rows, r) = "train" /\ SplitNotebook(rows, s) # "train" => r.at < s.at
      /\ SplitNotebook(rows, r) # "test" /\ SplitNotebook(rows, s) = "test" => r.at < s.at
  <2> DEFINE a == Quantile(rows, 70)
             b == Quantile(rows, 85)
  <2>1. a \in Int /\ b \in Int /\ r.at \in Nat /\ s.at \in Nat
    BY <1>1, QuantileNearCutoff DEF IsData
  <2>2. \A q \in rows : /\ SplitNotebook(rows, q) = "train" <=> 100 * q.at < a
                        /\ SplitNotebook(rows, q) = "test" <=> ~(100 * q.at < a) /\ ~(100 * q.at < b)
    BY DEF SplitNotebook
  <2> HIDE DEF a, b
  <2> QED
    BY <2>1, <2>2
<1>3. ASSUME NEW order \in Orders
      PROVE  LET later == {q \in UpTo(rows, r) : Position(rows, q) > Position(rows, s)}
             IN  s \in SequenceOf(rows, order, r) <=>
                   s \in UpTo(rows, r) /\ Cardinality(later) < MaxLen
  <2> DEFINE G == UpTo(rows, r)
             H == UpTo(rows, s)
             later == {q \in G : Position(rows, q) > Position(rows, s)}
  <2>1. s \in SequenceOf(rows, order, r) <=>
          s \in G /\ Position(rows, r) - Position(rows, s) < MaxLen
    BY <1>1, SequenceIsRecent
  <2>2. ASSUME s \in G
        PROVE  Cardinality(later) = Position(rows, r) - Position(rows, s)
    <3>1. s.cust = r.cust /\ Position(rows, s) <= Position(rows, r)
      BY <2>2 DEF UpTo
    <3>2. \A q \in rows : Position(rows, q) \in Nat
      BY <1>1, PositionIsCount
    <3>3. later = G \ H /\ H = G \cap H
      BY <3>1, <3>2 DEF UpTo
    <3>4. /\ IsFiniteSet(G) /\ Cardinality(G) = Position(rows, r)
          /\ Cardinality(H) = Position(rows, s)
      BY <1>1, GroupTotals
    <3> HIDE DEF G, H, later
    <3>5. Cardinality(G \ H) = Cardinality(G) - Cardinality(G \cap H)
      BY <3>4, FS_Difference
    <3> QED
      BY <3>3, <3>4, <3>5
  <2> QED
    BY <2>1, <2>2
<1> QED
  BY <1>2, <1>3

\* Nothing a row is described or judged by happened after it, for any events, ids and
\* customers and files of any length (add_history_features, assign_chrono_split,
\* audit_features_and_splits, and the notebooks' split and sequences).
THEOREM NothingLooksAhead == PipelineSpec => NoLookAhead
<1>1. PipelineInv =>
        FirstEventHasNoHistory /\ SplitGoesForward /\ AuditKeepsTheFutureOut
          /\ SequencesStayInThePast
  <2>1. PipelineInv => FirstEventHasNoHistory
    <3> SUFFICES ASSUME PipelineInv  PROVE FirstEventHasNoHistory
      OBVIOUS
    <3>1. IsData(rows)
      BY ValidIsData
    <3> QED
      BY <3>1, FirstEvent DEF FirstEventHasNoHistory
  <2> QED
    BY <2>1, SplitHolds, AuditHolds, SequencesHold
<1>2. PipelineInv /\ PipelineInv' /\ [AddRow]_rows =>
        [\A r \in rows :
           HistoryPandas(rows', r) # HistoryPandas(rows, r) =>
             \E new \in rows' \ rows :
               new.cust = r.cust /\ (new.at < r.at \/ (new.at = r.at /\ new.id < r.id))]_rows
  BY LaterRowsDoNotCount
<1> QED
  BY <1>1, <1>2, PipelineInvariance, PTL
     DEF PipelineSpec, NoLookAhead, HistoryIgnoresTheFuture

-----------------------------------------------------------------------------
(* The implementations agree.                                               *)

\* A whole number of seconds is lost by no division.
LEMMA WholeSecond ==
  ASSUME NEW t \in Nat, t % Second = 0
  PROVE  t \div Second \in Nat /\ (t \div Second) * Second = t
<1>1. Second \in Nat \ {0}
  BY PipelineAssumption
<1>2. t = Second * (t \div Second) + (t % Second) /\ t \div Second \in Nat
  BY <1>1
<1> QED
  BY <1>1, <1>2

\* Multiplying by the ticks of a second keeps the order.
LEMMA SecondsOrder ==
  ASSUME NEW a \in Nat, NEW b \in Nat
  PROVE  /\ a * Second \in Nat /\ a < b <=> a * Second < b * Second
         /\ (b - a) * Second = b * Second - a * Second
<1>1. Second \in Nat \ {0}
  BY PipelineAssumption
<1>2. (b - a) * Second = b * Second - a * Second /\ a * Second \in Nat /\ b * Second \in Nat
  BY <1>1
<1>3. ASSUME NEW d \in Nat, d # 0  PROVE d * Second \in Nat /\ d * Second # 0
  BY <1>1, <1>3
<1>4. ASSUME a < b  PROVE a * Second < b * Second
  <2>1. b - a \in Nat /\ b - a # 0
    BY <1>4
  <2>2. (b - a) * Second \in Nat /\ (b - a) * Second # 0
    BY <1>3, <2>1
  <2> QED
    BY <1>2, <2>2
<1>5. ASSUME ~(a < b)  PROVE ~(a * Second < b * Second)
  <2>1. a - b \in Nat /\ (a - b) * Second = a * Second - b * Second
    BY <1>1, <1>5
  <2>2. (a - b) * Second \in Nat
    BY <1>1, <2>1
  <2> QED
    BY <1>2, <2>1, <2>2
<1> QED
  BY <1>2, <1>4, <1>5

\* Where times are whole seconds, seconds tell what times do.
LEMMA SecondsTellTimes ==
  ASSUME NEW D, IsData(D), \A r \in D : r.at % Second = 0
  PROVE  /\ \A r \in D : Sec(r) \in Nat /\ Sec(r) * Second = r.at
         /\ \A r, s \in D : /\ Sec(s) < Sec(r) <=> s.at < r.at
                            /\ Sec(s) = Sec(r) <=> s.at = r.at
<1>1. ASSUME NEW r \in D  PROVE Sec(r) \in Nat /\ Sec(r) * Second = r.at /\ r.at \in Nat
  <2>1. r.at \in Nat /\ r.at % Second = 0
    BY DEF IsData
  <2> QED
    BY <2>1, WholeSecond DEF Sec
<1>2. ASSUME NEW r \in D, NEW s \in D  PROVE Sec(s) < Sec(r) <=> s.at < r.at
  BY <1>1, SecondsOrder
<1>3. ASSUME NEW r \in D, NEW s \in D  PROVE Sec(s) = Sec(r) <=> s.at = r.at
  <2>1. /\ Sec(s) < Sec(r) <=> s.at < r.at
        /\ Sec(r) < Sec(s) <=> r.at < s.at
    BY <1>2
  <2>2. Sec(s) \in Nat /\ Sec(r) \in Nat /\ s.at \in Nat /\ r.at \in Nat
    BY <1>1
  <2> QED
    BY <2>1, <2>2
<1> QED
  BY <1>1, <1>2, <1>3

\* The window before a row is its group without it.
LEMMA SparkHistory ==
  ASSUME NEW D, IsData(D), \A r \in D : r.at % Second = 0, NEW r \in D
  PROVE  HistorySpark(D, r) = HistoryPandas(D, r)
<1> DEFINE G == UpTo(D, r)
           B == Prior(D, r)
           gapSpark == IF B = {} THEN NoGap ELSE (Sec(r) - Max({Sec(s) : s \in B})) * Second
           gapPandas == IF Position(D, r) = 1 THEN NoGap ELSE r.at - Previous(D, r).at
           sameSpark == Cardinality({s \in B : s.reason = r.reason})
           samePandas == Cardinality({s \in G : s.reason = r.reason}) - 1
<1>1. /\ \A s \in D : Sec(s) \in Nat /\ Sec(s) * Second = s.at
      /\ \A s, q \in D : (Sec(q) < Sec(s) <=> q.at < s.at) /\ (Sec(q) = Sec(s) <=> q.at = s.at)
  BY SecondsTellTimes
<1>2. G = {s \in D : Above(s, r)}
  BY GroupIsAbove
<1>3. B = G \ {r}
  <2>1. ASSUME NEW s \in D  PROVE s \in B <=> Above(s, r) /\ s # r
    <3>1. s.id \in Nat /\ r.id \in Nat /\ (s.id = r.id => s = r)
      BY DEF IsData
    <3>2. s.id < r.id <=> s.id <= r.id /\ s # r
      BY <3>1
    <3>3. s \in B <=> s.cust = r.cust /\ (s.at < r.at \/ (s.at = r.at /\ s.id < r.id))
      BY <1>1 DEF Prior
    <3>4. s.at < r.at => s # r
      BY DEF IsData
    <3> QED
      BY <3>2, <3>3, <3>4 DEF Above
  <2>2. B \subseteq D
    BY DEF Prior
  <2> QED
    BY <1>2, <2>1, <2>2
<1>4. /\ IsFiniteSet(G) /\ Cardinality(G) = Position(D, r) /\ r \in G /\ G \subseteq D
      /\ TotalRetries(G) = r.retries + TotalRetries(G \ {r})
      /\ TotalRetries(G) \in Int /\ TotalRetries(G \ {r}) \in Int
  BY GroupTotals
<1>5. Position(D, r) \in Nat \ {0} /\ r.retries \in Int
  BY PositionIsCount DEF IsData
<1>6. /\ HistorySpark(D, r) = [events |-> Cardinality(B), retries |-> TotalRetries(B),
                               same |-> sameSpark, gap |-> gapSpark]
      /\ HistoryPandas(D, r) = [events |-> Position(D, r) - 1,
                                retries |-> TotalRetries(G) - r.retries,
                                same |-> samePandas, gap |-> gapPandas]
  BY DEF HistorySpark, HistoryPandas, Previous
<1> HIDE DEF G, B
<1>7. Cardinality(B) = Position(D, r) - 1 /\ IsFiniteSet(B)
  BY <1>3, <1>4, FS_RemoveElement
<1>8. TotalRetries(B) = TotalRetries(G) - r.retries
  BY <1>3, <1>4, <1>5
<1>9. sameSpark = samePandas
  <2> DEFINE A == {s \in G : s.reason = r.reason}
  <2>1. {s \in B : s.reason = r.reason} = A \ {r} /\ r \in A
    BY <1>3, <1>4
  <2>2. IsFiniteSet(A)
    BY <1>4, FS_Subset
  <2> HIDE DEF A
  <2>3. Cardinality(A \ {r}) = Cardinality(A) - 1
    BY <2>1, <2>2, FS_RemoveElement
  <2> QED
    BY <2>1, <2>3 DEF A
<1>10. gapSpark = gapPandas
  <2>1. B = {} <=> Position(D, r) = 1
    BY <1>5, <1>7, FS_EmptySet
  <2>2. ASSUME B # {}  PROVE (Sec(r) - Max({Sec(s) : s \in B})) * Second = r.at - Previous(D, r).at
    <3> DEFINE p == Previous(D, r)
               T == {Sec(s) : s \in B}
    <3>1. p \in B
      BY <1>2, <1>3, <2>1, <2>2, PreviousIsAbove
    <3>2. p \in D /\ B \subseteq D
      BY <1>3, <1>4, <3>1
    <3>3. ASSUME NEW s \in B  PROVE Sec(s) <= Sec(p)
      <4>1. Above(s, r) /\ s # r /\ s \in D
        BY <1>2, <1>3, <1>4
      <4>2. Above(s, p)
        BY <2>1, <2>2, <4>1, PreviousIsAbove
      <4>3. s.at < p.at \/ s.at = p.at
        BY <4>2 DEF Above
      <4> HIDE DEF p
      <4>4. Sec(s) < Sec(p) \/ Sec(s) = Sec(p)
        BY <1>1, <3>2, <4>1, <4>3
      <4> QED
        BY <1>1, <3>2, <4>1, <4>4
    <3> HIDE DEF p
    <3>4. Max(T) = Sec(p)
      <4>1. Sec(p) \in T /\ \A t \in T : t <= Sec(p) /\ t \in Nat
        BY <1>1, <3>1, <3>2, <3>3
      <4> HIDE DEF T
      <4>2. Max(T) \in T /\ \A t \in T : Max(T) >= t
        BY <4>1 DEF Max
      <4> QED
        BY <4>1, <4>2
    <3>5. (Sec(r) - Sec(p)) * Second = Sec(r) * Second - Sec(p) * Second
      BY <1>1, <3>2, SecondsOrder
    <3> QED
      BY <1>1, <3>2, <3>4, <3>5 DEF p
  <2> QED
    BY <2>1, <2>2
<1> QED
  BY <1>6, <1>7, <1>8, <1>9, <1>10

\* The second at a rank is that of the time at the rank.
LEMMA SparkSplit ==
  ASSUME NEW D, IsData(D), \A r \in D : r.at % Second = 0, NEW r \in D
  PROVE  SplitSpark(D, r) = SplitPandas(D, r)
<1> DEFINE f == SecondOf(D)
<1>1. /\ \A s \in D : Sec(s) \in Nat /\ s.at \in Nat
      /\ \A s, q \in D : (Sec(q) < Sec(s) <=> q.at < s.at) /\ (Sec(q) = Sec(s) <=> q.at = s.at)
  BY SecondsTellTimes DEF IsData
<1>2. ASSUME NEW p \in {70, 85}
      PROVE  Sec(r) < SecondCutoff(D, p) <=> r.at < Cutoff(D, p)
  <2>1. PICK s \in D : Sec(s) = SecondCutoff(D, p)
    <3>1. D # {}
      OBVIOUS
    <3> QED
      BY <3>1, SecondCutoffs
  <2>2. Below(D, f, Sec(s)) <= CutRank(D, p) /\ CutRank(D, p) < NotAbove(D, f, Sec(s))
    BY <2>1, SecondCutoffs
  <2>3. /\ {q \in D : f[q] < Sec(s)} = {q \in D : q.at < s.at}
        /\ {q \in D : f[q] <= Sec(s)} = {q \in D : q.at <= s.at}
    <3>1. \A q \in D : f[q] = Sec(q)
      BY SecondsAreValues
    <3>2. \A q \in D : Sec(q) <= Sec(s) <=> q.at <= s.at
      BY <1>1
    <3> HIDE DEF f
    <3> QED
      BY <1>1, <3>1, <3>2
  <2>4. Earlier(D, s.at) <= CutRank(D, p) /\ CutRank(D, p) < Until(D, s.at)
    BY <2>2, <2>3 DEF Earlier, Until, Below, NotAbove
  <2>5. CutRank(D, p) \in Nat /\ CutRank(D, p) < Cardinality(D)
    BY CutRanks DEF IsData
  <2>6. s.at = Cutoff(D, p)
    BY <1>1, <2>4, <2>5, CutoffIsRanked, RankedIsThere
  <2> QED
    BY <1>1, <2>1, <2>6
<1> QED
  BY <1>2 DEF SplitSpark, SplitPandas

\* The rows of a customer are neighbours in the frame.
LEMMA NotebookHistory ==
  ASSUME IsData(rows), NEW order \in Orders, NEW r \in rows
  PROVE  HistoryNotebook(rows, order, r) = HistoryPandas(rows, r)
<1> DEFINE group == {s \in rows : /\ s.cust = r.cust
                                  /\ Index(rows, order, s) <= Index(rows, order, r)}
           gapNotebook == IF Cardinality(group) - 1 = 0 THEN NoGap
                          ELSE r.at - At(rows, order, Index(rows, order, r) - 1).at
           gapPandas == IF Position(rows, r) = 1 THEN NoGap ELSE r.at - Previous(rows, r).at
<1>1. group = UpTo(rows, r)
  <2>1. ASSUME NEW s \in rows
        PROVE  s.cust = r.cust /\ Index(rows, order, s) <= Index(rows, order, r) <=> Above(s, r)
    <3>1. order[s.cust] \in Int /\ order[r.cust] \in Int
      BY OrderOfCustomers
    <3>2. s.cust = r.cust => (InFrame(order, s, r) <=> Above(s, r))
      BY <3>1 DEF InFrame
    <3> QED
      BY <3>2, IndexOrders DEF Above
  <2> QED
    BY <2>1, GroupIsAbove
<1>2. Cardinality(group) = Position(rows, r) /\ Position(rows, r) \in Nat \ {0}
  BY <1>1, GroupTotals, PositionIsCount
<1>3. ASSUME Position(rows, r) # 1
      PROVE  At(rows, order, Index(rows, order, r) - 1) = Previous(rows, r)
  <2>1. /\ Previous(rows, r) \in rows /\ Previous(rows, r).cust = r.cust
        /\ Position(rows, Previous(rows, r)) = Position(rows, r) - 1
    BY <1>3, PreviousIsAbove DEF Above
  <2> QED
    BY <2>1, RowsAbove
<1>4. /\ HistoryNotebook(rows, order, r) =
           [events |-> Cardinality(group) - 1, retries |-> TotalRetries(group) - r.retries,
            same |-> Cardinality({s \in group : s.reason = r.reason}) - 1, gap |-> gapNotebook]
      /\ HistoryPandas(rows, r) =
           [events |-> Position(rows, r) - 1, retries |-> TotalRetries(UpTo(rows, r)) - r.retries,
            same |-> Cardinality({s \in UpTo(rows, r) : s.reason = r.reason}) - 1,
            gap |-> gapPandas]
  BY DEF HistoryNotebook, HistoryPandas, Previous
<1> HIDE DEF group
<1>5. gapNotebook = gapPandas
  <2>1. Cardinality(group) - 1 = 0 <=> Position(rows, r) = 1
    BY <1>2
  <2> QED
    BY <1>3, <2>1
<1> QED
  BY <1>1, <1>2, <1>4, <1>5

\* The notebook's split differs at a cut-off only.
LEMMA NotebookSplit ==
  ASSUME NEW D, IsData(D), NEW r \in D, SplitNotebook(D, r) # SplitPandas(D, r)
  PROVE  /\ r.at \in {Cutoff(D, 70), Cutoff(D, 85)}
         /\ SplitPandas(D, r) # "train" /\ SplitNotebook(D, r) # "test"
<1> DEFINE a == Cutoff(D, 70)
           b == Cutoff(D, 85)
           qa == Quantile(D, 70)
           qb == Quantile(D, 85)
<1>1. a \in Nat /\ b \in Nat /\ a <= b /\ r.at \in Nat
  BY Cutoffs DEF IsData
<1>2. /\ r.at < a => 100 * r.at < qa
      /\ 100 * r.at < qa => r.at <= a
      /\ r.at < b => 100 * r.at < qb
      /\ 100 * r.at < qb => r.at <= b
  BY QuantileNearCutoff
<1>3. /\ SplitPandas(D, r) = IF r.at < a THEN "train" ELSE IF r.at < b THEN "validation" ELSE "test"
      /\ SplitNotebook(D, r) =
           IF 100 * r.at < qa THEN "train" ELSE IF 100 * r.at < qb THEN "validation" ELSE "test"
  BY DEF SplitPandas, SplitNotebook
<1> HIDE DEF a, b, qa, qb
<1>4. r.at \in {a, b} /\ SplitPandas(D, r) # "train" /\ SplitNotebook(D, r) # "test"
  <2>1. CASE r.at < a
    BY <2>1, <1>2, <1>3
  <2>2. CASE ~(r.at < a) /\ 100 * r.at < qa
    <3>1. r.at = a
      BY <1>1, <1>2, <2>2
    <3> QED
      BY <1>3, <2>2, <3>1
  <2>3. CASE ~(r.at < a) /\ ~(100 * r.at < qa) /\ r.at < b
    BY <1>2, <1>3, <2>3
  <2>4. CASE ~(r.at < a) /\ ~(100 * r.at < qa) /\ ~(r.at < b)
    <3>1. 100 * r.at < qb
      BY <1>3, <2>4
    <3>2. r.at = b
      BY <1>1, <1>2, <2>4, <3>1
    <3> QED
      BY <1>3, <2>4, <3>1, <3>2
  <2> QED
    BY <2>1, <2>2, <2>3, <2>4
<1> QED
  BY <1>4 DEF a, b

\* The Pandas, Spark and notebook implementations of the features and the split agree, for
\* any events, ids and customers and files of any length (PandasPreprocessor,
\* spark_pipeline, and the preprocessing notebook).
THEOREM ImplementationsAgree == PipelineSpec => []PipelinesAgree
<1>1. PipelineInv => PipelinesAgree
  <2> SUFFICES ASSUME PipelineInv  PROVE PipelinesAgree
    OBVIOUS
  <2>1. IsData(rows)
    BY ValidIsData
  <2>2. SparkMirrorsPandas
    BY <2>1, SparkHistory, SparkSplit DEF SparkMirrorsPandas
  <2>3. NotebookMirrorsPandas
    BY <2>1, NotebookHistory, NotebookSplit DEF NotebookMirrorsPandas
  <2> QED
    BY <2>2, <2>3, PipelineTypes DEF PipelinesAgree
<1> QED
  BY <1>1, PipelineInvariance, PTL

-----------------------------------------------------------------------------
(* The text of an answer.                                                   *)

\* What is read of an answer is of the tokens of the answer.
AnswerInv == answer \in Seq(Tokens)

LEMMA AnswerInvariance == AnswerSpec => []AnswerInv
<1>1. AnswerInit => AnswerInv
  BY DEF AnswerInit, AnswerInv
<1>2. AnswerInv /\ [AddToken]_answer => AnswerInv'
  BY DEF AnswerInv, AddToken
<1> QED
  BY <1>1, <1>2, PTL DEF AnswerSpec

\* The positions of a set of numbers are taken one by one: the least element that has n of
\* them at or below it has exactly n.
LEMMA NthExists ==
  ASSUME NEW S \in SUBSET Nat, IsFiniteSet(S), NEW n \in 1 .. Cardinality(S)
  PROVE  TheNth(S, n) \in S
<1> DEFINE Up(i) == {k \in S : k <= i}
           C == {i \in S : Cardinality(Up(i)) >= n}
<1>1. \A i \in S : IsFiniteSet(Up(i)) /\ Cardinality(Up(i)) \in Nat
  BY FS_Subset, FS_CardinalityType
<1>2. Cardinality(S) \in Nat /\ n \in Nat /\ n >= 1
  BY FS_CardinalityType
<1>3. S # {}
  BY <1>2, FS_EmptySet
<1>4. Max(S) \in S /\ Up(Max(S)) = S
  BY <1>3, MaxMin
<1>5. C # {} /\ C \in SUBSET Nat
  <2>1. Max(S) \in C
    BY <1>2, <1>4
  <2> QED
    BY <2>1
<1>6. PICK i \in C : \A j \in C : i <= j
  <2> HIDE DEF C
  <2> QED
    BY <1>5, LeastNumber
<1>7. i \in S /\ i \in Nat /\ Cardinality(Up(i)) >= n
  OBVIOUS
<1>8. Cardinality(Up(i)) = n
  <2> SUFFICES ASSUME Cardinality(Up(i)) > n  PROVE FALSE
    BY <1>1, <1>2, <1>7
  <2> DEFINE R == Up(i) \ {i}
  <2>1. i \in Up(i)
    BY <1>7
  <2>2. IsFiniteSet(R) /\ Cardinality(R) = Cardinality(Up(i)) - 1
    BY <1>1, <1>7, <2>1, FS_RemoveElement
  <2>3. Cardinality(R) >= n
    BY <1>1, <1>2, <1>7, <2>2
  <2>4. R # {} /\ R \in SUBSET Nat
    <3>1. R \in SUBSET Nat
      OBVIOUS
    <3>2. Cardinality({}) = 0
      BY FS_EmptySet
    <3> HIDE DEF R
    <3> QED
      BY <1>2, <2>3, <3>1, <3>2
  <2>5. Max(R) \in R /\ \A k \in R : k <= Max(R)
    <3> HIDE DEF R
    <3> QED
      BY <2>2, <2>4, MaxMin
  <2>6. Max(R) \in S /\ Max(R) \in Nat /\ Max(R) < i
    <3>1. Max(R) \in S /\ Max(R) <= i /\ Max(R) # i
      BY <2>5
    <3>2. Max(R) \in Nat
      BY <3>1
    <3> HIDE DEF R, Up, C
    <3> QED
      BY <3>1, <3>2, <1>7
  <2>7. Up(Max(R)) = R
    <3>1. ASSUME NEW k \in R  PROVE k \in Up(Max(R))
      BY <2>5
    <3>2. ASSUME NEW k \in Up(Max(R))  PROVE k \in R
      <4>1. k \in S /\ k \in Nat /\ k <= Max(R)
        OBVIOUS
      <4>2. k <= i /\ k # i
        <5> HIDE DEF R
        <5> QED
          BY <4>1, <2>6, <1>7
      <4> QED
        BY <4>1, <4>2
    <3> HIDE DEF R, Up
    <3> QED
      BY <3>1, <3>2
  <2>8. Max(R) \in C
    <3> HIDE DEF R
    <3> QED
      BY <2>3, <2>6, <2>7
  <2> HIDE DEF R, C
  <2> QED
    BY <1>6, <1>7, <2>6, <2>8
<1> HIDE DEF C
<1> QED
  BY <1>7, <1>8 DEF TheNth

\* How many numbers there are from a to b.
LEMMA IntervalSize ==
  ASSUME NEW a \in Nat, NEW b \in Nat, a <= b + 1
  PROVE  IsFiniteSet(a .. b) /\ Cardinality(a .. b) = b + 1 - a
<1>1. IsFiniteSet(a .. b) /\ Cardinality(a .. b) = IF a > b THEN 0 ELSE b - a + 1
  BY FS_Interval
<1> QED
  BY <1>1

\* Where only a beginning is dropped, the rest is spoken.
LEMMA SpokenRest ==
  ASSUME NEW text \in Seq(Tokens), NEW m \in 0 .. Len(text), Kept(text) = m + 1 .. Len(text)
  PROVE  Spoken(text) = SubSeq(text, m + 1, Len(text))
<1>1. Len(text) \in Nat /\ m \in Nat /\ m <= Len(text)
  OBVIOUS
<1>2. Cardinality(Kept(text)) = Len(text) - m
  <2>1. Cardinality(m + 1 .. Len(text)) = Len(text) + 1 - (m + 1)
    BY <1>1, IntervalSize
  <2> QED
    BY <1>1, <2>1
<1>3. ASSUME NEW n \in 1 .. Len(text) - m  PROVE TheNth(Kept(text), n) = m + n
  <2>1. ASSUME NEW i \in Kept(text)
        PROVE  Cardinality({k \in Kept(text) : k <= i}) = i - m
    <3>1. {k \in Kept(text) : k <= i} = m + 1 .. i
      BY <1>1
    <3>2. i \in Nat /\ m + 1 <= i
      BY <1>1
    <3>3. Cardinality(m + 1 .. i) = i + 1 - (m + 1)
      BY <1>1, <3>2, IntervalSize
    <3>4. i + 1 - (m + 1) = i - m
      BY <1>1, <3>2
    <3> QED
      BY <3>1, <3>3, <3>4, Zenon
  <2>2. m + n \in Kept(text)
    BY <1>1
  <2>3. \A i \in Kept(text) : i \in Nat
    BY <1>1
  <2> DEFINE N(i) == Cardinality({k \in Kept(text) : k <= i})
  <2>4. \A i \in Kept(text) : N(i) = n <=> i = m + n
    <3>1. \A i \in Kept(text) : N(i) = i - m
      BY <2>1
    <3> HIDE DEF N
    <3> QED
      BY <3>1, <2>3, <1>1
  <2>5. TheNth(Kept(text), n) = CHOOSE i \in Kept(text) : N(i) = n
    BY DEF TheNth
  <2> HIDE DEF N
  <2> QED
    BY <2>2, <2>4, <2>5
<1>4. Spoken(text) = [n \in 1 .. Len(text) - m |-> text[m + n]]
  BY <1>2, <1>3 DEF Spoken
<1>5. SubSeq(text, m + 1, Len(text)) = [n \in 1 .. Len(text) - m |-> text[m + n]]
  BY <1>1
<1> QED
  BY <1>4, <1>5

\* Of a text without tags everything is kept.
LEMMA PlainIsSpoken ==
  ASSUME NEW text \in Seq(Tokens), ~Tagged(text)
  PROVE  Spoken(text) = text
<1>1. Thought(text) = {}
  BY DEF Thought, Tagged
<1>2. Kept(text) = 0 + 1 .. Len(text)
  BY <1>1 DEF Kept, Tagged
<1>3. Spoken(text) = SubSeq(text, 0 + 1, Len(text))
  BY <1>2, SpokenRest
<1>4. SubSeq(text, 0 + 1, Len(text)) = text
  OBVIOUS
<1> QED
  BY <1>3, <1>4

\* What is kept has no tags: an opening one is in its block, a closing one is not after itself.
LEMMA SpokenIsPlain ==
  ASSUME NEW text \in Seq(Tokens)
  PROVE  Spoken(text) \in Seq(Tokens) /\ ~Tagged(Spoken(text))
<1>1. Kept(text) \subseteq 1 .. Len(text)
  BY DEF Kept
<1>2. Kept(text) \in SUBSET Nat /\ IsFiniteSet(Kept(text))
  BY <1>1, FS_Interval, FS_Subset
<1>3. ASSUME NEW i \in Kept(text)  PROVE text[i] \in Tokens \ {"open", "close"}
  <2>1. i \in 1 .. Len(text) /\ i \notin Thought(text) /\ (text[i] = "close" => i < i)
    BY DEF Kept
  <2>2. text[i] # "open"
    BY <2>1 DEF Thought
  <2> QED
    BY <2>1, <2>2
<1>4. Cardinality(Kept(text)) \in Nat
  BY <1>2, FS_CardinalityType
<1>5. ASSUME NEW n \in 1 .. Cardinality(Kept(text))
      PROVE  text[TheNth(Kept(text), n)] \in Tokens \ {"open", "close"}
  BY <1>2, <1>3, NthExists
<1> QED
  BY <1>4, <1>5 DEF Spoken, Tagged

\* What stands where in two texts in a row.
LEMMA InARow ==
  ASSUME NEW s \in Seq(Tokens), NEW t \in Seq(Tokens)
  PROVE  /\ s \o t \in Seq(Tokens) /\ Len(s \o t) = Len(s) + Len(t)
         /\ \A k \in 1 .. Len(s) : (s \o t)[k] = s[k]
         /\ \A k \in 1 .. Len(t) : (s \o t)[Len(s) + k] = t[k]
OBVIOUS

\* A text of one token.
LEMMA Token ==
  ASSUME NEW token \in Tokens
  PROVE  <<token>> \in Seq(Tokens) /\ Len(<<token>>) = 1 /\ <<token>>[1] = token
OBVIOUS

\* Nothing is read of a thought that was cut off, and nothing of one before an answer.
LEMMA ThoughtsAreSkipped ==
  ASSUME NEW thought \in Seq(Tokens), \A i \in DOMAIN thought : thought[i] # "close",
         NEW text \in Seq(Tokens), ~Tagged(text)
  PROVE  /\ Spoken(<<"open">> \o thought) = <<>>
         /\ Spoken(<<"open">> \o thought \o <<"close">> \o text) = text
<1> DEFINE u == <<"open">> \o thought
           v == u \o <<"close">>
           s == v \o text
           m == Len(thought) + 2
<1>1. Len(thought) \in Nat /\ Len(text) \in Nat /\ \A k \in 1 .. Len(thought) : thought[k] # "close"
  OBVIOUS
<1>2. /\ u \in Seq(Tokens) /\ Len(u) = Len(thought) + 1 /\ u[1] = "open"
      /\ \A k \in 2 .. Len(u) : u[k] # "close"
  <2>1. /\ u \in Seq(Tokens) /\ Len(u) = 1 + Len(thought) /\ u[1] = "open"
        /\ \A k \in 1 .. Len(thought) : u[1 + k] = thought[k]
    <3> DEFINE o == <<"open">>
    <3>1. o \in Seq(Tokens) /\ Len(o) = 1 /\ o[1] = "open"
      BY Token DEF Tokens
    <3>2. u = o \o thought
      OBVIOUS
    <3> HIDE DEF o, u
    <3>3. /\ u \in Seq(Tokens) /\ Len(u) = Len(o) + Len(thought)
          /\ \A k \in 1 .. Len(o) : u[k] = o[k]
          /\ \A k \in 1 .. Len(thought) : u[Len(o) + k] = thought[k]
      BY <3>1, <3>2, InARow
    <3> QED
      BY <3>1, <3>3
  <2> HIDE DEF u
  <2>2. ASSUME NEW k \in 2 .. Len(u)  PROVE u[k] # "close"
    <3>1. k - 1 \in 1 .. Len(thought) /\ 1 + (k - 1) = k
      BY <1>1, <2>1
    <3> QED
      BY <1>1, <2>1, <3>1
  <2> QED
    BY <1>1, <2>1, <2>2
<1>3. Spoken(u) = <<>>
  <2> HIDE DEF u
  <2>1. Thought(u) = 1 .. Len(u)
    <3>1. ASSUME NEW i \in 1 .. Len(u)  PROVE i \in Thought(u)
      <4>1. 1 \in 1 .. i /\ \A k \in 1 + 1 .. i - 1 : u[k] # "close"
        BY <1>1, <1>2
      <4> QED
        BY <1>2, <4>1 DEF Thought
    <3> QED
      BY <1>2, <3>1 DEF Thought
  <2>2. Kept(u) = Len(u) + 1 .. Len(u)
    BY <1>1, <1>2, <2>1 DEF Kept
  <2>3. Spoken(u) = SubSeq(u, Len(u) + 1, Len(u))
    BY <1>1, <1>2, <2>2, SpokenRest
  <2> QED
    BY <1>2, <2>3
<1>4. /\ s \in Seq(Tokens) /\ Len(s) = m + Len(text) /\ m \in 2 .. Len(s)
      /\ s[1] = "open" /\ s[m] = "close"
      /\ \A k \in 2 .. m - 1 : s[k] # "close"
      /\ \A k \in 1 .. Len(text) : s[m + k] = text[k]
  <2>1. /\ v \in Seq(Tokens) /\ Len(v) = m
        /\ \A k \in 1 .. Len(u) : v[k] = u[k]
        /\ v[m] = "close"
    <3> HIDE DEF u
    <3>1. /\ v \in Seq(Tokens) /\ Len(v) = Len(u) + Len(<<"close">>)
          /\ \A k \in 1 .. Len(u) : v[k] = u[k]
          /\ \A k \in 1 .. 1 : v[Len(u) + k] = <<"close">>[k]
      BY <1>2, InARow, Token DEF Tokens
    <3> QED
      BY <1>1, <1>2, <3>1
  <2>2. /\ s \in Seq(Tokens) /\ Len(s) = Len(v) + Len(text)
        /\ \A k \in 1 .. Len(v) : s[k] = v[k]
        /\ \A k \in 1 .. Len(text) : s[Len(v) + k] = text[k]
    <3> HIDE DEF v
    <3> QED
      BY <2>1, InARow
  <2> HIDE DEF u, v, s
  <2> QED
    BY <1>1, <1>2, <2>1, <2>2
<1> HIDE DEF s
<1>5. \A k \in m + 1 .. Len(s) : s[k] \notin {"open", "close"}
  <2> TAKE k \in m + 1 .. Len(s)
  <2>1. k - m \in 1 .. Len(text) /\ m + (k - m) = k
    BY <1>1, <1>4
  <2>2. s[k] = text[k - m]
    BY <1>4, <2>1
  <2> QED
    BY <2>1, <2>2 DEF Tagged
<1>6. m \in Nat
  BY <1>1
<1> HIDE DEF m
<1>7. Thought(s) = 1 .. m
  <2>1. ASSUME NEW i \in 1 .. m  PROVE i \in Thought(s)
    <3>1. 1 \in 1 .. i /\ \A k \in 1 + 1 .. i - 1 : s[k] # "close"
      BY <1>4, <1>6
    <3> QED
      BY <1>4, <3>1 DEF Thought
  <2>2. ASSUME NEW i \in Thought(s)  PROVE i \in 1 .. m
    <3>1. PICK j \in 1 .. i : s[j] = "open" /\ \A k \in j + 1 .. i - 1 : s[k] # "close"
      BY DEF Thought
    <3>2. i \in 1 .. Len(s)
      BY <1>4 DEF Thought
    <3>3. j \in 1 .. m - 1
      BY <1>4, <1>5, <1>6, <3>1, <3>2
    <3> QED
      BY <1>4, <1>6, <3>1, <3>2, <3>3
  <2> QED
    BY <2>1, <2>2
<1>8. Kept(s) = m + 1 .. Len(s)
  BY <1>1, <1>4, <1>5, <1>6, <1>7 DEF Kept
<1>9. Spoken(s) = SubSeq(s, m + 1, Len(s))
  <2>1. m \in 0 .. Len(s)
    BY <1>4, <1>6
  <2> QED
    BY <1>4, <1>8, <2>1, SpokenRest
<1>10. SubSeq(s, m + 1, Len(s)) = text
  BY <1>1, <1>4, <1>6
<1> QED
  BY <1>3, <1>9, <1>10 DEF s


\* Without a fence, what stands between the first and the last brace is extracted.
LEMMA OutermostBraces ==
  ASSUME NEW s \in Seq(Tokens), NEW i \in 1 .. Len(s), NEW j \in i + 1 .. Len(s),
         s[i] = "begin", s[j] = "end", Fenced(s) = {},
         \A k \in 1 .. Len(s) : (s[k] = "begin" => i <= k) /\ (s[k] = "end" => k <= j)
  PROVE  Extracted(s) = SubSeq(s, i, j)
<1> DEFINE starts == {k \in DOMAIN s : s[k] = "begin"}
           ends   == {k \in DOMAIN s : s[k] = "end"}
<1>1. Len(s) \in Nat /\ i \in Nat /\ j \in Nat /\ j \in 1 .. Len(s) /\ i < j
  OBVIOUS
<1>2. i \in starts /\ j \in ends
  BY <1>1
<1>3. /\ starts \in SUBSET Nat /\ IsFiniteSet(starts) /\ \A k \in starts : i <= k
      /\ ends \in SUBSET Nat /\ IsFiniteSet(ends) /\ \A k \in ends : k <= j
  <2>1. starts \subseteq 1 .. Len(s) /\ ends \subseteq 1 .. Len(s)
    OBVIOUS
  <2>2. IsFiniteSet(1 .. Len(s))
    BY <1>1, FS_Interval
  <2>3. IsFiniteSet(starts) /\ IsFiniteSet(ends)
    BY <2>1, <2>2, FS_Subset
  <2>4. (\A k \in starts : i <= k) /\ (\A k \in ends : k <= j)
    OBVIOUS
  <2> HIDE DEF starts, ends
  <2> QED
    BY <1>1, <2>1, <2>3, <2>4
<1>4. Object(s) = IF starts # {} /\ ends # {} /\ Min(starts) < Max(ends)
                  THEN SubSeq(s, Min(starts), Max(ends)) ELSE s
  BY DEF Object
<1> HIDE DEF starts, ends
<1>5. Min(starts) = i
  <2>1. Min(starts) \in starts /\ Min(starts) <= i
    BY <1>2, <1>3, MaxMin
  <2>2. Min(starts) \in Nat /\ i <= Min(starts)
    BY <1>3, <2>1
  <2> QED
    BY <1>1, <2>1, <2>2
<1>6. Max(ends) = j
  <2>1. Max(ends) \in ends /\ j <= Max(ends)
    BY <1>2, <1>3, MaxMin
  <2>2. Max(ends) \in Nat /\ Max(ends) <= j
    BY <1>3, <2>1
  <2> QED
    BY <1>1, <2>1, <2>2
<1> QED
  BY <1>1, <1>2, <1>4, <1>5, <1>6 DEF Extracted

\* An object that stands between its braces, with no fence in it, is what is extracted.
LEMMA BracedIsItself ==
  ASSUME NEW s \in Seq(Tokens), Len(s) >= 2, s[1] = "begin", s[Len(s)] = "end", Fenced(s) = {}
  PROVE  Extracted(s) = s
<1>1. Len(s) \in Nat /\ 1 \in 1 .. Len(s) /\ Len(s) \in 1 + 1 .. Len(s)
  OBVIOUS
<1>2. \A k \in 1 .. Len(s) : 1 <= k /\ k <= Len(s)
  BY <1>1
<1>3. Extracted(s) = SubSeq(s, 1, Len(s))
  BY <1>1, <1>2, OutermostBraces
<1>4. SubSeq(s, 1, Len(s)) = s
  OBVIOUS
<1> QED
  BY <1>3, <1>4

\* A part of a text.
LEMMA PartOfText ==
  ASSUME NEW s \in Seq(Tokens), NEW i \in 1 .. Len(s), NEW j \in i .. Len(s)
  PROVE  /\ SubSeq(s, i, j) \in Seq(Tokens) /\ Len(SubSeq(s, i, j)) = j - i + 1
         /\ \A k \in 1 .. j - i + 1 : SubSeq(s, i, j)[k] = s[i + k - 1]
OBVIOUS

\* The ends of a fenced object are positions of the text.
LEMMA EndsArePositions ==
  ASSUME NEW s \in Seq(Tokens), NEW i \in Nat
  PROVE  /\ FencedEnds(s, i) \in SUBSET Nat /\ IsFiniteSet(FencedEnds(s, i))
         /\ Fenced(s) \in SUBSET Nat /\ IsFiniteSet(Fenced(s))
<1>1. Len(s) \in Nat
  OBVIOUS
<1>2. i + 2 .. Len(s) - 1 \subseteq Nat /\ 1 .. Len(s) - 1 \subseteq Nat
  BY <1>1
<1>3. IsFiniteSet(i + 2 .. Len(s) - 1) /\ IsFiniteSet(1 .. Len(s) - 1)
  BY <1>1, FS_Interval
<1>4. FencedEnds(s, i) \subseteq i + 2 .. Len(s) - 1 /\ Fenced(s) \subseteq 1 .. Len(s) - 1
  BY DEF FencedEnds, Fenced
<1> QED
  BY <1>2, <1>3, <1>4, FS_Subset

\* A fence in a part of a text is a fence of the text, and ends where it did.
LEMMA FenceOfPart ==
  ASSUME NEW s \in Seq(Tokens), NEW i \in 1 .. Len(s), NEW j \in i .. Len(s),
         NEW f \in Fenced(SubSeq(s, i, j)), NEW e \in FencedEnds(SubSeq(s, i, j), f)
  PROVE  /\ f + i - 1 \in Fenced(s) /\ e + i - 1 \in FencedEnds(s, f + i - 1)
         /\ f >= 1 /\ f \in Nat /\ e \in f + 2 .. j - i /\ s[e + i - 1] = "end" /\ s[e + i] = "fence"
<1> DEFINE r == SubSeq(s, i, j)
<1>1. /\ r \in Seq(Tokens) /\ Len(r) = j - i + 1
      /\ \A k \in 1 .. j - i + 1 : r[k] = s[i + k - 1]
  BY PartOfText
<1>2. Len(s) \in Nat /\ i \in Nat /\ j \in Nat /\ i >= 1 /\ i <= j /\ j <= Len(s)
  OBVIOUS
<1> HIDE DEF r
<1>3. f \in 1 .. j - i /\ r[f] = "fence"
  BY <1>1, <1>2 DEF Fenced, r
<1>4. e \in f + 2 .. j - i /\ r[f + 1] = "begin" /\ r[e] = "end" /\ r[e + 1] = "fence"
  <2>1. e \in FencedEnds(r, f)
    BY DEF r
  <2>2. /\ e \in f + 2 .. Len(r) - 1
        /\ r[f + 1] = "begin" /\ r[e] = "end" /\ r[e + 1] = "fence"
    BY <2>1 DEF FencedEnds
  <2>3. Len(r) - 1 = j - i
    BY <1>1, <1>2
  <2> QED
    BY <2>2, <2>3
<1>5. s[f + i - 1] = "fence" /\ s[f + i] = "begin" /\ s[e + i - 1] = "end" /\ s[e + i] = "fence"
  <2>1. /\ f \in 1 .. j - i + 1 /\ f + 1 \in 1 .. j - i + 1
        /\ e \in 1 .. j - i + 1 /\ e + 1 \in 1 .. j - i + 1
    BY <1>2, <1>3, <1>4
  <2>2. /\ i + f - 1 = f + i - 1 /\ i + (f + 1) - 1 = f + i
        /\ i + e - 1 = e + i - 1 /\ i + (e + 1) - 1 = e + i
    BY <1>2, <1>3, <1>4
  <2> QED
    BY <1>1, <1>3, <1>4, <2>1, <2>2
<1>6. e + i - 1 \in FencedEnds(s, f + i - 1)
  <2>1. e + i - 1 \in (f + i - 1) + 2 .. Len(s) - 1
    BY <1>2, <1>3, <1>4
  <2>2. (f + i - 1) + 1 = f + i /\ (e + i - 1) + 1 = e + i
    BY <1>2, <1>3, <1>4
  <2> QED
    BY <1>5, <2>1, <2>2 DEF FencedEnds
<1>7. f + i - 1 \in Fenced(s)
  <2>1. f + i - 1 \in 1 .. Len(s) - 1
    BY <1>2, <1>3
  <2> QED
    BY <1>5, <1>6, <2>1 DEF Fenced
<1> QED
  BY <1>3, <1>4, <1>5, <1>6, <1>7

\* What is extracted is a part of the text; taken for a text, all of it is extracted.
LEMMA ExtractedIsFinal ==
  ASSUME NEW s \in Seq(Tokens), ~Tagged(s)
  PROVE  /\ Extracted(s) \in Seq(Tokens) /\ ~Tagged(Extracted(s))
         /\ Extracted(Extracted(s)) = Extracted(s)
<1>1. Len(s) \in Nat /\ \A i \in 1 .. Len(s) : s[i] \notin {"open", "close"}
  BY DEF Tagged
<1>2. ASSUME NEW i \in 1 .. Len(s), NEW j \in i + 1 .. Len(s), s[i] = "begin", s[j] = "end",
             Fenced(SubSeq(s, i, j)) = {}, Extracted(s) = SubSeq(s, i, j)
      PROVE  /\ Extracted(s) \in Seq(Tokens) /\ ~Tagged(Extracted(s))
             /\ Extracted(Extracted(s)) = Extracted(s)
  <2> DEFINE r == SubSeq(s, i, j)
  <2>1. /\ r \in Seq(Tokens) /\ Len(r) = j - i + 1
        /\ \A k \in 1 .. j - i + 1 : r[k] = s[i + k - 1]
    <3>1. j \in i .. Len(s)
      BY <1>1
    <3> QED
      BY <3>1, PartOfText
  <2> HIDE DEF r
  <2>2. r[1] = "begin" /\ r[Len(r)] = "end" /\ Len(r) >= 2
    <3>1. /\ 1 \in 1 .. j - i + 1 /\ j - i + 1 \in 1 .. j - i + 1 /\ j - i + 1 >= 2
          /\ i + 1 - 1 = i /\ i + (j - i + 1) - 1 = j
      BY <1>1
    <3> QED
      BY <1>2, <2>1, <3>1
  <2>3. Extracted(r) = r
    BY <1>2, <2>1, <2>2, BracedIsItself DEF r
  <2>4. \A k \in 1 .. Len(r) : r[k] \notin {"open", "close"}
    <3> TAKE k \in 1 .. Len(r)
    <3>1. k \in 1 .. j - i + 1 /\ i + k - 1 \in 1 .. Len(s)
      BY <1>1, <2>1
    <3> QED
      BY <1>1, <2>1, <3>1
  <2> QED
    BY <1>2, <2>1, <2>3, <2>4 DEF Tagged, r
<1>3. CASE Fenced(s) # {}
  <2> DEFINE i == Min(Fenced(s))
             E == FencedEnds(s, i)
             e == Min(E)
  <2>1. i \in Fenced(s) /\ i \in Nat
    <3>1. Fenced(s) \in SUBSET Nat /\ IsFiniteSet(Fenced(s))
      BY EndsArePositions
    <3> QED
      BY <1>3, <3>1, MaxMin
  <2> HIDE DEF i
  <2>2. i \in 1 .. Len(s) - 1 /\ E # {}
    BY <2>1 DEF Fenced
  <2>3. e \in E /\ \A k \in E : e <= k
    <3>1. E \in SUBSET Nat /\ IsFiniteSet(E)
      BY <2>1, EndsArePositions
    <3> HIDE DEF E
    <3> QED
      BY <2>2, <3>1, MaxMin
  <2> HIDE DEF e
  <2>4. e \in i + 2 .. Len(s) - 1 /\ s[i + 1] = "begin" /\ s[e] = "end"
    BY <2>3 DEF FencedEnds
  <2>5. Extracted(s) = SubSeq(s, i + 1, e)
    BY <1>3 DEF Extracted, i, e
  <2>6. i + 1 \in 1 .. Len(s) /\ e \in (i + 1) + 1 .. Len(s) /\ e \in i + 1 .. Len(s)
    BY <1>1, <2>2, <2>4
  <2>7. ASSUME Fenced(SubSeq(s, i + 1, e)) # {}  PROVE FALSE
    <3> DEFINE r == SubSeq(s, i + 1, e)
    <3>1. PICK f \in Fenced(r) : TRUE
      BY <2>7
    <3>2. PICK k \in FencedEnds(r, f) : TRUE
      BY <3>1 DEF Fenced
    <3>3. /\ f >= 1 /\ f \in Nat /\ k \in f + 2 .. e - (i + 1)
          /\ s[k + (i + 1) - 1] = "end" /\ s[k + (i + 1)] = "fence"
      BY <2>6, <3>1, <3>2, FenceOfPart
    <3>4. /\ k + (i + 1) - 1 = k + i /\ k + (i + 1) = (k + i) + 1
          /\ k + i \in i + 2 .. Len(s) - 1 /\ k + i < e
      BY <1>1, <2>2, <2>4, <3>3
    <3>5. k + i \in E
      BY <2>4, <3>3, <3>4 DEF FencedEnds
    <3> QED
      BY <2>3, <2>4, <3>4, <3>5
  <2> QED
    BY <1>2, <2>4, <2>5, <2>6, <2>7
<1>4. CASE Fenced(s) = {}
  <2> DEFINE starts == {i \in DOMAIN s : s[i] = "begin"}
             ends   == {i \in DOMAIN s : s[i] = "end"}
  <2>1. Extracted(s) = IF starts # {} /\ ends # {} /\ Min(starts) < Max(ends)
                       THEN SubSeq(s, Min(starts), Max(ends)) ELSE s
    BY <1>4 DEF Extracted, Object
  <2>2. CASE starts # {} /\ ends # {} /\ Min(starts) < Max(ends)
    <3> DEFINE i == Min(starts)
               j == Max(ends)
    <3>1. starts \in SUBSET Nat /\ IsFiniteSet(starts) /\ ends \in SUBSET Nat /\ IsFiniteSet(ends)
      <4>1. starts \subseteq 1 .. Len(s) /\ ends \subseteq 1 .. Len(s)
        OBVIOUS
      <4>2. IsFiniteSet(1 .. Len(s))
        BY <1>1, FS_Interval
      <4>3. IsFiniteSet(starts) /\ IsFiniteSet(ends)
        BY <4>1, <4>2, FS_Subset
      <4> HIDE DEF starts, ends
      <4> QED
        BY <1>1, <4>1, <4>3
    <3>2. i \in starts /\ j \in ends
      <4> HIDE DEF starts, ends
      <4> QED
        BY <2>2, <3>1, MaxMin
    <3> HIDE DEF i, j
    <3>3. i \in 1 .. Len(s) /\ j \in 1 .. Len(s) /\ s[i] = "begin" /\ s[j] = "end"
      BY <3>2
    <3>4. j \in i + 1 .. Len(s) /\ j \in i .. Len(s)
      BY <1>1, <2>2, <3>3 DEF i, j
    <3>5. Extracted(s) = SubSeq(s, i, j)
      BY <2>1, <2>2 DEF i, j
    <3>6. Fenced(SubSeq(s, i, j)) = {}
      <4> SUFFICES ASSUME NEW f \in Fenced(SubSeq(s, i, j))  PROVE FALSE
        OBVIOUS
      <4>1. PICK e \in FencedEnds(SubSeq(s, i, j), f) : TRUE
        BY DEF Fenced
      <4> QED
        BY <1>4, <3>3, <3>4, <4>1, FenceOfPart
    <3> QED
      BY <1>2, <3>3, <3>4, <3>5, <3>6
  <2>3. CASE ~ (starts # {} /\ ends # {} /\ Min(starts) < Max(ends))
    BY <2>1, <2>3
  <2> QED
    BY <2>2, <2>3
<1> QED
  BY <1>3, <1>4


\* The last token of an object closes its first brace.
LEMMA ObjectIsBraced ==
  ASSUME NEW text \in Seq(Tokens), IsObject(text)
  PROVE  /\ Len(text) \in Nat /\ Len(text) >= 2 /\ text[1] = "begin" /\ text[Len(text)] = "end"
         /\ \A i \in 1 .. Len(text) : text[i] \in {"begin", "end", "word"}
<1> DEFINE n == Len(text)
           Found(token, k) == {i \in 1 .. k : text[i] = token}
<1>1. n \in Nat /\ n >= 1
  BY DEF IsObject
<1>2. /\ text[1] = "begin" /\ Cardinality(Found("begin", n)) = Cardinality(Found("end", n))
      /\ \A k \in 1 .. n - 1 : Cardinality(Found("begin", k)) > Cardinality(Found("end", k))
      /\ \A i \in 1 .. n : text[i] \in {"begin", "end", "word"}
  <2>1. DOMAIN text = 1 .. n
    OBVIOUS
  <2> QED
    BY <2>1 DEF IsObject, Occurrences
<1> HIDE DEF n
<1>3. ASSUME NEW token, NEW k \in Nat
      PROVE  IsFiniteSet(Found(token, k)) /\ Cardinality(Found(token, k)) \in Nat
  <2>1. IsFiniteSet(1 .. k) /\ Found(token, k) \subseteq 1 .. k
    BY FS_Interval
  <2> QED
    BY <2>1, FS_Subset, FS_CardinalityType
<1>4. n # 1
  <2> SUFFICES ASSUME n = 1  PROVE FALSE
    OBVIOUS
  <2>1. Found("begin", 1) = {1} /\ Found("end", 1) = {}
    BY <1>2
  <2>2. Cardinality({1}) = 1 /\ Cardinality({}) = 0
    BY FS_Singleton, FS_EmptySet
  <2>3. Cardinality(Found("begin", 1)) = Cardinality(Found("end", 1))
    BY <1>2
  <2> HIDE DEF Found
  <2>4. 1 = 0
    BY <2>1, <2>2, <2>3, Zenon
  <2> QED
    BY <2>4
<1>5. text[n] = "end"
  <2> SUFFICES ASSUME text[n] # "end"  PROVE FALSE
    OBVIOUS
  <2>1. n - 1 \in Nat /\ n - 1 \in 1 .. n - 1
    BY <1>1, <1>4
  <2>2. Found("end", n) = Found("end", n - 1) /\ Found("begin", n - 1) \subseteq Found("begin", n)
    BY <1>1
  <2> HIDE DEF Found
  <2>3. Cardinality(Found("begin", n - 1)) <= Cardinality(Found("begin", n))
    BY <1>1, <1>3, <2>2, FS_Subset
  <2>4. Cardinality(Found("begin", n - 1)) > Cardinality(Found("end", n - 1))
    BY <1>2, <2>1
  <2>5. /\ Cardinality(Found("begin", n - 1)) \in Nat /\ Cardinality(Found("end", n)) \in Nat
        /\ Cardinality(Found("begin", n)) \in Nat
    BY <1>1, <1>3, <2>1
  <2> QED
    BY <1>2, <2>2, <2>3, <2>4, <2>5
<1> QED
  BY <1>1, <1>2, <1>4, <1>5 DEF n

\* A part of a text that reads like another text is that text.
LEMMA PartIsText ==
  ASSUME NEW s \in Seq(Tokens), NEW text \in Seq(Tokens), NEW m \in Nat,
         m + Len(text) <= Len(s), \A k \in 1 .. Len(text) : s[m + k] = text[k]
  PROVE  SubSeq(s, m + 1, m + Len(text)) = text
<1>1. Len(s) \in Nat /\ Len(text) \in Nat /\ (m + Len(text)) + 1 - (m + 1) = Len(text)
  OBVIOUS
<1>2. SubSeq(s, m + 1, m + Len(text)) = [k \in 1 .. Len(text) |-> s[m + k]]
  BY <1>1
<1>3. text = [k \in 1 .. Len(text) |-> text[k]]
  OBVIOUS
<1> QED
  BY <1>2, <1>3

\* What stands where in three texts in a row.
LEMMA Surrounded ==
  ASSUME NEW before \in Seq(Tokens), NEW text \in Seq(Tokens), NEW after \in Seq(Tokens)
  PROVE  LET s == before \o text \o after
         IN  /\ s \in Seq(Tokens) /\ Len(s) = Len(before) + Len(text) + Len(after)
             /\ \A k \in 1 .. Len(before) : s[k] = before[k]
             /\ \A k \in 1 .. Len(text) : s[Len(before) + k] = text[k]
             /\ \A k \in 1 .. Len(after) : s[Len(before) + Len(text) + k] = after[k]
<1> DEFINE u == before \o text
           s == u \o after
<1>1. Len(before) \in Nat /\ Len(text) \in Nat /\ Len(after) \in Nat
  OBVIOUS
<1>2. /\ u \in Seq(Tokens) /\ Len(u) = Len(before) + Len(text)
      /\ \A k \in 1 .. Len(before) : u[k] = before[k]
      /\ \A k \in 1 .. Len(text) : u[Len(before) + k] = text[k]
  BY InARow
<1>3. /\ s \in Seq(Tokens) /\ Len(s) = Len(u) + Len(after)
      /\ \A k \in 1 .. Len(u) : s[k] = u[k]
      /\ \A k \in 1 .. Len(after) : s[Len(u) + k] = after[k]
  <2> HIDE DEF u
  <2> QED
    BY <1>2, InARow
<1> HIDE DEF u, s
<1>4. /\ \A k \in 1 .. Len(before) : s[k] = before[k]
      /\ \A k \in 1 .. Len(text) : s[Len(before) + k] = text[k]
  <2>1. \A k \in 1 .. Len(before) : k \in 1 .. Len(before) + Len(text)
    BY <1>1
  <2>2. \A k \in 1 .. Len(text) : Len(before) + k \in 1 .. Len(before) + Len(text)
    BY <1>1
  <2> QED
    BY <1>2, <1>3, <2>1, <2>2
<1>5. /\ s \in Seq(Tokens) /\ Len(s) = Len(before) + Len(text) + Len(after)
      /\ \A k \in 1 .. Len(after) : s[Len(before) + Len(text) + k] = after[k]
  BY <1>2, <1>3
<1> QED
  BY <1>4, <1>5 DEF s, u

\* In a fence of its own an object is extracted to its last brace.
LEMMA FencedObject ==
  ASSUME NEW s \in Seq(Tokens), NEW i \in 2 .. Len(s), NEW j \in i + 1 .. Len(s) - 1,
         s[i] = "begin", s[j] = "end", \A k \in j + 2 .. Len(s) : s[k] # "begin",
         \A k \in 1 .. Len(s) : s[k] = "fence" <=> k \in {i - 1, j + 1}
  PROVE  Extracted(s) = SubSeq(s, i, j)
<1>1. Len(s) \in Nat /\ i \in Nat /\ j \in Nat /\ i >= 2 /\ i < j /\ j < Len(s)
  OBVIOUS
<1>2. FencedEnds(s, i - 1) = {j}
  <2>1. j \in FencedEnds(s, i - 1)
    <3>1. /\ j \in (i - 1) + 2 .. Len(s) - 1 /\ (i - 1) + 1 = i /\ j + 1 \in 1 .. Len(s)
      BY <1>1
    <3>2. s[j + 1] = "fence"
      BY <3>1
    <3> QED
      BY <3>1, <3>2 DEF FencedEnds
  <2>2. ASSUME NEW e \in FencedEnds(s, i - 1)  PROVE e = j
    <3>1. e \in (i - 1) + 2 .. Len(s) - 1 /\ s[e + 1] = "fence"
      BY DEF FencedEnds
    <3>2. e \in Nat /\ e + 1 \in 1 .. Len(s) /\ e + 1 # i - 1
      BY <1>1, <3>1
    <3>3. e + 1 = j + 1
      BY <3>1, <3>2
    <3> QED
      BY <1>1, <3>2, <3>3
  <2> QED
    BY <2>1, <2>2
<1>3. Fenced(s) = {i - 1}
  <2>1. i - 1 \in Fenced(s)
    <3>1. i - 1 \in 1 .. Len(s) - 1 /\ i - 1 \in 1 .. Len(s)
      BY <1>1
    <3> QED
      BY <1>2, <3>1 DEF Fenced
  <2>2. ASSUME NEW f \in Fenced(s)  PROVE f = i - 1
    <3>1. f \in 1 .. Len(s) - 1 /\ s[f] = "fence" /\ FencedEnds(s, f) # {}
      BY DEF Fenced
    <3>2. f \in 1 .. Len(s)
      BY <1>1, <3>1
    <3>3. ASSUME f = j + 1  PROVE FALSE
      <4>1. PICK e \in f + 2 .. Len(s) - 1 : s[f + 1] = "begin"
        BY <3>1 DEF FencedEnds
      <4>2. f + 1 \in j + 2 .. Len(s)
        BY <1>1, <3>1, <3>3
      <4> QED
        BY <4>1, <4>2
    <3> QED
      BY <3>1, <3>2, <3>3
  <2> QED
    BY <2>1, <2>2
<1>4. Min(Fenced(s)) = i - 1
  BY <1>3 DEF Min
<1>5. Min(FencedEnds(s, i - 1)) = j
  BY <1>2 DEF Min
<1>6. Extracted(s) = SubSeq(s, (i - 1) + 1, j)
  BY <1>3, <1>4, <1>5 DEF Extracted
<1>7. (i - 1) + 1 = i
  BY <1>1
<1> QED
  BY <1>6, <1>7

\* An object is read whole wherever it stands.
LEMMA ObjectsAreRead ==
  ASSUME NEW text \in Seq(Tokens)
  PROVE  ObjectIsReadWhole(text)
<1> SUFFICES ASSUME IsObject(text)
             PROVE  /\ Clean(text) = text
                    /\ Clean(<<"word">> \o text \o <<"word">>) = text
                    /\ Clean(<<"word", "fence">> \o text \o <<"fence", "word">>) = text
  BY DEF ObjectIsReadWhole
<1>1. /\ Len(text) \in Nat /\ Len(text) >= 2 /\ text[1] = "begin" /\ text[Len(text)] = "end"
      /\ \A i \in 1 .. Len(text) : text[i] \in {"begin", "end", "word"}
  BY ObjectIsBraced
<1>2. ASSUME NEW s \in Seq(Tokens), NEW m \in Nat, m + Len(text) <= Len(s),
             \A k \in 1 .. Len(text) : s[m + k] = text[k],
             \A k \in 1 .. Len(s) : s[k] \notin {"begin", "end"} \/ k \in m + 1 .. m + Len(text)
      PROVE  /\ m + 1 \in 1 .. Len(s) /\ m + Len(text) \in (m + 1) + 1 .. Len(s)
             /\ s[m + 1] = "begin" /\ s[m + Len(text)] = "end"
             /\ \A k \in 1 .. Len(s) : /\ s[k] = "begin" => m + 1 <= k
                                       /\ s[k] = "end" => k <= m + Len(text)
  <2>1. Len(s) \in Nat /\ 1 \in 1 .. Len(text) /\ Len(text) \in 1 .. Len(text)
    BY <1>1
  <2>2. s[m + 1] = "begin" /\ s[m + Len(text)] = "end"
    BY <1>1, <1>2, <2>1
  <2>3. \A k \in 1 .. Len(s) : /\ s[k] = "begin" => m + 1 <= k
                               /\ s[k] = "end" => k <= m + Len(text)
    BY <1>1, <1>2, <2>1
  <2> QED
    BY <1>1, <1>2, <2>1, <2>2, <2>3
<1>3. Clean(text) = text
  <2>1. ~Tagged(text)
    BY <1>1 DEF Tagged
  <2>2. Fenced(text) = {}
    BY <1>1 DEF Fenced
  <2> QED
    BY <1>1, <2>1, <2>2, PlainIsSpoken, BracedIsItself DEF Clean
<1>4. Clean(<<"word">> \o text \o <<"word">>) = text
  <2> DEFINE o == <<"word">>
             s == o \o text \o o
             n == Len(text)
  <2>1. o \in Seq(Tokens) /\ Len(o) = 1 /\ o[1] = "word"
    BY Token DEF Tokens
  <2> HIDE DEF o
  <2>2. /\ s \in Seq(Tokens) /\ Len(s) = n + 2
        /\ s[1] = "word" /\ s[n + 2] = "word"
        /\ \A k \in 1 .. n : s[1 + k] = text[k]
    <3>1. /\ s \in Seq(Tokens) /\ Len(s) = Len(o) + n + Len(o)
          /\ \A k \in 1 .. Len(o) : s[k] = o[k]
          /\ \A k \in 1 .. n : s[Len(o) + k] = text[k]
          /\ \A k \in 1 .. Len(o) : s[Len(o) + n + k] = o[k]
      BY <2>1, Surrounded
    <3>2. 1 \in 1 .. Len(o) /\ Len(o) + n + 1 = n + 2 /\ Len(o) + n + Len(o) = n + 2
      BY <1>1, <2>1
    <3> HIDE DEF s, n
    <3>3. s[Len(o) + n + 1] = o[1] /\ s[1] = o[1]
      BY <3>1, <3>2
    <3> QED
      BY <2>1, <3>1, <3>2, <3>3
  <2> HIDE DEF s
  <2>3. ASSUME NEW k \in 1 .. Len(s)
        PROVE  /\ s[k] \in {"begin", "end", "word"}
               /\ s[k] \notin {"begin", "end"} \/ k \in 1 + 1 .. 1 + n
    <3>1. CASE k \in 1 + 1 .. 1 + n
      <4>1. k - 1 \in 1 .. n /\ 1 + (k - 1) = k
        BY <1>1, <3>1
      <4> QED
        BY <1>1, <2>2, <3>1, <4>1
    <3>2. CASE k \notin 1 + 1 .. 1 + n
      <4>1. k = 1 \/ k = n + 2
        BY <1>1, <2>2, <3>2
      <4> QED
        BY <2>2, <4>1
    <3> QED
      BY <3>1, <3>2
  <2>4. ~Tagged(s) /\ Fenced(s) = {}
    <3>1. \A k \in 1 .. Len(s) - 1 : k \in 1 .. Len(s)
      BY <1>1, <2>2
    <3> QED
      BY <2>2, <2>3, <3>1 DEF Tagged, Fenced
  <2>5. /\ 1 + 1 \in 1 .. Len(s) /\ 1 + n \in (1 + 1) + 1 .. Len(s)
        /\ s[1 + 1] = "begin" /\ s[1 + n] = "end"
        /\ \A k \in 1 .. Len(s) : /\ s[k] = "begin" => 1 + 1 <= k
                                  /\ s[k] = "end" => k <= 1 + n
    <3>1. 1 + n <= Len(s)
      BY <1>1, <2>2
    <3> QED
      BY <1>2, <2>2, <2>3, <3>1
  <2>6. Extracted(s) = SubSeq(s, 1 + 1, 1 + n)
    BY <2>2, <2>4, <2>5, OutermostBraces
  <2>7. SubSeq(s, 1 + 1, 1 + n) = text
    BY <1>1, <2>2, PartIsText
  <2>8. Clean(s) = text
    BY <2>2, <2>4, <2>6, <2>7, PlainIsSpoken DEF Clean
  <2> QED
    BY <2>8 DEF s, o
<1>5. Clean(<<"word", "fence">> \o text \o <<"fence", "word">>) = text
  <2> DEFINE o == <<"word", "fence">>
             c == <<"fence", "word">>
             s == o \o text \o c
             n == Len(text)
  <2>1. /\ o \in Seq(Tokens) /\ Len(o) = 2 /\ o[1] = "word" /\ o[2] = "fence"
        /\ c \in Seq(Tokens) /\ Len(c) = 2 /\ c[1] = "fence" /\ c[2] = "word"
    BY DEF Tokens
  <2> HIDE DEF o, c
  <2>2. /\ s \in Seq(Tokens) /\ Len(s) = n + 4
        /\ s[1] = "word" /\ s[2] = "fence" /\ s[n + 3] = "fence" /\ s[n + 4] = "word"
        /\ \A k \in 1 .. n : s[2 + k] = text[k]
    <3>1. /\ s \in Seq(Tokens) /\ Len(s) = Len(o) + n + Len(c)
          /\ \A k \in 1 .. Len(o) : s[k] = o[k]
          /\ \A k \in 1 .. n : s[Len(o) + k] = text[k]
          /\ \A k \in 1 .. Len(c) : s[Len(o) + n + k] = c[k]
      <4>1. o \in Seq(Tokens) /\ c \in Seq(Tokens)
        BY <2>1
      <4> QED
        BY <4>1, Surrounded
    <3>2. /\ 1 \in 1 .. 2 /\ 2 \in 1 .. 2 /\ 2 + n + 1 = n + 3 /\ 2 + n + 2 = n + 4
      BY <1>1
    <3> HIDE DEF s, n
    <3>3. /\ s[2 + n + 1] = c[1] /\ s[2 + n + 2] = c[2] /\ s[1] = o[1] /\ s[2] = o[2]
      BY <2>1, <3>1, <3>2
    <3> QED
      BY <2>1, <3>1, <3>2, <3>3
  <2> HIDE DEF s
  <2>3. ASSUME NEW k \in 1 .. Len(s)
        PROVE  /\ s[k] \in {"begin", "end", "word", "fence"}
               /\ s[k] \notin {"begin", "end"} \/ k \in 2 + 1 .. 2 + n
               /\ s[k] = "fence" <=> k \in {2, n + 3}
    <3>1. CASE k \in 2 + 1 .. 2 + n
      <4>1. k - 2 \in 1 .. n /\ 2 + (k - 2) = k /\ k # 2 /\ k # n + 3
        BY <1>1, <3>1
      <4>2. s[k] \in {"begin", "end", "word"}
        BY <1>1, <2>2, <4>1
      <4> QED
        BY <3>1, <4>1, <4>2
    <3>2. CASE k \notin 2 + 1 .. 2 + n
      <4>1. (k = 1 \/ k = 2 \/ k = n + 3 \/ k = n + 4) /\ 1 # n + 3 /\ n + 4 # n + 3 /\ n + 4 # 2
        BY <1>1, <2>2, <3>2
      <4> QED
        BY <2>2, <4>1
    <3> QED
      BY <3>1, <3>2
  <2>4. ~Tagged(s)
    BY <2>2, <2>3 DEF Tagged
  <2>5. /\ 2 + 1 \in 1 .. Len(s) /\ 2 + n \in (2 + 1) + 1 .. Len(s)
        /\ s[2 + 1] = "begin" /\ s[2 + n] = "end"
    <3>1. 2 + n <= Len(s)
      BY <1>1, <2>2
    <3> QED
      BY <1>2, <2>2, <2>3, <3>1
  <2>6. /\ 2 + 1 \in 2 .. Len(s) /\ 2 + n \in (2 + 1) + 1 .. Len(s) - 1
        /\ (2 + 1) - 1 = 2 /\ (2 + n) + 1 = n + 3
    BY <1>1, <2>2
  <2>7. ASSUME NEW k \in (2 + n) + 2 .. Len(s)  PROVE s[k] # "begin"
    <3>1. k = n + 4
      BY <1>1, <2>2
    <3> QED
      BY <2>2, <3>1
  <2>8. Extracted(s) = SubSeq(s, 2 + 1, 2 + n)
    <3>1. \A k \in (2 + n) + 2 .. Len(s) : s[k] # "begin"
      BY <2>7
    <3>2. \A k \in 1 .. Len(s) : s[k] = "fence" <=> k \in {(2 + 1) - 1, (2 + n) + 1}
      BY <2>3, <2>6
    <3>3. 2 + 1 \in 2 .. Len(s) /\ 2 + n \in (2 + 1) + 1 .. Len(s) - 1
      BY <2>6
    <3>4. s \in Seq(Tokens) /\ s[2 + 1] = "begin" /\ s[2 + n] = "end"
      BY <2>2, <2>5
    <3> QED
      BY <3>1, <3>2, <3>3, <3>4, FencedObject
  <2>9. SubSeq(s, 2 + 1, 2 + n) = text
    BY <1>1, <2>2, PartIsText
  <2>10. Clean(s) = text
    BY <2>2, <2>4, <2>8, <2>9, PlainIsSpoken DEF Clean
  <2> QED
    BY <2>10 DEF s, o, c
<1> QED
  BY <1>3, <1>4, <1>5

\* Whatever the model says and whatever it thought before, its answer is read for what it says.
LEMMA TextRead == AnswerInv => TextIsReadRight
<1> SUFFICES ASSUME AnswerInv  PROVE TextIsReadRight
  OBVIOUS
<1>1. answer \in Seq(Tokens) /\ <<>> \in Seq(Tokens) /\ ~Tagged(<<>>)
  BY DEF AnswerInv, Tagged
<1>2. Extracted(<<>>) = <<>>
  BY DEF Extracted, Fenced, Object
<1>3. ASSUME NEW thought \in Thoughts  PROVE ThoughtIsNotRead(answer, thought)
  <2>1. thought \in Seq(Tokens) /\ \A i \in DOMAIN thought : thought[i] # "close"
    BY ThoughtsAssumption
  <2>2. Clean(<<"open">> \o thought) = <<>>
    <3>1. Spoken(<<"open">> \o thought) = <<>>
      BY <1>1, <2>1, ThoughtsAreSkipped
    <3> QED
      BY <1>2, <3>1 DEF Clean
  <2>3. ASSUME ~Tagged(answer)
        PROVE  Clean(<<"open">> \o thought \o <<"close">> \o answer) = Clean(answer)
    <3>1. Spoken(<<"open">> \o thought \o <<"close">> \o answer) = answer
      BY <1>1, <2>1, <2>3, ThoughtsAreSkipped
    <3>2. Spoken(answer) = answer
      BY <1>1, <2>3, PlainIsSpoken
    <3> QED
      BY <3>1, <3>2 DEF Clean
  <2> QED
    BY <2>2, <2>3 DEF ThoughtIsNotRead
<1>4. CleaningIsFinal(answer)
  <2> DEFINE said == Spoken(answer)
  <2>1. said \in Seq(Tokens) /\ ~Tagged(said)
    BY <1>1, SpokenIsPlain
  <2> HIDE DEF said
  <2>2. /\ Extracted(said) \in Seq(Tokens) /\ ~Tagged(Extracted(said))
        /\ Extracted(Extracted(said)) = Extracted(said)
    BY <2>1, ExtractedIsFinal
  <2>3. Spoken(Extracted(said)) = Extracted(said)
    BY <2>2, PlainIsSpoken
  <2> QED
    BY <2>2, <2>3 DEF CleaningIsFinal, Clean, said
<1> QED
  BY <1>1, <1>3, <1>4, ObjectsAreRead DEF TextIsReadRight

\* clean_deepseek_reasoning_output (llm_provider.py): of an answer of any length, tagged and
\* fenced in any way, an object is read whole, a thought not at all, and reading what was read
\* changes nothing.
THEOREM AnswersAreReadRight == AnswerSpec => []TextIsReadRight
BY AnswerInvariance, TextRead, PTL

=============================================================================
