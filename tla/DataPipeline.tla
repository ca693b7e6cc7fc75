------------------------------- MODULE DataPipeline -------------------------------
(***************************************************************************)
(* Preprocessing of the payment events for training: customer history,      *)
(* chronological split and leakage audit (pipeline/), by the Pandas          *)
(* reference and by the Spark pipeline that mirrors it.                     *)
(*                                                                         *)
(* A data set is a set of rows with distinct event ids.  Times are in       *)
(* ticks, Second of them to a second: Pandas keeps the whole time, Spark     *)
(* orders and splits by occurred_at_sec.  A data set grows row by row, so    *)
(* that what a later row changes can be told.                               *)
(***************************************************************************)
EXTENDS Integers, FiniteSets, FiniteSetsExt

CONSTANTS
  Ids,     \* event ids, in their order
  Events,  \* what a row can hold beside its id: [cust, at, reason, retries]
  Second,  \* ticks per second
  MaxLen,  \* MAX_LEN of the notebook's sequences
  NoGap    \* the gap of a first event (NaN)

ASSUME PipelineAssumption ==
  /\ Ids \subseteq Nat /\ {Second, MaxLen} \subseteq Nat \ {0}
  /\ \A e \in Events : e.at \in Nat /\ e.retries \in Int

VARIABLE rows  \* the events loaded so far

Row(id, e) == [id |-> id, cust |-> e.cust, at |-> e.at, reason |-> e.reason,
               retries |-> e.retries]

PipelineInit == rows = {}

\* A row that keeps the file valid (DataValidator, load_and_validate_raw_events).
AddRow ==
  \E id \in Ids, e \in Events :
    /\ \A r \in rows : r.id # id
    /\ rows' = rows \union {Row(id, e)}

PipelineSpec == PipelineInit /\ [][AddRow]_rows

-----------------------------------------------------------------------------
(* Pandas: rows sorted by (customer_id, occurred_at, event_id).             *)

Position(data, r) ==
  Cardinality({s \in data : s.cust = r.cust /\ (s.at < r.at \/ (s.at = r.at /\ s.id <= r.id))})

\* The group of a row up to and including it, in the sorted frame.
UpTo(data, r) == {s \in data : s.cust = r.cust /\ Position(data, s) <= Position(data, r)}

TotalRetries(S) == MapThenSumSet(LAMBDA s : s.retries, S)

\* Seeded fault: the totals of the customer's whole history.
HistoryPandasWhole(data, r) ==
  [events  |-> Position(data, r) - 1,
   retries |-> TotalRetries({s \in data : s.cust = r.cust}) - r.retries,
   same    |-> Cardinality({s \in UpTo(data, r) : s.reason = r.reason}) - 1,
   gap     |-> IF Position(data, r) = 1 THEN NoGap
               ELSE r.at - (CHOOSE s \in UpTo(data, r) :
                              Position(data, s) = Position(data, r) - 1).at]

\* add_history_features: cumcount, cumsum less the row's own value, and the row before.
HistoryPandas(data, r) ==
  [events  |-> Position(data, r) - 1,
   retries |-> TotalRetries(UpTo(data, r)) - r.retries,
   same    |-> Cardinality({s \in UpTo(data, r) : s.reason = r.reason}) - 1,
   gap     |-> IF Position(data, r) = 1 THEN NoGap
               ELSE r.at - (CHOOSE s \in UpTo(data, r) :
                              Position(data, s) = Position(data, r) - 1).at]

Times(data) == {r.at : r \in data}
Earlier(data, t) == Cardinality({r \in data : r.at < t})
Until(data, t) == Cardinality({r \in data : r.at <= t})

\* chrono_cutoffs: the value at position k = floor(q * N) of the sorted times, from 0.
Cutoff(data, percent) ==
  LET k == (percent * Cardinality(data)) \div 100
  IN  CHOOSE t \in Times(data) : Earlier(data, t) <= k /\ k < Until(data, t)

\* assign_chrono_split.
SplitPandas(data, r) ==
  IF r.at < Cutoff(data, 70) THEN "train"
  ELSE IF r.at < Cutoff(data, 85) THEN "validation" ELSE "test"

-----------------------------------------------------------------------------
(* Spark: windows over (occurred_at_sec, event_id).                         *)

Sec(r) == r.at \div Second

\* Seeded fault: rows of one second are left in no order.
PriorBySecond(data, r) == {s \in data : s.cust = r.cust /\ Sec(s) < Sec(r)}

\* w_prior: all preceding rows of the partition.
Prior(data, r) ==
  {s \in data : s.cust = r.cust /\ (Sec(s) < Sec(r) \/ (Sec(s) = Sec(r) /\ s.id < r.id))}

\* transform: row_number, sums and counts over the window, lag for the gap.
HistorySpark(data, r) ==
  LET prior == Prior(data, r)
  IN  [events  |-> Cardinality(prior),
       retries |-> TotalRetries(prior),
       same    |-> Cardinality({s \in prior : s.reason = r.reason}),
       gap     |-> IF prior = {} THEN NoGap ELSE (Sec(r) - Max({Sec(s) : s \in prior})) * Second]

\* exact_cutoffs: the least second whose cumulative count exceeds k.
SecondCutoff(data, percent) ==
  LET k == (percent * Cardinality(data)) \div 100
  IN  Min({t \in {Sec(r) : r \in data} : Cardinality({r \in data : Sec(r) <= t}) >= k + 1})

SplitSpark(data, r) ==
  IF Sec(r) < SecondCutoff(data, 70) THEN "train"
  ELSE IF Sec(r) < SecondCutoff(data, 85) THEN "validation" ELSE "test"

-----------------------------------------------------------------------------
(* The notebooks: one frame sorted by (customer_id, occurred_at, event_id), the customers *)
(* in some order.                                                                        *)

Customers == {r.cust : r \in rows}
Orders == {o \in [Customers -> 1 .. Cardinality(Customers)] :
             \A c, d \in Customers : c # d => o[c] # o[d]}

Index(data, order, r) ==
  Cardinality({s \in data : order[s.cust] < order[r.cust]}) + Position(data, r)
At(data, order, i) == CHOOSE s \in data : Index(data, order, s) = i

\* The notebook's own history features: the frame's rows of the customer up to the row,
\* running totals less the row itself, and shift(1) for the row before.
HistoryNotebook(data, order, r) ==
  LET group == {s \in data : s.cust = r.cust /\ Index(data, order, s) <= Index(data, order, r)}
      before == Cardinality(group) - 1
  IN  [events  |-> before,
       retries |-> TotalRetries(group) - r.retries,
       same    |-> Cardinality({s \in group : s.reason = r.reason}) - 1,
       gap     |-> IF before = 0 THEN NoGap
                   ELSE r.at - At(data, order, Index(data, order, r) - 1).at]

\* The i-th of the sorted times, from 0.
Ranked(data, i) == CHOOSE t \in Times(data) : Earlier(data, t) <= i /\ i < Until(data, t)

\* Series.quantile, in hundredths: between two ranks it interpolates.
Quantile(data, percent) ==
  LET h    == percent * (Cardinality(data) - 1)
      low  == Ranked(data, h \div 100)
      high == IF h % 100 = 0 THEN low ELSE Ranked(data, (h \div 100) + 1)
  IN  100 * low + (h % 100) * (high - low)

\* chrono_split of the preprocessing notebook.
SplitNotebook(data, r) ==
  IF 100 * r.at < Quantile(data, 70) THEN "train"
  ELSE IF 100 * r.at < Quantile(data, 85) THEN "validation" ELSE "test"

\* The sequence of a row: the rows just above it in the frame, as many as pos_in_cust
\* allows.
SequenceOf(data, order, r) ==
  LET lags == {lag \in 0 .. MaxLen - 1 : Position(data, r) - 1 >= lag}
  IN  {At(data, order, Index(data, order, r) - lag) : lag \in lags}

-----------------------------------------------------------------------------
(* The leakage audit.                                                       *)

In(data, split, name) == {r \in data : split[r] = name}

\* A later split may begin at the very time the earlier one ends; an empty split is not
\* compared with anything.
Overlaps(S, T) == S # {} /\ T # {} /\ Max(Times(S)) > Min(Times(T))

\* audit_features_and_splits: the two boundaries it compares.  Its checks of feature names
\* and negative gaps concern the columns (see FirstEventHasNoHistory).
PassesAudit(data, split) ==
  /\ ~Overlaps(In(data, split, "train"), In(data, split, "validation"))
  /\ ~Overlaps(In(data, split, "validation"), In(data, split, "test"))

-----------------------------------------------------------------------------
(* Properties.                                                              *)

PipelineTypeOK ==
  /\ \A r \in rows : r.id \in Ids /\ \E e \in Events : r = Row(r.id, e)
  /\ Cardinality(rows) = Cardinality({r.id : r \in rows})

\* The Spark pipeline computes the reference's features and splits where times are whole
\* seconds, with any number of rows at the same time (docstring of spark_pipeline: "feature
\* by feature").  Below the second it does not: there its order, gaps and cut-offs differ.
SparkMirrorsPandas ==
  (\A r \in rows : r.at % Second = 0) =>
    \A r \in rows : /\ HistorySpark(rows, r) = HistoryPandas(rows, r)
                    /\ SplitSpark(rows, r) = SplitPandas(rows, r)

\* Both splits go forward in time and separate no two rows of one instant, the training
\* and validation shares never exceed 70 % and 85 % of the rows, and the audit passes them.
SplitGoesForward ==
  LET Share(Split(_, _), names) == Cardinality({r \in rows : Split(rows, r) \in names}) * 100
  IN  /\ \A r, s \in rows :
           /\ SplitPandas(rows, r) = "train" /\ SplitPandas(rows, s) # "train" => r.at < s.at
           /\ SplitPandas(rows, r) # "test" /\ SplitPandas(rows, s) = "test" => r.at < s.at
      /\ Share(SplitPandas, {"train"}) <= 70 * Cardinality(rows)
      /\ Share(SplitPandas, {"train", "validation"}) <= 85 * Cardinality(rows)
      /\ Share(SplitSpark, {"train"}) <= 70 * Cardinality(rows)
      /\ Share(SplitSpark, {"train", "validation"}) <= 85 * Cardinality(rows)
      /\ PassesAudit(rows, [r \in rows |-> SplitPandas(rows, r)])

\* A split that passes the audit trains on nothing that happened after a row it is tested
\* on, whoever supplied it, provided the validation split is not empty.
AuditKeepsTheFutureOut ==
  \A split \in [rows -> {"train", "validation", "test"}] :
    PassesAudit(rows, split) /\ In(rows, split, "validation") # {} =>
      \A r \in In(rows, split, "train"), s \in In(rows, split, "test") : r.at <= s.at

\* No feature reads a later event: a row's history is what it is whatever is loaded after
\* it, unless the new row comes before it in its customer's order.
HistoryIgnoresTheFuture ==
  [][\A r \in rows :
       HistoryPandas(rows', r) # HistoryPandas(rows, r) =>
         \E new \in rows' \ rows :
           new.cust = r.cust /\ (new.at < r.at \/ (new.at = r.at /\ new.id < r.id))]_rows

\* The notebook's features are the pipeline's, however its frame orders the customers, and
\* its split differs only about rows at the very time of one of the pipeline's cut-offs,
\* which it may put into the earlier split.
NotebookMirrorsPandas ==
  \A r \in rows :
    /\ \A order \in Orders : HistoryNotebook(rows, order, r) = HistoryPandas(rows, r)
    /\ SplitNotebook(rows, r) # SplitPandas(rows, r) =>
         /\ r.at \in {Cutoff(rows, 70), Cutoff(rows, 85)}
         /\ SplitPandas(rows, r) # "train" /\ SplitNotebook(rows, r) # "test"

\* The notebook's split goes forward in time as well, and a row's sequence holds its own
\* customer's latest events up to the row, never another's and never a later one: no token
\* is of a later split than the row it is used for.
SequencesStayInThePast ==
  \A r, s \in rows :
    /\ SplitNotebook(rows, r) = "train" /\ SplitNotebook(rows, s) # "train" => r.at < s.at
    /\ SplitNotebook(rows, r) # "test" /\ SplitNotebook(rows, s) = "test" => r.at < s.at
    /\ \A order \in Orders :
         LET later == {q \in UpTo(rows, r) : Position(rows, q) > Position(rows, s)}
         IN  s \in SequenceOf(rows, order, r) <=>
               s \in UpTo(rows, r) /\ Cardinality(later) < MaxLen

\* The checks add_history_features makes of its own result can never fail.
FirstEventHasNoHistory ==
  \A r \in rows :
    LET h == HistoryPandas(rows, r)
    IN  IF h.events = 0 THEN h.gap = NoGap /\ h.retries = 0 /\ h.same = 0
        ELSE h.gap \in Nat

\* Three implementations of the features and the split agree.
PipelinesAgree == PipelineTypeOK /\ SparkMirrorsPandas /\ NotebookMirrorsPandas

\* Nothing a row is described or judged by happened after it: by the features, the
\* sequences, the splits and the audit that guards them.
NoLookAhead ==
  /\ [](FirstEventHasNoHistory /\ SplitGoesForward /\ AuditKeepsTheFutureOut
         /\ SequencesStayInThePast)
  /\ HistoryIgnoresTheFuture

=============================================================================
