----------------------------- MODULE AlertFilter ----------------------------
(***************************************************************************)
(* evaluate_alert (src/alert_reviewer/alert_filter.py): the decision on    *)
(* the payload of one Kipu alert, v1 and v2, beside the typed contract     *)
(* (kipu_contract.py) that the queue applies to the same payload.          *)
(*                                                                         *)
(* Rates, drops and rejection changes are percentages, scores and amounts  *)
(* integers, so the tolerances (1e-9 and 1e-6, there for binary rounding)  *)
(* become equalities.  Absent is a missing or null field; Bad a value of   *)
(* the wrong JSON type, not finite, or a blank text.  Every check is in    *)
(* the order of the code: the first that fails is the reason.              *)
(*                                                                         *)
(* Texts and dates have a form.  The filter strips them and reads them     *)
(* with Python's own parsers; the contract hands the value as it was sent  *)
(* to pydantic's, which take fewer: "loose" is what only the filter reads, *)
(* such as a padded or basic ISO timestamp, or a text that is not valid    *)
(* Unicode.  A timestamp is a record [at, form], at being its instant.     *)
(***************************************************************************)
EXTENDS Integers, Sequences, FiniteSets

CONSTANTS
    Policy,    \* the FilterPolicy
    Absent, Bad,
    Seeds,     \* alerts as the producer first sends them
    Domain,    \* Domain[f]: the values the producer may give to field f
    MaxEdits   \* bound: fields changed after the first publication

DefaultPolicy == [
    minimum_transactions |-> 20, minimum_declined_count |-> 20,
    required_criticality |-> "critica",
    mass_impact |-> [total |-> 100, rate |-> 15],
    severe |-> [total |-> 50, rate |-> 20, drop |-> 5],
    extreme |-> [total |-> 20, rate |-> 10, drop |-> 10],
    collapse |-> [total |-> 100, rate |-> 50, drop |-> 10],
    predictive_minimum_transactions |-> 50, q10_gap |-> 5,
    excess_count |-> 5, excess_ratio |-> 5,
    ta_low_threshold |-> 65, ta_critical_threshold |-> 55,
    zscore_mad_threshold |-> 3, alert_min_criteria |-> 2, alert_min_volume |-> 5,
    doubling_min_mean |-> 5, doubling_multiplier |-> 2,
    spike_weeks |-> 4, spike_total |-> 50, spike_baseline |-> 10,
    spike_ratio |-> 20, spike_oldest |-> 1,
    tpv_low |-> 1000, tpv_mid |-> 10000, tpv_high |-> 100000,
    critical_priority |-> 70, high_priority |-> 50, medium_priority |-> 30,
    forest_threshold |-> 0]

\* What FilterPolicy refuses to be built without.
PolicyOK(p) ==
    /\ p.required_criticality = "critica"
    /\ \A n \in {p.minimum_transactions, p.minimum_declined_count,
                 p.mass_impact.total, p.severe.total, p.extreme.total,
                 p.collapse.total, p.predictive_minimum_transactions,
                 p.alert_min_criteria, p.alert_min_volume, p.spike_weeks,
                 p.spike_total, p.spike_oldest} : n \in Nat /\ n >= 1
    /\ \A r \in {p.mass_impact.rate, p.severe.rate, p.extreme.rate,
                 p.collapse.rate, p.excess_ratio, p.ta_low_threshold,
                 p.ta_critical_threshold} : r \in 0..100
    /\ \A d \in {p.severe.drop, p.extreme.drop, p.collapse.drop, p.q10_gap,
                 p.excess_count} : d \in Nat
    /\ \A n \in {p.zscore_mad_threshold, p.doubling_min_mean,
                 p.doubling_multiplier, p.spike_baseline, p.spike_ratio,
                 p.tpv_low, p.tpv_mid, p.tpv_high, p.critical_priority,
                 p.high_priority, p.medium_priority} : n \in Nat /\ n > 0
    /\ p.tpv_low < p.tpv_mid /\ p.tpv_mid < p.tpv_high
    /\ p.medium_priority < p.high_priority
    /\ p.high_priority < p.critical_priority /\ p.critical_priority <= 100

\* Every field of either contract; one that is not sent is Absent.
Fields == {"schema", "text", "timestamp", "superseded", "criticality", "rate",
    "total", "declined", "rolling", "q10", "q50", "q90", "dc90", "priority",
    "published", "observed", "producer", "batch", "thresholds", "window",
    "approved", "unknown", "historical", "amount", "codes", "criteria",
    "flagMerchant", "flagGlobal", "flagSpike", "zRate", "zDeclines",
    "avgDeclines", "q95Declines", "change", "ratio", "baseline", "oldest",
    "forestMerchant", "forestGlobal", "components",
    "unread"}  \* alert_summary, top_rejections, anomaly_type, cluster_profile

ASSUME PolicyAssumption == PolicyOK(Policy)
ASSUME ValuesAssumption == Absent \notin Int
ASSUME SeedsAssumption ==
    DOMAIN Domain \subseteq Fields /\ \A a \in Seeds : DOMAIN a = Fields

-----------------------------------------------------------------------------
(* Values of fields *)

IsRate(x) == x \in 0..100
IsCount(x) == x \in Nat
IsScore(x) == x \in 0..100
Optional(x, Is(_)) == x = Absent \/ Is(x)
IsNumber(x) == x \in Int
Criticality == {"critica", "alta", "media", "baja"}
Given(x) == x # Absent
Present(x) == x \notin {Absent, Bad}
Strict(stamp) == Present(stamp) /\ stamp.form = "strict"

\* The reason of the first check <<holds, reason>> that does not hold.
FirstFailure(checks) ==
    LET failed == {i \in DOMAIN checks : ~checks[i][1]}
    IN  IF failed = {} THEN "none"
        ELSE checks[CHOOSE i \in failed : \A j \in failed : i <= j][2]

\* Python's round(): to the nearest integer, a half to the even one.
RoundPercent(n, percent) ==
    LET whole == (n * percent) \div 100
        rest == (n * percent) % 100
    IN  IF rest > 50 \/ (rest = 50 /\ whole % 2 = 1) THEN whole + 1 ELSE whole

Rejected(reason) == [accepted |-> FALSE, reasons |-> {reason}]
Accepted(signals) == [accepted |-> TRUE, reasons |-> signals]

-----------------------------------------------------------------------------
(* Contract v1 *)

V1Checks(a) == <<
    <<Present(a.text), "MISSING_REQUIRED_FIELD">>,
    <<a.schema = "1.0", "UNSUPPORTED_SCHEMA">>,
    <<Present(a.timestamp), "INVALID_TIMESTAMP">>,
    <<a.superseded \in {Absent, "2.0"}, "INVALID_OPTIONAL_METRIC">>,
    <<a.superseded = Absent, "SUPERSEDED_BY_V2">>,
    <<a.criticality \in Criticality, "INVALID_CRITICALITY">>,
    <<IsRate(a.rate), "INVALID_RATE">>,
    <<IsCount(a.total) /\ IsCount(a.declined) /\ a.declined <= a.total,
        "INVALID_COUNTS">>,
    <<IsCount(a.total) => a.total >= Policy.minimum_transactions,
        "INSUFFICIENT_VOLUME">>,
    <<(IsCount(a.total) /\ IsCount(a.declined) /\ IsRate(a.rate)) =>
        RoundPercent(a.total, a.rate) + a.declined <= a.total + 1,
        "INCONSISTENT_COUNTS">>,
    <<\A x \in {a.rolling, a.q10, a.q50, a.q90} : Optional(x, IsRate),
        "INVALID_OPTIONAL_METRIC">>,
    <<Optional(a.priority, IsScore), "INVALID_OPTIONAL_METRIC">>,
    <<Optional(a.dc90, IsCount), "INVALID_OPTIONAL_METRIC">> >>

\* The quantiles that are given are in order.
Ascending(quantiles) ==
    LET given == SelectSeq(quantiles, Given)
    IN  \A i \in 1..Len(given) - 1 : given[i] <= given[i + 1]

V1Gates(a) == <<
    <<Ascending(<<a.q10, a.q50, a.q90>>), "INVALID_QUANTILES">>,
    <<a.criticality = Policy.required_criticality, "NON_CRITICAL_ALERT">>,
    <<a.declined >= Policy.minimum_declined_count, "INSUFFICIENT_DECLINE_IMPACT">> >>

\* A low rate on enough transactions, after a drop from the rolling average.
Deteriorated(a, limit) ==
    /\ Given(a.rolling)
    /\ a.total >= limit.total
    /\ a.rate <= limit.rate
    /\ a.rolling - a.rate >= limit.drop

\* Defective variant of BelowQuantile: the difference is taken the other way.
BelowQuantileSwapped(a) ==
    /\ Given(a.q10)
    /\ a.total >= Policy.predictive_minimum_transactions
    /\ a.rate - a.q10 >= Policy.q10_gap

\* A rate below the predicted q10 by the gap of the policy.
BelowQuantile(a) ==
    /\ Given(a.q10)
    /\ a.total >= Policy.predictive_minimum_transactions
    /\ a.q10 - a.rate >= Policy.q10_gap

\* Declines over the predicted q90 by the larger of a count and a share.
ExcessDeclines(a) ==
    /\ Given(a.dc90)
    /\ a.total >= Policy.predictive_minimum_transactions
    /\ a.declined - a.dc90 >= Policy.excess_count
    /\ 100 * (a.declined - a.dc90) >= a.total * Policy.excess_ratio

V1Signals(a) ==
    (IF a.total >= Policy.mass_impact.total /\ a.rate <= Policy.mass_impact.rate
     THEN {"MASS_IMPACT_LOW_APPROVAL_RATE"} ELSE {})
    \cup (IF Deteriorated(a, Policy.severe)
          THEN {"SEVERE_APPROVAL_DETERIORATION"} ELSE {})
    \cup (IF Deteriorated(a, Policy.extreme)
          THEN {"EXTREME_LOW_APPROVAL_WITH_DROP"} ELSE {})
    \cup (IF Deteriorated(a, Policy.collapse)
          THEN {"HIGH_VOLUME_APPROVAL_COLLAPSE"} ELSE {})
    \cup (IF BelowQuantile(a)
          THEN {"MATERIAL_BELOW_PREDICTED_Q10"} ELSE {})
    \cup (IF ExcessDeclines(a)
          THEN {"MATERIAL_DECLINES_ABOVE_PREDICTED_Q90"} ELSE {})

EvaluateV1(a) ==
    LET shape == FirstFailure(V1Checks(a))
    IN  IF shape # "none" THEN Rejected(shape)
        ELSE LET gate == FirstFailure(V1Gates(a))
             IN  IF gate # "none" THEN Rejected(gate)
                 ELSE IF V1Signals(a) = {} THEN Rejected("NO_CRITICAL_SIGNAL")
                 ELSE Accepted(V1Signals(a))

-----------------------------------------------------------------------------
(* Contract v2: shape and metadata *)

CriteriaCodes == {"LOW_APPROVAL_RATE", "APPROVAL_RATE_MAD_DROP",
                  "DECLINES_ABOVE_P95", "DECLINES_DOUBLED"}
MLCodes == {"ML_MERCHANT_ANOMALY", "ML_GLOBAL_ANOMALY"}
SignalCodes == CriteriaCodes \cup MLCodes \cup {"VOLUME_SPIKE"}

\* The order in which policy_thresholds is compared.
ThresholdNames == <<
    "ta_low_threshold", "ta_critical_threshold", "zscore_mad_threshold",
    "alert_min_criteria", "alert_min_volume", "doubling_min_mean",
    "doubling_multiplier", "spike_weeks", "spike_total", "spike_baseline",
    "spike_ratio", "tpv_low", "tpv_mid", "tpv_high", "critical_priority",
    "high_priority", "medium_priority", "forest_threshold" >>

\* What the producer must declare, entry by entry.
ExpectedThresholds ==
    [f \in {ThresholdNames[i] : i \in DOMAIN ThresholdNames} |-> Policy[f]]

\* Name by name: the first entry that is not as expected has the wrong type or
\* another value.
ThresholdReason(raw) ==
    IF ~Present(raw) THEN "INVALID_V2_METADATA"
    ELSE IF DOMAIN raw # DOMAIN ExpectedThresholds THEN "PRODUCER_POLICY_DRIFT"
    ELSE LET Entry(i) == raw[ThresholdNames[i]]
             wrong == {i \in DOMAIN ThresholdNames :
                          ~IsNumber(Entry(i)) \/ Entry(i) # Policy[ThresholdNames[i]]}
             first == CHOOSE i \in wrong : \A j \in wrong : i <= j
         IN  IF wrong = {} THEN "none"
             ELSE IF IsNumber(Entry(first)) THEN "PRODUCER_POLICY_DRIFT"
             ELSE "INVALID_V2_METADATA"

Counts(a) == <<a.total, a.approved, a.declined, a.unknown>>
CountsInRange(a) ==
    \A i \in 1..4 : IsCount(Counts(a)[i]) /\ Counts(a)[i] <= a.total
\* approval_rate is approved_count / total_transactions.
RateOfCounts(a) ==
    /\ a.approved + a.declined + a.unknown = a.total
    /\ a.total # 0
    /\ a.rate * a.total = 100 * a.approved

V2Checks(a) == <<
    <<Present(a.text), "MISSING_REQUIRED_FIELD">>,
    <<Present(a.timestamp) /\ Present(a.published), "INVALID_TIMESTAMP">>,
    <<(Present(a.timestamp) /\ Present(a.published)) =>
        Present(a.observed) /\ a.timestamp.at = a.published.at, "INVALID_V2_METADATA">>,
    <<a.producer = "expected" /\ a.batch # Bad, "INVALID_V2_METADATA">>,
    <<ThresholdReason(a.thresholds) = "none", ThresholdReason(a.thresholds)>>,
    <<IsCount(a.window) /\ a.window # 0, "INVALID_V2_METADATA">>,
    <<a.criticality \in Criticality, "INVALID_CRITICALITY">>,
    <<a.criticality = "critica", "NON_CRITICAL_ALERT">>,
    <<IsRate(a.rate), "INVALID_RATE">>,
    <<CountsInRange(a), "INVALID_COUNTS">>,
    <<(CountsInRange(a) /\ IsRate(a.rate)) => RateOfCounts(a), "INCONSISTENT_COUNTS">>,
    <<Optional(a.rolling, IsRate) /\ Optional(a.historical, IsRate),
        "INVALID_OPTIONAL_METRIC">>,
    <<Optional(a.amount, IsCount), "INVALID_OPTIONAL_METRIC">>,
    <<Present(a.codes), "INVALID_SIGNAL_CODES">>,
    <<a.criteria \in 0..4, "INVALID_COUNTS">>,
    <<\A flag \in {a.flagMerchant, a.flagGlobal, a.flagSpike} : flag \in BOOLEAN,
        "INVALID_OPTIONAL_METRIC">>,
    <<\A x \in {a.zRate, a.zDeclines, a.change, a.forestMerchant, a.forestGlobal} :
        Optional(x, IsNumber), "INVALID_OPTIONAL_METRIC">>,
    <<\A x \in {a.avgDeclines, a.q95Declines, a.ratio, a.baseline, a.oldest} :
        Optional(x, IsCount), "INVALID_OPTIONAL_METRIC">> >>

-----------------------------------------------------------------------------
(* Contract v2: the declared evidence against what the metrics support *)

Doubling(a) == Given(a.avgDeclines) /\ a.avgDeclines > Policy.doubling_min_mean

MLSupported(score) == Given(score) /\ score < Policy.forest_threshold

SpikeGiven(a) == {a.ratio, a.baseline, a.oldest} # {Absent}
SpikeComplete(a) == Given(a.ratio) /\ Given(a.baseline) /\ Given(a.oldest)
\* volume_ratio is total / (baseline + 0.1).
RatioOfCounts(a) == a.ratio * (10 * a.baseline + 1) = 10 * a.total
SpikeSupported(a) ==
    /\ SpikeComplete(a)
    /\ a.total >= Policy.spike_total /\ a.baseline >= Policy.spike_baseline
    /\ a.ratio >= Policy.spike_ratio /\ a.oldest >= Policy.spike_oldest

\* The codes the metrics of the alert support.
ActualCodes(a) == {c \in SignalCodes :
    \/ c = "LOW_APPROVAL_RATE" /\ a.rate < Policy.ta_low_threshold
    \/ c = "APPROVAL_RATE_MAD_DROP" /\ Given(a.zRate)
       /\ a.zRate < -Policy.zscore_mad_threshold
    \/ c = "DECLINES_ABOVE_P95" /\ Given(a.zDeclines) /\ Given(a.q95Declines)
       /\ a.zDeclines > Policy.zscore_mad_threshold /\ a.declined > a.q95Declines
    \/ c = "DECLINES_DOUBLED" /\ Doubling(a)
       /\ a.declined >= Policy.doubling_multiplier * a.avgDeclines
    \/ c = "ML_MERCHANT_ANOMALY" /\ MLSupported(a.forestMerchant)
    \/ c = "ML_GLOBAL_ANOMALY" /\ MLSupported(a.forestGlobal)
    \/ c = "VOLUME_SPIKE" /\ SpikeSupported(a)}

\* A declared code or flag comes with the metrics that can prove it.
EvidenceChecks(a) == <<
    <<"APPROVAL_RATE_MAD_DROP" \in a.codes => Given(a.zRate),
        "INCOMPLETE_SIGNAL_EVIDENCE">>,
    <<"DECLINES_ABOVE_P95" \in a.codes => Given(a.zDeclines) /\ Given(a.q95Declines),
        "INCOMPLETE_SIGNAL_EVIDENCE">>,
    <<"DECLINES_DOUBLED" \in a.codes => Given(a.avgDeclines),
        "INCOMPLETE_SIGNAL_EVIDENCE">>,
    <<~Given(a.avgDeclines) => ~Given(a.change), "INCOMPLETE_SIGNAL_EVIDENCE">>,
    <<Doubling(a) => Given(a.change), "INCOMPLETE_SIGNAL_EVIDENCE">>,
    <<(Doubling(a) /\ Given(a.change)) =>
        a.change * a.avgDeclines = 100 * (a.declined - a.avgDeclines),
        "SIGNAL_EVIDENCE_MISMATCH">>,
    <<Given(a.change) => Doubling(a), "SIGNAL_EVIDENCE_MISMATCH">>,
    <<~Given(a.forestMerchant) =>
        ~a.flagMerchant /\ "ML_MERCHANT_ANOMALY" \notin a.codes,
        "INCOMPLETE_SIGNAL_EVIDENCE">>,
    <<Given(a.forestMerchant) => a.flagMerchant = MLSupported(a.forestMerchant),
        "SIGNAL_EVIDENCE_MISMATCH">>,
    <<~Given(a.forestGlobal) => ~a.flagGlobal /\ "ML_GLOBAL_ANOMALY" \notin a.codes,
        "INCOMPLETE_SIGNAL_EVIDENCE">>,
    <<Given(a.forestGlobal) => a.flagGlobal = MLSupported(a.forestGlobal),
        "SIGNAL_EVIDENCE_MISMATCH">>,
    <<(SpikeGiven(a) \/ a.flagSpike \/ "VOLUME_SPIKE" \in a.codes) => SpikeComplete(a),
        "INCOMPLETE_SIGNAL_EVIDENCE">>,
    <<SpikeComplete(a) => RatioOfCounts(a), "SIGNAL_EVIDENCE_MISMATCH">>,
    <<a.flagSpike = SpikeSupported(a), "SIGNAL_EVIDENCE_MISMATCH">> >>

\* Defective variant of DeclaredChecks: a declared code needs no support.
DeclaredChecksTrusting(a) == <<
    <<ActualCodes(a) \subseteq a.codes, "SIGNAL_EVIDENCE_MISMATCH">>,
    <<a.criteria = Cardinality(ActualCodes(a) \cap CriteriaCodes),
        "CRITERIA_COUNT_MISMATCH">> >>

DeclaredChecks(a) == <<
    <<a.codes = ActualCodes(a), "SIGNAL_EVIDENCE_MISMATCH">>,
    <<a.criteria = Cardinality(ActualCodes(a) \cap CriteriaCodes),
        "CRITERIA_COUNT_MISMATCH">> >>

DetectionGate(a) ==
    LET codes == ActualCodes(a)
        criteria == Cardinality(codes \cap CriteriaCodes)
    IN  \/ "VOLUME_SPIKE" \in codes
        \/ /\ a.total >= Policy.alert_min_volume
           /\ \/ criteria >= Policy.alert_min_criteria
              \/ criteria >= 1 /\ codes \cap MLCodes # {}
              \/ criteria >= 1 /\ a.rate < Policy.ta_critical_threshold

-----------------------------------------------------------------------------
(* Contract v2: the priority *)

AtMost(x, bound) == IF x < bound THEN x ELSE bound
Steps(x, low, mid, high) ==
    IF x > high THEN 30 ELSE IF x > mid THEN 20 ELSE IF x > low THEN 10 ELSE 5

VolumeScore(a) ==
    LET count == Steps(a.total, 100, 1000, 10000)
        tpv == IF Given(a.amount)
               THEN Steps(a.amount, Policy.tpv_low, Policy.tpv_mid, Policy.tpv_high)
               ELSE 0
    IN  IF tpv > count THEN tpv ELSE count

ApprovalScore(a) ==
    IF a.rate < 50 THEN 40
    ELSE IF a.rate < 65 THEN 30
    ELSE IF a.rate < 75 THEN 15 ELSE 5

\* Defective variant of AnomalyScore: the score is not capped.
AnomalyScoreUncapped(a) ==
    LET codes == ActualCodes(a)
        Points(code, n) == IF code \in codes THEN n ELSE 0
    IN  Points("DECLINES_ABOVE_P95", 15) + Points("LOW_APPROVAL_RATE", 10)
        + Points("APPROVAL_RATE_MAD_DROP", 10)
        + (IF a.rate < Policy.ta_critical_threshold THEN 15 ELSE 0)
        + Points("ML_MERCHANT_ANOMALY", 12) + Points("ML_GLOBAL_ANOMALY", 8)
        + Points("VOLUME_SPIKE", 15)

AnomalyScore(a) ==
    LET codes == ActualCodes(a)
        Points(code, n) == IF code \in codes THEN n ELSE 0
    IN  AtMost(Points("DECLINES_ABOVE_P95", 15) + Points("LOW_APPROVAL_RATE", 10)
               + Points("APPROVAL_RATE_MAD_DROP", 10)
               + (IF a.rate < Policy.ta_critical_threshold THEN 15 ELSE 0)
               + Points("ML_MERCHANT_ANOMALY", 12) + Points("ML_GLOBAL_ANOMALY", 8)
               + Points("VOLUME_SPIKE", 15), 30)

Components(a) == [volume_score |-> VolumeScore(a),
                  approval_rate_score |-> ApprovalScore(a),
                  anomaly_score |-> AnomalyScore(a)]
ExpectedPriority(a) == VolumeScore(a) + ApprovalScore(a) + AnomalyScore(a)

PriorityChecks(a) == <<
    <<DetectionGate(a), "KIPU_DETECTION_GATE_NOT_MET">>,
    <<IsScore(a.priority), "INVALID_OPTIONAL_METRIC">>,
    <<a.priority = ExpectedPriority(a), "PRIORITY_COMPONENTS_MISMATCH">>,
    <<Present(a.components), "INVALID_PRIORITY_COMPONENTS">>,
    <<a.components = Components(a), "PRIORITY_COMPONENTS_MISMATCH">>,
    <<IsScore(a.priority) => a.priority >= Policy.critical_priority,
        "PRIORITY_BELOW_CRITICAL_THRESHOLD">> >>

EvaluateV2(a) ==
    LET shape == FirstFailure(V2Checks(a))
    IN  IF shape # "none" THEN Rejected(shape)
        ELSE LET proof == FirstFailure(EvidenceChecks(a) \o DeclaredChecks(a)
                                       \o PriorityChecks(a))
             IN  IF proof # "none" THEN Rejected(proof)
                 ELSE Accepted(ActualCodes(a))

EvaluateAlert(a) == IF a.schema = "2.0" THEN EvaluateV2(a) ELSE EvaluateV1(a)

-----------------------------------------------------------------------------
(* The typed contracts *)

\* alert_summary and the other fields the filter never reads are typed too.
ContractBase(a) ==
    /\ a.text \notin {Absent, Bad, "loose"} /\ Strict(a.timestamp) /\ a.unread # Bad
    /\ a.criticality \in Criticality
    /\ IsRate(a.rate) /\ IsCount(a.total) /\ IsCount(a.declined)
    /\ Optional(a.rolling, IsRate)

\* Defective variant of KipuAlert: the predicted declines are not bounded below.
KipuAlertUnbounded(a) ==
    /\ ContractBase(a)
    /\ \A x \in {a.q10, a.q50, a.q90} : Optional(x, IsRate)
    /\ Optional(a.priority, IsScore)
    /\ Optional(a.dc90, IsNumber)
    /\ a.superseded \in {Absent, "2.0"}

KipuAlert(a) ==
    /\ ContractBase(a)
    /\ \A x \in {a.q10, a.q50, a.q90} : Optional(x, IsRate)
    /\ Optional(a.priority, IsScore)
    /\ Optional(a.dc90, IsCount)
    /\ a.superseded \in {Absent, "2.0"}

KipuPolicyThresholds(raw) ==
    Present(raw) /\ DOMAIN raw = DOMAIN ExpectedThresholds
    /\ \A f \in DOMAIN raw : IsNumber(raw[f])

KipuPriorityComponents(raw) ==
    Present(raw) /\ raw.volume_score \in 0..30
    /\ raw.approval_rate_score \in 0..40 /\ raw.anomaly_score \in 0..30

KipuAlertV2(a) ==
    /\ ContractBase(a)
    /\ Strict(a.published) /\ a.observed \notin {Absent, Bad, "loose"}
    /\ a.producer \in {"expected", "other policy"} /\ a.batch # Bad
    /\ IsCount(a.approved) /\ IsCount(a.unknown)
    /\ Optional(a.historical, IsRate) /\ Optional(a.amount, IsCount)
    /\ Present(a.codes) /\ a.criteria \in 0..4
    /\ \A x \in {a.zRate, a.zDeclines, a.change, a.forestMerchant, a.forestGlobal} :
          Optional(x, IsNumber)
    /\ \A x \in {a.avgDeclines, a.q95Declines, a.ratio, a.baseline, a.oldest} :
          Optional(x, IsCount)
    /\ \A flag \in {a.flagMerchant, a.flagGlobal, a.flagSpike} : flag \in BOOLEAN
    /\ IsCount(a.window) /\ a.window # 0
    /\ IsScore(a.priority)
    /\ KipuPriorityComponents(a.components)
    /\ KipuPolicyThresholds(a.thresholds)

Contract(a) ==
    \/ a.schema = "1.0" /\ KipuAlert(a)
    \/ a.schema = "2.0" /\ KipuAlertV2(a)

-----------------------------------------------------------------------------
(* Publications of one alert *)

VARIABLES
    alert,    \* the last publication
    edits,    \* how many fields it differs in from the first
    outcome   \* what the filter decides of it

vars == <<alert, edits, outcome>>

Init ==
    /\ alert \in Seeds
    /\ edits = 0
    /\ outcome = EvaluateAlert(alert)

\* The producer sends the alert again with another value of one field.
Republish(f, v) ==
    /\ edits < MaxEdits
    /\ v # alert[f]
    /\ alert' = [alert EXCEPT ![f] = v]
    /\ edits' = edits + 1
    /\ outcome' = EvaluateAlert(alert')

Next == \E f \in DOMAIN Domain : \E v \in Domain[f] : Republish(f, v)

Spec == Init /\ [][Next]_vars

-----------------------------------------------------------------------------
(* Properties *)

\* Reasons that blame one field on its own, which the contract checks too.
FieldReasons == {"MISSING_REQUIRED_FIELD", "UNSUPPORTED_SCHEMA", "INVALID_TIMESTAMP",
    "INVALID_CRITICALITY", "INVALID_RATE", "INVALID_OPTIONAL_METRIC",
    "INVALID_SIGNAL_CODES", "INVALID_PRIORITY_COMPONENTS"}

\* What pydantic refuses and the filter takes: a text or date in a form that
\* only Python's parsers read, and a field the filter does not look at.
PydanticRefuses(a) ==
    \/ a.text = "loose" \/ ~Strict(a.timestamp) \/ a.unread = Bad
    \/ a.schema = "2.0" /\ (~Strict(a.published) \/ a.observed = "loose")

\* The filter (files, Slack, manual snapshots) and the contract (the queue)
\* validate the same payload with separate code.  Of what the filter accepts,
\* the contract refuses the loose forms and the ill-typed unread fields, and
\* nothing else; what the contract accepts the filter never rejects for the
\* form of a field.
ValidatorsAgree ==
    /\ outcome.accepted => (Contract(alert) <=> ~PydanticRefuses(alert))
    /\ Contract(alert) => outcome.reasons \cap FieldReasons = {}

\* Fields of v2 that the producer derives from the others.
Declared == {"codes", "criteria", "flagMerchant", "flagGlobal", "flagSpike",
             "change", "ratio", "priority", "components"}

\* The metrics of an accepted v2 alert determine every field derived from
\* them: a publication that changes derived fields only is rejected.
DerivedFieldsAreProved ==
    [][(/\ alert.schema = "2.0" /\ outcome.accepted
        /\ \A f \in DOMAIN alert \ Declared : alert'[f] = alert[f])
       => ~outcome'.accepted]_vars

\* v2 acceptance, through codes, gate and priority together, never reaches an
\* approval rate of 75 percent; from 65 on it takes the greatest volume score
\* and two independent signals.
OnlySevereAccepted ==
    (alert.schema = "2.0" /\ outcome.accepted) =>
        /\ alert.rate < 75
        /\ alert.rate >= 65 =>
             VolumeScore(alert) = 30 /\ Cardinality(ActualCodes(alert)) >= 2

\* b is a with a lower approval rate, more declines or a higher average.
Worse(a, b) ==
    /\ \A f \in DOMAIN a \ {"rate", "declined", "rolling"} : a[f] = b[f]
    /\ IsRate(b.rate) /\ b.rate <= a.rate
    /\ IsCount(b.declined) /\ b.declined >= a.declined
    /\ a.rolling = b.rolling
       \/ (IsRate(a.rolling) /\ IsRate(b.rolling) /\ a.rolling <= b.rolling)

\* An accepted v1 alert that gets worse stays accepted, unless its counts
\* contradict each other: no gate or signal loses it.
WorseningStaysAccepted ==
    [][(alert.schema = "1.0" /\ outcome.accepted /\ Worse(alert, alert'))
       => \/ outcome'.accepted
          \/ outcome'.reasons \subseteq {"INVALID_COUNTS", "INCONSISTENT_COUNTS"}]_vars
=============================================================================
