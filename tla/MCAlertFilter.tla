---------------------------- MODULE MCAlertFilter ---------------------------
(* Instances of AlertFilter for TLC: alerts an honest producer derives from   *)
(* small sets of metrics, and the values it may give to one field later.      *)
EXTENDS AlertFilter

Blank == [f \in Fields |-> Absent]

Stamp(at, form) == [at |-> at, form |-> form]

V1Seed(total, rate, rolling, q10, dc90) == [Blank EXCEPT
    !.schema = "1.0", !.text = "text", !.timestamp = Stamp(1, "strict"),
    !.criticality = "critica",
    !.total = total, !.rate = rate, !.declined = total - RoundPercent(total, rate),
    !.rolling = rolling, !.q10 = q10, !.dc90 = dc90]

\* The derived fields as the detector publishes them.
Derive(a) == [a EXCEPT
    !.codes = ActualCodes(a),
    !.criteria = Cardinality(ActualCodes(a) \cap CriteriaCodes),
    !.flagMerchant = MLSupported(a.forestMerchant),
    !.flagGlobal = MLSupported(a.forestGlobal),
    !.flagSpike = SpikeSupported(a),
    !.change = IF Doubling(a) THEN 100 ELSE Absent,
    !.priority = ExpectedPriority(a),
    !.components = Components(a)]

V2Seed(total, rate, amount, z, p95, doubled, forest, spike) ==
    LET approved == (total * rate) \div 100
        declined == total - approved
    IN  Derive([Blank EXCEPT
            !.schema = "2.0", !.text = "text",
            !.timestamp = Stamp(1, "strict"), !.published = Stamp(1, "strict"),
            !.observed = "date", !.producer = "expected",
            !.thresholds = ExpectedThresholds, !.window = 14,
            !.criticality = "critica", !.total = total, !.rate = rate,
            !.approved = approved, !.declined = declined, !.unknown = 0,
            !.amount = amount, !.zRate = z,
            !.zDeclines = IF p95 THEN 4 ELSE Absent,
            !.q95Declines = IF p95 THEN declined - 1 ELSE Absent,
            !.avgDeclines = IF doubled THEN declined \div 2 ELSE Absent,
            !.forestMerchant = forest, !.forestGlobal = forest,
            !.baseline = IF spike THEN 10 ELSE Absent,
            !.ratio = IF spike THEN (10 * total) \div 101 ELSE Absent,
            !.oldest = IF spike THEN 1 ELSE Absent])

MCSeeds ==
    {V1Seed(total, rate, rolling, q10, dc90) :
        total \in {20, 50, 100}, rate \in {10, 15, 20, 50, 55},
        rolling \in {Absent, 25, 60}, q10 \in {Absent, 25}, dc90 \in {Absent, 40}}
    \cup {V2Seed(total, rate, amount, z, p95, doubled, forest, spike) :
        total \in {1010, 10100}, rate \in {40, 60, 70, 80},
        amount \in {Absent, 100001}, z \in {Absent, -4}, p95 \in BOOLEAN,
        doubled \in BOOLEAN, forest \in {Absent, -1}, spike \in BOOLEAN}
    \cup {V2Seed(20, rate, 100001, -4, p95, doubled, -1, FALSE) :
        rate \in {40, 60, 80}, p95 \in BOOLEAN, doubled \in BOOLEAN}

Number == {Absent, Bad, -4, 0, 10}
Count == {Absent, Bad, -1, 0, 10, 45, 1000}
Rate == {Absent, Bad, 5, 40, 101}
MCDomain == [
    schema |-> {"1.0", "2.0", Bad}, text |-> {"loose", Bad}, unread |-> {"text", Bad},
    timestamp |-> {Stamp(2, "strict"), Stamp(1, "loose"), Absent, Bad},
    published |-> {Stamp(2, "strict"), Stamp(1, "loose"), Absent, Bad},
    superseded |-> {"2.0", Bad}, criticality |-> {"alta", Bad},
    rate |-> Rate, total |-> Count, declined |-> Count, rolling |-> Rate,
    q10 |-> Rate, q50 |-> Rate, q90 |-> Rate, dc90 |-> Count,
    priority |-> {Absent, Bad, -1, 69, 70, 101},
    observed |-> {"loose", Bad}, producer |-> {"other policy", "other engine", Bad},
    batch |-> {"b", Bad}, window |-> {0, Bad},
    thresholds |-> {Bad, [ExpectedThresholds EXCEPT !.tpv_low = 1],
                    [ExpectedThresholds EXCEPT !.tpv_low = Bad],
                    [ExpectedThresholds EXCEPT !.tpv_low = 1, !.tpv_mid = Bad],
                    [f \in DOMAIN ExpectedThresholds \ {"tpv_low"} |-> 1]},
    approved |-> Count, unknown |-> Count, historical |-> Rate, amount |-> Count,
    codes |-> {Bad, {}, {"LOW_APPROVAL_RATE"}, {"VOLUME_SPIKE"}, SignalCodes},
    criteria |-> {Bad, 0, 2, 5}, flagMerchant |-> {TRUE, FALSE, Bad},
    flagGlobal |-> {TRUE, FALSE, Bad}, flagSpike |-> {TRUE, FALSE, Bad},
    zRate |-> Number, zDeclines |-> Number, avgDeclines |-> Count,
    q95Declines |-> Count, change |-> Number \cup {100}, ratio |-> Count,
    baseline |-> Count, oldest |-> Count, forestMerchant |-> Number,
    forestGlobal |-> Number,
    components |-> {Bad, [volume_score |-> 30, approval_rate_score |-> 40,
                          anomaly_score |-> 31]}]
=============================================================================
