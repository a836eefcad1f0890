--------------------------- MODULE AssuredAnalyst ---------------------------
(***************************************************************************)
(* GeminiAssuredAnalyst.analyze (src/alert_reviewer/guardian_assurance.py) *)
(* over a report of GuardianHistory: the verdict of                        *)
(* deterministic_verdict.py, up to 1 + MaxRetries answers of the model     *)
(* checked against it, and the fallback explanation.                       *)
(*                                                                         *)
(* The table is filled before the extraction: Athena reads one snapshot of *)
(* it, and nothing that arrives later is seen by this analysis.            *)
(***************************************************************************)
EXTENDS GuardianHistory

CONSTANTS
    Feed,         \* Feed[t]: the versions that may arrive with CDC time t
    AlertRate,    \* approval rates of alerts, in percent
    NoRate,       \* an alert without approval_rate
    MinDays,      \* MIN_OBSERVED_DAYS
    MinTotal,     \* MIN_TOTAL_TRANSACTIONS
    MaxRetries,
    NoReport, NoAnswer

ASSUME FeedAssumption == Feed \in [Time -> SUBSET Row]
ASSUME RateAssumption == AlertRate \subseteq Int /\ NoRate \notin AlertRate

DropThreshold == 10
TrendThreshold == 5

Alert == [schema : {"1.0", "2.0"}, rate : AlertRate \cup {NoRate}]

-----------------------------------------------------------------------------
(* deterministic_verdict.py *)

\* 100 times the drop from the history's rate to the alert's, times the total.
ScaledDrop(alert, metrics) == 100 * metrics[1] - alert.rate * metrics[2]
\* change_percentage_points < -TREND_DECLINE_THRESHOLD_PP
Declining(e) ==
    /\ e.first[2] # 0 /\ e.second[2] # 0
    /\ 100 * (e.second[1] * e.first[2] - e.first[1] * e.second[2])
         < -TrendThreshold * e.first[2] * e.second[2]

\* Defective variant of EvaluateVerdict: the trend alone decides.
EvaluateVerdictByTrend(alert, e) ==
    LET period == Rate(e.daily, DOMAIN e.daily)
    IN  IF e.observed = 0 \/ e.total = 0 THEN "no_data"
        ELSE IF e.observed < MinDays \/ e.total < MinTotal THEN "requires_review"
        ELSE IF alert.rate = NoRate THEN "requires_review"
        ELSE IF ScaledDrop(alert, period) >= DropThreshold * period[2]
                /\ ~Declining(e) THEN "confirmed"
        ELSE IF ScaledDrop(alert, period) > 0 /\ ScaledDrop(alert, period)
                  < DropThreshold * period[2] /\ Declining(e) THEN "confirmed"
        ELSE "requires_review"

EvaluateVerdict(alert, e) ==
    LET period == Rate(e.daily, DOMAIN e.daily)
    IN  IF e.observed = 0 \/ e.total = 0 THEN "no_data"
        ELSE IF e.observed < MinDays \/ e.total < MinTotal THEN "requires_review"
        ELSE IF alert.rate = NoRate THEN "requires_review"
        ELSE IF ScaledDrop(alert, period) >= DropThreshold * period[2] THEN "confirmed"
        ELSE IF ScaledDrop(alert, period) > 0 /\ Declining(e) THEN "confirmed"
        ELSE "requires_review"

-----------------------------------------------------------------------------
(* Answers and their citations *)

Verdicts == {"confirmed", "no_data", "requires_review"}
A0 == <<"alert", 0>>
Q0 == <<"quality", 0>>
DayIds(e) == {<<"day", i>> : i \in DOMAIN e.daily}
Ids(e) == {A0, Q0, <<"comparison", 0>>} \cup DayIds(e)

\* An answer: its verdict, what the verdict and the findings cite, and
\* whether its texts have the right form and only figures of the evidence.
Answer(verdict, cites, findings, formed, figures) ==
    [verdict |-> verdict, cites |-> cites, findings |-> findings,
     formed |-> formed, figures |-> figures]

\* _validate_guardian_analysis
WellFormed(a, e) ==
    /\ a.formed /\ a.verdict \in Verdicts
    /\ a.cites \subseteq Ids(e) /\ a.findings \subseteq Ids(e)
    /\ A0 \in a.cites /\ a.cites # {A0}
    /\ a.verdict = "confirmed" => a.cites \cap DayIds(e) # {}
    /\ a.verdict = "no_data" => Q0 \in a.cites
    /\ A0 \in a.findings /\ a.findings # {A0}

\* Defective variant of Fallback: it always cites the quality record.
FallbackQuality(verdict, e) == Answer(verdict, {A0, Q0}, {A0, Q0}, TRUE, TRUE)

\* deterministic_fallback_explanation
Fallback(verdict, e) ==
    LET day == IF DayIds(e) = {} THEN Q0 ELSE CHOOSE d \in DayIds(e) : TRUE
    IN  Answer(verdict, {A0, day}, IF verdict = "no_data" THEN {A0, Q0} ELSE {A0, day},
               TRUE, TRUE)

\* What the model may send back: any verdict, citations of several kinds.
ModelAnswer(e) ==
    {Answer(v, c, f, formed, figures) :
        v \in Verdicts \cup {"rejected"},
        c \in {{A0, Q0}, {A0} \cup DayIds(e), {A0}, {A0, <<"day", e.requested>>}},
        f \in {{A0, Q0}, {Q0}}, formed \in BOOLEAN, figures \in BOOLEAN}

-----------------------------------------------------------------------------
VARIABLES
    table,    \* the CDC rows of the merchant
    report,   \* the stored report, NoReport before the extraction
    alert,    \* the alert under analysis
    pc,       \* "idle", "stored", "model", "answered" or "refused"
    attempt,  \* rejected answers of the model
    answer    \* what analyze returned

vars == <<table, report, alert, pc, attempt, answer>>

Init ==
    /\ table = {}
    /\ report = NoReport
    /\ alert \in Alert
    /\ pc = "idle"
    /\ attempt = 0
    /\ answer = NoAnswer

\* A version arrives, in any order of CDC times.
Ingest(r) ==
    /\ pc = "idle"
    /\ \A s \in table : s.time # r.time
    /\ table' = table \cup {r}
    /\ UNCHANGED <<report, alert, pc, attempt, answer>>

\* GuardianHistoryReader.read: query, reconciliation and summary.
Store(q, profile) ==
    /\ pc = "idle"
    /\ Reconciled(Extract(table, q), q)
    /\ report' = Summarize(Extract(table, q), q, profile)
    /\ pc' = "stored"
    /\ UNCHANGED <<table, alert, attempt, answer>>

\* The stored report is edited: one more approval in its totals.
Edited(r) == [r EXCEPT !.metrics = <<@[1] + 1, @[2] + 1>>]
Tamper ==
    /\ pc = "stored"
    /\ report.metrics = Rate(report.daily, DOMAIN report.daily)
    /\ report' = Edited(report)
    /\ UNCHANGED <<table, alert, pc, attempt, answer>>

Usable == alert.schema = "1.0" /\ Validated(report) /\ EvidenceOK(Evidence(report))

\* analyze: the contexts and the evidence are checked before the verdict.
Begin ==
    /\ pc = "stored" /\ Usable
    /\ pc' = "model"
    /\ UNCHANGED <<table, report, alert, attempt, answer>>

Refuse ==
    /\ pc = "stored" /\ ~Usable
    /\ pc' = "refused"
    /\ UNCHANGED <<table, report, alert, attempt, answer>>

Verdict == EvaluateVerdict(alert, Evidence(report))
Forced(a) == [a EXCEPT !.verdict = Verdict]
Acceptable(a) == WellFormed(Forced(a), Evidence(report)) /\ a.figures

\* Defective variant of Accept: the model's verdict is kept.
AcceptVerdict(a) ==
    /\ pc = "model"
    /\ Acceptable(a)
    /\ answer' = a
    /\ pc' = "answered"
    /\ UNCHANGED <<table, report, alert, attempt>>

Accept(a) ==
    /\ pc = "model"
    /\ Acceptable(a)
    /\ answer' = Forced(a)
    /\ pc' = "answered"
    /\ UNCHANGED <<table, report, alert, attempt>>

\* The call failed or its result is rejected.
Retry ==
    /\ pc = "model" /\ attempt < MaxRetries
    /\ attempt' = attempt + 1
    /\ UNCHANGED <<table, report, alert, pc, answer>>

GiveUp ==
    /\ pc = "model" /\ attempt = MaxRetries
    /\ answer' = Fallback(Verdict, Evidence(report))
    /\ pc' = "answered"
    /\ UNCHANGED <<table, report, alert, attempt>>

Next ==
    \/ \E t \in Time : \E r \in Feed[t] : Ingest(r)
    \/ \E q \in HistoryQuery, profile \in Profiles : Store(q, profile)
    \/ Tamper
    \/ Begin
    \/ Refuse
    \/ pc = "model" /\ \E a \in ModelAnswer(Evidence(report)) : Accept(a)
    \/ Retry
    \/ GiveUp

Spec == Init /\ [][Next]_vars

-----------------------------------------------------------------------------
(* The invariant the properties below rest on *)

TableInv ==
    /\ table \subseteq Row /\ IsFiniteSet(table)
    /\ \A r, s \in table : r.time = s.time => r = s

\* What is stored was computed from the table as it still is.
ReportInv ==
    IF pc = "idle" THEN report = NoReport
    ELSE \E q \in HistoryQuery, profile \in Profiles :
            LET written == Summarize(Extract(table, q), q, profile)
            IN  report = written \/ report = Edited(written)

\* A call of the model, and an answer, have evidence that was checked.
ProgressInv ==
    /\ alert \in Alert
    /\ pc \in {"model", "answered"} => Usable
    /\ answer # NoAnswer =>
        /\ pc = "answered"
        /\ answer.verdict = Verdict /\ answer.figures
        /\ WellFormed(answer, Evidence(report))

AnalystInv == TableInv /\ ReportInv /\ ProgressInv

-----------------------------------------------------------------------------
Untampered == report = Summarize(report.diagnostic, report.query, report.profile)

\* The reference: the last version of every transaction created in the window.
Final(q) == {r \in Window(table, q) :
    /\ r.code # NoCode /\ ~r.deleted
    /\ \A s \in Window(table, q) : s.code = r.code => s.time <= r.time}
Having(q, profile, status) ==
    Cardinality({r \in Final(q) : r.group \in Selected(profile) /\ r.status = status})

\* Every CDC row of the window is in the diagnostic, and every transaction in
\* exactly one of its days, as current or deleted, whatever number of versions
\* it has and on whatever days they say it was created (guardian_history:127).
TransactionsCountedOnce ==
    report # NoReport =>
        LET extract == report.diagnostic
            seen == Window(table, report.query)
            Total(c) == SumFunction([d \in DOMAIN extract |-> extract[d].rows[c]])
        IN  /\ Reconciled(extract, report.query)
            /\ SumFunction([d \in DOMAIN extract |-> extract[d].source]) = Cardinality(seen)
            /\ Total("current") + Total("deleted")
                 = Cardinality({r.code : r \in seen} \ {NoCode})
            /\ Total("missing_key") = Cardinality({r \in seen : r.code = NoCode})

\* CDC rows may arrive late: a version older than one already in the window
\* changes no approved or declined figure of any query (guardian_history:118).
LateVersionsChangeNothing ==
    [][\A q \in HistoryQuery, profile \in Profiles : \A r \in table' \ table :
        (\E s \in Window(table, q) : s.code = r.code /\ s.code # NoCode /\ s.time > r.time)
        => Daily(Extract(table', q), profile) = Daily(Extract(table, q), profile)]_table

\* Two programs halve the range and compute its rates, one over dates and one
\* over offsets: every report with eligible results that is as it was written
\* is accepted as evidence, for odd and even ranges (datalake_history:256,
\* gemini_review:365).
EvidenceCarriesOver ==
    report # NoReport =>
        (Untampered /\ DOMAIN report.daily # {} => EvidenceOK(Evidence(report)))

\* Whatever the model sent, and however often, what analyze returns is the
\* deterministic verdict on figures that are true of the table, in a form its
\* own validation accepts, and never "no_data" (guardian_assurance:272).
AnswersAreSound ==
    answer # NoAnswer =>
        LET e == Evidence(report)
        IN  /\ answer.verdict = EvaluateVerdict(alert, e)
            /\ answer.verdict # "no_data"
            /\ WellFormed(answer, e) /\ answer.figures
            /\ report.metrics[1] = Having(report.query, report.profile, "approved")
            /\ report.metrics[2] - report.metrics[1]
                 = Having(report.query, report.profile, "declined")

\* With the same history, an alert with a lower approval rate is not less
\* confirmed: the band of minor drops has no hole (deterministic_verdict:140).
WorseAlertStaysConfirmed ==
    pc = "model" /\ Verdict = "confirmed" =>
        \A rate \in {x \in AlertRate : x <= alert.rate} :
            EvaluateVerdict([alert EXCEPT !.rate = rate], Evidence(report)) = "confirmed"
=============================================================================
