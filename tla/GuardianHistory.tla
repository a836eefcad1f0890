--------------------------- MODULE GuardianHistory --------------------------
(***************************************************************************)
(* From the CDC rows of card_transaction to the evidence an analyst gets:  *)
(* the query of guardian_history.py (one merchant, one creation window),   *)
(* the reconciliation of its result, the halves and rates of               *)
(* datalake_history.py, and the check that gemini_review.py makes of the   *)
(* same evidence with its own arithmetic.                                  *)
(*                                                                         *)
(* A row is one version of a transaction; its time stands for the CDC      *)
(* order (the coalesced timestamps, then event_id).  A rate is a pair      *)
(* <<approved, total>>, compared by cross-multiplication.                  *)
(***************************************************************************)
EXTENDS Integers, FiniteSets, Functions

CONSTANTS
    Code,    \* transaction codes
    NoCode,  \* a null or blank transaction_code
    Day,     \* creation days, consecutive integers
    Time     \* positions in the CDC order

ASSUME OrderAssumption == Day \subseteq Int /\ Time \subseteq Int

Groups == {"sales", "preauthorizations", "captures", "other_types"}
Status == {"approved", "declined", "other"}
Row == [code : Code \cup {NoCode}, day : Day, time : Time,
        status : Status, group : Groups, deleted : BOOLEAN]

Categories == {"missing_key", "superseded", "deleted", "current"}
Profiles == {"sales", "authorizations"}
Selected(profile) ==
    IF profile = "authorizations" THEN {"sales", "preauthorizations"} ELSE {"sales"}

HistoryQuery == {q \in [from : Day, to : Day] : q.from <= q.to}

-----------------------------------------------------------------------------
(* The SQL of the diagnostic query *)

Window(rows, q) == {r \in rows : q.from <= r.day /\ r.day <= q.to}

\* Defective variant of Newest: the versions are ranked in ascending order.
NewestAscending(rows, r) == ~\E s \in rows : s.code = r.code /\ s.time < r.time

\* row_number() = 1: no later version of the transaction in the window.
Newest(rows, r) == ~\E s \in rows : s.code = r.code /\ s.time > r.time

\* Defective variant of Category: deletions are looked at before versions.
CategoryDeletedFirst(rows, r) ==
    IF r.code = NoCode THEN "missing_key"
    ELSE IF r.deleted THEN "deleted"
    ELSE IF ~Newest(rows, r) THEN "superseded"
    ELSE "current"

Category(rows, r) ==
    IF r.code = NoCode THEN "missing_key"
    ELSE IF ~Newest(rows, r) THEN "superseded"
    ELSE IF r.deleted THEN "deleted"
    ELSE "current"

\* One result row per day that has rows.
Extract(rows, q) ==
    LET seen == Window(rows, q)
        On(d, c) == {r \in seen : r.day = d /\ Category(seen, r) = c}
    IN  [d \in {r.day : r \in seen} |->
            [source |-> Cardinality({r \in seen : r.day = d}),
             rows |-> [c \in Categories |-> Cardinality(On(d, c))],
             operations |-> [g \in Groups |-> [s \in Status |->
                Cardinality({r \in On(d, "current") : r.group = g /\ r.status = s})]]]]

-----------------------------------------------------------------------------
(* Summaries in Python *)

Operations(day, groups) ==
    SumFunction([g \in groups |-> SumFunction(day.operations[g])])
Count(day, profile, status) ==
    SumFunction([g \in Selected(profile) |-> day.operations[g][status]])

\* Every CDC row of a day has one category, every current one an operation.
Reconciled(extract, q) ==
    \A d \in DOMAIN extract :
        /\ q.from <= d /\ d <= q.to
        /\ extract[d].source # 0
        /\ extract[d].source = SumFunction(extract[d].rows)
        /\ extract[d].rows["current"] = Operations(extract[d], Groups)

\* The days with eligible results, and what was approved and declined on them.
Daily(extract, profile) ==
    LET eligible == {d \in DOMAIN extract : Count(extract[d], profile, "approved")
                                           + Count(extract[d], profile, "declined") # 0}
    IN  [d \in eligible |-> [approved |-> Count(extract[d], profile, "approved"),
                             declined |-> Count(extract[d], profile, "declined")]]

\* weighted: the rate over a set of days; 0 of 0 is None.
Rate(daily, days) ==
    LET approved == SumFunction([d \in days |-> daily[d].approved])
    IN  <<approved, approved + SumFunction([d \in days |-> daily[d].declined])>>

\* Defective variant of Midpoint: the middle day of an odd range moves.
MidpointRoundedUp(q) == q.from + (q.to - q.from + 2) \div 2

\* The first day of the second half.
Midpoint(q) == q.from + (q.to - q.from + 1) \div 2

DiagnosticStatus(extract, profile) ==
    LET days == DOMAIN extract
        Total(c) == SumFunction([d \in days |-> extract[d].rows[c]])
        source == SumFunction([d \in days |-> extract[d].source])
    IN  IF DOMAIN Daily(extract, profile) # {} THEN "available"
        ELSE IF source = 0 THEN "no_source_rows"
        ELSE IF Total("missing_key") = source THEN "invalid_keys"
        ELSE IF Total("current") = 0 THEN "no_current_records"
        ELSE IF SumFunction([d \in days |-> Operations(extract[d], Selected(profile))]) = 0
             THEN "outside_scope"
        ELSE "no_final_results"

\* summarize_guardian_rows, of a reconciled extract.
Summarize(extract, q, profile) ==
    LET daily == Daily(extract, profile)
        days == DOMAIN daily
    IN  [query |-> q, profile |-> profile, diagnostic |-> extract,
         status |-> DiagnosticStatus(extract, profile), daily |-> daily,
         metrics |-> Rate(daily, days),
         first |-> Rate(daily, {d \in days : d < Midpoint(q)}),
         second |-> Rate(daily, {d \in days : d >= Midpoint(q)})]

\* Defective variant of Validated: a stored report is taken as it is.
ValidatedTrusting(report) == Reconciled(report.diagnostic, report.query)

\* validate_guardian_history: every derived field is what its rows give.
Validated(report) ==
    /\ Reconciled(report.diagnostic, report.query)
    /\ report = Summarize(report.diagnostic, report.query, report.profile)

-----------------------------------------------------------------------------
(* The evidence for the analyst *)

\* historical_evidence: offsets instead of dates.
Evidence(report) ==
    LET from == report.query.from
        days == DOMAIN report.daily
    IN  [daily |-> [i \in {d - from : d \in days} |-> report.daily[i + from]],
         requested |-> report.query.to - from + 1,
         observed |-> Cardinality(days),
         total |-> report.metrics[2],
         first |-> report.first, second |-> report.second]

SameRate(a, b) ==
    IF a[2] = 0 \/ b[2] = 0 THEN a[2] = b[2] ELSE a[1] * b[2] = b[1] * a[2]

\* _history_evidence: the same figures recomputed from the offsets.
EvidenceOK(e) ==
    LET index == DOMAIN e.daily
    IN  /\ index # {} /\ index \subseteq 0..e.requested - 1
        /\ Cardinality(index) = e.observed
        /\ e.total = Rate(e.daily, index)[2]
        /\ SameRate(e.first, Rate(e.daily, {i \in index : i < e.requested \div 2}))
        /\ SameRate(e.second, Rate(e.daily, {i \in index : i >= e.requested \div 2}))
=============================================================================
