---------------------------- MODULE GuardianAgent ---------------------------
(***************************************************************************)
(* GuardianAgent.review_alerts (src/alert_reviewer/guardian.py) over one    *)
(* batch, with its reader: AthenaHistoryReader.read (datalake_history.py)   *)
(* call by call, or the replay of a saved report.  Athena finishes, fails   *)
(* or hangs on its own; any AWS call may fail.                              *)
(*                                                                         *)
(* The rows of a result are its days.  A result is given by its pages, by  *)
(* the page each page's token leads to (0: no token) and by the pages whose *)
(* columns differ from the first one's.                                    *)
(***************************************************************************)
EXTENDS Naturals, FiniteSets, SequencesExt

CONSTANTS
    Query,        \* merchant and range of days
    Batch,        \* the batches: sequences of Alert
    Result,       \* what Athena may have for a query
    MaxQueries,   \* max_history_queries
    MaxRows,      \* the limit of 31 result rows
    Timeout,      \* timeout_seconds, in ticks
    NoQuery       \* no query in progress, no saved report

ASSUME MaxQueriesAssumption == MaxQueries \in Nat
ASSUME NoQueryAssumption == NoQuery \notin Query

\* valid: a v1 alert whose counts agree, with a past time that has a zone.
Alert == [query : Query, valid : BOOLEAN, accepted : BOOLEAN]
Execution == {"none", "active", "succeeded", "failed", "stopping"}
Failure == {"SCHEMA_MISMATCH", "DATALAKE_UNAVAILABLE", "QUERY_FAILED", "QUERY_TIMEOUT",
            "INVALID_HISTORY", "INVALID_HISTORY_SOURCE"}

ASSUME BatchAssumption == Batch \subseteq Seq(Alert)

\* The pages are numbered as Athena's tokens lead to them: a token leads to the
\* page that follows or back to one that was read, and none is missing before
\* the last.  A service that leaves a page out could not be told from a shorter
\* result.
ASSUME ResultAssumption == \A r \in Result :
    /\ r.pages \in Seq(Seq(Nat)) /\ r.pages # <<>>
    /\ r.next \in [DOMAIN r.pages -> Nat]
    /\ \A i \in DOMAIN r.next :
          r.next[i] \in (IF i = Len(r.pages) THEN 0..i ELSE 1..(i + 1))
    /\ r.altered \subseteq DOMAIN r.pages

VARIABLES
    alerts,     \* the batch
    withHistory,
    saved,      \* the query of the saved report, NoQuery: the reader is Athena's
    pos,        \* the alert under review
    cache,      \* [Query -> "unread", a Failure or the sequence of days read]
    reviews,    \* what happened to the history of each alert so far
    accepted,   \* positions of the accepted alerts
    reading,    \* the query being read, NoQuery: none
    step,       \* "poll" or "page"
    timer,      \* ticks left until the deadline
    page,       \* the page the next call asks for
    seen,       \* tokens followed
    rows,       \* rows of the pages so far
    execution,  \* [Query -> Execution] in Athena
    result,     \* [Query -> Result]: what Athena has
    started     \* [Query -> Nat]: executions started

batch == <<alerts, withHistory, saved>>
progress == <<pos, reviews, accepted>>
reader == <<reading, step, timer, page, seen, rows>>
athena == <<execution, result, started>>
vars == <<batch, progress, cache, reader, athena>>

Init ==
    /\ alerts \in Batch /\ withHistory \in BOOLEAN /\ saved \in Query \cup {NoQuery}
    /\ pos = 1 /\ reviews = <<>> /\ accepted = <<>>
    /\ cache = [q \in Query |-> [status |-> "unread", rows |-> <<>>]]
    /\ reading = NoQuery /\ step = "poll" /\ timer = 0 /\ page = 1
    /\ seen = {} /\ rows = <<>>
    /\ execution = [q \in Query |-> "none"]
    /\ result \in [Query -> Result]
    /\ started = [q \in Query |-> 0]

Cached == {q \in Query : cache[q].status # "unread"}

-----------------------------------------------------------------------------
(* The batch *)

AtAlert == reading = NoQuery /\ pos <= Len(alerts)
Current == alerts[pos]

\* The review of the alert is complete; its acceptance is the policy's.
Finish(status) ==
    /\ pos' = pos + 1
    /\ reviews' = Append(reviews, status)
    /\ accepted' = IF Current.accepted THEN Append(accepted, pos) ELSE accepted
    /\ UNCHANGED <<batch, cache, reader, athena>>

NotRequested == AtAlert /\ ~withHistory /\ Finish("not_requested")
Invalid == AtAlert /\ withHistory /\ ~Current.valid /\ Finish("INVALID_ALERT_FOR_HISTORY")

Wanted == AtAlert /\ withHistory /\ Current.valid
Limited ==
    /\ Wanted /\ Current.query \notin Cached /\ Cardinality(Cached) >= MaxQueries
    /\ Finish("HISTORY_QUERY_LIMIT")

\* An empty history is not analysed; otherwise the model answers, or it does
\* not (it fails, or none is configured).
Analysis(days) == IF days = <<>> THEN {"no_data"} ELSE {"completed", "unavailable"}

\* The history of the query is known, or why there is none.
Conclude ==
    /\ Wanted /\ Current.query \in Cached
    /\ \/ cache[Current.query].status # "read" /\ Finish("unavailable")
       \/ /\ cache[Current.query].status = "read"
          /\ \E analysis \in Analysis(cache[Current.query].rows) :
                Finish(<<"completed", analysis>>)

-----------------------------------------------------------------------------
(* The reader *)

Begin == Wanted /\ Current.query \notin Cached /\ Cardinality(Cached) < MaxQueries

\* Defective variant of End: only a history is worth keeping.
EndForgetful(q, status, days) ==
    /\ cache' = IF status = "read"
                THEN [cache EXCEPT ![q] = [status |-> status, rows |-> days]] ELSE cache
    /\ reading' = NoQuery
    /\ UNCHANGED <<batch, progress, step, timer, page, seen, rows, result, started>>

\* read returned or raised for q, and the batch keeps either.
End(q, status, days) ==
    /\ cache' = [cache EXCEPT ![q] = [status |-> status, rows |-> days]]
    /\ reading' = NoQuery
    /\ UNCHANGED <<batch, progress, step, timer, page, seen, rows, result, started>>

\* A report of another query is refused, never replaced by a call of AWS.
Replay ==
    /\ Begin /\ saved # NoQuery
    /\ IF saved = Current.query THEN End(saved, "read", <<1>>)
       ELSE End(Current.query, "INVALID_HISTORY_SOURCE", <<>>)
    /\ UNCHANGED execution

\* get_table or start_query_execution fails, the latter perhaps after Athena started.
StartFails ==
    /\ Begin /\ saved = NoQuery
    /\ cache' = [cache EXCEPT ![Current.query].status = "DATALAKE_UNAVAILABLE"]
    /\ \E lost \in BOOLEAN :
          /\ execution' = IF lost THEN [execution EXCEPT ![Current.query] = "active"] ELSE execution
          /\ started' = IF lost THEN [started EXCEPT ![Current.query] = @ + 1] ELSE started
    /\ UNCHANGED <<batch, progress, reader, result>>

\* The columns of the catalog do not allow the query.
Mismatch ==
    /\ Begin /\ saved = NoQuery
    /\ End(Current.query, "SCHEMA_MISMATCH", <<>>)
    /\ UNCHANGED execution

Start ==
    /\ Begin /\ saved = NoQuery
    /\ reading' = Current.query
    /\ execution' = [execution EXCEPT ![Current.query] = "active"]
    /\ started' = [started EXCEPT ![Current.query] = @ + 1]
    /\ step' = "poll" /\ timer' = Timeout
    /\ page' = 1 /\ seen' = {} /\ rows' = <<>>
    /\ UNCHANGED <<batch, progress, cache, result>>

Polling == reading # NoQuery /\ step = "poll"

PollSucceeded ==
    /\ Polling /\ execution[reading] = "succeeded"
    /\ step' = "page"
    /\ UNCHANGED <<batch, progress, cache, reading, timer, page, seen, rows, athena>>

PollFailed ==
    /\ Polling /\ execution[reading] = "failed"
    /\ End(reading, "QUERY_FAILED", <<>>)
    /\ UNCHANGED execution

\* Defective variant of PollTimeout: the query is abandoned, not stopped.
PollTimeoutUnstopped ==
    /\ Polling /\ execution[reading] = "active" /\ timer = 0
    /\ End(reading, "QUERY_TIMEOUT", <<>>)
    /\ UNCHANGED execution

\* Defective variant of PollTimeout: after the stop it polls for the end.
PollTimeoutWaits ==
    /\ Polling /\ execution[reading] = "active" /\ timer = 0
    /\ execution' = [execution EXCEPT ![reading] = "stopping"]
    /\ UNCHANGED <<batch, progress, cache, reader, result, started>>

PollTimeout ==
    /\ Polling /\ execution[reading] = "active" /\ timer = 0
    /\ execution' = [execution EXCEPT ![reading] = "stopping"]
    /\ End(reading, "QUERY_TIMEOUT", <<>>)

\* Defective variant of Late: what has been read is returned.
LatePartial ==
    /\ reading # NoQuery /\ step = "page" /\ timer = 0
    /\ End(reading, "read", rows)
    /\ UNCHANGED execution

\* The deadline passed before the next page.
Late ==
    /\ reading # NoQuery /\ step = "page" /\ timer = 0
    /\ End(reading, "QUERY_TIMEOUT", <<>>)
    /\ UNCHANGED execution

NewRows == rows \o result[reading].pages[page]
Token == result[reading].next[page]
InvalidPage ==
    \/ page \in result[reading].altered /\ seen # {}
    \/ Len(NewRows) > MaxRows
    \/ Token # 0 /\ Token \in seen
    \/ Token = 0 /\ ~IsInjective(NewRows)     \* summarize_rows: a repeated day

\* get_query_results
Page ==
    /\ reading # NoQuery /\ step = "page" /\ timer > 0
    /\ \/ /\ InvalidPage
          /\ End(reading, "INVALID_HISTORY", <<>>)
          /\ UNCHANGED execution
       \/ /\ ~InvalidPage /\ Token = 0
          /\ End(reading, "read", NewRows)
          /\ UNCHANGED execution
       \/ /\ ~InvalidPage /\ Token # 0
          /\ rows' = NewRows /\ page' = Token /\ seen' = seen \cup {Token}
          /\ UNCHANGED <<batch, progress, cache, reading, step, timer, athena>>

\* A call of get_query_execution, stop_query_execution or get_query_results fails.
CallFails ==
    /\ reading # NoQuery
    /\ End(reading, "DATALAKE_UNAVAILABLE", <<>>)
    /\ UNCHANGED execution

-----------------------------------------------------------------------------
(* Time and Athena *)

Tick ==
    /\ reading # NoQuery /\ timer > 0
    /\ timer' = timer - 1
    /\ UNCHANGED <<batch, progress, cache, reading, step, page, seen, rows, athena>>

Execute(q) ==
    /\ execution[q] = "active" /\ reading = q
    /\ execution' \in {[execution EXCEPT ![q] = s] : s \in {"succeeded", "failed"}}
    /\ UNCHANGED <<batch, progress, cache, reader, result, started>>

Done == pos > Len(alerts) /\ UNCHANGED vars

Agent ==
    \/ NotRequested \/ Invalid \/ Limited \/ Conclude
    \/ Replay \/ Mismatch \/ Start
    \/ PollSucceeded \/ PollFailed \/ PollTimeout \/ Late \/ Page

Next ==
    \/ Agent
    \/ StartFails
    \/ CallFails
    \/ Tick
    \/ \E q \in Query : Execute(q)
    \/ Done

\* Python keeps running and the clock advances; Athena owes nothing.
Spec == Init /\ [][Next]_vars /\ WF_vars(Agent) /\ WF_vars(Tick)

-----------------------------------------------------------------------------
\* However many alerts share or fail their queries, at most MaxQueries distinct
\* ones reach a reader, each at most once, failed ones included (guardian:297).
QueriesBounded ==
    /\ Cardinality(Cached) <= MaxQueries
    /\ \A q \in Query : started[q] <= 1
    /\ Cardinality({q \in Query : started[q] # 0}) <= MaxQueries

\* A history is the whole result, every page once and in order: pages that
\* repeat, loop, change their columns, come late or are too many leave an error
\* and no partial history (datalake_history:364, 371, 389, 396).
HistoriesAreWhole ==
    \A q \in Query : cache[q].status = "read" /\ saved = NoQuery =>
        /\ execution[q] = "succeeded"
        /\ cache[q].rows = FlattenSeq(result[q].pages)
        /\ result[q].altered \subseteq {1}
        /\ \A i \in DOMAIN result[q].next :
              result[q].next[i] = (IF i = Len(result[q].next) THEN 0 ELSE i + 1)

\* A read that gave up on a running query has asked Athena to stop it, unless a
\* call of AWS failed (datalake_history:353).
NothingLeftRunning ==
    \A q \in Query : execution[q] = "active" /\ reading # q =>
        cache[q].status = "DATALAKE_UNAVAILABLE"

\* Every batch ends with one review for each alert, even if Athena never
\* finishes a query or repeats its pages (datalake_history:344, 363).
BatchEnds == <>(pos > Len(alerts) /\ Len(reviews) = Len(alerts))
=============================================================================
