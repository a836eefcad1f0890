# TLA+ models of the Kipu alert reviewer

This directory holds formal models of `src/` (the alert reviewer and the Guardian
tools around it), the TLC configurations that check them on small instances, and
proofs, checked by TLAPS, of every safety property for every instance. Paths below
are relative to the repository root that appears here as `src/`.

| Question | Where |
|---|---|
| Can two workers, at-least-once delivery, lapsed locks and crashes make an alert be decided twice, published wrongly, or acknowledged unprocessed? | `DecisionStore`, `ReviewWorker`, `TimelyReviews`, `AgeingReviews`, `AlertDecisions`, `ReviewWorkerProofs` |
| Can concurrent or interrupted conclusions lose, rewrite or confuse the evidence of an alert case? | `EvidenceStore`, `GuardianCases`, `EvidenceLedger`, `GuardianCasesProofs` |
| Do the filter and the queue's contract agree on a payload, and does the filter take only what the metrics prove? | `AlertFilter`, `AlertFilterProofs` |
| Are transactions counted once, and is the verdict the computed one whatever the model answers? | `GuardianHistory`, `AssuredAnalyst`, `AssuredAnalystProofs` |
| Does a batch keep its query budget and end, whatever Athena does? | `GuardianAgent`, `GuardianAgentProofs` |
| When does a Slack alert get no answer, or two? | `SlackBot`, `SlackBotProofs` |
| Can a daily review lose the snapshot shown, or show what the table does not hold? | `DailySnapshot`, `DailySnapshotProofs` |

How to run, inside this directory:

```
tlc -workers 2 -config MCReviewWorker_safety.cfg MCReviewWorker.tla
tlapm ReviewWorkerProofs.tla
```

## 1. The system and its components

**Review worker** (`src/alert_reviewer/queue.py`, `worker.py`, `lambda_worker.py`,
`eventbridge.py`, `occurrence.py`). EventBridge delivers each alert into an SQS
queue. A worker (a polling process, or a Lambda invocation fed by SQS) receives a
batch, and for each message: captures the payload as an *occurrence*, claims the
event's *decision* item in DynamoDB, evaluates the policy, stores the outcome
(READY), publishes an accepted alert to the output bus, marks the decision
COMPLETED, and deletes the message. A heartbeat extends the SQS visibility and the
DynamoDB lock of a running task. State: the queue (visibility, receive counts, dead
letters), the table (occurrences, decisions with `status`, `outcome`, `lock_until`,
`expires_at`), the output bus, and the local variables of each task. The processes
interact only through conditional writes on the table and through the queue. Hard
parts: every call may fail or succeed without its answer arriving, a lock may lapse
under its owner, no write carries a fencing token, a claim is two calls, policies
may differ between workers, a release may be repeated by the SDK, a decision may outlive
its TTL under the task that read it.

**Alert filter** (`alert_filter.py`, `kipu_contract.py`). A pure function of payload
and policy: contract checks, thresholds with a tolerance, priority (v1 and v2). No
state. Hard parts: boundaries, agreement of the two versions, two parsers of dates.

**Guardian evidence store and cases** (`guardian_evidence_store.py`,
`guardian_cases.py`). One directory per alert case: a `.lock` file, one JSON file per
evidence *revision* linked to the previous one, and `HEAD.json`, the commit pointer.
`conclude` takes the lock, checks the chain, queries Athena when the case is empty or
an expected revision is refreshed, writes the revision, moves HEAD, runs the analyst
and stores its conclusion in the same revision. Hard parts: a crash between any two
file-system calls, stale locks and their removal, stale clients, retries.

**Guardian conclusions** (`guardian_conclusions.py`). The cache that the cases took the
place of. What remains in use is `_save`, the replacement of a JSON file, and the
normalisation of an alert; nothing but the tests calls its `conclude`.

**Analysts** (`guardian_assurance.py`, `guardian_analysis.py`, `gemini_review.py`,
`ai_review.py`, `deterministic_verdict.py`). The verdict is computed from the numbers;
the model only words it, in at most three attempts, then a fixed fallback. The evidence
is recomputed from the report by a program other than the one that wrote it. Hard part:
the two programs must agree at odd ranges, empty days and zero counts.

**Histories** (`datalake_history.py`, `guardian_history.py`, `guardian.py`). An Athena
query under a deadline, read page by page and summarised; a batch reviews up to 50
alerts with a bounded number of distinct queries. The query counts the last CDC version
of each transaction. Hard parts: versions out of order, pages that repeat or loop, a
query that never finishes, errors shared by several alerts.

**Daily review and view** (`guardian_daily.py`, `guardian_view.py`,
`infra/manual-extractor`, `manual_snapshot.py`). A snapshot of a day is validated,
archived and made the latest in two file replacements; the view serves a catalogue.
Hard parts: requests that overlap or die, a table that grows while it is scanned, counts
made by one program and checked by another.

**Exports, Slack bot, dashboard** (`occurrence_export.py`, `slack_bot.py`,
`dashboard/app.py`). Selection of the latest occurrence per alert; an at-most-once
reply per Slack event, remembered in a JSON file; a read-only web view.

`PROJECT.json` lists every component with its status and, under `hazards`, each place
where this code is hard to test, with the property that covers it or the reason why
none does yet.

What makes each component correct, in one line:

| Component | Correct when |
|---|---|
| Worker | one decision per event, on a captured payload; the bus carries exactly that payload; a message is deleted only when its own decision is complete; every message settles |
| Evidence store, cases | append-only chain; evidence and first conclusion never rewritten; stale refresh refused; a crash never leads to a silent second query |
| Filter | it accepts only what the metrics prove and, but for the forms pydantic refuses and the texts it never reads, what the contract accepts; a worse alert stays accepted |
| Analyst, verdict | the verdict returned is the computed one after any number of rejections; a worse alert stays confirmed |
| Histories | each transaction counts once; a history is whole or absent; the query budget holds; every batch ends |
| Daily review and view | the snapshot shown is in the archive before it is replaced; what is extracted counts as the view counts, and agrees with the export |
| Slack bot | a mark means an answer; a second answer, or none, has a failure, an overlap or an unreadable file behind it |

## 2. Modules

```
AlertDecisions  <== (refinement) ==  ReviewWorker  -- extends -->  DecisionStore
                                      |        \
                              MCReviewWorker   ReviewWorkerProofs

TimelyReviews, AgeingReviews -- extend -->  ReviewWorker
    (MCTimelyReviews, MCAgeingReviews; proofs in ReviewWorkerProofs)

EvidenceLedger  <== (refinement) ==  GuardianCases -- extends -->  EvidenceStore
                                      |        \
                              MCGuardianCases  GuardianCasesProofs

AlertFilter   --- MCAlertFilter,   AlertFilterProofs
GuardianHistory <-- extends -- AssuredAnalyst --- MCAssuredAnalyst, AssuredAnalystProofs
GuardianAgent --- MCGuardianAgent, GuardianAgentProofs
SlackBot      --- MCSlackBot,      SlackBotProofs
DailySnapshot --- MCDailySnapshot, DailySnapshotProofs

InductionLemmas <-- extends -- GuardianCasesProofs, AlertFilterProofs, GuardianAgentProofs,
                               AssuredAnalystProofs, DailySnapshotProofs
```

The first two groups are composed of parts that interact through shared state. The
others meet only through values (a decision, a report, a snapshot), which are inputs of
the module that reads them.

`DecisionStore` is the DynamoDB table: one operator per conditional write of
`DynamoDBIdempotencyStore` and `DynamoDBOccurrenceStore`, the guard being its
ConditionExpression. Clocks are abstracted to two sets, the locks that have lapsed
and the decisions whose TTL has passed; either may grow at any moment. `late` is the set
of events for which a release is still under way: its condition asks for the status of the
item, so a repetition by the SDK, or a request whose task has given up, may delete the claim
of another task (`LateReleaseArrives`).

`ReviewWorker` is everything that calls it. A *task* is one coroutine: a message
handled by a worker. `step[t]` names the remote call the coroutine makes next; each
action is one call and the code up to the next one, since a coroutine can be
interleaved only at its awaits. `claimed` is the local fact that the claim returned
ACQUIRED, `held` the outcome in memory. `CallRaises` and the `...Raises` disjuncts are
calls that fail; the same disjuncts after an effect are lost responses. `Restart` is a
crash followed by the supervisor's restart. At the step "reclaim" the SDK repeats the
claim's put, whose first answer was lost. `Managed` workers are Lambda invocations:
no heartbeat, no delete; the batch response deletes what succeeded. `Policy` is the
set of configuration versions; each evaluation may use any, because two processes
may have loaded different files. The filter is any function `Accepts`.

`TimelyReviews` is the worker when heartbeats come on time, with the history variable
`struck`, the events that lost a claim to a late release. `AgeingReviews` is the worker when
decisions expire, or are removed, at any moment and under any task; its history variables
`accepted` and `completed` remember what was once decided, since the table may forget it.

`AlertDecisions` says what the worker promises about events, without queue, locks or
processes. `ReviewWorker` implements it under the mapping at the end of the module.

`EvidenceStore` is one case directory: the lock file (whose inode its owner
remembers), the revision files, HEAD, temporary files, one operator per file-system
call, and `ChainOK`, the check `_chain` makes before every read and write. `Walk` is
the chain walk from HEAD as a recursive function. `debris` is a temporary file left by a
write that ended: nothing removes it, and with it every check of the directory fails
(`NoTempFile`). A check reads the directory in several calls; `Readable` makes them one
step: by itself a check changes nothing, the writes whose order matters are steps of their
own, and under the lock nobody else writes between its calls.

`GuardianCases` is `conclude` over it: `pc[p]` names the next call of p's session. An
`_atomic_write` is several steps (temporary file, link or replace, unlink), so that a
crash can fall between any of them. `Fail` is any call that raises: the temporary file
of that write is removed (or stays, when `unlink` itself raises) and the lock released, as
the `finally` clauses do; what an earlier session left stays. `Crash` forgets the
session and leaves everything on disk. `ClearStaleLock` is the operator of the runbook
(`src/.planning/guardian-analyst/RUNBOOK.md`), who removes the lock of a process known
to be dead; `ClearAnyLock`, in the second specification `MeddledSpec`, is one who does
not look. AGENT_BUSY and REVISION_CONFLICT answers change nothing; the latter is a
`Fail` at "load".

`EvidenceLedger` is the promise of the store's documentation: a list of revisions that
only grows, analysed only at its end, whose first conclusion stands.

`AlertFilter` is `evaluate_alert` for both versions beside the typed contract
(`KipuAlert`, `KipuAlertV2`) the queue applies to the same payload, each check in the
code's order. Rates are percentages and scores integers, so the code's tolerances become
equalities; `Absent` is a missing field, `Bad` one of a wrong type. Texts and
dates have a form, "strict" or "loose": the filter strips them and reads them with Python's
parsers, the contract hands the string as it came to pydantic, which refuses padded and
ISO-basic dates. The fields that only the contract reads (`alert_summary`, `anomaly_type`,
`top_rejections`, `cluster_profile`) are one field, `unread`. The state is one
alert and its outcome; `Republish` is the producer sending it again with one field
changed, so a step compares the decisions on two neighbouring payloads.

`GuardianHistory` is the SQL of the one-merchant query as set comprehensions (the last
version of a code in the window, then its day, status and group), the reconciliation of
its result, the halves and rates, and the second computation of the same evidence in
`gemini_review.py`. `AssuredAnalyst` adds the verdict and the loop of `analyze`: CDC rows
arrive (`Ingest`), a report is stored for a window, perhaps edited on disk (`Tamper`), the
analysis begins or refuses it, and each answer of the model, any record at all, is
accepted, rejected, or after the last attempt replaced by `Fallback`.

`GuardianAgent` is `review_alerts` with its reader, one action per AWS call. `cache` is
the dictionary of results and errors, `timer` the deadline in ticks, `execution` the
state of each query in Athena, which finishes, fails or hangs as it likes. A result is
its pages, the page each token leads to and the pages whose columns differ. `Replay` is
the reader of a saved report.

`SlackBot` is the handler in the threads of the Socket Mode client. The dedupe check, the
reply and the two halves of `mark_processed` (read, replace) are separate actions. Slack
repeats what it has not seen acknowledged; `Crash` is a dying process, `Damage` turns the
file into one that is no JSON object, which counts as empty, or no UTF-8, which makes
`_load` raise; a read may also fail once (`Load`). The history variables `broken`, `overlap`
and `unread` record which events a failure cut short, which two threads handled at once and
which came while the file could not be decoded.

`DailySnapshot` is a request of the dashboard from the scan to the replacement, one
action per page and per file operation, several requests at once. The table may grow
during the scan; the local reader gives up after `MaxPages`; the filter and the country
counts of `manual_snapshot.py`, the validation of `guardian_view.py` and the selection of
`occurrence_export.py` are operators over the same occurrences. Both scans add page to
page, but only the local reader's is consistent: the extractor may end without what was
stored before it began. An occurrence says whether the typed contract reads it
(`contract`) and how its time is written (`stamp`); `Stripped` is what the contract makes of
an id. The records of a scan are
a sequence, because the loop over them might depend on their order; lists of alerts and
rows are sets, because nothing looks at theirs.

Operators named after another one with a suffix (`ClaimableAnyLock`, `CreateBeyond`)
and introduced as "Defective variant" are not part of any specification. Each is a
plausible mistake in the code; `PROJECT.json` pairs it with the property that fails
when it replaces the original.

## 3. What the runs check

| Run | Instance | Shows |
|---|---|---|
| `worker_safety` | one polling and one Lambda worker, two deliveries of one event, two receives each, a policy that accepts and one that rejects | `PublishedIsDecided`, `CompletedIsPublished`, `AckedIsCompleted`, `DecidedIsCaptured`, `DecisionIsFinal`, and the refinement `KeepsPromise` (about 1,115,000 states) |
| `worker_timely` | the two messages reuse one identity for different payloads, three receives each; heartbeats on time, releases that are repeated or arrive late | `OneClaimant`: then the lock excludes, unless a late release has struck the claim; the second payload is never acknowledged (`AckedIsCompleted`; about 784,000 states) |
| `worker_ageing` | two polling workers, three messages of one event, one receive each; decisions expire or are removed by DynamoDB at any moment and under any task | `AckedWasCompleted`, `PublishedWasDecided` (about 1,370,000 states) |
| `worker_liveness` | one message is malformed; failures, restarts and orphan locks unrestricted | `Settles`: every message ends acknowledged or in the dead-letter queue |
| `cases_crash` | two processes, four identifiers, three revisions allowed, empty and non-empty evidence, two conclusions | `AnswersStand`, `OnlyOrphansBlock`, `FailsClosed`, `FirstConclusionKept`, `SupersedesWhatWasSeen`, and the refinement `KeepsLedger` (about 37,500 states) |
| `cases_meddled` | the lock disappears at any moment; two revisions allowed | `EvidenceIsFrozen`, `AnsweredNeverForgotten` (about 854,000 states) |
| `cases_foreign_unlock` | as before | a counterexample, see section 6 |
| `filter_policy` | a grid of v1 and v2 alerts around every threshold, and each of them with any one field changed, removed, malformed or written in a loose form | `ValidatorsAgree`, `OnlySevereAccepted`, `DerivedFieldsAreProved`, `WorseningStaysAccepted` (about 119,900 states) |
| `assured_review` | two transactions and a row without a code, four CDC positions, three days, every window and profile, an edited report, every shape of answer, three attempts | `TransactionsCountedOnce`, `LateVersionsChangeNothing`, `EvidenceCarriesOver`, `AnswersAreSound`, `WorseAlertStaysConfirmed` (about 307,000 states) |
| `batch_review` | batches of up to four alerts over three queries with room for two; results that are empty, whole, altered, looping or too long; a deadline of two ticks | `QueriesBounded`, `HistoriesAreWhole`, `NothingLeftRunning`, and the liveness property `BatchEnds` (about 331,000 states) |
| `slack_replies` | two threads, three events of which two have no id, two deliveries each, a file with room for one mark, one crash, failed read or damage | `MarkedWasAnswered`, `SecondAnswersExplained`, `NoneForgotten` (about 2,420,000 states) |
| `daily_snapshot` | two requests, one over every table of one or two of fifteen kinds of occurrence with one more arriving, one over the day's file; the snapshot shown is absent, valid or unreadable | `ServedNeverLost`, `ExtractedIsCounted`, `ViewsAgree` (about 2,090,000 states) |

*Bounds.* Two workers and two messages are the smallest instance in which a claim is
taken over, a READY item is published by two tasks, and a delivery meets the
completed decision of another; events do not interact (every condition and every task
concerns one key), so one event is enough. Two receives let a message come back once
and reach the limit; three are needed for a late release to strike a claim and a third task
to follow, and three messages for a decision that is taken again under a task that read it. In the case directory the lock serialises sessions: two processes
give a dead session and a successor, or two overlapping ones; three revisions give a
first, a middle and a last one and reach the limit; one spare identifier allows the
refused fourth. The revision limit is `MaxRevisions` (128 in the code), the receive
limit `MaxReceives` (5 in `infra/sqs-worker.yaml`); the decisive case, reaching the
limit, does not depend on the number. The proofs have no bounds.

For the filter, the fields are read by conditions on one or a few of them, so one edit
of a seed on each side of every threshold reaches both outcomes of each condition;
`MaxEdits` is 1 because every pair of neighbours is already a step. Verdict and history
need a superseded, a deleted, a re-dated and a late version, an odd and an even window
and a change between its halves: three days, two codes and four positions give all of
them, and the limits `MinDays` and `MinTotal` (7 and 100 in the code) are lowered to 2
so that both sides are reached. A batch of four alerts has a shared query, a shared error and
a query beyond the limit (5 by default); two pages suffice for a page that repeats,
loops or changes its columns. Two deliveries, two threads and one mark are the least in
which a mark is evicted, overwritten or missed. In the daily review the order on
occurrences and the counts are pairwise, so two stored and one arriving give a winner, a
loser and a late one; two requests give a replacement under another's feet, `MaxPages` 1
a cursor that goes on (100 in the code), `MaxAlerts` 1 a day with too many alerts (500).

*Symmetry* is declared only for sets whose members are interchangeable (for instance the
threads of the Slack client), and in no run with a liveness property.

*Deadlock.* The worker runs switch the check off: when every message is deleted or
dead-lettered, the system may stop. The case runs keep it on: whatever was left on
disk, a request can always be made and gets an answer or an error. So does the batch run:
only `Done` is left when every alert is reviewed. The filter, analyst, Slack and snapshot
runs switch it off: edits, attempts, deliveries and requests come to an end.

*Fairness* of `FairSpec`, for `Settles`: a started task makes its next call, which
may fail (asyncio runs every ready coroutine); a polling worker keeps polling and a
Lambda reports its batch (`run_forever`, the Lambda service); visibility runs out when
nobody renews it and SQS moves an over-received message (SQS's own contract, with
`maxReceiveCount` in the template). Nothing is assumed about calls succeeding, locks,
heartbeats or restarts. The case models state no liveness: a crashed session leaves a
lock without timeout, by design, until an operator acts.

The fairness of `GuardianAgent`, for `BatchEnds`, is that the agent's thread goes on
(`WF_vars(Agent)`) and the clock advances (`WF_vars(Tick)`). Athena may leave a query
active forever: no fairness is put on `Execute`, and the deadline alone ends the read. It is
assumed that each AWS call returns or raises, as botocore's own timeouts provide.

## 4. What is proved

Every invariant and action property that a passing run checks is also a theorem, for
every value of the constants that the named `ASSUME`s allow:

| Module | Property: theorem |
|---|---|
| `ReviewWorkerProofs` | `TypeOK`: `TypeCorrect`; `PublishedIsDecided`: `PublicationSafety`; `CompletedIsPublished`: `CompletionSafety`; `AckedIsCompleted`: `AcknowledgementSafety`; `DecidedIsCaptured`: `EvidenceSafety`; `DecisionIsFinal`: `DecisionFinality`; `KeepsPromise`: `Refinement`; `OneClaimant`: `LockExclusion`; `AckedWasCompleted`: `AgedAcknowledgement`; `PublishedWasDecided`: `AgedPublication` |
| `GuardianCasesProofs` | `TypeOK`: `CasesTypes`; `AnswersStand`: `AnswersSafety`; `FailsClosed`: `ClosedAfterCrash`; `FirstConclusionKept`: `ConclusionFinality`; `SupersedesWhatWasSeen`: `NoStaleRefresh`; `KeepsLedger`: `LedgerRefinement`; `OnlyOrphansBlock`: `OnlyResidueCloses`; `EvidenceIsFrozen`: `FrozenEvidence`; `AnsweredNeverForgotten`: `AnsweredOnChain` |
| `AlertFilterProofs` | `ValidatorsAgree`: `Agreement`; `OnlySevereAccepted`: `SevereAlertsOnly`; `DerivedFieldsAreProved`: `DerivedProved`; `WorseningStaysAccepted`: `WorseningAccepted` |
| `AssuredAnalystProofs` | `TransactionsCountedOnce`: `CountedOnce`; `LateVersionsChangeNothing`: `LateVersions`; `EvidenceCarriesOver`: `EvidenceSurvives`; `AnswersAreSound`: `SoundAnswers`; `WorseAlertStaysConfirmed`: `WorseStaysConfirmed` |
| `GuardianAgentProofs` | `QueriesBounded`: `QueryBudget`; `NothingLeftRunning`: `QueriesAreStopped`; `HistoriesAreWhole`: `WholeHistories` |
| `SlackBotProofs` | `MarkedWasAnswered`: `OnlyAnswersAreMarked`; `NoneForgotten`: `AcknowledgedIsHandled`; `SecondAnswersExplained`: `AnsweredOnce` |
| `DailySnapshotProofs` | `ServedNeverLost`: `NothingShownIsLost`; `ExtractedIsCounted`: `CountsAgree`; `ViewsAgree`: `ViewAgreesWithExport` |

`InductionLemmas` has what several of them need: induction over the naturals and over
finite sets, stated about a set instead of a predicate (the provers cannot instantiate an
operator parameter: to prove P(n) for every n, take `{n \in Nat : P(n)}`); that a function
may be defined by recursion on the naturals; and that `SumFunctionOnSet` of the community
modules, a fold, is a sum: it can be taken apart one element at a time, does not change
under a renaming of its indices, and adds the sizes of classes up to the size of what they
partition (`CountByClass`).

`ReviewWorkerProofs` (`StoreAssumption`, `WorkerAssumption`: the null values differ from
real ones, every message has one event and payload):

* `WorkerInvariant`: `Spec => []IInv`. None of the safety properties is inductive
  alone. `IInv` adds `TaskInv`, what the place a coroutine has reached says about the
  table: at "publish" the item is decided and the outcome in memory is the stored one,
  at "complete" an accepted payload is already on the bus, at "ack" the item is
  COMPLETED. That this survives steps of *other* tasks is the heart of the argument
  (`NextKeeps`, `OtherTasks`): no write takes a decision, an occurrence or a
  publication back, so a task that was overtaken still acts on a true fact although
  nothing fences it.
* `AgeingInvariant`: `AgeingSpec => []AgeingInv`. Once a decision may be replaced under the
  task that read it, `TaskInv` is false. What is left is `BaseInv` (types, captured
  payloads, and `PlaceInv`, what the place of a task says of its own message) and the
  histories: a task at "publish" holds an outcome that was once accepted, one at "ack"
  stands on a decision that was once completed. `IInv` is `BaseInv`, without expired
  decisions, with `TaskInv` and the properties that expiry breaks.
* `LockExclusion`: under `TimelySpec`, with the invariant `LockInv`: a claim keeps its lock,
  and its item while no late release strikes it. The exception `struck` is in the property:
  the code gives no exclusion without it.

`GuardianCasesProofs` (`StoreAssumption`: finitely many identifiers, null values and
conclusions distinct from the statuses; `CasesAssumption`):

* `CasesInvariant`: `Spec => []IInv`. `IInv` says that a running session owns the lock,
  that HEAD counts the committed revisions and every link leads to one, and, for each
  place in a session, what is on disk (between link and commit exactly one uncommitted
  revision, the session's own). The key lemma is `ReadableClean`: because HEAD's count
  equals the number of committed revisions, a directory that passes the count check has
  no orphan. `CommitGrows` then shows that moving HEAD commits exactly one revision.
* `ChainInvariant`: `Spec => []ChainInv`. The walk of links from HEAD, a recursive
  function, reaches exactly the committed revisions and ends where HEAD's count says; a
  session that is about to write has room for its file. By induction over the length of
  the walk: links and rewrites leave it as it is (`WalkStays`), a new HEAD puts one step
  before it (`WalkShifts`). `OnlyResidueCloses` follows: without residue, every check of
  `_chain` passes. Residue is an uncommitted revision or a temporary file, of any session
  (`debris`): since nothing removes it, `ClosedAfterCrash` holds however many sessions follow.
* `FrozenInvariant`, under `MeddledSpec`, is weaker and does not mention the lock:
  exclusive links and the comparison of frozen fields are enough for `FrozenEvidence`, and,
  since `_chain` demands every file in the chain, for `AnsweredOnChain`.

`AlertFilterProofs` (`PolicyAssumption`: what `FilterPolicy` enforces of its fields;
`ValuesAssumption`: a field that is absent is no number; `SeedsAssumption`: alerts have the
fields of the contracts). The invariant is only that the outcome is the filter's on the
alert; the proofs are about the decision. An accepted alert passed every check (`V1Passes`,
`V2Passes`), a rejected one names a check that fails (`FirstFailureFinds`), so `Agreement`
compares two lists of checks, and finds `PydanticRefuses` to be the whole difference; `WorseningAccepted` shows each gate and signal monotone.
`DerivedProved` shows that the metrics leave one value for each derived field.
`SevereAlertsOnly` has the one hypothesis beyond the assumptions, `critical_priority >= 70`
and `ta_critical_threshold <= 65`: the defaults of `FilterPolicy`, or stricter. A laxer
policy accepts more, by configuration.

`AssuredAnalystProofs` (`OrderAssumption`, `RateAssumption`, `FeedAssumption`: days, times
and rates are integers, and the feed has rows):

* `AnalystInvariant`: `Spec => []AnalystInv`. A report is what was computed from a table
  that changed no more, or that with its totals edited (`ReportInv`); a call of the model,
  and an answer, had evidence that passed (`ProgressInv`).
* The rows of a window are partitioned by day, category, group and status, so every extract
  of every finite table reconciles (`ExtractReconciles`), every transaction counts once, and
  the figures of an answer are those of the reference `Final`. A report with edited totals
  fails the recomputation, so what passes is true of the table. The halves of a range are
  computed once over dates and once over offsets; they agree for every length.

`GuardianAgentProofs` (`BatchAssumption`, `MaxQueriesAssumption`, `NoQueryAssumption`,
`ResultAssumption`):

* `AgentInvariant`: `Spec => []IInv`. `IInv` adds that the query being read is not cached
  and still fits under the limit, that a query was started only if it is cached or being
  read, and that a read which pages has seen its query succeed. `CachedGrows` counts: the
  end of a read adds exactly one cached query.
* `WholeHistories`: a read that pages has the first pages of its result, in order
  (`InOrder`), by induction over their number. `ResultAssumption` says that a token leads
  to the next page or back to an earlier one, and to nowhere only at the end: the reader
  could not tell a page that Athena leaves out from a shorter result, and the property
  does not claim that it can.

`SlackBotProofs` (`IdleAssumption`, `LimitAssumption`: the file has room for one mark):

* `SlackInvariant`: the marks on file *and in every copy a thread has read* are of answered
  events, and a thread about to mark has answered. The copies are what makes it
  inductive: `mark_processed` writes back what it read, perhaps long ago, and posted
  answers are never taken back.
* `AcknowledgedIsHandled`: an acknowledged alert is answered or being handled, unless a
  failure cut it short (`broken`) or the file could not be decoded when it came (`unread`).
  It assumes `KeysIdentify`, no two events with one key: Slack gives no two messages of a
  channel one timestamp. A key without the channel would break it, and does as a mutant of
  the run.
* `AnsweredOnce`: an event that nothing has disturbed (`Undisturbed`) is handled by one
  thread, has at most one answer, and once answered is on file or about to be.

`DailySnapshotProofs` (`OccurrenceAssumption`: times are ordered, and the table has one
item per key; `FileAssumption`: the day's file is finite):

* `SnapshotInvariant`: every content ever shown is shown or archived; at "retain" the file
  shown is the previous one read or is archived; at "save" and "publish" it is absent or
  archived; at "publish" the new snapshot is archived. It holds for any number of requests
  because each one archives its own snapshot before it shows it.
* `ExtractionInvariant`: a scan reads only what is stored, what the local reader filters
  contains all that stood when its scan began, and a snapshot is what its records or rows give.
  `CandidatesPick`, by induction over the records, says that the loop keeps one occurrence
  of every id, and none that a record of the day is later than, whatever their order.
  `LatestIsShown` and `RefusedOrShown` compare that with the export.
* `CountsHold`: what was accepted is a part of what was evaluated, and that of what was
  received; country by country the lists are counted once. `CountsAgree` follows: the view
  never refuses a snapshot for its counts. It may refuse one for other reasons (section 6).

## 5. What is only model-checked

* `Settles` and `BatchEnds`: liveness under fairness is beyond the prover.
* `cases_foreign_unlock`: a counterexample, not a theorem.

## 6. Where the code and its comments disagree

`cases_foreign_unlock`: `guardian_evidence_store.py:199` says a replaced lock of
another process is not unlinked. The code compares inodes and unlinks by name in two
calls; a lock removed and taken again in between is deleted. It takes an operator who
removes the lock of a session that is still leaving, so the model needs `ClearAnyLock`
to show it; `EvidenceIsFrozen` and `AnsweredNeverForgotten` hold even then.

More that the models show, stated as the exceptions of the properties:

* A late release deletes the claim of another task, whose event is then claimed once more:
  the exception `struck` of `OneClaimant`. Decision and publication stay right
  (`worker_safety` has late releases too); only the work is done twice.
* A decision that outlives its TTL under a slow task may be replaced. Then what is completed
  need not be published any more: `mark_completed` asks only for a READY item
  (`queue.py:196`), so a task that held a rejection can complete the acceptance that
  replaced it, and if the task of the acceptance dies before `put_events`, the alert is
  acknowledged unpublished. The docstring (`queue.py:93-94`) says that READY closes that gap;
  it does while the decision lives (`CompletedIsPublished`). `worker_ageing` checks what
  remains true.
* A write that dies, or whose own `unlink` raises, leaves a temporary file that closes the
  case until somebody removes it (`FailsClosed`).
* The filter accepts what the queue's contract refuses: padded or ISO-basic dates, and
  ill-typed texts that it does not read (`PydanticRefuses`).
* Once the dedupe file of the Slack bot is not UTF-8, `is_processed` raises after the
  acknowledgement: no later alert is answered until the file is replaced (`unread`).
* The extractor's scan is not consistent (`infra/manual-extractor/handler.py:42-47`): it may
  miss an occurrence stored before it began and return an earlier one of the same alert,
  although `docs/historical-analysis.md:65-66` speaks of the last occurrence. `ViewsAgree`
  is therefore about what a scan has seen, which for the local reader is all that stood.
* The view refuses a day as a whole for one alert that `KipuAlert` does not read (a padded
  time, an `alert_summary` that is no text), whose time has no "T" or no zone (`Legible`),
  whose stripped id is missing, one of the fallback ids, or another alert's (`Addressed`),
  and for more than 500 alerts or 100 countries (`Sized`). Its limit on bytes and its checks
  of the metadata are not modelled.
* One stored document that contradicts its payload ends every extraction of its day
  (`Sound`).
* A later v1 occurrence marked as superseded hides an older valid one from the dashboard,
  while the export keeps it: the last disjunct of `ViewsAgree`.
* Two threads answer one Slack message when Slack repeats it before the first reply is
  marked (`overlap` in `SecondAnswersExplained`).

Outside the models, `dashboard/app.py:176-180` passes `timeout=` to `GeminiReviewConfig`,
whose field is `timeout_seconds`.

## 7. What is not modelled, and why

* Contents: SQL, prompts, schemas, HTTP, hashes, wording. A rejection of stored or
  received content is a nondeterministic failure of the call that makes it.
* SQS retention (messages leave after four days) and the TTL of occurrences (720 hours,
  longer than a decision's 168).
* Calls in flight, other than a release, when a task gives up: they take effect by then or
  never. The SDK repeats the put of a claim once.
* Real time: lock durations, heartbeat periods, Athena deadlines. `TimelySpec` states
  the assumption "heartbeats on time" instead of deriving it. For a Lambda worker it
  means that the invocation is shorter than the lock.
* The wall clock stepping back, which makes the store reject its own timestamps: it is
  one of the causes of `Fail`.
* Size limits (2 MiB, 32 MiB, the bytes of a snapshot): a cause of `Fail`.
* Filter: the unwrapping of files and envelopes (`extract_alerts`, `filter_alerts`); the
  texts and lists that only the contract checks are one field.
* Binary rounding: tolerances of 1e-9 and 1e-6 are equalities on integers.
* Plain reviewers (`gemini_review.py`, `ai_review.py`, `guardian_analysis.py`): one call
  each; their answer enters the models as any selection or verdict. Of `gemini_review.py`
  the evidence is modelled.
* Validation of single result rows and the text of the SQL: a cause of `INVALID_HISTORY`.
* `GuardianConclusions.conclude`: not reached by the program.
* View catalogue (`list`, `load`, `reanalyze`, `history`): reads, and files added under
  names of their own.
* Export by observation date, and the writing of its five files.
* Command lines, scripts, logging, configuration loading, dashboard: no state of their own.

## 8. Plan

1. Worker, table and promise, with proofs. *Done.*
2. Evidence store, cases and ledger, with proofs. *Done.*
3. Filter and contract; history, verdict and assured analyst. *Done.*
4. Batch with its reader; Slack bot; daily review with extractor and export; with proofs.
   *Done.*
5. Proofs of every safety property that the runs check. *Done.*
6. `GuardianConclusions.conclude`, if the program comes to call it again.
