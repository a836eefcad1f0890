---------------------------- MODULE DailySnapshot ---------------------------
(***************************************************************************)
(* The dashboard's daily review (guardian_view.py, guardian_daily.py) over   *)
(* the alerts Kipu published: the extractor scans the occurrence table or    *)
(* reads the day's file (manual_snapshot.py, infra/manual-extractor), the    *)
(* view checks what it extracted, archives the snapshot it shows and puts    *)
(* the new one in its place.  The daily export (occurrence_export.py) reads  *)
(* the same table with rules of its own.                                     *)
(*                                                                         *)
(* An occurrence is a record [key, id, day, pub, rec, kind, country,        *)
(* accepted, contract, stamp, sound]: its day in the business timezone, its *)
(* publication and recording times, whether the policy accepts its alert,   *)
(* whether KipuAlert reads it, how its timestamp is written, and whether    *)
(* the document agrees with its raw_payload.  A page of the scan holds one  *)
(* occurrence.  A row of the day's file is a record [key, id, country,      *)
(* critical, kind, accepted, contract, stamp], key being its place.  The    *)
(* lists of alerts that a snapshot or an export holds are sets: their order *)
(* is told apart by none of the checks.                                     *)
(*                                                                         *)
(* The reader's scan is consistent.  The extractor's is not: it may end     *)
(* without occurrences that stood when it began.                            *)
(***************************************************************************)
EXTENDS Integers, FiniteSets, Sequences, Functions

CONSTANTS
    Run,           \* requests to run the daily review
    Request,       \* [Run -> what it may ask for: [via, day, mode], via the
                   \* extractor of the table, its local reader, the day's file]
    Tables,        \* what the occurrence table may hold at first
    Arriving,      \* occurrences that may be stored meanwhile
    Files,         \* what the day's alerts.json may hold: sets of rows
    Stripped,      \* [alert id -> the id as KipuAlert has it, without spaces]
    Unaddressable, \* stripped ids with the prefix of a missing id
    Imported,      \* what the local snapshot file may hold at first
    Nothing,       \* no file
    Invalid,       \* a file the view refuses
    MaxPages,      \* MAX_SCAN_PAGES
    MaxAlerts,     \* the most alerts the view shows (500)
    MaxCountries,  \* the most countries it shows (100)
    MaxArriving    \* bound: occurrences stored meanwhile

Stored == (UNION Tables) \cup Arriving

ASSUME LimitAssumption ==
    MaxPages \in Nat \ {0} /\ {MaxAlerts, MaxCountries, MaxArriving} \subseteq Nat
ASSUME OccurrenceAssumption ==
    \A o \in Stored :
        /\ {o.pub, o.rec, o.key} \subseteq Int
        /\ \A p \in Stored : o.key = p.key => o = p
\* A timestamp with "T" and a zone, without a zone, or with a space for "T".
Stamps == {"zoned", "local", "spaced"}
ASSUME StampAssumption == \A o \in Stored : o.stamp \in Stamps
ASSUME RequestAssumption ==
    \A r \in Run : \A q \in Request[r] :
        q.via \in {"extractor", "reader", "file"} /\ q.mode \in {"policy", "ai"}
ASSUME FileAssumption ==
    /\ Nothing \notin Imported /\ Invalid \notin Imported
    /\ \A rows \in Files : IsFiniteSet(rows) /\ \A row \in rows : row.stamp = "zoned"

VARIABLES
    table,   \* the occurrences stored
    arrived, \* how many were stored meanwhile
    run,     \* [Run -> the state of the request]
    latest,  \* guardian-dashboard-snapshot.json
    archive, \* the snapshots in guardian-dashboard-runs
    ever     \* every content the local snapshot file has had

vars == <<table, arrived, run, latest, archive, ever>>

Idle == [pc |-> "idle"]
Done == [pc |-> "done"]

Init ==
    /\ table \in Tables /\ arrived = 0
    /\ run = [r \in Run |-> Idle]
    /\ latest \in Imported \cup {Nothing, Invalid}
    /\ archive = {}
    /\ ever = {latest} \ {Nothing}

------------------------------------------------------------------------------
(* filter_occurrence_snapshot *)

\* Whether o's tie_break is greater than p's: publication, recording, key.
Later(o, p) ==
    \/ o.pub > p.pub
    \/ o.pub = p.pub /\ o.rec > p.rec
    \/ o.pub = p.pub /\ o.rec = p.rec /\ o.key > p.key

\* PayloadAlertFilter.evaluate, which refuses an alert that v2 supersedes.
Accepted(o) == o.accepted /\ o.kind # "superseded"

\* An occurrence of the v1 contract, whatever its transition mark says.
Contractual(o) == o.kind \in {"v1", "superseded"}

\* Defective variant of Keep: an alert the policy refuses is not kept.
KeepAccepted(day, kept, o) ==
    LET same == {p \in kept : p.id = o.id} IN
    IF o.day = day /\ Contractual(o) /\ Accepted(o) /\ \A p \in same : Later(o, p)
    THEN (kept \ same) \cup {o} ELSE kept

\* One turn of the loop: the latest occurrence of each alert id so far.
Keep(day, kept, o) ==
    LET same == {p \in kept : p.id = o.id} IN
    IF o.day = day /\ Contractual(o) /\ \A p \in same : Later(o, p)
    THEN (kept \ same) \cup {o} ELSE kept

Candidates(day, records) ==
    LET kept[n \in 0..Len(records)] ==
            IF n = 0 THEN {} ELSE Keep(day, kept[n - 1], records[n])
    IN  kept[Len(records)]

Of(day, records) == {o \in Range(records) : o.day = day}
Occurring(c, alerts) == Cardinality({a \in alerts : a.country = c})

\* build_country_summary
CountrySummary(received, accepted) ==
    [c \in {a.country : a \in received \cup accepted} |->
        [received |-> Occurring(c, received), accepted |-> Occurring(c, accepted)]]

\* Defective variant of Source: only v1 occurrences count as received.
SourceOfContract(day, records) ==
    Cardinality({o \in Of(day, records) : Contractual(o)})

\* source_count, while received_countries has every occurrence of the day.
Source(day, records) == Cardinality(Of(day, records))

Snapshot(day, evaluated, shown, source, countries) ==
    [day |-> day, alerts |-> shown, evaluated |-> evaluated, source |-> source,
     countries |-> countries]

\* What the policy, or in mode "ai" the policy and the model, leaves of them.
Selections(mode, candidates) ==
    LET accepted == {a \in candidates : Accepted(a)}
    IN  IF mode = "policy" THEN {accepted} ELSE SUBSET accepted

OccurrenceSnapshots(day, mode, records) ==
    LET candidates == Candidates(day, records)
    IN  {Snapshot(day, Cardinality(candidates), shown, Source(day, records),
                  CountrySummary(Of(day, records), shown)) :
            shown \in Selections(mode, candidates)}

\* project_eventbridge_v1 and filter_snapshot: rows of the day's file, of which
\* the critical ones get an id from their merchant, country and batch.
RowSnapshots(day, mode, rows) ==
    LET projected == {row \in rows : row.critical}
    IN  {Snapshot(day, Cardinality(projected), shown, Cardinality(rows),
                  CountrySummary(rows, shown)) :
            shown \in Selections(mode, projected)}

------------------------------------------------------------------------------
(* GuardianView._validate_alert_snapshot *)

Total(counts, field) == SumFunction([c \in DOMAIN counts |-> counts[c][field]])

\* KipuAlert reads the alert, and its kipu_generated_at has "T" and a zone.
Legible(a) == a.contract /\ a.stamp = "zoned"

Addressed(alerts) ==
    /\ \A a \in alerts : Stripped[a.id] \notin Unaddressable
    /\ \A a, b \in alerts : Stripped[a.id] = Stripped[b.id] => a = b

Sized(s) ==
    Cardinality(s.alerts) <= MaxAlerts /\ Cardinality(DOMAIN s.countries) <= MaxCountries

Counted(s) ==
    /\ Cardinality(s.alerts) <= s.source /\ Cardinality(s.alerts) <= s.evaluated
    /\ s.evaluated <= s.source
    /\ \A c \in DOMAIN s.countries :
          /\ s.countries[c].accepted <= s.countries[c].received
          /\ s.countries[c].accepted = Occurring(c, s.alerts)
    /\ Total(s.countries, "received") = s.source
    /\ Total(s.countries, "accepted") = Cardinality(s.alerts)

Valid(s) ==
    /\ \A a \in s.alerts : Legible(a)
    /\ Addressed(s.alerts) /\ Sized(s) /\ Counted(s)

------------------------------------------------------------------------------
(* The requests *)

Goto(r, pc, state) == run' = [run EXCEPT ![r] = [state EXCEPT !.pc = pc]]
Leave(r) == run' = [run EXCEPT ![r] = Done]
stored == <<table, arrived>>
files == <<latest, archive, ever>>

\* The worker stores an occurrence while the review runs.
Arrive ==
    /\ arrived < MaxArriving
    /\ \E o \in Arriving \ table : table' = table \cup {o}
    /\ arrived' = arrived + 1
    /\ UNCHANGED <<run, latest, archive, ever>>

\* run: by the extractor or the reader, from the table or from the day's file.
Begin(r) ==
    /\ run[r] = Idle
    /\ \E q \in Request[r] :
          run' = [run EXCEPT ![r] =
              [pc |-> IF q.via = "file" THEN "file" ELSE "scan", via |-> q.via,
               day |-> q.day, mode |-> q.mode, records |-> <<>>, began |-> table,
               snapshot |-> Nothing, previous |-> Nothing]]
    /\ UNCHANGED <<stored, files>>

Scanned(r) == Range(run[r].records)
Whole(r) == run[r].began \subseteq Scanned(r)

\* One page: what was stored meanwhile may lie behind the cursor or before it.
ScanPage(r) ==
    /\ run[r].pc = "scan"
    /\ run[r].via = "reader" => Len(run[r].records) < MaxPages
    /\ \E o \in table \ Scanned(r) :
          Goto(r, "scan", [run[r] EXCEPT !.records = Append(@, o)])
    /\ UNCHANGED <<stored, files>>

\* Defective variant of LastPage: at the limit the records read are returned.
PartialPage(r) ==
    /\ run[r].pc = "scan"
    /\ run[r].via = "reader" => Whole(r) \/ Len(run[r].records) = MaxPages
    /\ Goto(r, "filter", run[r])
    /\ UNCHANGED <<stored, files>>

\* No LastEvaluatedKey is left.  Only with ConsistentRead have the pages shown
\* all that stood when the scan began.
LastPage(r) ==
    /\ run[r].pc = "scan"
    /\ run[r].via = "reader" => Whole(r)
    /\ Goto(r, "filter", run[r])
    /\ UNCHANGED <<stored, files>>

\* EXTRACTION_LIMIT: the reader has read all its pages and the cursor goes on.
Limit(r) ==
    /\ run[r].pc = "scan" /\ run[r].via = "reader"
    /\ Len(run[r].records) = MaxPages /\ ~Whole(r)
    /\ Leave(r)
    /\ UNCHANGED <<stored, files>>

Sound(day, records) ==
    \A o \in Of(day, records) : Contractual(o) => o.sound

\* filter_occurrence_snapshot: one document that contradicts its payload, or a
\* day without occurrences, ends the request with an error.
Filter(r) ==
    /\ run[r].pc = "filter"
    /\ LET day == run[r].day
           records == run[r].records
       IN  IF Sound(day, records) /\ Of(day, records) # {}
           THEN \E s \in OccurrenceSnapshots(day, run[r].mode, records) :
                   Goto(r, "check", [run[r] EXCEPT !.snapshot = s])
           ELSE Leave(r)
    /\ UNCHANGED <<stored, files>>

\* filter_snapshot over alerts.json, which may be missing.
FilterFile(r) ==
    /\ run[r].pc = "file"
    /\ \/ \E rows \in Files : \E s \in RowSnapshots(run[r].day, run[r].mode, rows) :
             Goto(r, "check", [run[r] EXCEPT !.snapshot = s])
       \/ Leave(r)
    /\ UNCHANGED <<stored, files>>

\* _run_alerts: a snapshot the view would not show is not saved.
Check(r) ==
    /\ run[r].pc = "check"
    /\ IF Valid(run[r].snapshot)
       THEN Goto(r, "previous", [run[r] EXCEPT !.records = <<>>, !.began = {}])
       ELSE Leave(r)
    /\ UNCHANGED <<stored, files>>

\* The snapshot shown so far is read and checked before it is replaced.
Previous(r) ==
    /\ run[r].pc = "previous"
    /\ \/ latest = Nothing /\ Goto(r, "save", run[r])
       \/ latest = Invalid /\ Leave(r)
       \/ /\ latest \notin {Nothing, Invalid}
          /\ Goto(r, "retain", [run[r] EXCEPT !.previous = latest])
    /\ UNCHANGED <<stored, files>>

\* Defective variant of Retain: only a snapshot of another day is retained.
RetainOtherDay(r) ==
    /\ run[r].pc = "retain"
    /\ archive' = IF run[r].previous.day = run[r].day THEN archive
                  ELSE archive \cup {run[r].previous}
    /\ Goto(r, "save", run[r])
    /\ UNCHANGED <<stored, latest, ever>>

\* The previous snapshot, under a name that its content gives.
Retain(r) ==
    /\ run[r].pc = "retain"
    /\ archive' = archive \cup {run[r].previous}
    /\ Goto(r, "save", run[r])
    /\ UNCHANGED <<stored, latest, ever>>

\* The new snapshot, under a name of its own.
Save(r) ==
    /\ run[r].pc = "save"
    /\ archive' = archive \cup {run[r].snapshot}
    /\ Goto(r, "publish", run[r])
    /\ UNCHANGED <<stored, latest, ever>>

\* _save(latest): the file is replaced as a whole.
Publish(r) ==
    /\ run[r].pc = "publish"
    /\ latest' = run[r].snapshot
    /\ ever' = ever \cup {run[r].snapshot}
    /\ Leave(r)
    /\ UNCHANGED <<stored, archive>>

\* The process dies, or the extractor, the table or the file system fails.
Fail(r) ==
    /\ run[r].pc \notin {"idle", "done"}
    /\ Leave(r)
    /\ UNCHANGED <<stored, files>>

Next ==
    \/ Arrive
    \/ \E r \in Run :
          \/ Begin(r) \/ ScanPage(r) \/ LastPage(r) \/ Limit(r) \/ Filter(r)
          \/ FilterFile(r) \/ Check(r) \/ Previous(r) \/ Retain(r) \/ Save(r)
          \/ Publish(r) \/ Fail(r)

Spec == Init /\ [][Next]_vars

------------------------------------------------------------------------------
(* build_daily_export, by date of publication *)

Primary(day, occurrences) ==
    {o \in occurrences : o.day = day /\ o.kind \in {"v1", "v2"}}

\* _latest_by_alert_id, over occurrences in the order of their tie_break.
LatestById(occurrences) ==
    {o \in occurrences : \A p \in occurrences : p.id = o.id => ~Later(p, o)}

ValidUnique(day, occurrences) ==
    LatestById({o \in Primary(day, occurrences) : Accepted(o)})

------------------------------------------------------------------------------
(* Properties *)

\* A snapshot the dashboard has shown is never lost: it is still the one shown,
\* or one of the archive, whatever requests run at once and wherever one of them
\* dies; a file the view cannot read is not overwritten either
\* (_run_alerts, guardian_view.py:200-227; docs/historical-analysis.md:99-101).
ServedNeverLost == \A s \in ever : s = latest \/ s \in archive

\* The counts that are extracted, by country and in all, agree with each other
\* and with the alerts, whatever was scanned and whatever the model left out: the
\* view, which recomputes them, never refuses a day for its counts
\* (manual_snapshot.py:134-240 against guardian_view.py:165-198).
ExtractedIsCounted ==
    \A r \in Run : run[r].pc \in {"check", "previous", "retain", "save", "publish"} =>
        Counted(run[r].snapshot)

\* What a snapshot speaks of: for the reader, all that stood when its scan began
\* and what it saw of what came since; for the extractor, what it was given.
Seen(r) == IF run[r].via = "reader" THEN run[r].began \cup Scanned(r) ELSE Scanned(r)

\* Whatever the order of the pages, and whatever arrives between them, an alert
\* of the snapshot is the latest v1 state of its id that day among the
\* occurrences seen, and the snapshot and the export of the same occurrences
\* disagree only where the code means them to: the export shows that alert too,
\* or a later one of v2, and a valid v1 alert of the export is missing from a
\* policy run only when a later v1 occurrence of its id was refused
\* (manual_snapshot.py:147-215, occurrence_export.py:237-291,
\* guardian_daily.py:219-258).
ViewsAgree ==
    \A r \in Run :
        run[r].pc = "check" /\ run[r].via # "file" =>
            LET day == run[r].day
                shown == run[r].snapshot.alerts
                unique == ValidUnique(day, Seen(r))
            IN  /\ \A a \in shown :
                      /\ \A p \in Seen(r) :
                            p.day = day /\ Contractual(p) /\ p.id = a.id => ~Later(p, a)
                      /\ \E o \in unique :
                            o.id = a.id /\ (o = a \/ (o.kind = "v2" /\ Later(o, a)))
                /\ run[r].mode = "policy" =>
                      \A o \in unique : o.kind = "v1" =>
                          \/ o \in shown
                          \/ \E p \in Seen(r) :
                                /\ p.day = day /\ Contractual(p) /\ ~Accepted(p)
                                /\ p.id = o.id /\ Later(p, o)
=============================================================================
