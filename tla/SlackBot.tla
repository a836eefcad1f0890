------------------------------- MODULE SlackBot ------------------------------
(***************************************************************************)
(* SlackAcceptanceBot (src/alert_reviewer/slack_bot.py): the handler that   *)
(* the Socket Mode client runs in its threads, and SlackEventStore, the     *)
(* file of processed events, read and replaced as a whole by each of them.  *)
(*                                                                         *)
(* Slack sends an event again while it has not seen its acknowledgement.   *)
(***************************************************************************)
EXTENDS Naturals, Sequences

CONSTANTS
    Verdict,     \* what SlackAcceptanceAnalyzer.analyze may answer
    Event,       \* events of the workspace: [id, channel, ts, kind]
    NoId,        \* an event without event_id
    Thread,      \* threads of the client
    MaxRecords,  \* max_records
    MaxSends,    \* bound: deliveries of one event
    MaxFaults,   \* bound: crashes, damages of the file, failures to read it
    Idle,        \* a thread without a request
    NoVerdict

Kinds == {"kipu", "incomplete", "other"}
ASSUME EventAssumption == \A e \in Event : e.kind \in Kinds
ASSUME IdleAssumption == Idle \notin Event
ASSUME LimitAssumption == MaxRecords \in Nat \ {0}

\* Defective variant of Key: without an id, the time of the message names it.
KeyByTime(e) == IF e.id # NoId THEN <<e.id>> ELSE <<"message", e.ts>>

\* _event_key
Key(e) == IF e.id # NoId THEN <<e.id>> ELSE <<"message", e.channel, e.ts>>

VARIABLES
    sends,    \* [Event -> deliveries so far]
    acked,    \* events Slack knows to be acknowledged
    file,     \* the processed events: a sequence of [key, verdict], oldest first
    form,     \* the file is "sound", "broken" (not a JSON object) or
              \* "undecodable" (not UTF-8)
    event,    \* [Thread -> the event it handles, or Idle]
    step,     \* [Thread -> "check", "reply", "load" or "replace"]
    outcome,  \* [Thread -> the verdict it has replied]
    loaded,   \* [Thread -> the records mark_processed has read]
    posted,   \* [Event -> verdicts posted in the thread of the message]
    faults,   \* crashes, damages and failures to read so far
    broken,   \* events whose handling or whose mark a failure has cut short
    overlap,  \* events that two threads have handled beyond the check at once
    unread    \* events that came while the file could not be decoded

vars == <<sends, acked, file, form, event, step, outcome, loaded, posted,
          faults, broken, overlap, unread>>
handler == <<event, step, outcome, loaded>>

Init ==
    /\ sends = [e \in Event |-> 0] /\ acked = {}
    /\ file = <<>> /\ form = "sound"
    /\ event = [t \in Thread |-> Idle]
    /\ step = [t \in Thread |-> "check"]
    /\ outcome = [t \in Thread |-> NoVerdict]
    /\ loaded = [t \in Thread |-> <<>>]
    /\ posted = [e \in Event |-> <<>>]
    /\ faults = 0 /\ broken = {} /\ overlap = {} /\ unread = {}

Keys(records) == {records[i].key : i \in DOMAIN records}
At(t, s) == event[t] # Idle /\ step[t] = s
Goto(t, s) == step' = [step EXCEPT ![t] = s]

\* The handler returns, or an exception ends it: the client only logs it.
Leave(t) ==
    /\ event' = [event EXCEPT ![t] = Idle]
    /\ step' = [step EXCEPT ![t] = "check"]
    /\ outcome' = [outcome EXCEPT ![t] = NoVerdict]
    /\ loaded' = [loaded EXCEPT ![t] = <<>>]

\* Slack sends the event, for the first time or again, and a thread takes it.
\* It acknowledges first: that arrives, is lost, or raises.
Receive(e, t) ==
    /\ e \notin acked /\ sends[e] < MaxSends /\ event[t] = Idle
    /\ sends' = [sends EXCEPT ![e] = @ + 1]
    /\ \/ acked' = acked \cup {e} /\ event' = [event EXCEPT ![t] = e]
       \/ UNCHANGED acked /\ event' = [event EXCEPT ![t] = e]
       \/ UNCHANGED <<acked, event>>
    /\ UNCHANGED <<file, form, step, outcome, loaded, posted, faults, broken,
                   overlap, unread>>

\* What the file holds: what is not a JSON object holds nothing.
Contents == IF form = "sound" THEN file ELSE <<>>

\* _load returns what the file holds, or nothing when the system fails to read
\* it.  Of a file that is not UTF-8 it raises instead.
Load(records) ==
    \/ form # "undecodable" /\ records = Contents /\ UNCHANGED faults
    \/ records = <<>> /\ faults < MaxFaults /\ faults' = faults + 1

\* The dedupe check and the parser.  A failure to read may hide a mark.
Judge(t, records) ==
    IF Key(event[t]) \in Keys(records) \/ event[t].kind = "incomplete"
    THEN Leave(t) /\ UNCHANGED <<broken, overlap>>
    ELSE /\ Goto(t, "reply")
         /\ broken' = IF Key(event[t]) \in Keys(Contents)
                      THEN broken \cup {event[t]} ELSE broken
         /\ overlap' = IF \E u \in Thread \ {t} : event[u] = event[t]
                          /\ step[u] # "check"
                       THEN overlap \cup {event[t]} ELSE overlap
         /\ UNCHANGED <<event, outcome, loaded>>

\* The filters, then the dedupe check, which a file that is not UTF-8 ends.
Check(t) ==
    /\ At(t, "check")
    /\ \/ /\ event[t].kind = "other" /\ Leave(t)
          /\ UNCHANGED <<faults, broken, overlap, unread>>
       \/ /\ event[t].kind # "other" /\ form = "undecodable" /\ Leave(t)
          /\ unread' = unread \cup {event[t]}
          /\ UNCHANGED <<faults, broken, overlap>>
       \/ /\ event[t].kind # "other" /\ UNCHANGED unread
          /\ \E records \in {Contents, <<>>} : Load(records) /\ Judge(t, records)
    /\ UNCHANGED <<sends, acked, file, form, posted>>

\* The alert is analysed and the verdict posted.
Post(t, v) ==
    /\ posted' = [posted EXCEPT ![event[t]] = Append(@, v)]
    /\ outcome' = [outcome EXCEPT ![t] = v]

\* Defective variant of Reply: a failure to post is ignored.
ReplyFailureIgnored(t, v) ==
    /\ At(t, "reply")
    /\ Post(t, v) \/ (UNCHANGED posted /\ outcome' = [outcome EXCEPT ![t] = v])
    /\ Goto(t, "load")
    /\ UNCHANGED <<sends, acked, file, form, event, loaded, faults, broken,
                   overlap, unread>>

\* The reply is posted (or logged, in a dry run); posting may raise, with the
\* message posted or not, and then nothing is marked.
Reply(t, v) ==
    /\ At(t, "reply")
    /\ \/ Post(t, v) /\ Goto(t, "load") /\ UNCHANGED <<event, loaded, broken>>
       \/ /\ posted' \in {posted, [posted EXCEPT ![event[t]] = Append(@, v)]}
          /\ Leave(t) /\ broken' = broken \cup {event[t]}
    /\ UNCHANGED <<sends, acked, file, form, faults, overlap, unread>>

\* mark_processed reads the file, unless it is not UTF-8: then it raises ...
Read(t) ==
    /\ At(t, "load")
    /\ \/ /\ \E records \in {Contents, <<>>} :
                 Load(records) /\ loaded' = [loaded EXCEPT ![t] = records]
          /\ Goto(t, "replace") /\ UNCHANGED <<event, outcome, broken>>
       \/ /\ form = "undecodable" /\ Leave(t)
          /\ broken' = broken \cup {event[t]} /\ UNCHANGED faults
    /\ UNCHANGED <<sends, acked, file, form, posted, overlap, unread>>

\* Defective variant of Latest: the oldest records are kept.
LatestFirst(records) == SubSeq(records, 1, IF Len(records) <= MaxRecords
                                            THEN Len(records) ELSE MaxRecords)

Latest(records) ==
    IF Len(records) <= MaxRecords THEN records
    ELSE SubSeq(records, Len(records) - MaxRecords + 1, Len(records))

\* A key that is there keeps its place.
With(records, k, v) ==
    IF k \in Keys(records)
    THEN [i \in DOMAIN records |->
            IF records[i].key = k THEN [key |-> k, verdict |-> v] ELSE records[i]]
    ELSE Append(records, [key |-> k, verdict |-> v])

\* ... and replaces it: what others wrote meanwhile, and the oldest, are gone.
Replace(t) ==
    /\ At(t, "replace")
    /\ \/ /\ file' = Latest(With(loaded[t], Key(event[t]), outcome[t]))
          /\ form' = "sound"
          /\ broken' = broken \cup {e \in Event :
                Key(e) \in Keys(Contents) \ Keys(file')}
       \/ UNCHANGED <<file, form>> /\ broken' = broken \cup {event[t]}
    /\ Leave(t)
    /\ UNCHANGED <<sends, acked, posted, faults, overlap, unread>>

\* The process dies, or the file is damaged.
Crash ==
    /\ faults < MaxFaults /\ faults' = faults + 1
    /\ broken' = broken \cup {event[t] : t \in {u \in Thread : event[u] # Idle}}
    /\ event' = [t \in Thread |-> Idle] /\ loaded' = [t \in Thread |-> <<>>]
    /\ step' = [t \in Thread |-> "check"] /\ outcome' = [t \in Thread |-> NoVerdict]
    /\ UNCHANGED <<sends, acked, file, form, posted, overlap, unread>>

Damage ==
    /\ faults < MaxFaults /\ faults' = faults + 1
    /\ form' \in {"broken", "undecodable"} \ {form}
    /\ broken' = broken \cup {e \in Event : Key(e) \in Keys(Contents)}
    /\ UNCHANGED <<sends, acked, file, handler, posted, overlap, unread>>

Next ==
    \/ \E t \in Thread :
          \/ \E e \in Event : Receive(e, t)
          \/ Check(t)
          \/ \E v \in Verdict : Reply(t, v)
          \/ Read(t)
          \/ Replace(t)
    \/ Crash
    \/ Damage

Spec == Init /\ [][Next]_vars

-----------------------------------------------------------------------------
\* An event on file was answered, with the verdict on file (slack_bot:309, 314).
MarkedWasAnswered ==
    \A i \in DOMAIN Contents : \E e \in Event :
        /\ Key(e) = Contents[i].key
        /\ \E p \in DOMAIN posted[e] : posted[e][p] = Contents[i].verdict

\* A message gets a second answer only if two threads handled its deliveries at
\* once, or a failure cut the first one short, or its mark was lost or not seen:
\* evicted, overwritten by a concurrent save, damaged, or on a file that the
\* system failed to read (slack_bot:70, 90, 298).
SecondAnswersExplained ==
    \A e \in Event : Len(posted[e]) > 1 => e \in broken \cup overlap

\* A Kipu alert that Slack need not send again has been answered, is being
\* handled, was cut short by a failure, or came while the file of processed
\* events was not UTF-8, which ends its handler unanswered: no other alert, no
\* filter and no other damage takes its place (slack_bot:89, 137, 291, 298).
NoneForgotten ==
    \A e \in acked : e.kind = "kipu" =>
        \/ posted[e] # <<>> \/ e \in broken \cup unread
        \/ \E t \in Thread : event[t] = e
=============================================================================
