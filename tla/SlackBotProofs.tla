--------------------------- MODULE SlackBotProofs ---------------------------
(***************************************************************************)
(* Proofs about SlackBot, for every set of events and threads, every size   *)
(* of the file and any number of deliveries and faults.  The argument:      *)
(*                                                                         *)
(*   SaidIsKept     what was posted stays posted;                           *)
(*   KeepsMarks     a mark that mark_processed adds, updates or evicts      *)
(*                  leaves only marks of answered events;                   *)
(*   MarksStep      so the file, and every copy a thread has read of it,    *)
(*                  hold marks of answered events only;                     *)
(*   NoneForgotten  follows when keys identify events: a delivery dropped   *)
(*                  as a repetition belongs to an event that was answered;  *)
(*   OnceStep       an event that nothing has disturbed is handled by one   *)
(*                  thread and marked by the one that answers it.           *)
(***************************************************************************)
EXTENDS SlackBot, TLAPS

Record == [key : {Key(e) : e \in Event}, verdict : Verdict]

Types ==
    /\ event \in [Thread -> Event \cup {Idle}]
    /\ step \in [Thread -> {"check", "reply", "load", "replace"}]
    /\ outcome \in [Thread -> Verdict \cup {NoVerdict}]
    /\ file \in Seq(Record) /\ loaded \in [Thread -> Seq(Record)]
    /\ posted \in [Event -> Seq(Verdict)]
    /\ acked \subseteq Event

Said(e, v) == \E p \in DOMAIN posted[e] : posted[e][p] = v
Answered(record) == \E e \in Event : Key(e) = record.key /\ Said(e, record.verdict)
AllAnswered(records) == \A i \in DOMAIN records : Answered(records[i])

Marks ==
    /\ AllAnswered(file)
    /\ \A t \in Thread : AllAnswered(loaded[t])
    /\ \A t \in Thread : step[t] # "check" => event[t] \in Event
    /\ \A t \in Thread : step[t] \in {"load", "replace"} => Said(event[t], outcome[t])

IInv == Types /\ Marks

\* Slack gives no two messages one id, nor one channel and time.
KeysIdentify == \A d, e \in Event : Key(d) = Key(e) => d = e

Posting(e, v) == posted' = [posted EXCEPT ![e] = Append(@, v)]

------------------------------------------------------------------------------
\* A post adds a verdict and keeps those posted before.
LEMMA PostAdds ==
    ASSUME Types, NEW e \in Event, NEW v \in Verdict, Posting(e, v)
    PROVE  /\ posted' \in [Event -> Seq(Verdict)]
           /\ Said(e, v)'
           /\ posted'[e] # <<>>
           /\ \A d \in Event : posted[d] # <<>> => posted'[d] # <<>>
           /\ \A d \in Event : \A w : Said(d, w) => Said(d, w)'
<1>1. posted[e] \in Seq(Verdict)
  BY DEF Types
<1>2. posted' \in [Event -> Seq(Verdict)]
  BY DEF Types, Posting
<1>3. posted'[e] = Append(posted[e], v) /\ \A d \in Event \ {e} : posted'[d] = posted[d]
  BY DEF Types, Posting
<1>4. /\ Len(posted'[e]) = Len(posted[e]) + 1
      /\ posted'[e][Len(posted[e]) + 1] = v
      /\ \A p \in 1..Len(posted[e]) : posted'[e][p] = posted[e][p]
      /\ DOMAIN posted[e] = 1..Len(posted[e]) /\ DOMAIN posted'[e] = 1..(Len(posted[e]) + 1)
      /\ Len(posted[e]) \in Nat
  BY <1>1, <1>3
<1>5. Said(e, v)'
  BY <1>4 DEF Said
<1>6. posted'[e] # <<>>
  BY <1>4
<1>7. \A d \in Event : \A w : Said(d, w) => Said(d, w)'
  BY <1>3, <1>4 DEF Said
<1> QED  BY <1>2, <1>3, <1>5, <1>6, <1>7

\* Records that say no more than others said are answered too.
LEMMA StillAnswered ==
    ASSUME NEW records, AllAnswered(records),
           \A d \in Event : \A w : Said(d, w) => Said(d, w)'
    PROVE  \A i \in DOMAIN records :
               \E e \in Event : Key(e) = records[i].key /\ Said(e, records[i].verdict)'
BY DEF AllAnswered, Answered

\* The records kept are some of the records there were.
LEMMA LatestOfRecords ==
    ASSUME NEW records \in Seq(Record)
    PROVE  /\ Latest(records) \in Seq(Record)
           /\ \A i \in DOMAIN Latest(records) :
                 \E j \in DOMAIN records : Latest(records)[i] = records[j]
<1>1. CASE Len(records) <= MaxRecords
  BY <1>1 DEF Latest
<1>2. CASE ~(Len(records) <= MaxRecords)
  <2> DEFINE m == Len(records) - MaxRecords + 1
             n == Len(records)
  <2>1. m \in Nat \ {0} /\ n \in Nat /\ m - 1 <= n
    BY <1>2, LimitAssumption
  <2>2. Latest(records) = SubSeq(records, m, n)
    BY <1>2 DEF Latest
  <2>3. \A i \in m..n : records[i] \in Record
    BY <2>1
  <2>4. SubSeq(records, m, n) \in Seq(Record)
    BY <2>1, <2>3
  <2>5. /\ DOMAIN SubSeq(records, m, n) = 1..(n - m + 1)
        /\ \A i \in 1..(n - m + 1) : SubSeq(records, m, n)[i] = records[i + m - 1]
    BY <2>1
  <2>6. \A i \in 1..(n - m + 1) : i + m - 1 \in DOMAIN records
    BY <2>1
  <2> QED  BY <2>2, <2>4, <2>5, <2>6
<1> QED  BY <1>1, <1>2

\* Marking an answered event leaves only marks of answered events.
LEMMA KeepsMarks ==
    ASSUME NEW records \in Seq(Record), AllAnswered(records), NEW e \in Event,
           NEW v \in Verdict, Said(e, v)
    PROVE  /\ Latest(With(records, Key(e), v)) \in Seq(Record)
           /\ AllAnswered(Latest(With(records, Key(e), v)))
<1> DEFINE mark == [key |-> Key(e), verdict |-> v]
           marked == With(records, Key(e), v)
<1>1. mark \in Record /\ Answered(mark)
  BY DEF Record, Answered
<1>2. marked \in Seq(Record) /\ AllAnswered(marked)
  <2>1. CASE Key(e) \in Keys(records)
    <3>1. marked = [i \in DOMAIN records |->
                       IF records[i].key = Key(e) THEN mark ELSE records[i]]
      BY <2>1 DEF With
    <3> QED  BY <1>1, <3>1 DEF AllAnswered
  <2>2. CASE Key(e) \notin Keys(records)
    <3>1. marked = Append(records, mark)
      BY <2>2 DEF With
    <3>2. marked \in Seq(Record)
      BY <1>1, <3>1
    <3>3. \A i \in DOMAIN marked : marked[i] = mark \/ (i \in DOMAIN records /\ marked[i] = records[i])
      BY <3>1
    <3> QED  BY <1>1, <3>2, <3>3 DEF AllAnswered
  <2> QED  BY <2>1, <2>2
<1> HIDE DEF marked
<1>3. Latest(marked) \in Seq(Record) /\ AllAnswered(Latest(marked))
  BY <1>2, LatestOfRecords DEF AllAnswered
<1> QED  BY <1>3 DEF marked

\* The end of a handler.
LEMMA LeaveStep ==
    ASSUME IInv, NEW t \in Thread, Leave(t),
           \A d \in Event : \A w : Said(d, w) => Said(d, w)',
           posted' \in [Event -> Seq(Verdict)], acked' \subseteq Event,
           file' \in Seq(Record), AllAnswered(file)'
    PROVE  IInv'
<1>1. /\ event'[t] = Idle /\ step'[t] = "check" /\ loaded'[t] = <<>>
      /\ \A u \in Thread \ {t} : event'[u] = event[u] /\ step'[u] = step[u]
            /\ loaded'[u] = loaded[u] /\ outcome'[u] = outcome[u]
  BY DEF Leave, IInv, Types
<1>2. Types'
  BY DEF Leave, IInv, Types
<1>3. \A u \in Thread : AllAnswered(loaded[u])'
  <2>1. AllAnswered(loaded[t])'
    BY <1>1 DEF AllAnswered
  <2>2. ASSUME NEW u \in Thread \ {t} PROVE AllAnswered(loaded[u])'
    BY <1>1, StillAnswered, ZenonT(60) DEF IInv, Marks, AllAnswered, Answered
  <2> QED  BY <2>1, <2>2
<1>4. Marks'
  BY <1>1, <1>3 DEF IInv, Marks
<1> QED  BY <1>2, <1>4 DEF IInv

\* Initially there is no mark.
LEMMA InitIInv == Init => IInv
<1> SUFFICES ASSUME Init PROVE IInv
  OBVIOUS
<1>1. Types
  BY DEF Init, Types
<1>2. Marks
  BY DEF Init, Marks, AllAnswered
<1> QED  BY <1>1, <1>2 DEF IInv

\* A delivery arrives: the thread that takes it starts at the check.
LEMMA ReceiveStep ==
    ASSUME IInv, NEW e \in Event, NEW t \in Thread, Receive(e, t)
    PROVE  IInv'
<1>1. /\ UNCHANGED <<file, step, outcome, loaded, posted>>
      /\ event' = event \/ event' = [event EXCEPT ![t] = e]
      /\ acked' \subseteq Event
  BY DEF Receive, IInv, Types
<1>2. Types'
  BY <1>1 DEF IInv, Types
<1>3. step[t] = "check"
  BY IdleAssumption DEF Receive, IInv, Types, Marks
<1>4. \A u \in Thread : event'[u] = event[u] \/ (u = t /\ event'[u] = e)
  BY <1>1 DEF IInv, Types
<1>5. Marks'
  BY <1>1, <1>3, <1>4 DEF IInv, Marks, AllAnswered, Answered, Said
<1> QED  BY <1>2, <1>5 DEF IInv

\* What the check lets through goes on to be answered.
LEMMA CheckStep ==
    ASSUME IInv, NEW t \in Thread, Check(t)
    PROVE  IInv'
<1>1. UNCHANGED <<file, posted, acked>>
  BY DEF Check
<1>2. CASE Leave(t)
  BY <1>1, <1>2, LeaveStep, ZenonT(60) DEF IInv, Types, Marks, Said, AllAnswered, Answered
<1>3. CASE step[t] = "check" /\ Goto(t, "reply") /\ UNCHANGED <<event, outcome, loaded>>
  <2>1. step' \in [Thread -> {"check", "reply", "load", "replace"}]
        /\ \A u \in Thread : step'[u] = step[u] \/ (u = t /\ step'[u] = "reply")
    BY <1>3 DEF Goto, IInv, Types
  <2>2. event[t] \in Event
    BY DEF Check, At, IInv, Types
  <2>3. Types'
    BY <1>1, <1>3, <2>1 DEF IInv, Types
  <2>4. Marks'
    BY <1>1, <1>3, <2>1, <2>2 DEF IInv, Marks, AllAnswered, Answered, Said
  <2> QED  BY <2>3, <2>4 DEF IInv
<1> QED  BY <1>2, <1>3 DEF Check, Judge, At

\* A reply is posted before the event is marked.
LEMMA ReplyStep ==
    ASSUME IInv, NEW t \in Thread, NEW v \in Verdict, Reply(t, v)
    PROVE  IInv'
<1>1. PICK e \in Event : e = event[t] /\ UNCHANGED <<file, acked>>
  BY DEF Reply, At, IInv, Types
<1>2. CASE Post(t, v) /\ Goto(t, "load") /\ UNCHANGED <<event, loaded>>
  <2>1. Posting(e, v) /\ outcome' = [outcome EXCEPT ![t] = v]
    BY <1>1, <1>2 DEF Post, Posting
  <2>2. /\ posted' \in [Event -> Seq(Verdict)] /\ Said(e, v)'
        /\ \A d \in Event : \A w : Said(d, w) => Said(d, w)'
    BY <1>1, <2>1, PostAdds DEF IInv
  <2>3. /\ step' \in [Thread -> {"check", "reply", "load", "replace"}]
        /\ \A u \in Thread \ {t} : step'[u] = step[u] /\ outcome'[u] = outcome[u]
        /\ outcome'[t] = v
    BY <1>2, <2>1 DEF Goto, IInv, Types
  <2>4. Types'
    BY <1>1, <1>2, <2>1, <2>2, <2>3 DEF IInv, Types
  <2>5. AllAnswered(file)' /\ \A u \in Thread : AllAnswered(loaded[u])'
    BY <1>1, <1>2, <2>2 DEF IInv, Marks, AllAnswered, Answered
  <2>6. \A u \in Thread : step'[u] \in {"load", "replace"} => Said(event[u], outcome[u])'
    <3>1. Said(event[t], outcome[t])'
      BY <1>1, <1>2, <2>2, <2>3 DEF Said
    <3>2. ASSUME NEW u \in Thread \ {t}, step'[u] \in {"load", "replace"}
          PROVE  Said(event[u], outcome[u])'
      <4>1. PICK d, w : d \in Event /\ d = event[u] /\ w = outcome[u] /\ Said(d, w)
        BY <2>3, <3>2 DEF IInv, Marks
      <4>2. Said(d, w)'
        BY <2>2, <4>1
      <4>3. event'[u] = d /\ outcome'[u] = w
        BY <1>2, <2>3, <4>1
      <4> QED  BY <4>2, <4>3 DEF Said
    <3> QED  BY <3>1, <3>2
  <2>7. Marks'
    BY <1>1, <1>2, <2>3, <2>5, <2>6 DEF IInv, Marks
  <2> QED  BY <2>4, <2>7 DEF IInv
<1>3. CASE /\ posted' \in {posted, [posted EXCEPT ![event[t]] = Append(@, v)]}
           /\ Leave(t)
  <2>1. posted' = posted \/ Posting(e, v)
    BY <1>1, <1>3 DEF Posting
  <2>2. /\ posted' \in [Event -> Seq(Verdict)]
        /\ \A d \in Event : \A w : Said(d, w) => Said(d, w)'
    BY <1>1, <2>1, PostAdds DEF IInv, Types, Said
  <2>3. AllAnswered(file)' /\ file' \in Seq(Record) /\ acked' \subseteq Event
    BY <1>1, <2>2 DEF IInv, Types, Marks, AllAnswered, Answered
  <2> QED  BY <1>3, <2>2, <2>3, LeaveStep
<1> QED  BY <1>2, <1>3 DEF Reply

\* What a thread reads of the file holds only marks of answered events.
LEMMA LoadedRecords ==
    ASSUME IInv, NEW records, Load(records)
    PROVE  records \in Seq(Record) /\ AllAnswered(records)
<1>1. Contents \in Seq(Record) /\ AllAnswered(Contents)
  BY DEF Contents, IInv, Types, Marks, AllAnswered
<1>2. <<>> \in Seq(Record) /\ AllAnswered(<<>>)
  BY DEF AllAnswered
<1> QED  BY <1>1, <1>2 DEF Load

\* A thread reads the marks on file, or its handler ends.
LEMMA ReadStep ==
    ASSUME IInv, NEW t \in Thread, Read(t)
    PROVE  IInv'
<1>1. UNCHANGED <<file, posted, acked>> /\ step[t] = "load"
  BY DEF Read, At
<1>2. CASE Leave(t)
  BY <1>1, <1>2, LeaveStep, ZenonT(60) DEF IInv, Types, Marks, Said, AllAnswered, Answered
<1>3. ASSUME NEW records, Load(records), loaded' = [loaded EXCEPT ![t] = records],
             Goto(t, "replace"), UNCHANGED <<event, outcome>>
      PROVE  IInv'
  <2>1. records \in Seq(Record) /\ AllAnswered(records)
    BY <1>3, LoadedRecords
  <2>2. /\ step' \in [Thread -> {"check", "reply", "load", "replace"}]
        /\ step'[t] = "replace" /\ loaded'[t] = records
        /\ \A u \in Thread \ {t} : step'[u] = step[u] /\ loaded'[u] = loaded[u]
    BY <1>3 DEF Goto, IInv, Types
  <2>3. Types'
    BY <1>1, <1>3, <2>1, <2>2 DEF IInv, Types
  <2>4. AllAnswered(file)' /\ \A u \in Thread : AllAnswered(loaded'[u])
    BY <1>1, <2>1, <2>2 DEF IInv, Marks, AllAnswered, Answered, Said
  <2>5. \A u \in Thread : AllAnswered(loaded[u])'
    BY <1>1, <2>4 DEF AllAnswered, Answered, Said
  <2>6. Marks'
    BY <1>1, <1>3, <2>2, <2>4, <2>5 DEF IInv, Marks, Said
  <2> QED  BY <2>3, <2>6 DEF IInv
<1> QED  BY <1>2, <1>3 DEF Read

\* The file is replaced by what the thread read and its own mark.
LEMMA ReplaceStep ==
    ASSUME IInv, NEW t \in Thread, Replace(t)
    PROVE  IInv'
<1>1. event[t] \in Event /\ step[t] = "replace" /\ UNCHANGED <<posted, acked>> /\ Leave(t)
  BY DEF Replace, At, IInv, Types
<1>2. \A d \in Event : \A w : Said(d, w) => Said(d, w)'
  BY <1>1 DEF Said
<1>3. file' \in Seq(Record) /\ AllAnswered(file')
  <2>1. CASE file' = file
    BY <2>1 DEF IInv, Types, Marks
  <2>2. CASE file' = Latest(With(loaded[t], Key(event[t]), outcome[t]))
    <3>1. Said(event[t], outcome[t])
      BY <1>1 DEF IInv, Marks
    <3>2. outcome[t] \in Verdict
      BY <1>1, <3>1 DEF Said, IInv, Types
    <3>3. loaded[t] \in Seq(Record) /\ AllAnswered(loaded[t])
      BY DEF IInv, Types, Marks
    <3> QED  BY <1>1, <2>2, <3>1, <3>2, <3>3, KeepsMarks
  <2> QED  BY <2>1, <2>2 DEF Replace
<1>4. AllAnswered(file)'
  BY <1>1, <1>3 DEF AllAnswered, Answered, Said
<1>5. posted' \in [Event -> Seq(Verdict)] /\ acked' \subseteq Event
  BY <1>1 DEF IInv, Types
<1> QED  BY <1>1, <1>2, <1>3, <1>4, <1>5, LeaveStep

\* The file, and what every thread has read of it, hold only marks of answered
\* events, whatever step is taken.
LEMMA MarksStep == IInv /\ [Next]_vars => IInv'
<1> SUFFICES ASSUME IInv, [Next]_vars PROVE IInv'
  OBVIOUS
<1>1. CASE Crash
  <2>1. Types'
    BY <1>1 DEF Crash, IInv, Types
  <2>2. Marks'
    BY <1>1 DEF Crash, IInv, Marks, AllAnswered, Answered, Said
  <2> QED  BY <2>1, <2>2 DEF IInv
<1>2. CASE Damage
  <2>1. Types'
    BY <1>2 DEF Damage, handler, IInv, Types
  <2>2. Marks'
    BY <1>2 DEF Damage, handler, IInv, Marks, AllAnswered, Answered, Said
  <2> QED  BY <2>1, <2>2 DEF IInv
<1>3. CASE UNCHANGED vars
  <2>1. Types'
    BY <1>3 DEF vars, IInv, Types
  <2>2. Marks'
    BY <1>3 DEF vars, IInv, Marks, AllAnswered, Answered, Said
  <2> QED  BY <2>1, <2>2 DEF IInv
<1> QED
  BY <1>1, <1>2, <1>3, ReceiveStep, CheckStep, ReplyStep, ReadStep, ReplaceStep DEF Next

\* The inductive invariant holds in every reachable state (slack_bot.py:57-91).
THEOREM SlackInvariant == Spec => []IInv
  BY InitIInv, MarksStep, PTL DEF Spec

\* An event the file holds as processed was answered with the verdict on file,
\* however threads, crashes and evictions interleave (slack_bot.py:67-84, 304-313).
THEOREM OnlyAnswersAreMarked == Spec => []MarkedWasAnswered
<1>1. IInv => MarkedWasAnswered
  BY DEF IInv, Marks, AllAnswered, Answered, Said, MarkedWasAnswered, Contents
<1> QED  BY <1>1, SlackInvariant, PTL

\* What is disturbed stays so.
LEMMA DisturbedStays ==
    [Next]_vars => /\ broken \subseteq broken' /\ overlap \subseteq overlap'
                   /\ unread \subseteq unread'
BY DEF Next, vars, Receive, Check, Judge, Reply, Read, Replace, Crash, Damage

\* A Kipu alert that was acknowledged is answered, in progress or cut short.
LEMMA NextForgetsNone ==
    ASSUME KeysIdentify, IInv, NoneForgotten, [Next]_vars
    PROVE  NoneForgotten'
<1> SUFFICES ASSUME NEW e \in acked', e.kind = "kipu",
                    posted'[e] = <<>>, e \notin broken' \cup unread'
             PROVE  \E t \in Thread : event'[t] = e
  BY DEF NoneForgotten
<1>1. ASSUME NEW d \in Event, NEW t \in Thread, Receive(d, t)
      PROVE  \E u \in Thread : event'[u] = e
  <2>1. CASE e \in acked
    <3>1. PICK u \in Thread : event[u] = e
      BY <1>1, <2>1 DEF NoneForgotten, Receive
    <3>2. e \in Event
      BY <2>1 DEF IInv, Types
    <3>3. u # t
      BY <1>1, <3>1, <3>2, IdleAssumption DEF Receive
    <3> QED  BY <1>1, <3>1, <3>3 DEF Receive, IInv, Types
  <2>2. CASE e \notin acked
    BY <1>1, <2>2 DEF Receive, IInv, Types
  <2> QED  BY <2>1, <2>2
<1>2. CASE ~(\E d \in Event, t \in Thread : Receive(d, t))
  <2>1. acked' = acked
    BY <1>2 DEF Next, vars, Check, Reply, Read, Replace, Crash, Damage
  <2>2. e \in Event /\ e \in acked
    BY <2>1 DEF IInv, Types
  <2>3. broken \subseteq broken' /\ unread \subseteq unread'
    BY DisturbedStays
  <2>4. posted[e] = <<>>
    <3>1. posted' = posted \/ \E t \in Thread, v \in Verdict : Reply(t, v)
      BY <1>2 DEF Next, vars, Check, Read, Replace, Crash, Damage
    <3>2. ASSUME NEW t \in Thread, NEW v \in Verdict, Reply(t, v) PROVE posted[e] = <<>>
      <4>1. PICK d \in Event : d = event[t]
        BY <3>2 DEF Reply, At, IInv, Types
      <4>2. posted' = posted \/ Posting(d, v)
        BY <3>2, <4>1 DEF Reply, Post, Posting
      <4> QED  BY <2>2, <4>1, <4>2, PostAdds DEF IInv
    <3> QED  BY <3>1, <3>2
  <2>5. PICK t \in Thread : event[t] = e
    BY <2>2, <2>3, <2>4 DEF NoneForgotten
  <2>6. CASE Check(t)
    <3>1. CASE Leave(t)
      <4>1. PICK records : Load(records) /\ Judge(t, records)
        BY <2>5, <2>6 DEF Check
      <4>2. Key(e) \in Keys(records)
        <5>1. step'[t] # "reply"
          BY <3>1 DEF Leave, IInv, Types
        <5> QED  BY <2>5, <4>1, <5>1 DEF Judge, Goto, IInv, Types
      <4>3. PICK d \in Event : Key(d) = Key(e) /\ \E p \in DOMAIN posted[d] : TRUE
        <5>1. PICK i \in DOMAIN records : records[i].key = Key(e)
          BY <4>2 DEF Keys
        <5> QED  BY <4>1, <5>1, LoadedRecords DEF AllAnswered, Answered, Said
      <4>4. d = e
        BY <2>2, <4>3 DEF KeysIdentify
      <4> QED  BY <2>4, <4>3, <4>4
    <3>2. CASE event' = event
      BY <2>5, <3>2
    <3> QED  BY <2>6, <3>1, <3>2 DEF Check, Judge
  <2>7. ASSUME NEW v \in Verdict, Reply(t, v) PROVE \E u \in Thread : event'[u] = e
    BY <2>5, <2>7 DEF Reply
  <2>8. CASE Read(t)
    BY <2>5, <2>8 DEF Read
  <2>9. CASE Replace(t)
    <3>1. Said(e, outcome[t])
      BY <2>5, <2>9 DEF Replace, At, IInv, Marks
    <3> QED  BY <2>4, <3>1 DEF Said
  <2>10. CASE Crash
    BY <2>2, <2>5, <2>10, IdleAssumption DEF Crash
  <2>11. CASE event' = event
    BY <2>5, <2>11
  <2>12. ASSUME NEW u \in Thread \ {t},
                Check(u) \/ (\E v \in Verdict : Reply(u, v)) \/ Read(u) \/ Replace(u)
         PROVE  event'[t] = e
    <3>1. event' = event \/ Leave(u)
      BY <2>12 DEF Check, Judge, Reply, Read, Replace
    <3> QED  BY <2>5, <2>12, <3>1 DEF Leave, IInv, Types
  <2> QED
    BY <1>2, <2>6, <2>7, <2>8, <2>9, <2>10, <2>11, <2>12 DEF Next, vars, Damage, handler
<1> QED  BY <1>1, <1>2

\* When keys identify events, no filter, repetition or eviction drops a Kipu
\* alert that Slack will not send again: only a failure does, or a file of
\* processed events that is not UTF-8 when it comes (slack_bot.py:86-91, 288-314).
THEOREM AcknowledgedIsHandled == KeysIdentify => (Spec => []NoneForgotten)
<1> SUFFICES ASSUME KeysIdentify PROVE Spec => []NoneForgotten
  OBVIOUS
<1>1. Init => NoneForgotten
  BY DEF Init, NoneForgotten
<1>2. IInv /\ NoneForgotten /\ [Next]_vars => NoneForgotten'
  BY NextForgetsNone
<1> QED  BY <1>1, <1>2, SlackInvariant, PTL DEF Spec

-----------------------------------------------------------------------------
(* Answered once *)

\* No file and no copy of it is longer than max_records.
Short == Len(file) <= MaxRecords /\ \A t \in Thread : Len(loaded[t]) <= MaxRecords

\* Thread t handles e, and has found it unprocessed.
Handles(t, e) == event[t] = e /\ step[t] # "check"

\* Of an event that no failure and no second delivery has disturbed: one thread
\* handles it, it has no answer yet or one, and the answer is marked, or will
\* be by the thread that gave it.
Undisturbed(e) ==
    /\ \A t, u \in Thread : Handles(t, e) /\ Handles(u, e) => t = u
    /\ Len(posted[e]) <= 1
    /\ \A t \in Thread : event[t] = e /\ step[t] = "reply" => posted[e] = <<>>
    /\ posted[e] # <<>> =>
          \/ Key(e) \in Keys(Contents)
          \/ \E t \in Thread : event[t] = e /\ step[t] \in {"load", "replace"}

Once == Short /\ \A e \in Event : e \notin broken \cup overlap => Undisturbed(e)

\* The mark that is written is among the records that are kept: it is either
\* the last, or replaces one in a file that was not too long.
LEMMA MarkIsKept ==
    ASSUME NEW records \in Seq(Record), Len(records) <= MaxRecords,
           NEW k, NEW v, [key |-> k, verdict |-> v] \in Record
    PROVE  /\ k \in Keys(Latest(With(records, k, v)))
           /\ Len(Latest(With(records, k, v))) <= MaxRecords
<1> DEFINE mark == [key |-> k, verdict |-> v]
           marked == With(records, k, v)
<1>1. CASE k \in Keys(records)
  <2>1. marked = [i \in DOMAIN records |-> IF records[i].key = k THEN mark ELSE records[i]]
    BY <1>1 DEF With
  <2>2. PICK i \in DOMAIN records : records[i].key = k
    BY <1>1 DEF Keys
  <2>3. marked \in Seq(Record) /\ Len(marked) = Len(records) /\ DOMAIN marked = DOMAIN records
    BY <2>1
  <2>4. marked[i].key = k
    BY <2>1, <2>2
  <2>5. Latest(marked) = marked
    BY <2>3 DEF Latest
  <2> QED  BY <2>2, <2>3, <2>4, <2>5 DEF Keys
<1>2. CASE k \notin Keys(records)
  <2> DEFINE n == Len(records) + 1
  <2>1. marked = Append(records, mark)
    BY <1>2 DEF With
  <2>2. /\ marked \in Seq(Record) /\ Len(marked) = n /\ marked[n] = mark
        /\ n \in Nat /\ n >= 1 /\ DOMAIN marked = 1..n
    BY <2>1
  <2> HIDE DEF marked
  <2>3. CASE n <= MaxRecords
    <3>1. Latest(marked) = marked
      BY <2>2, <2>3 DEF Latest
    <3> QED  BY <2>2, <2>3, <3>1 DEF Keys, marked
  <2>4. CASE ~ (n <= MaxRecords)
    <3> DEFINE m == n - MaxRecords + 1
    <3>1. m \in Nat /\ m >= 1 /\ m <= n /\ n - m + 1 = MaxRecords
      BY <2>2, <2>4, LimitAssumption
    <3>2. Latest(marked) = SubSeq(marked, m, n)
      BY <2>2, <2>4 DEF Latest
    <3> HIDE DEF m, n
    <3>3. \A i \in m..n : marked[i] \in Record
      BY <2>2, <3>1
    <3>4. /\ DOMAIN SubSeq(marked, m, n) = 1..(n - m + 1)
          /\ Len(SubSeq(marked, m, n)) = n - m + 1
          /\ SubSeq(marked, m, n)[n - m + 1] = marked[n - m + 1 + m - 1]
      BY <2>2, <3>1, <3>3
    <3>5. SubSeq(marked, m, n)[n - m + 1] = mark
      BY <2>2, <3>1, <3>4
    <3>6. n - m + 1 \in DOMAIN Latest(marked) /\ Latest(marked)[n - m + 1].key = k
      BY <2>2, <3>1, <3>2, <3>4, <3>5
    <3>7. Len(Latest(marked)) <= MaxRecords
      BY <3>1, <3>2, <3>4, LimitAssumption
    <3> QED  BY <3>6, <3>7 DEF Keys, marked
  <2> QED  BY <2>3, <2>4
<1> QED  BY <1>1, <1>2

\* The copies and the file stay short.
LEMMA ShortStep ==
    ASSUME IInv, Short, [Next]_vars
    PROVE  Short'
<1>1. /\ file \in Seq(Record) /\ loaded \in [Thread -> Seq(Record)]
      /\ MaxRecords \in Nat /\ Len(<<>>) <= MaxRecords
  BY LimitAssumption DEF IInv, Types
<1>2. \A records : Load(records) => Len(records) <= MaxRecords
  BY <1>1 DEF Load, Contents, Short
<1>3. Len(file') <= MaxRecords
  <2>1. ASSUME NEW t \in Thread, Replace(t) PROVE Len(file') <= MaxRecords
    <3>1. event[t] \in Event /\ Said(event[t], outcome[t])
      BY <2>1 DEF Replace, At, IInv, Types, Marks
    <3>2. outcome[t] \in Verdict
      BY <3>1 DEF Said, IInv, Types
    <3>3. [key |-> Key(event[t]), verdict |-> outcome[t]] \in Record
      BY <3>1, <3>2 DEF Record
    <3> QED  BY <1>1, <2>1, <3>3, MarkIsKept DEF Replace, Short
  <2>2. CASE file' = file
    BY <2>2 DEF Short
  <2> QED  BY <2>1, <2>2 DEF Next, vars, Receive, Check, Judge, Reply, Read, Crash, Damage
<1>4. ASSUME NEW t \in Thread PROVE Len(loaded'[t]) <= MaxRecords
  <2>1. \/ loaded'[t] = loaded[t] \/ loaded'[t] = <<>>
        \/ \E records : Load(records) /\ loaded'[t] = records
    BY <1>1 DEF Next, vars, Receive, Check, Judge, Reply, Read, Replace, Leave, Crash,
                Damage, handler
  <2> QED  BY <1>1, <1>2, <2>1 DEF Short
<1> QED  BY <1>3, <1>4 DEF Short

\* An event that a step does not touch: no thread takes it up or moves on with
\* it, nothing is posted, its mark stays where it is.
LEMMA Untouched ==
    ASSUME NEW e \in Event, Undisturbed(e), posted'[e] = posted[e],
           \A t \in Thread : Handles(t, e)' => Handles(t, e) /\ step'[t] = step[t],
           \A t \in Thread : Handles(t, e) => Handles(t, e)',
           Key(e) \in Keys(Contents) => Key(e) \in Keys(Contents)'
    PROVE  Undisturbed(e)'
<1>1. Key(e)' = Key(e)
  BY DEF Key
<1> QED  BY <1>1 DEF Undisturbed, Handles

\* An undisturbed event stays so, or is disturbed by the step.
LEMMA OnceStep ==
    ASSUME IInv, Once, [Next]_vars, NEW e \in Event, e \notin broken' \cup overlap'
    PROVE  Undisturbed(e)'
<1>1. Undisturbed(e) /\ e # Idle
  BY DisturbedStays, IdleAssumption DEF Once
<1>2. /\ event \in [Thread -> Event \cup {Idle}] /\ posted \in [Event -> Seq(Verdict)]
      /\ step \in [Thread -> {"check", "reply", "load", "replace"}]
      /\ \A t \in Thread : step[t] # "check" => event[t] \in Event
  BY DEF IInv, Types, Marks
<1>3. ASSUME NEW d \in Event, NEW t \in Thread, Receive(d, t) PROVE Undisturbed(e)'
  <2>1. step[t] = "check" /\ event[t] = Idle
    BY <1>2, <1>3, IdleAssumption DEF Receive
  <2>2. /\ UNCHANGED <<file, form, step, posted>>
        /\ \A u \in Thread \ {t} : event'[u] = event[u]
    BY <1>2, <1>3 DEF Receive
  <2> QED  BY <1>1, <2>1, <2>2, Untouched DEF Handles, Contents
<1>4. ASSUME NEW t \in Thread, Check(t) PROVE Undisturbed(e)'
  <2>1. step[t] = "check" /\ UNCHANGED <<file, form, posted>> /\ Contents' = Contents
    BY <1>4 DEF Check, At, Contents
  <2>2. CASE Leave(t)
    <3>1. /\ step'[t] = "check"
          /\ \A u \in Thread \ {t} : event'[u] = event[u] /\ step'[u] = step[u]
      BY <1>2, <2>2 DEF Leave
    <3> QED  BY <1>1, <2>1, <3>1, Untouched DEF Handles
  <2>3. CASE ~ Leave(t)
    <3>1. /\ step' = [step EXCEPT ![t] = "reply"] /\ event' = event
          /\ Key(event[t]) \in Keys(Contents) => event[t] \in broken'
          /\ (\E u \in Thread \ {t} : event[u] = event[t] /\ step[u] # "check")
                => event[t] \in overlap'
      BY <1>4, <2>3 DEF Check, Judge, Goto
    <3>2. step'[t] = "reply" /\ \A u \in Thread \ {t} : step'[u] = step[u]
      BY <1>2, <3>1
    <3>3. CASE event[t] # e
      BY <1>1, <2>1, <3>1, <3>2, <3>3, Untouched DEF Handles
    <3>4. CASE event[t] = e
      <4>1. \A u \in Thread \ {t} : ~ Handles(u, e)
        BY <3>1, <3>4 DEF Handles
      <4>2. posted[e] = <<>>
        BY <1>1, <2>1, <3>1, <3>4, <4>1 DEF Undisturbed, Handles
      <4>3. \A u \in Thread \ {t} : ~ Handles(u, e)'
        BY <3>1, <3>2, <4>1 DEF Handles
      <4> QED  BY <1>1, <2>1, <4>2, <4>3 DEF Undisturbed
    <3> QED  BY <3>3, <3>4
  <2> QED  BY <2>2, <2>3
<1>5. ASSUME NEW t \in Thread, NEW v \in Verdict, Reply(t, v) PROVE Undisturbed(e)'
  <2>1. /\ event[t] \in Event /\ step[t] = "reply" /\ Contents' = Contents
        /\ posted'[e] = posted[e] \/ event[t] = e
    BY <1>2, <1>5 DEF Reply, At, Contents, Post
  <2>2. CASE Leave(t) /\ event[t] \in broken'
    <3>1. /\ event'[t] = Idle /\ step'[t] = "check" /\ event[t] # e
          /\ \A u \in Thread \ {t} : event'[u] = event[u] /\ step'[u] = step[u]
      BY <1>2, <2>2 DEF Leave
    <3> QED  BY <1>1, <2>1, <3>1, Untouched DEF Handles
  <2>3. CASE Post(t, v) /\ Goto(t, "load") /\ event' = event
    <3>1. step'[t] = "load" /\ \A u \in Thread \ {t} : step'[u] = step[u]
      BY <1>2, <2>3 DEF Goto
    <3>2. CASE event[t] # e
      BY <1>1, <2>1, <2>3, <3>1, <3>2, Untouched DEF Handles
    <3>3. CASE event[t] = e
      <4>1. posted[e] = <<>> /\ \A u \in Thread \ {t} : ~ Handles(u, e)
        BY <1>1, <2>1, <3>3 DEF Undisturbed, Handles
      <4>2. Len(posted'[e]) = 1
        BY <1>2, <2>3, <3>3, <4>1 DEF Post
      <4>3. \A u \in Thread \ {t} : ~ Handles(u, e)'
        BY <2>3, <3>1, <4>1 DEF Handles
      <4>4. \A u \in Thread : event'[u] = e /\ step'[u] # "check" => u = t
        BY <4>3 DEF Handles
      <4>5. event'[t] = e /\ step'[t] \in {"load", "replace"} /\ step'[t] # "reply"
        BY <2>3, <3>1, <3>3
      <4>6. Key(e)' = Key(e)
        BY DEF Key
      <4> QED  BY <4>2, <4>4, <4>5, <4>6 DEF Undisturbed, Handles
    <3> QED  BY <3>2, <3>3
  <2> QED  BY <1>5, <2>2, <2>3 DEF Reply
<1>6. ASSUME NEW t \in Thread, Read(t) PROVE Undisturbed(e)'
  <2>1. /\ event[t] \in Event /\ step[t] = "load" /\ posted' = posted /\ Contents' = Contents
    BY <1>2, <1>6 DEF Read, At, Contents
  <2>2. CASE Goto(t, "replace") /\ event' = event
    <3>1. step'[t] = "replace" /\ \A u \in Thread \ {t} : step'[u] = step[u]
      BY <1>2, <2>2 DEF Goto
    <3>2. Key(e)' = Key(e)
      BY DEF Key
    <3> QED  BY <1>1, <2>1, <2>2, <3>1, <3>2 DEF Undisturbed, Handles
  <2>3. CASE Leave(t) /\ event[t] \in broken'
    <3>1. /\ event'[t] = Idle /\ step'[t] = "check" /\ event[t] # e
          /\ \A u \in Thread \ {t} : event'[u] = event[u] /\ step'[u] = step[u]
      BY <1>2, <2>3 DEF Leave
    <3> QED  BY <1>1, <2>1, <3>1, Untouched DEF Handles
  <2> QED  BY <1>6, <2>2, <2>3 DEF Read
<1>7. ASSUME NEW t \in Thread, Replace(t) PROVE Undisturbed(e)'
  <2>1. /\ event[t] \in Event /\ step[t] = "replace" /\ posted' = posted
        /\ event'[t] = Idle /\ step'[t] = "check"
        /\ \A u \in Thread \ {t} : event'[u] = event[u] /\ step'[u] = step[u]
    BY <1>2, <1>7 DEF Replace, At, Leave
  <2>2. Key(e) \in Keys(Contents) => Key(e) \in Keys(Contents)'
    <3>1. Key(e)' = Key(e)
      BY DEF Key
    <3>2. \/ UNCHANGED <<file, form>>
          \/ form' = "sound" /\ (Key(e) \in Keys(Contents) => Key(e) \in Keys(file'))
      BY <1>7 DEF Replace
    <3> QED  BY <3>1, <3>2 DEF Contents, Keys
  <2>3. CASE event[t] # e
    BY <1>1, <2>1, <2>2, <2>3, Untouched DEF Handles
  <2>4. CASE event[t] = e
    <3>1. /\ file' = Latest(With(loaded[t], Key(e), outcome[t])) /\ form' = "sound"
      BY <1>7, <2>4 DEF Replace
    <3>2. Said(e, outcome[t])
      BY <2>1, <2>4 DEF IInv, Marks
    <3>3. outcome[t] \in Verdict
      BY <1>2, <3>2 DEF Said
    <3>4. [key |-> Key(e), verdict |-> outcome[t]] \in Record /\ loaded[t] \in Seq(Record)
      BY <3>3 DEF Record, IInv, Types
    <3>5. Key(e) \in Keys(Contents)'
      BY <3>1, <3>4, MarkIsKept DEF Once, Short, Contents, Keys
    <3>6. \A u \in Thread : ~ Handles(u, e)'
      BY <1>1, <2>1, <2>4 DEF Undisturbed, Handles
    <3>7. Key(e)' = Key(e)
      BY DEF Key
    <3> QED  BY <1>1, <2>1, <3>5, <3>6, <3>7 DEF Undisturbed, Handles
  <2> QED  BY <2>3, <2>4
<1>8. CASE Crash
  <2>1. /\ Contents' = Contents /\ posted' = posted
        /\ \A t \in Thread : event[t] # e /\ event'[t] # e
    BY <1>1, <1>2, <1>8, IdleAssumption DEF Crash, Contents
  <2> QED  BY <1>1, <2>1, Untouched DEF Handles
<1>9. CASE Damage
  <2>1. UNCHANGED <<event, step, posted>> /\ Key(e) \notin Keys(Contents)
    BY <1>9 DEF Damage, handler
  <2> QED  BY <1>1, <2>1, Untouched DEF Handles
<1>10. CASE UNCHANGED vars
  <2>1. UNCHANGED <<event, step, posted, file, form>>
    BY <1>10 DEF vars
  <2> QED  BY <1>1, <2>1, Untouched DEF Handles, Contents
<1> QED  BY <1>3, <1>4, <1>5, <1>6, <1>7, <1>8, <1>9, <1>10 DEF Next

\* A second answer to one message is never without a cause: two of its
\* deliveries overlapped, a failure cut the first one short, or its mark was
\* evicted, overwritten, damaged or not seen by a read that failed
\* (slack_bot.py:67-91, 298-314).
THEOREM AnsweredOnce == Spec => []SecondAnswersExplained
<1>1. Init => Once
  <2> SUFFICES ASSUME Init PROVE Once
    OBVIOUS
  <2>1. Short
    BY LimitAssumption DEF Init, Short
  <2>2. ASSUME NEW e \in Event PROVE Undisturbed(e)
    <3>1. posted[e] = <<>> /\ \A t \in Thread : ~ Handles(t, e)
      BY DEF Init, Handles
    <3> QED  BY <3>1 DEF Undisturbed
  <2> QED  BY <2>1, <2>2 DEF Once
<1>2. IInv /\ Once /\ [Next]_vars => Once'
  BY ShortStep, OnceStep DEF Once
<1>3. IInv /\ Once => SecondAnswersExplained
  BY DEF Once, Undisturbed, SecondAnswersExplained, IInv, Types
<1> QED  BY <1>1, <1>2, <1>3, SlackInvariant, PTL DEF Spec
=============================================================================
