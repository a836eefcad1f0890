------------------------- MODULE DailySnapshotProofs ------------------------
(***************************************************************************)
(* Proofs about DailySnapshot, for every set of requests, every table and   *)
(* every file.  The arguments:                                              *)
(*                                                                         *)
(*   SnapshotInvariant   a request that is past the reading of the previous *)
(*                   snapshot knows that the file shown is in the archive,  *)
(*                   or is the one it has read and is about to retain;      *)
(*                   another request can only put a snapshot in its place   *)
(*                   that it has archived itself;                           *)
(*   CandidatesPick  the loop over the records keeps a latest occurrence of *)
(*                   every id so far (KeepPicks), whatever comes next;      *)
(*   LatestIsShown, RefusedOrShown   what it ends with, against the export  *)
(*                   of the same occurrences;                               *)
(*   CountsHold      the counts by country add up to the list they count;   *)
(*   ExtractionInvariant   the records a snapshot is made of are stored,    *)
(*                   and for the reader, whose scan is consistent, they are *)
(*                   all that stood when it began.                          *)
(***************************************************************************)
EXTENDS DailySnapshot, InductionLemmas

Active(x) ==
    x = [pc |-> x.pc, via |-> x.via, day |-> x.day, mode |-> x.mode,
         records |-> x.records, began |-> x.began, snapshot |-> x.snapshot,
         previous |-> x.previous]

Types ==
    /\ run = [r \in Run |-> run[r]]
    /\ \A r \in Run : Active(run[r]) \/ run[r] = Idle \/ run[r] = Done

\* What is shown can be replaced without losing it.
Spare == latest = Nothing \/ latest \in archive

Archived ==
    /\ \A s \in ever : s = latest \/ s \in archive
    /\ \A r \in Run :
          /\ run[r].pc = "retain" => latest = run[r].previous \/ latest \in archive
          /\ run[r].pc \in {"save", "publish"} => Spare
          /\ run[r].pc = "publish" => run[r].snapshot \in archive

IInv == Types /\ Archived /\ (Nothing \in ever => Nothing \in archive)

------------------------------------------------------------------------------
\* A request that goes on is the only one whose state changes.
LEMMA GotoKeepsTypes ==
    ASSUME Types, NEW r \in Run, NEW pc, NEW state, Active(state), Goto(r, pc, state)
    PROVE  /\ Types'
           /\ run'[r] = [state EXCEPT !.pc = pc]
           /\ \A p \in Run \ {r} : run'[p] = run[p]
<1>1. run' = [p \in Run |-> IF p = r THEN [state EXCEPT !.pc = pc] ELSE run[p]]
  BY DEF Types, Goto
<1>2. Active([state EXCEPT !.pc = pc])
  BY DEF Active
<1> QED  BY <1>1, <1>2 DEF Types

\* A request that ends is the only one whose state changes.
LEMMA LeaveKeepsTypes ==
    ASSUME Types, NEW r \in Run, Leave(r)
    PROVE  Types' /\ run'[r] = Done /\ \A p \in Run \ {r} : run'[p] = run[p]
<1>1. run' = [p \in Run |-> IF p = r THEN Done ELSE run[p]]
  BY DEF Types, Leave
<1> QED  BY <1>1 DEF Types

\* A request whose state has a step of the review is an active one.
LEMMA BusyIsActive ==
    ASSUME Types, NEW r \in Run, run[r].pc # "idle", run[r].pc # "done"
    PROVE  Active(run[r])
BY DEF Types, Idle, Done

\* The end of a request leaves the files alone.
LEMMA LeaveStep ==
    ASSUME IInv, NEW r \in Run, Leave(r), UNCHANGED files
    PROVE  IInv'
<1>1. Types' /\ run'[r] = Done /\ \A p \in Run \ {r} : run'[p] = run[p]
  BY LeaveKeepsTypes DEF IInv
<1>2. UNCHANGED <<latest, archive, ever>>
  BY DEF files
<1>3. Archived'
  BY <1>1, <1>2 DEF IInv, Archived, Spare, Done
<1> QED  BY <1>1, <1>2, <1>3 DEF IInv

\* So does a step that leads to no later one than the check.
LEMMA EarlyStep ==
    ASSUME IInv, NEW r \in Run, NEW pc \in {"scan", "file", "filter", "check", "previous"},
           NEW state, Active(state), Goto(r, pc, state), UNCHANGED files
    PROVE  IInv'
<1>1. Types' /\ run'[r] = [state EXCEPT !.pc = pc] /\ \A p \in Run \ {r} : run'[p] = run[p]
  BY GotoKeepsTypes DEF IInv
<1>2. run'[r].pc = pc
  BY <1>1 DEF Active
<1>3. UNCHANGED <<latest, archive, ever>>
  BY DEF files
<1>4. Archived'
  BY <1>1, <1>2, <1>3 DEF IInv, Archived, Spare
<1> QED  BY <1>1, <1>3, <1>4 DEF IInv

\* Initially no request runs and no file but the one shown has been seen.
LEMMA InitIInv == Init => IInv
<1> SUFFICES ASSUME Init PROVE IInv
  OBVIOUS
<1>1. Types
  BY DEF Init, Types
<1>2. Archived
  BY DEF Init, Archived, Idle
<1> QED  BY <1>1, <1>2 DEF Init, IInv

\* The steps up to the check.
LEMMA ReadingSteps ==
    ASSUME IInv, NEW r \in Run,
           Begin(r) \/ ScanPage(r) \/ LastPage(r) \/ Limit(r) \/ Filter(r) \/ FilterFile(r)
           \/ Check(r) \/ Fail(r)
    PROVE  IInv'
<1>1. CASE Begin(r)
  <2>1. PICK q \in Request[r] :
          run' = [run EXCEPT ![r] =
              [pc |-> IF q.via = "file" THEN "file" ELSE "scan", via |-> q.via,
               day |-> q.day, mode |-> q.mode, records |-> <<>>, began |-> table,
               snapshot |-> Nothing, previous |-> Nothing]]
    BY <1>1 DEF Begin
  <2> DEFINE state == [pc |-> IF q.via = "file" THEN "file" ELSE "scan", via |-> q.via,
               day |-> q.day, mode |-> q.mode, records |-> <<>>, began |-> table,
               snapshot |-> Nothing, previous |-> Nothing]
  <2>2. Active(state) /\ state.pc \in {"file", "scan"}
    BY DEF Active
  <2>3. Goto(r, state.pc, state)
    BY <2>1 DEF Goto
  <2> HIDE DEF state
  <2> QED  BY <1>1, <2>2, <2>3, EarlyStep DEF Begin
<1>2. CASE ScanPage(r)
  <2>1. PICK o : Goto(r, "scan", [run[r] EXCEPT !.records = Append(@, o)])
    BY <1>2 DEF ScanPage
  <2>2. Active(run[r])
    BY <1>2, BusyIsActive DEF ScanPage, IInv
  <2> DEFINE y == [run[r] EXCEPT !.records = Append(@, o)]
  <2>3. Active(y)
    BY <2>2 DEF Active
  <2> HIDE DEF y
  <2>4. Goto(r, "scan", y) /\ UNCHANGED files
    BY <1>2, <2>1 DEF ScanPage, y
  <2> QED  BY <2>3, <2>4, EarlyStep
<1>3. CASE LastPage(r)
  <2>1. Active(run[r])
    BY <1>3, BusyIsActive DEF LastPage, IInv
  <2> QED  BY <1>3, <2>1, EarlyStep DEF LastPage
<1>4. CASE Limit(r)
  BY <1>4, LeaveStep DEF Limit
<1>5. CASE Filter(r) /\ ~Leave(r)
  <2>1. PICK s : Goto(r, "check", [run[r] EXCEPT !.snapshot = s])
    BY <1>5 DEF Filter
  <2>2. Active(run[r])
    BY <1>5, BusyIsActive DEF Filter, IInv
  <2>3. Active([run[r] EXCEPT !.snapshot = s])
    BY <2>2 DEF Active
  <2> QED  BY <1>5, <2>1, <2>3, EarlyStep DEF Filter
<1>6. CASE FilterFile(r) /\ ~Leave(r)
  <2>1. PICK s : Goto(r, "check", [run[r] EXCEPT !.snapshot = s])
    BY <1>6 DEF FilterFile
  <2>2. Active(run[r])
    BY <1>6, BusyIsActive DEF FilterFile, IInv
  <2>3. Active([run[r] EXCEPT !.snapshot = s])
    BY <2>2 DEF Active
  <2> QED  BY <1>6, <2>1, <2>3, EarlyStep DEF FilterFile
<1>7. CASE Check(r) /\ ~Leave(r)
  <2>1. Goto(r, "previous", [run[r] EXCEPT !.records = <<>>, !.began = {}])
    BY <1>7 DEF Check
  <2>2. Active(run[r])
    BY <1>7, BusyIsActive DEF Check, IInv
  <2> DEFINE x == run[r]
             y == [x EXCEPT !.records = <<>>]
  <2>3. Active([run[r] EXCEPT !.records = <<>>, !.began = {}])
    <3>1. Active(x)
      BY <2>2
    <3> HIDE DEF x
    <3>2. Active(y)
      BY <3>1 DEF Active
    <3>3. [x EXCEPT !.records = <<>>, !.began = {}] = [y EXCEPT !.began = {}]
      OBVIOUS
    <3> HIDE DEF y
    <3>4. Active([y EXCEPT !.began = {}])
      BY <3>2 DEF Active
    <3> QED  BY <3>3, <3>4 DEF x
  <2> QED  BY <1>7, <2>1, <2>3, EarlyStep DEF Check
<1>8. CASE Leave(r)
  BY <1>8, LeaveStep DEF Begin, ScanPage, LastPage, Limit, Filter, FilterFile, Check, Fail
<1> QED  BY <1>1, <1>2, <1>3, <1>4, <1>5, <1>6, <1>7, <1>8 DEF Fail

\* The previous snapshot is read: it is the one shown.
LEMMA PreviousStep ==
    ASSUME IInv, NEW r \in Run, Previous(r)
    PROVE  IInv'
<1>1. Active(run[r])
  BY BusyIsActive DEF Previous, IInv
<1>2. UNCHANGED <<latest, archive, ever>>
  BY DEF Previous, files
<1>3. CASE latest = Nothing /\ Goto(r, "save", run[r])
  <2>1. Types' /\ run'[r] = [run[r] EXCEPT !.pc = "save"]
        /\ \A p \in Run \ {r} : run'[p] = run[p]
    BY <1>1, <1>3, GotoKeepsTypes DEF IInv
  <2>2. run'[r].pc = "save"
    BY <1>1, <2>1 DEF Active
  <2>3. Archived'
    BY <1>2, <1>3, <2>1, <2>2 DEF IInv, Archived, Spare
  <2> QED  BY <1>2, <2>1, <2>3 DEF IInv
<1>4. CASE Leave(r)
  BY <1>4, LeaveStep DEF Previous
<1>5. CASE Goto(r, "retain", [run[r] EXCEPT !.previous = latest])
  <2>1. Active([run[r] EXCEPT !.previous = latest])
    BY <1>1 DEF Active
  <2>2. Types' /\ run'[r] = [[run[r] EXCEPT !.previous = latest] EXCEPT !.pc = "retain"]
        /\ \A p \in Run \ {r} : run'[p] = run[p]
    BY <1>5, <2>1, GotoKeepsTypes DEF IInv
  <2>3. run'[r].pc = "retain" /\ run'[r].previous = latest
    BY <1>1, <2>2 DEF Active
  <2>4. Archived'
    BY <1>2, <2>2, <2>3 DEF IInv, Archived, Spare
  <2> QED  BY <1>2, <2>2, <2>4 DEF IInv
<1> QED  BY <1>3, <1>4, <1>5 DEF Previous

\* The previous snapshot goes to the archive before anything replaces it.
LEMMA RetainStep ==
    ASSUME IInv, NEW r \in Run, Retain(r)
    PROVE  IInv'
<1>1. Active(run[r])
  BY BusyIsActive DEF Retain, IInv
<1>2. archive' = archive \cup {run[r].previous} /\ UNCHANGED <<latest, ever>>
  BY DEF Retain
<1>3. Types' /\ run'[r] = [run[r] EXCEPT !.pc = "save"]
      /\ \A p \in Run \ {r} : run'[p] = run[p]
  BY <1>1, GotoKeepsTypes DEF Retain, IInv
<1>4. run'[r].pc = "save"
  BY <1>1, <1>3 DEF Active
<1>5. latest \in archive'
  BY <1>2 DEF Retain, IInv, Archived
<1>6. Archived'
  BY <1>2, <1>3, <1>4, <1>5 DEF IInv, Archived, Spare
<1> QED  BY <1>2, <1>3, <1>6 DEF IInv

\* The new snapshot goes to the archive before it is shown.
LEMMA SaveStep ==
    ASSUME IInv, NEW r \in Run, Save(r)
    PROVE  IInv'
<1>1. Active(run[r])
  BY BusyIsActive DEF Save, IInv
<1>2. archive' = archive \cup {run[r].snapshot} /\ UNCHANGED <<latest, ever>>
  BY DEF Save
<1>3. Types' /\ run'[r] = [run[r] EXCEPT !.pc = "publish"]
      /\ \A p \in Run \ {r} : run'[p] = run[p]
  BY <1>1, GotoKeepsTypes DEF Save, IInv
<1>4. run'[r].pc = "publish" /\ run'[r].snapshot = run[r].snapshot
  BY <1>1, <1>3 DEF Active
<1>5. Spare'
  BY <1>2 DEF Save, IInv, Archived, Spare
<1>6. Archived'
  BY <1>2, <1>3, <1>4, <1>5 DEF IInv, Archived, Spare
<1> QED  BY <1>2, <1>3, <1>6 DEF IInv

\* What was shown is in the archive when the new snapshot takes its place.
LEMMA PublishStep ==
    ASSUME IInv, NEW r \in Run, Publish(r)
    PROVE  IInv'
<1>1. latest' = run[r].snapshot /\ ever' = ever \cup {run[r].snapshot} /\ archive' = archive
  BY DEF Publish
<1>2. Types' /\ run'[r] = Done /\ \A p \in Run \ {r} : run'[p] = run[p]
  BY LeaveKeepsTypes DEF Publish, IInv
<1>3. latest' \in archive' /\ Spare
  BY <1>1 DEF Publish, IInv, Archived
<1>4. \A s \in ever' : s \in archive'
  BY <1>1, <1>3 DEF IInv, Archived, Spare
<1> QED  BY <1>1, <1>2, <1>3, <1>4 DEF IInv, Archived, Spare, Done

\* Every step keeps the invariant.
LEMMA NextIInv == IInv /\ [Next]_vars => IInv'
<1> SUFFICES ASSUME IInv, [Next]_vars PROVE IInv'
  OBVIOUS
<1>1. CASE Arrive
  BY <1>1 DEF Arrive, IInv, Types, Archived, Spare
<1>2. ASSUME NEW r \in Run, Previous(r) PROVE IInv'
  BY <1>2, PreviousStep
<1>3. ASSUME NEW r \in Run, Retain(r) PROVE IInv'
  BY <1>3, RetainStep
<1>4. ASSUME NEW r \in Run, Save(r) PROVE IInv'
  BY <1>4, SaveStep
<1>5. ASSUME NEW r \in Run, Publish(r) PROVE IInv'
  BY <1>5, PublishStep
<1>6. CASE UNCHANGED vars
  BY <1>6 DEF vars, IInv, Types, Archived, Spare
<1> QED  BY <1>1, <1>2, <1>3, <1>4, <1>5, <1>6, ReadingSteps DEF Next

\* The inductive invariant holds in every reachable state, for any number of
\* requests at once, any table and any files (guardian_view.py:200-227).
THEOREM SnapshotInvariant == Spec => []IInv
  BY InitIInv, NextIInv, PTL DEF Spec

\* No snapshot that was ever shown is lost, however many requests run and die,
\* and a file the view refuses is not overwritten (guardian_view.py:215-226).
THEOREM NothingShownIsLost == Spec => []ServedNeverLost
<1>1. IInv => ServedNeverLost
  BY DEF IInv, Archived, ServedNeverLost
<1> QED  BY <1>1, SnapshotInvariant, PTL

------------------------------------------------------------------------------
(* The latest occurrence of each id *)

LEMMA LaterIsStrict ==
    ASSUME NEW o \in Stored PROVE ~Later(o, o)
BY OccurrenceAssumption DEF Later

LEMMA LaterIsTransitive ==
    ASSUME NEW o \in Stored, NEW p \in Stored, NEW q \in Stored, Later(o, p), Later(p, q)
    PROVE  Later(o, q)
<1>1. {o.pub, o.rec, o.key, p.pub, p.rec, p.key, q.pub, q.rec, q.key} \subseteq Int
  BY OccurrenceAssumption
<1> QED  BY <1>1 DEF Later

\* Of two occurrences one is later: they differ in their keys at least.
LEMMA LaterIsTotal ==
    ASSUME NEW o \in Stored, NEW p \in Stored, o # p
    PROVE  Later(o, p) \/ Later(p, o)
<1>1. {o.pub, o.rec, o.key, p.pub, p.rec, p.key} \subseteq Int /\ o.key # p.key
  BY OccurrenceAssumption
<1> QED  BY <1>1 DEF Later

\* A v1 occurrence of the day, as the loop over the records looks for.
Relevant(day, o) == o.day = day /\ Contractual(o)

\* kept has one occurrence of every id in S, and none in S is later.
Picks(kept, day, S) ==
    /\ kept \subseteq {o \in S : Relevant(day, o)}
    /\ \A o, p \in kept : o.id = p.id => o = p
    /\ \A o \in S : Relevant(day, o) => \E p \in kept : p.id = o.id /\ ~Later(o, p)

\* A turn of the loop keeps that, whichever occurrence comes next.
LEMMA KeepPicks ==
    ASSUME NEW day, NEW S \in SUBSET Stored, NEW kept, Picks(kept, day, S), NEW o \in Stored
    PROVE  Picks(Keep(day, kept, o), day, S \cup {o})
<1> DEFINE same == {p \in kept : p.id = o.id}
<1>1. kept \subseteq Stored
  BY DEF Picks
<1>2. CASE Relevant(day, o) /\ \A p \in same : Later(o, p)
  <2>1. Keep(day, kept, o) = (kept \ same) \cup {o}
    BY <1>2 DEF Keep, Relevant
  <2>2. ASSUME NEW q \in S, Relevant(day, q)
        PROVE  \E p \in (kept \ same) \cup {o} : p.id = q.id /\ ~Later(q, p)
    <3>1. PICK p \in kept : p.id = q.id /\ ~Later(q, p)
      BY <2>2 DEF Picks
    <3>2. CASE p \in same
      BY <1>1, <1>2, <3>1, <3>2, LaterIsTransitive
    <3>3. CASE p \notin same
      BY <3>1, <3>3
    <3> QED  BY <3>2, <3>3
  <2>3. ~Later(o, o)
    BY LaterIsStrict
  <2> QED  BY <1>2, <2>1, <2>2, <2>3 DEF Picks
<1>3. CASE Relevant(day, o) /\ \E p \in same : ~Later(o, p)
  <2>1. Keep(day, kept, o) = kept
    BY <1>3 DEF Keep
  <2> QED  BY <1>3, <2>1 DEF Picks
<1>4. CASE ~Relevant(day, o)
  <2>1. Keep(day, kept, o) = kept
    BY <1>4 DEF Keep, Relevant
  <2> QED  BY <1>4, <2>1 DEF Picks
<1> QED  BY <1>2, <1>3, <1>4

\* The sets kept before the first record and after each one.
Loops(kept, day, records) ==
    kept = [n \in 0..Len(records) |->
               IF n = 0 THEN {} ELSE Keep(day, kept[n - 1], records[n])]
Kept(day, records) == CHOOSE kept : Loops(kept, day, records)

\* The recursion has a solution, for records of any length.
LEMMA LoopExists ==
    ASSUME NEW day, NEW records \in Seq(Stored)
    PROVE  Loops(Kept(day, records), day, records)
<1> DEFINE S == SUBSET Stored
           next == [x \in Nat \X S |->
                       IF x[1] < Len(records) THEN Keep(day, x[2], records[x[1] + 1])
                       ELSE x[2]]
<1>1. Len(records) \in Nat /\ \A n \in 1..Len(records) : records[n] \in Stored
  OBVIOUS
<1>2. \A kept \in S, o \in Stored : Keep(day, kept, o) \in S
  BY DEF Keep
<1>3. next \in [Nat \X S -> S]
  BY <1>1, <1>2
<1>4. PICK f \in [Nat -> S] : Recurs(f, {}, next)
  <2> HIDE DEF S, next
  <2>1. {} \in S
    BY DEF S
  <2> QED  BY <1>3, <2>1, NatRecursion
<1> DEFINE kept == [n \in 0..Len(records) |-> f[n]]
<1>5. ASSUME NEW n \in 0..Len(records)
      PROVE  kept[n] = IF n = 0 THEN {} ELSE Keep(day, kept[n - 1], records[n])
  <2>1. CASE n = 0
    BY <1>1, <1>4, <2>1 DEF Recurs
  <2>2. CASE n # 0
    <3>1. n - 1 \in Nat /\ n - 1 < Len(records) /\ (n - 1) + 1 = n /\ n - 1 \in 0..Len(records)
      BY <1>1, <2>2
    <3>2. f[n] = next[<<n - 1, f[n - 1]>>] /\ f[n - 1] \in S
      BY <1>4, <3>1, ZenonT(60) DEF Recurs
    <3>3. f[n] = Keep(day, f[n - 1], records[n])
      BY <3>1, <3>2
    <3> QED  BY <2>2, <3>1, <3>3
  <2> QED  BY <2>1, <2>2
<1>6. Loops(kept, day, records)
  <2> HIDE DEF kept
  <2>1. kept = [n \in 0..Len(records) |-> kept[n]]
    BY DEF kept
  <2> QED  BY <1>5, <2>1 DEF Loops
<1> QED  BY <1>6 DEF Kept

\* Whatever the order of the pages, the loop ends with the latest of each id.
LEMMA CandidatesPick ==
    ASSUME NEW day, NEW records \in Seq(Stored)
    PROVE  Picks(Candidates(day, records), day, Range(records))
<1> DEFINE First(n) == {records[i] : i \in 1..n}
           T == {n \in Nat : n <= Len(records) =>
                    Picks(Kept(day, records)[n], day, First(n))}
<1>1. Len(records) \in Nat /\ \A n \in 1..Len(records) : records[n] \in Stored
  OBVIOUS
<1>2. PICK kept : kept = Kept(day, records) /\ Loops(kept, day, records)
  BY LoopExists
<1>3. \A n \in 0..Len(records) :
          kept[n] = IF n = 0 THEN {} ELSE Keep(day, kept[n - 1], records[n])
  <2>1. \A f : Loops(f, day, records) =>
            \A n \in 0..Len(records) :
                f[n] = IF n = 0 THEN {} ELSE Keep(day, f[n - 1], records[n])
    BY DEF Loops
  <2> QED  BY <1>2, <2>1
<1>4. 0 \in T
  <2>1. First(0) = {} /\ kept[0] = {}
    BY <1>1, <1>3
  <2> QED  BY <1>2, <2>1 DEF Picks
<1>5. ASSUME NEW n \in Nat, n \in T PROVE n + 1 \in T
  <2> SUFFICES ASSUME n + 1 <= Len(records)
               PROVE  Picks(kept[n + 1], day, First(n + 1))
    BY <1>2
  <2>1. n + 1 \in 1..Len(records) /\ n + 1 # 0 /\ (n + 1) - 1 = n /\ n + 1 \in 0..Len(records)
    BY <1>1
  <2>2. kept[n + 1] = Keep(day, kept[n], records[n + 1])
    BY <1>3, <2>1
  <2>3. First(n) \in SUBSET Stored /\ First(n + 1) = First(n) \cup {records[n + 1]}
    <3>1. 1..(n + 1) = 1..n \cup {n + 1} /\ 1..n \subseteq 1..Len(records)
      BY <1>1, <2>1
    <3> QED  BY <1>1, <3>1
  <2>4. Picks(kept[n], day, First(n))
    BY <1>1, <1>2, <1>5
  <2>5. records[n + 1] \in Stored
    BY <1>1, <2>1
  <2> HIDE DEF First
  <2> QED  BY <2>2, <2>3, <2>4, <2>5, KeepPicks
<1>6. Len(records) \in T
  <2> HIDE DEF T
  <2> QED  BY <1>1, <1>4, <1>5, NatSetInduction
<1>7. Candidates(day, records) = Kept(day, records)[Len(records)]
  BY Zenon DEF Candidates, Kept, Loops
<1>8. Range(records) = First(Len(records))
  <2>1. DOMAIN records = 1..Len(records)
    OBVIOUS
  <2> QED  BY <2>1 DEF Range
<1> QED  BY <1>1, <1>6, <1>7, <1>8

LEMMA RecordsAreFinite ==
    ASSUME NEW S, NEW records \in Seq(S)
    PROVE  IsFiniteSet(Range(records)) /\ Range(records) \subseteq S
<1>1. Len(records) \in Nat /\ DOMAIN records = 1..Len(records)
      /\ \A n \in 1..Len(records) : records[n] \in S
  OBVIOUS
<1>2. IsFiniteSet(1..Len(records))
  BY <1>1, FS_Interval
<1>3. IsFiniteSet({records[n] : n \in 1..Len(records)})
  BY <1>2, ImageIsFinite
<1> QED  BY <1>1, <1>3 DEF Range

\* Of finitely many occurrences one is the latest.
LEMMA LatestExists ==
    ASSUME NEW S \in SUBSET Stored, IsFiniteSet(S), S # {}
    PROVE  \E o \in S : \A p \in S : ~Later(p, o)
<1> DEFINE T == {A \in SUBSET S : A # {} => \E o \in A : \A p \in A : ~Later(p, o)}
<1>1. {} \in T
  OBVIOUS
<1>2. ASSUME NEW A \in SUBSET S, NEW x \in S, A \in T, x \notin A PROVE A \cup {x} \in T
  <2>1. ~Later(x, x)
    BY LaterIsStrict
  <2>2. CASE A = {}
    BY <2>1, <2>2
  <2>3. CASE A # {}
    <3>1. PICK o \in A : \A p \in A : ~Later(p, o)
      BY <1>2, <2>3
    <3>2. CASE Later(x, o)
      <4>1. \A p \in A : ~Later(p, x)
        BY <3>1, <3>2, LaterIsTransitive
      <4> QED  BY <2>1, <4>1
    <3>3. CASE ~Later(x, o)
      BY <3>1, <3>3
    <3> QED  BY <3>2, <3>3
  <2> QED  BY <2>2, <2>3
<1>3. S \in T
  <2> HIDE DEF T
  <2> QED  BY <1>1, <1>2, FiniteSetInduction
<1> QED  BY <1>3

\* The export has a latest occurrence for each of those it looks at.
LEMMA LatestOfId ==
    ASSUME NEW S \in SUBSET Stored, IsFiniteSet(S), NEW a \in S
    PROVE  \E o \in LatestById(S) : o.id = a.id /\ ~Later(a, o)
<1> DEFINE T == {p \in S : p.id = a.id}
<1>1. T \in SUBSET Stored /\ IsFiniteSet(T) /\ T # {}
  BY FS_Subset
<1>2. PICK o \in T : \A p \in T : ~Later(p, o)
  <2> HIDE DEF T
  <2> QED  BY <1>1, LatestExists
<1> QED  BY <1>2 DEF LatestById

\* What ViewsAgree says of the alerts shown for a day and the occurrences that
\* stood: each is the latest v1 state of its id, and the export has it or a v2.
ShownIsLatest(day, stand, shown) ==
    \A a \in shown :
        /\ \A p \in stand : p.day = day /\ Contractual(p) /\ p.id = a.id => ~Later(p, a)
        /\ \E o \in ValidUnique(day, stand) :
              o.id = a.id /\ (o = a \/ (o.kind = "v2" /\ Later(o, a)))
\* And of a v1 alert of the export: shown, or refused since.
ExportIsShown(day, stand, shown) ==
    \A o \in ValidUnique(day, stand) : o.kind = "v1" =>
        \/ o \in shown
        \/ \E p \in stand :
              /\ p.day = day /\ Contractual(p) /\ ~Accepted(p)
              /\ p.id = o.id /\ Later(p, o)

LEMMA LatestIsShown ==
    ASSUME NEW day, NEW stand \in SUBSET Stored, IsFiniteSet(stand),
           NEW kept, Picks(kept, day, stand), NEW shown \in SUBSET kept,
           \A a \in shown : Accepted(a)
    PROVE  ShownIsLatest(day, stand, shown)
<1> SUFFICES ASSUME NEW a \in shown
             PROVE  /\ \A p \in stand : p.day = day /\ Contractual(p) /\ p.id = a.id
                                        => ~Later(p, a)
                    /\ \E o \in ValidUnique(day, stand) :
                          o.id = a.id /\ (o = a \/ (o.kind = "v2" /\ Later(o, a)))
  BY DEF ShownIsLatest
<1>1. a \in stand /\ Relevant(day, a)
  BY DEF Picks
<1>2. ASSUME NEW p \in stand, Relevant(day, p), p.id = a.id PROVE ~Later(p, a)
  BY <1>2 DEF Picks
<1> DEFINE S == {o \in Primary(day, stand) : Accepted(o)}
<1>3. a \in S
  BY <1>1 DEF Relevant, Contractual, Accepted, Primary
<1>4. S \in SUBSET Stored /\ S \in SUBSET stand /\ IsFiniteSet(S)
  BY FS_Subset DEF Primary
<1>5. PICK o \in LatestById(S) : o.id = a.id /\ ~Later(a, o)
  <2> HIDE DEF S
  <2> QED  BY <1>3, <1>4, LatestOfId
<1>6. o \in S
  BY <1>5 DEF LatestById
<1>7. o = a \/ Later(o, a)
  BY <1>3, <1>4, <1>5, <1>6, LaterIsTotal
<1>8. o = a \/ o.kind = "v2"
  <2>1. o \in stand /\ o.day = day /\ o.kind \in {"v1", "v2"}
    BY <1>6 DEF Primary
  <2> QED  BY <1>2, <1>5, <1>7, <2>1 DEF Relevant, Contractual
<1> QED  BY <1>2, <1>5, <1>7, <1>8 DEF ValidUnique, Relevant

LEMMA RefusedOrShown ==
    ASSUME NEW day, NEW stand \in SUBSET Stored,
           NEW kept, Picks(kept, day, stand)
    PROVE  ExportIsShown(day, stand, {a \in kept : Accepted(a)})
<1> SUFFICES ASSUME NEW o \in ValidUnique(day, stand), o.kind = "v1",
                    o \notin {a \in kept : Accepted(a)}
             PROVE  \E p \in stand : /\ p.day = day /\ Contractual(p) /\ ~Accepted(p)
                                     /\ p.id = o.id /\ Later(p, o)
  BY DEF ExportIsShown
<1> DEFINE S == {a \in Primary(day, stand) : Accepted(a)}
<1>1. o \in S /\ \A p \in S : p.id = o.id => ~Later(p, o)
  BY DEF ValidUnique, LatestById
<1>2. o \in stand /\ Relevant(day, o) /\ Accepted(o)
  BY <1>1 DEF Primary, Relevant, Contractual
<1>3. PICK p \in kept : p.id = o.id /\ ~Later(o, p)
  BY <1>2 DEF Picks
<1>4. p \in stand /\ Relevant(day, p) /\ p # o
  BY <1>2, <1>3 DEF Picks
<1>5. Later(p, o)
  BY <1>2, <1>3, <1>4, LaterIsTotal
<1>6. ~Accepted(p)
  <2>1. Accepted(p) => p \in S
    BY <1>4 DEF Primary, Relevant, Contractual, Accepted
  <2> QED  BY <1>1, <1>3, <1>5, <2>1
<1> QED  BY <1>3, <1>4, <1>5, <1>6 DEF Relevant

------------------------------------------------------------------------------
(* The counts *)

\* s has the counts of some list received, of which some were evaluated.
Extracted(s) ==
    \E received : \E evaluated \in SUBSET received :
        /\ IsFiniteSet(received)
        /\ s.alerts \in SUBSET evaluated
        /\ s.evaluated = Cardinality(evaluated) /\ s.source = Cardinality(received)
        /\ s.countries = CountrySummary(received, s.alerts)

\* Country by country, the alerts of a list are counted once.
LEMMA CountByCountry ==
    ASSUME NEW K, IsFiniteSet(K), NEW alerts, IsFiniteSet(alerts),
           \A a \in alerts : a.country \in K
    PROVE  SumFunctionOnSet([c \in K |-> Occurring(c, alerts)], K) = Cardinality(alerts)
<1> DEFINE f == [c \in K |-> Occurring(c, alerts)]
           country == [a \in alerts |-> a.country]
<1>1. \A a \in alerts : country[a] \in K
  OBVIOUS
<1>2. ASSUME NEW c \in K PROVE f[c] = Cardinality({a \in alerts : country[a] = c})
  <2>1. {a \in alerts : country[a] = c} = {a \in alerts : a.country = c}
    OBVIOUS
  <2> QED  BY <2>1 DEF Occurring
<1> HIDE DEF f, country
<1>3. CountsClasses(f, alerts, K, country)
  BY <1>1, <1>2 DEF CountsClasses
<1>4. SumFunctionOnSet(f, K) = Cardinality(alerts)
  BY <1>3, CountByClass
<1> QED  BY <1>4 DEF f

\* The view recomputes every count of such a snapshot and finds it right.
LEMMA CountsHold ==
    ASSUME NEW s, Extracted(s)
    PROVE  Counted(s)
<1>1. PICK received : \E evaluated \in SUBSET received :
          /\ IsFiniteSet(received)
          /\ s.alerts \in SUBSET evaluated
          /\ s.evaluated = Cardinality(evaluated) /\ s.source = Cardinality(received)
          /\ s.countries = CountrySummary(received, s.alerts)
  BY DEF Extracted
<1>2. PICK evaluated \in SUBSET received :
          /\ IsFiniteSet(received)
          /\ s.alerts \in SUBSET evaluated
          /\ s.evaluated = Cardinality(evaluated) /\ s.source = Cardinality(received)
          /\ s.countries = CountrySummary(received, s.alerts)
  BY <1>1
<1> DEFINE alerts == s.alerts
           K == {a.country : a \in received \cup alerts}
<1>3. /\ IsFiniteSet(evaluated) /\ IsFiniteSet(alerts) /\ alerts \subseteq received
      /\ Cardinality(alerts) <= Cardinality(evaluated)
      /\ Cardinality(alerts) <= Cardinality(received)
      /\ Cardinality(evaluated) <= Cardinality(received)
  BY <1>2, FS_Subset
<1>4. IsFiniteSet(K)
  <2>1. received \cup alerts = received
    BY <1>3
  <2> DEFINE country == [a \in received |-> a.country]
  <2>2. {country[a] : a \in received} = {a.country : a \in received}
    OBVIOUS
  <2>3. IsFiniteSet({country[a] : a \in received})
    <3> HIDE DEF country
    <3> QED  BY <1>2, ImageIsFinite
  <2> QED  BY <2>1, <2>2, <2>3
<1>5. s.countries = [c \in K |-> [received |-> Occurring(c, received),
                                 accepted |-> Occurring(c, alerts)]]
  BY <1>2 DEF CountrySummary
<1>6. ASSUME NEW c PROVE Occurring(c, alerts) <= Occurring(c, received)
  <2>1. {a \in alerts : a.country = c} \subseteq {a \in received : a.country = c}
    BY <1>3
  <2>2. IsFiniteSet({a \in received : a.country = c})
    BY <1>2, FS_Subset
  <2> QED  BY <2>1, <2>2, FS_Subset DEF Occurring
<1>7. (\A a \in alerts : a.country \in K) /\ (\A a \in received : a.country \in K)
  OBVIOUS
<1> HIDE DEF alerts, K
<1>8. Total(s.countries, "accepted") = Cardinality(alerts)
  <2>1. [c \in DOMAIN s.countries |-> s.countries[c]["accepted"]]
          = [c \in K |-> Occurring(c, alerts)]
    BY <1>5
  <2>2. Total(s.countries, "accepted")
          = SumFunctionOnSet([c \in K |-> Occurring(c, alerts)], K)
    BY <2>1 DEF Total, SumFunction
  <2> QED  BY <1>3, <1>4, <1>7, <2>2, CountByCountry
<1>9. Total(s.countries, "received") = Cardinality(received)
  <2>1. [c \in DOMAIN s.countries |-> s.countries[c]["received"]]
          = [c \in K |-> Occurring(c, received)]
    BY <1>5
  <2>2. Total(s.countries, "received")
          = SumFunctionOnSet([c \in K |-> Occurring(c, received)], K)
    BY <2>1 DEF Total, SumFunction
  <2> QED  BY <1>2, <1>4, <1>7, <2>2, CountByCountry
<1>10. \A c \in DOMAIN s.countries :
          /\ s.countries[c].accepted <= s.countries[c].received
          /\ s.countries[c].accepted = Occurring(c, alerts)
  BY <1>5, <1>6
<1> QED  BY <1>2, <1>3, <1>8, <1>9, <1>10 DEF Counted, alerts

LEMMA SelectionsAreAccepted ==
    ASSUME NEW mode, NEW candidates, NEW shown \in Selections(mode, candidates)
    PROVE  /\ shown \in SUBSET candidates /\ \A a \in shown : Accepted(a)
           /\ mode = "policy" => shown = {a \in candidates : Accepted(a)}
BY DEF Selections

LEMMA OccurrencesAreExtracted ==
    ASSUME NEW day, NEW mode, NEW records \in Seq(Stored),
           NEW s \in OccurrenceSnapshots(day, mode, records)
    PROVE  Extracted(s)
<1>1. PICK shown \in Selections(mode, Candidates(day, records)) :
          s = Snapshot(day, Cardinality(Candidates(day, records)), shown,
                       Source(day, records), CountrySummary(Of(day, records), shown))
  BY DEF OccurrenceSnapshots
<1>2. shown \in SUBSET Candidates(day, records)
  BY SelectionsAreAccepted
<1>3. Candidates(day, records) \in SUBSET Of(day, records)
  BY CandidatesPick DEF Picks, Of, Relevant
<1>4. IsFiniteSet(Of(day, records))
  <2>1. Of(day, records) \subseteq Range(records)
    BY DEF Of
  <2> QED  BY <2>1, RecordsAreFinite, FS_Subset
<1> QED  BY <1>1, <1>2, <1>3, <1>4 DEF Extracted, Snapshot, Source

LEMMA RowsAreExtracted ==
    ASSUME NEW day, NEW mode, NEW rows \in Files, NEW s \in RowSnapshots(day, mode, rows)
    PROVE  Extracted(s)
<1> DEFINE projected == {row \in rows : row.critical}
<1>1. PICK shown \in Selections(mode, projected) :
          s = Snapshot(day, Cardinality(projected), shown, Cardinality(rows),
                       CountrySummary(rows, shown))
  BY DEF RowSnapshots
<1>2. projected \in SUBSET rows
  OBVIOUS
<1> HIDE DEF projected
<1>3. shown \in SUBSET projected
  BY SelectionsAreAccepted
<1> QED  BY <1>1, <1>2, <1>3, FileAssumption DEF Extracted, Snapshot

------------------------------------------------------------------------------
(* What a request has read *)

Reviewed == {"check", "previous", "retain", "save", "publish"}

\* The state of a request, as far as the extraction goes.
Faithful(x) ==
    /\ x.pc = "file" => x.via = "file"
    /\ x.pc \in {"scan", "filter"} => x.records \in Seq(Stored)
    /\ x.pc = "filter" /\ x.via = "reader" => x.began \subseteq Range(x.records)
    /\ x.pc = "check" /\ x.via # "file" =>
          /\ x.records \in Seq(Stored)
          /\ x.via = "reader" => x.began \subseteq Range(x.records)
          /\ x.snapshot \in OccurrenceSnapshots(x.day, x.mode, x.records)
    /\ x.pc \in Reviewed => Extracted(x.snapshot)

ExtractionInv == table \subseteq Stored /\ \A r \in Run : Faithful(run[r])

\* Only the request that moves, and only its own state, is at stake.
LEMMA GotoExtraction ==
    ASSUME Types, ExtractionInv, table' = table, NEW r \in Run, NEW pc, NEW state,
           Active(state), Goto(r, pc, state), Faithful([state EXCEPT !.pc = pc])
    PROVE  ExtractionInv'
<1>1. run'[r] = [state EXCEPT !.pc = pc] /\ \A p \in Run \ {r} : run'[p] = run[p]
  BY GotoKeepsTypes
<1>2. ASSUME NEW p \in Run PROVE Faithful(run'[p])
  BY <1>1 DEF ExtractionInv
<1> QED  BY <1>2 DEF ExtractionInv

LEMMA LeaveExtraction ==
    ASSUME Types, ExtractionInv, table' = table, NEW r \in Run, Leave(r)
    PROVE  ExtractionInv'
<1>1. run'[r] = Done /\ \A p \in Run \ {r} : run'[p] = run[p]
  BY LeaveKeepsTypes
<1>2. Faithful(Done)
  BY DEF Faithful, Done, Reviewed
<1>3. ASSUME NEW p \in Run PROVE Faithful(run'[p])
  BY <1>1, <1>2 DEF ExtractionInv
<1> QED  BY <1>3 DEF ExtractionInv

\* Each step, from what the request has read to what it makes of it.
LEMMA ScanSteps ==
    ASSUME Types, ExtractionInv, NEW r \in Run, Begin(r) \/ ScanPage(r) \/ LastPage(r)
    PROVE  ExtractionInv'
<1>1. CASE Begin(r)
  <2>1. PICK q \in Request[r] :
          run' = [run EXCEPT ![r] =
              [pc |-> IF q.via = "file" THEN "file" ELSE "scan", via |-> q.via,
               day |-> q.day, mode |-> q.mode, records |-> <<>>, began |-> table,
               snapshot |-> Nothing, previous |-> Nothing]]
    BY <1>1 DEF Begin
  <2> DEFINE x == [pc |-> IF q.via = "file" THEN "file" ELSE "scan", via |-> q.via,
               day |-> q.day, mode |-> q.mode, records |-> <<>>, began |-> table,
               snapshot |-> Nothing, previous |-> Nothing]
  <2>2. Faithful(x)
    BY DEF Faithful, Reviewed
  <2> HIDE DEF x
  <2>3. \A p \in Run : run'[p] = x \/ run'[p] = run[p]
    BY <2>1 DEF Types, x
  <2> QED  BY <1>1, <2>2, <2>3 DEF ExtractionInv, Begin, stored
<1>2. CASE ScanPage(r)
  <2>1. PICK o \in table : Goto(r, "scan", [run[r] EXCEPT !.records = Append(@, o)])
    BY <1>2 DEF ScanPage
  <2>2. Active(run[r]) /\ run[r].records \in Seq(Stored) /\ o \in Stored
    BY <1>2, BusyIsActive DEF ScanPage, ExtractionInv, Faithful
  <2> DEFINE more == Append(run[r].records, o)
             y == [run[r] EXCEPT !.records = Append(@, o)]
  <2> HIDE DEF more
  <2>3. Active(y) /\ y.records = more
    <3>1. y = [run[r] EXCEPT !.records = more]
      BY DEF more
    <3> HIDE DEF y
    <3> QED  BY <2>2, <3>1 DEF Active
  <2>4. y.records \in Seq(Stored)
    BY <2>2, <2>3 DEF more
  <2> HIDE DEF y
  <2>5. [y EXCEPT !.pc = "scan"].pc = "scan"
        /\ [y EXCEPT !.pc = "scan"].records = y.records
    BY <2>3 DEF Active
  <2>6. Faithful([y EXCEPT !.pc = "scan"])
    BY <2>4, <2>5 DEF Faithful, Reviewed
  <2>7. Goto(r, "scan", y) /\ table' = table
    BY <1>2, <2>1 DEF y, ScanPage, stored
  <2> QED  BY <2>3, <2>6, <2>7, GotoExtraction
<1>3. CASE LastPage(r)
  <2>1. Active(run[r]) /\ run[r].records \in Seq(Stored)
        /\ (run[r].via = "reader" => run[r].began \subseteq Range(run[r].records))
    BY <1>3, BusyIsActive DEF LastPage, ExtractionInv, Faithful, Whole, Scanned
  <2> DEFINE y == [run[r] EXCEPT !.pc = "filter"]
  <2>2. /\ y.pc = "filter" /\ y.via = run[r].via
        /\ y.records = run[r].records /\ y.began = run[r].began
    BY <2>1 DEF Active
  <2> HIDE DEF y
  <2>3. Faithful(y)
    BY <2>1, <2>2 DEF Faithful, Reviewed
  <2> QED  BY <1>3, <2>1, <2>3, GotoExtraction DEF LastPage, stored, y
<1> QED  BY <1>1, <1>2, <1>3

LEMMA FilterStep ==
    ASSUME Types, ExtractionInv, NEW r \in Run, Filter(r) \/ FilterFile(r)
    PROVE  ExtractionInv'
<1>1. table' = table /\ Active(run[r]) /\ Faithful(run[r])
  BY BusyIsActive DEF Filter, FilterFile, stored, ExtractionInv
<1>2. CASE Leave(r)
  BY <1>1, <1>2, LeaveExtraction
<1> DEFINE y(s) == [run[r] EXCEPT !.snapshot = s]
<1>3. ASSUME NEW s
      PROVE  /\ Active(y(s))
             /\ [y(s) EXCEPT !.pc = "check"] = [[run[r] EXCEPT !.snapshot = s] EXCEPT !.pc = "check"]
             /\ [y(s) EXCEPT !.pc = "check"].pc = "check"
             /\ [y(s) EXCEPT !.pc = "check"].snapshot = s
             /\ \A f \in {"via", "day", "mode", "records", "began"} :
                   [y(s) EXCEPT !.pc = "check"][f] = run[r][f]
  BY <1>1 DEF Active
<1> HIDE DEF y
<1>4. CASE Filter(r) /\ ~Leave(r)
  <2>1. PICK s \in OccurrenceSnapshots(run[r].day, run[r].mode, run[r].records) :
          Goto(r, "check", y(s))
    BY <1>4 DEF Filter, y
  <2>2. /\ run[r].records \in Seq(Stored)
        /\ run[r].via = "reader" => run[r].began \subseteq Range(run[r].records)
    BY <1>1, <1>4 DEF Filter, Faithful
  <2>3. Extracted(s)
    BY <2>2, OccurrencesAreExtracted
  <2> DEFINE z == [y(s) EXCEPT !.pc = "check"]
  <2>4. /\ z.pc = "check" /\ z.snapshot = s /\ z.via = run[r].via /\ z.day = run[r].day
        /\ z.mode = run[r].mode /\ z.records = run[r].records /\ z.began = run[r].began
    BY <1>3
  <2> HIDE DEF z
  <2>5. Faithful(z)
    BY <2>1, <2>2, <2>3, <2>4 DEF Faithful
  <2> QED  BY <1>1, <1>3, <2>1, <2>5, GotoExtraction DEF z
<1>5. CASE FilterFile(r) /\ ~Leave(r)
  <2>1. PICK rows \in Files : \E s \in RowSnapshots(run[r].day, run[r].mode, rows) :
          Goto(r, "check", y(s))
    BY <1>5 DEF FilterFile, y
  <2>2. PICK s \in RowSnapshots(run[r].day, run[r].mode, rows) : Goto(r, "check", y(s))
    BY <2>1
  <2>3. Extracted(s)
    BY RowsAreExtracted
  <2>4. run[r].via = "file"
    BY <1>1, <1>5 DEF FilterFile, Faithful
  <2> DEFINE z == [y(s) EXCEPT !.pc = "check"]
  <2>5. z.pc = "check" /\ z.snapshot = s /\ z.via = "file"
    BY <1>3, <2>4
  <2> HIDE DEF z
  <2>6. Faithful(z)
    BY <2>3, <2>5 DEF Faithful
  <2> QED  BY <1>1, <1>3, <2>2, <2>6, GotoExtraction DEF z
<1> QED  BY <1>2, <1>4, <1>5

\* From the check on, the snapshot is only passed on.
LEMMA LaterSteps ==
    ASSUME Types, ExtractionInv, NEW r \in Run,
           Check(r) \/ Previous(r) \/ Retain(r) \/ Save(r)
    PROVE  ExtractionInv'
<1>1. /\ table' = table /\ Active(run[r]) /\ Extracted(run[r].snapshot)
      /\ \/ Leave(r)
         \/ \E pc \in {"save", "publish"} : Goto(r, pc, run[r])
         \/ Goto(r, "retain", [run[r] EXCEPT !.previous = latest])
         \/ Goto(r, "previous", [run[r] EXCEPT !.records = <<>>, !.began = {}])
  BY BusyIsActive
  DEF Check, Previous, Retain, Save, stored, ExtractionInv, Faithful, Reviewed
<1>2. ASSUME NEW pc \in Reviewed \ {"check"}, NEW y, Goto(r, pc, y), Active(y),
             y.snapshot = run[r].snapshot
      PROVE  ExtractionInv'
  <2>1. [y EXCEPT !.pc = pc].pc = pc /\ [y EXCEPT !.pc = pc].snapshot = run[r].snapshot
    BY <1>2 DEF Active
  <2>2. Faithful([y EXCEPT !.pc = pc])
    BY <1>1, <2>1 DEF Faithful, Reviewed
  <2> QED  BY <1>1, <1>2, <2>2, GotoExtraction
<1>3. CASE Leave(r)
  BY <1>1, <1>3, LeaveExtraction
<1>4. CASE \E pc \in {"save", "publish"} : Goto(r, pc, run[r])
  BY <1>1, <1>2, <1>4 DEF Reviewed
<1>5. CASE Goto(r, "retain", [run[r] EXCEPT !.previous = latest])
  <2> DEFINE y == [run[r] EXCEPT !.previous = latest]
  <2>1. Active(y) /\ y.snapshot = run[r].snapshot
    BY <1>1 DEF Active
  <2> HIDE DEF y
  <2> QED  BY <1>2, <1>5, <2>1 DEF Reviewed, y
<1>6. CASE Goto(r, "previous", [run[r] EXCEPT !.records = <<>>, !.began = {}])
  <2> DEFINE x == run[r]
             y == [x EXCEPT !.records = <<>>]
             z == [x EXCEPT !.records = <<>>, !.began = {}]
  <2>1. Active(x)
    BY <1>1
  <2> HIDE DEF x
  <2>2. Active(y) /\ y.snapshot = x.snapshot /\ z = [y EXCEPT !.began = {}]
    BY <2>1 DEF Active
  <2> HIDE DEF y, z
  <2>3. Active(z) /\ z.snapshot = x.snapshot
    BY <2>2 DEF Active
  <2> QED  BY <1>2, <1>6, <2>3 DEF Reviewed, x, z
<1> QED  BY <1>1, <1>3, <1>4, <1>5, <1>6

LEMMA NextExtraction == IInv /\ ExtractionInv /\ [Next]_vars => ExtractionInv'
<1> SUFFICES ASSUME Types, ExtractionInv, [Next]_vars PROVE ExtractionInv'
  BY DEF IInv
<1>1. CASE Arrive
  BY <1>1 DEF Arrive, ExtractionInv, Stored
<1>2. ASSUME NEW r \in Run, Limit(r) \/ Publish(r) \/ Fail(r) PROVE ExtractionInv'
  BY <1>2, LeaveExtraction DEF Limit, Publish, Fail, stored
<1>3. CASE UNCHANGED vars
  BY <1>3 DEF vars, ExtractionInv
<1> QED  BY <1>1, <1>2, <1>3, ScanSteps, FilterStep, LaterSteps DEF Next

\* A scan holds stored occurrences only, the reader's records contain all that
\* stood when it began once they are filtered, and a snapshot is what the filter
\* made of its records or rows (manual_snapshot.py:134-215,
\* guardian_daily.py:219-258, infra/manual-extractor/handler.py:39-52).
THEOREM ExtractionInvariant == Spec => []ExtractionInv
<1>1. Init => ExtractionInv
  BY DEF Init, ExtractionInv, Faithful, Idle, Reviewed, Stored
<1> QED  BY <1>1, NextExtraction, SnapshotInvariant, PTL DEF Spec

\* The counts reported are those the view recomputes, for every table, file and
\* choice of the model (manual_snapshot.py:134-240, guardian_view.py:165-198).
THEOREM CountsAgree == Spec => []ExtractedIsCounted
<1>1. ExtractionInv => ExtractedIsCounted
  BY CountsHold DEF ExtractionInv, Faithful, ExtractedIsCounted, Reviewed
<1> QED  BY <1>1, ExtractionInvariant, PTL

\* An alert shown is the latest v1 state of its id among the occurrences seen,
\* for every table and order of the pages, and the export of the same occurrences
\* differs only by a later v2 or a later refusal (manual_snapshot.py:147-215,
\* occurrence_export.py:237-291).
THEOREM ViewAgreesWithExport == Spec => []ViewsAgree
<1>1. ExtractionInv => ViewsAgree
  <2> SUFFICES ASSUME ExtractionInv, NEW r \in Run, run[r].pc = "check",
                      run[r].via # "file"
               PROVE  LET stand == Seen(r)
                          shown == run[r].snapshot.alerts
                      IN  /\ ShownIsLatest(run[r].day, stand, shown)
                          /\ run[r].mode = "policy" =>
                                ExportIsShown(run[r].day, stand, shown)
    BY DEF ViewsAgree, ShownIsLatest, ExportIsShown
  <2> DEFINE day == run[r].day
             records == run[r].records
             shown == run[r].snapshot.alerts
  <2>1. /\ records \in Seq(Stored) /\ Seen(r) = Range(records)
        /\ run[r].snapshot \in OccurrenceSnapshots(day, run[r].mode, records)
    BY DEF ExtractionInv, Faithful, Seen, Scanned
  <2>2. Picks(Candidates(day, records), day, Range(records))
    BY <2>1, CandidatesPick
  <2>3. shown \in Selections(run[r].mode, Candidates(day, records))
    BY <2>1 DEF OccurrenceSnapshots, Snapshot
  <2>4. IsFiniteSet(Range(records)) /\ Range(records) \in SUBSET Stored
    BY <2>1, RecordsAreFinite
  <2> HIDE DEF day, records, shown
  <2>5. ShownIsLatest(day, Range(records), shown)
    BY <2>2, <2>3, <2>4, SelectionsAreAccepted, LatestIsShown
  <2>6. run[r].mode = "policy" => ExportIsShown(day, Range(records), shown)
    BY <2>2, <2>3, <2>4, SelectionsAreAccepted, RefusedOrShown
  <2> QED  BY <2>1, <2>5, <2>6 DEF day, records, shown
<1> QED  BY <1>1, ExtractionInvariant, PTL
=============================================================================
