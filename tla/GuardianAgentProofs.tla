------------------------- MODULE GuardianAgentProofs ------------------------
(***************************************************************************)
(* Proofs about GuardianAgent, for every batch, every result Athena may     *)
(* have, every limit of queries and rows and every timeout.  The argument:  *)
(*                                                                         *)
(*   CachedGrows     a read that ends adds its query to the ones cached;    *)
(*   EndStep         so the end of a read, however it comes, keeps IInv;    *)
(*   AgentInvariant  IInv is inductive: a query is started only when it is  *)
(*                   not cached, under the limit, and while no other is     *)
(*                   read; a read that pages has seen its query succeed;    *)
(*   WholeHistories  a read that pages has the first pages of the result,   *)
(*                   in order; what it saves when no token is left is all   *)
(*                   of them: by induction over the number of pages.        *)
(***************************************************************************)
EXTENDS GuardianAgent, InductionLemmas

Cell(c) == c = [status |-> c.status, rows |-> c.rows]

Types ==
    /\ alerts \in Seq(Alert) /\ pos \in Nat \ {0}
    /\ saved \in Query \cup {NoQuery} /\ reading \in Query \cup {NoQuery}
    /\ cache = [q \in Query |-> cache[q]] /\ \A q \in Query : Cell(cache[q])
    /\ execution \in [Query -> Execution]
    /\ started \in [Query -> Nat]

\* The queries that reached the reader: each once, and under the limit.
Counted ==
    /\ IsFiniteSet(Cached) /\ Cardinality(Cached) <= MaxQueries
    /\ reading # NoQuery => reading \notin Cached /\ Cardinality(Cached) < MaxQueries
    /\ \A q \in Query : started[q] <= 1
    /\ \A q \in Query : started[q] # 0 => q \in Cached \/ reading = q

\* What Athena still runs is being read or was lost to a failed call.
Stopped ==
    /\ reading # NoQuery /\ step = "page" => execution[reading] = "succeeded"
    /\ NothingLeftRunning

IInv == Types /\ Counted /\ Stopped

------------------------------------------------------------------------------
\* The query the agent is about to read belongs to the batch and is not cached.
LEMMA BeginQuery ==
    ASSUME Types, Begin
    PROVE  Current.query \in Query /\ reading = NoQuery /\ Current.query \notin Cached
           /\ Cardinality(Cached) < MaxQueries
<1>1. alerts[pos] \in Alert
  BY DEF Types, Begin, Wanted, AtAlert
<1> QED  BY <1>1 DEF Begin, Wanted, AtAlert, Current, Alert

\* Caching the outcome of one more query grows the set of cached ones by it.
LEMMA CachedGrows ==
    ASSUME Types, IsFiniteSet(Cached), NEW q \in Query, q \notin Cached,
           NEW c, c.status # "unread", cache' = [cache EXCEPT ![q] = c]
    PROVE  /\ Cached' = Cached \cup {q}
           /\ IsFiniteSet(Cached')
           /\ Cardinality(Cached') = Cardinality(Cached) + 1
<1>1. cache'[q] = c /\ \A p \in Query \ {q} : cache'[p] = cache[p]
  BY DEF Types
<1>2. Cached' = Cached \cup {q}
  BY <1>1 DEF Cached
<1> QED  BY <1>2, FS_AddElement

\* The end of a read for q keeps the invariant when nothing is left running.
LEMMA EndStep ==
    ASSUME IInv, NEW q \in Query, q \notin Cached, Cardinality(Cached) < MaxQueries,
           NEW c, Cell(c), c.status # "unread", cache' = [cache EXCEPT ![q] = c],
           reading \in {NoQuery, q}, reading' = NoQuery,
           UNCHANGED <<batch, progress>>,
           execution' \in [Query -> Execution], started' \in [Query -> Nat],
           \A p \in Query \ {q} : execution'[p] = execution[p] /\ started'[p] = started[p],
           started'[q] <= 1,
           execution'[q] # "active" \/ c.status = "DATALAKE_UNAVAILABLE"
    PROVE  IInv'
<1>1. cache'[q] = c /\ \A p \in Query \ {q} : cache'[p] = cache[p]
  BY DEF IInv, Types
<1>2. Types'
  BY <1>1 DEF IInv, Types, batch, progress
<1>3. /\ Cached' = Cached \cup {q}
      /\ IsFiniteSet(Cached')
      /\ Cardinality(Cached') = Cardinality(Cached) + 1
  BY CachedGrows DEF IInv, Counted
<1>4. Cardinality(Cached) \in Nat
  BY FS_CardinalityType DEF IInv, Counted
<1>5. Counted'
  <2>1. Cardinality(Cached') <= MaxQueries
    BY <1>3, <1>4, MaxQueriesAssumption
  <2>2. \A p \in Query : started'[p] <= 1
    BY DEF IInv, Counted
  <2>3. \A p \in Query : started'[p] # 0 => p \in Cached' \/ reading' = p
    BY <1>3, NoQueryAssumption DEF IInv, Counted
  <2> QED  BY <1>3, <2>1, <2>2, <2>3 DEF Counted
<1>6. Stopped'
  <2>1. \A p \in Query : execution'[p] = "active" =>
            cache'[p].status = "DATALAKE_UNAVAILABLE"
    BY <1>1, NoQueryAssumption DEF IInv, Stopped, NothingLeftRunning
  <2> QED  BY <2>1 DEF Stopped, NothingLeftRunning
<1> QED  BY <1>2, <1>5, <1>6 DEF IInv

\* A read that End ends, of a query that Athena no longer runs.
LEMMA ReadEnds ==
    ASSUME IInv, NEW q \in Query, NEW status, NEW days, End(q, status, days),
           q \notin Cached, Cardinality(Cached) < MaxQueries, reading \in {NoQuery, q},
           status # "unread", execution' \in [Query -> Execution],
           \A p \in Query \ {q} : execution'[p] = execution[p],
           execution'[q] # "active" \/ status = "DATALAKE_UNAVAILABLE"
    PROVE  IInv'
<1> DEFINE c == [status |-> status, rows |-> days]
<1>1. Cell(c) /\ c.status = status
  BY DEF Cell
<1>2. /\ cache' = [cache EXCEPT ![q] = c]
      /\ reading' = NoQuery /\ UNCHANGED <<batch, progress>> /\ started' = started
  BY DEF End
<1>3. started' \in [Query -> Nat] /\ started'[q] <= 1
  BY <1>2 DEF IInv, Types, Counted
<1> HIDE DEF c
<1> QED  BY <1>1, <1>2, <1>3, EndStep

\* A query that no read has cached is not running in Athena.
LEMMA FreshIsIdle ==
    ASSUME IInv, NEW q \in Query, q \notin Cached, reading # q
    PROVE  execution[q] # "active" /\ started[q] = 0
<1>1. cache[q].status = "unread"
  BY DEF Cached
<1>2. execution[q] # "active"
  BY <1>1 DEF IInv, Stopped, NothingLeftRunning
<1>3. started[q] = 0
  BY DEF IInv, Counted
<1> QED  BY <1>2, <1>3

\* Steps of the batch touch neither the reader nor Athena.
LEMMA FinishStep ==
    ASSUME IInv, NEW status, Finish(status)
    PROVE  IInv'
<1>1. Types'
  BY DEF IInv, Types, Finish, batch, reader, athena
<1>2. Counted'
  BY DEF IInv, Counted, Cached, Finish, reader, athena
<1>3. Stopped'
  BY DEF IInv, Stopped, NothingLeftRunning, Finish, reader, athena
<1> QED  BY <1>1, <1>2, <1>3 DEF IInv

\* A query is started only when it is fresh and there is room for it.
LEMMA StartStep ==
    ASSUME IInv, Start
    PROVE  IInv'
<1> DEFINE q == Current.query
<1>1. q \in Query /\ reading = NoQuery /\ q \notin Cached /\ Cardinality(Cached) < MaxQueries
  BY BeginQuery DEF IInv, Start
<1>2. started[q] = 0 /\ q # NoQuery /\ reading # q
  BY <1>1, FreshIsIdle, NoQueryAssumption
<1>3. /\ reading' = q /\ step' = "poll"
      /\ execution' = [execution EXCEPT ![q] = "active"]
      /\ started' = [started EXCEPT ![q] = @ + 1]
      /\ UNCHANGED <<batch, progress, cache>>
  BY DEF Start
<1> HIDE DEF q
<1>4. Types'
  BY <1>1, <1>3 DEF IInv, Types, batch, progress, Execution
<1>5. Counted'
  <2>1. Cached' = Cached
    BY <1>3 DEF Cached
  <2>2. started'[q] = 1 /\ \A p \in Query \ {q} : started'[p] = started[p]
    BY <1>1, <1>2, <1>3 DEF IInv, Types
  <2> QED  BY <1>1, <1>3, <2>1, <2>2, NoQueryAssumption DEF IInv, Counted
<1>6. Stopped'
  <2>1. \A p \in Query \ {q} : execution'[p] = execution[p]
    BY <1>1, <1>3 DEF IInv, Types
  <2> QED
    BY <1>1, <1>3, <2>1, NoQueryAssumption DEF IInv, Stopped, NothingLeftRunning
<1> QED  BY <1>4, <1>5, <1>6 DEF IInv

\* A call that fails before the read begins, whether Athena started or not.
LEMMA StartFailsStep ==
    ASSUME IInv, StartFails
    PROVE  IInv'
<1> DEFINE q == Current.query
           c == [cache[q] EXCEPT !.status = "DATALAKE_UNAVAILABLE"]
<1>1. q \in Query /\ reading = NoQuery /\ q \notin Cached /\ Cardinality(Cached) < MaxQueries
  BY BeginQuery DEF IInv, StartFails
<1>2. execution[q] # "active" /\ started[q] = 0
  BY <1>1, FreshIsIdle, NoQueryAssumption
<1>3. Cell(cache[q])
  BY <1>1 DEF IInv, Types
<1>4. Cell(c) /\ c.status = "DATALAKE_UNAVAILABLE"
  BY <1>3 DEF Cell
<1>5. cache' = [cache EXCEPT ![q] = c]
  BY <1>1 DEF StartFails, IInv, Types
<1>6. UNCHANGED <<batch, progress>> /\ reading' = reading
  BY DEF StartFails, reader
<1>7. PICK lost \in BOOLEAN :
          /\ execution' = IF lost THEN [execution EXCEPT ![q] = "active"] ELSE execution
          /\ started' = IF lost THEN [started EXCEPT ![q] = @ + 1] ELSE started
  BY DEF StartFails
<1> HIDE DEF q, c
<1>8. /\ execution' \in [Query -> Execution] /\ started' \in [Query -> Nat]
      /\ \A p \in Query \ {q} : execution'[p] = execution[p] /\ started'[p] = started[p]
      /\ started'[q] <= 1
  BY <1>1, <1>2, <1>7 DEF IInv, Types, Execution
<1> QED  BY <1>1, <1>4, <1>5, <1>6, <1>8, EndStep

\* Initially nothing has been read.
LEMMA InitIInv == Init => IInv
<1> SUFFICES ASSUME Init PROVE IInv
  OBVIOUS
<1>1. Types
  BY BatchAssumption DEF Init, Types, Cell, Execution
<1>2. Cached = {}
  BY DEF Init, Cached
<1>3. Counted
  BY <1>2, FS_EmptySet, MaxQueriesAssumption DEF Init, Counted
<1>4. Stopped
  BY DEF Init, Stopped, NothingLeftRunning
<1> QED  BY <1>1, <1>3, <1>4 DEF IInv

\* Every step of the agent, of Athena and of the clock keeps the invariant.
LEMMA NextIInv == IInv /\ [Next]_vars => IInv'
<1> SUFFICES ASSUME IInv, [Next]_vars PROVE IInv'
  OBVIOUS
<1> USE DEF IInv
<1>a. ASSUME reading # NoQuery
      PROVE  reading \in Query /\ reading \notin Cached /\ Cardinality(Cached) < MaxQueries
  BY <1>a DEF Types, Counted
<1>b. \A q \in Query : execution[q] \in Execution
  BY DEF Types
<1>1. CASE NotRequested
  BY <1>1, FinishStep DEF NotRequested
<1>2. CASE Invalid
  BY <1>2, FinishStep DEF Invalid
<1>3. CASE Limited
  BY <1>3, FinishStep DEF Limited
<1>4. CASE Conclude
  BY <1>4, FinishStep DEF Conclude
<1>5. CASE Replay
  <2> DEFINE q == Current.query
  <2>1. q \in Query /\ reading = NoQuery /\ q \notin Cached /\ Cardinality(Cached) < MaxQueries
    BY <1>5, BeginQuery DEF Replay
  <2>2. execution[q] # "active"
    BY <2>1, FreshIsIdle, NoQueryAssumption
  <2>3. execution' = execution
    BY <1>5 DEF Replay
  <2>4. End(q, "read", <<1>>) \/ End(q, "INVALID_HISTORY_SOURCE", <<>>)
    BY <1>5 DEF Replay
  <2> HIDE DEF q
  <2> QED  BY <2>1, <2>2, <2>3, <2>4, ReadEnds DEF Types
<1>6. CASE Mismatch
  <2> DEFINE q == Current.query
  <2>1. q \in Query /\ reading = NoQuery /\ q \notin Cached /\ Cardinality(Cached) < MaxQueries
    BY <1>6, BeginQuery DEF Mismatch
  <2>2. execution[q] # "active"
    BY <2>1, FreshIsIdle, NoQueryAssumption
  <2>3. execution' = execution /\ End(q, "SCHEMA_MISMATCH", <<>>)
    BY <1>6 DEF Mismatch
  <2> HIDE DEF q
  <2> QED  BY <2>1, <2>2, <2>3, ReadEnds DEF Types
<1>7. CASE Start
  BY <1>7, StartStep
<1>8. CASE PollSucceeded
  <2>1. Types'
    BY <1>8 DEF PollSucceeded, Types, batch, progress, athena
  <2>2. Counted'
    BY <1>8 DEF PollSucceeded, Counted, Cached, athena
  <2>3. Stopped'
    BY <1>8 DEF PollSucceeded, Stopped, NothingLeftRunning, athena, Polling
  <2> QED  BY <2>1, <2>2, <2>3
<1>9. CASE PollFailed
  BY <1>9, <1>a, ReadEnds DEF PollFailed, Polling, Types
<1>10. CASE PollTimeout
  <2>1. execution' = [execution EXCEPT ![reading] = "stopping"]
        /\ End(reading, "QUERY_TIMEOUT", <<>>) /\ reading # NoQuery
    BY <1>10 DEF PollTimeout, Polling
  <2>2. /\ execution' \in [Query -> Execution] /\ execution'[reading] = "stopping"
        /\ \A p \in Query \ {reading} : execution'[p] = execution[p]
    BY <2>1, <1>a DEF Types, Execution
  <2> QED  BY <2>1, <2>2, <1>a, ReadEnds
<1>11. CASE Late
  BY <1>11, <1>a, ReadEnds DEF Late, Types, Stopped
<1>12. CASE Page
  <2>1. reading # NoQuery /\ execution[reading] = "succeeded"
    BY <1>12 DEF Page, Stopped
  <2>2. CASE End(reading, "INVALID_HISTORY", <<>>) /\ execution' = execution
    BY <2>1, <2>2, <1>a, ReadEnds DEF Types
  <2>3. CASE End(reading, "read", NewRows) /\ execution' = execution
    BY <2>1, <2>3, <1>a, ReadEnds DEF Types
  <2>4. CASE UNCHANGED <<batch, progress, cache, reading, step, timer, athena>>
    <3>1. Types'
      BY <2>4 DEF Types, batch, progress, athena
    <3>2. Counted'
      BY <2>4 DEF Counted, Cached, athena
    <3>3. Stopped'
      BY <2>4 DEF Stopped, NothingLeftRunning, athena
    <3> QED  BY <3>1, <3>2, <3>3
  <2> QED  BY <1>12, <2>2, <2>3, <2>4 DEF Page
<1>13. CASE StartFails
  BY <1>13, StartFailsStep
<1>14. CASE CallFails
  BY <1>14, <1>a, ReadEnds DEF CallFails, Types
<1>15. CASE Tick
  <2>1. Types'
    BY <1>15 DEF Tick, Types, batch, progress, athena
  <2>2. Counted'
    BY <1>15 DEF Tick, Counted, Cached, athena
  <2>3. Stopped'
    BY <1>15 DEF Tick, Stopped, NothingLeftRunning, athena
  <2> QED  BY <2>1, <2>2, <2>3
<1>16. ASSUME NEW q \in Query, Execute(q) PROVE IInv'
  <2>1. PICK s \in {"succeeded", "failed"} : execution' = [execution EXCEPT ![q] = s]
    BY <1>16 DEF Execute
  <2>2. execution[q] = "active" /\ reading = q
        /\ UNCHANGED <<batch, progress, cache, reader, result, started>>
    BY <1>16 DEF Execute
  <2>3. step # "page"
    BY <2>2, NoQueryAssumption DEF Stopped
  <2>4. /\ execution' \in [Query -> Execution] /\ execution'[q] = s
        /\ \A p \in Query \ {q} : execution'[p] = execution[p]
    BY <2>1 DEF Types, Execution
  <2>5. Types'
    BY <2>2, <2>4 DEF Types, batch, progress, reader
  <2>6. Counted'
    BY <2>2 DEF Counted, Cached, reader
  <2>7. Stopped'
    BY <2>2, <2>3, <2>4 DEF Stopped, NothingLeftRunning, reader
  <2> QED  BY <2>5, <2>6, <2>7
<1>17. CASE UNCHANGED vars
  <2>1. Types'
    BY <1>17 DEF vars, Types, batch, progress, reader, athena
  <2>2. Counted'
    BY <1>17 DEF vars, Counted, Cached, reader, athena
  <2>3. Stopped'
    BY <1>17 DEF vars, Stopped, NothingLeftRunning, reader, athena
  <2> QED  BY <2>1, <2>2, <2>3
<1> QED
  BY <1>1, <1>2, <1>3, <1>4, <1>5, <1>6, <1>7, <1>8, <1>9, <1>10, <1>11, <1>12,
     <1>13, <1>14, <1>15, <1>16, <1>17 DEF Next, Agent, Done

\* The inductive invariant holds in every reachable state, for every batch and
\* limit (guardian.py:265-330, datalake_history.py:318-400).
THEOREM AgentInvariant == Spec => []IInv
  BY InitIInv, NextIInv, PTL DEF Spec

\* Whatever the batch, no more than MaxQueries distinct queries are ever started,
\* each once, failed ones included (guardian.py:297-318).
THEOREM QueryBudget == Spec => []QueriesBounded
<1>1. IInv => QueriesBounded
  <2> SUFFICES ASSUME IInv PROVE QueriesBounded
    OBVIOUS
  <2> DEFINE S == {q \in Query : started[q] # 0}
  <2>1. Cardinality(S) <= MaxQueries
    <3>1. CASE reading = NoQuery
      <4>1. S \in SUBSET Cached
        BY <3>1, NoQueryAssumption DEF IInv, Counted
      <4>2. Cardinality(S) <= Cardinality(Cached) /\ IsFiniteSet(S)
        BY <4>1, FS_Subset DEF IInv, Counted
      <4> QED
        BY <4>2, FS_CardinalityType, MaxQueriesAssumption DEF IInv, Counted
    <3>2. CASE reading # NoQuery
      <4>1. S \in SUBSET (Cached \cup {reading})
        BY DEF IInv, Counted
      <4>2. IsFiniteSet(Cached \cup {reading})
            /\ Cardinality(Cached \cup {reading}) = Cardinality(Cached) + 1
        BY <3>2, FS_AddElement DEF IInv, Counted
      <4>3. Cardinality(S) <= Cardinality(Cached \cup {reading}) /\ IsFiniteSet(S)
        BY <4>1, <4>2, FS_Subset
      <4>4. Cardinality(S) \in Nat /\ Cardinality(Cached) \in Nat
        BY <4>3, FS_CardinalityType DEF IInv, Counted
      <4> QED
        BY <3>2, <4>2, <4>3, <4>4, MaxQueriesAssumption DEF IInv, Counted
    <3> QED  BY <3>1, <3>2
  <2> QED  BY <2>1 DEF IInv, Counted, QueriesBounded
<1> QED  BY <1>1, AgentInvariant, PTL

\* No query is left running in Athena by a read that has ended, unless a call of
\* AWS failed on the way (datalake_history.py:340-361).
THEOREM QueriesAreStopped == Spec => []NothingLeftRunning
<1>1. IInv => NothingLeftRunning
  BY DEF IInv, Stopped
<1> QED  BY <1>1, AgentInvariant, PTL

------------------------------------------------------------------------------
(* Whole histories *)

\* joined[i] is the first i sequences one after the other.
Joins(joined, seqs, n) ==
    joined = [i \in 1..n |-> IF i = 1 THEN seqs[i] ELSE joined[i - 1] \o seqs[i]]
Joined(seqs) == CHOOSE joined : Joins(joined, seqs, Len(seqs))

\* The recursion of FlattenSeq has a solution for every length.
LEMMA JoinedExists ==
    ASSUME NEW seqs, NEW n \in Nat
    PROVE  \E f : Joins(f, seqs, n)
<1> DEFINE T == {m \in Nat : \E f : Joins(f, seqs, m)}
<1>1. 0 \in T
  <2>1. Joins(<<>>, seqs, 0)
    BY DEF Joins
  <2> QED  BY <2>1
<1>2. ASSUME NEW m \in Nat, m \in T PROVE m + 1 \in T
  <2>1. PICK f : Joins(f, seqs, m)
    BY <1>2
  <2> DEFINE g == [i \in 1..(m + 1) |->
                     IF i <= m THEN f[i]
                     ELSE IF i = 1 THEN seqs[i] ELSE f[i - 1] \o seqs[i]]
  <2>2. \A i \in 1..m : g[i] = f[i]
    OBVIOUS
  <2>3. ASSUME NEW i \in 1..(m + 1)
        PROVE  g[i] = IF i = 1 THEN seqs[i] ELSE g[i - 1] \o seqs[i]
    <3>1. CASE i <= m
      <4>1. i \in 1..m /\ (i # 1 => i - 1 \in 1..m)
        BY <3>1
      <4>2. f[i] = IF i = 1 THEN seqs[i] ELSE f[i - 1] \o seqs[i]
        BY <2>1, <4>1 DEF Joins
      <4> QED  BY <2>2, <4>1, <4>2
    <3>2. CASE ~ (i <= m)
      <4>1. i # 1 => i - 1 \in 1..m
        BY <3>2
      <4>2. g[i] = IF i = 1 THEN seqs[i] ELSE f[i - 1] \o seqs[i]
        BY <3>2
      <4> QED  BY <2>2, <4>1, <4>2
    <3> QED  BY <3>1, <3>2
  <2>4. g = [i \in 1..(m + 1) |-> g[i]]
    OBVIOUS
  <2> HIDE DEF g
  <2>5. Joins(g, seqs, m + 1)
    BY <2>3, <2>4 DEF Joins
  <2> QED  BY <2>5
<1>3. Nat \subseteq T
  <2> HIDE DEF T
  <2> QED  BY <1>1, <1>2, NatSetInduction
<1> QED  BY <1>3

\* FlattenSeq is the last of the joined sequences.
LEMMA FlattenJoins ==
    ASSUME NEW seqs, NEW n \in Nat \ {0}, Len(seqs) = n
    PROVE  /\ FlattenSeq(seqs) = Joined(seqs)[n]
           /\ Joined(seqs)[1] = seqs[1]
           /\ \A i \in 2..n : Joined(seqs)[i] = Joined(seqs)[i - 1] \o seqs[i]
<1>1. FlattenSeq(seqs) = Joined(seqs)[Len(seqs)]
  BY Zenon DEF FlattenSeq, Joined, Joins
<1>2. Joins(Joined(seqs), seqs, Len(seqs))
  BY JoinedExists DEF Joined
<1>3. PICK joined : joined = Joined(seqs) /\ Joins(joined, seqs, n)
  BY <1>2
<1>4. Joins(joined, seqs, n)
  BY <1>3
<1> HIDE <1>3
<1>5. ASSUME NEW i \in 1..n
      PROVE  /\ i = 1 => joined[i] = seqs[i]
             /\ i # 1 => joined[i] = joined[i - 1] \o seqs[i]
  BY <1>4 DEF Joins
<1>6. 1 \in 1..n /\ \A i \in 2..n : i \in 1..n /\ i # 1
  OBVIOUS
<1>7. joined[1] = seqs[1] /\ \A i \in 2..n : joined[i] = joined[i - 1] \o seqs[i]
  BY <1>5, <1>6, Zenon
<1> QED  BY <1>1, <1>3, <1>7

\* Before page p of r is asked for: the pages so far came in order, each once.
InOrder(r, p, followed, days) ==
    /\ p \in 1..Len(r.pages) /\ followed = 2..p
    /\ days = IF p = 1 THEN <<>> ELSE Joined(r.pages)[p - 1]
    /\ \A i \in 1..(p - 1) : r.next[i] = i + 1
    /\ \A i \in 2..(p - 1) : i \notin r.altered

\* ... or the page is one that was read before: its token has been followed.
Repeats(r, p, followed) == r.next[p] # 0 /\ r.next[p] \in followed

\* What a page adds to the pages before it.
LEMMA PageAdds ==
    ASSUME NEW r \in Result, NEW p, NEW followed, NEW days,
           InOrder(r, p, followed, days), ~ (p \in r.altered /\ followed # {})
    PROVE  /\ r.next[p] = 0 =>
                 /\ days \o r.pages[p] = FlattenSeq(r.pages) /\ r.altered \subseteq {1}
                 /\ \A i \in DOMAIN r.next :
                       r.next[i] = (IF i = Len(r.next) THEN 0 ELSE i + 1)
           /\ r.next[p] # 0 /\ r.next[p] \notin followed =>
                 \/ InOrder(r, r.next[p], followed \cup {r.next[p]}, days \o r.pages[p])
                 \/ Repeats(r, r.next[p], followed \cup {r.next[p]})
<1> DEFINE n == Len(r.pages)
           t == r.next[p]
<1>1. /\ r.pages \in Seq(Seq(Nat)) /\ n \in Nat \ {0} /\ DOMAIN r.pages = 1..n
      /\ DOMAIN r.next = 1..n /\ r.altered \subseteq 1..n
      /\ r.next \in [1..n -> Nat]
      /\ \A i \in 1..n : r.next[i] \in (IF i = n THEN 0..i ELSE 1..(i + 1))
  BY ResultAssumption
<1>2. /\ p \in 1..n /\ followed = 2..p
      /\ days = IF p = 1 THEN <<>> ELSE Joined(r.pages)[p - 1]
      /\ \A i \in 1..(p - 1) : r.next[i] = i + 1
      /\ \A i \in 2..(p - 1) : i \notin r.altered
  BY DEF InOrder
<1>3. days \o r.pages[p] = Joined(r.pages)[p]
  <2>1. CASE p = 1
    <3>1. r.pages[1] \in Seq(Nat)
      BY <1>1
    <3>2. <<>> \o r.pages[1] = r.pages[1]
      BY <3>1
    <3> QED  BY <1>1, <1>2, <2>1, <3>2, FlattenJoins
  <2>2. CASE p # 1
    <3>1. p \in 2..n
      BY <1>1, <1>2, <2>2
    <3> QED  BY <1>1, <1>2, <2>2, <3>1, FlattenJoins
  <2> QED  BY <2>1, <2>2
<1>4. Len(r.next) = n
  BY <1>1
<1>5. \A i \in 2..p : i \notin r.altered
  <2>1. p \in 2..p => followed # {}
    BY <1>2
  <2> QED  BY <1>2, <2>1
<1>6. t \in (IF p = n THEN 0..p ELSE 1..(p + 1)) /\ t \in Nat
  BY <1>1, <1>2
<1> HIDE DEF n, t
<1>7. ASSUME t = 0
      PROVE  /\ days \o r.pages[p] = FlattenSeq(r.pages) /\ r.altered \subseteq {1}
             /\ \A i \in DOMAIN r.next :
                   r.next[i] = (IF i = Len(r.next) THEN 0 ELSE i + 1)
  <2>1. p = n
    BY <1>2, <1>6, <1>7
  <2>2. days \o r.pages[p] = FlattenSeq(r.pages)
    BY <1>1, <1>3, <2>1, FlattenJoins DEF n
  <2>3. r.altered \subseteq {1}
    BY <1>1, <1>5, <2>1
  <2>4. \A i \in 1..n : r.next[i] = (IF i = n THEN 0 ELSE i + 1)
    BY <1>1, <1>2, <1>7, <2>1 DEF t
  <2> QED  BY <1>1, <1>4, <2>2, <2>3, <2>4
<1>8. ASSUME t # 0, t \notin followed
      PROVE  \/ InOrder(r, t, followed \cup {t}, days \o r.pages[p])
             \/ Repeats(r, t, followed \cup {t})
  <2>1. t = p + 1 \/ t = 1
    BY <1>1, <1>2, <1>6, <1>8
  <2>2. CASE t = p + 1
    <3>1. p < n /\ t \in 1..n /\ t # 1 /\ t - 1 = p
      BY <1>1, <1>2, <1>6, <2>2
    <3>2. followed \cup {t} = 2..t
      BY <1>2, <2>2
    <3>3. \A i \in 1..(t - 1) : r.next[i] = i + 1
      BY <1>2, <2>2, <3>1 DEF t
    <3> QED  BY <1>3, <1>5, <3>1, <3>2, <3>3 DEF InOrder, n
  <2>3. CASE t = 1
    <3>1. CASE p = 1
      BY <2>3, <3>1 DEF Repeats, t
    <3>2. CASE p # 1
      <4>1. r.next[1] = 2 /\ 2 \in followed
        BY <1>1, <1>2, <3>2, SMTT(60)
      <4> QED  BY <2>3, <4>1 DEF Repeats
    <3> QED  BY <3>1, <3>2
  <2> QED  BY <2>1, <2>2, <2>3
<1> QED  BY <1>7, <1>8 DEF t

ReadsInOrder ==
    /\ result \in [Query -> Result]
    /\ reading # NoQuery =>
          \/ InOrder(result[reading], page, seen, rows)
          \/ Repeats(result[reading], page, seen)

\* The pages read so far stay in order, or the next one is refused.
LEMMA ReadsInOrderStep ==
    ASSUME IInv, ReadsInOrder, [Next]_vars
    PROVE  ReadsInOrder'
<1>1. result' = result
  BY DEF Next, Agent, Done, NotRequested, Invalid, Limited, Conclude, Finish, Replay,
         Mismatch, Start, PollSucceeded, PollFailed, PollTimeout, Late, Page, StartFails,
         CallFails, Tick, Execute, End, athena, vars
<1>2. SUFFICES ASSUME reading' # NoQuery
               PROVE  \/ InOrder(result[reading'], page', seen', rows')
                      \/ Repeats(result[reading'], page', seen')
  BY <1>1 DEF ReadsInOrder
<1>3. CASE Start
  <2>1. /\ reading' \in Query /\ page' = 1 /\ seen' = {} /\ rows' = <<>>
    BY <1>3, BeginQuery DEF Start, IInv
  <2>2. result[reading'] \in Result
    BY <2>1 DEF ReadsInOrder
  <2>3. Len(result[reading'].pages) \in Nat \ {0}
    BY <2>2, ResultAssumption
  <2> QED  BY <2>1, <2>3 DEF InOrder
<1>4. CASE Page /\ reading' = reading
  <2> DEFINE r == result[reading]
  <2>1. /\ ~ InvalidPage /\ Token # 0 /\ rows' = NewRows /\ page' = Token
        /\ seen' = seen \cup {Token}
    BY <1>2, <1>4 DEF Page, End
  <2>2. r \in Result
    BY <1>2, <1>4 DEF ReadsInOrder, IInv, Types
  <2>3. ~ (page \in r.altered /\ seen # {}) /\ Token \notin seen
    BY <2>1 DEF InvalidPage
  <2>4. InOrder(r, page, seen, rows)
    BY <1>2, <1>4, <2>3 DEF ReadsInOrder, Repeats, Token
  <2> QED  BY <1>4, <2>1, <2>2, <2>3, <2>4, PageAdds DEF Token, NewRows
<1>5. CASE UNCHANGED <<reading, page, seen, rows>>
  BY <1>2, <1>5 DEF ReadsInOrder
<1> QED
  BY <1>2, <1>3, <1>4, <1>5
  DEF Next, Agent, Done, NotRequested, Invalid, Limited, Conclude, Finish, Replay,
      Mismatch, PollSucceeded, PollFailed, PollTimeout, Late, Page, StartFails, CallFails,
      Tick, Execute, End, reader, vars

\* A history is kept only at the last page, of the query that is being read.
LEMMA HistoryIsKept ==
    ASSUME IInv, [Next]_vars, NEW q \in Query, cache'[q] # cache[q],
           cache'[q].status = "read", saved = NoQuery
    PROVE  /\ Page /\ q = reading /\ reading # NoQuery /\ ~ InvalidPage /\ Token = 0
           /\ cache'[q].rows = NewRows
<1>1. cache = [p \in Query |-> cache[p]]
  BY DEF IInv, Types
<1>2. ASSUME NEW p, NEW status, NEW days, End(p, status, days)
      PROVE  q = p /\ status = "read" /\ cache'[q].rows = days
  BY <1>1, <1>2 DEF End
<1>3. ~ StartFails
  BY <1>1 DEF StartFails, IInv, Types, Cell
<1>4. Page
  BY <1>2, <1>3
  DEF Next, Agent, Done, NotRequested, Invalid, Limited, Conclude, Finish, Replay,
      Mismatch, Start, PollSucceeded, PollFailed, PollTimeout, Late, Page, CallFails,
      Tick, Execute, vars
<1> QED  BY <1>2, <1>4 DEF Page

\* Athena is never asked again about a query that is cached, nor does it run it.
LEMMA CachedIsOver ==
    ASSUME IInv, [Next]_vars, NEW q \in Cached, execution[q] = "succeeded"
    PROVE  execution'[q] = "succeeded"
<1>1. q \in Query /\ reading # q /\ q # NoQuery
  BY NoQueryAssumption DEF IInv, Counted, Cached
<1>2. CASE Start \/ StartFails
  BY <1>1, <1>2, BeginQuery DEF Start, StartFails, IInv, Types
<1>3. CASE PollTimeout
  BY <1>1, <1>3 DEF PollTimeout, IInv, Types
<1>4. ASSUME NEW p \in Query, Execute(p) PROVE execution'[q] = "succeeded"
  BY <1>1, <1>4 DEF Execute, IInv, Types
<1>5. CASE execution' = execution
  BY <1>5
<1> QED
  BY <1>2, <1>3, <1>4, <1>5
  DEF Next, Agent, Done, NotRequested, Invalid, Limited, Conclude, Finish, Replay,
      Mismatch, PollSucceeded, PollFailed, Late, Page, CallFails, Tick, athena, vars

\* Whatever pages Athena sends, and wherever their tokens lead, what the cache
\* holds as a history is the result from its first page to its last, each once
\* and with the columns of the first (datalake_history.py:358-396).
THEOREM WholeHistories == Spec => []HistoriesAreWhole
<1>1. Init => ReadsInOrder /\ HistoriesAreWhole
  BY DEF Init, ReadsInOrder, HistoriesAreWhole
<1>2. IInv /\ ReadsInOrder /\ HistoriesAreWhole /\ [Next]_vars => HistoriesAreWhole'
  <2> SUFFICES ASSUME IInv, ReadsInOrder, HistoriesAreWhole, [Next]_vars,
                      NEW q \in Query, cache'[q].status = "read", saved' = NoQuery
               PROVE  /\ execution'[q] = "succeeded"
                      /\ cache'[q].rows = FlattenSeq(result'[q].pages)
                      /\ result'[q].altered \subseteq {1}
                      /\ \A i \in DOMAIN result'[q].next :
                            result'[q].next[i]
                              = (IF i = Len(result'[q].next) THEN 0 ELSE i + 1)
    BY DEF HistoriesAreWhole
  <2>1. result' = result /\ saved = NoQuery
    BY DEF Next, Agent, Done, NotRequested, Invalid, Limited, Conclude, Finish, Replay,
           Mismatch, Start, PollSucceeded, PollFailed, PollTimeout, Late, Page,
           StartFails, CallFails, Tick, Execute, End, athena, batch, vars
  <2>2. CASE cache'[q] = cache[q]
    <3>1. q \in Cached /\ execution[q] = "succeeded"
      BY <2>1, <2>2 DEF HistoriesAreWhole, Cached
    <3>2. execution'[q] = "succeeded"
      BY <3>1, CachedIsOver
    <3> QED  BY <2>1, <2>2, <3>2 DEF HistoriesAreWhole
  <2>3. CASE cache'[q] # cache[q]
    <3>1. /\ Page /\ q = reading /\ reading # NoQuery /\ ~ InvalidPage /\ Token = 0
          /\ cache'[q].rows = NewRows
      BY <2>1, <2>3, HistoryIsKept
    <3>2. execution'[q] = "succeeded"
      BY <3>1 DEF Page, IInv, Stopped
    <3> DEFINE r == result[q]
    <3>3. r \in Result /\ InOrder(r, page, seen, rows) /\ ~ (page \in r.altered /\ seen # {})
      BY <3>1 DEF ReadsInOrder, Repeats, Token, InvalidPage
    <3>4. r.next[page] = 0 /\ NewRows = rows \o r.pages[page]
      BY <3>1 DEF Token, NewRows
    <3> HIDE DEF r
    <3>5. /\ NewRows = FlattenSeq(r.pages) /\ r.altered \subseteq {1}
          /\ \A i \in DOMAIN r.next : r.next[i] = (IF i = Len(r.next) THEN 0 ELSE i + 1)
      BY <3>3, <3>4, PageAdds
    <3> QED  BY <2>1, <3>1, <3>2, <3>5 DEF r
  <2> QED  BY <2>2, <2>3
<1> QED  BY <1>1, <1>2, ReadsInOrderStep, AgentInvariant, PTL DEF Spec
=============================================================================
