------------------------ MODULE AssuredAnalystProofs ------------------------
(***************************************************************************)
(* Why the evidence, the answer and the counts of the assured analyst can  *)
(* be trusted, for every table, window, alert and limit.                   *)
(*                                                                         *)
(* The state is simple (AnalystInv): rows come only before a report is     *)
(* stored, a report is what was computed from that table, or that with its *)
(* totals edited, and an answer was formed from evidence that was checked. *)
(* The rest is about the computation.  The rows a window counts are a      *)
(* partition of it by day, category, group and status, and a sum over the  *)
(* days of the sizes of the classes is the size of what they partition     *)
(* (CountByClass of InductionLemmas).  Hence every extract reconciles,     *)
(* every report that was not edited is accepted as evidence, and one whose *)
(* totals were edited is not: what passes is true of the table.            *)
(***************************************************************************)
EXTENDS AssuredAnalyst, InductionLemmas

-----------------------------------------------------------------------------
(* The diagnostic query, for any finite set of CDC rows *)

Days(rows, q) == {r.day : r \in Window(rows, q)}
\* The rows of category c in the window.
Sorted(rows, q, c) == {r \in Window(rows, q) : Category(Window(rows, q), r) = c}

LEMMA WindowIsFinite ==
    ASSUME NEW rows \in SUBSET Row, IsFiniteSet(rows), NEW q \in HistoryQuery
    PROVE  /\ Window(rows, q) \in SUBSET Row /\ IsFiniteSet(Window(rows, q))
           /\ IsFiniteSet(Days(rows, q))
           /\ q.from \in Int /\ q.to \in Int /\ q.from <= q.to
           /\ \A d \in Days(rows, q) : d \in Int /\ q.from <= d /\ d <= q.to
<1>1. Window(rows, q) \in SUBSET rows
    BY DEF Window
<1>2. Window(rows, q) \in SUBSET Row /\ IsFiniteSet(Window(rows, q))
    BY <1>1, FS_Subset
<1>3. q.from \in Int /\ q.to \in Int /\ q.from <= q.to
    BY OrderAssumption DEF HistoryQuery
<1>4. \A d \in Days(rows, q) : d \in Int /\ q.from <= d /\ d <= q.to
    <2>1. \A r \in Window(rows, q) : r.day \in Day /\ q.from <= r.day /\ r.day <= q.to
        BY <1>2 DEF Window, Row
    <2>2. QED
        BY <2>1, OrderAssumption DEF Days
<1>5. IsFiniteSet(q.from..q.to) /\ Days(rows, q) \in SUBSET (q.from..q.to)
    BY <1>3, <1>4, FS_Interval
<1>6. IsFiniteSet(Days(rows, q))
    BY <1>5, FS_Subset
<1>7. QED
    BY <1>2, <1>3, <1>4, <1>6

\* f counts the rows of T on each day of K.
CountsDays(f, T, K) == \A d \in K : f[d] = Cardinality({r \in T : r.day = d})

\* What is counted day by day is counted once.
LEMMA CountByDay ==
    ASSUME NEW rows \in SUBSET Row, IsFiniteSet(rows), NEW q \in HistoryQuery,
           NEW T \in SUBSET Window(rows, q), NEW f,
           CountsDays(f, T, Days(rows, q))
    PROVE  SumFunctionOnSet(f, Days(rows, q)) = Cardinality(T)
<1> DEFINE K == Days(rows, q)
           day == [r \in T |-> r.day]
<1>1. IsFiniteSet(T) /\ IsFiniteSet(K)
    BY WindowIsFinite, FS_Subset
<1>2. \A r \in T : day[r] \in K
    BY DEF Days
<1>3. \A d \in K : f[d] = Cardinality({r \in T : day[r] = d})
    <2>1. \A d : {r \in T : day[r] = d} = {r \in T : r.day = d}
        OBVIOUS
    <2>2. QED
        BY <2>1 DEF CountsDays
<1> HIDE DEF day, K
<1>4. CountsClasses(f, T, K, day)
    BY <1>2, <1>3 DEF CountsClasses
<1>5. SumFunctionOnSet(f, K) = Cardinality(T)
    BY <1>1, <1>4, CountByClass
<1>6. QED
    BY <1>5 DEF K

\* A result row of the query, field by field.
Seen(rows, q, d) == {r \in Window(rows, q) : r.day = d}
SortedOn(rows, q, d, c) == {r \in Sorted(rows, q, c) : r.day = d}
Chosen(rows, q, d, g, s) ==
    {r \in Sorted(rows, q, "current") : r.day = d /\ r.group = g /\ r.status = s}

LEMMA ExtractFields ==
    ASSUME NEW rows, NEW q, NEW d \in Days(rows, q)
    PROVE  /\ Extract(rows, q)[d].source = Cardinality(Seen(rows, q, d))
           /\ DOMAIN Extract(rows, q)[d].rows = Categories
           /\ \A c \in Categories :
                Extract(rows, q)[d].rows[c] = Cardinality(SortedOn(rows, q, d, c))
           /\ \A g \in Groups : DOMAIN Extract(rows, q)[d].operations[g] = Status
           /\ \A g \in Groups, s \in Status :
                Extract(rows, q)[d].operations[g][s] = Cardinality(Chosen(rows, q, d, g, s))
<1> DEFINE seen == Window(rows, q)
           On(c) == {r \in seen : r.day = d /\ Category(seen, r) = c}
           Of(g, s) == {r \in On("current") : r.group = g /\ r.status = s}
<1>1. /\ Extract(rows, q)[d].source = Cardinality(Seen(rows, q, d))
      /\ Extract(rows, q)[d].rows = [c \in Categories |-> Cardinality(On(c))]
      /\ Extract(rows, q)[d].operations =
         [g \in Groups |-> [s \in Status |-> Cardinality(Of(g, s))]]
    BY DEF Extract, Days, Seen
<1>2. \A c : On(c) = SortedOn(rows, q, d, c)
    BY DEF Sorted, SortedOn
<1>3. \A g, s : Of(g, s) = Chosen(rows, q, d, g, s)
    BY DEF Chosen, Sorted
<1> HIDE DEF On, Of
<1>4. QED
    BY <1>1, <1>2, <1>3

LEMMA FiniteKinds ==
    /\ IsFiniteSet(Categories) /\ IsFiniteSet(Groups) /\ IsFiniteSet(Status)
    /\ \A profile : IsFiniteSet(Selected(profile)) /\ Selected(profile) \subseteq Groups
<1>1. ASSUME NEW a, NEW b PROVE IsFiniteSet({a, b})
    <2>1. IsFiniteSet({a} \cup {b})
        BY FS_Singleton, FS_AddElement
    <2>2. {a} \cup {b} = {a, b}
        OBVIOUS
    <2>3. QED
        BY <2>1, <2>2
<1>2. ASSUME NEW a, NEW b, NEW c PROVE IsFiniteSet({a, b, c})
    <2>1. IsFiniteSet({a, b} \cup {c})
        BY <1>1, FS_AddElement
    <2>2. {a, b} \cup {c} = {a, b, c}
        OBVIOUS
    <2>3. QED
        BY <2>1, <2>2
<1>3. ASSUME NEW a, NEW b, NEW c, NEW d PROVE IsFiniteSet({a, b, c, d})
    <2>1. IsFiniteSet({a, b, c} \cup {d})
        BY <1>2, FS_AddElement
    <2>2. {a, b, c} \cup {d} = {a, b, c, d}
        OBVIOUS
    <2>3. QED
        BY <2>1, <2>2
<1>4. IsFiniteSet(Categories) /\ IsFiniteSet(Groups) /\ IsFiniteSet(Status)
    BY <1>2, <1>3 DEF Categories, Groups, Status
<1>5. ASSUME NEW profile
      PROVE  IsFiniteSet(Selected(profile)) /\ Selected(profile) \subseteq Groups
    BY <1>1, FS_Singleton DEF Selected, Groups
<1>6. QED
    BY <1>4, <1>5

\* The figures a day gives for a status of a profile are its current rows.
LEMMA DayCount ==
    ASSUME NEW rows \in SUBSET Row, IsFiniteSet(rows), NEW q \in HistoryQuery,
           NEW d \in Days(rows, q), NEW profile, NEW s \in Status
    PROVE  Count(Extract(rows, q)[d], profile, s) =
             Cardinality({r \in Sorted(rows, q, "current") :
                r.day = d /\ r.group \in Selected(profile) /\ r.status = s})
<1> DEFINE K == Selected(profile)
           T == {r \in Sorted(rows, q, "current") :
                    r.day = d /\ r.group \in K /\ r.status = s}
           group == [r \in T |-> r.group]
           f == [g \in K |-> Extract(rows, q)[d].operations[g][s]]
<1>1. IsFiniteSet(T)
    <2>1. T \in SUBSET Window(rows, q)
        BY DEF Sorted
    <2>2. QED
        BY <2>1, WindowIsFinite, FS_Subset
<1>2. IsFiniteSet(K) /\ K \subseteq Groups
    BY FiniteKinds
<1>3. \A g \in K : f[g] = Cardinality({r \in T : group[r] = g})
    <2> SUFFICES ASSUME NEW g \in K
                 PROVE  f[g] = Cardinality({r \in T : group[r] = g})
        OBVIOUS
    <2>1. f[g] = Cardinality(Chosen(rows, q, d, g, s))
        BY <1>2, ExtractFields
    <2>2. {r \in T : group[r] = g} = Chosen(rows, q, d, g, s)
        BY DEF Chosen
    <2>3. QED
        BY <2>1, <2>2
<1>4. \A r \in T : group[r] \in K
    OBVIOUS
<1>5. CountsClasses(f, T, K, group)
    <2> HIDE DEF f, T, K, group
    <2>1. QED
        BY <1>3, <1>4 DEF CountsClasses
<1>6. SumFunctionOnSet(f, K) = Cardinality(T)
    <2> HIDE DEF f, T, K, group
    <2>1. QED
        BY <1>1, <1>2, <1>5, CountByClass
<1>7. Count(Extract(rows, q)[d], profile, s) = SumFunctionOnSet(f, K)
    <2>1. Count(Extract(rows, q)[d], profile, s) = SumFunction(f)
        BY DEF Count
    <2>2. DOMAIN f = K
        OBVIOUS
    <2> HIDE DEF f, K
    <2>3. QED
        BY <2>1, <2>2 DEF SumFunction
<1>8. QED
    BY <1>6, <1>7

\* Whatever the rows are, the query's result reconciles.
LEMMA ExtractReconciles ==
    ASSUME NEW rows \in SUBSET Row, IsFiniteSet(rows), NEW q \in HistoryQuery
    PROVE  Reconciled(Extract(rows, q), q)
<1>1. DOMAIN Extract(rows, q) = Days(rows, q)
    BY DEF Extract, Days
<1> SUFFICES ASSUME NEW d \in Days(rows, q)
             PROVE  LET day == Extract(rows, q)[d]
                    IN  /\ q.from <= d /\ d <= q.to
                        /\ day.source # 0
                        /\ day.source = SumFunction(day.rows)
                        /\ day.rows["current"] = Operations(day, Groups)
    BY <1>1, Zenon DEF Reconciled
<1> DEFINE day == Extract(rows, q)[d]
           seen == Window(rows, q)
           On == {r \in seen : r.day = d}
           Current == {r \in Sorted(rows, q, "current") : r.day = d}
<1>2. IsFiniteSet(seen) /\ On \in SUBSET seen /\ Current \in SUBSET seen
    BY WindowIsFinite DEF Sorted
<1>3. IsFiniteSet(On) /\ IsFiniteSet(Current)
    BY <1>2, FS_Subset
<1>4. day.source = Cardinality(On) /\ day.source # 0
    <2>1. On # {}
        BY DEF Days
    <2>2. Cardinality(On) # 0
        <3> HIDE DEF On
        <3>1. QED
            BY <1>3, <2>1, FS_EmptySet
    <2>3. QED
        BY <2>2, ExtractFields DEF Seen
<1>5. Cardinality(On) = SumFunction(day.rows)
    <2> DEFINE class == [r \in On |-> Category(seen, r)]
    <2>1. \A r \in On : class[r] \in Categories
        BY DEF Category, Categories
    <2>2. \A c \in Categories : day.rows[c] = Cardinality({r \in On : class[r] = c})
        <3> SUFFICES ASSUME NEW c \in Categories
                     PROVE  day.rows[c] = Cardinality({r \in On : class[r] = c})
            OBVIOUS
        <3>1. day.rows[c] = Cardinality(SortedOn(rows, q, d, c))
            BY ExtractFields
        <3>2. {r \in On : class[r] = c} = SortedOn(rows, q, d, c)
            BY DEF SortedOn, Sorted
        <3>3. QED
            BY <3>1, <3>2
    <2>3. DOMAIN day.rows = Categories
        BY ExtractFields
    <2> HIDE DEF day, On, class
    <2>4. CountsClasses(day.rows, On, Categories, class)
        BY <2>1, <2>2 DEF CountsClasses
    <2>5. QED
        BY <1>3, <2>3, <2>4, FiniteKinds, CountByClass DEF SumFunction
<1>6. day.rows["current"] = Operations(day, Groups)
    <2> DEFINE Of(g) == {r \in Current : r.group = g}
               f == [g \in Groups |-> SumFunction(day.operations[g])]
               group == [r \in Current |-> r.group]
    <2>1. ASSUME NEW g \in Groups PROVE f[g] = Cardinality(Of(g))
        <3> DEFINE status == [r \in Of(g) |-> r.status]
                   h == day.operations[g]
        <3>1. f[g] = SumFunction(h)
            OBVIOUS
        <3>2. DOMAIN h = Status
            BY ExtractFields
        <3>3. \A s \in Status : h[s] = Cardinality({r \in Of(g) : status[r] = s})
            <4> SUFFICES ASSUME NEW s \in Status
                         PROVE  h[s] = Cardinality({r \in Of(g) : status[r] = s})
                OBVIOUS
            <4>1. h[s] = Cardinality(Chosen(rows, q, d, g, s))
                BY ExtractFields
            <4>2. {r \in Of(g) : status[r] = s} = Chosen(rows, q, d, g, s)
                BY DEF Chosen
            <4>3. QED
                BY <4>1, <4>2
        <3>4. \A r \in Of(g) : status[r] \in Status
            <4>1. \A r \in seen : r.status \in Status
                BY WindowIsFinite DEF Row
            <4>2. QED
                BY <1>2, <4>1
        <3>5. IsFiniteSet(Of(g))
            <4>1. Of(g) \in SUBSET Current
                OBVIOUS
            <4> HIDE DEF Of, Current
            <4>2. QED
                BY <1>3, <4>1, FS_Subset
        <3> HIDE DEF h, status, Of, f
        <3>6. CountsClasses(h, Of(g), Status, status)
            BY <3>3, <3>4 DEF CountsClasses
        <3>7. QED
            BY <3>1, <3>2, <3>5, <3>6, FiniteKinds, CountByClass DEF SumFunction
    <2>2. \A r \in Current : group[r] \in Groups
        <3>1. \A r \in seen : r.group \in Groups
            BY WindowIsFinite DEF Row
        <3>2. QED
            BY <1>2, <3>1
    <2>3. \A g : {r \in Current : group[r] = g} = Of(g)
        OBVIOUS
    <2>4. Operations(day, Groups) = SumFunction(f) /\ DOMAIN f = Groups
        BY DEF Operations
    <2>5. day.rows["current"] = Cardinality(Current)
        <3>1. day.rows["current"] = Cardinality(SortedOn(rows, q, d, "current"))
            BY ExtractFields DEF Categories
        <3>2. QED
            BY <3>1 DEF SortedOn
    <2> HIDE DEF day, Current, f, group, Of
    <2>6. CountsClasses(f, Current, Groups, group)
        BY <2>1, <2>2, <2>3 DEF CountsClasses
    <2>7. QED
        BY <1>3, <2>4, <2>5, <2>6, FiniteKinds, CountByClass DEF SumFunction
<1>7. QED
    BY <1>4, <1>5, <1>6, WindowIsFinite, Zenon

\* The current rows a profile looks at, of one status.
Scope(rows, q, profile, s) ==
    {r \in Sorted(rows, q, "current") : r.group \in Selected(profile) /\ r.status = s}

LEMMA DayCountType ==
    ASSUME NEW rows \in SUBSET Row, IsFiniteSet(rows), NEW q \in HistoryQuery,
           NEW d \in Days(rows, q), NEW profile, NEW s \in Status
    PROVE  Count(Extract(rows, q)[d], profile, s) \in Nat
<1> DEFINE T == {r \in Sorted(rows, q, "current") :
                    r.day = d /\ r.group \in Selected(profile) /\ r.status = s}
<1>1. T \in SUBSET Window(rows, q)
    BY DEF Sorted
<1>2. Count(Extract(rows, q)[d], profile, s) = Cardinality(T)
    BY DayCount
<1> HIDE DEF T
<1>3. Cardinality(T) \in Nat
    BY <1>1, WindowIsFinite, FS_Subset, FS_CardinalityType
<1>4. QED
    BY <1>2, <1>3

LEMMA CountTotal ==
    ASSUME NEW rows \in SUBSET Row, IsFiniteSet(rows), NEW q \in HistoryQuery,
           NEW profile, NEW s \in Status,
           NEW f, \A d \in Days(rows, q) : f[d] = Count(Extract(rows, q)[d], profile, s)
    PROVE  SumFunctionOnSet(f, Days(rows, q)) = Cardinality(Scope(rows, q, profile, s))
<1> DEFINE T == Scope(rows, q, profile, s)
<1>1. T \in SUBSET Window(rows, q)
    BY DEF Sorted, Scope
<1>2. ASSUME NEW d \in Days(rows, q) PROVE f[d] = Cardinality({r \in T : r.day = d})
    <2>1. {r \in T : r.day = d} = {r \in Sorted(rows, q, "current") :
                r.day = d /\ r.group \in Selected(profile) /\ r.status = s}
        BY DEF Scope
    <2>2. QED
        BY <2>1, DayCount
<1>3. CountsDays(f, T, Days(rows, q))
    BY <1>2 DEF CountsDays
<1> HIDE DEF T
<1>4. SumFunctionOnSet(f, Days(rows, q)) = Cardinality(T)
    BY <1>1, <1>3, CountByDay
<1>5. QED
    BY <1>4 DEF T

\* Leaving out the days without results leaves the totals of a profile alone.
LEMMA RateTotal ==
    ASSUME NEW rows \in SUBSET Row, IsFiniteSet(rows), NEW q \in HistoryQuery, NEW profile
    PROVE  LET daily == Daily(Extract(rows, q), profile)
               approved == Cardinality(Scope(rows, q, profile, "approved"))
               declined == Cardinality(Scope(rows, q, profile, "declined"))
           IN  Rate(daily, DOMAIN daily) = <<approved, approved + declined>>
<1> DEFINE daily == Daily(Extract(rows, q), profile)
           days == DOMAIN daily
           K == Days(rows, q)
           count(s) == [d \in K |-> Count(Extract(rows, q)[d], profile, s)]
<1>1. DOMAIN Extract(rows, q) = K /\ IsFiniteSet(K)
    BY WindowIsFinite DEF Extract, Days
<1>2. "approved" \in Status /\ "declined" \in Status
    BY DEF Status
<1>3. /\ days \in SUBSET K
      /\ \A d \in days : /\ daily[d].approved = count("approved")[d]
                         /\ daily[d].declined = count("declined")[d]
      /\ \A d \in K \ days : count("approved")[d] + count("declined")[d] = 0
    BY <1>1 DEF Daily
<1>4. \A s \in Status : \A d \in K : count(s)[d] \in Nat /\ count(s)[d] \in Int
    BY DayCountType
<1>5. \A s \in Status : SumFunctionOnSet(count(s), K) = Cardinality(Scope(rows, q, profile, s))
    BY CountTotal
<1> DEFINE a == [d \in days |-> daily[d].approved]
           b == [d \in days |-> daily[d].declined]
<1>6. /\ \A d \in days : a[d] = count("approved")[d] /\ a[d] \in Int
      /\ \A d \in days : b[d] = count("declined")[d] /\ b[d] \in Int
      /\ DOMAIN a = days /\ DOMAIN b = days
    <2> HIDE DEF daily, count, K
    <2>1. QED
        BY <1>2, <1>3, <1>4
<1>7. Rate(daily, days) = <<SumFunction(a), SumFunction(a) + SumFunction(b)>>
    BY DEF Rate
<1> HIDE DEF a, b, daily, days, count, K
<1>8. \A d \in K \ days : count("approved")[d] = 0 /\ count("declined")[d] = 0
    BY <1>2, <1>3, <1>4
<1>9. IsFiniteSet(days)
    BY <1>1, <1>3, FS_Subset
<1>10. SumFunctionOnSet(a, days) = Cardinality(Scope(rows, q, profile, "approved"))
    <2>1. SumFunctionOnSet(a, days) = SumFunctionOnSet(count("approved"), days)
        BY <1>6, <1>9, SumSame
    <2>2. SumFunctionOnSet(count("approved"), K) = SumFunctionOnSet(count("approved"), days)
        BY <1>1, <1>2, <1>3, <1>4, <1>8, SumWithin
    <2>3. QED
        BY <1>2, <1>5, <2>1, <2>2
<1>11. SumFunctionOnSet(b, days) = Cardinality(Scope(rows, q, profile, "declined"))
    <2>1. SumFunctionOnSet(b, days) = SumFunctionOnSet(count("declined"), days)
        BY <1>6, <1>9, SumSame
    <2>2. SumFunctionOnSet(count("declined"), K) = SumFunctionOnSet(count("declined"), days)
        BY <1>1, <1>2, <1>3, <1>4, <1>8, SumWithin
    <2>3. QED
        BY <1>2, <1>5, <2>1, <2>2
<1>12. QED
    BY <1>6, <1>7, <1>10, <1>11 DEF SumFunction, daily, days

\* Some version in a finite set of rows comes last.
LEMMA LastVersion ==
    ASSUME NEW V \in SUBSET Row, IsFiniteSet(V), V # {}
    PROVE  \E r \in V : \A s \in V : s.time <= r.time
<1> DEFINE Good == {A \in SUBSET V : A = {} \/ \E r \in A : \A s \in A : s.time <= r.time}
<1>1. \A r \in V : r.time \in Int
    BY OrderAssumption DEF Row
<1>2. {} \in Good
    OBVIOUS
<1>3. ASSUME NEW A \in SUBSET V, NEW x \in V, A \in Good, x \notin A
      PROVE  A \cup {x} \in Good
    <2>1. CASE A = {}
        BY <1>1, <2>1
    <2>2. CASE A # {}
        <3>1. PICK r \in A : \A s \in A : s.time <= r.time
            BY <1>3, <2>2
        <3>2. CASE x.time <= r.time
            BY <3>1, <3>2
        <3>3. CASE ~ (x.time <= r.time)
            <4>1. \A s \in A \cup {x} : s.time <= x.time
                BY <1>1, <3>1, <3>3
            <4>2. QED
                BY <4>1
        <3>4. QED
            BY <3>2, <3>3
    <2>3. QED
        BY <2>1, <2>2
<1> HIDE DEF Good
<1>4. V \in Good
    BY <1>2, <1>3, FiniteSetInduction
<1>5. QED
    BY <1>4 DEF Good

\* Every transaction of the window has one latest version, current or deleted.
LEMMA KeysCounted ==
    ASSUME NEW rows \in SUBSET Row, IsFiniteSet(rows), NEW q \in HistoryQuery,
           \A r, s \in rows : r.time = s.time => r = s
    PROVE  Cardinality(Sorted(rows, q, "current")) + Cardinality(Sorted(rows, q, "deleted"))
             = Cardinality({r.code : r \in Window(rows, q)} \ {NoCode})
<1> DEFINE seen == Window(rows, q)
           codes == {r.code : r \in seen} \ {NoCode}
           Current == Sorted(rows, q, "current")
           Deleted == Sorted(rows, q, "deleted")
           code == [r \in Current \cup Deleted |-> r.code]
<1>1. /\ seen \in SUBSET Row /\ IsFiniteSet(seen)
      /\ \A r, s \in seen : r.time = s.time => r = s
      /\ \A r \in seen : r.time \in Int
    <2>1. seen \in SUBSET Row /\ IsFiniteSet(seen)
        BY WindowIsFinite
    <2>2. \A r \in seen : r.time \in Int
        BY <2>1, OrderAssumption DEF Row
    <2>3. QED
        BY <2>1, <2>2 DEF Window
<1>2. /\ Current \in SUBSET seen /\ Deleted \in SUBSET seen
      /\ \A r \in seen : r \in Current \cup Deleted <=> r.code # NoCode /\ Newest(seen, r)
      /\ Current \cap Deleted = {}
    BY DEF Sorted, Category
<1>3. IsFiniteSet(Current) /\ IsFiniteSet(Deleted)
    BY <1>1, <1>2, FS_Subset
<1>4. Cardinality(Current \cup Deleted) = Cardinality(Current) + Cardinality(Deleted)
    <2> HIDE DEF Current, Deleted
    <2>1. Cardinality(Current \cap Deleted) = 0
        BY <1>2, FS_EmptySet
    <2>2. Cardinality(Current) \in Nat /\ Cardinality(Deleted) \in Nat
        BY <1>3, FS_CardinalityType
    <2>3. Cardinality(Current \cup Deleted) =
            Cardinality(Current) + Cardinality(Deleted) - Cardinality(Current \cap Deleted)
        BY <1>3, FS_Union
    <2>4. QED
        BY <2>1, <2>2, <2>3
<1>5. \A r, s \in Current \cup Deleted : r.code = s.code => r = s
    <2> HIDE DEF Current, Deleted, seen
    <2>1. SUFFICES ASSUME NEW r \in Current \cup Deleted, NEW s \in Current \cup Deleted,
                          r.code = s.code
                   PROVE  r = s
        OBVIOUS
    <2>2. r \in seen /\ s \in seen /\ Newest(seen, r) /\ Newest(seen, s)
        BY <1>2
    <2>3. ~ (r.time > s.time) /\ ~ (s.time > r.time)
        BY <2>1, <2>2 DEF Newest
    <2>4. QED
        BY <1>1, <2>2, <2>3
<1>6. ASSUME NEW c \in codes PROVE \E r \in Current \cup Deleted : r.code = c
    <2> DEFINE V == {r \in seen : r.code = c}
    <2>1. V # {} /\ V \in SUBSET seen
        OBVIOUS
    <2>2. V \in SUBSET Row /\ IsFiniteSet(V)
        BY <1>1, <2>1, FS_Subset
    <2> HIDE DEF V
    <2>3. PICK r \in V : \A s \in V : s.time <= r.time
        BY <2>1, <2>2, LastVersion
    <2> HIDE DEF seen, Current, Deleted
    <2>4. r \in seen /\ r.code = c /\ c # NoCode
        BY <2>3 DEF V
    <2>5. Newest(seen, r)
        <3>1. \A s \in seen : s.code = r.code => s.time <= r.time
            BY <2>3, <2>4 DEF V
        <3>2. QED
            BY <1>1, <2>4, <3>1 DEF Newest
    <2>6. QED
        BY <1>2, <2>4, <2>5
<1>7. \A r \in Current \cup Deleted : r.code \in codes
    BY <1>2
<1>8. code \in Bijection(Current \cup Deleted, codes)
    <2> HIDE DEF Current, Deleted, codes
    <2>1. code \in [Current \cup Deleted -> codes]
        BY <1>7
    <2>2. code \in Injection(Current \cup Deleted, codes)
        BY <1>5, <2>1 DEF Injection, IsInjective
    <2>3. code \in Surjection(Current \cup Deleted, codes)
        BY <1>6, <2>1 DEF Surjection
    <2>4. QED
        BY <2>2, <2>3 DEF Bijection
<1>9. IsFiniteSet(Current \cup Deleted)
    BY <1>3, FS_Union
<1>10. Cardinality(codes) = Cardinality(Current \cup Deleted)
    <2> HIDE DEF Current, Deleted, codes, code
    <2>1. ExistsBijection(Current \cup Deleted, codes)
        BY <1>8 DEF ExistsBijection
    <2>2. QED
        BY <1>9, <2>1, FS_Bijection
<1>11. QED
    BY <1>4, <1>10

\* A row is current exactly when it is the last word on its transaction.
LEMMA CurrentIsFinal ==
    ASSUME table \in SUBSET Row, NEW q \in HistoryQuery
    PROVE  Final(q) = Sorted(table, q, "current")
<1>1. \A r \in Window(table, q) : r.time \in Int
    BY OrderAssumption DEF Window, Row
<1>2. \A r \in Window(table, q) :
        (\A s \in Window(table, q) : s.code = r.code => s.time <= r.time)
            <=> Newest(Window(table, q), r)
    BY <1>1 DEF Newest
<1>3. \A r \in Window(table, q) : r.deleted \in BOOLEAN
    BY DEF Window, Row
<1>4. QED
    BY <1>2, <1>3 DEF Final, Sorted, Category

-----------------------------------------------------------------------------
(* The evidence *)

LEMMA DailyType ==
    ASSUME NEW rows \in SUBSET Row, IsFiniteSet(rows), NEW q \in HistoryQuery, NEW profile
    PROVE  LET daily == Daily(Extract(rows, q), profile)
           IN  /\ DOMAIN daily \in SUBSET Days(rows, q) /\ IsFiniteSet(DOMAIN daily)
               /\ \A d \in DOMAIN daily :
                    /\ daily[d].approved \in Nat /\ daily[d].declined \in Nat
                    /\ daily[d].approved + daily[d].declined # 0
<1>1. DOMAIN Extract(rows, q) = Days(rows, q) /\ IsFiniteSet(Days(rows, q))
    BY WindowIsFinite DEF Extract, Days
<1>2. "approved" \in Status /\ "declined" \in Status
    BY DEF Status
<1>3. \A d \in Days(rows, q) : /\ Count(Extract(rows, q)[d], profile, "approved") \in Nat
                              /\ Count(Extract(rows, q)[d], profile, "declined") \in Nat
    BY <1>2, DayCountType
<1> DEFINE daily == Daily(Extract(rows, q), profile)
<1>4. DOMAIN daily \in SUBSET Days(rows, q)
    BY <1>1 DEF Daily
<1>5. \A d \in DOMAIN daily :
        /\ daily[d].approved = Count(Extract(rows, q)[d], profile, "approved")
        /\ daily[d].declined = Count(Extract(rows, q)[d], profile, "declined")
        /\ daily[d].approved + daily[d].declined # 0
    BY <1>1 DEF Daily
<1> HIDE DEF daily
<1>6. IsFiniteSet(DOMAIN daily)
    BY <1>1, <1>4, FS_Subset
<1>7. QED
    BY <1>3, <1>4, <1>5, <1>6 DEF daily

\* Counting the days from the first of the range changes no rate.
LEMMA RateShifted ==
    ASSUME NEW daily, NEW D, IsFiniteSet(D), NEW from \in Int,
           \A d \in D : d \in Int /\ daily[d].approved \in Nat /\ daily[d].declined \in Nat,
           NEW moved, NEW I, I = {d - from : d \in D},
           \A d \in D : moved[d - from] = daily[d]
    PROVE  Rate(moved, I) = Rate(daily, D)
<1> DEFINE a == [d \in D |-> daily[d].approved]
           b == [d \in D |-> daily[d].declined]
           ma == [i \in I |-> moved[i].approved]
           mb == [i \in I |-> moved[i].declined]
           name == [d \in D |-> d - from]
<1>1. /\ \A d \in D : name[d] \in I /\ ma[name[d]] = a[d] /\ mb[name[d]] = b[d]
      /\ \A d, e \in D : name[d] = name[e] => d = e
      /\ \A i \in I : \E d \in D : name[d] = i
      /\ \A d \in D : a[d] \in Int /\ b[d] \in Int
    OBVIOUS
<1>2. /\ Rate(daily, D) = <<SumFunction(a), SumFunction(a) + SumFunction(b)>>
      /\ Rate(moved, I) = <<SumFunction(ma), SumFunction(ma) + SumFunction(mb)>>
    BY DEF Rate
<1>3. DOMAIN a = D /\ DOMAIN b = D /\ DOMAIN ma = I /\ DOMAIN mb = I
    OBVIOUS
<1> HIDE DEF a, b, ma, mb, name
<1>4. SumFunctionOnSet(ma, I) = SumFunctionOnSet(a, D)
    <2>1. Renames(name, a, D, ma, I)
        BY <1>1 DEF Renames
    <2>2. QED
        BY <1>1, <2>1, SumRenamed
<1>5. SumFunctionOnSet(mb, I) = SumFunctionOnSet(b, D)
    <2>1. Renames(name, b, D, mb, I)
        BY <1>1 DEF Renames
    <2>2. QED
        BY <1>1, <2>1, SumRenamed
<1>6. QED
    BY <1>2, <1>3, <1>4, <1>5 DEF SumFunction

\* Both programs halve a range alike.
LEMMA HalvesAgree ==
    ASSUME NEW q \in HistoryQuery, NEW d \in Int
    PROVE  d < Midpoint(q) <=> d - q.from < (q.to - q.from + 1) \div 2
<1>1. q.from \in Int /\ q.to \in Int
    BY OrderAssumption DEF HistoryQuery
<1>2. (q.to - q.from + 1) \div 2 \in Int
    BY <1>1
<1>3. QED
    BY <1>1, <1>2 DEF Midpoint

\* A report that is as it was written passes as evidence if it has results.
LEMMA WrittenIsEvidence ==
    ASSUME NEW rows \in SUBSET Row, IsFiniteSet(rows), NEW q \in HistoryQuery, NEW profile,
           NEW r, r = Summarize(Extract(rows, q), q, profile), DOMAIN r.daily # {}
    PROVE  /\ EvidenceOK(Evidence(r))
           /\ Rate(Evidence(r).daily, DOMAIN Evidence(r).daily) = r.metrics
<1> DEFINE daily == Daily(Extract(rows, q), profile)
           days == DOMAIN daily
           e == Evidence(r)
           index == {d - q.from : d \in days}
           First == {d \in days : d < Midpoint(q)}
           Second == {d \in days : d >= Midpoint(q)}
           half == (q.to - q.from + 1) \div 2
<1>1. /\ r.query = q /\ r.daily = daily
      /\ r.metrics = Rate(daily, days)
      /\ r.first = Rate(daily, First) /\ r.second = Rate(daily, Second)
    BY DEF Summarize
<1>2. /\ e.daily = [i \in index |-> daily[i + q.from]]
      /\ e.requested = q.to - q.from + 1
      /\ e.observed = Cardinality(days)
      /\ e.total = Rate(daily, days)[2]
      /\ e.first = Rate(daily, First) /\ e.second = Rate(daily, Second)
    BY <1>1 DEF Evidence
<1>3. /\ q.from \in Int /\ q.to \in Int /\ q.from <= q.to
      /\ \A d \in Days(rows, q) : d \in Int /\ q.from <= d /\ d <= q.to
    BY WindowIsFinite
<1>4. /\ days \in SUBSET Days(rows, q) /\ IsFiniteSet(days)
      /\ \A d \in days : daily[d].approved \in Nat /\ daily[d].declined \in Nat
    BY DailyType
<1> HIDE DEF daily, days, e
<1>5. \A d \in days : d \in Int /\ q.from <= d /\ d <= q.to /\ (d - q.from) + q.from = d
    BY <1>3, <1>4
<1>6. \A d \in days : d - q.from \in index /\ e.daily[d - q.from] = daily[d]
    BY <1>2, <1>5
<1>7. index # {} /\ index \subseteq 0..e.requested - 1 /\ DOMAIN e.daily = index
    <2>1. days # {}
        BY <1>1 DEF days
    <2>2. QED
        BY <1>2, <1>3, <1>5, <2>1
<1>8. Cardinality(index) = e.observed
    <2> DEFINE name == [d \in days |-> d - q.from]
    <2>1. name \in Bijection(days, index)
        <3>1. name \in [days -> index]
            OBVIOUS
        <3>2. name \in Injection(days, index)
            BY <1>3, <1>5, <3>1 DEF Injection, IsInjective
        <3>3. name \in Surjection(days, index)
            BY <3>1 DEF Surjection
        <3>4. QED
            BY <3>2, <3>3 DEF Bijection
    <2>2. ExistsBijection(days, index)
        BY <2>1 DEF ExistsBijection
    <2> HIDE DEF index
    <2>3. Cardinality(index) = Cardinality(days)
        BY <1>4, <2>2, FS_Bijection
    <2>4. QED
        BY <1>2, <2>3
<1>9. ASSUME NEW D \in SUBSET days
      PROVE  Rate(e.daily, {d - q.from : d \in D}) = Rate(daily, D)
    <2>1. IsFiniteSet(D)
        BY <1>4, FS_Subset
    <2>2. \A d \in D : d \in Int /\ daily[d].approved \in Nat /\ daily[d].declined \in Nat
        BY <1>4, <1>5
    <2>3. \A d \in D : e.daily[d - q.from] = daily[d]
        BY <1>6
    <2>4. QED
        BY <1>3, <2>1, <2>2, <2>3, RateShifted
<1>10. e.total = Rate(e.daily, index)[2]
    BY <1>2, <1>9
<1>11. /\ {i \in index : i < half} = {d - q.from : d \in First}
       /\ {i \in index : i >= half} = {d - q.from : d \in Second}
    <2>1. half \in Int /\ Midpoint(q) \in Int
        BY <1>3 DEF Midpoint
    <2>2. \A d \in days : d < Midpoint(q) <=> d - q.from < half
        BY <1>5, HalvesAgree
    <2>3. \A d \in days : d >= Midpoint(q) <=> d - q.from >= half
        BY <1>3, <1>5, <2>1, <2>2
    <2> HIDE DEF half
    <2>4. QED
        BY <2>2, <2>3
<1>12. /\ e.first = Rate(e.daily, {i \in index : i < half})
       /\ e.second = Rate(e.daily, {i \in index : i >= half})
    BY <1>2, <1>9, <1>11
<1>13. \A D : SameRate(Rate(daily, D), Rate(daily, D))
    BY DEF SameRate
<1>14. /\ SameRate(e.first, Rate(e.daily, {i \in index : i < half}))
       /\ SameRate(e.second, Rate(e.daily, {i \in index : i >= half}))
    BY <1>2, <1>12, <1>13
<1>15. half = e.requested \div 2
    BY <1>2
<1>16. Rate(e.daily, index) = r.metrics
    BY <1>1, <1>9 DEF days
<1> HIDE DEF index, half
<1>17. QED
    BY <1>7, <1>8, <1>10, <1>14, <1>15, <1>16 DEF EvidenceOK, e

\* What was written passes the check of the stored report.
LEMMA WrittenFields ==
    ASSUME NEW extract, NEW q, NEW profile
    PROVE  LET written == Summarize(extract, q, profile)
           IN  /\ written.query = q /\ written.profile = profile
               /\ written.diagnostic = extract /\ written.daily = Daily(extract, profile)
               /\ written.metrics = Rate(Daily(extract, profile), DOMAIN Daily(extract, profile))
BY DEF Summarize

LEMMA EditedFields ==
    ASSUME NEW extract, NEW q, NEW profile
    PROVE  LET written == Summarize(extract, q, profile)
           IN  /\ Edited(written).query = q /\ Edited(written).profile = profile
               /\ Edited(written).diagnostic = extract
               /\ Edited(written).daily = written.daily
BY DEF Summarize, Edited

-----------------------------------------------------------------------------
(* A version that arrives late *)

LEMMA LateVersionIsIgnored ==
    ASSUME NEW rows \in SUBSET Row, IsFiniteSet(rows), NEW r \in Row,
           NEW q \in HistoryQuery, NEW profile \in Profiles,
           NEW s \in Window(rows, q), s.code = r.code, s.code # NoCode, s.time > r.time
    PROVE  Daily(Extract(rows \cup {r}, q), profile) = Daily(Extract(rows, q), profile)
<1> DEFINE more == rows \cup {r}
<1>1. more \in SUBSET Row /\ IsFiniteSet(more)
    BY FS_AddElement
<1>2. CASE ~ (q.from <= r.day /\ r.day <= q.to)
    <2>1. Window(more, q) = Window(rows, q)
        BY <1>2 DEF Window
    <2> HIDE DEF more
    <2>2. Extract(more, q) = Extract(rows, q)
        BY <2>1 DEF Extract
    <2>3. QED
        BY <2>2 DEF more
<1>3. CASE q.from <= r.day /\ r.day <= q.to
    <2> DEFINE seen == Window(rows, q)
    <2>1. Window(more, q) = seen \cup {r}
        BY <1>3 DEF Window
    <2>2. \A x \in seen \cup {r} : x.time \in Int
        <3>1. \A x \in more : x.time \in Int
            BY <1>1, OrderAssumption DEF Row
        <3>2. QED
            BY <3>1, <2>1 DEF Window
    <2> HIDE DEF more, seen
    <2>3. \A x \in seen : Newest(seen \cup {r}, x) <=> Newest(seen, x)
        <3> SUFFICES ASSUME NEW x \in seen, r.code = x.code, r.time > x.time
                     PROVE  \E y \in seen : y.code = x.code /\ y.time > x.time
            BY DEF Newest
        <3>1. s \in seen /\ s.time > x.time
            BY <2>2 DEF seen
        <3>2. QED
            BY <3>1
    <2>4. ~ Newest(seen \cup {r}, r)
        BY DEF Newest, seen
    <2>5. Sorted(more, q, "current") = Sorted(rows, q, "current")
        <3>1. Sorted(more, q, "current") =
                {x \in seen \cup {r} : x.code # NoCode /\ Newest(seen \cup {r}, x) /\ ~ x.deleted}
            BY <2>1 DEF Sorted, Category
        <3>2. Sorted(rows, q, "current") =
                {x \in seen : x.code # NoCode /\ Newest(seen, x) /\ ~ x.deleted}
            BY DEF Sorted, Category, seen
        <3>3. QED
            BY <2>3, <2>4, <3>1, <3>2
    <2> DEFINE old(d, c) == Count(Extract(rows, q)[d], profile, c)
               new(d, c) == Count(Extract(more, q)[d], profile, c)
    <2>6. Days(rows, q) \subseteq Days(more, q)
        BY <2>1 DEF Days, seen
    <2>7. \A d \in Days(rows, q), c \in Status : new(d, c) = old(d, c)
        <3> SUFFICES ASSUME NEW d \in Days(rows, q), NEW c \in Status
                     PROVE  new(d, c) = old(d, c)
            OBVIOUS
        <3>1. d \in Days(more, q)
            BY <2>6
        <3>2. new(d, c) = Cardinality({x \in Sorted(more, q, "current") :
                    x.day = d /\ x.group \in Selected(profile) /\ x.status = c})
            BY <1>1, <3>1, DayCount
        <3>3. old(d, c) = Cardinality({x \in Sorted(rows, q, "current") :
                    x.day = d /\ x.group \in Selected(profile) /\ x.status = c})
            BY DayCount
        <3>4. QED
            BY <2>5, <3>2, <3>3
    <2>8. \A d \in Days(more, q) \ Days(rows, q), c \in Status : new(d, c) = 0
        <3> SUFFICES ASSUME NEW d \in Days(more, q) \ Days(rows, q), NEW c \in Status
                     PROVE  new(d, c) = 0
            OBVIOUS
        <3>1. new(d, c) = Cardinality({x \in Sorted(more, q, "current") :
                    x.day = d /\ x.group \in Selected(profile) /\ x.status = c})
            BY <1>1, DayCount
        <3>2. {x \in Sorted(more, q, "current") :
                    x.day = d /\ x.group \in Selected(profile) /\ x.status = c} = {}
            BY <2>5 DEF Sorted, Days
        <3>3. QED
            BY <3>1, <3>2, FS_EmptySet
    <2>9. /\ DOMAIN Extract(rows, q) = Days(rows, q)
          /\ DOMAIN Extract(more, q) = Days(more, q)
        BY DEF Extract, Days
    <2>10. "approved" \in Status /\ "declined" \in Status
        BY DEF Status
    <2> DEFINE Old == {d \in Days(rows, q) : old(d, "approved") + old(d, "declined") # 0}
               New == {d \in Days(more, q) : new(d, "approved") + new(d, "declined") # 0}
    <2>11. /\ Daily(Extract(rows, q), profile) =
                [d \in Old |-> [approved |-> old(d, "approved"), declined |-> old(d, "declined")]]
           /\ Daily(Extract(more, q), profile) =
                [d \in New |-> [approved |-> new(d, "approved"), declined |-> new(d, "declined")]]
        BY <2>9 DEF Daily
    <2>12. New = Old
        <3> HIDE DEF old, new
        <3>1. QED
            BY <2>6, <2>7, <2>8, <2>10
    <2>13. \A d \in Old : /\ new(d, "approved") = old(d, "approved")
                          /\ new(d, "declined") = old(d, "declined")
        BY <2>7, <2>10
    <2> HIDE DEF old, new, Old, New
    <2>14. Daily(Extract(more, q), profile) = Daily(Extract(rows, q), profile)
        BY <2>11, <2>12, <2>13
    <2>15. QED
        BY <2>14 DEF more
<1>4. QED
    BY <1>2, <1>3

-----------------------------------------------------------------------------
(* The verdict and the answers *)

LEMMA WorseIsConfirmed ==
    ASSUME NEW e, NEW a \in Alert, EvaluateVerdict(a, e) = "confirmed",
           Rate(e.daily, DOMAIN e.daily)[1] \in Nat, Rate(e.daily, DOMAIN e.daily)[2] \in Nat,
           NEW rate \in AlertRate, rate <= a.rate
    PROVE  EvaluateVerdict([a EXCEPT !.rate = rate], e) = "confirmed"
<1> DEFINE period == Rate(e.daily, DOMAIN e.daily)
           b == [a EXCEPT !.rate = rate]
<1>1. a.rate # NoRate
    BY DEF EvaluateVerdict
<1>2. a.rate \in Int /\ rate \in Int /\ b.rate = rate /\ rate # NoRate
    BY <1>1, RateAssumption DEF Alert
<1> DEFINE m == period[1]
           n == period[2]
<1>3. ScaledDrop(a, period) = 100 * m - a.rate * n /\ ScaledDrop(b, period) = 100 * m - rate * n
    BY <1>2 DEF ScaledDrop
<1>4. m \in Nat /\ n \in Nat
    OBVIOUS
<1> HIDE DEF m, n
<1>5. rate * n <= a.rate * n /\ rate * n \in Int /\ a.rate * n \in Int
    BY <1>2, <1>4
<1>6. /\ ScaledDrop(a, period) \in Int /\ ScaledDrop(b, period) \in Int
      /\ ScaledDrop(a, period) <= ScaledDrop(b, period)
    BY <1>3, <1>4, <1>5
<1>7. DropThreshold * period[2] \in Int
    BY DEF DropThreshold
<1>8. /\ ~ (e.observed = 0 \/ e.total = 0) /\ ~ (e.observed < MinDays \/ e.total < MinTotal)
      /\ \/ ScaledDrop(a, period) >= DropThreshold * period[2]
         \/ ScaledDrop(a, period) > 0 /\ Declining(e)
    BY DEF EvaluateVerdict
<1>9. \/ ScaledDrop(b, period) >= DropThreshold * period[2]
      \/ ScaledDrop(b, period) > 0 /\ Declining(e)
    <2> HIDE DEF b, period
    <2>1. QED
        BY <1>6, <1>7, <1>8
<1>10. EvaluateVerdict(b, e) = "confirmed"
    <2>1. b.rate # NoRate
        BY <1>2
    <2> HIDE DEF b
    <2>2. QED
        BY <1>8, <1>9, <2>1, Zenon DEF EvaluateVerdict
<1>11. QED
    BY <1>10

LEMMA FallbackIsWellFormed ==
    ASSUME NEW e, NEW verdict \in Verdicts, DOMAIN e.daily # {}, verdict # "no_data"
    PROVE  /\ WellFormed(Fallback(verdict, e), e)
           /\ Fallback(verdict, e).verdict = verdict /\ Fallback(verdict, e).figures
<1> DEFINE day == CHOOSE d \in DayIds(e) : TRUE
<1>1. DayIds(e) # {} /\ day \in DayIds(e) /\ day # A0
    <2>1. DayIds(e) # {}
        BY DEF DayIds
    <2>2. day \in DayIds(e)
        BY <2>1
    <2>3. \A d \in DayIds(e) : d # A0
        BY DEF DayIds, A0
    <2>4. QED
        BY <2>1, <2>2, <2>3
<1> HIDE DEF day
<1>2. Fallback(verdict, e) = Answer(verdict, {A0, day}, {A0, day}, TRUE, TRUE)
    BY <1>1 DEF Fallback, day
<1>3. A0 \in Ids(e) /\ day \in Ids(e) /\ {A0, day} # {A0}
    BY <1>1 DEF Ids
<1>4. day \in {A0, day} \cap DayIds(e)
    BY <1>1
<1>5. QED
    BY <1>2, <1>3, <1>4 DEF WellFormed, Answer

LEMMA VerdictType ==
    ASSUME NEW a, NEW e PROVE EvaluateVerdict(a, e) \in Verdicts
BY DEF EvaluateVerdict, Verdicts

\* A day with results makes the total of all days positive.
LEMMA ResultsCount ==
    ASSUME NEW daily, IsFiniteSet(DOMAIN daily), DOMAIN daily # {},
           \A d \in DOMAIN daily : /\ daily[d].approved \in Nat /\ daily[d].declined \in Nat
                                   /\ daily[d].approved + daily[d].declined # 0
    PROVE  Rate(daily, DOMAIN daily)[2] # 0
<1> DEFINE days == DOMAIN daily
           a == [d \in days |-> daily[d].approved]
           b == [d \in days |-> daily[d].declined]
<1>1. Rate(daily, days) = <<SumFunction(a), SumFunction(a) + SumFunction(b)>>
    BY DEF Rate
<1>2. PICK d \in days : TRUE
    OBVIOUS
<1>3. /\ DOMAIN a = days /\ DOMAIN b = days
      /\ \A x \in days : a[x] \in Nat /\ b[x] \in Nat
      /\ a[d] + b[d] # 0
    BY <1>2
<1> HIDE DEF a, b
<1>4. SumFunctionOnSet(a, days) \in Nat /\ a[d] <= SumFunctionOnSet(a, days)
    BY <1>3, SumNatural
<1>5. SumFunctionOnSet(b, days) \in Nat /\ b[d] <= SumFunctionOnSet(b, days)
    BY <1>3, SumNatural
<1>6. SumFunction(a) + SumFunction(b) # 0
    BY <1>2, <1>3, <1>4, <1>5 DEF SumFunction
<1>7. QED
    BY <1>1, <1>6

-----------------------------------------------------------------------------
(* The invariant *)

\* The stored report is about the table, edited or not.
About(q, profile) ==
    /\ q \in HistoryQuery /\ profile \in Profiles
    /\ report.query = q /\ report.profile = profile
    /\ report.diagnostic = Extract(table, q)
    /\ report.daily = Daily(Extract(table, q), profile)

LEMMA ReportIsAbout ==
    ASSUME ReportInv, pc # "idle"
    PROVE  \E q \in HistoryQuery, profile \in Profiles : About(q, profile)
<1>1. PICK q \in HistoryQuery, profile \in Profiles :
        \/ report = Summarize(Extract(table, q), q, profile)
        \/ report = Edited(Summarize(Extract(table, q), q, profile))
    BY Zenon DEF ReportInv
<1>2. About(q, profile)
    <2>1. CASE report = Summarize(Extract(table, q), q, profile)
        BY <2>1, WrittenFields DEF About
    <2>2. CASE report = Edited(Summarize(Extract(table, q), q, profile))
        BY <2>2, WrittenFields, EditedFields DEF About
    <2>3. QED
        BY <1>1, <2>1, <2>2
<1>3. QED
    BY <1>2

\* A report that is as written has totals that are true of the table.
LEMMA UntamperedFigures ==
    ASSUME TableInv, NEW q, NEW profile, About(q, profile), Untampered
    PROVE  /\ report = Summarize(Extract(table, q), q, profile)
           /\ report.metrics = <<Having(q, profile, "approved"),
                Having(q, profile, "approved") + Having(q, profile, "declined")>>
           /\ Having(q, profile, "approved") \in Nat /\ Having(q, profile, "declined") \in Nat
<1>1. report = Summarize(Extract(table, q), q, profile)
    BY DEF About, Untampered
<1>2. \A s : Having(q, profile, s) = Cardinality(Scope(table, q, profile, s))
    <2>1. Final(q) = Sorted(table, q, "current")
        BY CurrentIsFinal DEF About, TableInv
    <2>2. QED
        BY <2>1 DEF Having, Scope
<1>3. Rate(report.daily, DOMAIN report.daily) =
        <<Having(q, profile, "approved"),
          Having(q, profile, "approved") + Having(q, profile, "declined")>>
    BY <1>2, RateTotal DEF About, TableInv
<1>4. report.metrics = Rate(report.daily, DOMAIN report.daily)
    <2>1. report.daily = Daily(Extract(table, q), profile)
        BY DEF About
    <2>2. QED
        BY <1>1, <2>1, WrittenFields
<1>5. \A s : Having(q, profile, s) \in Nat
    <2>1. \A s : Scope(table, q, profile, s) \in SUBSET Window(table, q)
        BY DEF Scope, Sorted
    <2>2. IsFiniteSet(Window(table, q))
        BY WindowIsFinite DEF About, TableInv
    <2>3. QED
        BY <1>2, <2>1, <2>2, FS_Subset, FS_CardinalityType
<1>6. QED
    BY <1>1, <1>3, <1>4, <1>5

\* Whatever evidence is used has results, and the verdict is about them.
LEMMA UsableEvidence ==
    ASSUME TableInv, ReportInv, pc # "idle", Usable
    PROVE  /\ Untampered
           /\ DOMAIN Evidence(report).daily # {}
           /\ Rate(Evidence(report).daily, DOMAIN Evidence(report).daily) = report.metrics
           /\ Verdict # "no_data"
<1>1. Untampered
    BY DEF Usable, Validated, Untampered
<1>2. PICK q \in HistoryQuery, profile \in Profiles : About(q, profile)
    BY ReportIsAbout
<1>3. report = Summarize(Extract(table, q), q, profile)
    BY <1>1, <1>2, UntamperedFigures
<1> DEFINE e == Evidence(report)
           daily == report.daily
<1>4. EvidenceOK(e)
    BY DEF Usable
<1>5. DOMAIN e.daily # {}
    BY <1>4 DEF EvidenceOK
<1>6. DOMAIN daily # {}
    <2>1. DOMAIN e.daily = {d - report.query.from : d \in DOMAIN daily}
        BY DEF Evidence
    <2> HIDE DEF e
    <2>2. QED
        BY <1>5, <2>1
<1>7. table \in SUBSET Row /\ IsFiniteSet(table)
    BY DEF TableInv
<1>8. Rate(e.daily, DOMAIN e.daily) = report.metrics
    BY <1>3, <1>6, <1>7, WrittenIsEvidence
<1>9. /\ daily = Daily(Extract(table, q), profile)
      /\ report.metrics = Rate(daily, DOMAIN daily)
    <2>1. daily = Daily(Extract(table, q), profile)
        BY <1>2 DEF About
    <2>2. QED
        BY <1>3, <2>1, WrittenFields
<1>10. /\ IsFiniteSet(DOMAIN daily)
       /\ \A d \in DOMAIN daily :
            /\ daily[d].approved \in Nat /\ daily[d].declined \in Nat
            /\ daily[d].approved + daily[d].declined # 0
    BY <1>7, <1>9, DailyType
<1>11. e.total # 0
    <2>1. e.total = report.metrics[2]
        BY DEF Evidence
    <2>2. Rate(daily, DOMAIN daily)[2] # 0
        BY <1>6, <1>10, ResultsCount
    <2>3. QED
        BY <1>9, <2>1, <2>2
<1>12. e.observed # 0
    <2>1. e.observed = Cardinality(DOMAIN daily)
        BY DEF Evidence
    <2>2. QED
        BY <1>6, <1>10, <2>1, FS_EmptySet
<1> HIDE DEF e
<1>13. EvaluateVerdict(alert, e) # "no_data"
    BY <1>11, <1>12 DEF EvaluateVerdict
<1>14. QED
    BY <1>1, <1>5, <1>8, <1>13 DEF e, Verdict

LEMMA InitAnalystInv == Init => AnalystInv
BY FS_EmptySet DEF Init, AnalystInv, TableInv, ReportInv, ProgressInv

LEMMA NextAnalystInv ==
    ASSUME AnalystInv, [Next]_vars
    PROVE  AnalystInv'
<1> USE DEF AnalystInv
<1>1. ASSUME NEW t \in Time, NEW r \in Feed[t], Ingest(r)
      PROVE  AnalystInv'
    <2>1. r \in Row
        BY FeedAssumption
    <2>2. TableInv'
        BY <1>1, <2>1, FS_AddElement DEF Ingest, TableInv
    <2>3. ReportInv'
        BY <1>1 DEF Ingest, ReportInv
    <2>4. ProgressInv'
        BY <1>1 DEF Ingest, ProgressInv
    <2>5. QED
        BY <2>2, <2>3, <2>4
<1>2. ASSUME NEW q \in HistoryQuery, NEW profile \in Profiles, Store(q, profile)
      PROVE  AnalystInv'
    <2>1. TableInv'
        BY <1>2 DEF Store, TableInv
    <2>2. ReportInv'
        BY <1>2 DEF Store, ReportInv
    <2>3. ProgressInv'
        BY <1>2 DEF Store, ProgressInv
    <2>4. QED
        BY <2>1, <2>2, <2>3
<1>3. CASE Tamper
    <2>1. TableInv'
        BY <1>3 DEF Tamper, TableInv
    <2>2. ReportInv'
        <3>1. PICK q \in HistoryQuery, profile \in Profiles :
                \/ report = Summarize(Extract(table, q), q, profile)
                \/ report = Edited(Summarize(Extract(table, q), q, profile))
            BY <1>3, Zenon DEF Tamper, ReportInv
        <3>2. report = Summarize(Extract(table, q), q, profile)
            <4> DEFINE written == Summarize(Extract(table, q), q, profile)
            <4>1. TableInv /\ IsFiniteSet(table) /\ table \in SUBSET Row
                BY DEF TableInv
            <4>2. /\ written.metrics[1] \in Nat
                  /\ written.metrics = Rate(written.daily, DOMAIN written.daily)
                <5>1. /\ written.daily = Daily(Extract(table, q), profile)
                      /\ written.metrics = Rate(written.daily, DOMAIN written.daily)
                    BY WrittenFields
                <5>2. Scope(table, q, profile, "approved") \in SUBSET Window(table, q)
                    BY DEF Scope, Sorted
                <5>3. Cardinality(Scope(table, q, profile, "approved")) \in Nat
                    BY <4>1, <5>2, WindowIsFinite, FS_Subset, FS_CardinalityType
                <5> HIDE DEF written
                <5>4. written.metrics[1] = Cardinality(Scope(table, q, profile, "approved"))
                    BY <4>1, <5>1, RateTotal
                <5>5. QED
                    BY <5>1, <5>3, <5>4
            <4>3. CASE report = Edited(written)
                <5>1. Edited(written).daily = written.daily
                    BY EditedFields
                <5>2. Edited(written).metrics[1] = written.metrics[1] + 1
                    <6>1. "metrics" \in DOMAIN written
                        BY DEF Summarize
                    <6> HIDE DEF written
                    <6>2. QED
                        BY <6>1 DEF Edited
                <5>3. report.metrics = Rate(report.daily, DOMAIN report.daily)
                    BY <1>3 DEF Tamper
                <5> HIDE DEF written
                <5>4. written.metrics[1] + 1 = written.metrics[1]
                    BY <4>2, <4>3, <5>1, <5>2, <5>3
                <5>5. QED
                    BY <4>2, <5>4
            <4>4. QED
                BY <3>1, <4>3
        <3>3. report' = Edited(Summarize(Extract(table, q), q, profile))
            BY <1>3, <3>2 DEF Tamper
        <3>4. table' = table /\ pc' = "stored"
            BY <1>3 DEF Tamper
        <3>5. QED
            BY <3>3, <3>4, Zenon DEF ReportInv
    <2>3. ProgressInv'
        BY <1>3 DEF Tamper, ProgressInv
    <2>4. QED
        BY <2>1, <2>2, <2>3
<1>4. CASE Begin
    <2>1. TableInv' /\ ReportInv'
        BY <1>4 DEF Begin, TableInv, ReportInv
    <2>2. Usable'
        BY <1>4 DEF Begin, Usable
    <2>3. ProgressInv'
        BY <1>4, <2>2 DEF Begin, ProgressInv
    <2>4. QED
        BY <2>1, <2>3
<1>5. CASE Refuse
    BY <1>5 DEF Refuse, TableInv, ReportInv, ProgressInv
<1>6. ASSUME NEW a \in ModelAnswer(Evidence(report)), Accept(a)
      PROVE  AnalystInv'
    <2>1. TableInv' /\ ReportInv'
        BY <1>6 DEF Accept, TableInv, ReportInv
    <2>2. Usable' /\ Verdict' = Verdict /\ Evidence(report)' = Evidence(report)
        BY <1>6 DEF Accept, ProgressInv, Usable, Verdict
    <2>3. /\ WellFormed(answer', Evidence(report))
          /\ answer'.verdict = Verdict /\ answer'.figures
        BY <1>6 DEF Accept, Acceptable, Forced, ModelAnswer, Answer
    <2>4. ProgressInv'
        BY <1>6, <2>2, <2>3 DEF Accept, ProgressInv
    <2>5. QED
        BY <2>1, <2>4
<1>7. CASE Retry
    <2>1. TableInv' /\ ReportInv'
        BY <1>7 DEF Retry, TableInv, ReportInv
    <2>2. Usable' <=> Usable
        BY <1>7 DEF Retry, Usable
    <2>3. ProgressInv'
        BY <1>7, <2>2 DEF Retry, ProgressInv
    <2>4. QED
        BY <2>1, <2>3
<1>8. CASE GiveUp
    <2>1. TableInv' /\ ReportInv'
        BY <1>8 DEF GiveUp, TableInv, ReportInv
    <2>2. Usable /\ Usable' /\ Verdict' = Verdict /\ Evidence(report)' = Evidence(report)
        BY <1>8 DEF GiveUp, ProgressInv, Usable, Verdict
    <2>3. DOMAIN Evidence(report).daily # {} /\ Verdict # "no_data"
        BY <1>8, <2>2, UsableEvidence DEF GiveUp
    <2>4. Verdict \in Verdicts
        BY VerdictType DEF Verdict
    <2>5. /\ WellFormed(answer', Evidence(report))
          /\ answer'.verdict = Verdict /\ answer'.figures
        <3>1. answer' = Fallback(Verdict, Evidence(report))
            BY <1>8 DEF GiveUp
        <3>2. QED
            BY <2>3, <2>4, <3>1, FallbackIsWellFormed
    <2>6. ProgressInv'
        BY <1>8, <2>2, <2>5 DEF GiveUp, ProgressInv
    <2>7. QED
        BY <2>1, <2>6
<1>9. CASE UNCHANGED vars
    BY <1>9 DEF vars, TableInv, ReportInv, ProgressInv, Usable, Verdict
<1>10. QED
    BY <1>1, <1>2, <1>3, <1>4, <1>5, <1>6, <1>7, <1>8, <1>9 DEF Next

\* The invariant holds in every state the specification reaches.
THEOREM AnalystInvariant == Spec => []AnalystInv
BY InitAnalystInv, NextAnalystInv, PTL DEF Spec

-----------------------------------------------------------------------------
(* What follows from it *)

LEMMA InvCountsOnce == AnalystInv => TransactionsCountedOnce
<1> SUFFICES ASSUME AnalystInv, report # NoReport PROVE TransactionsCountedOnce
    BY DEF TransactionsCountedOnce
<1>1. pc # "idle"
    BY DEF AnalystInv, ReportInv
<1>2. PICK q \in HistoryQuery, profile \in Profiles : About(q, profile)
    BY <1>1, ReportIsAbout DEF AnalystInv
<1>3. table \in SUBSET Row /\ IsFiniteSet(table) /\ \A r, s \in table : r.time = s.time => r = s
    BY DEF AnalystInv, TableInv
<1> DEFINE extract == report.diagnostic
           seen == Window(table, q)
           K == Days(table, q)
           source == [d \in DOMAIN extract |-> extract[d].source]
           total(c) == [d \in DOMAIN extract |-> extract[d].rows[c]]
<1>4. report.query = q /\ extract = Extract(table, q) /\ DOMAIN extract = K
    BY <1>2 DEF About, Extract, Days
<1>5. Reconciled(extract, q)
    BY <1>3, <1>4, ExtractReconciles
<1>6. SumFunction(source) = Cardinality(seen)
    <2>1. CountsDays(source, seen, Days(table, q))
        BY <1>4, ExtractFields DEF Seen, CountsDays
    <2>2. DOMAIN source = Days(table, q) /\ seen \in SUBSET Window(table, q)
        BY <1>4
    <2> HIDE DEF source, seen, K
    <2>3. SumFunctionOnSet(source, Days(table, q)) = Cardinality(seen)
        BY <1>2, <1>3, <2>1, <2>2, CountByDay
    <2>4. QED
        BY <2>2, <2>3 DEF SumFunction
<1>7. ASSUME NEW c \in Categories
      PROVE  SumFunction(total(c)) = Cardinality(Sorted(table, q, c))
    <2>1. CountsDays(total(c), Sorted(table, q, c), Days(table, q))
        BY <1>4, ExtractFields DEF SortedOn, CountsDays
    <2>2. DOMAIN total(c) = Days(table, q)
        BY <1>4
    <2>3. Sorted(table, q, c) \in SUBSET Window(table, q)
        BY DEF Sorted
    <2> HIDE DEF total, K
    <2>4. SumFunctionOnSet(total(c), Days(table, q)) = Cardinality(Sorted(table, q, c))
        BY <1>2, <1>3, <2>1, <2>3, CountByDay
    <2>5. QED
        BY <2>2, <2>4 DEF SumFunction
<1>8. SumFunction(total("current")) + SumFunction(total("deleted"))
        = Cardinality({r.code : r \in seen} \ {NoCode})
    <2>1. "current" \in Categories /\ "deleted" \in Categories
        BY DEF Categories
    <2> HIDE DEF total
    <2>2. QED
        BY <1>3, <1>7, <2>1, KeysCounted
<1>9. SumFunction(total("missing_key")) = Cardinality({r \in seen : r.code = NoCode})
    <2>1. "missing_key" \in Categories
        BY DEF Categories
    <2>2. Sorted(table, q, "missing_key") = {r \in seen : r.code = NoCode}
        BY DEF Sorted, Category
    <2> HIDE DEF total
    <2>3. QED
        BY <1>7, <2>1, <2>2
<1>10. QED
    <2> HIDE DEF extract
    <2>1. QED
        BY <1>4, <1>5, <1>6, <1>8, <1>9, Zenon DEF TransactionsCountedOnce, extract

\* Every CDC row, and every transaction, is counted exactly once, and every
\* extract of every finite table reconciles (guardian_history:127).
THEOREM CountedOnce == Spec => []TransactionsCountedOnce
<1>1. AnalystInv => TransactionsCountedOnce
    BY InvCountsOnce
<1>2. QED
    BY <1>1, AnalystInvariant, PTL

LEMMA InvEvidence == AnalystInv => EvidenceCarriesOver
<1> SUFFICES ASSUME AnalystInv, report # NoReport, Untampered, DOMAIN report.daily # {}
             PROVE  EvidenceOK(Evidence(report))
    BY DEF EvidenceCarriesOver
<1>1. pc # "idle" /\ TableInv /\ table \in SUBSET Row /\ IsFiniteSet(table)
    BY DEF AnalystInv, ReportInv, TableInv
<1>2. PICK q \in HistoryQuery, profile \in Profiles : About(q, profile)
    BY <1>1, ReportIsAbout DEF AnalystInv
<1>3. report = Summarize(Extract(table, q), q, profile)
    BY <1>1, <1>2, UntamperedFigures
<1>4. QED
    BY <1>1, <1>3, WrittenIsEvidence

\* Both programs agree on the halves and rates of every range, of any length
\* (datalake_history:256, gemini_review:365).
THEOREM EvidenceSurvives == Spec => []EvidenceCarriesOver
<1>1. AnalystInv => EvidenceCarriesOver
    BY InvEvidence
<1>2. QED
    BY <1>1, AnalystInvariant, PTL

LEMMA InvAnswers == AnalystInv => AnswersAreSound
<1> SUFFICES ASSUME AnalystInv, answer # NoAnswer PROVE AnswersAreSound
    BY DEF AnswersAreSound
<1>1. /\ pc = "answered" /\ Usable /\ TableInv /\ ReportInv
      /\ answer.verdict = Verdict /\ answer.figures
      /\ WellFormed(answer, Evidence(report))
    BY DEF AnalystInv, ProgressInv
<1>2. Untampered /\ Verdict # "no_data"
    BY <1>1, UsableEvidence
<1>3. PICK q \in HistoryQuery, profile \in Profiles : About(q, profile)
    BY <1>1, ReportIsAbout
<1>4. /\ report.query = q /\ report.profile = profile
      /\ report.metrics = <<Having(q, profile, "approved"),
            Having(q, profile, "approved") + Having(q, profile, "declined")>>
      /\ Having(q, profile, "approved") \in Nat /\ Having(q, profile, "declined") \in Nat
    <2>1. report.query = q /\ report.profile = profile
        BY <1>3 DEF About
    <2>2. QED
        BY <1>1, <1>2, <1>3, <2>1, UntamperedFigures
<1>5. /\ report.metrics[1] = Having(q, profile, "approved")
      /\ report.metrics[2] - report.metrics[1] = Having(q, profile, "declined")
    BY <1>4
<1>6. QED
    BY <1>1, <1>2, <1>4, <1>5, Zenon DEF AnswersAreSound, Verdict

\* Whatever the model sends, the answer has the deterministic verdict, never
\* "no_data", and its figures are true of the table (guardian_assurance:272).
THEOREM SoundAnswers == Spec => []AnswersAreSound
<1>1. AnalystInv => AnswersAreSound
    BY InvAnswers
<1>2. QED
    BY <1>1, AnalystInvariant, PTL

LEMMA InvWorse == AnalystInv => WorseAlertStaysConfirmed
<1> SUFFICES ASSUME AnalystInv, pc = "model", Verdict = "confirmed",
                    NEW rate \in {x \in AlertRate : x <= alert.rate}
             PROVE  EvaluateVerdict([alert EXCEPT !.rate = rate], Evidence(report)) = "confirmed"
    BY DEF WorseAlertStaysConfirmed
<1>1. pc # "idle" /\ Usable /\ TableInv /\ ReportInv /\ alert \in Alert
    BY DEF AnalystInv, ProgressInv
<1>2. /\ Untampered
      /\ Rate(Evidence(report).daily, DOMAIN Evidence(report).daily) = report.metrics
    BY <1>1, UsableEvidence
<1>3. PICK q \in HistoryQuery, profile \in Profiles : About(q, profile)
    BY <1>1, ReportIsAbout
<1>4. report.metrics[1] \in Nat /\ report.metrics[2] \in Nat
    <2>1. /\ report.metrics = <<Having(q, profile, "approved"),
                Having(q, profile, "approved") + Having(q, profile, "declined")>>
          /\ Having(q, profile, "approved") \in Nat /\ Having(q, profile, "declined") \in Nat
        BY <1>1, <1>2, <1>3, UntamperedFigures
    <2>2. QED
        BY <2>1
<1>5. EvaluateVerdict(alert, Evidence(report)) = "confirmed"
    BY DEF Verdict
<1>6. rate \in AlertRate /\ rate <= alert.rate
    OBVIOUS
<1>7. QED
    BY <1>1, <1>2, <1>4, <1>5, <1>6, WorseIsConfirmed

\* For any rates, thresholds of days and totals, a lower rate stays confirmed
\* (deterministic_verdict:140).
THEOREM WorseStaysConfirmed == Spec => []WorseAlertStaysConfirmed
<1>1. AnalystInv => WorseAlertStaysConfirmed
    BY InvWorse
<1>2. QED
    BY <1>1, AnalystInvariant, PTL

LateStep ==
    \A q \in HistoryQuery, profile \in Profiles : \A r \in table' \ table :
        (\E s \in Window(table, q) : s.code = r.code /\ s.code # NoCode /\ s.time > r.time)
        => Daily(Extract(table', q), profile) = Daily(Extract(table, q), profile)

LEMMA NextLate ==
    ASSUME TableInv, [Next]_vars PROVE [LateStep]_table
<1>1. ASSUME NEW t \in Time, NEW r \in Feed[t], Ingest(r)
      PROVE  LateStep
    <2>1. table' = table \cup {r} /\ r \in Row
        BY <1>1, FeedAssumption DEF Ingest
    <2>2. table \in SUBSET Row /\ IsFiniteSet(table)
        BY DEF TableInv
    <2> SUFFICES ASSUME NEW q \in HistoryQuery, NEW profile \in Profiles,
                        NEW s \in Window(table, q), s.code = r.code, s.code # NoCode,
                        s.time > r.time
                 PROVE  Daily(Extract(table \cup {r}, q), profile)
                          = Daily(Extract(table, q), profile)
        BY <2>1 DEF LateStep
    <2>3. QED
        BY <2>1, <2>2, LateVersionIsIgnored
<1>2. QED
    BY <1>1 DEF Next, Store, Tamper, Begin, Refuse, Accept, Retry, GiveUp, vars

\* No query's figures change with a version that is not its transaction's
\* latest, whenever it arrives (guardian_history:118).
THEOREM LateVersions == Spec => LateVersionsChangeNothing
<1>1. TableInv /\ [Next]_vars => [LateStep]_table
    BY NextLate
<1>2. AnalystInv => TableInv
    BY DEF AnalystInv
<1>3. QED
    BY <1>1, <1>2, AnalystInvariant, PTL DEF Spec, LateVersionsChangeNothing, LateStep

=============================================================================
