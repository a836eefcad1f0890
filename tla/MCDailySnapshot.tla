--------------------------- MODULE MCDailySnapshot --------------------------
(* An instance of DailySnapshot for TLC: two requests over a table of up to    *)
(* three occurrences out of a catalogue with repetitions, refusals, both       *)
(* contracts, a foreign one, two days, a document that contradicts its payload *)
(* and alerts that the policy accepts and the view does not show.              *)
EXTENDS DailySnapshot, TLC

CONSTANTS r1, r2

Occurrence(key, id, day, pub, rec, kind, accepted) ==
    [key |-> key, id |-> id, day |-> day, pub |-> pub, rec |-> rec, kind |-> kind,
     country |-> IF pub = 1 THEN "EC" ELSE "PE", accepted |-> accepted,
     contract |-> TRUE, stamp |-> "zoned", sound |-> TRUE]

Catalogue == {
    Occurrence(1, "a", 1, 1, 1, "v1", TRUE),
    Occurrence(2, "a", 1, 1, 2, "v1", FALSE),
    Occurrence(3, "a", 1, 1, 1, "v1", TRUE),
    Occurrence(4, "a", 1, 2, 2, "v1", TRUE),
    Occurrence(5, "a", 1, 2, 2, "superseded", TRUE),
    Occurrence(6, "a", 1, 2, 2, "v2", TRUE),
    Occurrence(7, "b", 1, 1, 2, "v2", FALSE),
    Occurrence(8, "b", 2, 2, 2, "v1", TRUE),
    [Occurrence(9, "b", 1, 1, 1, "v1", TRUE) EXCEPT !.stamp = "local"],
    [Occurrence(10, "b", 1, 1, 1, "v1", TRUE) EXCEPT !.sound = FALSE],
    Occurrence(11, "fallback-b", 1, 1, 1, "v1", TRUE),
    Occurrence(12, "b", 1, 2, 1, "foreign", TRUE),
    Occurrence(13, "b", 1, 2, 1, "v1", TRUE),
    [Occurrence(14, "b", 1, 1, 2, "v1", TRUE) EXCEPT !.contract = FALSE],
    [Occurrence(15, " a", 1, 1, 2, "v1", TRUE) EXCEPT !.stamp = "spaced"]}

MCStripped == [id \in {"a", " a", "b", "fallback-b"} |-> IF id = " a" THEN "a" ELSE id]

MCTables == {S \in SUBSET Catalogue : Cardinality(S) \in 1..2}
MCArriving == {o \in Catalogue : o.key \in {2, 4, 5}}

Row(key, id, critical) ==
    [key |-> key, id |-> id, country |-> "EC", critical |-> critical, kind |-> "v1",
     accepted |-> TRUE, contract |-> TRUE, stamp |-> "zoned"]
MCFiles == {{Row(1, "a", TRUE), Row(2, "b", FALSE)},
            {Row(1, "a", TRUE), Row(2, "a", TRUE)}}

MCImported == {Snapshot(1, 0, {}, 0, <<>>)}
Query(via, day, mode) == [via |-> via, day |-> day, mode |-> mode]
MCRequest == [r \in Run |->
    IF r = r1
    THEN {Query("extractor", 1, "policy"), Query("reader", 1, "policy"),
          Query("extractor", 2, "policy"), Query("reader", 1, "ai")}
    ELSE {Query("file", 1, "policy")}]
=============================================================================
