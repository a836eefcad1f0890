------------------------------ MODULE MCSlackBot -----------------------------
(* An instance of SlackBot for TLC: two threads, two messages without an id    *)
(* sent at the same time to two channels, and one that is not an alert.        *)
EXTENDS SlackBot, TLC

CONSTANTS id1, t1, t2

MCEvent == {[id |-> NoId, channel |-> "C1", ts |-> 1, kind |-> "kipu"],
            [id |-> NoId, channel |-> "C2", ts |-> 1, kind |-> "kipu"],
            [id |-> id1, channel |-> "C1", ts |-> 2, kind |-> "incomplete"]}

Symmetry == Permutations(Thread)
=============================================================================
