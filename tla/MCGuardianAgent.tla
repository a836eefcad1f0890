---------------------------- MODULE MCGuardianAgent --------------------------
(* An instance of GuardianAgent for TLC: batches of up to four alerts over     *)
(* three queries with room for two, and the results a service may return.     *)
EXTENDS GuardianAgent

CONSTANTS q1, q2, q3

A(query, valid, accept) == [query |-> query, valid |-> valid, accepted |-> accept]

MCBatch == {
    <<>>,
    <<A(q1, TRUE, TRUE), A(q1, TRUE, FALSE), A(q2, TRUE, TRUE), A(q1, TRUE, TRUE)>>,
    <<A(q1, TRUE, TRUE), A(q2, TRUE, TRUE), A(q3, TRUE, TRUE), A(q1, TRUE, FALSE)>>,
    <<A(q3, FALSE, TRUE), A(q2, TRUE, FALSE)>>}

P(pages, next, altered) == [pages |-> pages, next |-> next, altered |-> altered]

MCResult == {
    P(<< <<>> >>, <<0>>, {}),
    P(<< <<1>>, <<2>> >>, <<2, 0>>, {}),
    P(<< <<1>>, <<2>> >>, <<2, 0>>, {2}),
    P(<< <<1>>, <<>> >>, <<2, 1>>, {}),
    P(<< <<1, 2>>, <<3, 4>> >>, <<2, 0>>, {})}
=============================================================================
