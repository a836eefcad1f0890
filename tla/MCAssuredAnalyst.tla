---------------------------- MODULE MCAssuredAnalyst --------------------------
(* An instance of AssuredAnalyst for TLC: the CDC rows of two transactions and *)
(* of a row without a code, over three creation days.                         *)
EXTENDS AssuredAnalyst

CONSTANTS c1, c2

R(code, day, time, status, group, deleted) ==
    [code |-> code, day |-> day, time |-> time, status |-> status,
     group |-> group, deleted |-> deleted]

MCDay == 0..2
MCTime == 1..4

\* c1 may be authorised, captured, re-dated, reversed or deleted; c2 comes later.
MCFeed == [t \in MCTime |-> CASE
    t = 1 -> {R(c1, 0, t, "approved", "sales", FALSE),
              R(c1, 0, t, "other", "preauthorizations", FALSE),
              R(NoCode, 0, t, "approved", "sales", FALSE)}
 [] t = 2 -> {R(c1, 0, t, "declined", "sales", FALSE),
              R(c1, 1, t, "approved", "preauthorizations", FALSE),
              R(c1, 0, t, "approved", "sales", TRUE),
              R(c2, 0, t, "approved", "sales", FALSE)}
 [] t = 3 -> {R(c2, 1, t, "declined", "sales", FALSE),
              R(c2, 1, t, "approved", "captures", FALSE),
              R(c1, 0, t, "declined", "sales", FALSE)}
 [] t = 4 -> {R(c2, 2, t, "declined", "preauthorizations", FALSE),
              R(c2, 2, t, "approved", "sales", FALSE),
              R(c2, 1, t, "declined", "sales", TRUE),
              R(NoCode, 2, t, "declined", "sales", FALSE)}]
=============================================================================
