--------------------------- MODULE AgeingReviews ---------------------------
(***************************************************************************)
(* ReviewWorker when decisions outlive their TTL, with history variables   *)
(* that no action reads: what was once decided and completed, although its *)
(* item may have been replaced since.                                      *)
(***************************************************************************)
EXTENDS ReviewWorker

VARIABLES
    accepted,  \* <<e, p>>: e was once READY with an outcome that accepts p
    completed  \* <<e, p>>: e was once COMPLETED with an outcome on p

ageingVars == <<vars, accepted, completed>>

PayloadsOf(E) == {<<e, outcome[e].payload>> : e \in E}
AcceptedNow == {e \in Event : status[e] = "READY" /\ outcome[e].accepted}
CompletedNow == {e \in Event : status[e] = "COMPLETED"}

\* A decision outlives its TTL, and may be removed, at any moment and under any
\* task (messages delivered late or put back from the dead-letter queue still
\* arrive).
DecisionAges(e) ==
    /\ DecisionExpires(e) \/ ExpiredItemRemoved(e)
    /\ UNCHANGED <<queueVars, taskVars, published>>

AgeingNext ==
    /\ Next \/ \E e \in Event : DecisionAges(e)
    /\ accepted' = accepted \cup PayloadsOf(AcceptedNow)'
    /\ completed' = completed \cup PayloadsOf(CompletedNow)'

AgeingSpec == Init /\ accepted = {} /\ completed = {} /\ [][AgeingNext]_ageingVars

-----------------------------------------------------------------------------
(* Properties *)

\* However decisions age, and under whatever task, a message leaves the queue
\* only when a decision on its own payload was carried out to the end.
AckedWasCompleted ==
    \A m \in Message : queue[m] = "deleted" =>
        /\ m \notin Malformed \cup Oversize
        /\ <<EventOf[m], PayloadOf[m]>> \in completed

\* What is on the output bus was decided and accepted, although the decision
\* of a slow task may have been replaced before it was published.
PublishedWasDecided ==
    \A e \in Event : \A p \in published[e] : <<e, p>> \in accepted

-----------------------------------------------------------------------------
(* Invariant *)

\* What is decided now was decided once, and where a task has got to says what
\* was decided before it.
AgeingInv ==
    /\ BaseInv
    /\ accepted \subseteq Event \X Payload
    /\ completed \subseteq Event \X Payload
    /\ PayloadsOf(AcceptedNow) \subseteq accepted
    /\ PayloadsOf(CompletedNow) \subseteq completed
    /\ \A t \in Task :
          /\ step[t] = "publish" =>
                held[t].accepted /\ <<Key(t), held[t].payload>> \in accepted
          /\ step[t] = "ack" => <<Key(t), PayloadOf[Msg(t)]>> \in completed
    /\ AckedWasCompleted
    /\ PublishedWasDecided
=============================================================================
