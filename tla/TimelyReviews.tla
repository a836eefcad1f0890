--------------------------- MODULE TimelyReviews ---------------------------
(***************************************************************************)
(* ReviewWorker when heartbeats come on time, with a history variable that *)
(* no action reads: the events that lost a claim to a late release.        *)
(***************************************************************************)
EXTENDS ReviewWorker

VARIABLE
    struck  \* events where a late release deleted the item of a claimant

timelyVars == <<vars, struck>>

\* No lock lapses while a task that acquired it runs.
TimelyNext ==
    /\ Next
    /\ \A t \in claimed : Key(t) \in lapsed' => Key(t) \in lapsed
    /\ struck' = struck \cup
          {e \in Event : LateReleaseArrives(e) /\ \E t \in claimed : Key(t) = e}

TimelySpec == Init /\ struck = {} /\ [][TimelyNext]_timelyVars

-----------------------------------------------------------------------------
(* Property *)

\* With heartbeats on time the lock excludes: of all the tasks working on an
\* event, in every process, at most one believes that it acquired the claim,
\* unless a repeated or delayed release has deleted the item of another task's
\* claim (release asks for the status of the item, not for its owner).
OneClaimant ==
    \A t, u \in claimed : Key(t) = Key(u) => t = u \/ Key(t) \in struck

-----------------------------------------------------------------------------
(* Invariant *)

\* With heartbeats on time: an acquired claim keeps its lock, and its item while
\* no late release takes it; only its owner runs the handler that deletes it.
LockInv ==
    /\ OneClaimant
    /\ \A t \in claimed :
          /\ Key(t) \notin lapsed
          /\ Key(t) \notin struck => status[Key(t)] # "ABSENT"
    /\ \A t \in Task : step[t] = "release" => t \in claimed
=============================================================================
