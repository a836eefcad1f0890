--------------------------- MODULE DecisionStore ---------------------------
(***************************************************************************)
(* The DynamoDB table shared by every reviewer process                     *)
(* (src/alert_reviewer/queue.py, class DynamoDBIdempotencyStore, and       *)
(* src/alert_reviewer/occurrence.py, class DynamoDBOccurrenceStore).       *)
(*                                                                         *)
(* An event key has an "occurrence#" item, the payload first received      *)
(* under that identity, and a "decision#" item that moves                  *)
(*     absent -> ACQUIRED -> READY -> COMPLETED.                           *)
(* Every write is one conditional DynamoDB call, hence one atomic action   *)
(* whose guard is its ConditionExpression.  No write carries a token of    *)
(* the claim it belongs to: the conditions look at the status only.        *)
(*                                                                         *)
(* Clocks are abstracted.  A lock whose lock_until lies in the past is in  *)
(* "lapsed"; a decision whose expires_at lies in the past is in "expired". *)
(* Both may happen at any moment to an item that carries the attribute.    *)
(*                                                                         *)
(* The SDK repeats a request whose answer it does not see, and a request   *)
(* may arrive after its caller has given up.  A release is the last call   *)
(* of a task, so nothing waits for the end of its repetitions: "late" has  *)
(* the events for which one may still arrive.                              *)
(***************************************************************************)

CONSTANTS
    Event,      \* identities of EventBridge events (id, or hash of the body)
    Payload,    \* alert payloads
    NoPayload,  \* nothing captured
    NoOutcome   \* nothing decided

Outcome == [payload : Payload, accepted : BOOLEAN]

ASSUME StoreAssumption ==
    /\ NoPayload \notin Payload
    /\ NoOutcome \notin Outcome

VARIABLES
    occurrence, \* occurrence[e]: the payload captured for e, or NoPayload
    status,     \* status[e]: the status attribute of e's decision item
    outcome,    \* outcome[e]: the outcome attribute of e's decision item
    lapsed,     \* events whose ACQUIRED item has lock_until < now
    expired,    \* events whose decision item has expires_at < now
    late        \* events for which a repeated or delayed release may arrive

decisionVars == <<status, outcome, lapsed, expired, late>>
storeVars == <<occurrence, decisionVars>>

\* ClaimStatus of queue.py, and ABSENT for a key without an item.
Status == {"ABSENT", "ACQUIRED", "READY", "COMPLETED"}

StoreTypeOK ==
    /\ occurrence \in [Event -> Payload \cup {NoPayload}]
    /\ status \in [Event -> Status]
    /\ outcome \in [Event -> Outcome \cup {NoOutcome}]
    /\ lapsed \subseteq Event
    /\ expired \subseteq Event
    /\ late \subseteq Event

StoreInit ==
    /\ occurrence = [e \in Event |-> NoPayload]
    /\ status = [e \in Event |-> "ABSENT"]
    /\ outcome = [e \in Event |-> NoOutcome]
    /\ lapsed = {}
    /\ expired = {}
    /\ late = {}

-----------------------------------------------------------------------------
(* DynamoDBOccurrenceStore.capture *)

\* put_item under attribute_not_exists.
PutOccurrence(e, p) ==
    /\ occurrence[e] = NoPayload
    /\ occurrence' = [occurrence EXCEPT ![e] = p]
    /\ UNCHANGED decisionVars

\* Defective variant of SameOccurrence: the digest is not compared.
SameOccurrenceAnyDigest(e, p) == occurrence[e] # NoPayload

\* The put was refused and the digest read back is that of this payload.
SameOccurrence(e, p) == occurrence[e] = p

-----------------------------------------------------------------------------
(* DynamoDBIdempotencyStore *)

\* Defective variant of Claimable: a lock can be taken over while it is held.
ClaimableAnyLock(e) == status[e] \in {"ABSENT", "ACQUIRED"} \/ e \in expired

Claimable(e) ==
    \/ status[e] = "ABSENT"
    \/ e \in expired
    \/ status[e] = "ACQUIRED" /\ e \in lapsed

\* claim: put_item replaces the whole item, with a new lock and a new TTL.
PutClaim(e) ==
    /\ Claimable(e)
    /\ status' = [status EXCEPT ![e] = "ACQUIRED"]
    /\ outcome' = [outcome EXCEPT ![e] = NoOutcome]
    /\ lapsed' = lapsed \ {e}
    /\ expired' = expired \ {e}
    /\ UNCHANGED <<occurrence, late>>

\* Defective variant of StoreResult: the write is conditional on the existence
\* of the item only, so a slow worker overwrites an outcome that is READY.
StoreResultAnyStatus(e, o) ==
    /\ status[e] # "ABSENT"
    /\ status' = [status EXCEPT ![e] = "READY"]
    /\ outcome' = [outcome EXCEPT ![e] = o]
    /\ lapsed' = lapsed \ {e}
    /\ UNCHANGED <<occurrence, expired, late>>

\* store_result: SET READY and the outcome, REMOVE lock_until.
StoreResult(e, o) ==
    /\ status[e] = "ACQUIRED"
    /\ status' = [status EXCEPT ![e] = "READY"]
    /\ outcome' = [outcome EXCEPT ![e] = o]
    /\ lapsed' = lapsed \ {e}
    /\ UNCHANGED <<occurrence, expired, late>>

MarkCompleted(e) ==
    /\ status[e] = "READY"
    /\ status' = [status EXCEPT ![e] = "COMPLETED"]
    /\ UNCHANGED <<occurrence, outcome, lapsed, expired, late>>

\* extend: a new lock_until for whoever holds the lock now.
Extend(e) ==
    /\ status[e] = "ACQUIRED"
    /\ lapsed' = lapsed \ {e}
    /\ UNCHANGED <<occurrence, status, outcome, expired, late>>

\* Defective variant of Release: delete_item without its condition.
ReleaseAnyStatus(e) ==
    /\ status' = [status EXCEPT ![e] = "ABSENT"]
    /\ outcome' = [outcome EXCEPT ![e] = NoOutcome]
    /\ lapsed' = lapsed \ {e}
    /\ expired' = expired \ {e}
    /\ late' \in {late, late \cup {e}}
    /\ UNCHANGED occurrence

\* release: delete_item while ACQUIRED.  Its answer may be lost, and then the
\* SDK sends it again.
Release(e) ==
    /\ status[e] = "ACQUIRED"
    /\ status' = [status EXCEPT ![e] = "ABSENT"]
    /\ lapsed' = lapsed \ {e}
    /\ expired' = expired \ {e}
    /\ late' \in {late, late \cup {e}}
    /\ UNCHANGED <<occurrence, outcome>>

\* The call has failed, but its request may still arrive.
ReleaseDelayed(e) ==
    /\ late' = late \cup {e}
    /\ UNCHANGED <<occurrence, status, outcome, lapsed, expired>>

-----------------------------------------------------------------------------
(* The passing of time *)

\* lock_until (lock_seconds after the claim or the last extension) is past.
LockLapses(e) ==
    /\ status[e] = "ACQUIRED"
    /\ e \notin lapsed
    /\ lapsed' = lapsed \cup {e}
    /\ UNCHANGED <<occurrence, status, outcome, expired, late>>

\* expires_at (ttl_hours after the claim, never refreshed) is past.
DecisionExpires(e) ==
    /\ status[e] # "ABSENT"
    /\ e \notin expired
    /\ expired' = expired \cup {e}
    /\ UNCHANGED <<occurrence, status, outcome, lapsed, late>>

\* DynamoDB's TTL sweeper removes an item some time after expires_at.
ExpiredItemRemoved(e) ==
    /\ e \in expired
    /\ status' = [status EXCEPT ![e] = "ABSENT"]
    /\ outcome' = [outcome EXCEPT ![e] = NoOutcome]
    /\ lapsed' = lapsed \ {e}
    /\ expired' = expired \ {e}
    /\ UNCHANGED <<occurrence, late>>
=============================================================================
