---------------------------- MODULE ReviewWorker ----------------------------
(***************************************************************************)
(* The SQS consumers of the reviewer, run by one or more processes against *)
(* one input queue, one decision table and one output event bus:           *)
(*   - the polling worker, src/alert_reviewer/queue.py (SQSReviewConsumer),*)
(*   - the Lambda function, src/alert_reviewer/lambda_worker.py, to which  *)
(*     an event source mapping hands batches ("Managed" workers).          *)
(*                                                                         *)
(* run_once receives a batch and starts one _process coroutine for each    *)
(* message; the next batch is received when all of them have returned.  A  *)
(* task <<w, m>> is worker w's _process of message m, and step[t] says     *)
(* which remote call it makes next.  Each call is one action; it may fail  *)
(* before it has an effect, or take effect and then fail (the response is  *)
(* lost), and an exception is handled as in the except clause.             *)
(*                                                                         *)
(* A managed worker makes the same calls in the same order (process_record)*)
(* but has no heartbeat and deletes nothing: when all its tasks have       *)
(* returned it reports the ones that raised, and the mapping deletes the   *)
(* messages of the others.                                                 *)
(*                                                                         *)
(* A process may stop at any moment and be started again.  It loads the    *)
(* policy file when it starts (worker.serve), so processes may run         *)
(* different versions and an event may meet another one at every receive:  *)
(* the model lets each evaluation use any version.                         *)
(***************************************************************************)
EXTENDS DecisionStore, Naturals

CONSTANTS
    Worker,      \* worker processes
    Managed,     \* the ones that are invocations of the Lambda function
    Message,     \* messages of the input queue
    EventOf,     \* EventOf[m]: identity parse_queue_body derives from m
    PayloadOf,   \* PayloadOf[m]: the alert payload of m
    Malformed,   \* messages parse_queue_body rejects
    Oversize,    \* messages whose occurrence item is above the size limit
    Policy,      \* versions of the policy file
    Accepts,     \* Accepts[p]: the payloads policy p lets through
    MaxReceives  \* maxReceiveCount of the queue's redrive policy

ASSUME WorkerAssumption ==
    /\ Managed \subseteq Worker
    /\ EventOf \in [Message -> Event]
    /\ PayloadOf \in [Message -> Payload]
    /\ Malformed \subseteq Message
    /\ Oversize \subseteq Message
    /\ Accepts \in [Policy -> SUBSET Payload]
    /\ MaxReceives \in Nat

VARIABLES
    queue,     \* queue[m]: where the message is
    receives,  \* receives[m]: ApproximateReceiveCount
    latest,    \* tasks whose receipt handle is the latest of their message
    step,      \* step[t]: the next remote call of task t
    claimed,   \* tasks whose claim returned ACQUIRED
    held,      \* held[t]: the local variable outcome of task t
    published  \* published[e]: the payloads put on the output bus for e

queueVars == <<queue, receives, latest>>
taskVars == <<step, claimed, held>>
vars == <<storeVars, queueVars, taskVars, published>>

Task == Worker \X Message
Proc(t) == t[1]
Msg(t) == t[2]
Key(t) == EventOf[Msg(t)]

Step == {"idle", "capture", "claim", "reclaim", "inspect", "evaluate",
         "publish", "complete", "ack", "release"}

TypeOK ==
    /\ StoreTypeOK
    /\ queue \in [Message -> {"visible", "inflight", "deleted", "dlq"}]
    /\ receives \in [Message -> 0..MaxReceives]
    /\ latest \subseteq Task
    /\ step \in [Task -> Step]
    /\ claimed \subseteq Task
    /\ held \in [Task -> Outcome \cup {NoOutcome}]
    /\ published \in [Event -> SUBSET Payload]

Init ==
    /\ StoreInit
    /\ queue = [m \in Message |-> "visible"]
    /\ receives = [m \in Message |-> 0]
    /\ latest = {}
    /\ step = [t \in Task |-> "idle"]
    /\ claimed = {}
    /\ held = [t \in Task |-> NoOutcome]
    /\ published = [e \in Event |-> {}]

-----------------------------------------------------------------------------
(* Control of a task *)

\* The coroutine reaches its next call.
GoTo(t, s) ==
    /\ step' = [step EXCEPT ![t] = s]
    /\ UNCHANGED claimed

\* The coroutine returns: its locals are gone.
Return(t) ==
    /\ step' = [step EXCEPT ![t] = "idle"]
    /\ claimed' = claimed \ {t}
    /\ held' = [held EXCEPT ![t] = NoOutcome]

\* except Exception: release the lock if this task acquired it, and return.
Raise(t) ==
    \/ /\ t \in claimed
       /\ GoTo(t, "release")
       /\ held' = [held EXCEPT ![t] = NoOutcome]
    \/ t \notin claimed /\ Return(t)

\* Where a task goes with an outcome in hand.
AfterOutcome(o) == IF o.accepted THEN "publish" ELSE "complete"

\* PayloadAlertFilter.evaluate under policy p.
Verdict(t, p) ==
    [payload |-> PayloadOf[Msg(t)],
     accepted |-> PayloadOf[Msg(t)] \in Accepts[p]]

-----------------------------------------------------------------------------
(* run_once *)

\* Defective variant of Receive: the redrive limit is not applied.
ReceiveWithoutLimit(w) ==
    /\ \A t \in Task : Proc(t) = w => step[t] = "idle"
    /\ \E m \in Message :
          /\ queue[m] = "visible"
          /\ queue' = [queue EXCEPT ![m] = "inflight"]
          /\ receives' = [receives EXCEPT ![m] = @ + 1]
          /\ latest' = {t \in latest : Msg(t) # m} \cup {<<w, m>>}
          /\ step' = [step EXCEPT ![<<w, m>>] = "capture"]
    /\ UNCHANGED <<storeVars, claimed, held, published>>

\* receive_message and the start of the batch.  A message that
\* parse_queue_body rejects is left alone: its task returns at once.
Receive(w) ==
    /\ \A t \in Task : Proc(t) = w => step[t] = "idle"
    /\ \E batch \in SUBSET {m \in Message :
                 queue[m] = "visible" /\ receives[m] < MaxReceives} :
          /\ batch # {}
          /\ queue' = [m \in Message |->
                 IF m \in batch THEN "inflight" ELSE queue[m]]
          /\ receives' = [m \in Message |->
                 IF m \in batch THEN receives[m] + 1 ELSE receives[m]]
          /\ latest' = {t \in Task : IF Msg(t) \in batch THEN Proc(t) = w
                                                       ELSE t \in latest}
          /\ step' = [t \in Task |->
                 IF Proc(t) = w /\ Msg(t) \in batch \ Malformed
                 THEN "capture" ELSE step[t]]
    /\ UNCHANGED <<storeVars, claimed, held, published>>

-----------------------------------------------------------------------------
(* _process *)

\* The occurrence is new; the task goes on unless the response is lost.
CaptureNew(t) ==
    /\ step[t] = "capture"
    /\ Msg(t) \notin Oversize
    /\ PutOccurrence(Key(t), PayloadOf[Msg(t)])
    /\ \/ GoTo(t, "claim") /\ UNCHANGED held
       \/ Raise(t)
    /\ UNCHANGED <<queueVars, published>>

\* The occurrence was captured before, with the same payload.
CaptureKnown(t) ==
    /\ step[t] = "capture"
    /\ Msg(t) \notin Oversize
    /\ SameOccurrence(Key(t), PayloadOf[Msg(t)])
    /\ GoTo(t, "claim")
    /\ UNCHANGED <<storeVars, queueVars, held, published>>

\* Defective variant of CaptureRaises: a capture that fails is logged only.
CaptureFailureIgnored(t) ==
    /\ step[t] = "capture"
    /\ GoTo(t, "claim")
    /\ UNCHANGED <<storeVars, queueVars, held, published>>

\* The item is too large, the identity collides with another payload, or the
\* call fails: nothing is written and the exception ends the task.  With no
\* claim yet there is nothing to release.
CaptureRaises(t) ==
    /\ step[t] = "capture"
    /\ Raise(t)
    /\ UNCHANGED <<storeVars, queueVars, published>>

\* The conditional put of claim succeeds.  The response may be lost: then the
\* call raises and the task owns no claim, or the SDK repeats the put (once, in
\* the model).  The repetition meets the item this very task wrote, and wins
\* again only if that is gone or has lapsed in between.
ClaimWon(t) ==
    /\ step[t] \in {"claim", "reclaim"}
    /\ PutClaim(Key(t))
    /\ \/ /\ step' = [step EXCEPT ![t] = "evaluate"]
          /\ claimed' = claimed \cup {t}
          /\ UNCHANGED held
       \/ step[t] = "claim" /\ GoTo(t, "reclaim") /\ UNCHANGED held
       \/ Raise(t)
    /\ UNCHANGED <<queueVars, published>>

ClaimRefused(t) ==
    /\ step[t] \in {"claim", "reclaim"}
    /\ ~Claimable(Key(t))
    /\ GoTo(t, "inspect")
    /\ UNCHANGED <<storeVars, queueVars, held, published>>

\* The consistent read of claim, a step later: the item may have changed or
\* be gone.  COMPLETED goes to the delete, READY takes the stored outcome.
InspectCompleted(t) ==
    /\ step[t] = "inspect"
    /\ status[Key(t)] = "COMPLETED"
    /\ GoTo(t, "ack")
    /\ UNCHANGED <<storeVars, queueVars, held, published>>

\* Defective variant of InspectReady: a READY outcome is taken for published.
ReadyTakenForPublished(t) ==
    /\ step[t] = "inspect"
    /\ status[Key(t)] = "READY"
    /\ held' = [held EXCEPT ![t] = outcome[Key(t)]]
    /\ GoTo(t, "complete")
    /\ UNCHANGED <<storeVars, queueVars, published>>

InspectReady(t) ==
    /\ step[t] = "inspect"
    /\ status[Key(t)] = "READY"
    /\ held' = [held EXCEPT ![t] = outcome[Key(t)]]
    /\ GoTo(t, AfterOutcome(outcome[Key(t)]))
    /\ UNCHANGED <<storeVars, queueVars, published>>

\* Defective variant of InspectBusy: the duplicate in progress is acknowledged.
BusyAcknowledged(t) ==
    /\ step[t] = "inspect"
    /\ status[Key(t)] \in {"ABSENT", "ACQUIRED"}
    /\ GoTo(t, "ack")
    /\ UNCHANGED <<storeVars, queueVars, held, published>>

\* BUSY: return without acknowledging.
InspectBusy(t) ==
    /\ step[t] = "inspect"
    /\ status[Key(t)] \in {"ABSENT", "ACQUIRED"}
    /\ Return(t)
    /\ UNCHANGED <<storeVars, queueVars, published>>

\* Defective variant of EvaluateAndStore: the task goes on with its own verdict
\* when store_result is refused.
VerdictUsedWhenRefused(t) ==
    /\ step[t] = "evaluate"
    /\ \E p \in Policy :
          /\ StoreResult(Key(t), Verdict(t, p)) \/ UNCHANGED storeVars
          /\ held' = [held EXCEPT ![t] = Verdict(t, p)]
          /\ GoTo(t, AfterOutcome(Verdict(t, p)))
    /\ UNCHANGED <<queueVars, published>>

\* evaluate, then store_result.
EvaluateAndStore(t) ==
    /\ step[t] = "evaluate"
    /\ \E p \in Policy :
          /\ StoreResult(Key(t), Verdict(t, p))
          /\ \/ /\ held' = [held EXCEPT ![t] = Verdict(t, p)]
                /\ GoTo(t, AfterOutcome(Verdict(t, p)))
             \/ Raise(t)
    /\ UNCHANGED <<queueVars, published>>

\* put_events with the payload of the outcome in hand.
Publish(t) ==
    /\ step[t] = "publish"
    /\ published' = [published EXCEPT ![Key(t)] = @ \cup {held[t].payload}]
    /\ \/ GoTo(t, "complete") /\ UNCHANGED held
       \/ Raise(t)
    /\ UNCHANGED <<storeVars, queueVars>>

Complete(t) ==
    /\ step[t] = "complete"
    /\ MarkCompleted(Key(t))
    /\ \/ GoTo(t, "ack") /\ UNCHANGED held
       \/ Raise(t)
    /\ UNCHANGED <<queueVars, published>>

\* A call that has no effect and raises: a condition that does not hold, a
\* timeout, throttling, an entry EventBridge refuses.
CallRaises(t) ==
    /\ \/ step[t] \in {"claim", "reclaim", "inspect", "evaluate", "publish",
                       "complete"}
       \/ step[t] = "ack" /\ Proc(t) \notin Managed
    /\ Raise(t)
    /\ UNCHANGED <<storeVars, queueVars, published>>

\* delete_message takes effect with the latest receipt handle; with a handle
\* of an earlier receive SQS reports success and may or may not delete.  The
\* response may be lost.
Acknowledge(t) ==
    /\ step[t] = "ack"
    /\ Proc(t) \notin Managed
    /\ \/ /\ queue[Msg(t)] \in {"visible", "inflight"}
          /\ queue' = [queue EXCEPT ![Msg(t)] = "deleted"]
       \/ /\ \/ queue[Msg(t)] \in {"deleted", "dlq"}
             \/ t \notin latest
          /\ UNCHANGED queue
    /\ Return(t) \/ Raise(t)
    /\ UNCHANGED <<storeVars, receives, latest, published>>

\* The batch of a managed worker is over: every task has returned.  What did
\* not raise is deleted, under the same rule for receipt handles.
Returned(w) == {t \in Task : Proc(t) = w /\ step[t] = "ack"}

ReportBatch(w) ==
    /\ w \in Managed
    /\ Returned(w) # {}
    /\ \A t \in Task : Proc(t) = w => step[t] \in {"idle", "ack"}
    /\ \E gone \in SUBSET {Msg(t) : t \in Returned(w)} :
          /\ \A t \in Returned(w) :
                Msg(t) \notin gone =>
                    queue[Msg(t)] \in {"deleted", "dlq"} \/ t \notin latest
          /\ \A m \in gone : queue[m] \in {"visible", "inflight"}
          /\ queue' = [m \in Message |->
                 IF m \in gone THEN "deleted" ELSE queue[m]]
    /\ step' = [t \in Task |-> IF Proc(t) = w THEN "idle" ELSE step[t]]
    /\ claimed' = {t \in claimed : Proc(t) # w}
    /\ held' = [t \in Task |-> IF Proc(t) = w THEN NoOutcome ELSE held[t]]
    /\ UNCHANGED <<storeVars, receives, latest, published>>

\* The handler of the except clause: release, whose own failure is logged.
ReleaseLock(t) ==
    /\ step[t] = "release"
    /\ Release(Key(t)) \/ ReleaseDelayed(Key(t)) \/ UNCHANGED storeVars
    /\ Return(t)
    /\ UNCHANGED <<queueVars, published>>

\* A repeated or delayed delete_item reaches the table.  Its condition asks for
\* an ACQUIRED item, not for the one the release was meant for.
LateReleaseArrives(e) ==
    /\ e \in late
    /\ Release(e)
    /\ UNCHANGED <<queueVars, taskVars, published>>

\* _heartbeat, started once the claim has returned: it extends the lock of
\* the key, whoever holds it.  (What it does to the visibility of the message
\* is that VisibilityLapses did not happen.)
Heartbeat(t) ==
    /\ t \in claimed
    /\ Proc(t) \notin Managed
    /\ Extend(Key(t))
    /\ UNCHANGED <<queueVars, taskVars, published>>

-----------------------------------------------------------------------------
(* The process and its environment *)

\* The process stops between two calls of its tasks and is started again.
Restart(w) ==
    /\ step' = [t \in Task |-> IF Proc(t) = w THEN "idle" ELSE step[t]]
    /\ claimed' = {t \in claimed : Proc(t) # w}
    /\ held' = [t \in Task |-> IF Proc(t) = w THEN NoOutcome ELSE held[t]]
    /\ UNCHANGED <<storeVars, queueVars, published>>

\* Defective variant of VisibilityLapses: the heartbeat of a task is never
\* cancelled, so the message stays invisible while the claim exists.
HeartbeatOutlivesTask(m) ==
    /\ queue[m] = "inflight"
    /\ status[EventOf[m]] # "ACQUIRED"
    /\ queue' = [queue EXCEPT ![m] = "visible"]
    /\ UNCHANGED <<storeVars, receives, latest, taskVars, published>>

\* The visibility timeout of a received message runs out: because its task
\* returned or died, or because the heartbeat failed or came too late.
VisibilityLapses(m) ==
    /\ queue[m] = "inflight"
    /\ queue' = [queue EXCEPT ![m] = "visible"]
    /\ UNCHANGED <<storeVars, receives, latest, taskVars, published>>

\* SQS moves a message that was received maxReceiveCount times to the DLQ.
Redrive(m) ==
    /\ queue[m] = "visible"
    /\ receives[m] >= MaxReceives
    /\ queue' = [queue EXCEPT ![m] = "dlq"]
    /\ UNCHANGED <<storeVars, receives, latest, taskVars, published>>

LockTimesOut(e) ==
    /\ LockLapses(e)
    /\ UNCHANGED <<queueVars, taskVars, published>>

-----------------------------------------------------------------------------
TaskStep(t) ==
    \/ CaptureNew(t) \/ CaptureKnown(t) \/ CaptureRaises(t)
    \/ ClaimWon(t) \/ ClaimRefused(t)
    \/ InspectCompleted(t) \/ InspectReady(t) \/ InspectBusy(t)
    \/ EvaluateAndStore(t) \/ Publish(t) \/ Complete(t) \/ CallRaises(t)
    \/ Acknowledge(t) \/ ReleaseLock(t)

Next ==
    \/ \E w \in Worker : Receive(w) \/ ReportBatch(w) \/ Restart(w)
    \/ \E t \in Task : TaskStep(t) \/ Heartbeat(t)
    \/ \E m \in Message : VisibilityLapses(m) \/ Redrive(m)
    \/ \E e \in Event : LockTimesOut(e) \/ LateReleaseArrives(e)

Spec == Init /\ [][Next]_vars

\* Processes keep running and SQS keeps its promises: a started task makes
\* its next call (which may fail), a worker polls, visibility runs out once
\* nobody renews it, and an over-received message is moved.  Nothing is
\* assumed about failures, restarts, locks or heartbeats.
Fairness ==
    /\ \A t \in Task : WF_vars(TaskStep(t))
    /\ \A w \in Worker : WF_vars(Receive(w)) /\ WF_vars(ReportBatch(w))
    /\ \A m \in Message : WF_vars(VisibilityLapses(m)) /\ WF_vars(Redrive(m))

FairSpec == Spec /\ Fairness

-----------------------------------------------------------------------------
(* Properties *)

Decided(e) == status[e] \in {"READY", "COMPLETED"}

\* The output bus only carries the payload of the stored, accepting decision
\* of the event, whichever worker published it and however often its lock
\* changed hands between the evaluation and put_events.
PublishedIsDecided ==
    \A e \in Event : published[e] # {} =>
        Decided(e) /\ outcome[e].accepted /\ published[e] = {outcome[e].payload}

\* An accepted alert is never marked COMPLETED before it was published.
CompletedIsPublished ==
    \A e \in Event : status[e] = "COMPLETED" /\ outcome[e].accepted =>
        outcome[e].payload \in published[e]

\* A message leaves the queue only when the decision of its event is complete
\* and was taken on this message's own payload: neither a contract violation
\* nor the second payload of a reused identity is ever acknowledged.
AckedIsCompleted ==
    \A m \in Message : queue[m] = "deleted" =>
        /\ m \notin Malformed \cup Oversize
        /\ status[EventOf[m]] = "COMPLETED"
        /\ outcome[EventOf[m]].payload = PayloadOf[m]

\* No decision is started without its evidence, and what is decided is what
\* was captured.
DecidedIsCaptured ==
    \A e \in Event :
        /\ status[e] # "ABSENT" => occurrence[e] # NoPayload
        /\ Decided(e) => occurrence[e] = outcome[e].payload

\* A READY outcome keeps its decision and a COMPLETED one is not recalculated,
\* whatever policy the next worker to touch the event has loaded.
DecisionIsFinal ==
    [][\A e \in Event :
          /\ Decided(e) => Decided(e)' /\ outcome'[e] = outcome[e]
          /\ status[e] = "COMPLETED" => status'[e] = "COMPLETED"]_vars

\* Every message ends acknowledged or in the dead-letter queue.
Settles == \A m \in Message : <>(queue[m] \in {"deleted", "dlq"})

-----------------------------------------------------------------------------
(* The inductive invariants behind the safety properties *)

\* What the place a task has reached says of its message, however old the
\* decision: it is well formed, and past the capture its payload is on record.
PlaceInv(t) ==
    /\ step[t] # "idle" => Msg(t) \notin Malformed
    /\ step[t] \notin {"idle", "capture"} =>
          /\ Msg(t) \notin Oversize
          /\ occurrence[Key(t)] = PayloadOf[Msg(t)]
    /\ step[t] = "publish" => held[t] \in Outcome
    /\ t \in claimed => step[t] \notin {"idle", "capture"}

\* What it says of the decision, which no TTL takes away.
TaskInv(t) ==
    /\ step[t] = "publish" =>
          /\ Decided(Key(t))
          /\ held[t] = outcome[Key(t)]
          /\ outcome[Key(t)].accepted
    /\ step[t] = "complete" =>
          /\ Decided(Key(t))
          /\ outcome[Key(t)].accepted =>
                outcome[Key(t)].payload \in published[Key(t)]
    /\ step[t] = "ack" => status[Key(t)] = "COMPLETED"

\* A stored outcome is there exactly while the item is READY or COMPLETED.
OutcomeInv == \A e \in Event : outcome[e] # NoOutcome <=> Decided(e)

\* The part that decisions outliving their TTL leave intact (AgeingReviews).
BaseInv ==
    /\ TypeOK
    /\ OutcomeInv
    /\ DecidedIsCaptured
    /\ \A t \in Task : PlaceInv(t)

IInv ==
    /\ BaseInv
    /\ expired = {}
    /\ CompletedIsPublished
    /\ PublishedIsDecided
    /\ AckedIsCompleted
    /\ \A t \in Task : TaskInv(t)

-----------------------------------------------------------------------------
\* The worker implements the promise of AlertDecisions.
Promise == INSTANCE AlertDecisions WITH
    decision <- outcome,
    announced <- published,
    settled <- {e \in Event : status[e] = "COMPLETED"},
    acknowledged <- {m \in Message : queue[m] = "deleted"}

KeepsPromise == Promise!Spec
=============================================================================
