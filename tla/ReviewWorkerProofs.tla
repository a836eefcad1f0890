------------------------- MODULE ReviewWorkerProofs -------------------------
(***************************************************************************)
(* Proofs about ReviewWorker, for every set of workers, events, messages,  *)
(* payloads and policies.  The argument:                                   *)
(*                                                                         *)
(*   StepTypes         types are kept (the type of the outcome a task      *)
(*                     publishes rests on PlaceInv);                       *)
(*   NextKeeps         no step takes back a decision that has not expired, *)
(*                     a captured payload or a publication (Kept);         *)
(*   OtherPlaces,      hence what PlaceInv and TaskInv say of a task that  *)
(*   OtherTasks        does not move stays true, whatever another does;    *)
(*   Moved...,         what is left is the task that moves, action by      *)
(*   TaskStepKeepsTasks  action;                                           *)
(*   WorkerInvariant   IInv is inductive, and the properties follow;       *)
(*   AgeingInvariant   BaseInv, the part of it that decisions older than   *)
(*                     their TTL leave intact, and the history of what was *)
(*                     decided;                                            *)
(*   LockExclusion     who owns a claim, when heartbeats come on time.     *)
(***************************************************************************)
EXTENDS TimelyReviews, AgeingReviews, TLAPS

\* The three ways a coroutine goes on change the task variables within type.
LEMMA ControlTypes ==
    ASSUME TypeOK, NEW t \in Task,
           \/ (\E s \in Step : GoTo(t, s)) /\ UNCHANGED held
           \/ Return(t)
           \/ Raise(t)
    PROVE  /\ step' \in [Task -> Step]
           /\ claimed' \subseteq Task
           /\ held' \in [Task -> Outcome \cup {NoOutcome}]
BY DEF TypeOK, GoTo, Return, Raise, Step

\* Every action on the decision table keeps its types.
LEMMA StoreTypes ==
    ASSUME StoreTypeOK, NEW e \in Event,
           \/ UNCHANGED storeVars
           \/ \E p \in Payload : PutOccurrence(e, p)
           \/ PutClaim(e)
           \/ \E o \in Outcome : StoreResult(e, o)
           \/ MarkCompleted(e) \/ Extend(e) \/ Release(e) \/ ReleaseDelayed(e)
           \/ LockLapses(e)
    PROVE  StoreTypeOK'
BY DEF StoreTypeOK, storeVars, decisionVars, Status, PutOccurrence, PutClaim,
       StoreResult, MarkCompleted, Extend, Release, ReleaseDelayed, LockLapses

LEMMA TaskTypes ==
    ASSUME NEW t \in Task
    PROVE  /\ Proc(t) \in Worker
           /\ Msg(t) \in Message
           /\ Key(t) \in Event
           /\ PayloadOf[Msg(t)] \in Payload
           /\ \A p \in Policy : Verdict(t, p) \in Outcome
BY WorkerAssumption DEF Task, Proc, Msg, Key, Verdict, Outcome

LEMMA AfterOutcomeType == \A o : AfterOutcome(o) \in Step
BY DEF AfterOutcome, Step

\* A step of a task keeps the types.
LEMMA TaskStepTypes ==
    ASSUME TypeOK, NEW t \in Task, TaskStep(t),
           step[t] = "publish" => held[t] \in Outcome
    PROVE  TypeOK'
<1> DEFINE TasksTyped == /\ step' \in [Task -> Step]
                        /\ claimed' \subseteq Task
                        /\ held' \in [Task -> Outcome \cup {NoOutcome}]
           RestTyped == /\ queue' \in [Message -> {"visible", "inflight", "deleted", "dlq"}]
                        /\ receives' \in [Message -> 0..MaxReceives]
                        /\ latest' \subseteq Task
                        /\ published' \in [Event -> SUBSET Payload]
<1>1. SUFFICES StoreTypeOK' /\ TasksTyped /\ RestTyped
    BY DEF TypeOK
<1>2. StoreTypeOK
    BY DEF TypeOK
<1>3. CASE CaptureNew(t)
    <2>1. StoreTypeOK'
        BY <1>2, <1>3, StoreTypes, TaskTypes DEF CaptureNew
    <2>2. TasksTyped
        BY <1>3, ControlTypes DEF CaptureNew, Step
    <2>3. RestTyped
        BY <1>3 DEF CaptureNew, TypeOK, queueVars
    <2>4. QED
        BY <2>1, <2>2, <2>3
<1>4. CASE CaptureKnown(t) \/ CaptureRaises(t) \/ ClaimRefused(t)
           \/ InspectCompleted(t) \/ InspectBusy(t) \/ CallRaises(t)
    <2>1. StoreTypeOK'
        BY <1>2, <1>4, StoreTypes, TaskTypes
        DEF CaptureKnown, CaptureRaises, ClaimRefused, InspectCompleted,
            InspectBusy, CallRaises
    <2>2. TasksTyped
        BY <1>4, ControlTypes
        DEF CaptureKnown, CaptureRaises, ClaimRefused, InspectCompleted,
            InspectBusy, CallRaises, Step
    <2>3. RestTyped
        BY <1>4
        DEF CaptureKnown, CaptureRaises, ClaimRefused, InspectCompleted,
            InspectBusy, CallRaises, TypeOK, queueVars
    <2>4. QED
        BY <2>1, <2>2, <2>3
<1>5. CASE ClaimWon(t)
    <2>1. StoreTypeOK'
        BY <1>2, <1>5, StoreTypes, TaskTypes DEF ClaimWon
    <2>2. TasksTyped
        BY <1>5, ControlTypes DEF ClaimWon, TypeOK, Step
    <2>3. RestTyped
        BY <1>5 DEF ClaimWon, TypeOK, queueVars
    <2>4. QED
        BY <2>1, <2>2, <2>3
<1>6. CASE InspectReady(t)
    <2>1. StoreTypeOK'
        BY <1>2, <1>6, StoreTypes, TaskTypes DEF InspectReady
    <2>2. TasksTyped
        BY <1>2, <1>6, TaskTypes, AfterOutcomeType
        DEF InspectReady, TypeOK, StoreTypeOK, GoTo
    <2>3. RestTyped
        BY <1>6 DEF InspectReady, TypeOK, queueVars
    <2>4. QED
        BY <2>1, <2>2, <2>3
<1>7. CASE EvaluateAndStore(t)
    <2>1. PICK p \in Policy :
              /\ StoreResult(Key(t), Verdict(t, p))
              /\ \/ /\ held' = [held EXCEPT ![t] = Verdict(t, p)]
                    /\ GoTo(t, AfterOutcome(Verdict(t, p)))
                 \/ Raise(t)
        BY <1>7 DEF EvaluateAndStore
    <2>2. StoreTypeOK'
        BY <1>2, <2>1, StoreTypes, TaskTypes
    <2>3. TasksTyped
        <3>1. CASE Raise(t)
            BY <3>1, ControlTypes
        <3>2. CASE /\ held' = [held EXCEPT ![t] = Verdict(t, p)]
                   /\ GoTo(t, AfterOutcome(Verdict(t, p)))
            BY <3>2, TaskTypes, AfterOutcomeType DEF TypeOK, GoTo
        <3>3. QED
            BY <2>1, <3>1, <3>2
    <2>4. RestTyped
        BY <1>7 DEF EvaluateAndStore, TypeOK, queueVars
    <2>5. QED
        BY <2>2, <2>3, <2>4
<1>8. CASE Publish(t)
    <2>1. StoreTypeOK'
        BY <1>2, <1>8, StoreTypes, TaskTypes DEF Publish
    <2>2. TasksTyped
        BY <1>8, ControlTypes DEF Publish, Step
    <2>3. held[t].payload \in Payload
        BY <1>8 DEF Publish, Outcome
    <2>4. RestTyped
        BY <1>8, <2>3, TaskTypes DEF Publish, TypeOK, queueVars
    <2>5. QED
        BY <2>1, <2>2, <2>4
<1>9. CASE Complete(t)
    <2>1. StoreTypeOK'
        BY <1>2, <1>9, StoreTypes, TaskTypes DEF Complete
    <2>2. TasksTyped
        BY <1>9, ControlTypes DEF Complete, Step
    <2>3. RestTyped
        BY <1>9 DEF Complete, TypeOK, queueVars
    <2>4. QED
        BY <2>1, <2>2, <2>3
<1>10. CASE Acknowledge(t)
    <2>1. StoreTypeOK'
        BY <1>2, <1>10, StoreTypes, TaskTypes DEF Acknowledge
    <2>2. TasksTyped
        BY <1>10, ControlTypes DEF Acknowledge
    <2>3. RestTyped
        BY <1>10, TaskTypes DEF Acknowledge, TypeOK
    <2>4. QED
        BY <2>1, <2>2, <2>3
<1>11. CASE ReleaseLock(t)
    <2>1. StoreTypeOK'
        BY <1>2, <1>11, StoreTypes, TaskTypes DEF ReleaseLock
    <2>2. TasksTyped
        BY <1>11, ControlTypes DEF ReleaseLock
    <2>3. RestTyped
        BY <1>11 DEF ReleaseLock, TypeOK, queueVars
    <2>4. QED
        BY <2>1, <2>2, <2>3
<1>12. QED
    BY <1>3, <1>4, <1>5, <1>6, <1>7, <1>8, <1>9, <1>10, <1>11 DEF TaskStep

\* The steps of the environment and of the process keep the types.
LEMMA OtherStepTypes ==
    ASSUME TypeOK,
           \/ \E w \in Worker : Receive(w) \/ ReportBatch(w) \/ Restart(w)
           \/ \E t \in Task : Heartbeat(t)
           \/ \E m \in Message : VisibilityLapses(m) \/ Redrive(m)
           \/ \E e \in Event : LockTimesOut(e) \/ LateReleaseArrives(e)
           \/ UNCHANGED vars
    PROVE  TypeOK'
<1> USE WorkerAssumption
<1>1. ASSUME NEW w \in Worker, Receive(w) PROVE TypeOK'
    BY <1>1 DEF TypeOK, Receive, storeVars, decisionVars, StoreTypeOK, Step
<1>2. ASSUME NEW w \in Worker, ReportBatch(w) \/ Restart(w) PROVE TypeOK'
    BY <1>2 DEF TypeOK, ReportBatch, Restart, storeVars, decisionVars,
                StoreTypeOK, queueVars, Step
<1>3. ASSUME NEW t \in Task, Heartbeat(t) PROVE TypeOK'
    <2>1. StoreTypeOK'
        BY <1>3, StoreTypes, TaskTypes DEF Heartbeat, TypeOK
    <2>2. QED
        BY <1>3, <2>1 DEF Heartbeat, TypeOK, queueVars, taskVars
<1>4. ASSUME NEW m \in Message, VisibilityLapses(m) \/ Redrive(m)
      PROVE TypeOK'
    BY <1>4 DEF VisibilityLapses, Redrive, TypeOK, storeVars, decisionVars,
                StoreTypeOK, taskVars
<1>5. ASSUME NEW e \in Event, LockTimesOut(e) \/ LateReleaseArrives(e)
      PROVE  TypeOK'
    <2>1. StoreTypeOK'
        BY <1>5, StoreTypes DEF LockTimesOut, LateReleaseArrives, TypeOK
    <2>2. QED
        BY <1>5, <2>1 DEF LockTimesOut, LateReleaseArrives, TypeOK, queueVars, taskVars
<1>6. CASE UNCHANGED vars
    BY <1>6 DEF vars, storeVars, decisionVars, queueVars, taskVars, TypeOK,
                StoreTypeOK
<1>7. QED
    BY <1>1, <1>2, <1>3, <1>4, <1>5, <1>6

\* A task that publishes holds an outcome.
LEMMA StepTypes == BaseInv /\ [Next]_vars => TypeOK'
<1> SUFFICES ASSUME BaseInv, [Next]_vars PROVE TypeOK'
    OBVIOUS
<1>1. TypeOK /\ \A t \in Task : step[t] = "publish" => held[t] \in Outcome
    BY DEF BaseInv, PlaceInv
<1>2. QED
    BY <1>1, TaskStepTypes, OtherStepTypes DEF Next

-----------------------------------------------------------------------------
(* What no step takes back *)

Kept(e) ==
    /\ e \notin expired =>
          /\ Decided(e) => Decided(e)' /\ outcome'[e] = outcome[e]
          /\ status[e] = "COMPLETED" => status'[e] = "COMPLETED"
    /\ status'[e] = "COMPLETED" => Decided(e) /\ outcome'[e] = outcome[e]
    /\ occurrence[e] # NoPayload => occurrence'[e] = occurrence[e]
    /\ published[e] \subseteq published'[e]

\* The conditions of the table's writes keep decisions (that have not outlived
\* their TTL), final statuses and captured payloads, although none of them
\* asks whose claim it is.
LEMMA StoreKeeps ==
    ASSUME StoreTypeOK, NEW e \in Event, NEW k \in Event,
           \/ UNCHANGED storeVars
           \/ \E p \in Payload : PutOccurrence(k, p)
           \/ PutClaim(k)
           \/ \E o : StoreResult(k, o)
           \/ MarkCompleted(k) \/ Extend(k) \/ Release(k) \/ ReleaseDelayed(k)
           \/ LockLapses(k)
    PROVE  /\ e \notin expired =>
                 /\ Decided(e) => Decided(e)' /\ outcome'[e] = outcome[e]
                 /\ status[e] = "COMPLETED" => status'[e] = "COMPLETED"
           /\ status'[e] = "COMPLETED" => Decided(e) /\ outcome'[e] = outcome[e]
           /\ occurrence[e] # NoPayload => occurrence'[e] = occurrence[e]
           /\ expired' \subseteq expired
BY DEF StoreTypeOK, storeVars, decisionVars, Decided, PutOccurrence, PutClaim,
       Claimable, StoreResult, MarkCompleted, Extend, Release, ReleaseDelayed,
       LockLapses

LEMMA NextKeeps ==
    ASSUME BaseInv, [Next]_vars
    PROVE  expired' \subseteq expired /\ \A e \in Event : Kept(e)
<1>1. TypeOK /\ StoreTypeOK
    BY DEF BaseInv, TypeOK
<1>2. ASSUME NEW t \in Task, TaskStep(t) \/ Heartbeat(t)
      PROVE  expired' \subseteq expired /\ \A e \in Event : Kept(e)
    <2>1. \/ UNCHANGED storeVars
          \/ \E p \in Payload : PutOccurrence(Key(t), p)
          \/ PutClaim(Key(t))
          \/ \E o : StoreResult(Key(t), o)
          \/ MarkCompleted(Key(t)) \/ Extend(Key(t)) \/ Release(Key(t))
          \/ ReleaseDelayed(Key(t))
        BY <1>2, TaskTypes
        DEF TaskStep, Heartbeat, CaptureNew, CaptureKnown, CaptureRaises,
            ClaimWon, ClaimRefused, InspectCompleted, InspectReady, InspectBusy,
            EvaluateAndStore, Publish, Complete, CallRaises, Acknowledge,
            ReleaseLock
    <2>2. \A e \in Event : published[e] \subseteq published'[e]
        BY <1>1, <1>2
        DEF TaskStep, Heartbeat, CaptureNew, CaptureKnown, CaptureRaises,
            ClaimWon, ClaimRefused, InspectCompleted, InspectReady, InspectBusy,
            EvaluateAndStore, Publish, Complete, CallRaises, Acknowledge,
            ReleaseLock, TypeOK
    <2>3. Key(t) \in Event
        BY TaskTypes
    <2>4. expired' \subseteq expired
        BY <2>1 DEF storeVars, decisionVars, PutOccurrence, PutClaim, StoreResult,
                    MarkCompleted, Extend, Release, ReleaseDelayed
    <2>5. QED
        BY <1>1, <2>1, <2>2, <2>3, <2>4, StoreKeeps DEF Kept
<1>3. ASSUME NEW k \in Event, LockTimesOut(k) \/ LateReleaseArrives(k)
      PROVE  expired' \subseteq expired /\ \A e \in Event : Kept(e)
    BY <1>1, <1>3, StoreKeeps
    DEF LockTimesOut, LockLapses, LateReleaseArrives, Release, Kept
<1>4. ASSUME \/ \E w \in Worker : Receive(w) \/ ReportBatch(w) \/ Restart(w)
             \/ \E m \in Message : VisibilityLapses(m) \/ Redrive(m)
             \/ UNCHANGED vars
      PROVE  expired' \subseteq expired /\ \A e \in Event : Kept(e)
    <2>1. UNCHANGED storeVars /\ published' = published
        BY <1>4 DEF Receive, ReportBatch, Restart, VisibilityLapses, Redrive, vars
    <2>2. QED
        BY <1>1, <2>1 DEF Kept, Decided, storeVars, decisionVars
<1>5. QED
    BY <1>2, <1>3, <1>4 DEF Next

-----------------------------------------------------------------------------
(* Tasks *)

\* What is known of the place of a task that does not move survives the step of
\* another one, because captured payloads are kept.
LEMMA OtherPlaces ==
    ASSUME BaseInv, \A e \in Event : Kept(e), NEW u \in Task,
           step'[u] = step[u], held'[u] = held[u], u \in claimed' => u \in claimed
    PROVE  PlaceInv(u)'
<1>1. /\ PlaceInv(u) /\ Kept(Key(u)) /\ PayloadOf[Msg(u)] # NoPayload
      /\ Key(u)' = Key(u) /\ Msg(u)' = Msg(u)
    BY TaskTypes, StoreAssumption DEF BaseInv, Key, Msg
<1>2. QED
    BY <1>1 DEF PlaceInv, Kept

\* And what is known of its decision, because decisions and publications are.
LEMMA OtherTasks ==
    ASSUME IInv, \A e \in Event : Kept(e), NEW u \in Task,
           step'[u] = step[u], held'[u] = held[u]
    PROVE  TaskInv(u)'
<1>1. TaskInv(u) /\ Kept(Key(u)) /\ Key(u) \notin expired /\ Key(u)' = Key(u)
    BY TaskTypes DEF IInv, Key, Msg
<1>2. QED
    BY <1>1 DEF TaskInv, Kept, Decided

\* A task that has returned, or whose process has stopped, holds nothing.
LEMMA IdleTasks ==
    ASSUME NEW u \in Task, step'[u] = "idle"
    PROVE  TaskInv(u)' /\ (u \notin claimed' => PlaceInv(u)')
BY DEF TaskInv, PlaceInv

\* The step of a task leaves the others where they are.
LEMMA OnlyOneMoves ==
    ASSUME TypeOK, NEW t \in Task, TaskStep(t), NEW u \in Task, u # t
    PROVE  step'[u] = step[u] /\ held'[u] = held[u] /\ (u \in claimed' => u \in claimed)
BY DEF TypeOK, TaskStep, CaptureNew, CaptureKnown, CaptureRaises, ClaimWon,
       ClaimRefused, InspectCompleted, InspectReady, InspectBusy, EvaluateAndStore,
       Publish, Complete, CallRaises, Acknowledge, ReleaseLock, GoTo, Return, Raise

\* A task enters "publish" with an outcome in hand.
LEMMA PublishersHold ==
    ASSUME BaseInv, TypeOK', NEW t \in Task, TaskStep(t), step'[t] = "publish"
    PROVE  held'[t] \in Outcome
<1>0. TypeOK /\ StoreTypeOK /\ OutcomeInv /\ Key(t) \in Event /\ PlaceInv(t)
    BY TaskTypes DEF BaseInv, TypeOK
<1>1. CASE InspectReady(t)
    <2>1. outcome[Key(t)] \in Outcome
        BY <1>0, <1>1 DEF InspectReady, OutcomeInv, Decided, StoreTypeOK
    <2>2. QED
        BY <1>0, <1>1, <2>1 DEF InspectReady, TypeOK
<1>2. CASE EvaluateAndStore(t)
    <2>1. ~Raise(t)
        BY <1>0 DEF Raise, Return, GoTo, TypeOK
    <2>2. PICK p \in Policy : held' = [held EXCEPT ![t] = Verdict(t, p)]
        BY <1>2, <2>1 DEF EvaluateAndStore
    <2>3. QED
        BY <1>0, <2>2, TaskTypes DEF TypeOK
<1>3. CASE ~InspectReady(t) /\ ~EvaluateAndStore(t)
    BY <1>0, <1>3
    DEF TypeOK, TaskStep, CaptureNew, CaptureKnown, CaptureRaises, ClaimWon,
        ClaimRefused, InspectCompleted, InspectBusy, Publish, Complete, CallRaises,
        Acknowledge, ReleaseLock, GoTo, Return, Raise
<1>4. QED
    BY <1>1, <1>2, <1>3

\* Where a task can get to in one step.
LEMMA MovedSteps ==
    ASSUME BaseInv, NEW t \in Task, TaskStep(t)
    PROVE  /\ step[t] # "idle"
           /\ \/ step'[t] = "idle" /\ t \notin claimed'
              \/ /\ step[t] = "capture" /\ step'[t] = "claim" /\ t \notin claimed'
                 /\ CaptureNew(t) \/ CaptureKnown(t)
              \/ step[t] # "capture" /\ step'[t] \notin {"idle", "capture"}
<1>0. TypeOK /\ PlaceInv(t)
    BY DEF BaseInv
<1>1. CASE CaptureNew(t) \/ CaptureKnown(t) \/ CaptureRaises(t)
    BY <1>0, <1>1
    DEF TypeOK, PlaceInv, CaptureNew, CaptureKnown, CaptureRaises, GoTo, Return, Raise
<1>2. CASE ~(CaptureNew(t) \/ CaptureKnown(t) \/ CaptureRaises(t))
    BY <1>0, <1>2
    DEF TypeOK, TaskStep, ClaimWon, ClaimRefused, InspectCompleted, InspectReady,
        InspectBusy, EvaluateAndStore, Publish, Complete, CallRaises, Acknowledge,
        ReleaseLock, GoTo, Return, Raise, AfterOutcome
<1>3. QED
    BY <1>1, <1>2

\* After the step of a task, PlaceInv holds of it.
LEMMA MovedPlaces ==
    ASSUME BaseInv, \A e \in Event : Kept(e), TypeOK', NEW t \in Task, TaskStep(t)
    PROVE  PlaceInv(t)'
<1>0. /\ TypeOK /\ StoreTypeOK /\ PlaceInv(t) /\ Kept(Key(t)) /\ Key(t) \in Event
      /\ Key(t)' = Key(t) /\ Msg(t)' = Msg(t) /\ PayloadOf[Msg(t)] # NoPayload
    BY TaskTypes, StoreAssumption DEF BaseInv, TypeOK, Key, Msg
<1>1. CASE step'[t] = "idle" /\ t \notin claimed'
    BY <1>1, IdleTasks
<1>2. CASE CaptureNew(t) \/ CaptureKnown(t)
    <2>1. CASE step'[t] # "claim"
        BY <1>1, <1>2, <2>1, MovedSteps DEF CaptureNew, CaptureKnown
    <2>2. CASE step'[t] = "claim"
        <3>1. step[t] = "capture" /\ Msg(t) \notin Malformed /\ Msg(t) \notin Oversize
            BY <1>0, <1>2 DEF CaptureNew, CaptureKnown, PlaceInv
        <3>2. occurrence'[Key(t)] = PayloadOf[Msg(t)]
            BY <1>0, <1>2
            DEF CaptureNew, CaptureKnown, PutOccurrence, SameOccurrence, StoreTypeOK,
                storeVars, decisionVars
        <3>3. QED
            BY <1>0, <2>2, <3>1, <3>2 DEF PlaceInv
    <2>3. QED
        BY <2>1, <2>2
<1>3. CASE step[t] # "capture" /\ step'[t] \notin {"idle", "capture"}
    <2>1. step[t] \notin {"idle", "capture"}
        BY <1>3, MovedSteps
    <2>2. /\ Msg(t) \notin Malformed /\ Msg(t) \notin Oversize
          /\ occurrence'[Key(t)] = PayloadOf[Msg(t)]
        BY <1>0, <2>1 DEF PlaceInv, Kept
    <2>3. QED
        BY <1>0, <1>3, <2>2, PublishersHold DEF PlaceInv
<1>4. QED
    BY <1>1, <1>2, <1>3, MovedSteps

\* After any step, PlaceInv holds of every task.
LEMMA NextKeepsPlaces ==
    ASSUME BaseInv, [Next]_vars, NEW u \in Task
    PROVE  PlaceInv(u)'
<1>1. TypeOK /\ TypeOK' /\ PlaceInv(u) /\ \A e \in Event : Kept(e)
    BY StepTypes, NextKeeps DEF BaseInv
<1>2. ASSUME NEW t \in Task, TaskStep(t)
      PROVE  PlaceInv(u)'
    BY <1>1, <1>2, MovedPlaces, OnlyOneMoves, OtherPlaces
<1>3. ASSUME NEW w \in Worker, Receive(w)
      PROVE  PlaceInv(u)'
    <2>1. CASE step'[u] = step[u]
        BY <1>1, <1>3, <2>1, OtherPlaces DEF Receive
    <2>2. CASE step'[u] # step[u]
        <3>1. step[u] = "idle" /\ step'[u] = "capture" /\ Msg(u) \notin Malformed
            BY <1>1, <1>3, <2>2 DEF Receive, TypeOK
        <3>2. u \notin claimed'
            BY <1>1, <1>3, <3>1 DEF Receive, PlaceInv
        <3>3. QED
            BY <3>1, <3>2 DEF PlaceInv, Msg
    <2>3. QED
        BY <2>1, <2>2
<1>4. ASSUME NEW w \in Worker, ReportBatch(w) \/ Restart(w)
      PROVE  PlaceInv(u)'
    <2>1. CASE Proc(u) = w
        BY <1>4, <2>1, IdleTasks DEF ReportBatch, Restart
    <2>2. CASE Proc(u) # w
        BY <1>1, <1>4, <2>2, OtherPlaces DEF ReportBatch, Restart
    <2>3. QED
        BY <2>1, <2>2
<1>5. CASE UNCHANGED taskVars
    BY <1>1, <1>5, OtherPlaces DEF taskVars
<1>6. QED
    BY <1>2, <1>3, <1>4, <1>5
    DEF Next, Heartbeat, VisibilityLapses, Redrive, LockTimesOut, LateReleaseArrives,
        vars

\* After the step of a task, TaskInv holds of it.
LEMMA TaskStepKeepsTasks ==
    ASSUME IInv, \A e \in Event : Kept(e), TypeOK', NEW t \in Task, TaskStep(t)
    PROVE  TaskInv(t)'
<1>0. /\ TypeOK /\ StoreTypeOK /\ OutcomeInv /\ TaskInv(t) /\ Kept(Key(t))
      /\ Key(t) \in Event /\ Key(t) \notin expired /\ Key(t)' = Key(t)
    BY TaskTypes DEF IInv, BaseInv, TypeOK, Key, Msg
<1>1. CASE step'[t] \notin {"publish", "complete", "ack"}
    BY <1>1 DEF TaskInv
<1>2. CASE InspectCompleted(t)
    BY <1>0, <1>2 DEF InspectCompleted, TaskInv, TypeOK, Kept, GoTo
<1>3. ASSUME NEW o \in Outcome, o = outcome'[Key(t)], Decided(Key(t))',
             held' = [held EXCEPT ![t] = o], GoTo(t, AfterOutcome(o))
      PROVE  TaskInv(t)'
    <2>1. \/ o.accepted /\ step'[t] = "publish"
          \/ ~o.accepted /\ step'[t] = "complete"
        BY <1>0, <1>3 DEF AfterOutcome, Outcome, GoTo, TypeOK
    <2>2. held'[t] = o
        BY <1>0, <1>3 DEF TypeOK
    <2>3. QED
        BY <1>0, <1>3, <2>1, <2>2 DEF TaskInv
<1>4. CASE InspectReady(t)
    <2>1. outcome[Key(t)] # NoOutcome /\ Decided(Key(t))
        BY <1>0, <1>4 DEF InspectReady, OutcomeInv, Decided
    <2>2. outcome[Key(t)] \in Outcome /\ outcome' = outcome /\ Decided(Key(t))'
        BY <1>0, <1>4, <2>1 DEF InspectReady, StoreTypeOK, storeVars, decisionVars,
           Decided
    <2>3. QED
        BY <1>3, <1>4, <2>2 DEF InspectReady
<1>5. CASE EvaluateAndStore(t) /\ ~Raise(t)
    <2>1. PICK p \in Policy :
              /\ StoreResult(Key(t), Verdict(t, p))
              /\ held' = [held EXCEPT ![t] = Verdict(t, p)]
              /\ GoTo(t, AfterOutcome(Verdict(t, p)))
        BY <1>5 DEF EvaluateAndStore
    <2>2. /\ Verdict(t, p) \in Outcome /\ Verdict(t, p) = outcome'[Key(t)]
          /\ Decided(Key(t))'
        BY <1>0, <2>1, TaskTypes DEF StoreResult, StoreTypeOK, Decided
    <2>3. QED
        BY <1>3, <2>1, <2>2
<1>6. CASE Publish(t)
    <2>1. /\ Decided(Key(t))
          /\ held[t] = outcome[Key(t)]
          /\ outcome'[Key(t)] = outcome[Key(t)]
          /\ Decided(Key(t))'
        BY <1>0, <1>6 DEF Publish, TaskInv, Kept
    <2>2. outcome'[Key(t)].payload \in published'[Key(t)]
        BY <1>0, <1>6, <2>1 DEF Publish, TypeOK
    <2>3. step'[t] \notin {"publish", "ack"}
        BY <1>0, <1>6 DEF Publish, TypeOK, GoTo, Raise, Return
    <2>4. QED
        BY <1>0, <2>1, <2>2, <2>3 DEF TaskInv
<1>7. CASE Complete(t)
    <2>1. status'[Key(t)] = "COMPLETED"
        BY <1>0, <1>7 DEF Complete, MarkCompleted, StoreTypeOK
    <2>2. step'[t] \notin {"publish", "complete"}
        BY <1>0, <1>7 DEF Complete, TypeOK, GoTo, Raise, Return
    <2>3. QED
        BY <1>0, <2>1, <2>2 DEF TaskInv
<1>8. CASE Raise(t) \/ Return(t) \/ CaptureNew(t) \/ CaptureKnown(t)
           \/ ClaimWon(t) \/ ClaimRefused(t)
    <2>1. step'[t] \notin {"publish", "complete", "ack"}
        BY <1>0, <1>8
        DEF CaptureNew, CaptureKnown, ClaimWon, ClaimRefused, Raise, Return, GoTo,
            TypeOK
    <2>2. QED
        BY <1>1, <2>1
<1>9. QED
    BY <1>2, <1>4, <1>5, <1>6, <1>7, <1>8
    DEF TaskStep, CaptureRaises, InspectBusy, CallRaises, Acknowledge, ReleaseLock

\* After any step, TaskInv holds of every task.
LEMMA NextKeepsTasks ==
    ASSUME IInv, [Next]_vars, NEW u \in Task
    PROVE  TaskInv(u)'
<1>1. BaseInv /\ TypeOK /\ TypeOK' /\ \A e \in Event : Kept(e)
    BY StepTypes, NextKeeps DEF IInv, BaseInv
<1>2. ASSUME NEW t \in Task, TaskStep(t)
      PROVE  TaskInv(u)'
    BY <1>1, <1>2, TaskStepKeepsTasks, OnlyOneMoves, OtherTasks
<1>3. ASSUME NEW w \in Worker, Receive(w)
      PROVE  TaskInv(u)'
    <2>1. CASE step'[u] = step[u]
        BY <1>1, <1>3, <2>1, OtherTasks DEF Receive
    <2>2. CASE step'[u] # step[u]
        <3>1. step'[u] = "capture"
            BY <1>1, <1>3, <2>2 DEF Receive, TypeOK
        <3>2. QED
            BY <3>1 DEF TaskInv
    <2>3. QED
        BY <2>1, <2>2
<1>4. ASSUME NEW w \in Worker, ReportBatch(w) \/ Restart(w)
      PROVE  TaskInv(u)'
    <2>1. CASE Proc(u) = w
        BY <1>4, <2>1, IdleTasks DEF ReportBatch, Restart
    <2>2. CASE Proc(u) # w
        BY <1>1, <1>4, <2>2, OtherTasks DEF ReportBatch, Restart
    <2>3. QED
        BY <2>1, <2>2
<1>5. CASE UNCHANGED taskVars
    BY <1>1, <1>5, OtherTasks DEF taskVars
<1>6. QED
    BY <1>2, <1>3, <1>4, <1>5
    DEF Next, Heartbeat, VisibilityLapses, Redrive, LockTimesOut, LateReleaseArrives,
        vars

-----------------------------------------------------------------------------
(* Table, output bus and queue *)

\* OutcomeInv and DecidedIsCaptured speak of the table alone; the writes that
\* could break them are the claim (after the capture) and store_result (with
\* a verdict on the captured payload).
LEMMA NextKeepsTable ==
    ASSUME BaseInv, [Next]_vars
    PROVE  OutcomeInv' /\ DecidedIsCaptured'
<1>0. TypeOK /\ StoreTypeOK /\ OutcomeInv /\ DecidedIsCaptured
    BY DEF BaseInv, TypeOK
<1>1. ASSUME NEW e \in Event,
             \/ UNCHANGED storeVars
             \/ \E p \in Payload : PutOccurrence(e, p)
             \/ MarkCompleted(e) \/ Extend(e) \/ Release(e) \/ ReleaseDelayed(e)
             \/ LockLapses(e)
      PROVE  OutcomeInv' /\ DecidedIsCaptured'
    <2>1. OutcomeInv'
        BY <1>0, <1>1
        DEF OutcomeInv, Decided, StoreTypeOK, storeVars, decisionVars, PutOccurrence,
            MarkCompleted, Extend, Release, ReleaseDelayed, LockLapses
    <2>2. DecidedIsCaptured'
        BY <1>0, <1>1, StoreAssumption
        DEF DecidedIsCaptured, OutcomeInv, Decided, StoreTypeOK, storeVars,
            decisionVars, PutOccurrence, MarkCompleted, Extend, Release,
            ReleaseDelayed, LockLapses
    <2>3. QED
        BY <2>1, <2>2
<1>2. ASSUME NEW t \in Task, PutClaim(Key(t)),
             step[t] \in {"claim", "reclaim"}
      PROVE  OutcomeInv' /\ DecidedIsCaptured'
    <2>1. occurrence[Key(t)] # NoPayload /\ Key(t) \in Event
        BY <1>2, TaskTypes, StoreAssumption DEF BaseInv, PlaceInv
    <2>2. QED
        BY <1>0, <1>2, <2>1
        DEF OutcomeInv, DecidedIsCaptured, Decided, StoreTypeOK, PutClaim, Claimable
<1>3. ASSUME NEW t \in Task, NEW p \in Policy, StoreResult(Key(t), Verdict(t, p)),
             step[t] = "evaluate"
      PROVE  OutcomeInv' /\ DecidedIsCaptured'
    <2>1. /\ occurrence[Key(t)] = Verdict(t, p).payload
          /\ Key(t) \in Event
          /\ Verdict(t, p) # NoOutcome
        BY <1>3, TaskTypes, StoreAssumption DEF BaseInv, PlaceInv, Verdict
    <2>2. QED
        BY <1>0, <1>3, <2>1
        DEF OutcomeInv, DecidedIsCaptured, Decided, StoreTypeOK, StoreResult
<1>4. ASSUME NEW t \in Task, TaskStep(t) \/ Heartbeat(t)
      PROVE  OutcomeInv' /\ DecidedIsCaptured'
    BY <1>1, <1>2, <1>3, <1>4, TaskTypes
    DEF TaskStep, Heartbeat, CaptureNew, CaptureKnown, CaptureRaises, ClaimWon,
        ClaimRefused, InspectCompleted, InspectReady, InspectBusy,
        EvaluateAndStore, Publish, Complete, CallRaises, Acknowledge, ReleaseLock
<1>5. CASE UNCHANGED storeVars
    BY <1>0, <1>5 DEF OutcomeInv, DecidedIsCaptured, Decided, storeVars, decisionVars
<1>6. QED
    BY <1>1, <1>4, <1>5
    DEF Next, Receive, ReportBatch, Restart, VisibilityLapses, Redrive,
        LockTimesOut, LateReleaseArrives, vars

\* What a step adds to the output bus is what some task has in hand.
LEMMA NextPublishes ==
    ASSUME TypeOK, [Next]_vars, NEW e \in Event, published'[e] # published[e]
    PROVE  \E t \in Task : /\ Key(t) = e
                           /\ step[t] = "publish"
                           /\ published'[e] = published[e] \cup {held[t].payload}
<1>1. ASSUME NEW t \in Task, Publish(t)
      PROVE  /\ Key(t) = e
             /\ step[t] = "publish"
             /\ published'[e] = published[e] \cup {held[t].payload}
    BY <1>1 DEF Publish, TypeOK
<1>2. CASE UNCHANGED published
    BY <1>2
<1>3. QED
    BY <1>1, <1>2
    DEF Next, TaskStep, Heartbeat, CaptureNew, CaptureKnown, CaptureRaises,
        ClaimWon, ClaimRefused, InspectCompleted, InspectReady, InspectBusy,
        EvaluateAndStore, Complete, CallRaises, Acknowledge, ReleaseLock,
        Receive, ReportBatch, Restart, VisibilityLapses, Redrive, LockTimesOut,
        LateReleaseArrives, vars

\* Only a task at "complete" completes a decision.
LEMMA NextCompletes ==
    ASSUME TypeOK, [Next]_vars, NEW e \in Event,
           status[e] # "COMPLETED", status'[e] = "COMPLETED"
    PROVE  \E t \in Task : Key(t) = e /\ step[t] = "complete"
<1>0. StoreTypeOK
    BY DEF TypeOK
<1>1. ASSUME NEW t \in Task, Complete(t)
      PROVE  Key(t) = e /\ step[t] = "complete"
    BY <1>0, <1>1 DEF Complete, MarkCompleted, StoreTypeOK
<1>2. ASSUME NEW t \in Task, TaskStep(t) \/ Heartbeat(t), ~Complete(t)
      PROVE  FALSE
    <2>1. \/ UNCHANGED status
          \/ PutClaim(Key(t)) \/ Release(Key(t))
          \/ \E o : StoreResult(Key(t), o)
        BY <1>2
        DEF TaskStep, Heartbeat, CaptureNew, CaptureKnown, CaptureRaises, ClaimWon,
            ClaimRefused, InspectCompleted, InspectReady, InspectBusy,
            EvaluateAndStore, Publish, CallRaises, Acknowledge, ReleaseLock,
            storeVars, decisionVars, PutOccurrence, Extend, ReleaseDelayed
    <2>2. QED
        BY <1>0, <2>1 DEF StoreTypeOK, PutClaim, StoreResult, Release
<1>3. ASSUME NEW k \in Event, LateReleaseArrives(k)
      PROVE  FALSE
    BY <1>0, <1>3 DEF LateReleaseArrives, Release, StoreTypeOK
<1>4. ASSUME UNCHANGED status
      PROVE  FALSE
    BY <1>4
<1>5. QED
    BY <1>1, <1>2, <1>3, <1>4
    DEF Next, Receive, ReportBatch, Restart, VisibilityLapses, Redrive,
        LockTimesOut, LockLapses, vars, storeVars, decisionVars

\* Only a task that has seen its decision COMPLETED deletes its message.
LEMMA NextDeletes ==
    ASSUME TypeOK, [Next]_vars, NEW m \in Message,
           queue[m] # "deleted", queue'[m] = "deleted"
    PROVE  \E t \in Task : Msg(t) = m /\ step[t] = "ack"
<1>1. ASSUME NEW t \in Task, TaskStep(t) \/ Heartbeat(t), ~Acknowledge(t)
      PROVE  UNCHANGED queue
    BY <1>1
    DEF TaskStep, Heartbeat, CaptureNew, CaptureKnown, CaptureRaises, ClaimWon,
        ClaimRefused, InspectCompleted, InspectReady, InspectBusy,
        EvaluateAndStore, Publish, Complete, CallRaises, ReleaseLock, queueVars
<1>2. ASSUME \/ \E w \in Worker : Receive(w) \/ Restart(w)
             \/ \E n \in Message : VisibilityLapses(n) \/ Redrive(n)
             \/ \E e \in Event : LockTimesOut(e) \/ LateReleaseArrives(e)
             \/ UNCHANGED vars
      PROVE  FALSE
    BY <1>2
    DEF Receive, Restart, VisibilityLapses, Redrive, LockTimesOut,
        LateReleaseArrives, vars, queueVars, TypeOK
<1>3. ASSUME NEW t \in Task, Acknowledge(t)
      PROVE  Msg(t) = m /\ step[t] = "ack"
    BY <1>3 DEF Acknowledge, TypeOK
<1>4. ASSUME NEW w \in Worker, ReportBatch(w)
      PROVE  \E t \in Task : Msg(t) = m /\ step[t] = "ack"
    BY <1>4 DEF ReportBatch, Returned, TypeOK
<1>5. QED
    BY <1>1, <1>2, <1>3, <1>4 DEF Next

\* Such a task has a well-formed message, whose payload is the captured one.
LEMMA AckersArePlaced ==
    ASSUME BaseInv, NEW t \in Task, step[t] = "ack"
    PROVE  /\ Msg(t) \in Message /\ Key(t) = EventOf[Msg(t)] /\ Key(t) \in Event
           /\ Msg(t) \notin Malformed \cup Oversize
           /\ occurrence[Key(t)] = PayloadOf[Msg(t)]
BY TaskTypes DEF BaseInv, PlaceInv, Key

-----------------------------------------------------------------------------
(* The invariants *)

LEMMA InitInv == Init => IInv
<1> SUFFICES ASSUME Init PROVE IInv
    OBVIOUS
<1> USE DEF Init, StoreInit
<1>1. TypeOK
    BY WorkerAssumption DEF TypeOK, StoreTypeOK, Status, Step
<1>2. BaseInv
    BY <1>1 DEF BaseInv, OutcomeInv, DecidedIsCaptured, Decided, PlaceInv
<1>3. QED
    BY <1>2 DEF IInv, PublishedIsDecided, CompletedIsPublished, AckedIsCompleted,
                TaskInv

LEMMA NextBaseInv == BaseInv /\ [Next]_vars => BaseInv'
<1> SUFFICES ASSUME BaseInv, [Next]_vars PROVE BaseInv'
    OBVIOUS
<1>1. TypeOK' /\ OutcomeInv' /\ DecidedIsCaptured'
    BY StepTypes, NextKeepsTable
<1>2. (\A t \in Task : PlaceInv(t))'
    BY NextKeepsPlaces DEF Task
<1>3. QED
    BY <1>1, <1>2 DEF BaseInv

LEMMA NextInv == IInv /\ [Next]_vars => IInv'
<1> SUFFICES ASSUME IInv, [Next]_vars PROVE IInv'
    OBVIOUS
<1>1. BaseInv /\ BaseInv' /\ TypeOK
    BY NextBaseInv DEF IInv, BaseInv
<1>2. expired = {} /\ expired' = {} /\ \A e \in Event : Kept(e)
    BY <1>1, NextKeeps DEF IInv
<1>3. (\A t \in Task : TaskInv(t))'
    BY NextKeepsTasks DEF Task
<1>4. CompletedIsPublished'
    <2> SUFFICES ASSUME NEW e \in Event, status'[e] = "COMPLETED",
                        outcome'[e].accepted
                 PROVE  outcome'[e].payload \in published'[e]
        BY DEF CompletedIsPublished
    <2>1. CASE status[e] = "COMPLETED"
        BY <1>2, <2>1 DEF IInv, CompletedIsPublished, Kept
    <2>2. CASE status[e] # "COMPLETED"
        <3>1. PICK t \in Task : Key(t) = e /\ step[t] = "complete"
            BY <1>1, <2>2, NextCompletes
        <3>2. outcome[e].accepted => outcome[e].payload \in published[e]
            BY <3>1 DEF IInv, TaskInv
        <3>3. QED
            BY <1>2, <3>2 DEF Kept
    <2>3. QED
        BY <2>1, <2>2
<1>5. PublishedIsDecided'
    <2> SUFFICES ASSUME NEW e \in Event, published'[e] # {}
                 PROVE  /\ Decided(e)' /\ outcome'[e].accepted
                        /\ published'[e] = {outcome'[e].payload}
        BY DEF PublishedIsDecided
    <2>1. CASE published'[e] = published[e]
        BY <1>2, <2>1 DEF IInv, PublishedIsDecided, Kept
    <2>2. CASE published'[e] # published[e]
        <3>1. PICK t \in Task : /\ Key(t) = e
                               /\ step[t] = "publish"
                               /\ published'[e] = published[e] \cup {held[t].payload}
            BY <1>1, <2>2, NextPublishes
        <3>2. Decided(e) /\ held[t] = outcome[e] /\ outcome[e].accepted
            BY <3>1 DEF IInv, TaskInv
        <3>3. QED
            BY <1>2, <3>1, <3>2 DEF IInv, PublishedIsDecided, Kept
    <2>3. QED
        BY <2>1, <2>2
<1>6. AckedIsCompleted'
    <2> SUFFICES ASSUME NEW m \in Message, queue'[m] = "deleted"
                 PROVE  /\ m \notin Malformed \cup Oversize
                        /\ status'[EventOf[m]] = "COMPLETED"
                        /\ outcome'[EventOf[m]].payload = PayloadOf[m]
        BY DEF AckedIsCompleted
    <2>1. /\ m \notin Malformed \cup Oversize
          /\ status[EventOf[m]] = "COMPLETED"
          /\ outcome[EventOf[m]].payload = PayloadOf[m]
        <3>1. CASE queue[m] = "deleted"
            BY <3>1 DEF IInv, AckedIsCompleted
        <3>2. CASE queue[m] # "deleted"
            <4>1. PICK t \in Task : Msg(t) = m /\ step[t] = "ack"
                BY <1>1, <3>2, NextDeletes
            <4>2. status[Key(t)] = "COMPLETED"
                BY <4>1 DEF IInv, TaskInv
            <4>3. QED
                BY <1>1, <4>1, <4>2, AckersArePlaced
                DEF BaseInv, DecidedIsCaptured, Decided
        <3>3. QED
            BY <3>1, <3>2
    <2>2. EventOf[m] \in Event
        BY WorkerAssumption
    <2>3. QED
        BY <1>2, <2>1, <2>2 DEF Kept, Decided
<1>7. QED
    BY <1>1, <1>2, <1>3, <1>4, <1>5, <1>6 DEF IInv

-----------------------------------------------------------------------------
(* The theorems *)

\* Every reachable state of the worker satisfies IInv, and with it the types,
\* for any number of workers, messages and receives.
THEOREM WorkerInvariant == Spec => []IInv
<1>1. QED
    BY InitInv, NextInv, PTL DEF Spec

\* Types of the table, the queue and the tasks in every reachable state.
THEOREM TypeCorrect == Spec => []TypeOK
<1>1. IInv => TypeOK
    BY DEF IInv, BaseInv
<1>2. QED
    BY <1>1, WorkerInvariant, PTL

\* Whatever crashes, lapses and lost responses, only the payload of the stored
\* accepting decision is ever on the output bus.
THEOREM PublicationSafety == Spec => []PublishedIsDecided
<1>1. IInv => PublishedIsDecided
    BY DEF IInv, BaseInv
<1>2. QED
    BY <1>1, WorkerInvariant, PTL

\* An accepted alert is published before its decision is COMPLETED.
THEOREM CompletionSafety == Spec => []CompletedIsPublished
<1>1. IInv => CompletedIsPublished
    BY DEF IInv, BaseInv
<1>2. QED
    BY <1>1, WorkerInvariant, PTL

\* A message is acknowledged only on the completed decision of its payload.
THEOREM AcknowledgementSafety == Spec => []AckedIsCompleted
<1>1. IInv => AckedIsCompleted
    BY DEF IInv, BaseInv
<1>2. QED
    BY <1>1, WorkerInvariant, PTL

\* No decision without its evidence, and on that evidence.
THEOREM EvidenceSafety == Spec => []DecidedIsCaptured
<1>1. IInv => DecidedIsCaptured
    BY DEF IInv, BaseInv
<1>2. QED
    BY <1>1, WorkerInvariant, PTL

\* A stored decision never changes and a completed one is never reopened.
THEOREM DecisionFinality == Spec => DecisionIsFinal
<1>1. IInv /\ [Next]_vars =>
          [\A e \in Event :
              /\ Decided(e) => Decided(e)' /\ outcome'[e] = outcome[e]
              /\ status[e] = "COMPLETED" => status'[e] = "COMPLETED"]_vars
    BY NextKeeps DEF Kept, IInv
<1>2. QED
    BY <1>1, WorkerInvariant, PTL DEF Spec, DecisionIsFinal

-----------------------------------------------------------------------------
(* Decisions that outlive their TTL *)

\* A decision expires or is swept away: no task and no captured payload notices.
LEMMA AgeKeepsBase ==
    ASSUME BaseInv, NEW e \in Event, DecisionAges(e)
    PROVE  /\ BaseInv'
           /\ \A k \in Event : status'[k] = status[k] \/ status'[k] = "ABSENT"
           /\ \A k \in Event : status'[k] # "ABSENT" => outcome'[k] = outcome[k]
           /\ UNCHANGED <<occurrence, queueVars, taskVars, published>>
<1>0. TypeOK /\ StoreTypeOK
    BY DEF BaseInv, TypeOK
<1>1. /\ \A k \in Event :
            \/ status'[k] = status[k] /\ outcome'[k] = outcome[k]
            \/ status'[k] = "ABSENT" /\ outcome'[k] = NoOutcome
      /\ UNCHANGED <<occurrence, queueVars, taskVars, published>>
    BY <1>0 DEF DecisionAges, DecisionExpires, ExpiredItemRemoved, StoreTypeOK
<1>2. TypeOK'
    <2>1. StoreTypeOK'
        BY <1>0 DEF DecisionAges, DecisionExpires, ExpiredItemRemoved, StoreTypeOK, Status
    <2>2. QED
        BY <1>0, <1>1, <2>1 DEF TypeOK, queueVars, taskVars
<1>3. OutcomeInv'
    BY <1>0, <1>1 DEF BaseInv, OutcomeInv, Decided
<1>4. DecidedIsCaptured'
    BY <1>0, <1>1 DEF BaseInv, DecidedIsCaptured, Decided
<1>5. ASSUME NEW u \in Task PROVE PlaceInv(u)'
    BY <1>1 DEF BaseInv, PlaceInv, taskVars, Key, Msg
<1>6. QED
    BY <1>1, <1>2, <1>3, <1>4, <1>5 DEF BaseInv, Task

\* A task that comes to publish has an accepted outcome that is in the table, or
\* was already there to publish it.
LEMMA PublishersAccepted ==
    ASSUME BaseInv, BaseInv', NEW t \in Task, TaskStep(t), step'[t] = "publish"
    PROVE  /\ held'[t] = outcome'[Key(t)] /\ held'[t].accepted
           /\ status'[Key(t)] = "READY"
<1>0. TypeOK /\ StoreTypeOK /\ OutcomeInv /\ Key(t) \in Event
    BY TaskTypes DEF BaseInv, TypeOK
<1>1. CASE InspectReady(t)
    <2>1. outcome[Key(t)].accepted
        BY <1>0, <1>1 DEF InspectReady, GoTo, AfterOutcome, TypeOK
    <2>2. QED
        BY <1>0, <1>1, <2>1 DEF InspectReady, TypeOK, storeVars, decisionVars
<1>2. CASE EvaluateAndStore(t)
    <2>1. ~Raise(t)
        BY <1>0 DEF Raise, Return, GoTo, TypeOK
    <2>2. PICK p \in Policy :
              /\ StoreResult(Key(t), Verdict(t, p))
              /\ held' = [held EXCEPT ![t] = Verdict(t, p)]
              /\ GoTo(t, AfterOutcome(Verdict(t, p)))
        BY <1>2, <2>1 DEF EvaluateAndStore
    <2>3. Verdict(t, p).accepted
        BY <1>0, <2>2 DEF GoTo, AfterOutcome, TypeOK
    <2>4. QED
        BY <1>0, <2>2, <2>3 DEF TypeOK, StoreTypeOK, StoreResult
<1>3. CASE ~InspectReady(t) /\ ~EvaluateAndStore(t)
    BY <1>0, <1>3
    DEF TypeOK, TaskStep, CaptureNew, CaptureKnown, CaptureRaises, ClaimWon,
        ClaimRefused, InspectCompleted, InspectBusy, Publish, Complete, CallRaises,
        Acknowledge, ReleaseLock, GoTo, Return, Raise
<1>4. QED
    BY <1>1, <1>2, <1>3

\* A task that comes to acknowledge has just seen, or made, the item COMPLETED.
LEMMA AckersCompleted ==
    ASSUME BaseInv, NEW t \in Task, TaskStep(t), step'[t] = "ack"
    PROVE  status'[Key(t)] = "COMPLETED"
<1>0. TypeOK /\ StoreTypeOK /\ Key(t) \in Event
    BY TaskTypes DEF BaseInv, TypeOK
<1>1. CASE InspectCompleted(t) \/ Complete(t)
    BY <1>0, <1>1
    DEF InspectCompleted, Complete, MarkCompleted, StoreTypeOK, storeVars, decisionVars
<1>2. CASE ~InspectCompleted(t) /\ ~Complete(t)
    BY <1>0, <1>2
    DEF TypeOK, TaskStep, CaptureNew, CaptureKnown, CaptureRaises, ClaimWon,
        ClaimRefused, InspectReady, InspectBusy, EvaluateAndStore, Publish,
        CallRaises, Acknowledge, ReleaseLock, GoTo, Return, Raise, AfterOutcome
<1>3. QED
    BY <1>1, <1>2

\* A step other than its own does not bring a task to "publish" or "ack".
LEMMA OthersAreNotMoved ==
    ASSUME TypeOK, AgeingNext, NEW u \in Task, ~TaskStep(u),
           step'[u] \in {"publish", "ack"}
    PROVE  step[u] = step'[u] /\ held[u] = held'[u]
<1>1. ASSUME NEW t \in Task, TaskStep(t)
      PROVE  step[u] = step'[u] /\ held[u] = held'[u]
    BY <1>1, OnlyOneMoves
<1>2. ASSUME NEW w \in Worker, Receive(w) \/ ReportBatch(w) \/ Restart(w)
      PROVE  step[u] = step'[u] /\ held[u] = held'[u]
    BY <1>2 DEF Receive, ReportBatch, Restart, TypeOK
<1>3. QED
    BY <1>1, <1>2
    DEF AgeingNext, Next, DecisionAges, Heartbeat, VisibilityLapses, Redrive,
        LockTimesOut, LateReleaseArrives, taskVars

LEMMA NextAgeingInv == AgeingInv /\ [AgeingNext]_ageingVars => AgeingInv'
<1> SUFFICES ASSUME AgeingInv, [AgeingNext]_ageingVars PROVE AgeingInv'
    OBVIOUS
<1>1. CASE UNCHANGED ageingVars
    <2>1. BaseInv'
        BY <1>1, NextBaseInv DEF AgeingInv, ageingVars
    <2>2. QED
        BY <1>1, <2>1
        DEF AgeingInv, ageingVars, vars, storeVars, decisionVars, queueVars, taskVars,
            PayloadsOf, AcceptedNow, CompletedNow, AckedWasCompleted,
            PublishedWasDecided, Key, Msg
<1>2. CASE AgeingNext
    <2>0. BaseInv /\ TypeOK
        BY DEF AgeingInv, BaseInv
    <2>1. BaseInv'
        BY <1>2, <2>0, NextBaseInv, AgeKeepsBase DEF AgeingNext
    <2>2. /\ accepted \subseteq accepted' /\ completed \subseteq completed'
          /\ PayloadsOf(AcceptedNow)' \subseteq accepted'
          /\ PayloadsOf(CompletedNow)' \subseteq completed'
          /\ accepted' \subseteq accepted \cup PayloadsOf(AcceptedNow)'
          /\ completed' \subseteq completed \cup PayloadsOf(CompletedNow)'
        BY <1>2 DEF AgeingNext
    <2>3. /\ PayloadsOf(AcceptedNow)' \subseteq Event \X Payload
          /\ PayloadsOf(CompletedNow)' \subseteq Event \X Payload
        <3>1. \A e \in Event : Decided(e)' => outcome'[e].payload \in Payload
            BY <2>1 DEF BaseInv, TypeOK, StoreTypeOK, OutcomeInv, Outcome
        <3>2. QED
            BY <3>1 DEF PayloadsOf, AcceptedNow, CompletedNow, Decided
    <2>4. /\ accepted' \subseteq Event \X Payload
          /\ completed' \subseteq Event \X Payload
        BY <2>2, <2>3 DEF AgeingInv
    <2>5. ASSUME NEW u \in Task, step'[u] = "publish"
          PROVE  held'[u].accepted /\ <<Key(u), held'[u].payload>> \in accepted'
        <3>1. CASE TaskStep(u)
            <4>1. /\ held'[u] = outcome'[Key(u)] /\ held'[u].accepted
                  /\ status'[Key(u)] = "READY"
                BY <2>0, <2>1, <2>5, <3>1, PublishersAccepted
            <4>2. <<Key(u), outcome'[Key(u)].payload>> \in PayloadsOf(AcceptedNow)'
                BY <4>1, TaskTypes DEF PayloadsOf, AcceptedNow
            <4>3. QED
                BY <2>2, <4>1, <4>2
        <3>2. CASE ~TaskStep(u)
            BY <1>2, <2>0, <2>2, <2>5, <3>2, OthersAreNotMoved DEF AgeingInv
        <3>3. QED
            BY <3>1, <3>2
    <2>6. ASSUME NEW u \in Task, step'[u] = "ack"
          PROVE  <<Key(u), PayloadOf[Msg(u)]>> \in completed'
        <3>1. CASE TaskStep(u)
            <4>1. status'[Key(u)] = "COMPLETED" /\ Key(u) \in Event
                BY <2>0, <2>6, <3>1, AckersCompleted, TaskTypes
            <4>2. occurrence'[Key(u)] = PayloadOf[Msg(u)]
                BY <2>1, <2>6 DEF BaseInv, PlaceInv, Key, Msg
            <4>3. occurrence'[Key(u)] = outcome'[Key(u)].payload
                BY <2>1, <4>1 DEF BaseInv, DecidedIsCaptured, Decided
            <4>4. <<Key(u), outcome'[Key(u)].payload>> \in PayloadsOf(CompletedNow)'
                BY <4>1 DEF PayloadsOf, CompletedNow
            <4>5. QED
                BY <2>2, <4>2, <4>3, <4>4
        <3>2. CASE ~TaskStep(u)
            BY <1>2, <2>0, <2>2, <2>6, <3>2, OthersAreNotMoved DEF AgeingInv
        <3>3. QED
            BY <3>1, <3>2
    <2>7. AckedWasCompleted'
        <3> SUFFICES ASSUME NEW m \in Message, queue'[m] = "deleted"
                     PROVE  /\ m \notin Malformed \cup Oversize
                            /\ <<EventOf[m], PayloadOf[m]>> \in completed'
            BY DEF AckedWasCompleted
        <3>1. CASE queue[m] = "deleted"
            BY <2>2, <3>1 DEF AgeingInv, AckedWasCompleted
        <3>2. CASE queue[m] # "deleted"
            <4>1. PICK t \in Task : Msg(t) = m /\ step[t] = "ack"
                <5>1. CASE Next
                    BY <2>0, <3>2, <5>1, NextDeletes
                <5>2. CASE \E e \in Event : DecisionAges(e)
                    BY <3>2, <5>2 DEF DecisionAges, queueVars
                <5>3. QED
                    BY <1>2, <5>1, <5>2 DEF AgeingNext
            <4>2. QED
                BY <2>0, <2>2, <4>1, AckersArePlaced DEF AgeingInv
        <3>3. QED
            BY <3>1, <3>2
    <2>8. PublishedWasDecided'
        <3> SUFFICES ASSUME NEW e \in Event, NEW p \in published'[e]
                     PROVE  <<e, p>> \in accepted'
            BY DEF PublishedWasDecided
        <3>1. CASE published'[e] = published[e]
            BY <2>2, <3>1 DEF AgeingInv, PublishedWasDecided
        <3>2. CASE published'[e] # published[e]
            <4>1. Next
                BY <1>2, <3>2 DEF AgeingNext, DecisionAges
            <4>2. PICK t \in Task : /\ Key(t) = e
                                   /\ step[t] = "publish"
                                   /\ published'[e] = published[e] \cup {held[t].payload}
                BY <2>0, <3>2, <4>1, NextPublishes
            <4>3. QED
                BY <2>2, <4>2 DEF AgeingInv, PublishedWasDecided
        <3>3. QED
            BY <3>1, <3>2
    <2>9. QED
        BY <2>1, <2>2, <2>4, <2>5, <2>6, <2>7, <2>8 DEF AgeingInv, Task, Key, Msg
<1>3. QED
    BY <1>1, <1>2

\* What is left of IInv when decisions may expire under the tasks that hold them:
\* types, evidence before decision, the payload every task acts on, and that what
\* it publishes or acknowledges was once decided so.
THEOREM AgeingInvariant == AgeingSpec => []AgeingInv
<1>1. Init /\ accepted = {} /\ completed = {} => AgeingInv
    <2> SUFFICES ASSUME Init, accepted = {}, completed = {} PROVE AgeingInv
        OBVIOUS
    <2>1. BaseInv
        BY InitInv DEF IInv
    <2>2. QED
        BY <2>1 DEF AgeingInv, Init, StoreInit, PayloadsOf, AcceptedNow, CompletedNow,
                    AckedWasCompleted, PublishedWasDecided
<1>2. QED
    BY <1>1, NextAgeingInv, PTL DEF AgeingSpec

\* However old the decision, and whatever replaced it, a message is deleted only
\* after a decision on its own payload was COMPLETED.
THEOREM AgedAcknowledgement == AgeingSpec => []AckedWasCompleted
<1>1. AgeingInv => AckedWasCompleted
    BY DEF AgeingInv
<1>2. QED
    BY <1>1, AgeingInvariant, PTL

\* What a slow task publishes was decided and accepted, if perhaps long ago.
THEOREM AgedPublication == AgeingSpec => []PublishedWasDecided
<1>1. AgeingInv => PublishedWasDecided
    BY DEF AgeingInv
<1>2. QED
    BY <1>1, AgeingInvariant, PTL

-----------------------------------------------------------------------------
(* The refinement *)

CompletedEvents == {e \in Event : status[e] = "COMPLETED"}
DeletedMessages == {m \in Message : queue[m] = "deleted"}

\* A step that leaves outcomes, publications, the set of completed events and
\* the set of deleted messages alone is a stuttering step of the promise.
LEMMA PromiseStutters ==
    ASSUME outcome' = outcome, published' = published,
           CompletedEvents' = CompletedEvents, DeletedMessages' = DeletedMessages
    PROVE  [Promise!Next]_(Promise!vars)
BY DEF Promise!vars, CompletedEvents, DeletedMessages

LEMMA PromiseInit == Init => Promise!Init
BY DEF Init, StoreInit, Promise!Init

\* The step of a task decides, announces, settles, acknowledges, or stutters.
LEMMA TaskKeepsPromise ==
    ASSUME IInv, NEW t \in Task, TaskStep(t)
    PROVE  [Promise!Next]_(Promise!vars)
<1>0. TypeOK /\ StoreTypeOK /\ TaskInv(t) /\ OutcomeInv /\ expired = {}
      /\ Key(t) \in Event /\ Msg(t) \in Message /\ Key(t) = EventOf[Msg(t)]
    BY TaskTypes DEF IInv, BaseInv, TypeOK, Key
<1>1. CASE CaptureNew(t) \/ CaptureKnown(t) \/ CaptureRaises(t)
           \/ ClaimRefused(t) \/ InspectCompleted(t) \/ InspectReady(t)
           \/ InspectBusy(t) \/ CallRaises(t)
    <2>1. UNCHANGED <<status, outcome, published, queue>>
        BY <1>1
        DEF CaptureNew, CaptureKnown, CaptureRaises, ClaimRefused,
            InspectCompleted, InspectReady, InspectBusy, CallRaises,
            PutOccurrence, storeVars, decisionVars, queueVars
    <2>2. QED
        BY <2>1, PromiseStutters DEF CompletedEvents, DeletedMessages
<1>2. CASE ClaimWon(t) \/ ReleaseLock(t)
    <2>1. published' = published /\ queue' = queue
        BY <1>2 DEF ClaimWon, ReleaseLock, queueVars
    <2>2. outcome' = outcome /\ CompletedEvents' = CompletedEvents
        <3>1. CASE UNCHANGED storeVars \/ ReleaseDelayed(Key(t))
            BY <3>1 DEF storeVars, decisionVars, ReleaseDelayed, CompletedEvents
        <3>2. CASE Release(Key(t))
            BY <1>0, <3>2 DEF Release, CompletedEvents, StoreTypeOK
        <3>3. CASE PutClaim(Key(t))
            <4>1. outcome[Key(t)] = NoOutcome /\ status[Key(t)] # "COMPLETED"
                BY <1>0, <3>3 DEF PutClaim, Claimable, OutcomeInv, Decided
            <4>2. QED
                BY <1>0, <3>3, <4>1 DEF PutClaim, CompletedEvents, StoreTypeOK
        <3>4. QED
            BY <1>2, <3>1, <3>2, <3>3 DEF ClaimWon, ReleaseLock
    <2>3. QED
        BY <2>1, <2>2, PromiseStutters DEF DeletedMessages
<1>3. CASE EvaluateAndStore(t)
    <2>1. PICK p \in Policy : StoreResult(Key(t), Verdict(t, p))
        BY <1>3 DEF EvaluateAndStore
    <2>2. outcome[Key(t)] = NoOutcome
        BY <1>0, <2>1 DEF StoreResult, OutcomeInv, Decided
    <2>3. CompletedEvents' = CompletedEvents
        BY <1>0, <2>1 DEF StoreResult, CompletedEvents, StoreTypeOK
    <2>4. published' = published /\ DeletedMessages' = DeletedMessages
        BY <1>3 DEF EvaluateAndStore, queueVars, DeletedMessages
    <2>5. Promise!Decide(Msg(t))
        <3>1. (PayloadOf[Msg(t)] \in Accepts[p]) \in BOOLEAN
            OBVIOUS
        <3>2. outcome' = [outcome EXCEPT ![EventOf[Msg(t)]] =
                  [payload |-> PayloadOf[Msg(t)],
                   accepted |-> PayloadOf[Msg(t)] \in Accepts[p]]]
            BY <1>0, <2>1 DEF StoreResult, Verdict
        <3>3. QED
            BY <1>0, <2>2, <2>3, <2>4, <3>1, <3>2
            DEF Promise!Decide, CompletedEvents, DeletedMessages
    <2>6. QED
        BY <1>0, <2>5 DEF Promise!Next
<1>4. CASE Publish(t)
    <2>1. /\ Decided(Key(t))
          /\ outcome[Key(t)].accepted
          /\ held[t] = outcome[Key(t)]
          /\ outcome[Key(t)] # NoOutcome
        BY <1>0, <1>4 DEF Publish, TaskInv, OutcomeInv
    <2>2. Promise!Announce(Key(t))
        BY <1>4, <2>1
        DEF Promise!Announce, Publish, storeVars, decisionVars, queueVars
    <2>3. QED
        BY <1>0, <2>2 DEF Promise!Next
<1>5. CASE Complete(t)
    <2>1. /\ outcome[Key(t)] # NoOutcome
          /\ outcome[Key(t)].accepted =>
                outcome[Key(t)].payload \in published[Key(t)]
        BY <1>0, <1>5 DEF Complete, TaskInv, OutcomeInv
    <2>2. CompletedEvents' = CompletedEvents \cup {Key(t)}
        BY <1>0, <1>5 DEF Complete, MarkCompleted, CompletedEvents, StoreTypeOK
    <2>3. Promise!Settle(Key(t))
        BY <1>5, <2>1, <2>2
        DEF Promise!Settle, Complete, MarkCompleted, CompletedEvents, queueVars
    <2>4. QED
        BY <1>0, <2>3 DEF Promise!Next
<1>6. CASE Acknowledge(t)
    <2>1. UNCHANGED <<status, outcome, published>>
        BY <1>6 DEF Acknowledge, storeVars, decisionVars
    <2>2. CASE queue' = queue
        BY <2>1, <2>2, PromiseStutters DEF CompletedEvents, DeletedMessages
    <2>3. CASE queue' = [queue EXCEPT ![Msg(t)] = "deleted"]
        <3>1. /\ status[Key(t)] = "COMPLETED"
              /\ outcome[Key(t)].payload = PayloadOf[Msg(t)]
            BY <1>0, <1>6, AckersArePlaced
            DEF Acknowledge, TaskInv, IInv, BaseInv, DecidedIsCaptured, Decided
        <3>2. DeletedMessages' = DeletedMessages \cup {Msg(t)}
            BY <1>0, <2>3 DEF DeletedMessages, TypeOK
        <3>3. Promise!Acknowledge({Msg(t)})
            BY <1>0, <2>1, <3>1, <3>2
            DEF Promise!Acknowledge, DeletedMessages
        <3>4. QED
            BY <1>0, <3>3 DEF Promise!Next
    <2>4. QED
        BY <1>6, <2>2, <2>3 DEF Acknowledge
<1>7. QED
    BY <1>1, <1>2, <1>3, <1>4, <1>5, <1>6 DEF TaskStep

LEMMA NextKeepsPromise == IInv /\ [Next]_vars => [Promise!Next]_(Promise!vars)
<1> SUFFICES ASSUME IInv, [Next]_vars PROVE [Promise!Next]_(Promise!vars)
    OBVIOUS
<1>0. TypeOK
    BY DEF IInv, BaseInv
<1>1. ASSUME NEW t \in Task, TaskStep(t) PROVE [Promise!Next]_(Promise!vars)
    BY <1>1, TaskKeepsPromise
<1>2. ASSUME \/ \E w \in Worker : Receive(w) \/ Restart(w)
             \/ \E t \in Task : Heartbeat(t)
             \/ \E m \in Message : VisibilityLapses(m) \/ Redrive(m)
             \/ \E e \in Event : LockTimesOut(e)
             \/ UNCHANGED vars
      PROVE  [Promise!Next]_(Promise!vars)
    <2>1. UNCHANGED <<status, outcome, published>>
        BY <1>2
        DEF Receive, Restart, Heartbeat, Extend, VisibilityLapses, Redrive,
            LockTimesOut, LockLapses, vars, storeVars, decisionVars
    <2>2. DeletedMessages' = DeletedMessages
        BY <1>0, <1>2
        DEF Receive, Restart, Heartbeat, VisibilityLapses, Redrive, LockTimesOut,
            vars, queueVars, TypeOK, DeletedMessages
    <2>3. QED
        BY <2>1, <2>2, PromiseStutters DEF CompletedEvents
<1>3. ASSUME NEW w \in Worker, ReportBatch(w)
      PROVE  [Promise!Next]_(Promise!vars)
    <2>1. PICK gone \in SUBSET {Msg(t) : t \in Returned(w)} :
              queue' = [m \in Message |-> IF m \in gone THEN "deleted" ELSE queue[m]]
        BY <1>3 DEF ReportBatch
    <2>2. gone \subseteq Message
        BY TaskTypes DEF Returned
    <2>3. ASSUME NEW m \in gone
          PROVE  /\ status[EventOf[m]] = "COMPLETED"
                 /\ outcome[EventOf[m]].payload = PayloadOf[m]
                 /\ EventOf[m] \in Event
        <3>1. PICK t \in Task : Msg(t) = m /\ step[t] = "ack"
            BY <2>1 DEF Returned
        <3>2. status[Key(t)] = "COMPLETED" /\ occurrence[Key(t)] = PayloadOf[m]
            BY <3>1, AckersArePlaced DEF IInv, TaskInv
        <3>3. occurrence[Key(t)] = outcome[Key(t)].payload
            BY <3>2, TaskTypes DEF IInv, BaseInv, DecidedIsCaptured, Decided
        <3>4. QED
            BY <3>1, <3>2, <3>3, TaskTypes DEF Key
    <2>4. DeletedMessages' = DeletedMessages \cup gone
        BY <1>0, <2>1, <2>2 DEF DeletedMessages, TypeOK
    <2>5. UNCHANGED <<status, outcome, published>>
        BY <1>3 DEF ReportBatch, storeVars, decisionVars
    <2>6. Promise!Acknowledge(gone)
        BY <2>3, <2>4, <2>5
        DEF Promise!Acknowledge, CompletedEvents, DeletedMessages
    <2>7. QED
        BY <2>2, <2>6 DEF Promise!Next
<1>4. ASSUME NEW e \in Event, LateReleaseArrives(e)
      PROVE  [Promise!Next]_(Promise!vars)
    BY <1>0, <1>4, PromiseStutters
    DEF LateReleaseArrives, Release, queueVars, TypeOK, StoreTypeOK, CompletedEvents,
        DeletedMessages
<1>5. QED
    BY <1>1, <1>2, <1>3, <1>4 DEF Next

\* The review worker implements AlertDecisions: seen from outside, an event is
\* decided once, announced only as decided, settled and then acknowledged.
THEOREM Refinement == Spec => KeepsPromise
<1>1. QED
    BY PromiseInit, WorkerInvariant, NextKeepsPromise, PTL
    DEF Spec, KeepsPromise, Promise!Spec
-----------------------------------------------------------------------------
(* The lock *)

\* What a step can do to the item of a task's claim that is not its own handler's.
LEMMA ClaimsSurvive ==
    ASSUME IInv, LockInv, [TimelyNext]_timelyVars, NEW t \in claimed, t \in claimed',
           Key(t) \notin struck'
    PROVE  status'[Key(t)] # "ABSENT"
<1>0. TypeOK /\ StoreTypeOK /\ expired = {} /\ t \in Task /\ Key(t) \in Event
    BY TaskTypes DEF IInv, BaseInv, TypeOK
<1>1. Key(t) \notin struck /\ ~LateReleaseArrives(Key(t))
    <2>1. CASE UNCHANGED timelyVars
        <3>1. LateReleaseArrives(Key(t)) => Key(t) \in late /\ status[Key(t)] = "ACQUIRED"
                                           /\ status'[Key(t)] = "ABSENT"
            BY <1>0 DEF LateReleaseArrives, Release, StoreTypeOK
        <3>2. QED
            BY <2>1, <3>1 DEF timelyVars, vars, storeVars, decisionVars
    <2>2. CASE TimelyNext
        BY <1>0, <2>2 DEF TimelyNext
    <2>3. QED
        BY <2>1, <2>2
<1>2. status[Key(t)] # "ABSENT"
    BY <1>1 DEF LockInv
<1>3. ASSUME NEW u \in Task, Release(Key(u)), ReleaseLock(u)
      PROVE  status'[Key(t)] # "ABSENT"
    <2>1. u \in claimed /\ u \notin claimed'
        BY <1>3 DEF LockInv, ReleaseLock, Return
    <2>2. Key(u) # Key(t)
        BY <1>1, <2>1 DEF LockInv, OneClaimant
    <2>3. QED
        BY <1>0, <1>2, <1>3, <2>2 DEF Release, StoreTypeOK
<1>4. ASSUME NEW u \in Task,
             \/ UNCHANGED storeVars
             \/ \E p \in Payload : PutOccurrence(Key(u), p)
             \/ PutClaim(Key(u))
             \/ \E o : StoreResult(Key(u), o)
             \/ MarkCompleted(Key(u)) \/ Extend(Key(u)) \/ ReleaseDelayed(Key(u))
      PROVE  status'[Key(t)] # "ABSENT"
    BY <1>0, <1>2, <1>4, TaskTypes
    DEF storeVars, decisionVars, PutOccurrence, PutClaim, StoreResult,
        MarkCompleted, Extend, ReleaseDelayed, StoreTypeOK
<1>5. ASSUME NEW u \in Task, TaskStep(u) \/ Heartbeat(u)
      PROVE  status'[Key(t)] # "ABSENT"
    <2>1. CASE ReleaseLock(u)
        BY <1>3, <1>4, <2>1 DEF ReleaseLock
    <2>2. CASE ~ReleaseLock(u)
        <3>1. \/ UNCHANGED storeVars
              \/ \E p \in Payload : PutOccurrence(Key(u), p)
              \/ PutClaim(Key(u))
              \/ \E o : StoreResult(Key(u), o)
              \/ MarkCompleted(Key(u)) \/ Extend(Key(u))
            BY <1>5, <2>2, TaskTypes
            DEF TaskStep, Heartbeat, CaptureNew, CaptureKnown, CaptureRaises,
                ClaimWon, ClaimRefused, InspectCompleted, InspectReady,
                InspectBusy, EvaluateAndStore, Publish, Complete, CallRaises,
                Acknowledge
        <3>2. QED
            BY <1>4, <3>1
    <2>3. QED
        BY <2>1, <2>2
<1>6. ASSUME NEW e \in Event, LateReleaseArrives(e)
      PROVE  status'[Key(t)] # "ABSENT"
    BY <1>0, <1>1, <1>2, <1>6 DEF LateReleaseArrives, Release, StoreTypeOK
<1>7. CASE UNCHANGED status
    BY <1>2, <1>7
<1>8. ASSUME \/ \E w \in Worker : Receive(w) \/ ReportBatch(w) \/ Restart(w)
             \/ \E m \in Message : VisibilityLapses(m) \/ Redrive(m)
             \/ \E e \in Event : LockTimesOut(e)
             \/ UNCHANGED vars
      PROVE  UNCHANGED status
    BY <1>8
    DEF Receive, ReportBatch, Restart, VisibilityLapses, Redrive, LockTimesOut,
        LockLapses, vars, storeVars, decisionVars
<1>9. QED
    BY <1>5, <1>6, <1>7, <1>8 DEF TimelyNext, timelyVars, Next

\* Heartbeats on time, put as an invariant.
LEMMA LocksOnTime ==
    ASSUME IInv, LockInv, [TimelyNext]_timelyVars, NEW t \in claimed
    PROVE  Key(t) \notin lapsed'
BY DEF LockInv, TimelyNext, timelyVars, vars, storeVars, decisionVars

\* A task comes to own a claim by winning the put; where no claim was struck, no
\* other task then owned one of the same event.
LEMMA ClaimsAreWon ==
    ASSUME IInv, LockInv, [TimelyNext]_timelyVars, NEW t \in claimed', t \notin claimed
    PROVE  /\ t \in Task
           /\ \A u \in claimed : Key(u) = Key(t) => Key(t) \in struck'
           /\ claimed' = claimed \cup {t}
           /\ status'[Key(t)] # "ABSENT"
           /\ Key(t) \notin lapsed'
<1>0. TypeOK /\ StoreTypeOK /\ expired = {}
    BY DEF IInv, BaseInv, TypeOK
<1>1. struck \subseteq struck'
    BY DEF TimelyNext, timelyVars
<1>2. ASSUME NEW u \in Task, ClaimWon(u), claimed' = claimed \cup {u}
      PROVE  /\ t \in Task
             /\ \A v \in claimed : Key(v) = Key(t) => Key(t) \in struck'
             /\ claimed' = claimed \cup {t}
             /\ status'[Key(t)] # "ABSENT"
             /\ Key(t) \notin lapsed'
    <2>1. t = u
        BY <1>2
    <2>2. PutClaim(Key(t)) /\ Key(t) \in Event
        BY <1>2, <2>1, TaskTypes DEF ClaimWon
    <2>3. \A v \in claimed : Key(v) = Key(t) => Key(t) \in struck
        BY <1>0, <2>2 DEF LockInv, PutClaim, Claimable
    <2>4. QED
        BY <1>0, <1>1, <1>2, <2>1, <2>2, <2>3 DEF PutClaim, StoreTypeOK
<1>3. ASSUME NEW u \in Task, TaskStep(u) \/ Heartbeat(u),
             ~(ClaimWon(u) /\ claimed' = claimed \cup {u})
      PROVE  FALSE
    BY <1>3
    DEF TaskStep, Heartbeat, CaptureNew, CaptureKnown, CaptureRaises, ClaimWon,
        ClaimRefused, InspectCompleted, InspectReady, InspectBusy,
        EvaluateAndStore, Publish, Complete, CallRaises, Acknowledge, ReleaseLock,
        taskVars, GoTo, Return, Raise
<1>4. ASSUME claimed' \subseteq claimed
      PROVE  FALSE
    BY <1>4
<1>5. QED
    BY <1>2, <1>3, <1>4
    DEF TimelyNext, timelyVars, Next, Receive, ReportBatch, Restart, VisibilityLapses,
        Redrive, LockTimesOut, LateReleaseArrives, vars, taskVars

\* Only a task that owns its claim enters the handler, and it owns it there.
LEMMA HandlersOwn ==
    ASSUME IInv, LockInv, [Next]_vars, NEW t \in Task, step'[t] = "release"
    PROVE  t \in claimed'
<1>0. TypeOK
    BY DEF IInv, BaseInv
<1>1. ASSUME NEW u \in Task, TaskStep(u)
      PROVE  t \in claimed'
    <2>1. \/ step'[t] = step[t] /\ (t \in claimed => t \in claimed')
          \/ t = u /\ (Return(u) \/ Raise(u))
          \/ t = u /\ step'[t] # "release"
        BY <1>0, <1>1
        DEF TaskStep, CaptureNew, CaptureKnown, CaptureRaises, ClaimWon,
            ClaimRefused, InspectCompleted, InspectReady, InspectBusy,
            EvaluateAndStore, Publish, Complete, CallRaises, Acknowledge,
            ReleaseLock, TypeOK, GoTo, Return, Raise, AfterOutcome
    <2>2. QED
        BY <1>0, <2>1 DEF LockInv, Return, Raise, GoTo, TypeOK
<1>2. ASSUME \/ \E w \in Worker : Receive(w) \/ ReportBatch(w) \/ Restart(w)
             \/ \E u \in Task : Heartbeat(u)
             \/ \E m \in Message : VisibilityLapses(m) \/ Redrive(m)
             \/ \E e \in Event : LockTimesOut(e) \/ LateReleaseArrives(e)
             \/ UNCHANGED vars
      PROVE  t \in claimed'
    <2>1. step[t] = "release" /\ t \in claimed
        BY <1>0, <1>2
        DEF LockInv, Receive, ReportBatch, Restart, Heartbeat, VisibilityLapses,
            Redrive, LockTimesOut, LateReleaseArrives, vars, taskVars, TypeOK
    <2>2. QED
        BY <1>2, <2>1
        DEF Receive, ReportBatch, Restart, Heartbeat, VisibilityLapses, Redrive,
            LockTimesOut, LateReleaseArrives, vars, taskVars
<1>3. QED
    BY <1>1, <1>2 DEF Next

LEMMA LockInvHolds == IInv /\ LockInv /\ [TimelyNext]_timelyVars => LockInv'
<1> SUFFICES ASSUME IInv, LockInv, [TimelyNext]_timelyVars PROVE LockInv'
    OBVIOUS
<1>1. OneClaimant'
    <2> SUFFICES ASSUME NEW t \in claimed', NEW u \in claimed', Key(t) = Key(u)
                 PROVE  t = u \/ Key(t) \in struck'
        BY DEF OneClaimant, Key, Msg
    <2>1. CASE t \in claimed /\ u \in claimed
        BY <2>1 DEF LockInv, OneClaimant, TimelyNext, timelyVars
    <2>2. CASE t \notin claimed
        BY <2>2, ClaimsAreWon
    <2>3. CASE u \notin claimed
        BY <2>3, ClaimsAreWon
    <2>4. QED
        BY <2>1, <2>2, <2>3
<1>2. ASSUME NEW t \in claimed'
      PROVE  /\ Key(t) \notin lapsed'
             /\ Key(t) \notin struck' => status'[Key(t)] # "ABSENT"
    <2>1. CASE t \in claimed
        BY <2>1, ClaimsSurvive, LocksOnTime
    <2>2. CASE t \notin claimed
        BY <2>2, ClaimsAreWon
    <2>3. QED
        BY <2>1, <2>2
<1>3. ASSUME NEW t \in Task, step'[t] = "release" PROVE t \in claimed'
    BY <1>3, HandlersOwn DEF TimelyNext, timelyVars
<1>4. QED
    BY <1>1, <1>2, <1>3 DEF LockInv, Key, Msg, Task

\* With heartbeats on time, two tasks never own a claim of the same event at
\* once, in whatever processes they run, unless a release that arrived late, or
\* once more, deleted the item of another task's claim.
THEOREM LockExclusion == TimelySpec => []OneClaimant
<1>1. TimelySpec => Spec
    <2>1. [TimelyNext]_timelyVars => [Next]_vars
        BY DEF TimelyNext, timelyVars
    <2>2. QED
        BY <2>1, PTL DEF TimelySpec, Spec
<1>2. Init => LockInv
    BY DEF Init, LockInv, OneClaimant
<1>3. LockInv => OneClaimant
    BY DEF LockInv
<1>4. QED
    BY <1>1, <1>2, <1>3, WorkerInvariant, LockInvHolds, PTL DEF TimelySpec
=============================================================================
