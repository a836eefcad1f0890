--------------------------- MODULE AlertDecisions ---------------------------
(***************************************************************************)
(* What the review worker promises about every event, with the queue, the  *)
(* locks, the processes and their failures abstracted away:                *)
(*                                                                         *)
(*   - an event is decided once, on the payload of one of its messages;    *)
(*   - the output bus only ever carries that payload, and only when the    *)
(*     decision accepted it (any number of times: at least once);          *)
(*   - a decision is settled when it was a rejection or was published;     *)
(*   - a message is acknowledged only when its own payload is the one that *)
(*     was decided and the decision is settled.                            *)
(***************************************************************************)
CONSTANTS Event, Payload, NoOutcome, Message, EventOf, PayloadOf

Outcome == [payload : Payload, accepted : BOOLEAN]

VARIABLES
    decision,     \* decision[e]: the outcome of e, or NoOutcome
    announced,    \* announced[e]: the payloads on the output bus for e
    settled,      \* events whose decision has been carried out
    acknowledged  \* messages the queue has been told to forget

vars == <<decision, announced, settled, acknowledged>>

Init ==
    /\ decision = [e \in Event |-> NoOutcome]
    /\ announced = [e \in Event |-> {}]
    /\ settled = {}
    /\ acknowledged = {}

Decide(m) ==
    /\ decision[EventOf[m]] = NoOutcome
    /\ \E verdict \in BOOLEAN :
          decision' = [decision EXCEPT ![EventOf[m]] =
                          [payload |-> PayloadOf[m], accepted |-> verdict]]
    /\ UNCHANGED <<announced, settled, acknowledged>>

Announce(e) ==
    /\ decision[e] # NoOutcome
    /\ decision[e].accepted
    /\ announced' = [announced EXCEPT ![e] = @ \cup {decision[e].payload}]
    /\ UNCHANGED <<decision, settled, acknowledged>>

Settle(e) ==
    /\ decision[e] # NoOutcome
    /\ decision[e].accepted => decision[e].payload \in announced[e]
    /\ settled' = settled \cup {e}
    /\ UNCHANGED <<decision, announced, acknowledged>>

Acknowledge(M) ==
    /\ \A m \in M :
          /\ EventOf[m] \in settled
          /\ decision[EventOf[m]].payload = PayloadOf[m]
    /\ acknowledged' = acknowledged \cup M
    /\ UNCHANGED <<decision, announced, settled>>

Next ==
    \/ \E m \in Message : Decide(m)
    \/ \E M \in SUBSET Message : Acknowledge(M)
    \/ \E e \in Event : Announce(e) \/ Settle(e)

Spec == Init /\ [][Next]_vars
=============================================================================
