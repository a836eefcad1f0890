--------------------------- MODULE MCReviewWorker ---------------------------
(* Instances of ReviewWorker for TLC. *)
EXTENDS ReviewWorker, TLC

CONSTANTS w1, w2, e1, m1, m2, pA, pB, strict, lax

\* Two messages of one event with the same payload (EventBridge delivered it
\* twice); a policy that rejects the payload and one that accepts it.
MCEventOf == [m \in Message |-> e1]
MCSamePayload == [m \in Message |-> pA]
MCAccepts == [p \in Policy |-> IF p = lax THEN Payload ELSE {}]

\* Two messages that reuse one identity for different payloads.
MCTwoPayloads == [m \in Message |-> IF m = m1 THEN pA ELSE pB]

\* The two messages are alike when they carry the same payload, and so are two
\* workers of the same kind.
MCMessages == Permutations(Message)
MCAlike == Permutations(Worker) \cup Permutations(Message)
=============================================================================
