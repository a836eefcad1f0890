-------------------------- MODULE MCAgeingReviews --------------------------
(* Instances of AgeingReviews for TLC, with the values of MCReviewWorker and *)
(* a third message. *)
EXTENDS MCReviewWorker, AgeingReviews

CONSTANT m3
=============================================================================
