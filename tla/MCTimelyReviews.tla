-------------------------- MODULE MCTimelyReviews --------------------------
(* Instance of TimelyReviews for TLC, with the values of MCReviewWorker. *)
EXTENDS MCReviewWorker, TimelyReviews
=============================================================================
