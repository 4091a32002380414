-------------------------- MODULE MCWebhookReview --------------------------
(* Two deliveries are enough for every race the properties name: each relates *)
(* the task of one delivery to what one other task did meanwhile.  Two pushes *)
(* make an old and a new commit.                                              *)
EXTENDS WebhookReview, TLC

\* Deliveries and pull requests are alike until something happens to them.

Symmetry == Permutations(Deliveries) \cup Permutations(PullRequests)
=============================================================================
