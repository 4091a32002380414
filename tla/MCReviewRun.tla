---------------------------- MODULE MCReviewRun ----------------------------
(* Three batches on two threads: calls queue, overlap, finish in any order and *)
(* fail while others wait or run.  The bus keeps exactly the events of the     *)
(* longest run, 15 + 2 per batch.                                              *)
EXTENDS ReviewRun

MCMaxEvents == 15 + 2 * MaxBatches
=============================================================================
