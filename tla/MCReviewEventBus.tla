-------------------------- MODULE MCReviewEventBus --------------------------
(* Two runs and one client: the client may change runs, the workers interleave *)
(* freely with the generator, and the process may restart at any point.        *)
EXTENDS ReviewEventBus
=============================================================================
