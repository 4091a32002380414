--------------------------- MODULE MCReviewStores ---------------------------
(* Two callers and three reviews: one save overtakes another, and a third      *)
(* finds what they left.  With Postgres there are two store objects, so that   *)
(* the callers share one, or both create the schema and one finds it there.    *)
EXTENDS ReviewStores
=============================================================================
