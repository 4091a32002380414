----------------------------- MODULE ReviewStore -----------------------------
(***************************************************************************)
(* The contract of a review store (backend/app/storage/factory.py,         *)
(* ReviewStore): a save takes effect at one moment, what has been saved    *)
(* stays, and a listing returns everything that was saved at one moment    *)
(* while the listing ran.                                                  *)
(***************************************************************************)
CONSTANTS Reviews, Callers

VARIABLES
    saved,    \* the reviews in the store
    answer    \* what the last listing of each caller returned

Init ==
    /\ saved = {}
    /\ answer = [c \in Callers |-> {}]

Save(r) ==
    /\ saved' = saved \cup {r}
    /\ UNCHANGED answer

List(c) ==
    /\ answer' = [answer EXCEPT ![c] = saved]
    /\ UNCHANGED saved

Next ==
    \/ \E r \in Reviews : Save(r)
    \/ \E c \in Callers : List(c)

Spec == Init /\ [][Next]_<<saved, answer>>
=============================================================================
