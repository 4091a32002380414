----------------------------- MODULE ReviewFeed -----------------------------
(***************************************************************************)
(* What the event bus promises a reader of a review run: the events of the *)
(* run form one log that only grows, a client has a cursor into it, and    *)
(* delivery moves the cursor by one event and ends with a terminal event.  *)
(***************************************************************************)
EXTENDS Naturals, Sequences

CONSTANTS Runs, Clients, Types, Terminal

VARIABLES
    log,   \* types of the events of each run, oldest first
    run,   \* the run a client follows
    seen,  \* how many events of it the client has received
    open   \* whether the client is connected

vars == <<log, run, seen, open>>

Init ==
    /\ log = [r \in Runs |-> <<>>]
    /\ run \in [Clients -> Runs]
    /\ seen = [c \in Clients |-> 0]
    /\ open = [c \in Clients |-> FALSE]

Grow(r, type) ==
    /\ log' = [log EXCEPT ![r] = Append(@, type)]
    /\ UNCHANGED <<run, seen, open>>

\* A client starts over, on any run that has events.
Follow(c, r) ==
    /\ ~open[c]
    /\ log[r] # <<>>
    /\ run' = [run EXCEPT ![c] = r]
    /\ seen' = [seen EXCEPT ![c] = 0]
    /\ open' = [open EXCEPT ![c] = TRUE]
    /\ UNCHANGED log

\* A client comes back where it left off.
Return(c) ==
    /\ ~open[c]
    /\ log[run[c]] # <<>>
    /\ open' = [open EXCEPT ![c] = TRUE]
    /\ UNCHANGED <<log, run, seen>>

\* The connections of some clients break.
Leave ==
    /\ \E gone \in SUBSET Clients :
          open' = [c \in Clients |-> open[c] /\ c \notin gone]
    /\ UNCHANGED <<log, run, seen>>

Deliver(c) ==
    /\ open[c]
    /\ seen[c] < Len(log[run[c]])
    /\ seen' = [seen EXCEPT ![c] = @ + 1]
    /\ open' = [open EXCEPT ![c] = log[run[c]][seen[c] + 1] \notin Terminal]
    /\ UNCHANGED <<log, run>>

Next ==
    \/ \E r \in Runs, type \in Types : Grow(r, type)
    \/ \E c \in Clients, r \in Runs : Follow(c, r)
    \/ \E c \in Clients : Return(c) \/ Deliver(c)
    \/ Leave

Spec == Init /\ [][Next]_vars
=============================================================================
