--------------------------- MODULE ReviewEventBus ---------------------------
(***************************************************************************)
(* The in-memory event bus and its SSE readers                             *)
(* (backend/app/services/events.py, the endpoint in backend/app/main.py).  *)
(*                                                                         *)
(* Writers are review workers in other threads: publish() holds the lock   *)
(* from reading len(events) to trimming, so it is one step.  A reader is   *)
(* the asynchronous generator stream(): one locked snapshot, then one      *)
(* yield per event of that copy, with anything in between: further         *)
(* publishes, a dropped connection, a restart of the process.  Readers     *)
(* come back with the last id they received (Last-Event-ID).               *)
(*                                                                         *)
(* published and received are observers: what was published in the run     *)
(* since it started, and what the client got over all its connections      *)
(* since it first asked for the run.                                       *)
(***************************************************************************)
EXTENDS EventLog

CONSTANTS
    Runs,          \* review_run_ids
    Clients,       \* SSE clients (external)
    Types,         \* event types
    Terminal,      \* TERMINAL_EVENTS
    MaxEvents,     \* max_events_per_run
    PublishLimit   \* bound: publishes per run

ASSUME BusAssumption ==
    /\ MaxEvents \in Nat \ {0}
    /\ PublishLimit \in Nat
    /\ Terminal \subseteq Types

VARIABLES
    events,     \* _events: the kept events of each run
    lost,       \* runs whose process is gone; ids are UUIDs and never reused
    phase,      \* where the generator of a client stands
    run,        \* the run the client reads
    next,       \* next_sequence
    batch,      \* what is left of the snapshot the for loop walks through
    published,  \* observer: every type published in the run, in order
    received    \* observer: every event the client received of its run

generator == <<phase, next, batch>>
busVars == <<events, lost>>
vars == <<busVars, generator, run, published, received>>

Phases == {"off", "polling", "sending", "closed"}
Connected(c) == phase[c] \in {"polling", "sending"}
NoEvents == [i \in {} |-> i]
HasRun(r) == events[r] # <<>>

TypeOK ==
    /\ events \in [Runs -> Seq(Event(Types))]
    /\ lost \in SUBSET Runs
    /\ phase \in [Clients -> Phases]
    /\ run \in [Clients -> Runs]
    /\ next \in [Clients -> Nat \ {0}]
    /\ DOMAIN batch = Clients
    /\ \A c \in Clients : /\ DOMAIN batch[c] \subseteq Nat
                          /\ \A i \in DOMAIN batch[c] : batch[c][i] \in Event(Types)
    /\ published \in [Runs -> Seq(Types)]
    /\ received \in [Clients -> Seq(Event(Types))]

Init ==
    /\ events = [r \in Runs |-> <<>>]
    /\ lost = {}
    /\ phase = [c \in Clients |-> "off"]
    /\ run \in [Clients -> Runs]
    /\ next = [c \in Clients |-> 1]
    /\ batch = [c \in Clients |-> NoEvents]
    /\ published = [r \in Runs |-> <<>>]
    /\ received = [c \in Clients |-> <<>>]

-----------------------------------------------------------------------------
(* Writers *)

Publish(r, type) ==
    /\ r \notin lost
    /\ Len(published[r]) < PublishLimit
    /\ events' = [events EXCEPT ![r] = Published(@, type, MaxEvents)]
    /\ published' = [published EXCEPT ![r] = Append(@, type)]
    /\ UNCHANGED <<lost, generator, run, received>>

\* The process dies and comes back: the bus is empty, the workers of the runs
\* in progress are gone and every connection is cut.
Restart ==
    /\ events' = [r \in Runs |-> <<>>]
    /\ lost' = lost \cup {r \in Runs : HasRun(r)}
    /\ phase' = [c \in Clients |-> IF Connected(c) THEN "off" ELSE phase[c]]
    /\ batch' = [c \in Clients |-> NoEvents]
    /\ UNCHANGED <<next, run, published, received>>

-----------------------------------------------------------------------------
(* Readers *)

LastEventId(c) == IF received[c] = <<>> THEN 0 ELSE received[c][Len(received[c])].seq

\* stream_review_events: 404 unless the bus knows the run (no change of state),
\* otherwise a generator that starts after the given id.
StartStream(c, r, after) ==
    /\ HasRun(r)
    /\ phase' = [phase EXCEPT ![c] = "polling"]
    /\ next' = [next EXCEPT ![c] = after + 1]
    /\ batch' = [batch EXCEPT ![c] = NoEvents]

\* A first request for a run, without Last-Event-ID.
Subscribe(c, r) ==
    /\ ~Connected(c)
    /\ StartStream(c, r, 0)
    /\ run' = [run EXCEPT ![c] = r]
    /\ received' = [received EXCEPT ![c] = <<>>]
    /\ UNCHANGED <<busVars, published>>

\* The client comes back to the same run with the last id it received.
Resume(c) ==
    /\ ~Connected(c)
    /\ StartStream(c, run[c], LastEventId(c))
    /\ UNCHANGED <<busVars, run, published, received>>

\* The connection breaks: the generator is dropped wherever it stands.
Drop(c) ==
    /\ Connected(c)
    /\ phase' = [phase EXCEPT ![c] = "off"]
    /\ batch' = [batch EXCEPT ![c] = NoEvents]
    /\ UNCHANGED <<busVars, next, run, published, received>>

\* The top of the loop finds something to send.  An empty snapshot only leads
\* to a heartbeat or another sleep, which changes nothing the model keeps.
Poll(c) ==
    LET found == Snapshot(events[run[c]], next[c] - 1) IN
    /\ phase[c] = "polling"
    /\ DOMAIN found # {}
    /\ phase' = [phase EXCEPT ![c] = "sending"]
    /\ batch' = [batch EXCEPT ![c] = found]
    /\ UNCHANGED <<busVars, next, run, published, received>>

\* next_sequence that is not advanced past the event just sent.
SeqAfterStale(event) == event.seq

SeqAfter(event) == event.seq + 1

\* A loop that ends when it has caught up.
PhaseAfterCaughtUp(event, rest) == IF rest = {} THEN "closed" ELSE "sending"

PhaseAfter(event, rest) ==
    IF event.type \in Terminal THEN "closed"
    ELSE IF rest = {} THEN "polling" ELSE "sending"

\* One turn of the for loop: advance next_sequence, yield, return on a terminal
\* event; after the last event the generator sleeps and polls again.
Send(c) ==
    /\ phase[c] = "sending"
    /\ \E i \in DOMAIN batch[c] :
        LET event == batch[c][i]
            rest  == DOMAIN batch[c] \ {i}
        IN  /\ IsFirst(i, batch[c])
            /\ phase' = [phase EXCEPT ![c] = PhaseAfter(event, rest)]
            /\ next' = [next EXCEPT ![c] = SeqAfter(event)]
            /\ batch' = [batch EXCEPT ![c] = [j \in rest |-> batch[c][j]]]
            /\ received' = [received EXCEPT ![c] = Append(@, event)]
    /\ UNCHANGED <<busVars, run, published>>

-----------------------------------------------------------------------------
Next ==
    \/ \E r \in Runs, type \in Types : Publish(r, type)
    \/ Restart
    \/ \E c \in Clients, r \in Runs : Subscribe(c, r)
    \/ \E c \in Clients : Resume(c) \/ Drop(c) \/ Poll(c) \/ Send(c)

Spec == Init /\ [][Next]_vars

\* The event loop schedules every generator that has something to do; nothing
\* is assumed of workers, clients or restarts.
Fairness == \A c \in Clients : WF_vars(Poll(c)) /\ WF_vars(Send(c))

FairSpec == Spec /\ Fairness

-----------------------------------------------------------------------------
(* Properties *)

\* What a client has received of a run, over all its connections, is exactly
\* the beginning of what was published: no event twice, none skipped, none out
\* of order, each under the number of its place (events.py: the sequence given
\* in publish, the resume in stream).  Holds while no event has been trimmed.
ReceivedIsPrefix ==
    \A c \in Clients :
        /\ Len(received[c]) <= Len(published[run[c]])
        /\ \A i \in 1 .. Len(received[c]) :
              received[c][i] = [seq |-> i, type |-> published[run[c]][i]]

\* A stream the server has closed has delivered a terminal event last: the
\* server never ends a stream for any other reason, and never sends anything
\* behind a terminal event on the same connection (events.py, stream).
ClosedAfterTerminal ==
    \A c \in Clients :
        phase[c] = "closed" =>
            /\ received[c] # <<>>
            /\ received[c][Len(received[c])].type \in Terminal

\* Readers get the run from its beginning without a gap, and a stream the server ends
\* has shown how the run ended.
ReadersFollow == ReceivedIsPrefix /\ ClosedAfterTerminal

\* The run has a terminal event the client has not been sent.
EndAhead(c) ==
    \E i \in DOMAIN events[run[c]] :
        /\ events[run[c]][i].type \in Terminal
        /\ events[run[c]][i].seq >= next[c]

\* A connected client for which a terminal event is still to come is sent it:
\* its stream ends, unless the connection breaks first (events.py, stream).
StreamEnds ==
    \A c \in Clients : (Connected(c) /\ EndAhead(c)) ~> ~Connected(c)

-----------------------------------------------------------------------------
(* The bus implements a feed: one growing log per run and one cursor per       *)
(* client, without copies, numbers or polling.                                 *)

Feed == INSTANCE ReviewFeed WITH
    log  <- published,
    seen <- [c \in Clients |-> Len(received[c])],
    open <- [c \in Clients |-> Connected(c)]

\* Every behaviour of the bus is a behaviour of the feed (ReviewFeed): delivery
\* moves a cursor along the log one event at a time and stops at a terminal one.
ImplementsFeed == Feed!Spec
=============================================================================
