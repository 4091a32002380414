------------------------ MODULE ReviewEventBusProofs ------------------------
(***************************************************************************)
(* What a client receives from the event bus, for any number of runs,      *)
(* clients, event types and events.                                        *)
(***************************************************************************)
EXTENDS ReviewEventBus, SequenceTheorems, TLAPS

LEMMA PublishedType ==
  ASSUME NEW log \in Seq(Event(Types)), NEW type \in Types
  PROVE  Published(log, type, MaxEvents) \in Seq(Event(Types))
<1> DEFINE longer == Append(log, NextEvent(log, type))
<1>1. NextEvent(log, type) \in Event(Types)
  BY LenProperties DEF NextEvent, Event
<1>2. longer \in Seq(Event(Types)) /\ Len(longer) = Len(log) + 1
  BY <1>1, AppendProperties
<1>3. Len(longer) > MaxEvents =>
         SubSeq(longer, Len(longer) - MaxEvents + 1, Len(longer)) \in Seq(Event(Types))
  <2> SUFFICES ASSUME Len(longer) > MaxEvents
               PROVE  SubSeq(longer, Len(longer) - MaxEvents + 1, Len(longer))
                         \in Seq(Event(Types))
    OBVIOUS
  <2>1. Len(longer) \in Nat /\ MaxEvents \in Nat \ {0}
    BY <1>2, LenProperties, BusAssumption
  <2>2. Len(longer) - MaxEvents + 1 \in 1 .. Len(longer) + 1
    BY <2>1
  <2> QED
    BY <1>2, <2>1, <2>2, SubSeqProperties
<1> QED
  BY <1>2, <1>3 DEF Published, Trimmed

\* As long as the list has room nothing is trimmed.
LEMMA PublishedUntrimmed ==
  ASSUME NEW log \in Seq(Event(Types)), NEW type \in Types, Len(log) < MaxEvents
  PROVE  Published(log, type, MaxEvents) = Append(log, NextEvent(log, type))
<1>1. NextEvent(log, type) \in Event(Types)
  BY LenProperties DEF NextEvent, Event
<1>2. Len(Append(log, NextEvent(log, type))) = Len(log) + 1
  BY <1>1, AppendProperties
<1> QED
  BY <1>2, BusAssumption, LenProperties DEF Published, Trimmed

-----------------------------------------------------------------------------
(* Type correctness *)

LEMMA TypeInit == Init => TypeOK
  BY DEF Init, TypeOK, NoEvents, Phases

LEMMA LastEventIdType ==
  ASSUME TypeOK, NEW c \in Clients
  PROVE  LastEventId(c) \in Nat
<1>1. received[c] \in Seq(Event(Types))
  BY DEF TypeOK
<1>2. received[c] # <<>> => received[c][Len(received[c])] \in Event(Types)
  BY <1>1, EmptySeq, ElementOfSeq, LenProperties
<1> QED
  BY <1>2 DEF LastEventId, Event

LEMMA TypeNext == TypeOK /\ [Next]_vars => TypeOK'
<1> SUFFICES ASSUME TypeOK, [Next]_vars PROVE TypeOK'
  OBVIOUS
<1> USE DEF TypeOK, busVars, generator, Phases
<1>1. ASSUME NEW r \in Runs, NEW type \in Types, Publish(r, type) PROVE TypeOK'
  BY <1>1, PublishedType DEF Publish
<1>2. CASE Restart
  BY <1>2 DEF Restart, NoEvents
<1>3. ASSUME NEW c \in Clients, NEW r \in Runs, Subscribe(c, r) PROVE TypeOK'
  BY <1>3 DEF Subscribe, StartStream, NoEvents
<1>4. ASSUME NEW c \in Clients, Resume(c) PROVE TypeOK'
  BY <1>4, LastEventIdType DEF Resume, StartStream, NoEvents
<1>5. ASSUME NEW c \in Clients, Drop(c) PROVE TypeOK'
  BY <1>5 DEF Drop, NoEvents
<1>6. ASSUME NEW c \in Clients, Poll(c) PROVE TypeOK'
  <2> DEFINE log == events[run[c]]
             found == Snapshot(log, next[c] - 1)
  <2>1. log \in Seq(Event(Types))
    OBVIOUS
  <2>2. DOMAIN log \subseteq Nat /\ \A i \in DOMAIN log : log[i] \in Event(Types)
    BY <2>1, LenProperties, ElementOfSeq
  <2>3. DOMAIN found \subseteq Nat /\ \A i \in DOMAIN found : found[i] \in Event(Types)
    BY <2>2 DEF Snapshot
  <2>4. /\ phase' = [phase EXCEPT ![c] = "sending"]
        /\ batch' = [batch EXCEPT ![c] = found]
        /\ UNCHANGED <<busVars, next, run, published, received>>
    BY <1>6 DEF Poll
  <2> HIDE DEF found
  <2> QED
    BY <2>3, <2>4
<1>7. ASSUME NEW c \in Clients, Send(c) PROVE TypeOK'
  <2>1. PICK i \in DOMAIN batch[c] :
          /\ phase' = [phase EXCEPT ![c] = PhaseAfter(batch[c][i], DOMAIN batch[c] \ {i})]
          /\ next' = [next EXCEPT ![c] = SeqAfter(batch[c][i])]
          /\ batch' = [batch EXCEPT ![c] = [j \in DOMAIN batch[c] \ {i} |-> batch[c][j]]]
          /\ received' = [received EXCEPT ![c] = Append(@, batch[c][i])]
    BY <1>7 DEF Send
  <2>2. batch[c][i] \in Event(Types) /\ SeqAfter(batch[c][i]) \in Nat \ {0}
    BY DEF Event, SeqAfter
  <2>3. PhaseAfter(batch[c][i], DOMAIN batch[c] \ {i}) \in Phases
    BY DEF PhaseAfter
  <2>4. Append(received[c], batch[c][i]) \in Seq(Event(Types))
    BY <2>2, AppendProperties
  <2>5. UNCHANGED <<busVars, run, published>>
    BY <1>7 DEF Send
  <2> QED
    BY <2>1, <2>2, <2>3, <2>4, <2>5
<1>8. CASE UNCHANGED vars
  BY <1>8 DEF vars
<1> QED
  BY <1>1, <1>2, <1>3, <1>4, <1>5, <1>6, <1>7, <1>8 DEF Next

\* The variables keep their types.
THEOREM TypeCorrect == Spec => []TypeOK
  BY TypeInit, TypeNext, PTL DEF Spec

-----------------------------------------------------------------------------
(* The end of a stream *)

LEMMA ClosedNext == TypeOK /\ ClosedAfterTerminal /\ [Next]_vars => ClosedAfterTerminal'
<1> SUFFICES ASSUME TypeOK, ClosedAfterTerminal, [Next]_vars PROVE ClosedAfterTerminal'
  OBVIOUS
<1> USE DEF TypeOK, ClosedAfterTerminal, busVars, generator
<1>1. ASSUME NEW r \in Runs, NEW type \in Types, Publish(r, type) PROVE ClosedAfterTerminal'
  BY <1>1 DEF Publish
<1>2. CASE Restart
  BY <1>2 DEF Restart
<1>3. ASSUME NEW c \in Clients, NEW r \in Runs, Subscribe(c, r) PROVE ClosedAfterTerminal'
  BY <1>3 DEF Subscribe, StartStream
<1>4. ASSUME NEW c \in Clients, Resume(c) PROVE ClosedAfterTerminal'
  BY <1>4 DEF Resume, StartStream
<1>5. ASSUME NEW c \in Clients, Drop(c) \/ Poll(c) PROVE ClosedAfterTerminal'
  BY <1>5 DEF Drop, Poll
<1>6. ASSUME NEW c \in Clients, Send(c) PROVE ClosedAfterTerminal'
  <2>1. PICK i \in DOMAIN batch[c] :
          /\ phase' = [phase EXCEPT ![c] = PhaseAfter(batch[c][i], DOMAIN batch[c] \ {i})]
          /\ received' = [received EXCEPT ![c] = Append(@, batch[c][i])]
    BY <1>6 DEF Send
  <2> DEFINE event == batch[c][i]
             longer == Append(received[c], event)
  <2>2. event \in Event(Types) /\ received[c] \in Seq(Event(Types))
    OBVIOUS
  <2>3. longer # <<>> /\ longer[Len(longer)] = event
    BY <2>2, AppendProperties, LenProperties
  <2>4. phase'[c] = "closed" => event.type \in Terminal
    BY <2>1 DEF PhaseAfter
  <2>5. received'[c] = longer
    BY <2>1
  <2>6. \A d \in Clients \ {c} : phase'[d] = phase[d] /\ received'[d] = received[d]
    BY <2>1
  <2> HIDE DEF event, longer
  <2> QED
    BY <2>3, <2>4, <2>5, <2>6
<1>7. CASE UNCHANGED vars
  BY <1>7 DEF vars
<1> QED
  BY <1>1, <1>2, <1>3, <1>4, <1>5, <1>6, <1>7 DEF Next

\* The server ends a stream only by a terminal event, which is the last thing it has
\* sent (the return in the loop of stream).
THEOREM StreamsEndWithTerminal == Spec => []ClosedAfterTerminal
<1>1. Init => ClosedAfterTerminal
  BY DEF Init, ClosedAfterTerminal
<1> QED
  BY <1>1, TypeInit, TypeNext, ClosedNext, PTL DEF Spec

-----------------------------------------------------------------------------
(* What a client has received *)

\* The event number i of a run.
Numbered(r, i) == [seq |-> i, type |-> published[r][i]]

\* As long as a run publishes no more than the bus keeps:
\* the list of a run is all that was published, unless its process is gone;
ListIsAll ==
    \A r \in Runs :
        /\ Len(published[r]) <= PublishLimit
        /\ IF r \in lost THEN events[r] = <<>>
           ELSE /\ Len(events[r]) = Len(published[r])
                /\ \A i \in 1 .. Len(published[r]) : events[r][i] = Numbered(r, i)

\* the generator of a connected client stands right behind what the client has;
CursorIsNext == \A c \in Clients : Connected(c) => next[c] = Len(received[c]) + 1

\* and what it still has to send continues from there without a gap.
BatchContinues ==
    \A c \in Clients : phase[c] = "sending" =>
        \A i \in DOMAIN batch[c] :
            /\ i \in Len(received[c]) + 1 .. Len(published[run[c]])
            /\ batch[c][i] = Numbered(run[c], i)
            /\ \A j \in Len(received[c]) + 1 .. i : j \in DOMAIN batch[c]

IInv == TypeOK /\ ReceivedIsPrefix /\ ListIsAll /\ CursorIsNext /\ BatchContinues

LEMMA LastEventIdIsPlace ==
  ASSUME IInv, NEW c \in Clients
  PROVE  LastEventId(c) = Len(received[c])
<1>1. received[c] \in Seq(Event(Types))
  BY DEF IInv, TypeOK
<1>2. Len(received[c]) \in Nat /\ (received[c] = <<>> <=> Len(received[c]) = 0)
  BY <1>1, LenProperties, EmptySeq
<1>3. \A i \in 1 .. Len(received[c]) : received[c][i].seq = i
  <2> SUFFICES ASSUME NEW i \in 1 .. Len(received[c]) PROVE received[c][i].seq = i
    OBVIOUS
  <2>1. received[c][i] = [seq |-> i, type |-> published[run[c]][i]]
    BY DEF IInv, ReceivedIsPrefix
  <2> QED
    BY <2>1
<1>4. received[c] # <<>> => received[c][Len(received[c])].seq = Len(received[c])
  BY <1>2, <1>3
<1> QED
  BY <1>2, <1>4 DEF LastEventId

LEMMA InitInv == Init => IInv
<1> SUFFICES ASSUME Init PROVE IInv
  OBVIOUS
<1>1. TypeOK
  BY TypeInit
<1>2. /\ \A r \in Runs : r \notin lost /\ events[r] = <<>> /\ published[r] = <<>>
      /\ \A c \in Clients : phase[c] = "off" /\ received[c] = <<>> /\ run[c] \in Runs
  BY DEF Init
<1> QED
  BY <1>1, <1>2, EmptySeq, BusAssumption
     DEF IInv, ReceivedIsPrefix, ListIsAll, CursorIsNext, BatchContinues, Connected

\* A publish adds the numbered event at the end; all that was there stays.
LEMMA PublishInv ==
  ASSUME PublishLimit <= MaxEvents, IInv, TypeOK',
         NEW r \in Runs, NEW type \in Types, Publish(r, type)
  PROVE  IInv'
<1> DEFINE log == events[r]
           types == published[r]
<1>1. /\ events' = [events EXCEPT ![r] = Published(log, type, MaxEvents)]
      /\ published' = [published EXCEPT ![r] = Append(types, type)]
      /\ r \notin lost /\ Len(types) < PublishLimit
      /\ UNCHANGED <<lost, phase, next, batch, run, received>>
  BY DEF Publish, generator
<1>2. log \in Seq(Event(Types)) /\ types \in Seq(Types)
  BY DEF IInv, TypeOK
<1>3. /\ Len(log) = Len(types) /\ Len(types) \in Nat
      /\ \A i \in 1 .. Len(types) : log[i] = Numbered(r, i)
  BY <1>1, <1>2, LenProperties DEF IInv, ListIsAll
<1>4. events'[r] = Append(log, NextEvent(log, type))
  <2>1. Len(log) < MaxEvents
    BY <1>1, <1>3, BusAssumption
  <2> QED
    BY <1>1, <1>2, <2>1, PublishedUntrimmed DEF IInv, TypeOK
<1>5. NextEvent(log, type) = [seq |-> Len(types) + 1, type |-> type]
  BY <1>3 DEF NextEvent
<1>6. published'[r] = Append(types, type)
  BY <1>1 DEF IInv, TypeOK
<1>7. /\ Len(published'[r]) = Len(types) + 1
      /\ \A i \in 1 .. Len(types) : published'[r][i] = types[i]
      /\ published'[r][Len(types) + 1] = type
  BY <1>2, <1>6, AppendProperties
<1>8. NextEvent(log, type) \in Event(Types)
  BY <1>3, <1>5 DEF Event
<1>9. /\ Len(events'[r]) = Len(types) + 1
      /\ \A i \in 1 .. Len(types) : events'[r][i] = log[i]
      /\ events'[r][Len(types) + 1] = NextEvent(log, type)
  BY <1>2, <1>3, <1>4, <1>8, AppendProperties
<1>10. \A q \in Runs \ {r} : published'[q] = published[q] /\ events'[q] = events[q]
  BY <1>1 DEF IInv, TypeOK
<1>11. \A q \in Runs : /\ Len(published[q]) \in Nat /\ Len(published[q]) <= Len(published'[q])
                       /\ Len(published'[q]) \in Nat
                       /\ \A i \in 1 .. Len(published[q]) : published'[q][i] = published[q][i]
  <2>1. \A q \in Runs : Len(published[q]) \in Nat
    BY LenProperties DEF IInv, TypeOK
  <2> QED
    BY <2>1, <1>7, <1>10
<1> HIDE DEF log, types
<1>12. ListIsAll'
  <2>1. /\ Len(published'[r]) <= PublishLimit
        /\ Len(events'[r]) = Len(published'[r])
    BY <1>1, <1>3, <1>7, <1>9, BusAssumption DEF types
  <2>2. \A i \in 1 .. Len(published'[r]) : events'[r][i] = Numbered(r, i)'
    <3> SUFFICES ASSUME NEW i \in 1 .. Len(types) + 1
                 PROVE  events'[r][i] = Numbered(r, i)'
      BY <1>7
    <3>1. CASE i = Len(types) + 1
      BY <3>1, <1>5, <1>7, <1>9 DEF Numbered
    <3>2. CASE i \in 1 .. Len(types)
      BY <3>2, <1>3, <1>7, <1>9 DEF Numbered, types
    <3> QED
      BY <3>1, <3>2, <1>3
  <2> QED
    BY <2>1, <2>2, <1>1, <1>10 DEF ListIsAll, Numbered, IInv
<1>13. ReceivedIsPrefix'
  <2> SUFFICES ASSUME NEW c \in Clients
               PROVE  /\ Len(received[c]) <= Len(published'[run[c]])
                      /\ \A i \in 1 .. Len(received[c]) :
                            received[c][i] = [seq |-> i, type |-> published'[run[c]][i]]
    BY <1>1 DEF ReceivedIsPrefix
  <2>1. run[c] \in Runs /\ Len(received[c]) \in Nat
    BY LenProperties DEF IInv, TypeOK
  <2>2. /\ Len(received[c]) <= Len(published[run[c]])
        /\ \A i \in 1 .. Len(received[c]) :
              received[c][i] = [seq |-> i, type |-> published[run[c]][i]]
    BY DEF IInv, ReceivedIsPrefix
  <2> QED
    BY <1>11, <2>1, <2>2
<1>14. CursorIsNext'
  BY <1>1 DEF IInv, CursorIsNext, Connected
<1>15. BatchContinues'
  <2> SUFFICES ASSUME NEW c \in Clients, phase[c] = "sending", NEW i \in DOMAIN batch[c]
               PROVE  /\ i \in Len(received[c]) + 1 .. Len(published'[run[c]])
                      /\ batch[c][i] = [seq |-> i, type |-> published'[run[c]][i]]
                      /\ \A j \in Len(received[c]) + 1 .. i : j \in DOMAIN batch[c]
    BY <1>1 DEF BatchContinues, Numbered
  <2>1. run[c] \in Runs /\ Len(received[c]) \in Nat
    BY LenProperties DEF IInv, TypeOK
  <2>2. /\ i \in Len(received[c]) + 1 .. Len(published[run[c]])
        /\ batch[c][i] = [seq |-> i, type |-> published[run[c]][i]]
        /\ \A j \in Len(received[c]) + 1 .. i : j \in DOMAIN batch[c]
    BY DEF IInv, BatchContinues, Numbered
  <2> QED
    BY <1>11, <2>1, <2>2
<1> QED
  BY <1>12, <1>13, <1>14, <1>15 DEF IInv

\* After a restart no client is connected and no list is left.
LEMMA RestartInv ==
  ASSUME IInv, TypeOK', Restart
  PROVE  IInv'
<1>1. ReceivedIsPrefix' /\ CursorIsNext' /\ BatchContinues'
  BY DEF IInv, Restart, TypeOK, ReceivedIsPrefix, CursorIsNext, BatchContinues, Connected
<1>2. ListIsAll'
  <2> SUFFICES ASSUME NEW r \in Runs
               PROVE  /\ Len(published[r]) <= PublishLimit
                      /\ IF r \in lost' THEN events'[r] = <<>>
                         ELSE /\ Len(events'[r]) = Len(published[r])
                              /\ \A i \in 1 .. Len(published[r]) :
                                    events'[r][i] = Numbered(r, i)
    BY DEF Restart, ListIsAll, Numbered
  <2>1. /\ events'[r] = <<>>
        /\ r \notin lost' => r \notin lost /\ events[r] = <<>>
    BY DEF Restart, HasRun
  <2>2. r \notin lost' => Len(published[r]) = 0
    BY <2>1, EmptySeq DEF IInv, ListIsAll
  <2> QED
    BY <2>1, <2>2, EmptySeq DEF IInv, ListIsAll
<1> QED
  BY <1>1, <1>2 DEF IInv

\* A new connection starts with an empty batch right behind what the client has.
LEMMA ConnectInv ==
  ASSUME IInv, TypeOK', NEW c \in Clients,
         Resume(c) \/ \E r \in Runs : Subscribe(c, r)
  PROVE  IInv'
<1>1. /\ UNCHANGED <<events, lost, published>>
      /\ phase' = [phase EXCEPT ![c] = "polling"]
      /\ batch' = [batch EXCEPT ![c] = NoEvents]
      /\ \A d \in Clients \ {c} : /\ run'[d] = run[d] /\ received'[d] = received[d]
                                  /\ next'[d] = next[d]
  BY DEF Resume, Subscribe, StartStream, busVars, IInv, TypeOK
<1>2. /\ next'[c] = Len(received'[c]) + 1
      /\ received'[c] = <<>> \/ (received'[c] = received[c] /\ run'[c] = run[c])
  <2>1. CASE Resume(c)
    BY <2>1, LastEventIdIsPlace DEF Resume, StartStream, IInv, TypeOK
  <2>2. ASSUME NEW r \in Runs, Subscribe(c, r)
        PROVE  next'[c] = Len(received'[c]) + 1 /\ received'[c] = <<>>
    BY <2>2, EmptySeq DEF Subscribe, StartStream, IInv, TypeOK
  <2> QED
    BY <2>1, <2>2
<1>3. ListIsAll'
  BY <1>1 DEF IInv, ListIsAll, Numbered
<1>4. ReceivedIsPrefix'
  <2> SUFFICES ASSUME NEW d \in Clients
               PROVE  /\ Len(received'[d]) <= Len(published[run'[d]])
                      /\ \A i \in 1 .. Len(received'[d]) :
                            received'[d][i] = [seq |-> i, type |-> published[run'[d]][i]]
    BY <1>1 DEF ReceivedIsPrefix
  <2>1. run'[d] \in Runs /\ Len(published[run'[d]]) \in Nat
    BY <1>1, LenProperties DEF IInv, TypeOK
  <2>2. CASE received'[d] = <<>>
    BY <2>1, <2>2, EmptySeq
  <2>3. CASE received'[d] = received[d] /\ run'[d] = run[d]
    BY <2>3 DEF IInv, ReceivedIsPrefix
  <2> QED
    BY <1>1, <1>2, <2>2, <2>3
<1>5. CursorIsNext'
  BY <1>1, <1>2 DEF IInv, TypeOK, CursorIsNext, Connected
<1>6. BatchContinues'
  BY <1>1 DEF IInv, TypeOK, BatchContinues, Numbered
<1> QED
  BY <1>3, <1>4, <1>5, <1>6 DEF IInv

LEMMA DropInv ==
  ASSUME IInv, TypeOK', NEW c \in Clients, Drop(c)
  PROVE  IInv'
<1>1. /\ UNCHANGED <<events, lost, next, run, published, received>>
      /\ phase' = [phase EXCEPT ![c] = "off"]
      /\ batch' = [batch EXCEPT ![c] = NoEvents]
  BY DEF Drop, busVars
<1> QED
  BY <1>1 DEF IInv, TypeOK, ReceivedIsPrefix, ListIsAll, CursorIsNext, BatchContinues,
              Connected, Numbered

\* A snapshot holds exactly the events behind the cursor.
LEMMA PollInv ==
  ASSUME IInv, TypeOK', NEW c \in Clients, Poll(c)
  PROVE  IInv'
<1> DEFINE r == run[c]
           found == Snapshot(events[r], next[c] - 1)
<1>1. /\ UNCHANGED <<events, lost, next, run, published, received>>
      /\ phase[c] = "polling" /\ DOMAIN found # {}
      /\ phase' = [phase EXCEPT ![c] = "sending"]
      /\ batch' = [batch EXCEPT ![c] = found]
  BY DEF Poll, busVars
<1>2. next[c] - 1 = Len(received[c]) /\ Len(received[c]) \in Nat
  BY <1>1, LenProperties DEF IInv, TypeOK, CursorIsNext, Connected
<1>3. r \in Runs /\ events[r] \in Seq(Event(Types)) /\ Len(published[r]) \in Nat
  BY LenProperties DEF IInv, TypeOK
<1>4. DOMAIN events[r] # {}
  BY <1>1 DEF Snapshot
<1>5. /\ DOMAIN events[r] = 1 .. Len(published[r])
      /\ \A i \in 1 .. Len(published[r]) : events[r][i] = Numbered(r, i)
  BY <1>3, <1>4, EmptySeq, LenProperties DEF IInv, ListIsAll
<1>6. \A i \in 1 .. Len(published[r]) : events[r][i].seq = i
  <2> SUFFICES ASSUME NEW i \in 1 .. Len(published[r]) PROVE events[r][i].seq = i
    OBVIOUS
  <2>1. events[r][i] = [seq |-> i, type |-> published[r][i]]
    BY <1>5 DEF Numbered
  <2> QED
    BY <2>1
<1>7. DOMAIN found = {i \in 1 .. Len(published[r]) : i > Len(received[c])}
  BY <1>2, <1>5, <1>6 DEF Snapshot
<1>8. \A i \in DOMAIN found : found[i] = Numbered(r, i)
  BY <1>5, <1>7 DEF Snapshot
<1>9. \A i \in DOMAIN found :
        /\ i \in Len(received[c]) + 1 .. Len(published[r])
        /\ \A j \in Len(received[c]) + 1 .. i : j \in DOMAIN found
  BY <1>2, <1>3, <1>7
<1> HIDE DEF found, r
<1>10. BatchContinues'
  <2> SUFFICES ASSUME NEW d \in Clients, phase'[d] = "sending", NEW i \in DOMAIN batch'[d]
               PROVE  /\ i \in Len(received[d]) + 1 .. Len(published[run[d]])
                      /\ batch'[d][i] = Numbered(run[d], i)
                      /\ \A j \in Len(received[d]) + 1 .. i : j \in DOMAIN batch'[d]
    BY <1>1 DEF BatchContinues, Numbered
  <2>1. CASE d = c
    BY <2>1, <1>1, <1>8, <1>9 DEF IInv, TypeOK, r
  <2>2. CASE d # c
    BY <2>2, <1>1 DEF IInv, TypeOK, BatchContinues
  <2> QED
    BY <2>1, <2>2
<1>11. ReceivedIsPrefix' /\ ListIsAll'
  BY <1>1 DEF IInv, ReceivedIsPrefix, ListIsAll, Numbered
<1>12. CursorIsNext'
  BY <1>1 DEF IInv, TypeOK, CursorIsNext, Connected
<1> QED
  BY <1>10, <1>11, <1>12 DEF IInv

\* The first event of the batch is the one the client needs next.
LEMMA SendInv ==
  ASSUME IInv, TypeOK', NEW c \in Clients, Send(c)
  PROVE  IInv'
<1> DEFINE got == received[c]
<1>1. PICK i \in DOMAIN batch[c] :
        /\ IsFirst(i, batch[c])
        /\ phase' = [phase EXCEPT ![c] = PhaseAfter(batch[c][i], DOMAIN batch[c] \ {i})]
        /\ next' = [next EXCEPT ![c] = SeqAfter(batch[c][i])]
        /\ batch' = [batch EXCEPT ![c] = [j \in DOMAIN batch[c] \ {i} |-> batch[c][j]]]
        /\ received' = [received EXCEPT ![c] = Append(@, batch[c][i])]
  BY DEF Send
<1>2. phase[c] = "sending" /\ UNCHANGED <<events, lost, run, published>>
  BY DEF Send, busVars
<1>3. /\ run[c] \in Runs /\ Len(got) \in Nat /\ Len(published[run[c]]) \in Nat
      /\ got \in Seq(Event(Types)) /\ batch[c][i] \in Event(Types)
  BY LenProperties DEF IInv, TypeOK
<1>4. \A k \in DOMAIN batch[c] :
        /\ k \in Len(got) + 1 .. Len(published[run[c]])
        /\ batch[c][k] = Numbered(run[c], k)
        /\ \A j \in Len(got) + 1 .. k : j \in DOMAIN batch[c]
  BY <1>2 DEF IInv, BatchContinues
<1>5. i = Len(got) + 1 /\ i <= Len(published[run[c]])
  <2>1. i \in Len(got) + 1 .. Len(published[run[c]])
    BY <1>4
  <2>2. Len(got) + 1 \in DOMAIN batch[c]
    BY <1>3, <1>4, <2>1
  <2>3. i <= Len(got) + 1
    BY <1>1, <2>2 DEF IsFirst
  <2> QED
    BY <2>1, <2>3, <1>3
<1>6. batch[c][i] = [seq |-> i, type |-> published[run[c]][i]]
  BY <1>4 DEF Numbered
<1>7. received'[c] = Append(got, batch[c][i])
  BY <1>1 DEF IInv, TypeOK
<1>8. /\ Len(received'[c]) = Len(got) + 1
      /\ \A k \in 1 .. Len(got) : received'[c][k] = got[k]
      /\ received'[c][Len(got) + 1] = batch[c][i]
  BY <1>3, <1>7, AppendProperties
<1>9. \A d \in Clients \ {c} : /\ received'[d] = received[d] /\ phase'[d] = phase[d]
                               /\ next'[d] = next[d] /\ batch'[d] = batch[d]
  BY <1>1 DEF IInv, TypeOK
<1>10. \A k \in 1 .. Len(got) : got[k] = [seq |-> k, type |-> published[run[c]][k]]
  BY DEF IInv, ReceivedIsPrefix
<1> HIDE DEF got
<1>11. ReceivedIsPrefix'
  <2> SUFFICES ASSUME NEW d \in Clients
               PROVE  /\ Len(received'[d]) <= Len(published[run[d]])
                      /\ \A k \in 1 .. Len(received'[d]) :
                            received'[d][k] = [seq |-> k, type |-> published[run[d]][k]]
    BY <1>2 DEF ReceivedIsPrefix
  <2>1. CASE d = c
    <3>1. Len(received'[c]) <= Len(published[run[c]])
      BY <1>5, <1>8
    <3>2. ASSUME NEW k \in 1 .. Len(got) + 1
          PROVE  received'[c][k] = [seq |-> k, type |-> published[run[c]][k]]
      <4>1. CASE k = Len(got) + 1
        BY <4>1, <1>5, <1>6, <1>8
      <4>2. CASE k \in 1 .. Len(got)
        BY <4>2, <1>8, <1>10
      <4> QED
        BY <4>1, <4>2, <1>3
    <3> QED
      BY <2>1, <3>1, <3>2, <1>8
  <2>2. CASE d # c
    BY <2>2, <1>9 DEF IInv, ReceivedIsPrefix
  <2> QED
    BY <2>1, <2>2
<1>12. ListIsAll'
  BY <1>2 DEF IInv, ListIsAll, Numbered
<1>13. next'[c] = Len(received'[c]) + 1
  BY <1>1, <1>5, <1>6, <1>8 DEF SeqAfter, IInv, TypeOK
<1>14. CursorIsNext'
  BY <1>9, <1>13 DEF IInv, CursorIsNext, Connected
<1>15. BatchContinues'
  <2> SUFFICES ASSUME NEW d \in Clients, phase'[d] = "sending", NEW k \in DOMAIN batch'[d]
               PROVE  /\ k \in Len(received'[d]) + 1 .. Len(published[run[d]])
                      /\ batch'[d][k] = Numbered(run[d], k)
                      /\ \A j \in Len(received'[d]) + 1 .. k : j \in DOMAIN batch'[d]
    BY <1>2 DEF BatchContinues, Numbered
  <2>1. CASE d = c
    <3>1. batch'[c] = [j \in DOMAIN batch[c] \ {i} |-> batch[c][j]]
      BY <1>1 DEF IInv, TypeOK
    <3>2. k \in DOMAIN batch[c] /\ k # i /\ batch'[c][k] = batch[c][k]
      BY <2>1, <3>1
    <3>3. /\ k \in Len(got) + 1 .. Len(published[run[c]])
          /\ batch[c][k] = Numbered(run[c], k)
          /\ \A j \in Len(got) + 1 .. k : j \in DOMAIN batch[c]
      BY <1>4, <3>2
    <3>4. k \in Len(got) + 2 .. Len(published[run[c]])
      BY <1>3, <1>5, <3>2, <3>3
    <3>5. \A j \in Len(got) + 2 .. k : j \in DOMAIN batch'[c]
      BY <1>3, <1>5, <3>1, <3>3
    <3>6. Len(received'[c]) + 1 = Len(got) + 2
      BY <1>3, <1>8
    <3> QED
      BY <2>1, <3>2, <3>3, <3>4, <3>5, <3>6
  <2>2. CASE d # c
    BY <2>2, <1>9 DEF IInv, BatchContinues
  <2> QED
    BY <2>1, <2>2
<1> QED
  BY <1>11, <1>12, <1>14, <1>15 DEF IInv

LEMMA NextInv ==
  ASSUME PublishLimit <= MaxEvents, IInv, [Next]_vars
  PROVE  IInv'
<1>1. TypeOK'
  BY TypeNext DEF IInv
<1>2. CASE UNCHANGED vars
  BY <1>2 DEF vars, busVars, generator, IInv, TypeOK, ReceivedIsPrefix, ListIsAll,
              CursorIsNext, BatchContinues, Connected, Numbered
<1>3. CASE Next
  BY <1>1, <1>3, PublishInv, RestartInv, ConnectInv, DropInv, PollInv, SendInv DEF Next
<1> QED
  BY <1>2, <1>3

\* As long as no run publishes more events than the bus keeps, what a client has got
\* of a run over all its connections is exactly the beginning of what the run has
\* published, numbered from 1: nothing twice, nothing skipped, nothing out of order,
\* whatever reconnections and restarts come in between, and a stream the server has
\* closed has ended with the terminal event (publish, snapshot, stream).
THEOREM ReadersGetTheRun ==
  ASSUME PublishLimit <= MaxEvents
  PROVE  Spec => []ReadersFollow
<1>1. IInv /\ [Next]_vars => IInv'
  BY NextInv
<1>2. IInv /\ ClosedAfterTerminal => ReadersFollow
  BY DEF IInv, ReadersFollow
<1>3. Spec => []IInv
  BY InitInv, <1>1, PTL DEF Spec
<1> QED
  BY <1>2, <1>3, StreamsEndWithTerminal, PTL

-----------------------------------------------------------------------------
(* The bus implements the feed: its log is what was published, its cursor counts    *)
(* what was received.                                                               *)

LEMMA FeedInit == Init => Feed!Init
<1> SUFFICES ASSUME Init PROVE Feed!Init
  OBVIOUS
<1>1. [c \in Clients |-> Len(received[c])] = [c \in Clients |-> 0]
  BY EmptySeq DEF Init
<1>2. [c \in Clients |-> Connected(c)] = [c \in Clients |-> FALSE]
  <2>1. ASSUME NEW c \in Clients PROVE Connected(c) = FALSE
    BY DEF Init, Connected
  <2> QED
    BY <2>1
<1> QED
  BY <1>1, <1>2 DEF Init, Feed!Init

\* A run the bus knows has published something.
LEMMA KnownHasLog ==
  ASSUME IInv, NEW r \in Runs, HasRun(r)
  PROVE  published[r] # <<>>
<1>1. events[r] # <<>> /\ events[r] \in Seq(Event(Types)) /\ published[r] \in Seq(Types)
  BY DEF IInv, TypeOK, HasRun
<1>2. Len(events[r]) = Len(published[r])
  BY <1>1 DEF IInv, ListIsAll
<1> QED
  BY <1>1, <1>2, EmptySeq

LEMMA FeedGrow ==
  ASSUME IInv, NEW r \in Runs, NEW type \in Types, Publish(r, type)
  PROVE  Feed!Grow(r, type)
BY DEF Publish, generator, Feed!Grow, Connected

LEMMA FeedLeave ==
  ASSUME IInv, Restart \/ \E c \in Clients : Drop(c)
  PROVE  Feed!Leave
<1>1. UNCHANGED <<published, run, received>>
  BY DEF Restart, Drop
<1>2. \E gone \in SUBSET Clients :
         [c \in Clients |-> Connected(c)]'
           = [c \in Clients |-> [d \in Clients |-> Connected(d)][c] /\ c \notin gone]
  <2>1. CASE Restart
    <3>1. \A c \in Clients : Connected(c)' = (Connected(c) /\ c \notin Clients)
      BY <2>1 DEF Restart, Connected
    <3> QED
      BY <3>1
  <2>2. ASSUME NEW e \in Clients, Drop(e)
        PROVE  \E gone \in SUBSET Clients :
                  [c \in Clients |-> Connected(c)]'
                    = [c \in Clients |-> [d \in Clients |-> Connected(d)][c] /\ c \notin gone]
    <3>1. \A c \in Clients : Connected(c)' = (Connected(c) /\ c \notin {e})
      BY <2>2 DEF Drop, Connected, IInv, TypeOK
    <3> QED
      BY <3>1
  <2> QED
    BY <2>1, <2>2
<1> QED
  BY <1>1, <1>2 DEF Feed!Leave

LEMMA FeedFollow ==
  ASSUME IInv, NEW c \in Clients, NEW r \in Runs, Subscribe(c, r)
  PROVE  Feed!Follow(c, r)
<1>1. ~ Connected(c) /\ published[r] # <<>>
  BY KnownHasLog DEF Subscribe, StartStream
<1>2. /\ phase' = [phase EXCEPT ![c] = "polling"]
      /\ received' = [received EXCEPT ![c] = <<>>]
      /\ run' = [run EXCEPT ![c] = r] /\ published' = published
  BY DEF Subscribe, StartStream
<1>3. [d \in Clients |-> Connected(d)]'
        = [[d \in Clients |-> Connected(d)] EXCEPT ![c] = TRUE]
  BY <1>2 DEF Connected, IInv, TypeOK
<1>4. [d \in Clients |-> Len(received[d])]'
        = [[d \in Clients |-> Len(received[d])] EXCEPT ![c] = 0]
  BY <1>2, EmptySeq DEF IInv, TypeOK
<1> QED
  BY <1>1, <1>2, <1>3, <1>4 DEF Feed!Follow

LEMMA FeedReturn ==
  ASSUME IInv, NEW c \in Clients, Resume(c)
  PROVE  Feed!Return(c)
<1>1. ~ Connected(c) /\ published[run[c]] # <<>>
  BY KnownHasLog DEF Resume, StartStream, IInv, TypeOK
<1>2. /\ phase' = [phase EXCEPT ![c] = "polling"]
      /\ UNCHANGED <<received, run, published>>
  BY DEF Resume, StartStream
<1>3. [d \in Clients |-> Connected(d)]'
        = [[d \in Clients |-> Connected(d)] EXCEPT ![c] = TRUE]
  BY <1>2 DEF Connected, IInv, TypeOK
<1> QED
  BY <1>1, <1>2, <1>3 DEF Feed!Return

\* Taking a copy of the list is nothing to the feed.
LEMMA FeedStutter ==
  ASSUME IInv, UNCHANGED vars \/ \E c \in Clients : Poll(c)
  PROVE  UNCHANGED Feed!vars
<1>1. UNCHANGED <<published, run, received>>
  BY DEF vars, Poll
<1>2. \A c \in Clients : Connected(c)' = Connected(c)
  BY DEF vars, generator, Poll, Connected, IInv, TypeOK
<1> QED
  BY <1>1, <1>2 DEF Feed!vars

LEMMA FeedDeliver ==
  ASSUME IInv, NEW c \in Clients, Send(c)
  PROVE  Feed!Deliver(c)
<1>1. PICK i \in DOMAIN batch[c] :
        /\ IsFirst(i, batch[c])
        /\ phase' = [phase EXCEPT ![c] = PhaseAfter(batch[c][i], DOMAIN batch[c] \ {i})]
        /\ received' = [received EXCEPT ![c] = Append(@, batch[c][i])]
  BY DEF Send
<1>2. phase[c] = "sending" /\ UNCHANGED <<run, published>>
  BY DEF Send
<1>3. /\ run[c] \in Runs /\ Len(received[c]) \in Nat /\ Len(published[run[c]]) \in Nat
      /\ received[c] \in Seq(Event(Types)) /\ batch[c][i] \in Event(Types)
  BY LenProperties DEF IInv, TypeOK
<1>4. \A k \in DOMAIN batch[c] :
        /\ k \in Len(received[c]) + 1 .. Len(published[run[c]])
        /\ batch[c][k] = Numbered(run[c], k)
        /\ \A j \in Len(received[c]) + 1 .. k : j \in DOMAIN batch[c]
  BY <1>2 DEF IInv, BatchContinues
<1>5. i = Len(received[c]) + 1 /\ i <= Len(published[run[c]])
  <2>1. i \in Len(received[c]) + 1 .. Len(published[run[c]])
    BY <1>4
  <2>2. Len(received[c]) + 1 \in DOMAIN batch[c]
    BY <1>3, <1>4, <2>1
  <2>3. i <= Len(received[c]) + 1
    BY <1>1, <2>2 DEF IsFirst
  <2> QED
    BY <2>1, <2>3, <1>3
<1>6. batch[c][i].type = published[run[c]][Len(received[c]) + 1]
  <2>1. batch[c][i] = [seq |-> i, type |-> published[run[c]][i]]
    BY <1>4 DEF Numbered
  <2>2. batch[c][i].type = published[run[c]][i]
    BY <2>1
  <2> QED
    BY <1>5, <2>2
<1>7. [d \in Clients |-> Len(received[d])]'
        = [[d \in Clients |-> Len(received[d])] EXCEPT ![c] = @ + 1]
  <2>1. received'[c] = Append(received[c], batch[c][i])
        /\ \A d \in Clients \ {c} : received'[d] = received[d]
    BY <1>1 DEF IInv, TypeOK
  <2>2. Len(received'[c]) = Len(received[c]) + 1
    BY <1>3, <2>1, AppendProperties
  <2> QED
    BY <2>1, <2>2
<1>8. Connected(c)' = (published[run[c]][Len(received[c]) + 1] \notin Terminal)
  BY <1>1, <1>6 DEF Connected, PhaseAfter, IInv, TypeOK
<1>9. [d \in Clients |-> Connected(d)]'
        = [[d \in Clients |-> Connected(d)] EXCEPT
              ![c] = published[run[c]][Len(received[c]) + 1] \notin Terminal]
  BY <1>1, <1>8 DEF Connected, IInv, TypeOK
<1>10. Connected(c) /\ Len(received[c]) < Len(published[run[c]])
  BY <1>2, <1>3, <1>5 DEF Connected
<1> QED
  BY <1>2, <1>7, <1>9, <1>10 DEF Feed!Deliver

LEMMA FeedNext == IInv /\ [Next]_vars => [Feed!Next]_(Feed!vars)
<1> SUFFICES ASSUME IInv, [Next]_vars PROVE [Feed!Next]_(Feed!vars)
  OBVIOUS
<1> QED
  BY FeedGrow, FeedLeave, FeedFollow, FeedReturn, FeedDeliver, FeedStutter
     DEF Next, Feed!Next

\* As long as no run publishes more events than the bus keeps, the bus with its copies,
\* numbers, polling, broken connections and restarts is a feed: delivery moves the cursor
\* of a client along the log of its run by one event and ends with a terminal one.
THEOREM BusIsFeed ==
  ASSUME PublishLimit <= MaxEvents
  PROVE  Spec => ImplementsFeed
<1>1. IInv /\ [Next]_vars => IInv'
  BY NextInv
<1>2. Spec => []IInv
  BY InitInv, <1>1, PTL DEF Spec
<1> QED
  BY <1>2, FeedInit, FeedNext, PTL DEF Spec, ImplementsFeed, Feed!Spec

=============================================================================
