------------------------- MODULE DeviceCommandsProofs --------------------------
(***************************************************************************)
(* Theorems about DeviceCommands for every set of commands, payloads,       *)
(* events and requests, and every limit.                                    *)
(***************************************************************************)
EXTENDS DeviceCommands, TLAPS

(* What a request in flight relies on when it writes.                       *)

CancelOK(w) ==
    request[w].op = "cancel" => status[request[w].command] # "none"

AckOK(w) ==
    request[w].op \in {"ack", "ackSave", "ackDone", "ackFailed"} =>
        /\ event[request[w].event] # NoEvent
        /\ event[request[w].event].command \in received
        /\ request[w].op = "ackDone" => Marked(request[w].event)

RequestsOK == \A w \in Workers : CancelOK(w) /\ AckOK(w)

\* A device knows only commands that were sent, and a command that was sent
\* is never queued again.
SentOK ==
    /\ received \subseteq sentAt
    /\ \A c \in sentAt : status[c] \notin {"none", "queued"}

\* The event a command names is one of its own, and has left its timestamp.
AckEventOK ==
    \A c \in Commands : ackEvent[c] # NoAck =>
        /\ event[ackEvent[c]] # NoEvent
        /\ event[ackEvent[c]].command = c
        /\ Marked(ackEvent[c])

\* An answer in the status column has its timestamp.
AnsweredIsStamped ==
    \A c \in Commands :
        /\ status[c] = "acknowledged" => c \in ackedAt
        /\ status[c] = "completed" => c \in completedAt

IInv ==
    /\ TypeOK
    /\ RequestsOK
    /\ SentOK
    /\ AckEventOK
    /\ AnsweredIsStamped
    /\ HandedOutOnce
    /\ AnswerIsRecorded
    /\ TimestampsAgree
    /\ ProcessedAckLeftMark

--------------------------------------------------------------------------------
(* Type correctness *)

\* The fields a request carries, by the operation it performs.
LEMMA RequestFields ==
    ASSUME TypeOK, NEW w \in Workers
    PROVE  /\ request[w].op \in {"idle", "create", "cancel", "ack", "ackSave",
                                 "ackDone", "ackFailed"}
           /\ request[w].op \in {"create", "cancel"} =>
                 request[w].command \in Commands
           /\ request[w].op = "create" => request[w].payload \in Payloads
           /\ request[w].op \in {"ack", "ackSave", "ackDone", "ackFailed"} =>
                 request[w].event \in AckEvents
<1>1. request[w] \in Requests
  BY DEF TypeOK
<1>. QED
  BY <1>1 DEF Requests, Idle

LEMMA EventFields ==
    ASSUME TypeOK, NEW e \in AckEvents, event[e] # NoEvent
    PROVE  /\ event[e].command \in Commands
           /\ event[e].result \in Results
           /\ event[e] = [state |-> event[e].state, command |-> event[e].command,
                          result |-> event[e].result]
<1>1. event[e] \in EventRows
  BY DEF TypeOK
<1>. QED
  BY <1>1 DEF EventRows, NoEvent

\* A write to the event row keeps its command and result.
LEMMA MarkFields ==
    ASSUME TypeOK, NEW d \in AckEvents, event[d] # NoEvent,
           NEW s \in {"received", "processed", "failed"},
           event' = [event EXCEPT ![d].state = s]
    PROVE  /\ event' \in [AckEvents -> EventRows]
           /\ event'[d] = [state |-> s, command |-> event[d].command,
                           result |-> event[d].result]
           /\ event'[d] # NoEvent
           /\ \A e \in AckEvents \ {d} : event'[e] = event[e]
<1>1. event'[d] = [state |-> s, command |-> event[d].command,
                   result |-> event[d].result]
  BY EventFields DEF TypeOK
<1>2. event'[d] # NoEvent
  <2>1. DOMAIN event'[d] # DOMAIN NoEvent
    BY <1>1 DEF NoEvent
  <2>. QED
    BY <2>1
<1>3. event'[d] \in EventRows
  <2>1. event[d].command \in Commands /\ event[d].result \in Results
    BY EventFields
  <2>2. [state |-> s, command |-> event[d].command, result |-> event[d].result]
           \in [state : {"received", "processed", "failed"},
                command : Commands, result : Results]
    BY <2>1
  <2>. QED
    BY <1>1, <2>2 DEF EventRows
<1>4. /\ event' = [e \in AckEvents |-> event'[e]]
      /\ \A e \in AckEvents \ {d} : event'[e] = event[e]
  BY DEF TypeOK
<1>5. \A e \in AckEvents : event'[e] \in EventRows
  BY <1>3, <1>4 DEF TypeOK
<1>6. event' \in [AckEvents -> EventRows]
  BY <1>4, <1>5
<1>. QED
  BY <1>1, <1>2, <1>4, <1>6

\* Every action keeps the types.
LEMMA TypeStep ==
    TypeOK /\ RequestsOK /\ [Next]_vars => TypeOK'
<1>. SUFFICES ASSUME TypeOK, RequestsOK, [Next]_vars
              PROVE  TypeOK'
  OBVIOUS
<1>. USE DEF Start, Become, Finish, rowVars, timeVars, pollVars
<1>0. Idle \in Requests
  BY DEF Requests
<1>1. ASSUME NEW w \in Workers, NEW c \in Commands, CancelRead(w, c) PROVE TypeOK'
  BY <1>1 DEF CancelRead, TypeOK, Requests
<1>2. ASSUME NEW w \in Workers, NEW c \in Commands, NEW p \in Sends[c],
             CreateRead(w, c, p)
      PROVE  TypeOK'
  <2>1. p \in Payloads
    BY DEF Payloads
  <2>2. [op |-> "create", command |-> c, payload |-> p] \in Requests
    BY <2>1 DEF Requests
  <2>. QED
    BY <1>2, <2>1, <2>2 DEF CreateRead, TypeOK
<1>3. ASSUME NEW c \in Commands, BecomeAvailable(c) \/ Lapse(c) PROVE TypeOK'
  BY <1>3, CommandConstants DEF BecomeAvailable, Lapse, TypeOK
<1>4. ASSUME NEW c \in Commands, NEW p \in Sends[c], QueueForClaim(c, p)
      PROVE  TypeOK'
  <2>1. p \in Payloads
    BY DEF Payloads
  <2>. QED
    BY <1>4, <2>1 DEF QueueForClaim, Queue, TypeOK, Statuses
<1>5. ASSUME NEW cs \in SUBSET Commands, Poll(cs) PROVE TypeOK'
  BY <1>5 DEF Poll, SentStatus, TypeOK, Statuses
<1>6. ASSUME NEW cs \in SUBSET Commands, ExpireBatch(cs) PROVE TypeOK'
  BY <1>6 DEF ExpireBatch, TypeOK, Statuses, Terminal
<1>7. ASSUME NEW w \in Workers, NEW e \in AckEvents, NEW c \in Commands,
             NEW r \in Results, AckArrives(w, e, c, r)
      PROVE  TypeOK'
  <2>1. /\ [op |-> "ack", event |-> e] \in Requests
        /\ [state |-> "received", command |-> c, result |-> r] \in EventRows
    BY DEF Requests, EventRows
  <2>. QED
    BY <1>7, <2>1 DEF AckArrives, TypeOK
<1>8. ASSUME NEW w \in Workers, WorkerStep(w) PROVE TypeOK'
  <2>. USE RequestFields
  <2>1. CASE Insert(w)
    BY <1>0, <2>1 DEF Insert, Queue, TypeOK, Statuses
  <2>2. CASE InsertCollides(w)
    BY <1>0, <2>2 DEF InsertCollides, TypeOK
  <2>3. CASE CancelCommit(w)
    BY <1>0, <2>3 DEF CancelCommit, TypeOK, Statuses, Terminal
  <2>4. CASE AckRead(w)
    <3>1. \A o \in {"ackDone", "ackSave", "ackFailed"} :
             [op |-> o, event |-> request[w].event] \in Requests
      BY <2>4 DEF AckRead, Requests
    <3>2. PICK r \in Requests : request' = [request EXCEPT ![w] = r]
      BY <2>4, <3>1 DEF AckRead
    <3>. QED
      BY <2>4, <3>2 DEF AckRead, TypeOK
  <2>5. CASE AckCommit(w)
    <3>1. request[w].event \in AckEvents /\ event[request[w].event] # NoEvent
      BY <2>5 DEF AckCommit, RequestsOK, AckOK
    <3>2. /\ event[request[w].event].command \in Commands
          /\ event[request[w].event].result \in Statuses
      BY <3>1, EventFields DEF Results, Statuses, Terminal
    <3>3. [op |-> "ackDone", event |-> request[w].event] \in Requests
      BY <3>1 DEF Requests
    <3>. QED
      BY <2>5, <3>1, <3>2, <3>3 DEF AckCommit, NoteAck, TypeOK
  <2>6. CASE MarkProcessed(w)
    <3>1. request[w].event \in AckEvents /\ event[request[w].event] # NoEvent
      BY <2>6 DEF MarkProcessed, RequestsOK, AckOK
    <3>2. event' \in [AckEvents -> EventRows]
      BY <2>6, <3>1, MarkFields DEF MarkProcessed
    <3>. QED
      BY <1>0, <2>6, <3>2 DEF MarkProcessed, TypeOK
  <2>7. CASE MarkFailed(w)
    <3>1. request[w].event \in AckEvents /\ event[request[w].event] # NoEvent
      BY <2>7 DEF MarkFailed, RequestsOK, AckOK
    <3>2. event' \in [AckEvents -> EventRows]
      BY <2>7, <3>1, MarkFields DEF MarkFailed
    <3>. QED
      BY <1>0, <2>7, <3>2 DEF MarkFailed, TypeOK
  <2>. QED
    BY <1>8, <2>1, <2>2, <2>3, <2>4, <2>5, <2>6, <2>7 DEF WorkerStep
<1>9. ASSUME NEW w \in Workers, RequestDies(w) PROVE TypeOK'
  BY <1>0, <1>9 DEF RequestDies, TypeOK
<1>10. CASE UNCHANGED vars
  BY <1>10 DEF vars, TypeOK
<1>. QED
  BY <1>1, <1>2, <1>3, <1>4, <1>5, <1>6, <1>7, <1>8, <1>9, <1>10 DEF Next

--------------------------------------------------------------------------------
(* The command rows                                                         *)

\* Only these actions write a command's row or hand it out.
LEMMA RowWriters ==
    [Next]_vars =>
        \/ UNCHANGED <<rowVars, pollVars>>
        \/ \E w \in Workers : Insert(w) \/ CancelCommit(w) \/ AckCommit(w)
        \/ \E c \in Commands : \E p \in Sends[c] : QueueForClaim(c, p)
        \/ \E cs \in SUBSET Commands : Poll(cs) \/ ExpireBatch(cs)
BY DEF Next, WorkerStep, vars, rowVars, pollVars, timeVars, CancelRead,
       CreateRead, BecomeAvailable, Lapse, AckArrives, InsertCollides, AckRead,
       MarkProcessed, MarkFailed, RequestDies

\* A row never disappears, no timestamp is cleared, and an event keeps the
\* command and the result it was sent with.
LEMMA RowsStay ==
    ASSUME IInv, [Next]_vars
    PROVE  /\ \A c \in Commands : status[c] # "none" => status'[c] # "none"
           /\ received \subseteq received'
           /\ sentAt \subseteq sentAt'
           /\ ackedAt \subseteq ackedAt'
           /\ completedAt \subseteq completedAt'
           /\ \A e \in AckEvents : event[e] # NoEvent =>
                 /\ event'[e] # NoEvent
                 /\ event'[e].command = event[e].command
                 /\ event'[e].result = event[e].result
<1>. TypeOK /\ RequestsOK
  BY DEF IInv
<1>1. /\ received \subseteq received'
      /\ sentAt \subseteq sentAt'
      /\ ackedAt \subseteq ackedAt'
      /\ completedAt \subseteq completedAt'
  BY RowWriters DEF rowVars, pollVars, Insert, Queue, CancelCommit, AckCommit,
                    QueueForClaim, Poll, ExpireBatch
<1>2. \A c \in Commands : status[c] # "none" => status'[c] # "none"
  <2>1. ASSUME NEW w \in Workers, AckCommit(w)
        PROVE  \A c \in Commands : status[c] # "none" => status'[c] # "none"
    <3>1. event[request[w].event].result # "none"
      BY <2>1, RequestFields, EventFields DEF AckCommit, RequestsOK, AckOK, Results
    <3>. QED
      BY <2>1, <3>1 DEF AckCommit, TypeOK
  <2>. QED
    BY <2>1, RowWriters
       DEF rowVars, Insert, Queue, CancelCommit, QueueForClaim, Poll, SentStatus,
           ExpireBatch, TypeOK
<1>3. \A e \in AckEvents : event[e] # NoEvent =>
         /\ event'[e] # NoEvent
         /\ event'[e].command = event[e].command
         /\ event'[e].result = event[e].result
  <2>1. CASE UNCHANGED event
    BY <2>1
  <2>2. ASSUME NEW w \in Workers, NEW d \in AckEvents, NEW c \in Commands,
               NEW r \in Results, AckArrives(w, d, c, r)
        PROVE  \A e \in AckEvents : event[e] # NoEvent => event'[e] = event[e]
    BY <2>2 DEF AckArrives, TypeOK
  <2>3. ASSUME NEW w \in Workers, MarkProcessed(w) \/ MarkFailed(w)
        PROVE  \A e \in AckEvents : event[e] # NoEvent =>
                  /\ event'[e] # NoEvent
                  /\ event'[e].command = event[e].command
                  /\ event'[e].result = event[e].result
    <3>1. /\ request[w].event \in AckEvents
          /\ event[request[w].event] # NoEvent
      BY <2>3, RequestFields DEF MarkProcessed, MarkFailed, RequestsOK, AckOK
    <3>2. PICK s \in {"received", "processed", "failed"} :
             event' = [event EXCEPT ![request[w].event].state = s]
      BY <2>3 DEF MarkProcessed, MarkFailed
    <3>. DEFINE d == request[w].event
    <3>3. /\ event'[d] = [state |-> s, command |-> event[d].command,
                          result |-> event[d].result]
          /\ event'[d] # NoEvent
          /\ \A e \in AckEvents \ {d} : event'[e] = event[e]
      BY <3>1, <3>2, MarkFields
    <3>4. event'[d].command = event[d].command /\ event'[d].result = event[d].result
      BY <3>3
    <3>. HIDE DEF d
    <3>. QED
      BY <3>3, <3>4
  <2>. QED
    BY <2>1, <2>2, <2>3
       DEF Next, WorkerStep, vars, CancelRead, CreateRead, BecomeAvailable,
           Lapse, QueueForClaim, Poll, ExpireBatch, Insert, InsertCollides,
           CancelCommit, AckRead, AckCommit, RequestDies
<1>. QED
  BY <1>1, <1>2, <1>3

\* What a row says of sending, answering and time agrees after every step.
RowsOK ==
    /\ SentOK
    /\ AckEventOK
    /\ AnsweredIsStamped
    /\ HandedOutOnce
    /\ AnswerIsRecorded
    /\ TimestampsAgree

LEMMA RowStep == IInv /\ [Next]_vars => RowsOK'
<1>. SUFFICES ASSUME IInv, [Next]_vars PROVE RowsOK'
  OBVIOUS
<1>. TypeOK /\ RequestsOK /\ RowsOK
  BY DEF IInv, RowsOK
<1>. USE DEF RowsOK
<1>0. ASSUME UNCHANGED <<ackEvent, ackedAt, completedAt>>
      PROVE  AckEventOK'
  BY <1>0, RowsStay DEF AckEventOK, Marked, TypeOK
<1>1. CASE UNCHANGED <<rowVars, pollVars>>
  <2>1. AckEventOK'
    BY <1>0, <1>1 DEF rowVars
  <2>2. AnswerIsRecorded'
    BY <1>1, RowsStay DEF AnswerIsRecorded, rowVars
  <2>. QED
    BY <1>1, <2>1, <2>2
       DEF rowVars, pollVars, SentOK, AnsweredIsStamped, HandedOutOnce,
           TimestampsAgree
<1>2. ASSUME NEW c \in Commands, NEW s \in {"queued", "cancelled"},
             status' = [status EXCEPT ![c] = s],
             s = "queued" => status[c] = "none",
             UNCHANGED <<sentAt, ackedAt, completedAt, ackEvent, pollVars>>
      PROVE  RowsOK'
  <2>1. AckEventOK'
    BY <1>0, <1>2
  <2>2. AnswerIsRecorded'
    BY <1>2, RowsStay DEF AnswerIsRecorded, Results, TypeOK
  <2>3. SentOK'
    BY <1>2 DEF SentOK, TypeOK, pollVars
  <2>. QED
    BY <1>2, <2>1, <2>2, <2>3
       DEF AnsweredIsStamped, HandedOutOnce, TimestampsAgree, pollVars, TypeOK
<1>3. ASSUME NEW w \in Workers, Insert(w) PROVE RowsOK'
  BY <1>2, <1>3, RequestFields DEF Insert, UnusedKey, Queue
<1>4. ASSUME NEW w \in Workers, CancelCommit(w) PROVE RowsOK'
  BY <1>2, <1>4, RequestFields DEF CancelCommit
<1>5. ASSUME NEW c \in Commands, NEW p \in Sends[c], QueueForClaim(c, p)
      PROVE  RowsOK'
  BY <1>2, <1>5 DEF QueueForClaim, UnusedKey, Queue
<1>6. ASSUME NEW cs \in SUBSET Commands, Poll(cs) PROVE RowsOK'
  <2>1. AckEventOK'
    BY <1>0, <1>6 DEF Poll
  <2>2. AnswerIsRecorded'
    BY <1>6, RowsStay DEF Poll, SentStatus, AnswerIsRecorded, Results, TypeOK
  <2>3. HandedOutOnce'
    <3>1. \A c \in cs : c \notin sentAt
      BY <1>6 DEF Poll, Pollable, SentOK
    <3>. QED
      BY <1>6, <3>1 DEF Poll, HandedOutOnce, TypeOK
  <2>. QED
    BY <1>6, <2>1, <2>2, <2>3
       DEF Poll, SentStatus, SentOK, AnsweredIsStamped, TimestampsAgree, TypeOK
<1>7. ASSUME NEW cs \in SUBSET Commands, ExpireBatch(cs) PROVE RowsOK'
  <2>1. AckEventOK'
    BY <1>0, <1>7 DEF ExpireBatch
  <2>2. AnswerIsRecorded'
    BY <1>7, RowsStay DEF ExpireBatch, AnswerIsRecorded, Results, TypeOK
  <2>. QED
    BY <1>7, <2>1, <2>2
       DEF ExpireBatch, SentOK, AnsweredIsStamped, HandedOutOnce,
           TimestampsAgree, TypeOK, pollVars
<1>8. ASSUME NEW w \in Workers, AckCommit(w) PROVE RowsOK'
  <2>. DEFINE e == request[w].event
              c == event[e].command
              r == event[e].result
  <2>1. /\ e \in AckEvents /\ event[e] # NoEvent
        /\ c \in Commands /\ r \in Results /\ c \in received
    BY <1>8, RequestFields, EventFields DEF AckCommit, RequestsOK, AckOK
  <2>2. /\ status' = [status EXCEPT ![c] = r]
        /\ ackEvent' = [ackEvent EXCEPT ![c] = e]
        /\ ackedAt' = IF r \in {"acknowledged", "completed"}
                      THEN ackedAt \union {c} ELSE ackedAt
        /\ completedAt' = IF r = "completed" THEN completedAt \union {c}
                                             ELSE completedAt
        /\ event' = event /\ sentAt' = sentAt
        /\ handedOut' = handedOut /\ received' = received
    BY <1>8 DEF AckCommit, NoteAck, StampsAcknowledged, pollVars
  <2>. HIDE DEF e
  <2>3. \A d \in AckEvents : d = e => Marked(d)'
    BY <2>1, <2>2 DEF Marked
  <2>4. AckEventOK'
    <3>1. ASSUME NEW d \in Commands, ackEvent'[d] # NoAck, d # c
          PROVE  /\ event[ackEvent[d]] # NoEvent
                 /\ event[ackEvent[d]].command = d
                 /\ ackEvent'[d] = ackEvent[d]
                 /\ Marked(ackEvent[d])
      BY <2>1, <2>2, <3>1 DEF AckEventOK, TypeOK
    <3>2. \A d \in AckEvents : Marked(d) => Marked(d)'
      BY <2>2 DEF Marked
    <3>3. \A d \in Commands : ackEvent[d] # NoAck => ackEvent[d] \in AckEvents
      BY DEF TypeOK
    <3>4. ackEvent'[c] = e
      BY <2>1, <2>2 DEF TypeOK
    <3>. QED
      BY <2>1, <2>2, <2>3, <3>1, <3>2, <3>3, <3>4 DEF AckEventOK, Marked
  <2>5. AnswerIsRecorded'
    BY <2>1, <2>2 DEF AnswerIsRecorded, TypeOK
  <2>6. SentOK'
    BY <2>1, <2>2 DEF SentOK, Results, TypeOK
  <2>7. AnsweredIsStamped'
    BY <2>1, <2>2 DEF AnsweredIsStamped, TypeOK
  <2>8. TimestampsAgree'
    BY <2>1, <2>2 DEF TimestampsAgree, SentOK
  <2>9. HandedOutOnce'
    BY <2>2 DEF HandedOutOnce
  <2>. QED
    BY <2>4, <2>5, <2>6, <2>7, <2>8, <2>9
<1>. QED
  BY <1>1, <1>3, <1>4, <1>5, <1>6, <1>7, <1>8, RowWriters

--------------------------------------------------------------------------------
(* The requests in flight                                                   *)

\* How the request of a worker may change in a step.
LEMMA RequestWriters ==
    ASSUME TypeOK, [Next]_vars, NEW w \in Workers
    PROVE  \/ request'[w] = request[w]
           \/ request'[w] = Idle
           \/ \E c \in Commands :
                 CancelRead(w, c) \/ \E p \in Sends[c] : CreateRead(w, c, p)
           \/ \E e \in AckEvents, c \in Commands, r \in Results :
                 AckArrives(w, e, c, r)
           \/ AckRead(w) \/ AckCommit(w)
<1>1. CASE UNCHANGED request
  BY <1>1
<1>2. ASSUME NEW u \in Workers, NEW r, request' = [request EXCEPT ![u] = r], u # w
      PROVE  request'[w] = request[w]
  BY <1>2 DEF TypeOK
<1>3. ASSUME NEW u \in Workers, Finish(u)
      PROVE  request'[w] = request[w] \/ request'[w] = Idle
  BY <1>3 DEF Finish, TypeOK
<1>4. ASSUME NEW u \in Workers, NEW c \in Commands,
             CancelRead(u, c) \/ \E p \in Sends[c] : CreateRead(u, c, p)
      PROVE  u = w \/ request'[w] = request[w]
  BY <1>1, <1>2, <1>4 DEF CancelRead, CreateRead, Start, Become
<1>5. ASSUME NEW u \in Workers, NEW e \in AckEvents, NEW c \in Commands,
             NEW r \in Results, AckArrives(u, e, c, r)
      PROVE  u = w \/ request'[w] = request[w]
  BY <1>2, <1>5 DEF AckArrives, Start
<1>6. ASSUME NEW u \in Workers, AckRead(u) \/ AckCommit(u)
      PROVE  u = w \/ request'[w] = request[w]
  BY <1>2, <1>6 DEF AckRead, AckCommit, Become
<1>7. ASSUME NEW u \in Workers, WorkerStep(u) \/ RequestDies(u)
      PROVE  Finish(u) \/ AckRead(u) \/ AckCommit(u)
  BY <1>7 DEF WorkerStep, RequestDies, Insert, InsertCollides, CancelCommit,
              MarkProcessed, MarkFailed
<1>8. ASSUME \/ \E c \in Commands : \/ BecomeAvailable(c) \/ Lapse(c)
                                    \/ \E p \in Sends[c] : QueueForClaim(c, p)
             \/ \E cs \in SUBSET Commands : Poll(cs) \/ ExpireBatch(cs)
             \/ UNCHANGED vars
      PROVE  UNCHANGED request
  BY <1>8 DEF BecomeAvailable, Lapse, QueueForClaim, Poll, ExpireBatch, vars
<1>. QED
  BY <1>1, <1>3, <1>4, <1>5, <1>6, <1>7, <1>8 DEF Next

LEMMA RequestStep == IInv /\ [Next]_vars => RequestsOK'
<1>. SUFFICES ASSUME IInv, [Next]_vars, NEW w \in Workers
              PROVE  CancelOK(w)' /\ AckOK(w)'
  BY DEF RequestsOK
<1>. TypeOK /\ RequestsOK /\ AckEventOK /\ AnsweredIsStamped
  BY DEF IInv
<1>. USE DEF Start, Become
<1>0. \A e \in AckEvents : event[e] # NoEvent /\ Marked(e) => Marked(e)'
  BY RowsStay DEF Marked
<1>1. CASE request'[w] = request[w]
  <2>1. CancelOK(w)'
    BY <1>1, RequestFields, RowsStay DEF RequestsOK, CancelOK
  <2>2. ASSUME request[w].op \in {"ack", "ackSave", "ackDone", "ackFailed"}
        PROVE  /\ event'[request[w].event] # NoEvent
               /\ event'[request[w].event].command \in received'
               /\ request[w].op = "ackDone" =>
                     \A e \in AckEvents : e = request[w].event => Marked(e)'
    BY <1>0, <2>2, RequestFields, RowsStay DEF RequestsOK, AckOK
  <2>3. AckOK(w)'
    BY <1>1, <2>2, RequestFields DEF AckOK, Marked
  <2>. QED
    BY <2>1, <2>3
<1>2. CASE request'[w] = Idle
  BY <1>2 DEF Idle, CancelOK, AckOK
<1>3. ASSUME NEW c \in Commands, CancelRead(w, c) PROVE CancelOK(w)' /\ AckOK(w)'
  <2>1. /\ request'[w] = [op |-> "cancel", command |-> c]
        /\ status'[c] # "none"
    BY <1>3 DEF CancelRead, CanCancel, rowVars, TypeOK
  <2>. QED
    BY <2>1 DEF CancelOK, AckOK
<1>4. ASSUME NEW c \in Commands, NEW p \in Sends[c], CreateRead(w, c, p),
             request'[w] # request[w]
      PROVE  CancelOK(w)' /\ AckOK(w)'
  <2>1. request'[w] = [op |-> "create", command |-> c, payload |-> p]
    BY <1>4 DEF CreateRead, TypeOK
  <2>. QED
    BY <2>1 DEF CancelOK, AckOK
<1>5. ASSUME NEW e \in AckEvents, NEW c \in Commands, NEW r \in Results,
             AckArrives(w, e, c, r)
      PROVE  CancelOK(w)' /\ AckOK(w)'
  <2>1. /\ request'[w] = [op |-> "ack", event |-> e]
        /\ event'[e] = [state |-> "received", command |-> c, result |-> r]
        /\ c \in received'
    BY <1>5 DEF AckArrives, pollVars, TypeOK
  <2>2. event'[e] # NoEvent
    <3>1. DOMAIN event'[e] # DOMAIN NoEvent
      BY <2>1 DEF NoEvent
    <3>. QED
      BY <3>1
  <2>. QED
    BY <2>1, <2>2 DEF CancelOK, AckOK
<1>6. CASE AckRead(w)
  <2>. DEFINE e == request[w].event
  <2>1. /\ e \in AckEvents /\ event[e] # NoEvent
        /\ event[e].command \in received /\ event[e].command \in Commands
        /\ event[e].result \in Results
    BY <1>6, RequestFields, EventFields DEF AckRead, RequestsOK, AckOK
  <2>2. UNCHANGED <<event, received, ackedAt, completedAt>>
    BY <1>6 DEF AckRead, rowVars, pollVars
  <2>3. \/ request'[w] = [op |-> "ackSave", event |-> e]
        \/ request'[w] = [op |-> "ackFailed", event |-> e]
        \/ /\ request'[w] = [op |-> "ackDone", event |-> e]
           /\ \/ ackEvent[event[e].command] = e
              \/ status[event[e].command] = event[e].result
    BY <1>6 DEF AckRead, IsDuplicateAck, TypeOK
  <2>4. ackEvent[event[e].command] = e => Marked(e)
    BY <2>1, CommandConstants DEF AckEventOK, NoAck
  <2>5. status[event[e].command] = event[e].result => Marked(e)
    BY <2>1 DEF AnsweredIsStamped, Marked
  <2>. HIDE DEF e
  <2>6. request'[w].op = "ackDone" => Marked(e)
    BY <2>3, <2>4, <2>5
  <2>. QED
    BY <2>1, <2>2, <2>3, <2>6 DEF CancelOK, AckOK, Marked
<1>7. CASE AckCommit(w)
  <2>. DEFINE e == request[w].event
  <2>1. /\ e \in AckEvents /\ event[e] # NoEvent
        /\ event[e].command \in received
        /\ event[e].result \in Results
    BY <1>7, RequestFields, EventFields DEF AckCommit, RequestsOK, AckOK
  <2>2. /\ event' = event /\ received' = received
        /\ request'[w] = [op |-> "ackDone", event |-> e]
        /\ event[e].result \in {"acknowledged", "completed"} =>
              event[e].command \in ackedAt'
        /\ event[e].result = "completed" => event[e].command \in completedAt'
    BY <1>7 DEF AckCommit, StampsAcknowledged, pollVars, TypeOK
  <2>. HIDE DEF e
  <2>. QED
    BY <2>1, <2>2 DEF CancelOK, AckOK, Marked
<1>. QED
  BY <1>1, <1>2, <1>3, <1>4, <1>5, <1>6, <1>7, RequestWriters

LEMMA ProcessedStep == IInv /\ [Next]_vars => ProcessedAckLeftMark'
<1>. SUFFICES ASSUME IInv, [Next]_vars, NEW e \in AckEvents,
                     event'[e] # NoEvent, event'[e].state = "processed"
              PROVE  Marked(e)'
  BY DEF ProcessedAckLeftMark
<1>. TypeOK /\ RequestsOK
  BY DEF IInv
<1>0. event[e] # NoEvent /\ Marked(e) => Marked(e)'
  BY RowsStay DEF Marked
<1>1. CASE event'[e] = event[e]
  BY <1>0, <1>1 DEF IInv, ProcessedAckLeftMark
<1>2. ASSUME NEW w \in Workers, NEW d \in AckEvents, NEW c \in Commands,
             NEW r \in Results, AckArrives(w, d, c, r)
      PROVE  event'[e] = event[e]
  BY <1>2 DEF AckArrives, TypeOK
<1>3. ASSUME NEW w \in Workers, MarkProcessed(w)
      PROVE  event'[e] = event[e] \/ (event[e] # NoEvent /\ Marked(e))
  <2>1. /\ request[w].event \in AckEvents
        /\ event[request[w].event] # NoEvent /\ Marked(request[w].event)
    BY <1>3, RequestFields DEF MarkProcessed, RequestsOK, AckOK
  <2>2. e # request[w].event => event'[e] = event[e]
    BY <1>3, <2>1, MarkFields DEF MarkProcessed
  <2>. QED
    BY <2>1, <2>2
<1>4. ASSUME NEW w \in Workers, MarkFailed(w) PROVE event'[e] = event[e]
  <2>1. request[w].event \in AckEvents /\ event[request[w].event] # NoEvent
    BY <1>4, RequestFields DEF MarkFailed, RequestsOK, AckOK
  <2>2. e # request[w].event => event'[e] = event[e]
    BY <1>4, <2>1, MarkFields DEF MarkFailed
  <2>3. event'[request[w].event]
           = [state |-> "failed", command |-> event[request[w].event].command,
              result |-> event[request[w].event].result]
    BY <1>4, <2>1, MarkFields DEF MarkFailed
  <2>. QED
    BY <2>2, <2>3
<1>5. \/ UNCHANGED event
      \/ \E w \in Workers, d \in AckEvents, c \in Commands, r \in Results :
            AckArrives(w, d, c, r)
      \/ \E w \in Workers : MarkProcessed(w) \/ MarkFailed(w)
  BY DEF Next, WorkerStep, vars, CancelRead, CreateRead, BecomeAvailable, Lapse,
         QueueForClaim, Poll, ExpireBatch, Insert, InsertCollides, CancelCommit,
         AckRead, AckCommit, RequestDies
<1>. QED
  BY <1>0, <1>1, <1>2, <1>3, <1>4, <1>5

--------------------------------------------------------------------------------
(* The inductive invariant and what follows from it                         *)

LEMMA InitIInv == Init => IInv
<1>. SUFFICES ASSUME Init PROVE IInv
  OBVIOUS
<1>1. TypeOK
  BY DEF Init, TypeOK, Statuses, EventRows, Requests
<1>2. RequestsOK
  BY DEF Init, RequestsOK, CancelOK, AckOK, Idle
<1>3. SentOK /\ AckEventOK /\ AnsweredIsStamped
  BY DEF Init, SentOK, AckEventOK, AnsweredIsStamped
<1>4. HandedOutOnce /\ AnswerIsRecorded /\ TimestampsAgree /\ ProcessedAckLeftMark
  BY DEF Init, HandedOutOnce, AnswerIsRecorded, TimestampsAgree,
         ProcessedAckLeftMark, Results
<1>. QED
  BY <1>1, <1>2, <1>3, <1>4 DEF IInv

LEMMA NextIInv == IInv /\ [Next]_vars => IInv'
<1>. SUFFICES ASSUME IInv, [Next]_vars PROVE IInv'
  OBVIOUS
<1>1. TypeOK'
  BY TypeStep DEF IInv
<1>. QED
  BY <1>1, RowStep, RequestStep, ProcessedStep DEF IInv, RowsOK

\* Requests in flight, events and rows fit together in every reachable state.
THEOREM Inductive == Spec => []IInv
BY InitIInv, NextIInv, PTL DEF Spec

\* Every variable keeps its type, whatever the commands, events and requests.
THEOREM TypeCorrect == Spec => []TypeOK
<1>1. IInv => TypeOK
  BY DEF IInv
<1>. QED
  BY <1>1, Inductive, PTL

\* A command is part of one poll response at most, whatever polls, expiry,
\* cancellations and acknowledgements do to its row.
THEOREM HandedOut == Spec => []HandedOutOnce
<1>1. IInv => HandedOutOnce
  BY DEF IInv
<1>. QED
  BY <1>1, Inductive, PTL

\* A status that reports an answer is that of the event the row names, although
\* acknowledgements overwrite each other.
THEOREM AnswersRecorded == Spec => []AnswerIsRecorded
<1>1. IInv => AnswerIsRecorded
  BY DEF IInv
<1>. QED
  BY <1>1, Inductive, PTL

\* The CHECK constraints on the timestamps are never tripped.
THEOREM TimestampsOrdered == Spec => []TimestampsAgree
<1>1. IInv => TimestampsAgree
  BY DEF IInv
<1>. QED
  BY <1>1, Inductive, PTL

\* An acknowledgement reported as processed is never lost to another write.
THEOREM ProcessedAcks == Spec => []ProcessedAckLeftMark
<1>1. IInv => ProcessedAckLeftMark
  BY DEF IInv
<1>. QED
  BY <1>1, Inductive, PTL

--------------------------------------------------------------------------------
(* What the timestamps rest on                                              *)

LEMMA BackedInit == Init => TimestampsAreBacked
BY DEF Init, TimestampsAreBacked

\* Only an acknowledgement stamps a row, and its event row was there before.
LEMMA BackedStep == IInv /\ TimestampsAreBacked /\ [Next]_vars => TimestampsAreBacked'
<1>. SUFFICES ASSUME IInv, TimestampsAreBacked, [Next]_vars
              PROVE  TimestampsAreBacked'
  OBVIOUS
<1>. TypeOK /\ RequestsOK
  BY DEF IInv
<1>1. ASSUME NEW c \in Commands, NEW rs, Answered(c, rs) PROVE Answered(c, rs)'
  BY <1>1, RowsStay DEF Answered
<1>2. /\ \A c \in ackedAt : Answered(c, {"acknowledged", "completed"})'
      /\ \A c \in completedAt : Answered(c, {"completed"})'
  BY <1>1 DEF TimestampsAreBacked, TypeOK
<1>3. CASE UNCHANGED <<ackedAt, completedAt>>
  BY <1>2, <1>3 DEF TimestampsAreBacked
<1>4. ASSUME NEW w \in Workers, AckCommit(w) PROVE TimestampsAreBacked'
  <2>. DEFINE e == request[w].event
  <2>1. PICK c \in Commands : e \in AckEvents /\ event[e] # NoEvent /\ c = event[e].command
    BY <1>4, RequestFields, EventFields DEF AckCommit, RequestsOK, AckOK
  <2>2. UNCHANGED event
    BY <1>4 DEF AckCommit
  <2>3. ASSUME NEW rs, event[e].result \in rs PROVE Answered(c, rs)'
    BY <2>1, <2>2, <2>3 DEF Answered
  <2>4. /\ \A d \in ackedAt' :
              d \in ackedAt \/ (d = c /\ event[e].result \in {"acknowledged", "completed"})
        /\ \A d \in completedAt' :
              d \in completedAt \/ (d = c /\ event[e].result = "completed")
    BY <1>4, <2>1 DEF AckCommit, StampsAcknowledged
  <2>. HIDE DEF e
  <2>5. ASSUME NEW d \in ackedAt' PROVE Answered(d, {"acknowledged", "completed"})'
    <3>1. CASE d \in ackedAt
      BY <1>2, <3>1
    <3>2. CASE d = c /\ event[e].result \in {"acknowledged", "completed"}
      BY <2>3, <3>2
    <3>. QED
      BY <2>4, <3>1, <3>2
  <2>6. ASSUME NEW d \in completedAt' PROVE Answered(d, {"completed"})'
    <3>1. CASE d \in completedAt
      BY <1>2, <3>1
    <3>2. CASE d = c /\ event[e].result = "completed"
      BY <2>3, <3>2
    <3>. QED
      BY <2>4, <3>1, <3>2
  <2>. QED
    BY <2>5, <2>6 DEF TimestampsAreBacked
<1>. QED
  BY <1>3, <1>4, RowWriters
     DEF rowVars, Insert, CancelCommit, QueueForClaim, Poll, ExpireBatch

\* A row tells what the device answered, for any number of events that are
\* handled at once, repeated or lost half-way.
THEOREM AnswersAgree == Spec => []RowsAgreeWithAnswers
<1>1. IInv /\ TimestampsAreBacked => RowsAgreeWithAnswers
  BY DEF IInv, RowsAgreeWithAnswers
<1>2. Spec => []TimestampsAreBacked
  BY Inductive, BackedInit, BackedStep, PTL DEF Spec
<1>. QED
  BY <1>1, <1>2, Inductive, PTL

--------------------------------------------------------------------------------
(* The services implement the queue                                         *)

queue == [c \in Commands |-> Phase(status[c])]

LEMMA QueueInit == Init => Promise!Init
BY DEF Init, Promise!Init, Phase

LEMMA QueueStep == IInv /\ [Next]_vars => [Promise!Next]_<<queue, payload>>
<1>. SUFFICES ASSUME IInv, [Next]_vars
              PROVE  Promise!Next \/ UNCHANGED <<queue, payload>>
  OBVIOUS
<1>. DEFINE Goal == Promise!Next \/ UNCHANGED <<queue, payload>>
<1>. TypeOK /\ RequestsOK /\ SentOK
  BY DEF IInv
<1>1. CASE UNCHANGED <<rowVars, pollVars>>
  BY <1>1 DEF rowVars, queue
<1>2. ASSUME NEW c \in Commands, status[c] = "none", NEW p \in Payloads, Queue(c, p)
      PROVE  Goal
  <2>1. Promise!Enqueue(c, Jsonb(p))
    BY <1>2 DEF Promise!Enqueue, Queue, Phase, TypeOK
  <2>. QED
    BY <2>1 DEF Promise!Next
<1>3. ASSUME NEW w \in Workers, Insert(w) PROVE Goal
  BY <1>2, <1>3, RequestFields DEF Insert, UnusedKey
<1>4. ASSUME NEW c \in Commands, NEW p \in Sends[c], QueueForClaim(c, p)
      PROVE  Goal
  BY <1>2, <1>4 DEF QueueForClaim, UnusedKey, Payloads
<1>5. ASSUME NEW c \in Commands, status[c] # "none",
             NEW s \in Results \union {"cancelled"},
             status' = [status EXCEPT ![c] = s], payload' = payload
      PROVE  Goal
  <2>1. Phase(s) = "settled" /\ Phase(status[c]) # "none"
    BY <1>5 DEF Phase, Results
  <2>2. Promise!Settle({c})
    BY <1>5, <2>1 DEF Promise!Settle, TypeOK
  <2>. QED
    BY <2>2 DEF Promise!Next
<1>6. ASSUME NEW w \in Workers, CancelCommit(w) PROVE Goal
  BY <1>5, <1>6, RequestFields DEF CancelCommit, RequestsOK, CancelOK
<1>7. ASSUME NEW w \in Workers, AckCommit(w) PROVE Goal
  <2>. DEFINE e == request[w].event
  <2>1. /\ e \in AckEvents /\ event[e] # NoEvent
        /\ event[e].command \in received
    BY <1>7, RequestFields DEF AckCommit, RequestsOK, AckOK
  <2>2. /\ event[e].command \in Commands /\ event[e].result \in Results
        /\ status[event[e].command] # "none"
    BY <2>1, EventFields DEF SentOK
  <2>3. /\ status' = [status EXCEPT ![event[e].command] = event[e].result]
        /\ payload' = payload
    BY <1>7 DEF AckCommit
  <2>. QED
    BY <1>5, <2>2, <2>3
<1>8. ASSUME NEW cs \in SUBSET Commands, Poll(cs) PROVE Goal
  <2>1. \A c \in cs : Phase(status[c]) = "waiting"
    BY <1>8 DEF Poll, Pollable, Phase
  <2>2. Promise!HandOut(cs)
    BY <1>8, <2>1 DEF Poll, SentStatus, Promise!HandOut, Phase
  <2>. QED
    BY <2>2 DEF Promise!Next
<1>9. ASSUME NEW cs \in SUBSET Commands, ExpireBatch(cs) PROVE Goal
  <2>1. \A c \in cs : Phase(status[c]) # "none"
    BY <1>9 DEF ExpireBatch, Expirable, Phase
  <2>2. Promise!Settle(cs)
    BY <1>9, <2>1 DEF ExpireBatch, Promise!Settle, Phase
  <2>. QED
    BY <2>2 DEF Promise!Next
<1>. QED
  BY <1>1, <1>3, <1>4, <1>6, <1>7, <1>8, <1>9, RowWriters

\* The services implement the promise to the devices: a command waits, goes out
\* once, and settles for good, for any number of commands and any limits.
THEOREM QueueImplemented == Spec => ImplementsQueue
<1>. QED
  BY QueueInit, QueueStep, Inductive, PTL
     DEF Spec, ImplementsQueue, Promise!Spec, Promise!vars, queue

\* What the queue promises the device: a command that has been handed out does
\* not wait again, one that is settled neither waits nor goes out, and what a
\* command says is not replaced.
SettledForGood ==
    [][\A c \in Commands :
          /\ queue[c] = "settled" => queue'[c] = "settled"
          /\ queue[c] = "out" => queue'[c] \in {"out", "settled"}
          /\ queue[c] # "none" => payload'[c] = payload[c]]_<<queue, payload>>

\* The abstract specification says what its comment says, and so the services,
\* which implement it, never queue, send or rewrite a command again.
THEOREM QueueKeepsPromise == ImplementsQueue => SettledForGood
<1>. DEFINE Keeps == \A c \in Commands :
                        /\ queue[c] = "settled" => queue'[c] = "settled"
                        /\ queue[c] = "out" => queue'[c] \in {"out", "settled"}
                        /\ queue[c] # "none" => payload'[c] = payload[c]
            Rows == payload = [c \in Commands |-> payload[c]]
<1>1. Promise!Init => Rows
  BY DEF Promise!Init
<1>2. Rows /\ [Promise!Next]_<<queue, payload>> => Rows' /\ [Keeps]_<<queue, payload>>
  <2>1. ASSUME Rows, NEW c \in Commands, NEW v, Promise!Enqueue(c, v)
        PROVE  Rows' /\ Keeps
    BY <2>1 DEF Promise!Enqueue, queue
  <2>2. ASSUME Rows, NEW cs \in SUBSET Commands,
               Promise!HandOut(cs) \/ Promise!Settle(cs)
        PROVE  Rows' /\ Keeps
    BY <2>2 DEF Promise!HandOut, Promise!Settle, queue
  <2>. QED
    BY <2>1, <2>2 DEF Promise!Next
<1>. QED
  BY <1>1, <1>2, PTL DEF ImplementsQueue, Promise!Spec, Promise!vars, SettledForGood, queue
===============================================================================
