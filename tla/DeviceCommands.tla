---------------------------- MODULE DeviceCommands -----------------------------
(***************************************************************************)
(* The command queue of one device (src/src/apps/device-commands): create   *)
(* and cancel requests of administrators, the command a customer's PIN      *)
(* claim queues, the device's polls, the acknowledgement events it sends    *)
(* back, and the expiry timer.  Polling and expiry select FOR UPDATE, so    *)
(* each is one action; creating, cancelling and acknowledging read the row  *)
(* without a lock and write it by its id in a later statement, so each is   *)
(* two.  A command is identified by its idempotency key.                    *)
(***************************************************************************)
EXTENDS Naturals, FiniteSets

CONSTANTS
    Commands,      \* idempotency keys
    Expiring,      \* the commands created with an expires_at
    Sends,         \* the payloads clients send under a key: what one says
                   \* (data), and the order of its JSON keys (keys)
    AckEvents,     \* acknowledgement events, by external event id
    Workers,       \* HTTP requests a server can have in flight
    PollLimit,     \* security.deviceCommandPollLimit
    ExpireLimit    \* rows one expiry run takes (100 in the code)

ASSUME CommandConstants ==
    /\ Expiring \subseteq Commands
    /\ \A c \in Commands : \A p \in Sends[c] :
          p = [data |-> p.data, keys |-> p.keys]
    /\ "none" \notin AckEvents
    /\ PollLimit \in Nat \ {0}
    /\ ExpireLimit \in Nat \ {0}

VARIABLES
    status,       \* device_commands.status; "none" before the row exists
    payload,      \* the payload column
    available,    \* commands whose available_at has passed
    lapsed,       \* commands whose expires_at has passed
    sentAt,       \* commands with sent_at set
    ackedAt,      \* commands with acknowledged_at set
    completedAt,  \* commands with completed_at set
    ackEvent,     \* acknowledgement_event_id
    handedOut,    \* poll responses a command has been part of
    received,     \* commands whose poll response reached the device
    event,        \* device_events row of an acknowledgement
    refused,      \* create requests answered 'conflicts with another command'
    request       \* what each in-flight request read and does next

rowVars  == <<status, payload, sentAt, ackedAt, completedAt, ackEvent>>
timeVars == <<available, lapsed>>
pollVars == <<handedOut, received>>
vars == <<status, payload, available, lapsed, sentAt, ackedAt, completedAt,
          ackEvent, handedOut, received, event, refused, request>>

Results  == {"acknowledged", "completed", "failed"}
Terminal == {"completed", "failed", "expired", "cancelled"}
Statuses == {"none", "queued", "sent", "acknowledged"} \union Terminal

None     == [data |-> "none"]
Payloads == UNION {Sends[c] : c \in Commands}
Idle     == [op |-> "idle"]
NoEvent  == [state |-> "none"]
NoAck    == "none"

EventRows == {NoEvent} \union
             [state : {"received", "processed", "failed"},
              command : Commands, result : Results]
Requests == {Idle}
      \union [op : {"create"}, command : Commands, payload : Payloads]
      \union [op : {"cancel"}, command : Commands]
      \union [op : {"ack", "ackSave", "ackDone", "ackFailed"}, event : AckEvents]

\* A JSONB column has an order of keys of its own.
Jsonb(p) == [p EXCEPT !.keys = "jsonb"]

TypeOK ==
    /\ status \in [Commands -> Statuses]
    /\ payload \in [Commands -> {None} \union {Jsonb(p) : p \in Payloads}]
    /\ available \subseteq Commands
    /\ lapsed \subseteq Expiring
    /\ sentAt \subseteq Commands
    /\ ackedAt \subseteq Commands
    /\ completedAt \subseteq Commands
    /\ ackEvent \in [Commands -> {NoAck} \union AckEvents]
    /\ handedOut \in [Commands -> Nat]
    /\ received \subseteq Commands
    /\ event \in [AckEvents -> EventRows]
    /\ refused \subseteq [command : Commands, payload : Payloads]
    /\ request \in [Workers -> Requests]

Init ==
    /\ status = [c \in Commands |-> "none"]
    /\ payload = [c \in Commands |-> None]
    /\ available = {} /\ lapsed = {}
    /\ sentAt = {} /\ ackedAt = {} /\ completedAt = {}
    /\ ackEvent = [c \in Commands |-> NoAck]
    /\ handedOut = [c \in Commands |-> 0]
    /\ received = {}
    /\ event = [e \in AckEvents |-> NoEvent]
    /\ refused = {}
    /\ request = [w \in Workers |-> Idle]

Start(w, r)  == request[w] = Idle /\ request' = [request EXCEPT ![w] = r]
Become(w, r) == request' = [request EXCEPT ![w] = r]
Finish(w)    == request' = [request EXCEPT ![w] = Idle]

-------------------------------------------------------------------------------
(* Creating: the key is looked up, then a row is inserted under a unique key. *)

UnusedKeyOverwritten(c) == TRUE
UnusedKey(c) == status[c] = "none"

\* CommandIdempotencyService: JSON.stringify of the column against the request.
Matches(c, p) == payload[c] = p

CreateRead(w, c, p) ==
    /\ request[w] = Idle
    /\ \/ /\ status[c] = "none"
          /\ Become(w, [op |-> "create", command |-> c, payload |-> p])
          /\ UNCHANGED refused
       \/ /\ status[c] # "none"
          /\ Matches(c, p)
          /\ UNCHANGED <<request, refused>>
       \/ /\ status[c] # "none"
          /\ ~Matches(c, p)
          /\ refused' = refused \union {[command |-> c, payload |-> p]}
          /\ UNCHANGED request
    /\ UNCHANGED <<rowVars, timeVars, pollVars, event>>

Queue(c, p) ==
    /\ status' = [status EXCEPT ![c] = "queued"]
    /\ payload' = [payload EXCEPT ![c] = Jsonb(p)]

Insert(w) ==
    /\ request[w].op = "create"
    /\ UnusedKey(request[w].command)
    /\ Queue(request[w].command, request[w].payload)
    /\ Finish(w)
    /\ UNCHANGED <<sentAt, ackedAt, completedAt, ackEvent, timeVars, pollVars,
                   event, refused>>

\* Another request has inserted the key since it was looked up: the unique
\* index refuses the row and the request ends in an error.
InsertCollides(w) ==
    /\ request[w].op = "create"
    /\ status[request[w].command] # "none"
    /\ Finish(w)
    /\ UNCHANGED <<rowVars, timeVars, pollVars, event, refused>>

\* The transaction of a PIN claim upserts charging.prepare with an empty update.
QueueForClaim(c, p) ==
    /\ UnusedKey(c)
    /\ c \in Expiring
    /\ Queue(c, p)
    /\ UNCHANGED <<sentAt, ackedAt, completedAt, ackEvent, timeVars, pollVars,
                   event, refused, request>>

-------------------------------------------------------------------------------
(* Cancelling: a read with its check, then an update that names only the id. *)

CanCancel(s) == s = "queued"

CancelRead(w, c) ==
    /\ CanCancel(status[c])
    /\ Start(w, [op |-> "cancel", command |-> c])
    /\ UNCHANGED <<rowVars, timeVars, pollVars, event, refused>>

CancelCommit(w) ==
    /\ request[w].op = "cancel"
    /\ status' = [status EXCEPT ![request[w].command] = "cancelled"]
    /\ Finish(w)
    /\ UNCHANGED <<payload, sentAt, ackedAt, completedAt, ackEvent, timeVars,
                   pollVars, event, refused>>

-------------------------------------------------------------------------------
(* Polling.  SKIP LOCKED passes over rows other transactions hold, so a poll *)
(* may return any of the pollable rows.  The response may be lost.           *)

PollableAgain == {c \in available \ lapsed : status[c] \in {"queued", "sent"}}
Pollable == {c \in available \ lapsed : status[c] = "queued"}

SentStatusMisnamed == "delivered"
SentStatus == "sent"

Poll(cs) ==
    /\ cs # {} /\ cs \subseteq Pollable
    /\ Cardinality(cs) <= PollLimit
    /\ status' = [c \in Commands |-> IF c \in cs THEN SentStatus ELSE status[c]]
    /\ sentAt' = sentAt \union cs
    /\ handedOut' = [c \in Commands |->
                        IF c \in cs THEN handedOut[c] + 1 ELSE handedOut[c]]
    /\ received' \in {received, received \union cs}
    /\ UNCHANGED <<payload, ackedAt, completedAt, ackEvent, timeVars, event,
                   refused, request>>

-------------------------------------------------------------------------------
(* Acknowledging: the event row is inserted; the handler reads the command,  *)
(* checks, and updates it by id; a last write records how processing ended.  *)

AckArrives(w, e, c, r) ==
    /\ event[e] = NoEvent
    /\ c \in received
    /\ Start(w, [op |-> "ack", event |-> e])
    /\ event' = [event EXCEPT ![e] =
                    [state |-> "received", command |-> c, result |-> r]]
    /\ UNCHANGED <<rowVars, timeVars, pollVars, refused>>

\* CommandTransitionPolicy
IsDuplicateIfTerminal(s, r) == s = r \/ s \in Terminal
IsDuplicateAck(s, r) == s = r
CanAcknowledge(s, r) == s = "sent" \/ (s = "acknowledged" /\ r # "acknowledged")

AckRead(w) ==
    /\ request[w].op = "ack"
    /\ LET e == request[w].event
           c == event[e].command
           r == event[e].result
           known == ackEvent[c] = e \/ IsDuplicateAck(status[c], r)
       IN \/ /\ known
             /\ Become(w, [op |-> "ackDone", event |-> e])
          \/ /\ ~known
             /\ CanAcknowledge(status[c], r)
             /\ Become(w, [op |-> "ackSave", event |-> e])
          \/ /\ ~known
             /\ ~CanAcknowledge(status[c], r)
             /\ Become(w, [op |-> "ackFailed", event |-> e])
    /\ UNCHANGED <<rowVars, timeVars, pollVars, event, refused>>

\* ackData: the update names only the id of the command.
StampsOnlyCompleted(r) == r = "acknowledged"
StampsAnyAnswer(r) == r \in Results
StampsAcknowledged(r) == r \in {"acknowledged", "completed"}

NoteAckOnce(c, e) == [ackEvent EXCEPT ![c] = IF @ = NoAck THEN e ELSE @]
NoteAck(c, e) == [ackEvent EXCEPT ![c] = e]

AckCommit(w) ==
    /\ request[w].op = "ackSave"
    /\ LET e == request[w].event
           c == event[e].command
           r == event[e].result
       IN /\ status' = [status EXCEPT ![c] = r]
          /\ ackEvent' = NoteAck(c, e)
          /\ ackedAt' = IF StampsAcknowledged(r) THEN ackedAt \union {c} ELSE ackedAt
          /\ completedAt' = IF r = "completed" THEN completedAt \union {c}
                                               ELSE completedAt
          /\ Become(w, [op |-> "ackDone", event |-> e])
    /\ UNCHANGED <<payload, sentAt, timeVars, pollVars, event, refused>>

MarkProcessed(w) ==
    /\ request[w].op = "ackDone"
    /\ event' = [event EXCEPT ![request[w].event].state = "processed"]
    /\ Finish(w)
    /\ UNCHANGED <<rowVars, timeVars, pollVars, refused>>

\* The catch around the handler also covers the update to 'processed'.
MarkFailed(w) ==
    /\ request[w].op \in {"ackDone", "ackFailed"}
    /\ event' = [event EXCEPT ![request[w].event].state = "failed"]
    /\ Finish(w)
    /\ UNCHANGED <<rowVars, timeVars, pollVars, refused>>

-------------------------------------------------------------------------------
(* Time and the expiry timer; a request that ends between two of its steps.  *)

BecomeAvailable(c) ==
    /\ status[c] # "none"
    /\ c \notin available
    /\ available' = available \union {c}
    /\ UNCHANGED <<rowVars, lapsed, pollVars, event, refused, request>>

Lapse(c) ==
    /\ c \in Expiring \ lapsed
    /\ status[c] # "none"
    /\ lapsed' = lapsed \union {c}
    /\ UNCHANGED <<rowVars, available, pollVars, event, refused, request>>

ExpirableQueued == {c \in lapsed : status[c] = "queued"}
Expirable == {c \in lapsed : status[c] \in {"queued", "sent"}}

ExpireBatch(cs) ==
    /\ cs # {} /\ cs \subseteq Expirable
    /\ Cardinality(cs) <= ExpireLimit
    /\ status' = [c \in Commands |-> IF c \in cs THEN "expired" ELSE status[c]]
    /\ UNCHANGED <<payload, sentAt, ackedAt, completedAt, ackEvent, timeVars,
                   pollVars, event, refused, request>>

RequestDies(w) ==
    /\ request[w] # Idle
    /\ Finish(w)
    /\ UNCHANGED <<rowVars, timeVars, pollVars, event, refused>>

WorkerStep(w) ==
    \/ Insert(w) \/ InsertCollides(w)
    \/ CancelCommit(w)
    \/ AckRead(w) \/ AckCommit(w) \/ MarkProcessed(w) \/ MarkFailed(w)

Next ==
    \/ \E w \in Workers, c \in Commands :
          CancelRead(w, c) \/ \E p \in Sends[c] : CreateRead(w, c, p)
    \/ \E c \in Commands :
          BecomeAvailable(c) \/ Lapse(c) \/ \E p \in Sends[c] : QueueForClaim(c, p)
    \/ \E cs \in SUBSET Commands : Poll(cs) \/ ExpireBatch(cs)
    \/ \E w \in Workers, e \in AckEvents, c \in Commands, r \in Results :
          AckArrives(w, e, c, r)
    \/ \E w \in Workers : WorkerStep(w) \/ RequestDies(w)

Spec == Init /\ [][Next]_vars

\* Time passes, and the interval timer of the expiry service keeps running and
\* reaches every row in the end: it takes the rows that expired first.
Fairness ==
    /\ \A c \in Commands : WF_vars(Lapse(c))
    /\ \A c \in Commands : WF_vars(\E cs \in SUBSET Commands :
                                      c \in cs /\ ExpireBatch(cs))

FairSpec == Spec /\ Fairness

-------------------------------------------------------------------------------
(* Safety *)

\* However polls, retries and expiry interleave, a command is part of at most
\* one poll response, and of one exactly when sent_at says so: a lost response
\* is never repeated.
HandedOutOnce ==
    \A c \in Commands : handedOut[c] = IF c \in sentAt THEN 1 ELSE 0

\* A status that reports the device's answer is backed by the event named in
\* acknowledgement_event_id, although two events of one command can be handled
\* at once and each overwrites the row from a status it read before.
AnswerIsRecorded ==
    \A c \in Commands : status[c] \in Results =>
        /\ ackEvent[c] \in AckEvents
        /\ event[ackEvent[c]] # NoEvent
        /\ event[ackEvent[c]].command = c
        /\ event[ackEvent[c]].result = status[c]

\* What the table's CHECK constraints demand of the timestamps, and that a
\* completed command counts as acknowledged.
TimestampsAgree == completedAt \subseteq ackedAt /\ ackedAt \subseteq sentAt

\* The acknowledgement has left its timestamp.
Marked(e) ==
    /\ event[e].result = "acknowledged" => event[e].command \in ackedAt
    /\ event[e].result = "completed" => event[e].command \in completedAt

\* An acknowledgement reported as processed has left its timestamp, whatever
\* was written before or after it.
ProcessedAckLeftMark ==
    \A e \in AckEvents :
        (event[e] # NoEvent /\ event[e].state = "processed") => Marked(e)

\* The device gave one of these answers to the command.
Answered(c, rs) ==
    \E e \in AckEvents :
        event[e] # NoEvent /\ event[e].command = c /\ event[e].result \in rs

\* No timestamp of an answer is invented: acknowledged_at and completed_at are
\* set only for commands the device acknowledged or completed, also when another
\* event, a cancellation or the timer has written the status since.
TimestampsAreBacked ==
    /\ \A c \in ackedAt : Answered(c, {"acknowledged", "completed"})
    /\ \A c \in completedAt : Answered(c, {"completed"})

\* Status, acknowledgement_event_id and timestamps of a row agree with each other
\* and with what the device answered, whatever the events overwrite of each other.
RowsAgreeWithAnswers == AnswerIsRecorded /\ TimestampsAgree /\ TimestampsAreBacked

\* The queue as the device sees it.
Phase(s) == CASE s = "none"   -> "none"
              [] s = "queued" -> "waiting"
              [] s = "sent"   -> "out"
              [] OTHER        -> "settled"

Promise == INSTANCE CommandQueue WITH
              phase <- [c \in Commands |-> Phase(status[c])], content <- payload,
              Contents <- {Jsonb(p) : p \in Payloads}, NoContent <- None
ImplementsQueue == Promise!Spec

-------------------------------------------------------------------------------
(* Liveness *)

\* A command past its expires_at does not stay queued or sent.
LapsedCommandsSettle ==
    \A c \in Commands :
        (c \in lapsed /\ status[c] \in {"queued", "sent"})
            ~> status[c] \notin {"queued", "sent"}

-------------------------------------------------------------------------------
(* What the documentation says of commands.                                  *)

\* docs/device-commands.md, Status Rules: completed, failed, expired and
\* cancelled are terminal.
TerminalStays ==
    [][\A c \in Commands :
          status[c] \in Terminal => status'[c] = status[c]]_vars

\* docs/device-commands.md: reusing a key with the same command returns the
\* existing command; only different input is refused.
RefusedKeysDiffer ==
    \A r \in refused : r.payload.data # payload[r.command].data
===============================================================================
