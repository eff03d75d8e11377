------------------------ MODULE NotificationConsumer ------------------------
(***************************************************************************)
(* notification-service's NotificationConsumer.  A payment event reaches   *)
(* it as one message in every queue bound to payment.completed, and once   *)
(* more over the Redis live stream.  Handlers run concurrently (there is   *)
(* no prefetch limit), each one checking the audit table, delivering, and  *)
(* writing the audit row, whose eventId is unique.                         *)
(*                                                                         *)
(* A failed message is published again through the exchange, so that each  *)
(* retry reaches every queue, not only the one it failed in.  Its retry    *)
(* count is a header that the outbox has set to its own count first.       *)
(*                                                                         *)
(* Handlers outlive the connection that brought their message.  RabbitMQ   *)
(* has requeued it then, and they end on this.channel all the same: on     *)
(* none, which throws out of the catch block and ends the process, or on   *)
(* the next one, where the delivery tag means another message or none.     *)
(***************************************************************************)
EXTENDS Integers, FiniteSets

CONSTANTS
    Events,
    Queues,      \* the queues bound to payment.completed
    Live,        \* the handler's place of an event from the Redis stream
    MaxRetries,
    Copies,      \* bound: how often an event is published with "copies"
    MaxRestarts, \* bound: how often the process or its connection dies
    Scenarios    \* the sets of faults, see below, that may occur together

FaultKinds ==
    {"redis",    \* the live stream delivers events, ahead of or behind RabbitMQ
     "history",  \* a history query inserts audit rows for outbox events
     "db",       \* a query of the audit table fails, or is not acknowledged
     "delivery", \* the delivery of every event throws
     "copies",   \* replicas of the outbox publish every event, see Copies
     "retried",  \* the outbox publishes after retries of its own
     "crash",    \* the process dies
     "drop"}     \* the connection to RabbitMQ is lost and made again

ASSUME NotificationAssumption ==
    /\ Queues # {} /\ Live \notin Queues /\ IsFiniteSet(Queues)
    /\ MaxRetries \in Nat \ {0}
    /\ Copies \in Nat \ {0}
    /\ MaxRestarts \in Nat
    /\ Scenarios \subseteq SUBSET FaultKinds

VARIABLES
    published,  \* how often the outbox has published each event
    streamed,   \* the events that went over the live stream
    msgs,       \* how many messages and handlers there are of each shape
    connected,  \* this.isConnected: there is a channel
    robbed,     \* history: the events of messages acknowledged by other handlers
    audit,      \* status of the NotificationAudit row of each event
    delivered,  \* history: notifications sent for each event
    dead,       \* messages of each event in the dead letter queue
    restarts,   \* how often the process or its connection has died
    faults      \* the faults of this behaviour, the same throughout

workVars == << published, streamed, msgs, connected, robbed, audit, delivered, dead,
               restarts >>
vars == << workVars, faults >>

(* queued: not consumed yet; check, deliver, audit: a handler is about to  *)
(* do it; giveUp: it has dead-lettered the message and will record it.     *)
Stages == {"queued", "check", "deliver", "audit", "giveUp"}

(* unacked: RabbitMQ has the message, and on the present connection expects*)
(* the handler to acknowledge it.                                          *)
Message == [event : Events, queue : Queues \cup {Live}, retry : 0..MaxRetries,
            stage : Stages, unacked : BOOLEAN]

TypeOK ==
    /\ published \in [Events -> 0..Copies]
    /\ streamed \subseteq Events
    /\ msgs \in [Message -> Nat]
    /\ connected \in BOOLEAN
    /\ robbed \subseteq Events
    /\ audit \in [Events -> {"NONE", "SENT", "FAILED"}]
    /\ delivered \in [Events -> Nat]
    /\ dead \in [Events -> Nat]
    /\ restarts \in 0..MaxRestarts
    /\ faults \in Scenarios

Init ==
    /\ published = [e \in Events |-> 0]
    /\ streamed = {}
    /\ msgs = [m \in Message |-> 0]
    /\ connected = TRUE
    /\ robbed = {}
    /\ audit = [e \in Events |-> "NONE"]
    /\ delivered = [e \in Events |-> 0]
    /\ dead = [e \in Events |-> 0]
    /\ restarts = 0
    /\ faults \in Scenarios

-----------------------------------------------------------------------------
(* Bags of messages. *)

Present(m) == msgs[m] > 0

Less(bag, m) == [bag EXCEPT ![m] = @ - 1]

At(m, stage) == [m EXCEPT !.stage = stage]

(* A handler goes on to another stage. *)
Become(m, stage) ==
    /\ msgs' = [Less(msgs, m) EXCEPT ![At(m, stage)] = @ + 1]
    /\ UNCHANGED robbed

(* What is not acknowledged goes back to its queue.                        *)
Requeued(bag, m) ==
    IF m.unacked /\ m.stage = "queued"
    THEN bag[m] + bag[At(m, "check")] + bag[At(m, "deliver")] + bag[At(m, "audit")]
         + bag[At(m, "giveUp")]
    ELSE 0

(* The process dies, and its handlers and subscription with it.            *)
Dies(bag) ==
    /\ msgs' = [m \in Message |-> Requeued(bag, m)]
    /\ UNCHANGED robbed

(* An acknowledgement with the tag of a lost connection is of whatever     *)
(* message has this tag now; of none, and RabbitMQ closes the channel with *)
(* an error nobody listens for; or there is no channel to send it on.      *)
WrongTag(m, bag) ==
    \/ /\ connected
       /\ \E h \in Message :
             /\ bag[h] > 0 /\ h.unacked /\ h.stage # "queued"
             /\ msgs' = [Less(Less(bag, m), h) EXCEPT ![[h EXCEPT !.unacked = FALSE]] = @ + 1]
             /\ robbed' = robbed \cup {h.event}
    \/ Dies(bag)

(* A handler ends, with bag left; the live stream expects no answer.       *)
Acknowledge(m, bag) ==
    \/ (m.unacked \/ m.queue = Live) /\ msgs' = Less(bag, m) /\ UNCHANGED robbed
    \/ ~m.unacked /\ m.queue # Live /\ WrongTag(m, bag)

(* What the exchange adds to every bound queue. *)
Routed(bag, event, retry) ==
    [m \in Message |->
        bag[m] + IF /\ m.event = event /\ m.retry = retry
                    /\ m.queue \in Queues /\ m.stage = "queued" /\ m.unacked
                 THEN 1 ELSE 0]

(* The outbox worker publishes; its count of tries becomes retryAttempt.   *)
(* A higher count than MaxRetries would act as MaxRetries does.            *)
FirstAttempts == IF "retried" \in faults THEN 0..MaxRetries ELSE {0}

Publish(e) ==
    /\ published[e] < IF "copies" \in faults THEN Copies ELSE 1
    /\ published' = [published EXCEPT ![e] = @ + 1]
    /\ \E first \in FirstAttempts : msgs' = Routed(msgs, e, first)
    /\ UNCHANGED << streamed, connected, robbed, audit, delivered, dead, restarts >>

(* payment-service publishes the event on the live stream, at most once.   *)
Stream(e) ==
    /\ "redis" \in faults
    /\ e \notin streamed
    /\ streamed' = streamed \cup {e}
    /\ msgs' = [msgs EXCEPT ![[event |-> e, queue |-> Live, retry |-> 0,
                               stage |-> "check", unacked |-> FALSE]] = @ + 1]
    /\ UNCHANGED << published, connected, robbed, audit, delivered, dead, restarts >>

-----------------------------------------------------------------------------
(* Mutant: the message is acknowledged, not retried. *)
RetryForgotten(m) == msgs

Retry(m) == Routed(msgs, m.event, m.retry + 1)

Exhausted(m) == m.retry + 1 > MaxRetries

(***************************************************************************)
(* The catch block.  A queue's message is published again with its retry   *)
(* count raised, or dead-lettered; the live stream's error is only logged. *)
(* Without a channel both throw, and nobody catches that.                  *)
(***************************************************************************)
Failure(m) ==
    \/ /\ m.queue = Live
       /\ Acknowledge(m, msgs)
       /\ UNCHANGED dead
    \/ /\ m.queue # Live /\ connected /\ ~Exhausted(m)
       /\ Acknowledge(m, Retry(m))
       /\ UNCHANGED dead
    \/ /\ m.queue # Live /\ connected /\ Exhausted(m)
       /\ dead' = [dead EXCEPT ![m.event] = @ + 1]
       /\ Become(m, "giveUp")
    \/ /\ m.queue # Live /\ ~connected
       /\ Dies(msgs)
       /\ UNCHANGED dead

(* RabbitMQ hands a message to the consumer of its queue. *)
Consume(m) ==
    /\ m.stage = "queued"
    /\ connected
    /\ Become(m, "check")
    /\ UNCHANGED << published, streamed, connected, audit, delivered, dead, restarts >>

(* Mutant: no idempotency check. *)
CheckNothing(m) ==
    /\ m.stage = "check"
    /\ Become(m, "deliver")
    /\ UNCHANGED << published, streamed, connected, audit, delivered, dead, restarts >>

(* 1. findByEventId: an audited event is a duplicate, whatever its status. *)
Check(m) ==
    /\ m.stage = "check"
    /\ \/ /\ audit[m.event] # "NONE"
          /\ Acknowledge(m, msgs)
          /\ UNCHANGED dead
       \/ /\ audit[m.event] = "NONE"
          /\ Become(m, "deliver")
          /\ UNCHANGED dead
       \/ /\ "db" \in faults
          /\ Failure(m)
    /\ UNCHANGED << published, streamed, connected, audit, delivered, restarts >>

(* Mutant: an error of the provider is taken for a delivery. *)
DeliverHoping(m) ==
    /\ m.stage = "deliver"
    /\ delivered' = IF "delivery" \in faults THEN delivered
                    ELSE [delivered EXCEPT ![m.event] = @ + 1]
    /\ Become(m, "audit")
    /\ UNCHANGED << published, streamed, connected, audit, dead, restarts >>

(* 4. deliverNotification. *)
Deliver(m) ==
    /\ m.stage = "deliver"
    /\ \/ /\ "delivery" \notin faults
          /\ delivered' = [delivered EXCEPT ![m.event] = @ + 1]
          /\ Become(m, "audit")
          /\ UNCHANGED dead
       \/ /\ "delivery" \in faults
          /\ Failure(m)
          /\ UNCHANGED delivered
    /\ UNCHANGED << published, streamed, connected, audit, restarts >>

(* 5. and 7. createAudit and the acknowledgement; the unique eventId makes *)
(* a second row an error, which is retried like any other.                 *)
WriteAudit(m) ==
    /\ m.stage = "audit"
    /\ \/ /\ audit[m.event] = "NONE"
          /\ audit' = [audit EXCEPT ![m.event] = "SENT"]
          /\ Acknowledge(m, msgs)
          /\ UNCHANGED dead
       \/ /\ audit[m.event] # "NONE" \/ "db" \in faults
          /\ Failure(m)
          /\ UNCHANGED audit
       \/ /\ audit[m.event] = "NONE" /\ "db" \in faults
          /\ audit' = [audit EXCEPT ![m.event] = "SENT"]
          /\ Failure(m)
    /\ UNCHANGED << published, streamed, connected, delivered, restarts >>

(* Mutant: the failure is not recorded. *)
GiveUpSilently(m) ==
    /\ m.stage = "giveUp"
    /\ Acknowledge(m, msgs)
    /\ UNCHANGED << published, streamed, connected, audit, delivered, dead, restarts >>

(* The FAILED audit row after dead-lettering; its error is swallowed. *)
GiveUp(m) ==
    /\ m.stage = "giveUp"
    /\ \/ audit[m.event] = "NONE" /\ audit' = [audit EXCEPT ![m.event] = "FAILED"]
       \/ (audit[m.event] # "NONE" \/ "db" \in faults) /\ UNCHANGED audit
    /\ Acknowledge(m, msgs)
    /\ UNCHANGED << published, streamed, connected, delivered, dead, restarts >>

-----------------------------------------------------------------------------
(* The auto-sync of a history query inserts a SENT row for any payment     *)
(* event in the outbox that has none.                                      *)
SyncHistory(e) ==
    /\ "history" \in faults
    /\ audit[e] = "NONE"
    /\ audit' = [audit EXCEPT ![e] = "SENT"]
    /\ UNCHANGED << published, streamed, msgs, connected, robbed, delivered, dead, restarts >>

Crash ==
    /\ "crash" \in faults
    /\ restarts < MaxRestarts
    /\ restarts' = restarts + 1
    /\ Dies(msgs)
    /\ UNCHANGED << published, streamed, connected, audit, delivered, dead >>

(* cleanup: the connection is closed, the handlers go on.                  *)
Drop ==
    /\ "drop" \in faults
    /\ connected /\ restarts < MaxRestarts
    /\ connected' = FALSE
    /\ restarts' = restarts + 1
    /\ msgs' = [m \in Message |->
                  CASE m.unacked -> Requeued(msgs, m)
                    [] ~m.unacked /\ m.stage = "queued" -> msgs[m]
                    [] OTHER -> msgs[m] + msgs[[m EXCEPT !.unacked = TRUE]]]
    /\ UNCHANGED << published, streamed, robbed, audit, delivered, dead >>

(* scheduleReconnect: a timer connects until it succeeds. *)
Reconnect ==
    /\ ~connected
    /\ connected' = TRUE
    /\ UNCHANGED << published, streamed, msgs, robbed, audit, delivered, dead, restarts >>

Handle(m) == Present(m) /\ (Consume(m) \/ Check(m) \/ Deliver(m) \/ WriteAudit(m) \/ GiveUp(m))

Next ==
    /\ \/ \E e \in Events : Publish(e) \/ Stream(e) \/ SyncHistory(e)
       \/ \E m \in Message : Handle(m)
       \/ Crash \/ Drop \/ Reconnect
    /\ UNCHANGED faults

Spec == Init /\ [][Next]_vars

(* Node and RabbitMQ go on with some handler or message as long as there is*)
(* any, and a lost connection is made again.                               *)
FairSpec ==
    /\ Spec
    /\ WF_workVars(\E m \in Message : Handle(m))
    /\ WF_workVars(Reconnect)

-----------------------------------------------------------------------------
Without(kinds) == faults \cap kinds = {}

Waiting(e) == \E m \in Message : Present(m) /\ m.event = e /\ m.unacked

(* Whatever dies or fails: a published event of which RabbitMQ holds no    *)
(* message any more has been audited or dead-lettered; or the handler of   *)
(* another message has acknowledged it, with a tag of a lost connection.   *)
NothingVanishes ==
    \A e \in Events :
        published[e] > 0 => Waiting(e) \/ audit[e] # "NONE" \/ dead[e] > 0 \/ e \in robbed

(* What the records say of an event is so.  A row that says SENT was       *)
(* preceded by a delivery, as long as nobody looks at the history, which   *)
(* inserts such rows itself.  An event in the dead letter queue was never  *)
(* delivered, although the copies of it race, as long as the audit table   *)
(* answers and each copy comes with a fresh retry count.                   *)
RecordsTellTruth ==
    \A e \in Events :
        /\ Without({"history"}) => (audit[e] = "SENT" => delivered[e] > 0)
        /\ Without({"db", "retried"}) => (dead[e] > 0 => delivered[e] = 0)

(* The ways of a failing event: a queue for its first try and one for each *)
(* retry.                                                                  *)
Ways == [0..MaxRetries -> Queues]

(* While nothing dies, the retries of a failing event multiply by the      *)
(* number of queues each time, and no more, so that it is dead-lettered at *)
(* most once for each way it can take; and if the audit table answers too, *)
(* a notification is repeated by the copies of the event only, never by    *)
(* their retries.                                                          *)
RetriesBounded ==
    /\ TypeOK
    /\ \A e \in Events :
          LET n == Cardinality(Queues)
          IN  /\ Without({"crash", "drop"}) => dead[e] <= published[e] * Cardinality(Ways)
              /\ Without({"db", "crash", "drop"}) =>
                    delivered[e] <= published[e] * n + IF e \in streamed THEN 1 ELSE 0

(* If the audit table answers, every published event ends up audited,      *)
(* failed deliveries included, whenever the process or its connection      *)
(* dies, unless another handler acknowledged its message.                  *)
EveryEventAudited ==
    Without({"db"}) =>
        \A e \in Events : published[e] > 0 ~> audit[e] # "NONE" \/ e \in robbed
=============================================================================
