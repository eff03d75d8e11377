---------------------------- MODULE OutboxWorker ----------------------------
(***************************************************************************)
(* payment-service's OutboxWorker: each replica polls the outbox table,    *)
(* publishes a batch of PENDING events to the RabbitMQ exchange one by one *)
(* and marks each row.  Nothing locks the rows: a replica works on the     *)
(* snapshot it fetched, and writes retryCount from it.  The channel is one *)
(* without publisher confirms: publish() has written a message to it, and  *)
(* whether the exchange ever takes that message nobody is told.            *)
(***************************************************************************)
EXTENDS Integers, Sequences, Functions

CONSTANTS
    Workers,     \* the replicas of payment-service that may be deployed
    LastEvent,   \* events are numbered in the order of createdAt
    BatchSize,
    MaxRetries,
    Scenarios    \* which of them run together, and which faults then may occur

FaultKinds ==
    {"broker",      \* a publish is rejected: broker down, breaker open
     "buffer",      \* the channel takes the message but reports a full buffer
     "db",          \* an update of the row fails
     "connection",  \* a connection breaks, with what is on it
     "crash"}       \* a replica dies or is stopped

ASSUME OutboxAssumption ==
    /\ LastEvent \in Nat
    /\ BatchSize \in Nat \ {0}
    /\ MaxRetries \in Nat \ {0}
    /\ Scenarios \subseteq [running : SUBSET Workers \ {{}}, faults : SUBSET FaultKinds]

Events == 1..LastEvent

VARIABLES
    created,   \* how many events payment-service has inserted
    row,       \* status and retryCount of each outbox row
    batch,     \* the snapshots each replica has still to process
    pc,        \* what each replica does next
    channel,   \* who has written a message of which event that is on its way
    arrived,   \* history: the events of which the exchange took a message
    sent,      \* history: messages written for an event, up to 2
    failures,  \* history: failed publishes of an event, up to MaxRetries
    running,   \* the replicas of this behaviour, the same throughout
    faults     \* its faults, the same throughout

workVars == << created, row, batch, pc, channel, arrived, sent, failures >>
vars == << workVars, running, faults >>

Row == [status : {"PENDING", "PUBLISHED", "FAILED"}, retry : 0..MaxRetries]
Snapshot == [event : Events, retry : 0..MaxRetries]

TypeOK ==
    /\ created \in 0..LastEvent
    /\ row \in [Events -> Row]
    /\ batch \in [Workers -> Seq(Snapshot)]
    /\ \A w \in Workers : Len(batch[w]) <= BatchSize
    /\ pc \in [Workers -> {"poll", "mark", "fail"}]
    /\ channel \subseteq Workers \X Events
    /\ arrived \subseteq Events
    /\ sent \in [Events -> 0..2]
    /\ failures \in [Events -> 0..MaxRetries]
    /\ running \subseteq Workers
    /\ faults \subseteq FaultKinds

Init ==
    /\ created = 0
    /\ row = [e \in Events |-> [status |-> "PENDING", retry |-> 0]]
    /\ batch = [w \in Workers |-> << >>]
    /\ pc = [w \in Workers |-> "poll"]
    /\ channel = {} /\ arrived = {}
    /\ sent = [e \in Events |-> 0]
    /\ failures = [e \in Events |-> 0]
    /\ \E s \in Scenarios : running = s.running /\ faults = s.faults

Goto(w, label) == pc' = [pc EXCEPT ![w] = label]

(* payment-service commits an event with the payment it announces. *)
Insert ==
    /\ created < LastEvent
    /\ created' = created + 1
    /\ UNCHANGED << row, batch, pc, channel, arrived, sent, failures >>

-----------------------------------------------------------------------------
(* fetchPendingEvents: the oldest PENDING rows, as they are now. *)
Pending == {e \in 1..created : row[e].status = "PENDING"}

Oldest(events) ==
    /\ \A i, j \in DOMAIN events : i < j => events[i] < events[j]
    /\ \A e \in Pending \ Range(events) :
          Len(events) = BatchSize /\ \A i \in DOMAIN events : events[i] < e

Snapshots(events) ==
    [i \in DOMAIN events |-> [event |-> events[i], retry |-> row[events[i]].retry]]

FetchBatch(w) ==
    /\ pc[w] = "poll" /\ batch[w] = << >>
    /\ \E n \in 1..BatchSize : \E events \in [1..n -> Pending] :
          Oldest(events) /\ batch' = [batch EXCEPT ![w] = Snapshots(events)]
    /\ UNCHANGED << created, row, pc, channel, arrived, sent, failures >>

Current(w) == Head(batch[w]).event

Advance(w) ==
    /\ batch' = [batch EXCEPT ![w] = Tail(@)]
    /\ Goto(w, "poll")

(* Backoff: a snapshot that failed before may not be due in this cycle. *)
SkipNotDue(w) ==
    /\ pc[w] = "poll" /\ batch[w] # << >>
    /\ Head(batch[w]).retry > 0
    /\ Advance(w)
    /\ UNCHANGED << created, row, channel, arrived, sent, failures >>

Count(n, limit) == IF n < limit THEN n + 1 ELSE n

\* channel.publish: the message is in the channel's buffer.
Written(w) ==
    /\ channel' = channel \cup {<< w, Current(w) >>}
    /\ sent' = [sent EXCEPT ![Current(w)] = Count(@, 2)]

FailedOnce(w) == failures' = [failures EXCEPT ![Current(w)] = Count(@, MaxRetries)]

\* A message that fills the buffer is in it, and reported as not published.
BufferFull(w) ==
    /\ "buffer" \in faults
    /\ Written(w) /\ FailedOnce(w)

(* It is on its way / it never left / it left, but publish threw. *)
Publish(w) ==
    /\ pc[w] = "poll" /\ batch[w] # << >>
    /\ \/ Written(w) /\ Goto(w, "mark") /\ UNCHANGED failures
       \/ /\ "broker" \in faults
          /\ FailedOnce(w) /\ Goto(w, "fail") /\ UNCHANGED << channel, sent >>
       \/ BufferFull(w) /\ Goto(w, "fail")
    /\ UNCHANGED << created, row, batch, arrived >>

(* The exchange takes a message that a replica has written. *)
Deliver(w, e) ==
    /\ << w, e >> \in channel
    /\ channel' = channel \ {<< w, e >>}
    /\ arrived' = arrived \cup {e}
    /\ UNCHANGED << created, row, batch, pc, sent, failures >>

OwnMessages(w) == {w} \X Events

(* The connection breaks, and what was on it is gone.  The replica is told *)
(* that it has no channel, and nothing of its messages; its next publish   *)
(* connects again.                                                         *)
Disconnect(w) ==
    /\ "connection" \in faults
    /\ channel \cap OwnMessages(w) # {}
    /\ channel' = channel \ OwnMessages(w)
    /\ UNCHANGED << created, row, batch, pc, arrived, sent, failures >>

(* Mutant: the row is marked even if publishing failed. *)
MarkRegardless(w) ==
    /\ pc[w] \in {"mark", "fail"}
    /\ row' = [row EXCEPT ![Current(w)].status = "PUBLISHED"]
    /\ Advance(w)
    /\ UNCHANGED << created, channel, arrived, sent, failures >>

(* markEventPublished; its failure counts as a failed publish. *)
MarkPublished(w) ==
    /\ pc[w] = "mark"
    /\ \/ /\ row' = [row EXCEPT ![Current(w)].status = "PUBLISHED"]
          /\ Advance(w)
          /\ UNCHANGED failures
       \/ /\ "db" \in faults
          /\ FailedOnce(w) /\ Goto(w, "fail")
          /\ UNCHANGED << row, batch >>
    /\ UNCHANGED << created, channel, arrived, sent >>

(* Mutant: the count is written back unchanged. *)
SameRetry(w) == Head(batch[w]).retry

NextRetry(w) == Head(batch[w]).retry + 1

LastTry(w) == NextRetry(w) >= MaxRetries

\* incrementRetry, or markEventFailed: the count is the snapshot's, not the row's.
GivenBack(w, r) ==
    [status |-> IF LastTry(w) THEN "FAILED" ELSE r.status, retry |-> NextRetry(w)]

(***************************************************************************)
(* markEventFailed on the last try, incrementRetry before: both write the  *)
(* snapshot's count, and the latter leaves the status as it is.  If that   *)
(* update fails too, the rest of the batch is abandoned.                   *)
(***************************************************************************)
RecordFailure(w) ==
    /\ pc[w] = "fail"
    /\ \/ /\ row' = [row EXCEPT ![Current(w)] = GivenBack(w, @)]
          /\ Advance(w)
       \/ /\ "db" \in faults
          /\ batch' = [batch EXCEPT ![w] = << >>]
          /\ Goto(w, "poll")
          /\ UNCHANGED row
    /\ UNCHANGED << created, channel, arrived, sent, failures >>

(* The replica dies and starts again: its snapshots are gone, and so is    *)
(* what it had still in its buffer.                                        *)
Crash(w) ==
    /\ "crash" \in faults
    /\ batch[w] # << >> \/ channel \cap OwnMessages(w) # {}
    /\ batch' = [batch EXCEPT ![w] = << >>]
    /\ Goto(w, "poll")
    /\ channel' = channel \ OwnMessages(w)
    /\ UNCHANGED << created, row, arrived, sent, failures >>

Step(w) == FetchBatch(w) \/ SkipNotDue(w) \/ Publish(w) \/ MarkPublished(w) \/ RecordFailure(w)

Next ==
    /\ \/ Insert
       \/ \E w \in running : Step(w) \/ Disconnect(w) \/ Crash(w)
       \/ \E w \in running, e \in Events : Deliver(w, e)
    /\ UNCHANGED << running, faults >>

Spec == Init /\ [][Next]_vars

(***************************************************************************)
(* setInterval polls for ever; and an event that keeps coming up in the    *)
(* replicas' batches is due in one of them in the end, its backoff being   *)
(* at most 30 s.                                                           *)
(***************************************************************************)
FairSpec ==
    /\ Spec
    /\ \A w \in Workers : WF_workVars(w \in running /\ Step(w))
    /\ \A e \in Events : SF_workVars(\E w \in running : Publish(w) /\ Current(w) = e)

-----------------------------------------------------------------------------
(* Under every fault, and with replicas overwriting each other's rows: an  *)
(* event marked PUBLISHED was written to a channel, and one marked FAILED  *)
(* was given up after MaxRetries failed publishes, not earlier.  A message *)
(* of a PUBLISHED event is at the exchange or still on its way there, for  *)
(* as long as no connection and no replica is lost with what it had in     *)
(* its buffer.  One replica, with a channel that reports what it did,      *)
(* writes no event twice, and none that it gives up.                       *)
Undisturbed ==
    (\E w \in Workers : running = {w}) /\ faults \subseteq {"broker", "connection"}

BuffersSurvive == faults \cap {"connection", "crash"} = {}

Reaches(e) == e \in arrived \/ \E w \in Workers : << w, e >> \in channel

RowsTellTruth ==
    /\ TypeOK
    /\ \A e \in Events :
          /\ row[e].status = "PUBLISHED" => sent[e] > 0 /\ (BuffersSurvive => Reaches(e))
          /\ row[e].status = "FAILED" => failures[e] = MaxRetries
          /\ Undisturbed => sent[e] <= 1 /\ (row[e].status = "FAILED" => sent[e] = 0)

(* However replicas overwrite each other's retry counts, connections break *)
(* and the broker rejects: every event leaves PENDING for good.            *)
EveryEventSettled ==
    faults \subseteq {"broker", "connection"} =>
        \A e \in Events :
            created >= e ~> [](row[e].status \in {"PUBLISHED", "FAILED"})
=============================================================================
