-------------------- MODULE NotificationConsumer_proofs ---------------------
(***************************************************************************)
(* What becomes of a payment event in the notification service, for any    *)
(* number of events, queues, copies, retries, restarts and connections.    *)
(***************************************************************************)
EXTENDS NotificationConsumer, FiniteSetTheorems, TLAPS

\* The deliveries of a published event succeed and the audit table answers.
Calm == Without({"db", "retried", "delivery"})

(***************************************************************************)
(* What is so of a message or handler that is there.  In calm a message is *)
(* retried only because another one was audited first.                     *)
(***************************************************************************)
MessageRule(m) ==
    /\ m.stage = "audit" => delivered[m.event] > 0
    /\ m.stage = "giveUp" => dead[m.event] > 0
    /\ m.queue = Live => ~m.unacked
    /\ Calm => /\ m.stage # "giveUp"
               /\ m.retry > 0 => m.stage \in {"queued", "check"} /\ audit[m.event] # "NONE"

\* What is so of an event.
EventRule(e) ==
    /\ Without({"history"}) => (audit[e] = "SENT" => delivered[e] > 0)
    /\ "delivery" \in faults => delivered[e] = 0
    /\ Calm => dead[e] = 0

RecordInv ==
    /\ TypeOK
    /\ \A m \in Message : Present(m) => MessageRule(m)
    /\ \A e \in Events : EventRule(e)

ConsumerInv == RecordInv /\ NothingVanishes

-----------------------------------------------------------------------------
(* The bag of messages. *)

\* A message becomes a handler of a lost connection, or goes back to its queue.
From(x, y) ==
    \/ x = y
    \/ x = At(y, "queued")
    \/ x = [y EXCEPT !.unacked = FALSE]

LEMMA AtMessage ==
    ASSUME NEW m \in Message, NEW stage \in Stages
    PROVE  /\ At(m, stage) \in Message
           /\ At(m, stage).event = m.event /\ At(m, stage).queue = m.queue
           /\ At(m, stage).retry = m.retry /\ At(m, stage).stage = stage
           /\ At(m, stage).unacked = m.unacked
           /\ At(m, stage) = m <=> m.stage = stage
  BY DEF At, Message

\* A message that goes back to its stage is the message it was.
LEMMA AtAgain ==
    ASSUME NEW m \in Message, NEW stage \in Stages
    PROVE  At(At(m, stage), m.stage) = m
  <1>1. m = [event |-> m.event, queue |-> m.queue, retry |-> m.retry, stage |-> m.stage,
             unacked |-> m.unacked]
    BY Zenon DEF Message
  <1> QED
    BY <1>1 DEF At

\* What is counted as requeued.
LEMMA RequeuedCount ==
    ASSUME NEW bag \in [Message -> Nat], NEW m \in Message
    PROVE  /\ Requeued(bag, m) \in Nat
           /\ Requeued(bag, m) > 0 <=>
                 /\ m.unacked /\ m.stage = "queued"
                 /\ \E stage \in Stages : bag[At(m, stage)] > 0
  <1> DEFINE n(stage) == bag[At(m, stage)]
             count == bag[m] + n("check") + n("deliver") + n("audit") + n("giveUp")
  <1>1. \A stage \in Stages : n(stage) \in Nat
    BY AtMessage
  <1>2. bag[m] \in Nat /\ (m.stage = "queued" => m = At(m, "queued"))
    BY AtMessage DEF Stages
  <1>3. CASE m.unacked /\ m.stage = "queued"
    <2>1. Requeued(bag, m) = count
      BY <1>3 DEF Requeued
    <2>2. n("queued") = bag[m]
      BY <1>2, <1>3
    <2> HIDE DEF n
    <2>3. count \in Nat /\ (count > 0 <=> \E stage \in Stages : n(stage) > 0)
      BY <1>1, <1>2, <2>2 DEF Stages
    <2> USE DEF n
    <2> HIDE DEF count
    <2> QED
      BY <1>3, <2>1, <2>3
  <1>4. CASE ~ (m.unacked /\ m.stage = "queued")
    <2>1. Requeued(bag, m) = 0
      BY <1>4 DEF Requeued
    <2> QED
      BY <1>4, <2>1
  <1> QED
    BY <1>3, <1>4

LEMMA FromMessage ==
    ASSUME NEW x \in Message, NEW y \in Message, From(x, y)
    PROVE  /\ x.event = y.event /\ x.queue = y.queue /\ x.retry = y.retry
           /\ x.stage \in {y.stage, "queued"} /\ (x.unacked => y.unacked)
  BY DEF From, At, Message

(* What is there came from the old messages or the new ones.  Of a message *)
(* RabbitMQ holds it has one afterwards, except of those that are gone, or *)
(* that the wrong handler acknowledged.                                    *)
Adds(new, gone) ==
    /\ msgs' \in [Message -> Nat]
    /\ robbed \subseteq robbed' /\ robbed' \subseteq Events
    /\ \A x \in Message : msgs'[x] > 0 =>
           \E y \in Message : (msgs[y] > 0 \/ y \in new) /\ From(x, y)
    /\ \A x \in Message : msgs[x] > 0 /\ x.unacked /\ x \notin gone =>
           Waiting(x.event)' \/ x.event \in robbed'

\* Bag is what the broker and the handlers have once new has been published.
With(bag, new) ==
    /\ bag \in [Message -> Nat]
    /\ \A x \in Message : /\ msgs[x] > 0 => bag[x] > 0
                          /\ bag[x] > 0 => msgs[x] > 0 \/ x \in new

LEMMA DiesAdds ==
    ASSUME TypeOK, NEW bag, NEW new, With(bag, new), Dies(bag)
    PROVE  Adds(new, {})
  <1>1. /\ bag \in [Message -> Nat] /\ robbed \subseteq Events
        /\ msgs' = [x \in Message |-> Requeued(bag, x)] /\ robbed' = robbed
    BY DEF TypeOK, With, Dies
  <1>2. ASSUME NEW x \in Message
        PROVE  /\ Requeued(bag, x) \in Nat
               /\ Requeued(bag, x) > 0 <=>
                     /\ x.unacked /\ x.stage = "queued"
                     /\ \E stage \in Stages : bag[At(x, stage)] > 0
    BY <1>1, RequeuedCount
  <1>3. msgs' \in [Message -> Nat] /\ \A x \in Message : msgs'[x] = Requeued(bag, x)
    BY <1>1, <1>2
  <1>4. ASSUME NEW x \in Message, msgs'[x] > 0
        PROVE  \E y \in Message : (msgs[y] > 0 \/ y \in new) /\ From(x, y)
    <2>1. x.stage = "queued" /\ \E stage \in Stages : bag[At(x, stage)] > 0
      BY <1>2, <1>3, <1>4
    <2>2. PICK stage \in Stages : bag[At(x, stage)] > 0
      BY <2>1
    <2> DEFINE y == At(x, stage)
    <2>3. y \in Message /\ x = At(y, "queued")
      BY <2>1, AtMessage, AtAgain
    <2>4. msgs[y] > 0 \/ y \in new
      BY <2>2, <2>3 DEF With
    <2> QED
      BY <2>3, <2>4 DEF From
  <1>5. ASSUME NEW x \in Message, msgs[x] > 0, x.unacked PROVE Waiting(x.event)'
    <2> DEFINE q == At(x, "queued")
    <2>1. q \in Message /\ q.event = x.event /\ q.unacked /\ q.stage = "queued"
      BY <1>5, AtMessage DEF Stages
    <2>2. x.stage \in Stages /\ At(q, x.stage) = x /\ bag[x] > 0
      BY <1>5 DEF At, Message, With
    <2>3. msgs'[q] > 0
      BY <1>2, <1>3, <2>1, <2>2
    <2> QED
      BY <2>1, <2>3 DEF Waiting, Present
  <1> QED
    BY <1>1, <1>3, <1>4, <1>5 DEF Adds

\* What the handler did not hold is still there when it ends.
LEMMA AcknowledgeAdds ==
    ASSUME TypeOK, NEW m \in Message, Present(m), NEW bag, NEW new, With(bag, new),
           Acknowledge(m, bag)
    PROVE  /\ Adds(new, {m})
           /\ m.unacked => \A x \in Message : bag[x] > 0 /\ x # m => msgs'[x] > 0
  <1>1. msgs \in [Message -> Nat] /\ bag \in [Message -> Nat] /\ robbed \subseteq Events /\ bag[m] > 0
    BY DEF TypeOK, With, Present
  <1> DEFINE left == Less(bag, m)
  <1>2. /\ left \in [Message -> Nat] /\ \A x \in Message : left[x] <= bag[x]
        /\ \A x \in Message \ {m} : left[x] = bag[x]
    BY <1>1 DEF Less
  <1> HIDE DEF left
  <1>3. CASE msgs' = left /\ UNCHANGED robbed
    <2>1. ASSUME NEW x \in Message, msgs'[x] > 0
          PROVE  \E y \in Message : (msgs[y] > 0 \/ y \in new) /\ From(x, y)
      <3>1. bag[x] > 0
        BY <1>1, <1>2, <1>3, <2>1
      <3> QED
        BY <3>1 DEF With, From
    <2>2. ASSUME NEW x \in Message, msgs[x] > 0, x.unacked, x # m PROVE Waiting(x.event)'
      <3>1. msgs'[x] > 0
        BY <1>2, <1>3, <2>2 DEF With
      <3> QED
        BY <2>2, <3>1 DEF Waiting, Present
    <2> QED
      BY <1>1, <1>2, <1>3, <2>1, <2>2 DEF Adds
  <1>4. ASSUME NEW h \in Message, bag[h] > 0, h.unacked, h.stage # "queued", ~m.unacked,
               msgs' = [Less(left, h) EXCEPT ![[h EXCEPT !.unacked = FALSE]] = @ + 1],
               robbed' = robbed \cup {h.event}
        PROVE  Adds(new, {m})
    <2> DEFINE s == [h EXCEPT !.unacked = FALSE]
               rest == Less(left, h)
    <2>1. s \in Message /\ h.event \in Events
      BY DEF Message
    <2>2. m # h
      BY <1>4
    <2>3. left[h] > 0
      BY <1>1, <1>2, <1>4, <2>2
    <2>4. /\ rest \in [Message -> Nat] /\ \A x \in Message : rest[x] <= left[x]
          /\ \A x \in Message \ {h} : rest[x] = left[x]
      BY <1>2, <2>3 DEF Less
    <2> HIDE DEF s, rest
    <2>5. msgs' = [rest EXCEPT ![s] = @ + 1]
      BY <1>4 DEF s, rest
    <2>6. /\ msgs' \in [Message -> Nat] /\ \A x \in Message : msgs'[x] >= rest[x]
          /\ \A x \in Message \ {s} : msgs'[x] = rest[x]
      BY <2>1, <2>4, <2>5
    <2>7. ASSUME NEW x \in Message, msgs'[x] > 0
          PROVE  \E y \in Message : (msgs[y] > 0 \/ y \in new) /\ From(x, y)
      <3>1. CASE x = s
        BY <1>4, <3>1 DEF With, From, s
      <3>2. CASE x # s
        <4>1. bag[x] > 0
          BY <1>1, <1>2, <2>4, <2>6, <2>7, <3>2
        <4> QED
          BY <4>1 DEF With, From
      <3> QED
        BY <3>1, <3>2
    <2>8. ASSUME NEW x \in Message, msgs[x] > 0, x.unacked, x # m
          PROVE  Waiting(x.event)' \/ x.event \in robbed'
      <3>1. CASE x = h
        BY <1>4, <3>1
      <3>2. CASE x # h
        <4>1. bag[x] > 0
          BY <2>8 DEF With
        <4>2. msgs'[x] > 0
          BY <1>1, <1>2, <2>4, <2>6, <2>8, <3>2, <4>1
        <4> QED
          BY <2>8, <4>2 DEF Waiting, Present
      <3> QED
        BY <3>1, <3>2
    <2> QED
      BY <1>1, <1>4, <2>1, <2>6, <2>7, <2>8 DEF Adds
  <1>5. CASE ~m.unacked /\ Dies(bag)
    <2>1. Adds(new, {})
      BY <1>5, DiesAdds
    <2> QED
      BY <1>5, <2>1 DEF Adds
  <1>6. \/ msgs' = left /\ UNCHANGED robbed
        \/ ~m.unacked /\ Dies(bag)
        \/ /\ ~m.unacked
           /\ \E h \in Message :
                 /\ bag[h] > 0 /\ h.unacked /\ h.stage # "queued"
                 /\ msgs' = [Less(left, h) EXCEPT ![[h EXCEPT !.unacked = FALSE]] = @ + 1]
                 /\ robbed' = robbed \cup {h.event}
    BY DEF Acknowledge, WrongTag, left
  <1>7. Adds(new, {m})
    BY <1>3, <1>4, <1>5, <1>6
  <1>8. ASSUME m.unacked PROVE \A x \in Message : bag[x] > 0 /\ x # m => msgs'[x] > 0
    <2>1. msgs' = left
      BY <1>8 DEF Acknowledge, left
    <2> QED
      BY <1>2, <2>1
  <1> QED
    BY <1>7, <1>8

LEMMA NothingNew ==
    ASSUME TypeOK
    PROVE  With(msgs, {})
  BY DEF TypeOK, With

LEMMA BecomeAdds ==
    ASSUME TypeOK, NEW m \in Message, Present(m), NEW stage \in Stages, Become(m, stage)
    PROVE  Adds({At(m, stage)}, {m}) /\ msgs'[At(m, stage)] > 0
  <1> DEFINE n == At(m, stage)
  <1>1. msgs \in [Message -> Nat] /\ msgs[m] > 0 /\ n \in Message /\ robbed \subseteq Events
    BY AtMessage DEF TypeOK, Present
  <1>2. msgs' = [[msgs EXCEPT ![m] = @ - 1] EXCEPT ![n] = @ + 1] /\ robbed' = robbed
    BY DEF Become, Less
  <1> HIDE DEF n
  <1>3. /\ msgs' \in [Message -> Nat] /\ msgs'[n] > 0
        /\ \A x \in Message : /\ msgs'[x] > 0 => msgs[x] > 0 \/ x = n
                              /\ msgs[x] > 0 /\ x # m => msgs'[x] > 0
    BY <1>1, <1>2
  <1>4. Adds({n}, {m})
    BY <1>1, <1>2, <1>3 DEF Adds, From, Waiting, Present
  <1> QED
    BY <1>3, <1>4 DEF n

\* A message of each queue.
Copy(event, queue, retry) ==
    [event |-> event, queue |-> queue, retry |-> retry, stage |-> "queued", unacked |-> TRUE]
CopiesOf(event, retry) == {Copy(event, q, retry) : q \in Queues}

LEMMA RoutedAdds ==
    ASSUME TypeOK, NEW event \in Events, NEW retry \in 0..MaxRetries
    PROVE  /\ With(Routed(msgs, event, retry), CopiesOf(event, retry))
           /\ \A x \in CopiesOf(event, retry) :
                 x \in Message /\ Routed(msgs, event, retry)[x] > 0
           /\ \E x \in CopiesOf(event, retry) : TRUE
  <1>1. \A x \in Message :
           (/\ x.event = event /\ x.retry = retry /\ x.queue \in Queues
            /\ x.stage = "queued" /\ x.unacked)
              <=> x \in CopiesOf(event, retry)
    <2> SUFFICES ASSUME NEW x \in Message
                 PROVE  (/\ x.event = event /\ x.retry = retry /\ x.queue \in Queues
                         /\ x.stage = "queued" /\ x.unacked)
                           <=> x \in CopiesOf(event, retry)
      OBVIOUS
    <2>1. x = [event |-> x.event, queue |-> x.queue, retry |-> x.retry, stage |-> x.stage,
               unacked |-> x.unacked] /\ x.unacked \in BOOLEAN
      BY Zenon DEF Message
    <2>2. ASSUME x.event = event, x.retry = retry, x.queue \in Queues, x.stage = "queued", x.unacked
          PROVE  x = Copy(event, x.queue, retry)
      <3>1. x.unacked = TRUE
        BY <2>1, <2>2
      <3> QED
        BY <2>1, <2>2, <3>1, Zenon DEF Copy
    <2>3. ASSUME NEW q \in Queues, x = Copy(event, q, retry)
          PROVE  /\ x.event = event /\ x.retry = retry /\ x.queue \in Queues
                 /\ x.stage = "queued" /\ x.unacked
      BY <2>3 DEF Copy
    <2> QED
      BY <2>2, <2>3 DEF CopiesOf
  <1>2. \A x \in CopiesOf(event, retry) : x \in Message
    <2>1. \A q \in Queues : Copy(event, q, retry) \in Message
      BY Zenon DEF Message, Copy, Stages
    <2> QED
      BY <2>1 DEF CopiesOf
  <1>3. Routed(msgs, event, retry) =
            [x \in Message |-> msgs[x] + IF x \in CopiesOf(event, retry) THEN 1 ELSE 0]
    BY <1>1 DEF Routed
  <1>4. \E x \in CopiesOf(event, retry) : TRUE
    BY NotificationAssumption DEF CopiesOf
  <1>5. msgs \in [Message -> Nat]
    BY DEF TypeOK
  <1> QED
    BY <1>2, <1>3, <1>4, <1>5 DEF With

-----------------------------------------------------------------------------
(* The records. *)

AuditRow == {"NONE", "SENT", "FAILED"}

\* Histories only grow, and an audit row is never rewritten.
Mono ==
    /\ faults' = faults
    /\ audit' \in [Events -> AuditRow]
    /\ delivered' \in [Events -> Nat] /\ dead' \in [Events -> Nat]
    /\ \A e \in Events : /\ audit[e] # "NONE" => audit'[e] = audit[e]
                         /\ delivered[e] <= delivered'[e]
                         /\ dead[e] <= dead'[e]

LEMMA CountsTyped ==
    ASSUME TypeOK
    PROVE  /\ audit \in [Events -> AuditRow] /\ delivered \in [Events -> Nat]
           /\ dead \in [Events -> Nat] /\ msgs \in [Message -> Nat]
           /\ \A e \in Events : delivered[e] <= delivered[e] /\ dead[e] <= dead[e]
  <1>1. delivered \in [Events -> Nat] /\ dead \in [Events -> Nat]
    BY DEF TypeOK
  <1> QED
    BY <1>1 DEF TypeOK, AuditRow

\* What is so of a message stays so while it is there.
LEMMA RuleStays ==
    ASSUME TypeOK, Mono, NEW m \in Message, MessageRule(m)
    PROVE  MessageRule(m)'
  <1>1. m.event \in Events
    BY DEF Message
  <1>2. /\ delivered[m.event] \in Nat /\ delivered'[m.event] \in Nat
        /\ dead[m.event] \in Nat /\ dead'[m.event] \in Nat
        /\ delivered[m.event] <= delivered'[m.event] /\ dead[m.event] <= dead'[m.event]
        /\ audit[m.event] # "NONE" => audit'[m.event] = audit[m.event]
    BY <1>1, CountsTyped DEF Mono
  <1>3. Calm' <=> Calm
    BY DEF Mono, Calm, Without
  <1> QED
    BY <1>2, <1>3 DEF MessageRule

\* What a message has come from obeys the rule, and so does the message.
LEMMA RuleFollows ==
    ASSUME NEW x \in Message, NEW y \in Message, From(x, y), MessageRule(y)'
    PROVE  MessageRule(x)'
  <1>1. /\ x.event = y.event /\ x.queue = y.queue /\ x.retry = y.retry
        /\ x.stage \in {y.stage, "queued"} /\ (x.unacked => y.unacked)
    BY FromMessage
  <1> QED
    BY <1>1 DEF MessageRule

\* A step may add messages, if what it adds obeys the rule.
LEMMA StepRecord ==
    ASSUME RecordInv, Mono, NEW new, NEW gone, Adds(new, gone),
           published' \in [Events -> 0..Copies], streamed' \subseteq Events,
           restarts' \in 0..MaxRestarts, connected' \in BOOLEAN,
           \A x \in new : x \in Message => MessageRule(x)',
           \A e \in Events : EventRule(e)'
    PROVE  RecordInv'
  <1>1. TypeOK'
    BY DEF RecordInv, TypeOK, Mono, AuditRow, Adds
  <1>2. ASSUME NEW x \in Message, msgs'[x] > 0 PROVE MessageRule(x)'
    <2>1. PICK y \in Message : (msgs[y] > 0 \/ y \in new) /\ From(x, y)
      BY <1>2 DEF Adds
    <2>2. MessageRule(y)'
      BY <2>1, RuleStays DEF RecordInv, Present
    <2> QED
      BY <2>1, <2>2, RuleFollows
  <1> QED
    BY <1>1, <1>2 DEF RecordInv, Present

(* An event is still held, or settled, when handlers go on to something    *)
(* else.                                                                   *)
LEMMA StepVanish ==
    ASSUME ConsumerInv, Mono, published' = published, NEW new, NEW gone, Adds(new, gone),
           \A m \in gone : m \in Message /\ m.unacked =>
               \/ Waiting(m.event)'
               \/ audit'[m.event] # "NONE"
               \/ dead'[m.event] > 0
    PROVE  NothingVanishes'
  <1> SUFFICES ASSUME NEW e \in Events, published[e] > 0
               PROVE  Waiting(e)' \/ audit'[e] # "NONE" \/ dead'[e] > 0 \/ e \in robbed'
    BY DEF NothingVanishes
  <1>1. Waiting(e) \/ audit[e] # "NONE" \/ dead[e] > 0 \/ e \in robbed
    BY DEF ConsumerInv, NothingVanishes
  <1>2. CASE audit[e] # "NONE"
    BY <1>2 DEF Mono
  <1>3. CASE dead[e] > 0
    <2>1. dead[e] \in Nat /\ dead'[e] \in Nat /\ dead[e] <= dead'[e]
      BY CountsTyped DEF Mono, ConsumerInv, RecordInv
    <2> QED
      BY <1>3, <2>1
  <1>4. CASE e \in robbed
    BY <1>4 DEF Adds
  <1>5. CASE Waiting(e)
    <2>1. PICK y \in Message : msgs[y] > 0 /\ y.event = e /\ y.unacked
      BY <1>5 DEF Waiting, Present
    <2>3. CASE y \notin gone
      BY <2>1, <2>3 DEF Adds
    <2>4. CASE y \in gone
      BY <2>1, <2>4
    <2> QED
      BY <2>3, <2>4
  <1> QED
    BY <1>1, <1>2, <1>3, <1>4, <1>5

\* Both, for a step that publishes no event.
LEMMA StepKeeps ==
    ASSUME ConsumerInv, Mono, published' = published, NEW new, NEW gone, Adds(new, gone),
           streamed' \subseteq Events, restarts' \in 0..MaxRestarts, connected' \in BOOLEAN,
           \A x \in new : x \in Message => MessageRule(x)',
           \A e \in Events : EventRule(e)',
           \A m \in gone : m \in Message /\ m.unacked =>
               \/ Waiting(m.event)'
               \/ audit'[m.event] # "NONE"
               \/ dead'[m.event] > 0
    PROVE  ConsumerInv'
  <1>1. published' \in [Events -> 0..Copies]
    BY DEF ConsumerInv, RecordInv, TypeOK
  <1>2. RecordInv'
    BY <1>1, StepRecord DEF ConsumerInv
  <1> QED
    BY <1>2, StepVanish DEF ConsumerInv

-----------------------------------------------------------------------------
(* The handlers. *)

\* What no handler changes.
Rest == << published, streamed, connected, restarts >>

LEMMA RestTyped ==
    ASSUME ConsumerInv, UNCHANGED Rest
    PROVE  /\ published' = published /\ streamed' \subseteq Events
           /\ restarts' \in 0..MaxRestarts /\ connected' \in BOOLEAN
  BY DEF ConsumerInv, RecordInv, TypeOK, Rest

\* The catch block, reached with the audit table as it now is.
LEMMA FailureKeeps ==
    ASSUME ConsumerInv, NEW m \in Message, Present(m),
           m.stage \in {"check", "deliver", "audit"}, Failure(m),
           UNCHANGED << Rest, delivered, faults >>,
           audit' \in [Events -> AuditRow],
           \A e \in Events : audit[e] # "NONE" => audit'[e] = audit[e],
           \A e \in Events : audit'[e] # audit[e] => delivered[e] > 0,
           Calm => m.stage # "check" /\ audit'[m.event] # "NONE"
    PROVE  ConsumerInv'
  <1> DEFINE e == m.event
  <1>0. /\ TypeOK /\ MessageRule(m) /\ e \in Events /\ m.retry \in 0..MaxRetries
        /\ (Calm' <=> Calm) /\ With(msgs, {})
    BY NothingNew DEF ConsumerInv, RecordInv, Message, Calm, Without
  <1>1. ASSUME Mono, Calm => dead' = dead PROVE \A x \in Events : EventRule(x)'
    <2> SUFFICES ASSUME NEW x \in Events PROVE EventRule(x)'
      OBVIOUS
    <2>1. EventRule(x)
      BY DEF ConsumerInv, RecordInv
    <2> QED
      BY <1>0, <1>1, <2>1 DEF EventRule, Without
  <1>2. /\ published' = published /\ streamed' \subseteq Events
        /\ restarts' \in 0..MaxRestarts /\ connected' \in BOOLEAN
    BY RestTyped
  <1>m. dead' = dead => Mono
    BY <1>0, CountsTyped DEF Mono
  <1>3. CASE m.queue = Live /\ Acknowledge(m, msgs) /\ dead' = dead
    <2>1. ~m.unacked
      BY <1>0, <1>3 DEF MessageRule
    <2>2. Adds({}, {m})
      BY <1>0, <1>3, AcknowledgeAdds
    <2> QED
      BY <1>1, <1>2, <1>3, <1>m, <2>1, <2>2, StepKeeps
  <1>4. CASE m.queue # Live /\ ~ Exhausted(m) /\ Acknowledge(m, Retry(m)) /\ dead' = dead
    <2> DEFINE new == CopiesOf(e, m.retry + 1)
               bag == Retry(m)
    <2>1. m.retry + 1 \in 0..MaxRetries /\ m.retry + 1 > m.retry
      BY <1>0, <1>4, NotificationAssumption DEF Exhausted
    <2>2. /\ With(bag, new) /\ (\E x \in new : TRUE)
          /\ \A x \in new : x \in Message /\ bag[x] > 0
      BY <1>0, <2>1, RoutedAdds DEF Retry
    <2>3. \A x \in new : /\ x.event = e /\ x.stage = "queued" /\ x.queue # Live
                         /\ x.unacked /\ x.retry = m.retry + 1
      BY NotificationAssumption DEF CopiesOf, Copy
    <2> HIDE DEF new, bag
    <2>4. /\ Adds(new, {m})
          /\ m.unacked => \A x \in Message : bag[x] > 0 /\ x # m => msgs'[x] > 0
      BY <1>0, <1>4, <2>2, AcknowledgeAdds DEF bag
    <2>5. ASSUME NEW x \in new PROVE MessageRule(x)'
      BY <1>0, <2>3 DEF MessageRule
    <2>6. m.unacked => Waiting(e)'
      <3>1. PICK x \in new : TRUE
        BY <2>2
      <3>2. x \in Message /\ bag[x] > 0 /\ x # m /\ x.event = e /\ x.unacked
        BY <1>0, <2>1, <2>2, <2>3
      <3> QED
        BY <2>4, <3>2 DEF Waiting, Present
    <2> QED
      BY <1>1, <1>2, <1>4, <1>m, <2>4, <2>5, <2>6, StepKeeps
  <1>5. CASE m.queue # Live /\ Exhausted(m) /\ dead' = [dead EXCEPT ![e] = @ + 1] /\ Become(m, "giveUp")
    <2>1. dead' \in [Events -> Nat] /\ dead'[e] > 0 /\ \A x \in Events : dead[x] <= dead'[x]
      BY <1>0, <1>5, CountsTyped
    <2>2. Mono
      BY <1>0, <2>1, CountsTyped DEF Mono
    <2>3. ~ Calm
      BY <1>0, <1>5, NotificationAssumption DEF MessageRule, Exhausted
    <2>4. Adds({At(m, "giveUp")}, {m})
      BY <1>0, <1>5, BecomeAdds DEF Stages
    <2>5. MessageRule(At(m, "giveUp"))'
      <3>1. /\ At(m, "giveUp").event = e /\ At(m, "giveUp").stage = "giveUp"
            /\ At(m, "giveUp").queue = m.queue
        BY AtMessage DEF Stages
      <3> QED
        BY <1>0, <1>5, <2>1, <2>3, <3>1 DEF MessageRule
    <2> QED
      BY <1>1, <1>2, <2>1, <2>2, <2>3, <2>4, <2>5, StepKeeps
  <1>6. CASE Dies(msgs) /\ dead' = dead
    <2>1. Adds({}, {})
      BY <1>0, <1>6, DiesAdds
    <2> QED
      BY <1>1, <1>2, <1>6, <1>m, <2>1, StepKeeps
  <1> QED
    BY <1>3, <1>4, <1>5, <1>6 DEF Failure

\* A handler ends, its event audited or in the dead letter queue.
LEMMA AcknowledgeKeeps ==
    ASSUME ConsumerInv, NEW m \in Message, Present(m), Acknowledge(m, msgs), Mono, UNCHANGED Rest,
           \A e \in Events : EventRule(e)',
           audit'[m.event] # "NONE" \/ dead'[m.event] > 0
    PROVE  ConsumerInv'
  <1>1. Adds({}, {m})
    BY AcknowledgeAdds, NothingNew DEF ConsumerInv, RecordInv
  <1> QED
    BY <1>1, RestTyped, StepKeeps

\* A handler goes on to another stage.
LEMMA BecomeKeeps ==
    ASSUME ConsumerInv, NEW m \in Message, Present(m), NEW stage \in Stages, Become(m, stage), Mono,
           UNCHANGED Rest,
           \A e \in Events : EventRule(e)', MessageRule(At(m, stage))'
    PROVE  ConsumerInv'
  <1>1. Adds({At(m, stage)}, {m}) /\ msgs'[At(m, stage)] > 0
    BY BecomeAdds DEF ConsumerInv, RecordInv
  <1>2. /\ At(m, stage) \in Message /\ At(m, stage).event = m.event
        /\ At(m, stage).unacked = m.unacked
    BY AtMessage
  <1>3. m.unacked => Waiting(m.event)'
    BY <1>1, <1>2 DEF Waiting, Present
  <1> QED
    BY <1>1, <1>3, RestTyped, StepKeeps

\* Nothing that is recorded changes.
LEMMA SameRecords ==
    ASSUME RecordInv, UNCHANGED << audit, delivered, dead, faults >>
    PROVE  Mono /\ \A e \in Events : EventRule(e)'
  <1>1. Mono
    BY CountsTyped DEF RecordInv, Mono
  <1> QED
    BY <1>1 DEF RecordInv, EventRule, Without, Calm

LEMMA ConsumeKeeps ==
    ASSUME ConsumerInv, NEW m \in Message, Present(m), Consume(m), faults' = faults
    PROVE  ConsumerInv'
  <1>1. /\ m.stage = "queued" /\ MessageRule(m) /\ RecordInv /\ Become(m, "check")
        /\ UNCHANGED << Rest, audit, delivered, dead >>
    BY DEF Consume, ConsumerInv, RecordInv, Rest
  <1>2. /\ At(m, "check").event = m.event /\ At(m, "check").stage = "check"
        /\ At(m, "check").retry = m.retry /\ At(m, "check").queue = m.queue
        /\ At(m, "check").unacked = m.unacked
    BY AtMessage DEF Stages
  <1>3. MessageRule(At(m, "check"))'
    BY <1>1, <1>2 DEF MessageRule, Calm, Without
  <1> QED
    BY <1>1, <1>3, SameRecords, BecomeKeeps DEF Stages

LEMMA CheckKeeps ==
    ASSUME ConsumerInv, NEW m \in Message, Present(m), Check(m), faults' = faults
    PROVE  ConsumerInv'
  <1>1. /\ m.stage = "check" /\ MessageRule(m) /\ RecordInv /\ TypeOK
        /\ UNCHANGED << Rest, audit, delivered >>
    BY DEF Check, ConsumerInv, RecordInv, Rest
  <1>2. CASE audit[m.event] # "NONE" /\ Acknowledge(m, msgs) /\ dead' = dead
    BY <1>1, <1>2, SameRecords, AcknowledgeKeeps
  <1>3. CASE audit[m.event] = "NONE" /\ Become(m, "deliver") /\ dead' = dead
    <2>1. /\ At(m, "deliver").event = m.event /\ At(m, "deliver").stage = "deliver"
          /\ At(m, "deliver").retry = m.retry /\ At(m, "deliver").queue = m.queue
          /\ At(m, "deliver").unacked = m.unacked
      BY AtMessage DEF Stages
    <2>2. MessageRule(At(m, "deliver"))'
      BY <1>1, <1>3, <2>1 DEF MessageRule, Calm, Without
    <2> QED
      BY <1>1, <1>3, <2>2, SameRecords, BecomeKeeps DEF Stages
  <1>4. CASE "db" \in faults /\ Failure(m)
    <2>1. ~ Calm
      BY <1>4 DEF Calm, Without
    <2>2. audit' \in [Events -> AuditRow]
      BY <1>1, CountsTyped
    <2> QED
      BY <1>1, <1>4, <2>1, <2>2, FailureKeeps
  <1> QED
    BY <1>2, <1>3, <1>4 DEF Check

LEMMA DeliverKeeps ==
    ASSUME ConsumerInv, NEW m \in Message, Present(m), Deliver(m), faults' = faults
    PROVE  ConsumerInv'
  <1>1. /\ m.stage = "deliver" /\ MessageRule(m) /\ RecordInv /\ TypeOK /\ m.event \in Events
        /\ UNCHANGED << Rest, audit >>
    BY DEF Deliver, ConsumerInv, RecordInv, Rest, Message
  <1>2. CASE /\ "delivery" \notin faults /\ Become(m, "audit") /\ dead' = dead
             /\ delivered' = [delivered EXCEPT ![m.event] = @ + 1]
    <2>1. /\ delivered' \in [Events -> Nat] /\ delivered'[m.event] > 0
          /\ \A e \in Events : delivered[e] <= delivered'[e] /\ (delivered[e] > 0 => delivered'[e] > 0)
      BY <1>1, <1>2, CountsTyped
    <2>2. Mono
      BY <1>1, <1>2, <2>1, CountsTyped DEF Mono
    <2>3. \A e \in Events : EventRule(e)'
      BY <1>1, <1>2, <2>1 DEF RecordInv, EventRule, Without, Calm
    <2>4. /\ At(m, "audit").event = m.event /\ At(m, "audit").stage = "audit"
          /\ At(m, "audit").retry = m.retry /\ At(m, "audit").queue = m.queue
          /\ At(m, "audit").unacked = m.unacked
      BY AtMessage DEF Stages
    <2>5. MessageRule(At(m, "audit"))'
      BY <1>1, <2>1, <2>4 DEF MessageRule, Calm, Without
    <2> QED
      BY <1>1, <1>2, <2>2, <2>3, <2>5, BecomeKeeps DEF Stages
  <1>3. CASE "delivery" \in faults /\ Failure(m) /\ delivered' = delivered
    <2>1. ~ Calm
      BY <1>3 DEF Calm, Without
    <2>2. audit' \in [Events -> AuditRow]
      BY <1>1, CountsTyped
    <2> QED
      BY <1>1, <1>3, <2>1, <2>2, FailureKeeps
  <1> QED
    BY <1>2, <1>3 DEF Deliver

LEMMA WriteAuditKeeps ==
    ASSUME ConsumerInv, NEW m \in Message, Present(m), WriteAudit(m), faults' = faults
    PROVE  ConsumerInv'
  <1>1. /\ m.stage = "audit" /\ MessageRule(m) /\ RecordInv /\ TypeOK /\ m.event \in Events
        /\ delivered[m.event] > 0
        /\ UNCHANGED << Rest, delivered >>
    BY DEF WriteAudit, ConsumerInv, RecordInv, Rest, Message, MessageRule
  <1>2. ASSUME audit[m.event] = "NONE", audit' = [audit EXCEPT ![m.event] = "SENT"]
        PROVE  /\ audit' \in [Events -> AuditRow] /\ audit'[m.event] = "SENT"
               /\ \A e \in Events : audit[e] # "NONE" => audit'[e] = audit[e]
               /\ \A e \in Events : audit'[e] # audit[e] => delivered[e] > 0
    BY <1>1, <1>2, CountsTyped DEF AuditRow
  <1>3. CASE /\ audit[m.event] = "NONE" /\ audit' = [audit EXCEPT ![m.event] = "SENT"]
             /\ Acknowledge(m, msgs) /\ dead' = dead
    <2>1. Mono
      BY <1>1, <1>2, <1>3, CountsTyped DEF Mono
    <2>2. \A e \in Events : EventRule(e)'
      BY <1>1, <1>2, <1>3 DEF RecordInv, EventRule, Without, Calm
    <2> QED
      BY <1>1, <1>2, <1>3, <2>1, <2>2, AcknowledgeKeeps
  <1>4. CASE (audit[m.event] # "NONE" \/ "db" \in faults) /\ Failure(m) /\ audit' = audit
    <2>1. Calm => audit'[m.event] # "NONE"
      BY <1>4 DEF Calm, Without
    <2>2. audit' \in [Events -> AuditRow]
      BY <1>1, <1>4, CountsTyped
    <2> QED
      BY <1>1, <1>4, <2>1, <2>2, FailureKeeps
  <1>5. CASE /\ audit[m.event] = "NONE" /\ audit' = [audit EXCEPT ![m.event] = "SENT"]
             /\ Failure(m)
    BY <1>1, <1>2, <1>5, FailureKeeps
  <1> QED
    BY <1>3, <1>4, <1>5 DEF WriteAudit

LEMMA GiveUpKeeps ==
    ASSUME ConsumerInv, NEW m \in Message, Present(m), GiveUp(m), faults' = faults
    PROVE  ConsumerInv'
  <1>1. /\ RecordInv /\ TypeOK /\ m.event \in Events /\ dead[m.event] > 0
        /\ Acknowledge(m, msgs) /\ UNCHANGED << Rest, delivered, dead >>
    BY DEF GiveUp, ConsumerInv, RecordInv, Rest, Message, MessageRule
  <1>2. /\ audit' \in [Events -> AuditRow]
        /\ \A e \in Events : audit[e] # "NONE" => audit'[e] = audit[e]
        /\ \A e \in Events : audit'[e] = "SENT" => audit[e] = "SENT"
    BY <1>1, CountsTyped DEF GiveUp, AuditRow
  <1>3. Mono
    BY <1>1, <1>2, CountsTyped DEF Mono
  <1>4. \A e \in Events : EventRule(e)'
    BY <1>1, <1>2 DEF RecordInv, EventRule, Without, Calm
  <1> QED
    BY <1>1, <1>3, <1>4, AcknowledgeKeeps

-----------------------------------------------------------------------------
(* The rest of the system. *)

LEMMA PublishKeeps ==
    ASSUME ConsumerInv, NEW e \in Events, Publish(e), faults' = faults
    PROVE  ConsumerInv'
  <1>1. /\ RecordInv /\ TypeOK
        /\ UNCHANGED << streamed, connected, robbed, audit, delivered, dead, restarts >>
    BY DEF ConsumerInv, RecordInv, Publish
  <1>2. PICK first \in FirstAttempts : msgs' = Routed(msgs, e, first)
    BY DEF Publish
  <1>3. first \in 0..MaxRetries /\ (Calm => first = 0)
    BY <1>2, NotificationAssumption DEF FirstAttempts, Calm, Without
  <1> DEFINE new == CopiesOf(e, first)
  <1>4. /\ With(msgs', new) /\ (\E x \in new : TRUE)
        /\ \A x \in new : x \in Message /\ msgs'[x] > 0
    BY <1>1, <1>2, <1>3, RoutedAdds
  <1>5. \A x \in new : /\ x.event = e /\ x.stage = "queued" /\ x.retry = first /\ x.unacked
                       /\ x.queue # Live
    BY NotificationAssumption DEF CopiesOf, Copy
  <1> HIDE DEF new
  <1>6. Adds(new, {})
    BY <1>1, <1>4 DEF With, Adds, From, Waiting, Present, TypeOK
  <1>7. ASSUME NEW x \in new PROVE MessageRule(x)'
    <2>1. Calm' <=> Calm
      BY DEF Calm, Without
    <2> QED
      BY <1>3, <1>5, <2>1 DEF MessageRule
  <1>8. published' \in [Events -> 0..Copies]
    <2>1. published \in [Events -> 0..Copies] /\ published' = [published EXCEPT ![e] = @ + 1]
          /\ (published[e] < Copies \/ published[e] < 1)
      BY <1>1 DEF Publish, TypeOK
    <2> QED
      BY <2>1, NotificationAssumption
  <1>9. RecordInv'
    BY <1>1, <1>6, <1>7, <1>8, SameRecords, StepRecord DEF TypeOK
  <1>10. NothingVanishes'
    <2> SUFFICES ASSUME NEW x \in Events, published'[x] > 0
                 PROVE  Waiting(x)' \/ audit[x] # "NONE" \/ dead[x] > 0 \/ x \in robbed
      BY <1>1 DEF NothingVanishes
    <2>1. CASE x = e
      BY <1>4, <1>5, <2>1 DEF Waiting, Present
    <2>2. CASE x # e
      <3>1. published'[x] = published[x]
        BY <1>1, <2>2 DEF Publish, TypeOK
      <3>2. Waiting(x) \/ audit[x] # "NONE" \/ dead[x] > 0 \/ x \in robbed
        BY <3>1 DEF ConsumerInv, NothingVanishes
      <3> QED
        BY <1>4, <3>2 DEF Waiting, Present, With
    <2> QED
      BY <2>1, <2>2
  <1> QED
    BY <1>9, <1>10 DEF ConsumerInv

LEMMA StreamKeeps ==
    ASSUME ConsumerInv, NEW e \in Events, Stream(e), faults' = faults
    PROVE  ConsumerInv'
  <1> DEFINE n == [event |-> e, queue |-> Live, retry |-> 0, stage |-> "check", unacked |-> FALSE]
  <1>1. /\ RecordInv /\ TypeOK /\ msgs \in [Message -> Nat] /\ robbed \subseteq Events
        /\ UNCHANGED << published, connected, robbed, audit, delivered, dead, restarts >>
        /\ streamed' \subseteq Events /\ msgs' = [msgs EXCEPT ![n] = @ + 1]
    BY CountsTyped DEF ConsumerInv, RecordInv, TypeOK, Stream
  <1>2. n \in Message
    BY NotificationAssumption DEF Message, Stages
  <1>3. MessageRule(n)'
    BY DEF MessageRule
  <1> HIDE DEF n
  <1>4. /\ msgs' \in [Message -> Nat]
        /\ \A x \in Message : (msgs'[x] > 0 => msgs[x] > 0 \/ x = n) /\ (msgs[x] > 0 => msgs'[x] > 0)
    BY <1>1, <1>2
  <1>5. Adds({n}, {})
    BY <1>1, <1>4 DEF Adds, From, Waiting, Present
  <1> QED
    BY <1>1, <1>3, <1>5, SameRecords, StepKeeps DEF TypeOK

LEMMA SyncKeeps ==
    ASSUME ConsumerInv, NEW e \in Events, SyncHistory(e), faults' = faults
    PROVE  ConsumerInv'
  <1>1. /\ RecordInv /\ TypeOK /\ ~ Without({"history"})
        /\ UNCHANGED << published, streamed, msgs, connected, robbed, delivered, dead, restarts >>
    BY DEF ConsumerInv, RecordInv, SyncHistory, Without
  <1>2. /\ audit' \in [Events -> AuditRow]
        /\ \A x \in Events : audit[x] # "NONE" => audit'[x] = audit[x]
    BY <1>1, CountsTyped DEF SyncHistory, AuditRow
  <1>3. Mono
    BY <1>1, <1>2, CountsTyped DEF Mono
  <1>4. \A x \in Events : EventRule(x)'
    BY <1>1 DEF RecordInv, EventRule, Without, Calm
  <1>5. Adds({}, {})
    BY <1>1 DEF Adds, From, Waiting, Present, TypeOK
  <1> QED
    BY <1>1, <1>3, <1>4, <1>5, StepKeeps DEF TypeOK

LEMMA CrashKeeps ==
    ASSUME ConsumerInv, Crash, faults' = faults
    PROVE  ConsumerInv'
  <1>1. /\ RecordInv /\ TypeOK /\ Dies(msgs)
        /\ UNCHANGED << published, streamed, connected, audit, delivered, dead >>
    BY DEF ConsumerInv, RecordInv, Crash
  <1>2. restarts' \in 0..MaxRestarts
    BY <1>1, NotificationAssumption DEF Crash, TypeOK
  <1>3. Adds({}, {})
    BY <1>1, DiesAdds, NothingNew
  <1> QED
    BY <1>1, <1>2, <1>3, SameRecords, StepKeeps DEF TypeOK

(* What a lost connection held is in its queue again, as after a crash;    *)
(* its handlers go on.                                                     *)
LEMMA DropKeeps ==
    ASSUME ConsumerInv, Drop, faults' = faults
    PROVE  ConsumerInv'
  <1>1. /\ RecordInv /\ TypeOK /\ msgs \in [Message -> Nat] /\ robbed \subseteq Events
        /\ UNCHANGED << published, streamed, robbed, audit, delivered, dead >>
        /\ connected' \in BOOLEAN
    BY DEF ConsumerInv, RecordInv, Drop, TypeOK
  <1>2. restarts' \in 0..MaxRestarts
    BY <1>1, NotificationAssumption DEF Drop, TypeOK
  <1> DEFINE Back(x) == Requeued(msgs, x)
             Orphan(x) == [x EXCEPT !.unacked = TRUE]
  <1>3. ASSUME NEW x \in Message
        PROVE  /\ Back(x) \in Nat
               /\ Back(x) > 0 <=> /\ x.unacked /\ x.stage = "queued"
                                  /\ \E stage \in Stages : msgs[At(x, stage)] > 0
    BY <1>1, RequeuedCount
  <1>4. ASSUME NEW x \in Message
        PROVE  /\ msgs'[x] \in Nat
               /\ x.unacked => msgs'[x] = Back(x)
               /\ ~x.unacked /\ msgs'[x] > 0 => msgs[x] > 0 \/ msgs[Orphan(x)] > 0
    <2>1. Orphan(x) \in Message /\ msgs[Orphan(x)] \in Nat /\ msgs[x] \in Nat
      BY <1>1 DEF Message
    <2>2. msgs'[x] = CASE x.unacked -> Back(x)
                       [] ~x.unacked /\ x.stage = "queued" -> msgs[x]
                       [] OTHER -> msgs[x] + msgs[Orphan(x)]
      BY DEF Drop
    <2>3. x.unacked \in BOOLEAN
      BY DEF Message
    <2> HIDE DEF Back, Orphan
    <2>4. CASE x.unacked
      BY <1>3, <2>2, <2>4
    <2>5. CASE ~x.unacked /\ x.stage = "queued"
      BY <2>1, <2>2, <2>5
    <2>6. CASE ~x.unacked /\ x.stage # "queued"
      BY <2>1, <2>2, <2>6
    <2> QED
      BY <2>3, <2>4, <2>5, <2>6
  <1>5. msgs' \in [Message -> Nat]
    <2>1. msgs' = [x \in Message |-> msgs'[x]]
      BY DEF Drop
    <2> QED
      BY <1>4, <2>1
  <1>6. ASSUME NEW x \in Message, msgs'[x] > 0
        PROVE  \E y \in Message : msgs[y] > 0 /\ From(x, y)
    <2>1. CASE x.unacked
      <3>1. x.stage = "queued" /\ \E stage \in Stages : msgs[At(x, stage)] > 0
        BY <1>3, <1>4, <1>6, <2>1
      <3>2. PICK stage \in Stages : msgs[At(x, stage)] > 0
        BY <3>1
      <3>3. At(x, stage) \in Message /\ x = At(At(x, stage), "queued")
        BY <3>1, AtMessage, AtAgain
      <3> QED
        BY <3>2, <3>3 DEF From
    <2>2. CASE ~x.unacked
      <3>1. Orphan(x) \in Message /\ x = [Orphan(x) EXCEPT !.unacked = FALSE]
        BY <2>2 DEF Message
      <3> QED
        BY <1>4, <1>6, <2>2, <3>1 DEF From
    <2> QED
      BY <2>1, <2>2
  <1>7. ASSUME NEW x \in Message, msgs[x] > 0, x.unacked PROVE Waiting(x.event)'
    <2> DEFINE q == At(x, "queued")
    <2>1. q \in Message /\ q.event = x.event /\ q.unacked /\ q.stage = "queued"
      BY <1>7, AtMessage DEF Stages
    <2>2. x.stage \in Stages /\ At(q, x.stage) = x
      BY DEF At, Message
    <2>3. msgs'[q] > 0
      BY <1>3, <1>4, <1>7, <2>1, <2>2
    <2> QED
      BY <2>1, <2>3 DEF Waiting, Present
  <1>8. Adds({}, {})
    BY <1>1, <1>5, <1>6, <1>7 DEF Adds
  <1> QED
    BY <1>1, <1>2, <1>8, SameRecords, StepKeeps DEF TypeOK

LEMMA ReconnectKeeps ==
    ASSUME ConsumerInv, Reconnect, faults' = faults
    PROVE  ConsumerInv'
  <1>1. /\ RecordInv /\ TypeOK /\ connected' \in BOOLEAN
        /\ UNCHANGED << published, streamed, msgs, robbed, audit, delivered, dead, restarts >>
    BY DEF ConsumerInv, RecordInv, Reconnect
  <1>2. Adds({}, {})
    BY <1>1 DEF Adds, From, Waiting, Present, TypeOK
  <1> QED
    BY <1>1, <1>2, SameRecords, StepKeeps DEF TypeOK

LEMMA ConsumerInit == Init => ConsumerInv
  <1> SUFFICES ASSUME Init PROVE ConsumerInv
    OBVIOUS
  <1>1. TypeOK
    BY NotificationAssumption DEF Init, TypeOK
  <1>2. \A m \in Message : ~ Present(m)
    BY DEF Init, Present
  <1>3. \A e \in Events : EventRule(e)
    BY DEF Init, EventRule
  <1>4. NothingVanishes
    BY DEF Init, NothingVanishes
  <1> QED
    BY <1>1, <1>2, <1>3, <1>4 DEF ConsumerInv, RecordInv

LEMMA ConsumerStep == ConsumerInv /\ [Next]_vars => ConsumerInv'
  <1> SUFFICES ASSUME ConsumerInv, [Next]_vars PROVE ConsumerInv'
    OBVIOUS
  <1>1. CASE UNCHANGED vars
    BY <1>1 DEF vars, workVars, ConsumerInv, RecordInv, TypeOK, MessageRule, EventRule,
                NothingVanishes, Waiting, Present, Calm, Without
  <1>2. CASE Next
    <2>1. faults' = faults
      BY <1>2 DEF Next
    <2>2. ASSUME NEW e \in Events, Publish(e) \/ Stream(e) \/ SyncHistory(e) PROVE ConsumerInv'
      BY <2>1, <2>2, PublishKeeps, StreamKeeps, SyncKeeps
    <2>3. ASSUME NEW m \in Message, Handle(m) PROVE ConsumerInv'
      BY <2>1, <2>3, ConsumeKeeps, CheckKeeps, DeliverKeeps, WriteAuditKeeps, GiveUpKeeps DEF Handle
    <2> QED
      BY <1>2, <2>1, <2>2, <2>3, CrashKeeps, DropKeeps, ReconnectKeeps DEF Next
  <1> QED
    BY <1>1, <1>2

LEMMA ConsumerInvariant == Spec => []ConsumerInv
  BY ConsumerInit, ConsumerStep, PTL DEF Spec

(***************************************************************************)
(* A published event is in a queue or with a handler, or is audited, or is *)
(* in the dead letter queue, whatever dies, fails or is republished; unless*)
(* the handler of a lost connection acknowledged its message.              *)
(***************************************************************************)
THEOREM NothingEverVanishes == Spec => []NothingVanishes
  <1>1. ConsumerInv => NothingVanishes
    BY DEF ConsumerInv
  <1> QED
    BY <1>1, ConsumerInvariant, PTL

(***************************************************************************)
(* The audit table and the dead letter queue tell the truth, to the extent *)
(* the property says, about an event however its copies race.              *)
(***************************************************************************)
THEOREM RecordsAlwaysTellTruth == Spec => []RecordsTellTruth
  <1>1. ConsumerInv => RecordsTellTruth
    <2> SUFFICES ASSUME ConsumerInv, NEW e \in Events
                 PROVE  /\ Without({"history"}) => (audit[e] = "SENT" => delivered[e] > 0)
                        /\ Without({"db", "retried"}) => (dead[e] > 0 => delivered[e] = 0)
      BY DEF RecordsTellTruth
    <2>1. EventRule(e)
      BY DEF ConsumerInv, RecordInv
    <2>2. Without({"db", "retried"}) => Calm \/ "delivery" \in faults
      BY DEF Calm, Without
    <2>3. dead[e] = 0 => ~ (dead[e] > 0)
      OBVIOUS
    <2> QED
      BY <2>1, <2>2, <2>3 DEF EventRule
  <1> QED
    BY <1>1, ConsumerInvariant, PTL

-----------------------------------------------------------------------------
(***************************************************************************)
(* Counting.  A bag weighs what the set of its tokens counts: one token    *)
(* for each of the messages of a shape in S, and each element of its       *)
(* share W[m].                                                             *)
(***************************************************************************)
Tokens(bag, S, W) == UNION {{m} \X ((1..bag[m]) \X W[m]) : m \in S}

LEMMA NoMoreThan ==
    ASSUME NEW S, NEW T, IsFiniteSet(T), NEW f \in [S -> T],
           \A x, y \in S : f[x] = f[y] => x = y
    PROVE  /\ IsFiniteSet(S) /\ Cardinality(S) \in Nat /\ Cardinality(T) \in Nat
           /\ Cardinality(S) <= Cardinality(T)
  <1>1. f \in Injection(S, T)
    BY DEF Injection, IsInjective
  <1> QED
    BY <1>1, FS_Injection, FS_CardinalityType

\* A token is a message of the bag, its number among its like, and a share.
LEMMA TokenIs ==
    ASSUME NEW bag, NEW S, NEW W
    PROVE  \A t : t \in Tokens(bag, S, W) <=>
              \E m, i, w : m \in S /\ i \in 1..bag[m] /\ w \in W[m] /\ t = <<m, <<i, w>>>>
  <1>1. \A t : t \in Tokens(bag, S, W) <=> \E m \in S : t \in {m} \X ((1..bag[m]) \X W[m])
    BY Zenon DEF Tokens
  <1>2. ASSUME NEW t, NEW m \in S, t \in {m} \X ((1..bag[m]) \X W[m])
        PROVE  \E i, w : i \in 1..bag[m] /\ w \in W[m] /\ t = <<m, <<i, w>>>>
    <2>1. PICK p \in (1..bag[m]) \X W[m] : t = <<m, p>>
      BY <1>2
    <2>2. PICK i \in 1..bag[m], w \in W[m] : p = <<i, w>>
      BY <2>1
    <2> QED
      BY <2>1, <2>2
  <1>3. ASSUME NEW m \in S, NEW i \in 1..bag[m], NEW w \in W[m]
        PROVE  <<m, <<i, w>>>> \in {m} \X ((1..bag[m]) \X W[m])
    BY <1>3
  <1>4. ASSUME NEW t, t \in Tokens(bag, S, W)
        PROVE  \E m, i, w : m \in S /\ i \in 1..bag[m] /\ w \in W[m] /\ t = <<m, <<i, w>>>>
    <2>1. PICK m \in S : t \in {m} \X ((1..bag[m]) \X W[m])
      BY <1>1, <1>4
    <2>2. \E i, w : i \in 1..bag[m] /\ w \in W[m] /\ t = <<m, <<i, w>>>>
      BY <1>2, <2>1
    <2> QED
      BY <2>2
  <1>5. ASSUME NEW t, NEW m \in S, NEW i \in 1..bag[m], NEW w \in W[m], t = <<m, <<i, w>>>>
        PROVE  t \in Tokens(bag, S, W)
    <2>1. t \in {m} \X ((1..bag[m]) \X W[m])
      BY <1>3, <1>5
    <2> QED
      BY <1>1, <2>1
  <1> QED
    BY <1>4, <1>5

\* One message more weighs its share more.
LEMMA TokenPut ==
    ASSUME NEW bag \in [Message -> Nat], NEW S \in SUBSET Message, NEW m \in Message,
           NEW W, IsFiniteSet(W[m]), IsFiniteSet(Tokens(bag, S, W)),
           NEW b2 \in [Message -> Nat], b2[m] = bag[m] + 1,
           \A x \in Message : x # m => b2[x] = bag[x]
    PROVE  /\ IsFiniteSet(Tokens(b2, S, W))
           /\ Cardinality(Tokens(bag, S, W)) \in Nat /\ Cardinality(W[m]) \in Nat
           /\ m \in S => Cardinality(Tokens(b2, S, W)) = Cardinality(Tokens(bag, S, W)) + Cardinality(W[m])
           /\ m \notin S => Tokens(b2, S, W) = Tokens(bag, S, W)
  <1> DEFINE T == Tokens(bag, S, W)
             n == bag[m] + 1
             X == {m} \X ({n} \X W[m])
  <1>1. Cardinality(T) \in Nat /\ Cardinality(W[m]) \in Nat
    BY FS_CardinalityType
  <1>2. CASE m \notin S
    <2>1. \A x \in S : b2[x] = bag[x]
      BY <1>2
    <2>2. Tokens(b2, S, W) = T
      BY <2>1 DEF Tokens
    <2> QED
      BY <1>1, <1>2, <2>2
  <1>3. CASE m \in S
    <2>1. \A x \in S : b2[x] = IF x = m THEN n ELSE bag[x]
      OBVIOUS
    <2>2. n \in Nat /\ 1..n = (1..bag[m]) \cup {n} /\ n \notin 1..bag[m]
      OBVIOUS
    <2> HIDE DEF n
    <2>3. IsFiniteSet(X) /\ Cardinality(X) = Cardinality(W[m])
      <3>1. IsFiniteSet({m}) /\ Cardinality({m}) = 1 /\ IsFiniteSet({n}) /\ Cardinality({n}) = 1
        BY FS_Singleton
      <3>2. IsFiniteSet({n} \X W[m]) /\ Cardinality({n} \X W[m]) = 1 * Cardinality(W[m])
        BY <3>1, FS_Product
      <3> DEFINE Y == {n} \X W[m]
      <3>3. IsFiniteSet(Y) /\ Cardinality(Y) = Cardinality(W[m])
        BY <1>1, <3>2
      <3> HIDE DEF Y
      <3>4. IsFiniteSet({m} \X Y) /\ Cardinality({m} \X Y) = 1 * Cardinality(Y)
        BY <3>1, <3>3, FS_Product
      <3>5. Cardinality({m} \X Y) = Cardinality(W[m])
        BY <1>1, <3>3, <3>4
      <3> QED
        BY <3>4, <3>5 DEF Y
    <2>4. ASSUME NEW t \in Tokens(b2, S, W) PROVE t \in T \cup X
      <3>1. PICK x, i, w : x \in S /\ i \in 1..b2[x] /\ w \in W[x] /\ t = <<x, <<i, w>>>>
        BY <2>4, TokenIs
      <3>2. CASE x = m
        BY <1>3, <2>1, <2>2, <3>1, <3>2, TokenIs
      <3>3. CASE x # m
        BY <2>1, <3>1, <3>3, TokenIs
      <3> QED
        BY <3>2, <3>3
    <2>5. ASSUME NEW t \in T PROVE t \in Tokens(b2, S, W)
      <3>1. PICK x, i, w : x \in S /\ i \in 1..bag[x] /\ w \in W[x] /\ t = <<x, <<i, w>>>>
        BY TokenIs
      <3>2. i \in 1..b2[x]
        BY <2>1, <2>2, <3>1
      <3> QED
        BY <3>1, <3>2, TokenIs
    <2>6. ASSUME NEW t \in X PROVE t \in Tokens(b2, S, W)
      <3>1. PICK w \in W[m] : t = <<m, <<n, w>>>>
        OBVIOUS
      <3>2. n \in 1..b2[m]
        BY <1>3, <2>1, <2>2
      <3> QED
        BY <1>3, <3>1, <3>2, TokenIs
    <2>7. T \cap X = {}
      <3> SUFFICES ASSUME NEW t \in T, t \in X PROVE FALSE
        OBVIOUS
      <3>1. PICK x, i, w : x \in S /\ i \in 1..bag[x] /\ w \in W[x] /\ t = <<x, <<i, w>>>>
        BY TokenIs
      <3>2. x = m /\ i = n
        BY <3>1
      <3> QED
        BY <2>2, <3>1, <3>2
    <2>8. Tokens(b2, S, W) = T \cup X
      BY <2>4, <2>5, <2>6
    <2> HIDE DEF T, X
    <2>9. IsFiniteSet(T \cup X) /\ Cardinality(T \cup X) = Cardinality(T) + Cardinality(X) - Cardinality(T \cap X)
      BY <2>3, FS_Union DEF T
    <2>10. Cardinality(T \cap X) = 0
      BY <2>7, FS_EmptySet
    <2>11. Cardinality(T \cup X) = Cardinality(T) + Cardinality(W[m])
      BY <1>1, <2>3, <2>9, <2>10
    <2> QED
      BY <1>1, <1>3, <2>8, <2>9, <2>11 DEF T
  <1> QED
    BY <1>2, <1>3

\* A smaller bag, and fewer shapes, weigh no more.
LEMMA TokensFewer ==
    ASSUME NEW bag \in [Message -> Nat], NEW b2 \in [Message -> Nat],
           \A x \in Message : b2[x] <= bag[x],
           NEW S \in SUBSET Message, NEW R \in SUBSET S, NEW W, IsFiniteSet(Tokens(bag, S, W))
    PROVE  /\ IsFiniteSet(Tokens(b2, R, W))
           /\ Cardinality(Tokens(b2, R, W)) <= Cardinality(Tokens(bag, S, W))
  <1>1. ASSUME NEW t \in Tokens(b2, R, W) PROVE t \in Tokens(bag, S, W)
    <2>1. PICK x, i, w : x \in R /\ i \in 1..b2[x] /\ w \in W[x] /\ t = <<x, <<i, w>>>>
      BY TokenIs
    <2>2. i \in 1..bag[x]
      <3>1. b2[x] \in Nat /\ bag[x] \in Nat /\ b2[x] <= bag[x]
        BY <2>1
      <3> QED
        BY <2>1, <3>1
    <2> QED
      BY <2>1, <2>2, TokenIs
  <1> QED
    BY <1>1, FS_Subset

\* One message less weighs its share less.
LEMMA TokenTake ==
    ASSUME NEW bag \in [Message -> Nat], NEW S \in SUBSET Message, NEW m \in Message, bag[m] > 0,
           NEW W, IsFiniteSet(W[m]), IsFiniteSet(Tokens(bag, S, W))
    PROVE  /\ Less(bag, m) \in [Message -> Nat]
           /\ IsFiniteSet(Tokens(Less(bag, m), S, W))
           /\ Cardinality(Tokens(bag, S, W)) \in Nat /\ Cardinality(Tokens(Less(bag, m), S, W)) \in Nat
           /\ Cardinality(W[m]) \in Nat
           /\ m \in S => Cardinality(Tokens(bag, S, W)) = Cardinality(Tokens(Less(bag, m), S, W)) + Cardinality(W[m])
           /\ m \notin S => Tokens(Less(bag, m), S, W) = Tokens(bag, S, W)
  <1> DEFINE b2 == Less(bag, m)
  <1>1. /\ b2 \in [Message -> Nat] /\ \A x \in Message : b2[x] <= bag[x]
        /\ bag[m] = b2[m] + 1 /\ \A x \in Message : x # m => bag[x] = b2[x]
    BY DEF Less
  <1> HIDE DEF b2
  <1>2. IsFiniteSet(Tokens(b2, S, W))
    BY <1>1, TokensFewer
  <1>3. Cardinality(Tokens(bag, S, W)) \in Nat /\ Cardinality(Tokens(b2, S, W)) \in Nat
    BY <1>2, FS_CardinalityType
  <1>4. /\ Cardinality(W[m]) \in Nat
        /\ m \in S => Cardinality(Tokens(bag, S, W)) = Cardinality(Tokens(b2, S, W)) + Cardinality(W[m])
        /\ m \notin S => Tokens(b2, S, W) = Tokens(bag, S, W)
    <2> DEFINE T == Tokens(bag, S, W)
               T2 == Tokens(b2, S, W)
    <2>1. /\ Cardinality(W[m]) \in Nat
          /\ m \in S => Cardinality(T) = Cardinality(T2) + Cardinality(W[m])
          /\ m \notin S => T = T2
      BY <1>1, <1>2, TokenPut
    <2> QED
      BY <2>1
  <1> QED
    BY <1>1, <1>2, <1>3, <1>4 DEF b2

\* A message published to every queue weighs a share for each.
LEMMA TokensRouted ==
    ASSUME TypeOK, NEW e \in Events, NEW r \in 0..MaxRetries,
           NEW S \in SUBSET Message, NEW W, NEW V, IsFiniteSet(V),
           \A x \in CopiesOf(e, r) : x \in S => W[x] \subseteq V,
           IsFiniteSet(Tokens(msgs, S, W))
    PROVE  LET b2 == Routed(msgs, e, r)
               T == Tokens(msgs, S, W)
               T2 == Tokens(b2, S, W)
           IN  /\ b2 \in [Message -> Nat] /\ IsFiniteSet(T2)
               /\ Cardinality(T) \in Nat /\ Cardinality(T2) \in Nat /\ Cardinality(V) \in Nat
               /\ Cardinality(Queues) \in Nat
               /\ Cardinality(T2) <= Cardinality(T) + Cardinality(Queues) * Cardinality(V)
  <1> DEFINE b2 == Routed(msgs, e, r)
             T == Tokens(msgs, S, W)
             T2 == Tokens(b2, S, W)
             X == T2 \ T
             QV == Queues \X V
             f == [t \in X |-> <<t[1].queue, t[2][2]>>]
  <1>1. msgs \in [Message -> Nat]
    BY DEF TypeOK
  <1>2. b2 \in [Message -> Nat]
    BY RoutedAdds DEF With
  <1>3. ASSUME NEW x \in Message
        PROVE  b2[x] = msgs[x] + IF /\ x.event = e /\ x.retry = r /\ x.queue \in Queues
                                    /\ x.stage = "queued" /\ x.unacked
                                 THEN 1 ELSE 0
    BY DEF Routed
  <1> HIDE DEF b2
  <1>4. ASSUME NEW t \in X
        PROVE  \E q \in Queues, w \in V :
                  t = <<Copy(e, q, r), <<msgs[Copy(e, q, r)] + 1, w>>>> /\ f[t] = <<q, w>>
    <2>1. PICK x, i, w : x \in S /\ i \in 1..b2[x] /\ w \in W[x] /\ t = <<x, <<i, w>>>>
      BY TokenIs
    <2>2. i \notin 1..msgs[x]
      BY <2>1, TokenIs
    <2>3. x \in Message /\ msgs[x] \in Nat
      BY <1>1, <2>1
    <2>4. /\ x.event = e /\ x.retry = r /\ x.queue \in Queues /\ x.stage = "queued" /\ x.unacked
          /\ b2[x] = msgs[x] + 1
      <3>1. b2[x] # msgs[x]
        BY <2>1, <2>2
      <3>2. CASE /\ x.event = e /\ x.retry = r /\ x.queue \in Queues
                 /\ x.stage = "queued" /\ x.unacked
        BY <1>3, <2>3, <3>2
      <3>3. CASE ~ (/\ x.event = e /\ x.retry = r /\ x.queue \in Queues
                    /\ x.stage = "queued" /\ x.unacked)
        BY <1>3, <2>3, <3>1, <3>3
      <3> QED
        BY <3>2, <3>3
    <2>5. i = msgs[x] + 1
      BY <2>1, <2>2, <2>3, <2>4
    <2>6. x = Copy(e, x.queue, r)
      <3>1. x = [event |-> x.event, queue |-> x.queue, retry |-> x.retry, stage |-> x.stage,
                 unacked |-> x.unacked] /\ x.unacked \in BOOLEAN
        BY <2>3, Zenon DEF Message
      <3>2. x.unacked = TRUE
        BY <2>4, <3>1
      <3> QED
        BY <2>4, <3>1, <3>2, Zenon DEF Copy
    <2>7. w \in V
      BY <2>1, <2>4, <2>6 DEF CopiesOf
    <2>8. f[t] = <<x.queue, w>>
      BY <2>1
    <2> QED
      BY <2>1, <2>4, <2>5, <2>6, <2>7, <2>8
  <1>5. IsFiniteSet(QV) /\ Cardinality(QV) = Cardinality(Queues) * Cardinality(V)
    BY NotificationAssumption, FS_Product
  <1> HIDE DEF T, T2, X, QV
  <1>6. f \in [X -> QV]
    <2>1. \A t \in X : f[t] \in QV
      BY <1>4 DEF QV
    <2> QED
      BY <2>1
  <1>7. ASSUME NEW t \in X, NEW u \in X, f[t] = f[u] PROVE t = u
    <2> HIDE DEF f
    <2>1. PICK q \in Queues, w \in V : t = <<Copy(e, q, r), <<msgs[Copy(e, q, r)] + 1, w>>>> /\ f[t] = <<q, w>>
      BY <1>4
    <2>2. PICK p \in Queues, v \in V : u = <<Copy(e, p, r), <<msgs[Copy(e, p, r)] + 1, v>>>> /\ f[u] = <<p, v>>
      BY <1>4
    <2>3. p = q /\ v = w
      BY <1>7, <2>1, <2>2
    <2> QED
      BY <2>1, <2>2, <2>3
  <1> HIDE DEF f
  <1>8. IsFiniteSet(X) /\ Cardinality(X) \in Nat /\ Cardinality(X) <= Cardinality(QV)
    BY <1>5, <1>6, <1>7, NoMoreThan
  <1>9. IsFiniteSet(T) /\ Cardinality(T) \in Nat
    BY FS_CardinalityType DEF T
  <1>10. IsFiniteSet(T2) /\ Cardinality(T2) <= Cardinality(T) + Cardinality(X)
    <2>1. T2 \subseteq T \cup X
      BY DEF X
    <2>2. IsFiniteSet(T \cup X) /\ Cardinality(T \cup X) = Cardinality(T) + Cardinality(X) - Cardinality(T \cap X)
      BY <1>8, <1>9, FS_Union
    <2>3. Cardinality(T \cap X) \in Nat
      BY <1>9, FS_Intersection, FS_CardinalityType
    <2>4. IsFiniteSet(T2) /\ Cardinality(T2) <= Cardinality(T \cup X)
      BY <2>1, <2>2, FS_Subset
    <2>5. Cardinality(T2) \in Nat /\ Cardinality(T \cup X) \in Nat
      BY <2>2, <2>4, FS_CardinalityType
    <2> QED
      BY <1>8, <1>9, <2>2, <2>3, <2>4, <2>5
  <1>11. Cardinality(T2) \in Nat /\ Cardinality(V) \in Nat /\ Cardinality(Queues) \in Nat
         /\ Cardinality(QV) \in Nat
    BY <1>5, <1>10, NotificationAssumption, FS_CardinalityType
  <1>12. Cardinality(T2) <= Cardinality(T) + Cardinality(QV)
    BY <1>8, <1>9, <1>10, <1>11
  <1> QED
    BY <1>2, <1>5, <1>9, <1>10, <1>11, <1>12 DEF b2, T, T2

-----------------------------------------------------------------------------
(* Ways from queue to queue. *)
WaysFrom(i) == [i..MaxRetries -> Queues]

LEMMA WaysFinite ==
    ASSUME NEW i \in Nat
    PROVE  /\ IsFiniteSet(WaysFrom(i)) /\ Cardinality(WaysFrom(i)) \in Nat
           /\ Cardinality(WaysFrom(i)) >= 1
  <1> DEFINE D == i..MaxRetries
             P == SUBSET (D \X Queues)
             g == [w \in WaysFrom(i) |-> {<<k, w[k]>> : k \in D}]
  <1>1. IsFiniteSet(P)
    <2>1. IsFiniteSet(D)
      BY NotificationAssumption, FS_Interval
    <2> HIDE DEF D
    <2>2. IsFiniteSet(D \X Queues)
      BY <2>1, NotificationAssumption, FS_Product
    <2> QED
      BY <2>2, FS_SUBSET
  <1>2. g \in [WaysFrom(i) -> P]
    <2>1. ASSUME NEW w \in WaysFrom(i) PROVE {<<k, w[k]>> : k \in D} \in P
      <3>1. \A k \in D : w[k] \in Queues
        BY DEF WaysFrom
      <3> HIDE DEF D
      <3>2. {<<k, w[k]>> : k \in D} \subseteq D \X Queues
        BY <3>1
      <3> QED
        BY <3>2
    <2> HIDE DEF P
    <2> QED
      BY <2>1
  <1>3. ASSUME NEW v \in WaysFrom(i), NEW w \in WaysFrom(i), g[v] = g[w] PROVE v = w
    <2>1. ASSUME NEW k \in D PROVE v[k] = w[k]
      <3>1. <<k, v[k]>> \in g[v]
        OBVIOUS
      <3>2. <<k, v[k]>> \in {<<j, w[j]>> : j \in D}
        BY <1>3, <3>1
      <3> QED
        BY <3>2
    <2>2. v \in [D -> Queues] /\ w \in [D -> Queues]
      BY DEF WaysFrom
    <2> HIDE DEF D, g
    <2> QED
      BY <2>1, <2>2
  <1> HIDE DEF g, P
  <1>4. IsFiniteSet(WaysFrom(i)) /\ Cardinality(WaysFrom(i)) \in Nat
    BY <1>1, <1>2, <1>3, NoMoreThan
  <1>5. WaysFrom(i) # {}
    <2>1. PICK q \in Queues : TRUE
      BY NotificationAssumption
    <2>2. [k \in D |-> q] \in WaysFrom(i)
      BY DEF WaysFrom
    <2> QED
      BY <2>2
  <1>6. Cardinality(WaysFrom(i)) # 0
    BY <1>4, <1>5, FS_EmptySet
  <1> QED
    BY <1>4, <1>6

\* A queue for tries i to j, and a way from there, are a way from i.
LEMMA WaysSplit ==
    ASSUME NEW i \in Nat, NEW j \in Nat, i <= j, j <= MaxRetries
    PROVE  /\ Cardinality(Queues) \in Nat
           /\ Cardinality(Queues) * Cardinality(WaysFrom(j + 1)) <= Cardinality(WaysFrom(i))
  <1> DEFINE P == Queues \X WaysFrom(j + 1)
             g == [x \in P |-> [k \in i..MaxRetries |-> IF k <= j THEN x[1] ELSE x[2][k]]]
  <1>1. IsFiniteSet(P) /\ Cardinality(P) = Cardinality(Queues) * Cardinality(WaysFrom(j + 1))
    BY NotificationAssumption, WaysFinite, FS_Product
  <1>2. ASSUME NEW x \in P PROVE g[x] \in WaysFrom(i)
    <2>1. x[1] \in Queues /\ x[2] \in [j + 1..MaxRetries -> Queues]
      BY DEF WaysFrom
    <2>2. ASSUME NEW k \in i..MaxRetries PROVE (IF k <= j THEN x[1] ELSE x[2][k]) \in Queues
      <3>1. ~ (k <= j) => k \in j + 1..MaxRetries
        OBVIOUS
      <3> QED
        BY <2>1, <3>1
    <2> QED
      BY <2>2 DEF WaysFrom
  <1>3. ASSUME NEW x \in P, NEW y \in P, g[x] = g[y] PROVE x = y
    <2>1. /\ x[1] \in Queues /\ x[2] \in [j + 1..MaxRetries -> Queues] /\ x = <<x[1], x[2]>>
          /\ y[1] \in Queues /\ y[2] \in [j + 1..MaxRetries -> Queues] /\ y = <<y[1], y[2]>>
      BY DEF WaysFrom
    <2>2. \A k \in i..MaxRetries : (IF k <= j THEN x[1] ELSE x[2][k]) = (IF k <= j THEN y[1] ELSE y[2][k])
      <3> TAKE k \in i..MaxRetries
      <3>1. g[x][k] = g[y][k]
        BY <1>3
      <3> QED
        BY <3>1
    <2>3. x[1] = y[1]
      <3>1. j \in i..MaxRetries
        BY NotificationAssumption
      <3> QED
        BY <2>2, <3>1
    <2>4. ASSUME NEW k \in j + 1..MaxRetries PROVE x[2][k] = y[2][k]
      <3>1. k \in i..MaxRetries /\ ~ (k <= j)
        OBVIOUS
      <3> QED
        BY <2>2, <3>1
    <2>5. x[2] = y[2]
      <3> DEFINE K == j + 1..MaxRetries
      <3>1. x[2] \in [K -> Queues] /\ y[2] \in [K -> Queues] /\ \A k \in K : x[2][k] = y[2][k]
        BY <2>1, <2>4
      <3> HIDE DEF K, g
      <3> QED
        BY <3>1
    <2> QED
      BY <2>1, <2>3, <2>5, Zenon
  <1> HIDE DEF P
  <1>4. g \in [P -> WaysFrom(i)]
    BY <1>2
  <1> HIDE DEF g
  <1>5. Cardinality(P) <= Cardinality(WaysFrom(i))
    <2>1. P # {} => IsFiniteSet(WaysFrom(i))
      BY WaysFinite
    <2>2. IsFiniteSet(WaysFrom(i))
      BY WaysFinite
    <2> QED
      BY <1>3, <1>4, <2>2, NoMoreThan
  <1> QED
    BY <1>1, <1>5, NotificationAssumption, FS_CardinalityType
-----------------------------------------------------------------------------
(* What a handler does to the weight of the messages.                      *)

Moved(bag, m, stage) == [Less(bag, m) EXCEPT ![At(m, stage)] = @ + 1]

\* A handler that goes on weighs the same, or no more than nothing.
LEMMA TokenMove ==
    ASSUME NEW bag \in [Message -> Nat], NEW S \in SUBSET Message, NEW m \in Message, bag[m] > 0,
           NEW stage \in Stages, stage # m.stage, At(m, stage) \in S => m \in S,
           NEW W, IsFiniteSet(W[m]), W[At(m, stage)] = W[m], IsFiniteSet(Tokens(bag, S, W))
    PROVE  /\ Moved(bag, m, stage) \in [Message -> Nat]
           /\ IsFiniteSet(Tokens(Moved(bag, m, stage), S, W))
           /\ Cardinality(Tokens(bag, S, W)) \in Nat
           /\ Cardinality(Tokens(Moved(bag, m, stage), S, W)) \in Nat
           /\ Cardinality(W[m]) \in Nat
           /\ Cardinality(Tokens(Moved(bag, m, stage), S, W)) <= Cardinality(Tokens(bag, S, W))
           /\ m \in S /\ At(m, stage) \notin S =>
                 Cardinality(Tokens(Moved(bag, m, stage), S, W)) + Cardinality(W[m])
                 = Cardinality(Tokens(bag, S, W))
  <1> DEFINE b1 == Less(bag, m)
             b2 == Moved(bag, m, stage)
             a == At(m, stage)
             c == Cardinality(Tokens(bag, S, W))
             c1 == Cardinality(Tokens(b1, S, W))
             c2 == Cardinality(Tokens(b2, S, W))
             w == Cardinality(W[m])
  <1>1. /\ b1 \in [Message -> Nat] /\ IsFiniteSet(Tokens(b1, S, W))
        /\ c \in Nat /\ c1 \in Nat /\ w \in Nat
        /\ m \in S => c = c1 + w
        /\ m \notin S => c = c1
    BY TokenTake
  <1>2. a \in Message /\ IsFiniteSet(W[a]) /\ Cardinality(W[a]) = w
    BY AtMessage
  <1>3. /\ b2 \in [Message -> Nat] /\ b2[a] = b1[a] + 1
        /\ \A x \in Message : x # a => b2[x] = b1[x]
    <2>1. b2 = [b1 EXCEPT ![a] = b1[a] + 1]
      BY DEF Moved
    <2> HIDE DEF b1, b2, a
    <2> QED
      BY <1>1, <1>2, <2>1
  <1> HIDE DEF b1, b2, a
  <1>4. /\ IsFiniteSet(Tokens(b2, S, W))
        /\ a \in S => c2 = c1 + Cardinality(W[a])
        /\ a \notin S => Tokens(b2, S, W) = Tokens(b1, S, W)
    BY <1>1, <1>2, <1>3, TokenPut
  <1>5. c2 \in Nat
    BY <1>4, FS_CardinalityType
  <1>6. a \notin S => c2 = c1
    BY <1>4
  <1>7. a \in S => m \in S
    BY DEF a
  <1> HIDE DEF c, c1, c2, w
  <1>8. c2 <= c /\ (m \in S /\ a \notin S => c2 + w = c)
    BY <1>1, <1>2, <1>4, <1>5, <1>6, <1>7
  <1> QED
    BY <1>1, <1>3, <1>4, <1>5, <1>8 DEF c, c1, c2, w, a, b2

\* A handler that publishes its message again.
LEMMA TokenRetry ==
    ASSUME TypeOK, NEW m \in Message, Present(m), m.retry + 1 <= MaxRetries,
           NEW S \in SUBSET Message, NEW W, NEW V, IsFiniteSet(V), IsFiniteSet(W[m]),
           \A x \in CopiesOf(m.event, m.retry + 1) : x \in S => W[x] \subseteq V,
           IsFiniteSet(Tokens(msgs, S, W))
    PROVE  /\ Less(Retry(m), m) \in [Message -> Nat]
           /\ IsFiniteSet(Tokens(Less(Retry(m), m), S, W))
           /\ Cardinality(Tokens(msgs, S, W)) \in Nat
           /\ Cardinality(Tokens(Less(Retry(m), m), S, W)) \in Nat
           /\ Cardinality(W[m]) \in Nat /\ Cardinality(V) \in Nat /\ Cardinality(Queues) \in Nat
           /\ Cardinality(Tokens(Less(Retry(m), m), S, W)) + (IF m \in S THEN Cardinality(W[m]) ELSE 0)
              <= Cardinality(Tokens(msgs, S, W)) + Cardinality(Queues) * Cardinality(V)
  <1> DEFINE b == Retry(m)
             b2 == Less(b, m)
             c == Cardinality(Tokens(msgs, S, W))
             c1 == Cardinality(Tokens(b, S, W))
             c2 == Cardinality(Tokens(b2, S, W))
             w == Cardinality(W[m])
             p == Cardinality(Queues) * Cardinality(V)
  <1>1. m.event \in Events /\ m.retry + 1 \in 0..MaxRetries
    BY NotificationAssumption DEF Message
  <1>2. /\ b \in [Message -> Nat] /\ IsFiniteSet(Tokens(b, S, W))
        /\ c \in Nat /\ c1 \in Nat /\ Cardinality(V) \in Nat /\ Cardinality(Queues) \in Nat
        /\ c1 <= c + p
    BY <1>1, TokensRouted DEF Retry
  <1>3. b[m] > 0
    BY <1>1, RoutedAdds DEF With, Retry, Present
  <1> HIDE DEF b
  <1>4. /\ b2 \in [Message -> Nat] /\ IsFiniteSet(Tokens(b2, S, W)) /\ c2 \in Nat /\ w \in Nat
        /\ m \in S => c1 = c2 + w
        /\ m \notin S => Tokens(b2, S, W) = Tokens(b, S, W)
    BY <1>2, <1>3, TokenTake
  <1>5. p \in Nat /\ (m \notin S => c2 = c1)
    BY <1>2, <1>4
  <1> HIDE DEF b2, c, c1, c2, w, p
  <1>6. c2 + (IF m \in S THEN w ELSE 0) <= c + p
    BY <1>2, <1>4, <1>5
  <1> QED
    BY <1>2, <1>4, <1>6 DEF b, b2, c, c1, c2, w, p

-----------------------------------------------------------------------------
(* While nothing dies.                                                     *)

Unbroken == Without({"crash", "drop"})

\* Deliveries succeed or are known to have failed, and are repeated by copies only.
Answered == Without({"db"}) /\ "delivery" \notin faults

\* The messages that may still be dead-lettered, and the ways they can take.
Falling(e) == {m \in Message : m.event = e /\ m.queue \in Queues /\ m.stage # "giveUp"}

WaysLeft == [m \in Message |-> WaysFrom(m.retry + 1)]

\* The messages that may still be delivered, each of them once.
Hopes(m, e, row) ==
    m.event = e /\ (m.stage = "deliver" \/ (m.stage \in {"queued", "check"} /\ row = "NONE"))

Hoping(e, row) == {m \in Message : Hopes(m, e, row)}

Once == [m \in Message |-> {0}]

FallBound(e) ==
    LET weight == Tokens(msgs, Falling(e), WaysLeft)
    IN  /\ IsFiniteSet(weight)
        /\ dead[e] + Cardinality(weight) <= published[e] * Cardinality(Ways)

HopeBound(e) ==
    LET weight == Tokens(msgs, Hoping(e, audit[e]), Once)
    IN  /\ IsFiniteSet(weight)
        /\ delivered[e] + Cardinality(weight)
           <= published[e] * Cardinality(Queues) + IF e \in streamed THEN 1 ELSE 0

\* A handler of a queue's message can acknowledge it.
LineRule == connected /\ \A m \in Message : Present(m) /\ m.queue # Live => m.unacked

(* Every message that falls leaves room for the ways it has left, and      *)
(* every one that hopes for one delivery.                                  *)
LineInv ==
    Unbroken => /\ LineRule
                /\ \A e \in Events : FallBound(e) /\ (Answered => HopeBound(e))

LEMMA Shares ==
    ASSUME NEW m \in Message
    PROVE  /\ WaysLeft[m] = WaysFrom(m.retry + 1) /\ IsFiniteSet(WaysLeft[m])
           /\ Cardinality(WaysLeft[m]) \in Nat /\ Cardinality(WaysLeft[m]) >= 1
           /\ Once[m] = {0} /\ IsFiniteSet(Once[m]) /\ Cardinality(Once[m]) = 1
           /\ m.retry \in Nat /\ m.retry <= MaxRetries
           /\ \A stage \in Stages : WaysLeft[At(m, stage)] = WaysLeft[m] /\ Once[At(m, stage)] = Once[m]
  <1>1. m.retry \in Nat /\ m.retry <= MaxRetries /\ m.retry + 1 \in Nat
    BY NotificationAssumption DEF Message
  <1>2. WaysLeft[m] = WaysFrom(m.retry + 1) /\ Once[m] = {0}
    BY DEF WaysLeft, Once
  <1>3. /\ IsFiniteSet(WaysLeft[m]) /\ Cardinality(WaysLeft[m]) \in Nat
        /\ Cardinality(WaysLeft[m]) >= 1
    BY <1>1, <1>2, WaysFinite
  <1>4. IsFiniteSet(Once[m]) /\ Cardinality(Once[m]) = 1
    BY <1>2, FS_Singleton
  <1>5. ASSUME NEW stage \in Stages
        PROVE  WaysLeft[At(m, stage)] = WaysLeft[m] /\ Once[At(m, stage)] = Once[m]
    <2>1. At(m, stage) \in Message /\ At(m, stage).retry = m.retry
      BY AtMessage
    <2> QED
      BY <2>1 DEF WaysLeft, Once
  <1> QED
    BY <1>1, <1>2, <1>3, <1>4, <1>5

\* What is needed of the assumptions on the counts.
LEMMA Sizes ==
    ASSUME TypeOK
    PROVE  /\ Cardinality(Queues) \in Nat /\ Cardinality(Ways) \in Nat /\ Ways = WaysFrom(0)
           /\ published \in [Events -> Nat] /\ delivered \in [Events -> Nat] /\ dead \in [Events -> Nat]
           /\ msgs \in [Message -> Nat]
  <1>1. Ways = WaysFrom(0) /\ Cardinality(WaysFrom(0)) \in Nat
    BY WaysFinite DEF Ways, WaysFrom
  <1>2. published \in [Events -> Nat]
    BY NotificationAssumption DEF TypeOK
  <1> QED
    BY <1>1, <1>2, NotificationAssumption, FS_CardinalityType DEF TypeOK

LEMMA FallingMessages ==
    ASSUME NEW e \in Events
    PROVE  /\ Falling(e) \in SUBSET Message
           /\ \A m \in Message : m \in Falling(e) <=> m.event = e /\ m.queue \in Queues /\ m.stage # "giveUp"
  BY DEF Falling

LEMMA HopingMessages ==
    ASSUME NEW e \in Events, NEW row
    PROVE  /\ Hoping(e, row) \in SUBSET Message
           /\ \A m \in Message : m \in Hoping(e, row) <=>
                 m.event = e /\ (m.stage = "deliver" \/ (m.stage \in {"queued", "check"} /\ row = "NONE"))
  <1>1. Hoping(e, row) \in SUBSET Message /\ \A m \in Message : m \in Hoping(e, row) <=> Hopes(m, e, row)
    BY DEF Hoping
  <1> QED
    BY <1>1 DEF Hopes

(* The ways a handler of message m ends or goes on.                        *)
Ends(m) == msgs' = Less(msgs, m) /\ dead' = dead

GoesOn(m, stage) == msgs' = Moved(msgs, m, stage) /\ dead' = dead

Retries(m) ==
    /\ m.queue \in Queues /\ m.stage # "giveUp" /\ m.retry + 1 <= MaxRetries
    /\ msgs' = Less(Retry(m), m) /\ dead' = dead

GivesUp(m) ==
    /\ m.queue \in Queues /\ m.stage \in {"check", "deliver", "audit"}
    /\ msgs' = Moved(msgs, m, "giveUp")
    /\ dead' = [dead EXCEPT ![m.event] = @ + 1]

LEMMA AcknowledgeLine ==
    ASSUME LineRule, NEW m \in Message, Present(m), NEW bag, Acknowledge(m, bag)
    PROVE  msgs' = Less(bag, m)
  BY DEF LineRule, Acknowledge

LEMMA FailureLine ==
    ASSUME LineRule, NEW m \in Message, Present(m), m.stage \in {"check", "deliver", "audit"}, Failure(m)
    PROVE  Ends(m) \/ Retries(m) \/ GivesUp(m)
  <1>1. m.queue \in Queues \cup {Live} /\ connected /\ m.retry \in Nat /\ m.retry <= MaxRetries
    BY Shares DEF LineRule, Message
  <1>2. CASE m.queue = Live /\ Acknowledge(m, msgs) /\ dead' = dead
    BY <1>2, AcknowledgeLine DEF Ends
  <1>3. CASE m.queue # Live /\ ~Exhausted(m) /\ Acknowledge(m, Retry(m)) /\ dead' = dead
    <2>1. msgs' = Less(Retry(m), m)
      BY <1>3, AcknowledgeLine
    <2>2. m.retry + 1 <= MaxRetries
      BY <1>1, <1>3, NotificationAssumption DEF Exhausted
    <2> QED
      BY <1>1, <1>3, <2>1, <2>2 DEF Retries
  <1>4. CASE /\ m.queue # Live /\ Become(m, "giveUp")
             /\ dead' = [dead EXCEPT ![m.event] = @ + 1]
    BY <1>1, <1>4 DEF GivesUp, Become, Moved
  <1> QED
    BY <1>1, <1>2, <1>3, <1>4 DEF Failure

(* The weight of what falls, after any of these.                           *)
LEMMA FallStep ==
    ASSUME TypeOK, NEW m \in Message, Present(m), NEW e \in Events, FallBound(e), published' = published,
           \/ Ends(m) \/ Retries(m) \/ GivesUp(m)
           \/ \E stage \in {"check", "deliver", "audit"} : GoesOn(m, stage) /\ m.stage \notin {stage, "giveUp"}
    PROVE  FallBound(e)'
  <1> DEFINE S == Falling(e)
             c == Cardinality(Tokens(msgs, S, WaysLeft))
             T2(b) == Tokens(b, S, WaysLeft)
             w == Cardinality(WaysLeft[m])
             bound == published[e] * Cardinality(Ways)
  <1>1. /\ msgs \in [Message -> Nat] /\ dead \in [Events -> Nat] /\ bound \in Nat
        /\ msgs[m] > 0 /\ m.event \in Events
    BY Sizes DEF Present, Message
  <1>2. IsFiniteSet(Tokens(msgs, S, WaysLeft)) /\ dead[e] + c <= bound
    BY DEF FallBound
  <1>3. /\ IsFiniteSet(WaysLeft[m]) /\ w \in Nat /\ w >= 1
        /\ \A stage \in Stages : WaysLeft[At(m, stage)] = WaysLeft[m]
    BY Shares
  <1>4. /\ S \in SUBSET Message
        /\ \A x \in Message : x \in S <=> x.event = e /\ x.queue \in Queues /\ x.stage # "giveUp"
    BY FallingMessages
  <1>5. c \in Nat
    BY <1>2, FS_CardinalityType
  <1>6. ASSUME NEW b, msgs' = b, IsFiniteSet(T2(b)), dead'[e] + Cardinality(T2(b)) <= bound
        PROVE  FallBound(e)'
    BY <1>6 DEF FallBound
  <1> HIDE DEF S, c, w, bound, T2
  <1>7. CASE Ends(m)
    <2>1. /\ IsFiniteSet(T2(Less(msgs, m))) /\ Cardinality(T2(Less(msgs, m))) \in Nat
          /\ Cardinality(T2(Less(msgs, m))) <= c
      <3>1. /\ Less(msgs, m) \in [Message -> Nat] /\ \A x \in Message : Less(msgs, m)[x] <= msgs[x]
        BY <1>1 DEF Less
      <3>2. /\ IsFiniteSet(T2(Less(msgs, m))) /\ Cardinality(T2(Less(msgs, m))) <= c
        BY <1>1, <1>2, <1>4, <3>1, TokensFewer DEF T2, c
      <3> QED
        BY <3>2, FS_CardinalityType
    <2>2. dead'[e] = dead[e] /\ dead[e] \in Nat /\ msgs' = Less(msgs, m)
      BY <1>1, <1>7 DEF Ends
    <2>3. dead'[e] + Cardinality(T2(Less(msgs, m))) <= bound
      BY <1>1, <1>2, <1>5, <2>1, <2>2
    <2> QED
      BY <1>6, <2>1, <2>2, <2>3
  <1>8. ASSUME NEW stage \in Stages, stage # m.stage, At(m, stage) \in S => m \in S
        PROVE  /\ IsFiniteSet(T2(Moved(msgs, m, stage)))
               /\ Cardinality(T2(Moved(msgs, m, stage))) \in Nat
               /\ Cardinality(T2(Moved(msgs, m, stage))) <= c
               /\ m \in S /\ At(m, stage) \notin S =>
                     Cardinality(T2(Moved(msgs, m, stage))) + w = c
    BY <1>1, <1>2, <1>3, <1>4, <1>8, TokenMove DEF T2, c, w
  <1>9. ASSUME NEW stage \in {"check", "deliver", "audit"}, GoesOn(m, stage), m.stage \notin {stage, "giveUp"}
        PROVE  FallBound(e)'
    <2> DEFINE b == Moved(msgs, m, stage)
    <2>1. stage \in Stages /\ stage # m.stage /\ (At(m, stage) \in S => m \in S)
      BY <1>4, <1>9, AtMessage DEF Stages
    <2>2. IsFiniteSet(T2(b)) /\ Cardinality(T2(b)) \in Nat /\ Cardinality(T2(b)) <= c
      BY <1>8, <2>1
    <2>3. dead'[e] = dead[e] /\ dead[e] \in Nat /\ msgs' = b
      BY <1>1, <1>9 DEF GoesOn
    <2> HIDE DEF b
    <2>4. dead'[e] + Cardinality(T2(b)) <= bound
      BY <1>1, <1>2, <1>5, <2>2, <2>3
    <2> QED
      BY <1>6, <2>2, <2>3, <2>4
  <1>10. CASE GivesUp(m)
    <2> DEFINE b == Moved(msgs, m, "giveUp")
    <2>1. /\ "giveUp" \in Stages /\ "giveUp" # m.stage /\ m.stage # "giveUp"
          /\ At(m, "giveUp") \notin S
          /\ (m \in S <=> m.event = e)
      BY <1>4, <1>10, AtMessage DEF Stages, GivesUp
    <2>2. /\ IsFiniteSet(T2(b)) /\ Cardinality(T2(b)) \in Nat /\ Cardinality(T2(b)) <= c
          /\ m.event = e => Cardinality(T2(b)) + w = c
      BY <1>8, <2>1
    <2>3. /\ dead[e] \in Nat /\ msgs' = b
          /\ dead'[e] = IF m.event = e THEN dead[e] + 1 ELSE dead[e]
      BY <1>1, <1>10 DEF GivesUp
    <2> HIDE DEF b
    <2>4. dead'[e] + Cardinality(T2(b)) <= bound
      BY <1>1, <1>2, <1>3, <1>5, <2>2, <2>3
    <2> QED
      BY <1>6, <2>2, <2>3, <2>4
  <1>11. CASE Retries(m)
    <2> DEFINE b == Less(Retry(m), m)
               V == IF m.event = e THEN WaysFrom(m.retry + 1 + 1) ELSE {}
               n == Cardinality(T2(b))
               p == Cardinality(Queues) * Cardinality(V)
    <2>1. m.retry + 1 \in Nat /\ m.retry + 1 <= MaxRetries /\ m.retry + 1 + 1 \in Nat
      BY <1>11, Shares DEF Retries
    <2>2. IsFiniteSet(V)
      BY <2>1, WaysFinite, FS_EmptySet
    <2>3. ASSUME NEW x \in CopiesOf(m.event, m.retry + 1), x \in S
          PROVE  WaysLeft[x] \subseteq V
      <3>1. x.event = m.event /\ x.retry = m.retry + 1
        BY DEF CopiesOf, Copy
      <3>2. x \in Message /\ x.event = e
        BY <1>4, <2>3
      <3>3. WaysLeft[x] = WaysFrom(m.retry + 1 + 1)
        BY <3>1, <3>2, Shares
      <3> QED
        BY <3>1, <3>2, <3>3
    <2>4. m \in S <=> m.event = e
      BY <1>4, <1>11 DEF Retries
    <2>5. p <= IF m.event = e THEN w ELSE 0
      <3>1. CASE m.event = e
        <4>1. V = WaysFrom((m.retry + 1) + 1) /\ WaysLeft[m] = WaysFrom(m.retry + 1)
          BY <3>1, Shares
        <4> QED
          BY <2>1, <3>1, <4>1, WaysSplit DEF w
      <3>2. CASE m.event # e
        <4>1. Cardinality(V) = 0 /\ Cardinality(Queues) \in Nat
          BY <3>2, Sizes, FS_EmptySet
        <4> QED
          BY <3>2, <4>1
      <3> QED
        BY <3>1, <3>2
    <2> HIDE DEF V
    <2>6. /\ IsFiniteSet(T2(b)) /\ n \in Nat /\ p \in Nat
          /\ n + (IF m \in S THEN w ELSE 0) <= c + p
      <3>1. /\ IsFiniteSet(T2(b)) /\ n \in Nat
            /\ Cardinality(V) \in Nat /\ Cardinality(Queues) \in Nat
            /\ n + (IF m \in S THEN w ELSE 0) <= c + p
        BY <1>2, <1>3, <1>4, <2>1, <2>2, <2>3, TokenRetry DEF T2, c, w
      <3>2. p \in Nat
        BY <3>1
      <3> QED
        BY <3>1, <3>2
    <2>7. dead'[e] = dead[e] /\ dead[e] \in Nat /\ msgs' = b
      BY <1>1, <1>11 DEF Retries
    <2> HIDE DEF b, n, p
    <2>8. dead'[e] + n <= bound
      BY <1>1, <1>2, <1>3, <1>5, <2>4, <2>5, <2>6, <2>7
    <2> QED
      BY <1>6, <2>6, <2>7, <2>8 DEF n
  <1> QED
    BY <1>7, <1>9, <1>10, <1>11

(* What hopes, after a step of a handler that delivers nothing.            *)
LEMMA HopeStep ==
    ASSUME TypeOK, NEW m \in Message, Present(m), NEW e \in Events, HopeBound(e),
           published' = published, streamed' = streamed, delivered' = delivered,
           audit[e] # "NONE" => audit'[e] = audit[e],
           \/ Ends(m)
           \/ Retries(m) /\ audit[m.event] # "NONE"
           \/ GivesUp(m)
           \/ GoesOn(m, "check") /\ m.stage = "queued"
           \/ GoesOn(m, "deliver") /\ m.stage = "check" /\ audit[m.event] = "NONE"
    PROVE  HopeBound(e)'
  <1> DEFINE S == Hoping(e, audit[e])
             R == Hoping(e, audit'[e])
             c == Cardinality(Tokens(msgs, S, Once))
             T2(b) == Tokens(b, S, Once)
             bound == published[e] * Cardinality(Queues) + IF e \in streamed THEN 1 ELSE 0
  <1>1. /\ msgs \in [Message -> Nat] /\ delivered \in [Events -> Nat] /\ bound \in Nat
        /\ msgs[m] > 0 /\ m.event \in Events
    BY Sizes DEF Present, Message
  <1>2. IsFiniteSet(Tokens(msgs, S, Once)) /\ delivered[e] + c <= bound
    BY DEF HopeBound
  <1>3. /\ IsFiniteSet(Once[m]) /\ Cardinality(Once[m]) = 1
        /\ \A stage \in Stages : Once[At(m, stage)] = Once[m]
    BY Shares
  <1>4. /\ S \in SUBSET Message
        /\ \A x \in Message : x \in S <=>
              x.event = e /\ (x.stage = "deliver" \/ (x.stage \in {"queued", "check"} /\ audit[e] = "NONE"))
    BY HopingMessages
  <1>5. R \in SUBSET S
    BY DEF Hoping, Hopes
  <1>6. c \in Nat
    BY <1>2, FS_CardinalityType
  <1>7. ASSUME NEW b, msgs' = b, b \in [Message -> Nat], IsFiniteSet(T2(b)), Cardinality(T2(b)) <= c
        PROVE  HopeBound(e)'
    <2> DEFINE n == Cardinality(T2(b))
               r == Cardinality(Tokens(b, R, Once))
    <2>1. IsFiniteSet(Tokens(b, R, Once)) /\ r <= n
      <3>1. \A x \in Message : b[x] <= b[x]
        BY <1>7
      <3> QED
        BY <1>4, <1>5, <1>7, <3>1, TokensFewer
    <2>2. r \in Nat /\ n \in Nat
      BY <1>7, <2>1, FS_CardinalityType
    <2>3. delivered[e] \in Nat /\ n <= c
      BY <1>1, <1>7
    <2> HIDE DEF n, r, bound, c
    <2>4. delivered[e] + r <= bound
      BY <1>1, <1>2, <1>6, <2>1, <2>2, <2>3
    <2> USE DEF r, bound
    <2> QED
      BY <1>7, <2>1, <2>4 DEF HopeBound
  <1> HIDE DEF S, c, bound, T2, R
  <1>8. CASE Ends(m)
    <2>1. msgs' = Less(msgs, m)
      BY <1>8 DEF Ends
    <2>2. /\ Less(msgs, m) \in [Message -> Nat] /\ \A x \in Message : Less(msgs, m)[x] <= msgs[x]
      BY <1>1 DEF Less
    <2>3. /\ IsFiniteSet(T2(Less(msgs, m))) /\ Cardinality(T2(Less(msgs, m))) <= c
      BY <1>1, <1>2, <1>4, <2>2, TokensFewer DEF T2, c
    <2> QED
      BY <1>7, <2>1, <2>2, <2>3
  <1>9. ASSUME NEW stage \in Stages, stage # m.stage, At(m, stage) \in S => m \in S,
               msgs' = Moved(msgs, m, stage)
        PROVE  HopeBound(e)'
    <2>1. /\ Moved(msgs, m, stage) \in [Message -> Nat]
          /\ IsFiniteSet(T2(Moved(msgs, m, stage)))
          /\ Cardinality(T2(Moved(msgs, m, stage))) <= c
      BY <1>1, <1>2, <1>3, <1>4, <1>9, TokenMove DEF T2, c
    <2> QED
      BY <1>7, <1>9, <2>1
  <1>10. CASE GivesUp(m)
    <2>1. /\ "giveUp" \in Stages /\ "giveUp" # m.stage /\ At(m, "giveUp") \notin S
          /\ msgs' = Moved(msgs, m, "giveUp")
      BY <1>4, <1>10, AtMessage DEF Stages, GivesUp
    <2> QED
      BY <1>9, <2>1
  <1>11. CASE GoesOn(m, "check") /\ m.stage = "queued"
    <2>1. /\ "check" \in Stages /\ "check" # m.stage /\ (At(m, "check") \in S => m \in S)
          /\ msgs' = Moved(msgs, m, "check")
      BY <1>4, <1>11, AtMessage DEF Stages, GoesOn
    <2> QED
      BY <1>9, <2>1
  <1>12. CASE GoesOn(m, "deliver") /\ m.stage = "check" /\ audit[m.event] = "NONE"
    <2>1. /\ "deliver" \in Stages /\ "deliver" # m.stage /\ (At(m, "deliver") \in S => m \in S)
          /\ msgs' = Moved(msgs, m, "deliver")
      BY <1>4, <1>12, AtMessage DEF Stages, GoesOn
    <2> QED
      BY <1>9, <2>1
  <1>13. CASE Retries(m) /\ audit[m.event] # "NONE"
    <2> DEFINE b == Less(Retry(m), m)
               V == {}
    <2>1. m.retry + 1 <= MaxRetries /\ msgs' = b
      BY <1>13 DEF Retries
    <2>2. IsFiniteSet(V) /\ Cardinality(V) = 0 /\ Cardinality(Queues) \in Nat
      BY Sizes, FS_EmptySet
    <2>3. \A x \in CopiesOf(m.event, m.retry + 1) : x \notin S
      <3>1. ASSUME NEW x \in CopiesOf(m.event, m.retry + 1), x \in S PROVE FALSE
        <4>1. x.event = m.event /\ x.stage = "queued"
          BY DEF CopiesOf, Copy
        <4> QED
          BY <1>4, <1>13, <3>1, <4>1
      <3> QED
        BY <3>1
    <2>4. Cardinality(Queues) * Cardinality(V) = 0
      BY <2>2
    <2> HIDE DEF V
    <2>5. /\ b \in [Message -> Nat] /\ IsFiniteSet(T2(b)) /\ Cardinality(T2(b)) \in Nat
          /\ Cardinality(T2(b)) + (IF m \in S THEN Cardinality(Once[m]) ELSE 0)
             <= c + Cardinality(Queues) * Cardinality(V)
      BY <1>2, <1>3, <1>4, <2>1, <2>2, <2>3, TokenRetry DEF T2, c
    <2>6. Cardinality(T2(b)) <= c
      BY <1>3, <1>6, <2>4, <2>5
    <2> QED
      BY <1>7, <2>1, <2>5, <2>6
  <1> QED
    BY <1>8, <1>10, <1>11, <1>12, <1>13

(* A handler that delivers hopes no more.                                  *)
LEMMA HopeDelivered ==
    ASSUME TypeOK, NEW m \in Message, Present(m), m.stage = "deliver", NEW e \in Events, HopeBound(e),
           published' = published, streamed' = streamed, audit' = audit,
           delivered' = [delivered EXCEPT ![m.event] = @ + 1], GoesOn(m, "audit")
    PROVE  HopeBound(e)'
  <1> DEFINE S == Hoping(e, audit[e])
             b == Moved(msgs, m, "audit")
             c == Cardinality(Tokens(msgs, S, Once))
             n == Cardinality(Tokens(b, S, Once))
             bound == published[e] * Cardinality(Queues) + IF e \in streamed THEN 1 ELSE 0
  <1>1. /\ msgs \in [Message -> Nat] /\ delivered \in [Events -> Nat] /\ bound \in Nat
        /\ msgs[m] > 0 /\ m.event \in Events
    BY Sizes DEF Present, Message
  <1>2. IsFiniteSet(Tokens(msgs, S, Once)) /\ delivered[e] + c <= bound
    BY DEF HopeBound
  <1>3. /\ IsFiniteSet(Once[m]) /\ Cardinality(Once[m]) = 1
        /\ \A stage \in Stages : Once[At(m, stage)] = Once[m]
    BY Shares
  <1>4. /\ S \in SUBSET Message
        /\ \A x \in Message : x \in S <=>
              x.event = e /\ (x.stage = "deliver" \/ (x.stage \in {"queued", "check"} /\ audit[e] = "NONE"))
    BY HopingMessages
  <1> HIDE DEF S
  <1>5. /\ "audit" \in Stages /\ "audit" # m.stage /\ At(m, "audit") \notin S
        /\ (m \in S <=> m.event = e)
    <2>1. "audit" \in Stages /\ "audit" # m.stage
      BY DEF Stages
    <2>2. At(m, "audit") \in Message /\ At(m, "audit").stage = "audit"
      BY <2>1, AtMessage
    <2>3. At(m, "audit") \notin S
      BY <1>4, <2>2
    <2>4. m \in S <=> m.event = e
      <3>1. m \in S <=> m.event = e /\ (m.stage = "deliver" \/ (m.stage \in {"queued", "check"} /\ audit[e] = "NONE"))
        BY <1>4, Zenon
      <3> QED
        BY <3>1
    <2> QED
      BY <2>1, <2>3, <2>4
  <1>6. /\ IsFiniteSet(Tokens(b, S, Once)) /\ n \in Nat /\ c \in Nat /\ n <= c
        /\ m.event = e => n + 1 = c
    BY <1>1, <1>2, <1>3, <1>4, <1>5, TokenMove
  <1>7. /\ delivered[e] \in Nat /\ msgs' = b
        /\ delivered'[e] = IF m.event = e THEN delivered[e] + 1 ELSE delivered[e]
    BY <1>1 DEF GoesOn
  <1> HIDE DEF n, c, bound, b
  <1>8. delivered'[e] + n <= bound
    BY <1>1, <1>2, <1>6, <1>7
  <1> USE DEF n, bound, S
  <1> QED
    BY <1>6, <1>7, <1>8 DEF HopeBound

-----------------------------------------------------------------------------
(* The steps of the consumer, while nothing dies.                          *)

\* A message that is not there on the line has become of one that is.
LEMMA LineRuleStays ==
    ASSUME LineRule, connected' = connected, NEW new,
           \A x \in Message : msgs'[x] > 0 => msgs[x] > 0 \/ x \in new,
           \A x \in new : x \in Message /\ x.queue # Live => x.unacked
    PROVE  LineRule'
  BY DEF LineRule, Present

\* What is there when a handler has ended or gone on.
LEMMA HandledPresent ==
    ASSUME TypeOK, LineRule, connected' = connected, NEW m \in Message, Present(m),
           \/ Ends(m) \/ Retries(m) \/ GivesUp(m)
           \/ \E stage \in {"check", "deliver", "audit"} : GoesOn(m, stage)
    PROVE  LineRule'
  <1>1. msgs \in [Message -> Nat] /\ m.event \in Events
    BY DEF TypeOK, Message
  <1>2. ASSUME NEW bag \in [Message -> Nat], NEW y \in Message
        PROVE  \A x \in Message : Less(bag, y)[x] > 0 => bag[x] > 0
    BY DEF Less
  <1>3. CASE Ends(m)
    <2> DEFINE new == {}
    <2>1. \A x \in Message : msgs'[x] > 0 => msgs[x] > 0 \/ x \in new
      BY <1>1, <1>2, <1>3 DEF Ends
    <2>2. \A x \in new : x \in Message /\ x.queue # Live => x.unacked
      OBVIOUS
    <2> HIDE DEF new
    <2> QED
      BY <2>1, <2>2, LineRuleStays
  <1>4. ASSUME NEW stage \in Stages, msgs' = Moved(msgs, m, stage) PROVE LineRule'
    <2> DEFINE a == At(m, stage)
               b == Less(msgs, m)
               new == {a}
    <2>1. a \in Message /\ a.queue = m.queue /\ a.unacked = m.unacked
      BY AtMessage
    <2>2. msgs' = [b EXCEPT ![a] = @ + 1]
      BY <1>4 DEF Moved
    <2>3. \A x \in Message : b[x] > 0 => msgs[x] > 0
      BY <1>1, <1>2
    <2>4. b \in [Message -> Int]
      BY <1>1 DEF Less
    <2> HIDE DEF a, b
    <2>5. \A x \in Message : msgs'[x] > 0 => msgs[x] > 0 \/ x \in new
      BY <2>1, <2>2, <2>3, <2>4
    <2>6. \A x \in new : x \in Message /\ x.queue # Live => x.unacked
      BY <2>1 DEF LineRule
    <2> HIDE DEF new
    <2> QED
      BY <2>5, <2>6, LineRuleStays
  <1>5. CASE Retries(m)
    <2> DEFINE new == CopiesOf(m.event, m.retry + 1)
    <2>1. m.retry + 1 \in 0..MaxRetries
      BY <1>5, Shares, NotificationAssumption DEF Retries
    <2>2. With(Retry(m), new)
      BY <1>1, <2>1, RoutedAdds DEF Retry
    <2>3. \A x \in Message : msgs'[x] > 0 => msgs[x] > 0 \/ x \in new
      BY <1>2, <1>5, <2>2 DEF Retries, With
    <2>4. \A x \in new : x \in Message /\ x.queue # Live => x.unacked
      BY DEF CopiesOf, Copy
    <2> HIDE DEF new
    <2> QED
      BY <2>3, <2>4, LineRuleStays
  <1>6. CASE GivesUp(m)
    BY <1>4, <1>6 DEF GivesUp, Stages
  <1>7. CASE \E stage \in {"check", "deliver", "audit"} : GoesOn(m, stage)
    BY <1>4, <1>7 DEF GoesOn, Stages
  <1> QED
    BY <1>3, <1>5, <1>6, <1>7

\* All three, after a step of a handler.
LEMMA HandlerLine ==
    ASSUME TypeOK, LineInv, Unbroken => LineRule', faults' = faults,
           \A e \in Events : Unbroken /\ FallBound(e) => FallBound(e)',
           \A e \in Events : Unbroken /\ Answered /\ HopeBound(e) => HopeBound(e)'
    PROVE  LineInv'
  <1>1. (Unbroken' <=> Unbroken) /\ (Answered' <=> Answered)
    BY DEF Unbroken, Answered, Without
  <1> QED
    BY <1>1 DEF LineInv

LEMMA HandleLine ==
    ASSUME ConsumerInv, LineInv, NEW m \in Message, Handle(m), faults' = faults
    PROVE  LineInv'
  <1>1. TypeOK /\ Present(m) /\ m.event \in Events /\ UNCHANGED << published, streamed, connected >>
    BY DEF ConsumerInv, RecordInv, Handle, Consume, Check, Deliver, WriteAudit, GiveUp, Message
  <1> SUFFICES ASSUME Unbroken
               PROVE  /\ LineRule'
                      /\ \A e \in Events : FallBound(e) => FallBound(e)'
                      /\ \A e \in Events : Answered /\ HopeBound(e) => HopeBound(e)'
    BY <1>1, HandlerLine
  <1>2. LineRule
    BY DEF LineInv
  <1>3. ASSUME \/ Ends(m) \/ Retries(m) \/ GivesUp(m)
               \/ \E stage \in {"check", "deliver", "audit"} : GoesOn(m, stage) /\ m.stage \notin {stage, "giveUp"}
        PROVE  LineRule' /\ \A e \in Events : FallBound(e) => FallBound(e)'
    <2>1. LineRule'
      BY <1>1, <1>2, <1>3, HandledPresent
    <2>2. \A e \in Events : FallBound(e) => FallBound(e)'
      BY <1>1, <1>3, FallStep
    <2> QED
      BY <2>1, <2>2
  <1>4. ASSUME \/ Ends(m)
               \/ Retries(m) /\ audit[m.event] # "NONE"
               \/ GivesUp(m)
               \/ GoesOn(m, "check") /\ m.stage = "queued"
               \/ GoesOn(m, "deliver") /\ m.stage = "check" /\ audit[m.event] = "NONE",
               delivered' = delivered,
               \A e \in Events : audit[e] # "NONE" => audit'[e] = audit[e]
        PROVE  \A e \in Events : HopeBound(e) => HopeBound(e)'
    BY <1>1, <1>4, HopeStep
  <1>5. ASSUME NEW stage, Become(m, stage), dead' = dead PROVE GoesOn(m, stage)
    BY <1>5 DEF Become, GoesOn, Moved
  <1>6. ASSUME Acknowledge(m, msgs), dead' = dead PROVE Ends(m)
    BY <1>1, <1>2, <1>6, AcknowledgeLine DEF Ends
  <1>7. CASE Consume(m)
    <2>1. /\ m.stage = "queued" /\ GoesOn(m, "check")
          /\ UNCHANGED << delivered, audit >>
      BY <1>5, <1>7 DEF Consume
    <2> QED
      BY <1>3, <1>4, <2>1
  <1>8. CASE Check(m)
    <2>1. m.stage = "check" /\ UNCHANGED << delivered, audit >>
      BY <1>8 DEF Check
    <2>2. CASE audit[m.event] # "NONE" /\ Acknowledge(m, msgs) /\ dead' = dead
      BY <1>3, <1>4, <1>6, <2>1, <2>2
    <2>3. CASE audit[m.event] = "NONE" /\ Become(m, "deliver") /\ dead' = dead
      BY <1>3, <1>4, <1>5, <2>1, <2>3
    <2>4. CASE "db" \in faults /\ Failure(m)
      <3>1. ~ Answered
        BY <2>4 DEF Answered, Without
      <3>2. Ends(m) \/ Retries(m) \/ GivesUp(m)
        BY <1>1, <1>2, <2>1, <2>4, FailureLine
      <3> QED
        BY <1>3, <3>1, <3>2
    <2> QED
      BY <1>8, <2>2, <2>3, <2>4 DEF Check
  <1>9. CASE Deliver(m)
    <2>1. m.stage = "deliver" /\ UNCHANGED audit
      BY <1>9 DEF Deliver
    <2>2. CASE /\ delivered' = [delivered EXCEPT ![m.event] = @ + 1]
               /\ Become(m, "audit") /\ dead' = dead
      <3>1. GoesOn(m, "audit")
        BY <1>5, <2>2
      <3>2. \A e \in Events : HopeBound(e) => HopeBound(e)'
        BY <1>1, <2>1, <2>2, <3>1, HopeDelivered
      <3> QED
        BY <1>3, <2>1, <3>1, <3>2
    <2>3. CASE "delivery" \in faults /\ Failure(m)
      <3>1. ~ Answered
        BY <2>3 DEF Answered
      <3>2. Ends(m) \/ Retries(m) \/ GivesUp(m)
        BY <1>1, <1>2, <2>1, <2>3, FailureLine
      <3> QED
        BY <1>3, <3>1, <3>2
    <2> QED
      BY <1>9, <2>2, <2>3 DEF Deliver
  <1>10. CASE WriteAudit(m)
    <2>1. m.stage = "audit" /\ delivered' = delivered
      BY <1>10 DEF WriteAudit
    <2>2. \A e \in Events : audit[e] # "NONE" => audit'[e] = audit[e]
      BY <1>1, <1>10, CountsTyped DEF WriteAudit
    <2>3. CASE Acknowledge(m, msgs) /\ dead' = dead
      BY <1>3, <1>4, <1>6, <2>1, <2>2, <2>3
    <2>4. CASE (audit[m.event] # "NONE" \/ "db" \in faults) /\ Failure(m)
      <3>1. Answered => audit[m.event] # "NONE"
        BY <2>4 DEF Answered, Without
      <3>2. Ends(m) \/ Retries(m) \/ GivesUp(m)
        BY <1>1, <1>2, <2>1, <2>4, FailureLine
      <3> QED
        BY <1>3, <1>4, <2>1, <2>2, <3>1, <3>2
    <2> QED
      BY <1>10, <2>3, <2>4 DEF WriteAudit
  <1>11. CASE GiveUp(m)
    <2>1. Ends(m) /\ delivered' = delivered
      BY <1>6, <1>11 DEF GiveUp
    <2>2. \A e \in Events : audit[e] # "NONE" => audit'[e] = audit[e]
      BY <1>1, <1>11, CountsTyped DEF GiveUp
    <2> QED
      BY <1>3, <1>4, <2>1, <2>2
  <1> QED
    BY <1>7, <1>8, <1>9, <1>10, <1>11 DEF Handle

\* The ways of a new message, whatever retry count it starts with.
LEMMA PublishLine ==
    ASSUME ConsumerInv, LineInv, NEW e \in Events, Publish(e), faults' = faults
    PROVE  LineInv'
  <1>1. TypeOK /\ UNCHANGED << streamed, connected, audit, delivered, dead >>
    BY DEF ConsumerInv, RecordInv, Publish
  <1>2. PICK first \in FirstAttempts : msgs' = Routed(msgs, e, first)
    BY DEF Publish
  <1>3. first \in 0..MaxRetries /\ first \in Nat /\ first <= MaxRetries
    BY NotificationAssumption DEF FirstAttempts
  <1>4. /\ published \in [Events -> Nat] /\ delivered \in [Events -> Nat] /\ dead \in [Events -> Nat]
        /\ Cardinality(Queues) \in Nat /\ Cardinality(Ways) \in Nat /\ Ways = WaysFrom(0)
    BY <1>1, Sizes
  <1>5. \A d \in Events : published'[d] = IF d = e THEN published[d] + 1 ELSE published[d]
    BY <1>4 DEF Publish
  <1> DEFINE new == CopiesOf(e, first)
  <1>6. \A x \in new : x.event = e /\ x.retry = first /\ x.stage = "queued" /\ x.unacked
    BY DEF CopiesOf, Copy
  <1>7. LineRule => LineRule'
    <2>1. \A x \in Message : msgs'[x] > 0 => msgs[x] > 0 \/ x \in new
      BY <1>1, <1>2, <1>3, RoutedAdds DEF With
    <2> HIDE DEF new
    <2> QED
      BY <1>1, <1>6, <2>1, LineRuleStays
  <1>8. ASSUME NEW d \in Events, NEW S \in SUBSET Message, NEW W, NEW V, IsFiniteSet(V),
               \A x \in new : x \in S => W[x] \subseteq V,
               IsFiniteSet(Tokens(msgs, S, W)), NEW count \in Nat, NEW each \in Nat, NEW extra \in Nat,
               count + Cardinality(Tokens(msgs, S, W)) <= published[d] * each + extra,
               Cardinality(Queues) * Cardinality(V) <= IF d = e THEN each ELSE 0
        PROVE  /\ IsFiniteSet(Tokens(msgs', S, W))
               /\ count + Cardinality(Tokens(msgs', S, W)) <= published'[d] * each + extra
    <2> DEFINE c == Cardinality(Tokens(msgs, S, W))
               n == Cardinality(Tokens(msgs', S, W))
               p == Cardinality(Queues) * Cardinality(V)
               bound == published[d] * each + extra
               room == published'[d] * each + extra
    <2>1. /\ IsFiniteSet(Tokens(msgs', S, W)) /\ c \in Nat /\ n \in Nat
          /\ Cardinality(V) \in Nat /\ n <= c + p
      BY <1>1, <1>2, <1>3, <1>8, TokensRouted
    <2>2. p \in Nat
      BY <1>4, <2>1
    <2>3. bound \in Nat /\ room \in Nat /\ room = bound + IF d = e THEN each ELSE 0
      <3>1. published[d] \in Nat /\ published'[d] = IF d = e THEN published[d] + 1 ELSE published[d]
        BY <1>4, <1>5
      <3>2. \A a, b \in Nat : a * b \in Nat /\ (a + 1) * b = a * b + b
        OBVIOUS
      <3>3. published[d] * each \in Nat /\ (published[d] + 1) * each = published[d] * each + each
        BY <3>1, <3>2
      <3>4. published'[d] * each = published[d] * each + IF d = e THEN each ELSE 0
        BY <3>1, <3>3
      <3> DEFINE x == published[d] * each
                 y == published'[d] * each
      <3>5. x \in Nat /\ y = x + (IF d = e THEN each ELSE 0) /\ bound = x + extra /\ room = y + extra
        BY <3>3, <3>4
      <3> HIDE DEF x, y, bound, room
      <3> QED
        BY <3>5
    <2>4. count + c <= bound /\ p <= IF d = e THEN each ELSE 0
      BY <1>8
    <2> HIDE DEF c, n, p, bound, room
    <2>5. count + n <= room
      BY <1>8, <2>1, <2>2, <2>3, <2>4
    <2> QED
      BY <2>1, <2>5 DEF n, room
  <1> HIDE DEF new
  <1>9. ASSUME NEW d \in Events, FallBound(d) PROVE FallBound(d)'
    <2> DEFINE V == IF d = e THEN WaysFrom(first + 1) ELSE {}
               S == Falling(d)
    <2>1. IsFiniteSet(V)
      BY <1>3, WaysFinite, FS_EmptySet
    <2>2. Cardinality(Queues) * Cardinality(V) <= IF d = e THEN Cardinality(Ways) ELSE 0
      <3>1. CASE d = e
        BY <1>3, <1>4, <3>1, WaysSplit
      <3>2. CASE d # e
        <4>1. Cardinality(V) = 0
          BY <3>2, FS_EmptySet
        <4> QED
          BY <1>4, <3>2, <4>1
      <3> QED
        BY <3>1, <3>2
    <2>3. ASSUME NEW x \in new, x \in S PROVE WaysLeft[x] \subseteq V
      <3>1. x \in Message /\ x.event = d /\ x.event = e /\ x.retry = first
        BY <1>6, <2>3 DEF Falling
      <3> QED
        BY <3>1, Shares
    <2>4. S \in SUBSET Message
      BY FallingMessages
    <2>5. /\ IsFiniteSet(Tokens(msgs, S, WaysLeft))
          /\ dead[d] + Cardinality(Tokens(msgs, S, WaysLeft)) <= published[d] * Cardinality(Ways) + 0
      BY <1>4, <1>9 DEF FallBound
    <2>6. dead[d] \in Nat /\ dead'[d] = dead[d]
      BY <1>1, <1>4
    <2> HIDE DEF V, S
    <2>7. /\ IsFiniteSet(Tokens(msgs', S, WaysLeft))
          /\ dead[d] + Cardinality(Tokens(msgs', S, WaysLeft)) <= published'[d] * Cardinality(Ways) + 0
      BY <1>4, <1>8, <2>1, <2>2, <2>3, <2>4, <2>5, <2>6
    <2>8. dead'[d] + Cardinality(Tokens(msgs', S, WaysLeft)) <= published'[d] * Cardinality(Ways)
      <3>1. published'[d] \in Nat
        BY <1>4, <1>5
      <3> QED
        BY <1>4, <2>6, <2>7, <3>1
    <2> QED
      BY <2>7, <2>8 DEF FallBound, S
  <1>10. ASSUME NEW d \in Events, HopeBound(d) PROVE HopeBound(d)'
    <2> DEFINE V == IF d = e THEN {0} ELSE {}
               S == Hoping(d, audit[d])
               extra == IF d \in streamed THEN 1 ELSE 0
    <2>1. IsFiniteSet(V) /\ Cardinality(V) = IF d = e THEN 1 ELSE 0
      BY FS_Singleton, FS_EmptySet
    <2>2. Cardinality(Queues) * Cardinality(V) <= IF d = e THEN Cardinality(Queues) ELSE 0
      BY <1>4, <2>1
    <2>3. ASSUME NEW x \in new, x \in S PROVE Once[x] \subseteq V
      <3>1. x \in Message /\ x.event = d /\ x.event = e
        BY <1>6, <2>3 DEF Hoping, Hopes
      <3> QED
        BY <3>1, Shares
    <2>4. S \in SUBSET Message /\ extra \in Nat
      BY HopingMessages
    <2>5. /\ IsFiniteSet(Tokens(msgs, S, Once))
          /\ delivered[d] + Cardinality(Tokens(msgs, S, Once)) <= published[d] * Cardinality(Queues) + extra
      BY <1>10 DEF HopeBound
    <2>6. delivered[d] \in Nat /\ delivered'[d] = delivered[d]
      BY <1>1, <1>4
    <2> HIDE DEF V, S, extra
    <2>7. /\ IsFiniteSet(Tokens(msgs', S, Once))
          /\ delivered[d] + Cardinality(Tokens(msgs', S, Once)) <= published'[d] * Cardinality(Queues) + extra
      BY <1>4, <1>8, <2>1, <2>2, <2>3, <2>4, <2>5, <2>6
    <2> QED
      BY <1>1, <2>6, <2>7 DEF HopeBound, S, extra
  <1> QED
    BY <1>1, <1>7, <1>9, <1>10, HandlerLine DEF LineInv

LEMMA StreamLine ==
    ASSUME ConsumerInv, LineInv, NEW e \in Events, Stream(e), faults' = faults
    PROVE  LineInv'
  <1> DEFINE n == [event |-> e, queue |-> Live, retry |-> 0, stage |-> "check", unacked |-> FALSE]
  <1>1. /\ TypeOK /\ e \notin streamed /\ streamed' = streamed \cup {e}
        /\ msgs' = [msgs EXCEPT ![n] = @ + 1]
        /\ UNCHANGED << published, connected, audit, delivered, dead >>
    BY DEF ConsumerInv, RecordInv, Stream
  <1>2. n \in Message /\ n.event = e /\ n.queue = Live
    BY NotificationAssumption DEF Message, Stages
  <1> HIDE DEF n
  <1>3. /\ msgs \in [Message -> Nat] /\ msgs' \in [Message -> Nat] /\ msgs'[n] = msgs[n] + 1
        /\ \A x \in Message : x # n => msgs'[x] = msgs[x]
    BY <1>1, <1>2 DEF TypeOK
  <1>4. LineRule => LineRule'
    <2> DEFINE new == {n}
    <2>1. \A x \in Message : msgs'[x] > 0 => msgs[x] > 0 \/ x \in new
      BY <1>3
    <2>2. \A x \in new : x \in Message /\ x.queue # Live => x.unacked
      BY <1>2
    <2> HIDE DEF new
    <2> QED
      BY <1>1, <2>1, <2>2, LineRuleStays
  <1>5. ASSUME NEW d \in Events, FallBound(d) PROVE FallBound(d)'
    <2>1. n \notin Falling(d)
      BY <1>2, NotificationAssumption DEF Falling
    <2>2. IsFiniteSet(WaysLeft[n]) /\ Falling(d) \in SUBSET Message
      BY <1>2, Shares, FallingMessages
    <2>3. IsFiniteSet(Tokens(msgs, Falling(d), WaysLeft))
      BY <1>5 DEF FallBound
    <2>4. Tokens(msgs', Falling(d), WaysLeft) = Tokens(msgs, Falling(d), WaysLeft)
      BY <1>2, <1>3, <2>1, <2>2, <2>3, TokenPut
    <2> QED
      BY <1>1, <1>5, <2>4 DEF FallBound
  <1>6. ASSUME NEW d \in Events, HopeBound(d) PROVE HopeBound(d)'
    <2> DEFINE S == Hoping(d, audit[d])
               c == Cardinality(Tokens(msgs, S, Once))
               c2 == Cardinality(Tokens(msgs', S, Once))
               b == published[d] * Cardinality(Queues)
    <2>1. IsFiniteSet(Once[n]) /\ Cardinality(Once[n]) = 1 /\ S \in SUBSET Message
      BY <1>2, Shares, HopingMessages
    <2>2. IsFiniteSet(Tokens(msgs, S, Once)) /\ delivered[d] + c <= b + IF d \in streamed THEN 1 ELSE 0
      BY <1>6 DEF HopeBound
    <2>3. n \in S => d = e
      BY <1>2 DEF Hoping, Hopes
    <2> HIDE DEF S
    <2>4. /\ IsFiniteSet(Tokens(msgs', S, Once)) /\ c \in Nat
          /\ n \in S => c2 = c + Cardinality(Once[n])
          /\ n \notin S => Tokens(msgs', S, Once) = Tokens(msgs, S, Once)
      BY <1>2, <1>3, <2>1, <2>2, TokenPut
    <2>5. c2 \in Nat /\ (n \notin S => c2 = c)
      BY <2>4, FS_CardinalityType
    <2>6. b \in Nat /\ delivered[d] \in Nat
      BY <1>1, Sizes
    <2> HIDE DEF c, c2, b
    <2>7. delivered[d] + c2 <= b + IF d \in streamed' THEN 1 ELSE 0
      BY <1>1, <2>1, <2>2, <2>3, <2>4, <2>5, <2>6
    <2> QED
      BY <1>1, <2>4, <2>7 DEF HopeBound, S, c2, b
  <1> QED
    BY <1>1, <1>4, <1>5, <1>6, HandlerLine DEF LineInv

LEMMA SyncLine ==
    ASSUME ConsumerInv, LineInv, NEW e \in Events, SyncHistory(e), faults' = faults
    PROVE  LineInv'
  <1>1. TypeOK /\ UNCHANGED << published, streamed, msgs, connected, delivered, dead >>
    BY DEF ConsumerInv, RecordInv, SyncHistory
  <1>2. msgs \in [Message -> Nat] /\ delivered \in [Events -> Nat]
    BY <1>1, Sizes
  <1>3. \A d \in Events : audit[d] # "NONE" => audit'[d] = audit[d]
    BY <1>1, CountsTyped DEF SyncHistory
  <1>4. ASSUME NEW d \in Events, HopeBound(d) PROVE HopeBound(d)'
    <2> DEFINE S == Hoping(d, audit[d])
               R == Hoping(d, audit'[d])
               c == Cardinality(Tokens(msgs, S, Once))
               r == Cardinality(Tokens(msgs, R, Once))
               bound == published[d] * Cardinality(Queues) + IF d \in streamed THEN 1 ELSE 0
    <2>1. R \in SUBSET S /\ S \in SUBSET Message
      BY <1>3 DEF Hoping, Hopes
    <2>2. IsFiniteSet(Tokens(msgs, S, Once)) /\ delivered[d] + c <= bound
      BY <1>4 DEF HopeBound
    <2> HIDE DEF S, R
    <2>3. IsFiniteSet(Tokens(msgs, R, Once)) /\ r <= c
      <3>1. \A x \in Message : msgs[x] <= msgs[x]
        BY <1>2
      <3> QED
        BY <1>2, <2>1, <2>2, <3>1, TokensFewer
    <2>4. r \in Nat /\ c \in Nat /\ delivered[d] \in Nat /\ bound \in Nat
      BY <1>1, <1>2, <2>2, <2>3, FS_CardinalityType, Sizes
    <2> HIDE DEF c, r, bound
    <2>5. delivered[d] + r <= bound
      BY <2>2, <2>3, <2>4
    <2> QED
      BY <1>1, <2>3, <2>5 DEF HopeBound, R, r, bound
  <1> QED
    BY <1>1, <1>4, HandlerLine DEF FallBound, LineRule, Present, LineInv

LEMMA LineInit == Init => LineInv
  <1> SUFFICES ASSUME Init PROVE LineInv
    OBVIOUS
  <1>1. TypeOK /\ msgs = [m \in Message |-> 0]
    BY ConsumerInit DEF ConsumerInv, RecordInv, Init
  <1>2. ASSUME NEW S \in SUBSET Message, NEW W
        PROVE  IsFiniteSet(Tokens(msgs, S, W)) /\ Cardinality(Tokens(msgs, S, W)) = 0
    <2>1. \A x \in S : msgs[x] = 0
      BY <1>1
    <2>2. \A t : t \notin Tokens(msgs, S, W)
      <3> SUFFICES ASSUME NEW t, t \in Tokens(msgs, S, W) PROVE FALSE
        OBVIOUS
      <3>1. PICK x, i, w : x \in S /\ i \in 1..msgs[x] /\ w \in W[x] /\ t = <<x, <<i, w>>>>
        BY TokenIs
      <3> QED
        BY <2>1, <3>1
    <2>3. Tokens(msgs, S, W) = {}
      BY <2>2
    <2> QED
      BY <2>3, FS_EmptySet
  <1>3. LineRule
    BY <1>1 DEF Init, LineRule, Present
  <1>4. ASSUME NEW e \in Events PROVE FallBound(e)
    <2>1. dead[e] = 0 /\ published[e] = 0 /\ Cardinality(Ways) \in Nat /\ Falling(e) \in SUBSET Message
      BY <1>1, Sizes, FallingMessages DEF Init
    <2> QED
      BY <1>2, <2>1 DEF FallBound
  <1>5. ASSUME NEW e \in Events PROVE HopeBound(e)
    <2>1. /\ delivered[e] = 0 /\ published[e] = 0 /\ streamed = {} /\ Cardinality(Queues) \in Nat
          /\ Hoping(e, audit[e]) \in SUBSET Message
      BY <1>1, Sizes, HopingMessages DEF Init
    <2> QED
      BY <1>2, <2>1 DEF HopeBound
  <1> QED
    BY <1>3, <1>4, <1>5 DEF LineInv

LEMMA LineStep == ConsumerInv /\ LineInv /\ [Next]_vars => LineInv'
  <1> SUFFICES ASSUME ConsumerInv, LineInv, [Next]_vars PROVE LineInv'
    OBVIOUS
  <1>1. CASE UNCHANGED vars
    BY <1>1 DEF vars, workVars, LineInv, Unbroken, Answered, Without, LineRule, Present, FallBound, HopeBound
  <1>2. CASE Next
    <2>1. faults' = faults
      BY <1>2 DEF Next
    <2>2. ASSUME NEW e \in Events, Publish(e) \/ Stream(e) \/ SyncHistory(e) PROVE LineInv'
      BY <2>1, <2>2, PublishLine, StreamLine, SyncLine
    <2>3. ASSUME NEW m \in Message, Handle(m) PROVE LineInv'
      BY <2>1, <2>3, HandleLine
    <2>4. Crash \/ Drop \/ Reconnect => ~ Unbroken'
      BY <2>1 DEF Crash, Drop, Reconnect, Unbroken, Without, LineInv, LineRule
    <2> QED
      BY <1>2, <2>1, <2>2, <2>3, <2>4 DEF Next, LineInv
  <1> QED
    BY <1>1, <1>2

(***************************************************************************)
(* While nothing dies, an event is dead-lettered at most once for each way *)
(* its copies can take from queue to queue; and while the audit table      *)
(* answers too, its retries repeat no notification.                        *)
(***************************************************************************)
THEOREM RetriesStayBounded == Spec => []RetriesBounded
  <1>1. ConsumerInv /\ LineInv => RetriesBounded
    <2> SUFFICES ASSUME ConsumerInv, LineInv PROVE RetriesBounded
      OBVIOUS
    <2>1. TypeOK
      BY DEF ConsumerInv, RecordInv
    <2>2. ASSUME NEW e \in Events, Unbroken PROVE dead[e] <= published[e] * Cardinality(Ways)
      <3> DEFINE c == Cardinality(Tokens(msgs, Falling(e), WaysLeft))
      <3>1. IsFiniteSet(Tokens(msgs, Falling(e), WaysLeft)) /\ dead[e] + c <= published[e] * Cardinality(Ways)
        BY <2>2 DEF LineInv, FallBound
      <3>2. c \in Nat
        BY <3>1, FS_CardinalityType
      <3>3. dead[e] \in Nat /\ published[e] * Cardinality(Ways) \in Nat
        BY <2>1, Sizes
      <3> HIDE DEF c
      <3> QED
        BY <3>1, <3>2, <3>3
    <2>3. ASSUME NEW e \in Events, Unbroken, Without({"db"})
          PROVE  delivered[e] <= published[e] * Cardinality(Queues) + IF e \in streamed THEN 1 ELSE 0
      <3> DEFINE c == Cardinality(Tokens(msgs, Hoping(e, audit[e]), Once))
                 bound == published[e] * Cardinality(Queues) + IF e \in streamed THEN 1 ELSE 0
      <3>1. delivered[e] \in Nat /\ bound \in Nat
        BY <2>1, Sizes
      <3>2. CASE "delivery" \in faults
        <4>1. delivered[e] = 0
          BY <3>2 DEF ConsumerInv, RecordInv, EventRule
        <4> QED
          BY <3>1, <4>1
      <3>3. CASE "delivery" \notin faults
        <4>1. IsFiniteSet(Tokens(msgs, Hoping(e, audit[e]), Once)) /\ delivered[e] + c <= bound
          BY <2>3, <3>3 DEF LineInv, HopeBound, Answered
        <4>2. c \in Nat
          BY <4>1, FS_CardinalityType
        <4> HIDE DEF c, bound
        <4>3. delivered[e] <= bound
          BY <3>1, <4>1, <4>2
        <4> QED
          BY <4>3 DEF bound
      <3> QED
        BY <3>2, <3>3
    <2>4. Without({"crash", "drop"}) => Unbroken
      BY DEF Unbroken
    <2>5. Without({"db", "crash", "drop"}) => Unbroken /\ Without({"db"})
      BY DEF Unbroken, Without
    <2> QED
      BY <2>1, <2>2, <2>3, <2>4, <2>5 DEF RetriesBounded
  <1>2. Spec => []LineInv
    BY ConsumerInvariant, LineInit, LineStep, PTL DEF Spec
  <1> QED
    BY <1>1, <1>2, ConsumerInvariant, PTL
=============================================================================
