----------------------------- MODULE LiveEvents -----------------------------
(***************************************************************************)
(* Live events on their way to one browser tab.  A committed operation is  *)
(* published on a Redis channel, which every gateway replica hears, and by *)
(* the outbox through one RabbitMQ queue, which the replicas share.  A     *)
(* replica drops the copies it has seen, keeps the last events in a ring   *)
(* and writes each to its server-sent-event connections; a tab that was    *)
(* cut off asks for what came after the last event it received.            *)
(*                                                                         *)
(* The bounds of the code (ring of 100, 1000 and 500 remembered ids, 20    *)
(* attempts) are constants.  An item is an event as broadcast: a completed *)
(* payment makes two.                                                      *)
(***************************************************************************)
EXTENDS Naturals, Sequences, FiniteSets

CONSTANTS
    Gateways,       \* the replicas
    Deployments,    \* the sets of them that may be deployed
    Events,         \* committed operations
    Completed,      \* those that are completed payments
    MaxRing,        \* events a replica can replay
    MaxProcessed,   \* event ids a replica remembers
    MaxSeen,        \* event keys a tab remembers
    MaxAttempts,    \* reconnections a tab tries in a row
    MaxDeliveries,  \* times the shared queue delivers an event, retries included
    MaxFaults,      \* lost connections, messages and processes
    MaxClicks       \* times the user hides, shows, reconnects, signs in or out

ASSUME LiveEventsAssumption ==
    /\ Completed \subseteq Events /\ IsFiniteSet(Events) /\ IsFiniteSet(Gateways)
    /\ Deployments \subseteq (SUBSET Gateways) \ {{}}
    /\ MaxRing \in Nat \ {0} /\ MaxProcessed \in Nat \ {0} /\ MaxSeen \in Nat \ {0}
    /\ MaxAttempts \in Nat /\ MaxDeliveries \in Nat /\ MaxFaults \in Nat /\ MaxClicks \in Nat

NoItem == <<"no event", "none">>
Item == Events \X {"event", "notif"}
NoId == <<"no event", "tick">>   \* a message of the stream itself, without an id
NoGateway == "none"

\* What handleLiveEvent broadcasts for an event, in this order.
Items(e) == IF e \in Completed THEN <<<<e, "event">>, <<e, "notif">>>>
            ELSE <<<<e, "event">>>>

VARIABLES
    replicas,       \* the replicas deployed
    up,             \* those running
    todo,           \* events not yet published on Redis
    delivered,      \* how often the RabbitMQ queue has delivered each event
    channel,        \* messages on each replica's Redis subscription
    processed,      \* processedEventIds of each replica, oldest first
    ring,           \* recentEventBuffer of each replica
    tab,            \* the tab's EventStreamClient and its connection
    seen,           \* processedEventIdsRef of the tab, oldest first
    done,           \* items handled since the tab signed in
    due,            \* items broadcast after one the tab received, not yet handled
    since,          \* how many were broadcast after the last one it received
    gapped,         \* the tab has resumed from an event the ring no longer held
    restarted,      \* a replica has lost its memory
    faults, clicks

gatewayVars == <<up, channel, processed, ring>>
publishVars == <<todo, delivered>>
ghosts == <<done, due, since, gapped>>
eventsVars == <<replicas, up, todo, delivered, channel, processed, ring, tab, seen,
          done, due, since, gapped, restarted, faults, clicks>>

\* Appends to a bounded memory that drops its oldest element.
Pushed(s, x, bound) ==
    IF Len(s) < bound THEN Append(s, x) ELSE Append(Tail(s), x)
Holds(s, x) == \E i \in 1..Len(s) : s[i] = x

EventsTypeOK ==
    /\ replicas \subseteq Gateways /\ up \subseteq replicas
    /\ todo \subseteq Events
    /\ delivered \in [Events -> 0..MaxDeliveries]
    /\ \A g \in Gateways :
        /\ channel[g] \in Seq(Events)
        /\ processed[g] \in Seq(Events) /\ Len(processed[g]) <= MaxProcessed
        /\ ring[g] \in Seq(Item) /\ Len(ring[g]) <= MaxRing
    /\ tab \in [signedIn : BOOLEAN, visible : BOOLEAN, closed : BOOLEAN,
                status : {"CONNECTED", "RECONNECTING", "OFFLINE"},
                phase : {"none", "opening", "open", "lost"},
                gateway : Gateways \cup {NoGateway}, wire : Seq(Item),
                last : Item \cup {NoItem}, attempts : Nat,
                timer : BOOLEAN]
    /\ seen \in Seq(Item \cup {NoId}) /\ Len(seen) <= MaxSeen
    /\ done \subseteq Item /\ due \subseteq Item
    /\ since \in Nat /\ gapped \in BOOLEAN /\ restarted \in BOOLEAN
    /\ faults \in 0..MaxFaults /\ clicks \in 0..MaxClicks

\* A new EventStreamClient.
NewClient == [signedIn |-> FALSE, visible |-> TRUE, closed |-> FALSE,
              status |-> "OFFLINE", phase |-> "none", gateway |-> NoGateway,
              wire |-> <<>>, last |-> NoItem, attempts |-> 0, timer |-> FALSE]

EventsInit ==
    /\ replicas \in Deployments /\ up = replicas
    /\ todo = Events
    /\ delivered = [e \in Events |-> 0]
    /\ channel = [g \in Gateways |-> <<>>]
    /\ processed = [g \in Gateways |-> <<>>]
    /\ ring = [g \in Gateways |-> <<>>]
    /\ tab = NewClient
    /\ seen = <<>> /\ done = {} /\ due = {} /\ since = 0 /\ gapped = FALSE
    /\ restarted = FALSE /\ faults = 0 /\ clicks = 0

-----------------------------------------------------------------------------
(***************************************************************************)
(* Publication.                                                            *)
(***************************************************************************)
\* publish is not awaited: Redis delivers to whoever listens, or to nobody.
Stream(e) ==
    /\ e \in todo
    /\ todo' = todo \ {e}
    /\ \/ /\ channel' = [g \in Gateways |-> IF g \in up THEN Append(channel[g], e)
                                            ELSE channel[g]]
          /\ UNCHANGED faults
       \/ /\ faults < MaxFaults /\ faults' = faults + 1
          /\ UNCHANGED channel
    /\ UNCHANGED <<replicas, up, delivered, processed, ring, tab, seen, ghosts,
                   restarted, clicks>>

-----------------------------------------------------------------------------
(***************************************************************************)
(* The gateway.                                                            *)
(***************************************************************************)
(* Mutant: the ring is trimmed one event too early. *)
RingedShort(r, items) ==
    LET all == r \o items
        excess == IF Len(all) > MaxRing - 1 THEN Len(all) - (MaxRing - 1) ELSE 0
    IN  SubSeq(all, excess + 1, Len(all))

\* The ring after the items were pushed and the oldest shifted out.
Ringed(r, items) ==
    LET all == r \o items
        excess == IF Len(all) > MaxRing THEN Len(all) - MaxRing ELSE 0
    IN  SubSeq(all, excess + 1, Len(all))

\* broadcastSSEEvent writes to the connections it serves; an item is due to a
\* tab that has received an earlier one.
Written(g, items) ==
    LET here == tab.phase = "open" /\ tab.gateway = g
        lost == IF tab.last = NoItem THEN {} ELSE {items[i] : i \in 1..Len(items)} \ done
    IN  /\ tab' = IF here THEN [tab EXCEPT !.wire = @ \o items] ELSE tab
        /\ due' = due \cup lost
        /\ since' = IF tab.last = NoItem THEN 0 ELSE since + Len(items)
        /\ UNCHANGED <<done, gapped>>

\* handleLiveEvent: the second copy of an event that is remembered is dropped.
Handle(g, e) ==
    IF Holds(processed[g], e)
    THEN UNCHANGED <<processed, ring, tab, ghosts>>
    ELSE /\ processed' = [processed EXCEPT ![g] = Pushed(@, e, MaxProcessed)]
         /\ ring' = [ring EXCEPT ![g] = Ringed(@, Items(e))]
         /\ Written(g, Items(e))

HandleRedis(g) ==
    /\ g \in up /\ channel[g] # <<>>
    /\ Handle(g, Head(channel[g]))
    /\ channel' = [channel EXCEPT ![g] = Tail(@)]
    /\ UNCHANGED <<replicas, up, publishVars, seen, restarted, faults, clicks>>

\* The outbox publishes each event at least once, before or after the channel
\* did; one replica gets each copy, and gets it again when it cannot acknowledge.
HandleRabbit(g, e) ==
    /\ g \in up /\ delivered[e] < MaxDeliveries
    /\ Handle(g, e)
    /\ delivered' = [delivered EXCEPT ![e] = @ + 1]
    /\ UNCHANGED <<replicas, up, todo, channel, seen, restarted, faults, clicks>>

Crash(g) ==
    /\ g \in up /\ faults < MaxFaults
    /\ faults' = faults + 1
    /\ up' = up \ {g}
    /\ channel' = [channel EXCEPT ![g] = <<>>]
    /\ processed' = [processed EXCEPT ![g] = <<>>]
    /\ ring' = [ring EXCEPT ![g] = <<>>]
    /\ restarted' = TRUE
    /\ tab' = IF tab.phase = "open" /\ tab.gateway = g
              THEN [tab EXCEPT !.phase = "lost", !.gateway = NoGateway, !.wire = <<>>]
              ELSE tab
    /\ UNCHANGED <<replicas, publishVars, seen, ghosts, clicks>>

Restart(g) ==
    /\ g \in replicas \ up
    /\ up' = up \cup {g}
    /\ UNCHANGED <<replicas, publishVars, channel, processed, ring, tab, seen,
                   ghosts, restarted, faults, clicks>>

-----------------------------------------------------------------------------
(***************************************************************************)
(* The tab's client.                                                       *)
(***************************************************************************)
CutOff(t) == [t EXCEPT !.phase = "none", !.gateway = NoGateway, !.wire = <<>>]

\* connect(): the old connection goes, a pending timer too.
Connecting(t) ==
    [CutOff(t) EXCEPT !.closed = FALSE, !.timer = FALSE, !.phase = "opening",
                      !.status = IF t.attempts > 0 THEN "RECONNECTING" ELSE "OFFLINE"]

\* close(): what was received last is forgotten.
Closed(t) ==
    [CutOff(t) EXCEPT !.closed = TRUE, !.last = NoItem, !.attempts = 0,
                      !.timer = FALSE, !.status = "OFFLINE"]

(* Mutant: after its last attempt the client waits for a timer nobody set. *)
ScheduledForever(t) ==
    LET n == t.attempts + 1
    IN  IF n > MaxAttempts THEN [CutOff(t) EXCEPT !.attempts = n]
        ELSE [CutOff(t) EXCEPT !.attempts = n, !.status = "RECONNECTING", !.timer = TRUE]

\* scheduleReconnect() after cleanupEventSource().
Scheduled(t) ==
    LET n == t.attempts + 1
    IN  IF n > MaxAttempts THEN [CutOff(t) EXCEPT !.attempts = n, !.status = "OFFLINE"]
        ELSE [CutOff(t) EXCEPT !.attempts = n, !.status = "RECONNECTING", !.timer = TRUE]

(* Mutant: the event the client names is replayed as well. *)
ReplayInclusive(g, last) ==
    LET r == ring[g]
        at == {i \in 1..Len(r) : r[i] = last}
    IN  IF at = {} THEN <<>>
        ELSE SubSeq(r, CHOOSE i \in at : \A j \in at : i <= j, Len(r))

\* What the stream endpoint replays to a client that names its last event.
Replay(g, last) ==
    LET r == ring[g]
        at == {i \in 1..Len(r) : r[i] = last}
    IN  IF at = {} THEN <<>>
        ELSE SubSeq(r, (CHOOSE i \in at : \A j \in at : i <= j) + 1, Len(r))

tabOnly == <<replicas, gatewayVars, publishVars, restarted>>

\* onopen: the attempts are forgotten.
Opened(t) == [t EXCEPT !.phase = "open", !.attempts = 0, !.status = "CONNECTED"]

\* onmessage: the event that came last is the one a reconnection names.
Heard(t) == [t EXCEPT !.wire = Tail(@), !.last = Head(t.wire)]

\* The load balancer picks a replica; onopen and the greeting follow.  Each
\* message without an id takes a place among the remembered keys.
Accept(g) ==
    LET ticks == IF tab.attempts > 0 THEN 2 ELSE 1
        once == Pushed(seen, NoId, MaxSeen)
    IN  /\ tab.phase = "opening" /\ g \in up
        /\ tab' = [Opened(tab) EXCEPT !.gateway = g, !.wire = Replay(g, tab.last)]
        /\ seen' = IF ticks = 2 THEN Pushed(once, NoId, MaxSeen) ELSE once
        /\ gapped' = (gapped \/ since >= MaxRing)
        /\ UNCHANGED <<tabOnly, done, due, since, faults, clicks>>

\* onerror of a connection that cannot be opened.
RefuseConnection ==
    /\ tab.phase = "opening"
    /\ \/ up = {} /\ UNCHANGED faults
       \/ up # {} /\ faults < MaxFaults /\ faults' = faults + 1
    /\ tab' = Scheduled(tab)
    /\ UNCHANGED <<tabOnly, seen, ghosts, clicks>>

\* The connection breaks; what is on its way is lost.
Lose ==
    /\ tab.phase = "open" /\ faults < MaxFaults
    /\ faults' = faults + 1
    /\ tab' = [tab EXCEPT !.phase = "lost", !.gateway = NoGateway, !.wire = <<>>]
    /\ UNCHANGED <<tabOnly, seen, ghosts, clicks>>

\* The browser may notice ...
Error ==
    /\ tab.phase = "lost"
    /\ tab' = Scheduled(tab)
    /\ UNCHANGED <<tabOnly, seen, ghosts, faults, clicks>>

\* ... or the watchdog does, when no message came for 45 seconds.  Keep-alive
\* comments are no messages: a quiet stream is reconnected too, at once.
Watchdog ==
    /\ tab.status = "CONNECTED" /\ ~tab.closed
    /\ tab.phase = "lost" \/ tab.wire = <<>>
    /\ tab' = IF tab.attempts + 1 > MaxAttempts THEN Scheduled(tab)
              ELSE Connecting([tab EXCEPT !.attempts = @ + 1])
    /\ UNCHANGED <<tabOnly, seen, ghosts, faults, clicks>>

Timer ==
    /\ tab.timer
    /\ tab' = Connecting(tab)
    /\ UNCHANGED <<tabOnly, seen, ghosts, faults, clicks>>

\* onmessage, and handleIncomingEvent unless the key is remembered.
Receive ==
    LET x == Head(tab.wire)
        rest == {tab.wire[i] : i \in 2..Len(tab.wire)}
    IN  /\ tab.phase = "open" /\ tab.wire # <<>>
        /\ tab' = Heard(tab)
        /\ seen' = IF Holds(seen, x) THEN seen ELSE Pushed(seen, x, MaxSeen)
        /\ done' = done \cup {x}
        /\ since' = Len(tab.wire) - 1
        /\ due' = (due \cup rest) \ done'
        /\ UNCHANGED <<tabOnly, gapped, faults, clicks>>

-----------------------------------------------------------------------------
(***************************************************************************)
(* The user: each action counts against MaxClicks.                         *)
(***************************************************************************)
Click == clicks < MaxClicks /\ clicks' = clicks + 1

\* Nothing is due to a tab whose client has forgotten where it was.
Forgotten == due' = {} /\ since' = 0

\* A tab may be signed in, or its session end, while it is hidden.
SignIn ==
    /\ Click /\ ~tab.signedIn
    /\ tab' = [Connecting(NewClient) EXCEPT !.signedIn = TRUE, !.visible = tab.visible]
    /\ UNCHANGED <<tabOnly, seen, ghosts, faults>>

SignOut ==
    /\ Click /\ tab.signedIn
    /\ tab' = [Closed(tab) EXCEPT !.signedIn = FALSE]
    /\ seen' = <<>> /\ done' = {} /\ Forgotten
    /\ UNCHANGED <<tabOnly, gapped, faults>>

Hide ==
    /\ Click /\ tab.visible
    /\ tab' = [(IF tab.signedIn THEN Closed(tab) ELSE tab) EXCEPT !.visible = FALSE]
    /\ Forgotten
    /\ UNCHANGED <<tabOnly, seen, done, gapped, faults>>

Show ==
    /\ Click /\ ~tab.visible
    /\ tab' = [(IF tab.signedIn THEN Connecting(tab) ELSE tab) EXCEPT !.visible = TRUE]
    /\ UNCHANGED <<tabOnly, seen, ghosts, faults>>

\* The button is live while the status is not CONNECTED.
Reconnect ==
    /\ Click /\ tab.signedIn /\ tab.visible /\ tab.status # "CONNECTED"
    /\ tab' = Connecting([tab EXCEPT !.attempts = 0])
    /\ UNCHANGED <<tabOnly, seen, ghosts, faults>>

-----------------------------------------------------------------------------
EventsNext ==
    \/ \E e \in Events : Stream(e)
    \/ \E g \in Gateways : \/ HandleRedis(g) \/ Crash(g) \/ Restart(g) \/ Accept(g)
                           \/ \E e \in Events : HandleRabbit(g, e)
    \/ RefuseConnection \/ Lose \/ Error \/ Watchdog \/ Timer \/ Receive
    \/ SignIn \/ SignOut \/ Hide \/ Show \/ Reconnect

EventsSpec == EventsInit /\ [][EventsNext]_eventsVars

\* The event loops of replicas and browser run, dead replicas are restarted, and
\* a connection attempt ends.  No user acts, nothing need be published, and the
\* browser need not notice a dead connection.
Fairness ==
    /\ WF_eventsVars(Timer) /\ WF_eventsVars(Watchdog) /\ WF_eventsVars(Receive)
    /\ WF_eventsVars(RefuseConnection) /\ WF_eventsVars(\E g \in Gateways : Accept(g))
    /\ WF_eventsVars(\E g \in Gateways : HandleRedis(g))
    /\ WF_eventsVars(\E g \in Gateways : Restart(g))
LiveSpec == EventsSpec /\ Fairness

-----------------------------------------------------------------------------
\* One replica that has kept its memory, and no resumption beyond its ring.
Smooth ==
    /\ Cardinality(replicas) = 1 /\ ~restarted /\ ~gapped
    /\ tab.phase = "open" \/ since < MaxRing

OnWire(x) == Holds(tab.wire, x)
Replayable(x) == \E g \in replicas : Holds(Replay(g, tab.last), x)

(* app.js 154-243, eventsApi.js 80-143: once a tab has received an event,  *)
(* every later one is handled, on its way, or will be replayed, however    *)
(* often the connection breaks; fewer than a full ring may be missed.      *)
NothingOutOfReach ==
    /\ EventsTypeOK
    /\ Smooth => \A x \in due : OnWire(x) \/ (tab.phase # "open" /\ Replayable(x))

(* RealtimeContext.jsx 26-43, gatewayEventConsumer.js 98-104: the tab acts *)
(* twice on an event only if its own memory of it is gone and, besides, a  *)
(* replica lost or dropped its memory or there are several replicas.       *)
HandledOnce ==
    [][/\ Receive /\ Cardinality(replicas) = 1 /\ ~restarted
       /\ MaxProcessed >= Cardinality(Events)
       /\ ~Holds(seen, Head(tab.wire))
       => Head(tab.wire) \notin done]_eventsVars

Wanted == tab.signedIn /\ ~tab.closed
GivenUp == tab.phase = "none" /\ ~tab.timer /\ tab.status = "OFFLINE"

(* eventsApi.js 54-183: a tab that is looked at gets connected again and   *)
(* again until it has given up and says so, and what is due to it arrives.  *)
CatchesUp ==
    /\ []<>(Wanted => tab.status = "CONNECTED" \/ GivenUp)
    /\ <>[](~Smooth \/ GivenUp \/ due = {})
=============================================================================
