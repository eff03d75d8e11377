------------------------ MODULE OutboxWorker_proofs -------------------------
(***************************************************************************)
(* What the rows of the outbox say is true, for any number of replicas,    *)
(* events and retries, any batch size, and any faults.                     *)
(***************************************************************************)
EXTENDS OutboxWorker, SequenceTheorems, TLAPS

(***************************************************************************)
(* A replica at work has a snapshot in hand.  It marks what it has sent,   *)
(* and what it counts as failed has failed once more than the snapshot's   *)
(* count.                                                                  *)
(***************************************************************************)
InHand(w) ==
    /\ pc[w] # "poll" => batch[w] # << >>
    /\ pc[w] = "mark" => sent[Current(w)] > 0
    /\ pc[w] = "fail" => Head(batch[w]).retry < failures[Current(w)]

(* Counts, in rows and in snapshots, never run ahead of the failures; and  *)
(* a row, or a snapshot, of a pending event has a try left.                *)
CountsBehind ==
    /\ \A e \in Events :
          /\ row[e].retry <= failures[e]
          /\ row[e].status = "PENDING" => row[e].retry < MaxRetries
    /\ \A w \in Workers : \A i \in DOMAIN batch[w] :
          /\ batch[w][i].retry <= failures[batch[w][i].event]
          /\ batch[w][i].retry < MaxRetries

RowsTrue ==
    \A e \in Events :
        /\ row[e].status = "PUBLISHED" => sent[e] > 0
        /\ row[e].status = "FAILED" => failures[e] = MaxRetries

TruthInv == TypeOK /\ (\A w \in Workers : InHand(w)) /\ CountsBehind /\ RowsTrue

(***************************************************************************)
(* One replica with a channel that reports what it did: what is in the     *)
(* batch is pending, each event once, and what was written once is marked, *)
(* or about to be.                                                         *)
(***************************************************************************)
BatchPending(w) ==
    \A i \in DOMAIN batch[w] :
        /\ row[batch[w][i].event].status = "PENDING"
        /\ \A j \in DOMAIN batch[w] : i < j => batch[w][i].event # batch[w][j].event

AboutToMark(w, e) == pc[w] = "mark" /\ Current(w) = e

Solo(w) ==
    /\ BatchPending(w)
    /\ \A e \in Events :
          IF row[e].status = "PUBLISHED" \/ AboutToMark(w, e) THEN sent[e] = 1 ELSE sent[e] = 0

SoloInv ==
    \A w \in Workers :
        running = {w} /\ faults \subseteq {"broker", "connection"} => Solo(w)

(* As long as no buffer is lost, what is marked, or about to be, is at the *)
(* exchange or on its way.                                                 *)
PublishedReach == \A e \in Events : row[e].status = "PUBLISHED" => Reaches(e)

ReachInv ==
    BuffersSurvive =>
        /\ PublishedReach
        /\ \A w \in Workers : pc[w] = "mark" => Reaches(Current(w))

-----------------------------------------------------------------------------
(* The first snapshot of a batch, and the batch without it. *)
LEMMA FirstSnapshot ==
    ASSUME TypeOK, NEW w \in Workers, batch[w] # << >>
    PROVE  /\ 1 \in DOMAIN batch[w] /\ Head(batch[w]) = batch[w][1]
           /\ Head(batch[w]) \in Snapshot /\ Current(w) \in Events
           /\ Head(batch[w]).retry \in 0..MaxRetries
           /\ Tail(batch[w]) \in Seq(Snapshot)
           /\ Len(Tail(batch[w])) = Len(batch[w]) - 1 /\ Len(batch[w]) \in Nat
           /\ DOMAIN batch[w] = 1..Len(batch[w])
           /\ DOMAIN Tail(batch[w]) = 1..(Len(batch[w]) - 1)
           /\ \A i \in DOMAIN Tail(batch[w]) :
                 i + 1 \in DOMAIN batch[w] /\ Tail(batch[w])[i] = batch[w][i + 1]
  <1>1. batch[w] \in Seq(Snapshot)
    BY DEF TypeOK
  <1>2. /\ Head(batch[w]) \in Snapshot /\ Tail(batch[w]) \in Seq(Snapshot)
        /\ Len(Tail(batch[w])) = Len(batch[w]) - 1
        /\ \A i \in 1..Len(Tail(batch[w])) : Tail(batch[w])[i] = batch[w][i + 1]
    BY <1>1, HeadTailProperties
  <1>3. Len(batch[w]) \in Nat \ {0} /\ DOMAIN batch[w] = 1..Len(batch[w])
    BY <1>1, EmptySeq, LenProperties
  <1>4. DOMAIN Tail(batch[w]) = 1..Len(Tail(batch[w]))
    BY <1>2, LenProperties
  <1>5. Head(batch[w]) = batch[w][1]
    BY <1>1
  <1> QED
    BY <1>2, <1>3, <1>4, <1>5 DEF Current, Snapshot

(* The snapshots of n rows. *)
LEMMA FetchedBatch ==
    ASSUME TypeOK, NEW w \in Workers, NEW n \in 1..BatchSize, NEW events \in [1..n -> Pending]
    PROVE  /\ Snapshots(events) \in Seq(Snapshot) /\ Len(Snapshots(events)) = n
           /\ DOMAIN Snapshots(events) = 1..n
           /\ \A i \in 1..n : /\ Snapshots(events)[i].event = events[i]
                              /\ Snapshots(events)[i].retry = row[events[i]].retry
                              /\ events[i] \in Events /\ row[events[i]].status = "PENDING"
  <1>1. n \in Nat
    BY OutboxAssumption
  <1>2. \A i \in 1..n : events[i] \in Events /\ row[events[i]].status = "PENDING"
    BY OutboxAssumption DEF Pending, Events, TypeOK
  <1>3. \A i \in 1..n : row[events[i]].retry \in 0..MaxRetries
    BY <1>2 DEF TypeOK, Row
  <1>4. Snapshots(events) = [i \in 1..n |-> [event |-> events[i], retry |-> row[events[i]].retry]]
    BY DEF Snapshots
  <1>5. Snapshots(events) \in [1..n -> Snapshot]
    BY <1>2, <1>3, <1>4 DEF Snapshot
  <1> QED
    BY <1>1, <1>2, <1>4, <1>5, SeqDef, LenProperties

LEMMA CountBound ==
    ASSUME NEW limit \in Nat, NEW n \in 0..limit
    PROVE  /\ Count(n, limit) \in 0..limit /\ n <= Count(n, limit)
           /\ n < limit => Count(n, limit) = n + 1
           /\ limit > 0 => Count(n, limit) > 0
  BY DEF Count

-----------------------------------------------------------------------------
(* The counters a publish, or a failed update, moves. *)
LEMMA CountersGrow ==
    ASSUME TypeOK, NEW e \in Events
    PROVE  /\ [sent EXCEPT ![e] = Count(@, 2)] \in [Events -> 0..2]
           /\ [failures EXCEPT ![e] = Count(@, MaxRetries)] \in [Events -> 0..MaxRetries]
  BY CountBound, OutboxAssumption DEF TypeOK

(* Nothing of what is claimed depends on a counter staying where it is: it *)
(* may grow.                                                               *)
Grow ==
    \A e \in Events : /\ sent[e] <= sent'[e] /\ sent'[e] \in 0..2
                      /\ failures[e] <= failures'[e] /\ failures'[e] \in 0..MaxRetries

LEMMA CountersKeep ==
    ASSUME TruthInv, Grow, UNCHANGED row
    PROVE  RowsTrue'
  <1> SUFFICES ASSUME NEW e \in Events
               PROVE  /\ row[e].status = "PUBLISHED" => sent'[e] > 0
                      /\ row[e].status = "FAILED" => failures'[e] = MaxRetries
    BY DEF RowsTrue
  <1>1. /\ sent[e] \in 0..2 /\ sent'[e] \in 0..2 /\ sent[e] <= sent'[e]
        /\ failures'[e] \in 0..MaxRetries /\ failures[e] <= failures'[e]
    BY DEF TruthInv, TypeOK, Grow
  <1> QED
    BY <1>1, OutboxAssumption DEF TruthInv, RowsTrue

(* A replica drops its first snapshot, or all, or keeps them. *)
Keeps(w) ==
    \/ batch'[w] = batch[w]
    \/ batch[w] # << >> /\ batch'[w] = Tail(batch[w])
    \/ batch'[w] = << >>

LEMMA KeptSnapshots ==
    ASSUME TypeOK, NEW w \in Workers, Keeps(w)
    PROVE  /\ batch'[w] \in Seq(Snapshot) /\ Len(batch'[w]) <= BatchSize
           /\ \A i \in DOMAIN batch'[w] :
                 \E j \in DOMAIN batch[w] : batch'[w][i] = batch[w][j]
  <1>1. CASE batch'[w] = batch[w]
    BY <1>1 DEF TypeOK
  <1>2. CASE batch[w] # << >> /\ batch'[w] = Tail(batch[w])
    <2>1. Len(batch[w]) \in Nat /\ Len(batch[w]) <= BatchSize /\ BatchSize \in Nat
      BY <1>2, FirstSnapshot, OutboxAssumption DEF TypeOK
    <2> QED
      BY <1>2, <2>1, FirstSnapshot
  <1>3. CASE batch'[w] = << >>
    BY <1>3, OutboxAssumption
  <1> QED
    BY <1>1, <1>2, <1>3 DEF Keeps

(* Every step of a replica but the fetch.  What is left to show of each is *)
(* what it writes to the row of the event in hand.                         *)
Moves(w) ==
    /\ created' = created /\ running' = running /\ faults' = faults
    /\ Keeps(w) /\ batch' = [batch EXCEPT ![w] = batch'[w]]
    /\ pc' = [pc EXCEPT ![w] = pc'[w]] /\ pc'[w] \in {"poll", "mark", "fail"}
    /\ channel' \subseteq Workers \X Events /\ arrived' \subseteq Events
    /\ sent' \in [Events -> 0..2] /\ failures' \in [Events -> 0..MaxRetries] /\ Grow

LEMMA MoveTyped ==
    ASSUME TypeOK, NEW w \in Workers, Moves(w), row' \in [Events -> Row]
    PROVE  TypeOK'
  <1>1. batch'[w] \in Seq(Snapshot) /\ Len(batch'[w]) <= BatchSize
    BY KeptSnapshots DEF Moves
  <1>2. \A u \in Workers \ {w} : batch'[u] = batch[u]
    BY DEF Moves, TypeOK
  <1>3. batch' \in [Workers -> Seq(Snapshot)]
    BY <1>1 DEF Moves, TypeOK
  <1>4. \A u \in Workers : Len(batch'[u]) <= BatchSize
    BY <1>1, <1>2 DEF TypeOK
  <1>5. pc' \in [Workers -> {"poll", "mark", "fail"}]
    BY DEF Moves, TypeOK
  <1> QED
    BY <1>3, <1>4, <1>5 DEF Moves, TypeOK

LEMMA MoveTruth ==
    ASSUME TruthInv, NEW w \in Workers, Moves(w), row' \in [Events -> Row], InHand(w)', RowsTrue',
           \A e \in Events : \/ row'[e] = row[e]
                             \/ /\ row'[e].retry <= failures'[e]
                                /\ row'[e].status = "PENDING" => row'[e].retry < MaxRetries
    PROVE  TruthInv'
  <1>1. TypeOK'
    BY MoveTyped DEF TruthInv
  <1>2. ASSUME NEW u \in Workers PROVE InHand(u)'
    <2>1. CASE u = w
      BY <2>1
    <2>2. CASE u # w
      <3>1. batch'[u] = batch[u] /\ pc'[u] = pc[u]
        BY <2>2 DEF Moves, TruthInv, TypeOK
      <3>2. pc[u] # "poll" => Current(u) \in Events /\ Head(batch[u]).retry \in 0..MaxRetries
        BY FirstSnapshot DEF TruthInv, InHand
      <3>3. \A e \in Events : /\ sent[e] \in Nat /\ sent'[e] \in Nat /\ sent[e] <= sent'[e]
                               /\ failures[e] \in Nat /\ failures'[e] \in Nat
                               /\ failures[e] <= failures'[e]
        <4>1. sent \in [Events -> 0..2] /\ failures \in [Events -> 0..MaxRetries] /\ Grow
          BY DEF TruthInv, TypeOK, Moves
        <4> QED
          BY <4>1, OutboxAssumption DEF Grow
      <3>4. InHand(u)
        BY DEF TruthInv
      <3>5. pc[u] # "poll" =>
               /\ batch'[u] # << >>
               /\ sent[Current(u)] > 0 => sent'[Current(u)] > 0
               /\ Head(batch[u]).retry < failures[Current(u)] => Head(batch[u]).retry < failures'[Current(u)]
        BY <3>1, <3>2, <3>3, <3>4, OutboxAssumption DEF InHand
      <3> QED
        BY <3>1, <3>4, <3>5 DEF InHand, Current
    <2> QED
      BY <2>1, <2>2
  <1>3. ASSUME NEW e \in Events
        PROVE  /\ row'[e].retry <= failures'[e]
               /\ row'[e].status = "PENDING" => row'[e].retry < MaxRetries
    BY OutboxAssumption DEF TruthInv, CountsBehind, Moves, Grow, TypeOK, Row
  <1>4. ASSUME NEW u \in Workers, NEW i \in DOMAIN batch'[u]
        PROVE  /\ batch'[u][i].retry <= failures'[batch'[u][i].event]
               /\ batch'[u][i].retry < MaxRetries
    <2>1. PICK j \in DOMAIN batch[u] : batch'[u][i] = batch[u][j]
      <3>1. CASE u = w
        BY <3>1, KeptSnapshots DEF TruthInv, Moves
      <3>2. CASE u # w
        BY <3>2 DEF TruthInv, TypeOK, Moves
      <3> QED
        BY <3>1, <3>2
    <2>2. batch[u][j] \in Snapshot
      BY ElementOfSeq, LenProperties DEF TruthInv, TypeOK
    <2>3. batch[u][j].event \in Events /\ batch[u][j].retry \in Nat
      BY <2>2, OutboxAssumption DEF Snapshot
    <2> QED
      BY <2>1, <2>3, OutboxAssumption DEF TruthInv, CountsBehind, Moves, Grow, TypeOK
  <1>5. CountsBehind'
    BY <1>3, <1>4 DEF CountsBehind
  <1> QED
    BY <1>1, <1>2, <1>5 DEF TruthInv

-----------------------------------------------------------------------------
(* The actions of a replica. *)

LEMMA FetchTruth ==
    ASSUME TruthInv, NEW w \in Workers, FetchBatch(w), UNCHANGED << running, faults >>
    PROVE  TruthInv'
  <1>1. PICK n \in 1..BatchSize : \E events \in [1..n -> Pending] :
            batch' = [batch EXCEPT ![w] = Snapshots(events)]
    BY DEF FetchBatch
  <1>2. PICK events \in [1..n -> Pending] : batch' = [batch EXCEPT ![w] = Snapshots(events)]
    BY <1>1
  <1> DEFINE fetched == Snapshots(events)
  <1>3. /\ fetched \in Seq(Snapshot) /\ Len(fetched) <= BatchSize
        /\ \A i \in DOMAIN fetched :
              /\ fetched[i].retry = row[fetched[i].event].retry
              /\ fetched[i].event \in Events /\ row[fetched[i].event].status = "PENDING"
    BY FetchedBatch, OutboxAssumption DEF TruthInv
  <1> HIDE DEF fetched
  <1>4. batch' = [batch EXCEPT ![w] = fetched]
    BY <1>2 DEF fetched
  <1>5. \A u \in Workers : batch'[u] = IF u = w THEN fetched ELSE batch[u]
    BY <1>4 DEF TruthInv, TypeOK
  <1>6. pc[w] = "poll" /\ UNCHANGED << created, row, pc, channel, arrived, sent, failures, running, faults >>
    BY DEF FetchBatch
  <1>7. TypeOK'
    <2>1. batch' \in [Workers -> Seq(Snapshot)]
      BY <1>3, <1>4 DEF TruthInv, TypeOK
    <2>2. \A u \in Workers : Len(batch'[u]) <= BatchSize
      BY <1>3, <1>5 DEF TruthInv, TypeOK
    <2> QED
      BY <1>6, <2>1, <2>2 DEF TruthInv, TypeOK
  <1>8. \A u \in Workers : InHand(u)'
    BY <1>5, <1>6 DEF TruthInv, InHand, Current
  <1>9. CountsBehind'
    <2>1. \A u \in Workers : \A i \in DOMAIN batch'[u] :
             /\ batch'[u][i].retry <= failures[batch'[u][i].event]
             /\ batch'[u][i].retry < MaxRetries
      BY <1>3, <1>5 DEF TruthInv, CountsBehind
    <2> QED
      BY <1>6, <2>1 DEF TruthInv, CountsBehind
  <1>10. RowsTrue'
    BY <1>6 DEF TruthInv, RowsTrue
  <1> QED
    BY <1>7, <1>8, <1>9, <1>10 DEF TruthInv

(* A counter that counts up is a counter that grows. *)
LEMMA CountGrows ==
    ASSUME TypeOK, NEW e \in Events,
           \/ sent' = sent
           \/ sent' = [sent EXCEPT ![e] = Count(@, 2)],
           \/ failures' = failures
           \/ failures' = [failures EXCEPT ![e] = Count(@, MaxRetries)]
    PROVE  /\ Grow /\ sent' \in [Events -> 0..2] /\ failures' \in [Events -> 0..MaxRetries]
           /\ sent' = [sent EXCEPT ![e] = Count(@, 2)] => sent'[e] > 0
           /\ failures' = [failures EXCEPT ![e] = Count(@, MaxRetries)] /\ failures[e] < MaxRetries
                 => failures'[e] = failures[e] + 1
  <1>1. sent \in [Events -> 0..2] /\ failures \in [Events -> 0..MaxRetries]
    BY DEF TypeOK
  <1>2. \A n \in 0..2 : Count(n, 2) \in 0..2 /\ n <= Count(n, 2) /\ Count(n, 2) > 0
    BY DEF Count
  <1>3. \A n \in 0..MaxRetries :
           /\ Count(n, MaxRetries) \in 0..MaxRetries /\ n <= Count(n, MaxRetries)
           /\ n < MaxRetries => Count(n, MaxRetries) = n + 1
    BY OutboxAssumption DEF Count
  <1>4. sent' \in [Events -> 0..2] /\ \A x \in Events : sent[x] <= sent'[x]
    BY <1>1, <1>2
  <1>5. failures' \in [Events -> 0..MaxRetries] /\ \A x \in Events : failures[x] <= failures'[x]
    BY <1>1, <1>3, OutboxAssumption
  <1>6. sent' = [sent EXCEPT ![e] = Count(@, 2)] => sent'[e] > 0
    BY <1>1, <1>2
  <1>7. failures' = [failures EXCEPT ![e] = Count(@, MaxRetries)] /\ failures[e] < MaxRetries
            => failures'[e] = failures[e] + 1
    BY <1>1, <1>3
  <1> QED
    BY <1>4, <1>5, <1>6, <1>7 DEF Grow

LEMMA PublishTruth ==
    ASSUME TruthInv, NEW w \in Workers, Publish(w), UNCHANGED << running, faults >>
    PROVE  TruthInv'
  <1> DEFINE e == Current(w)
  <1>1. pc[w] = "poll" /\ batch[w] # << >> /\ UNCHANGED << created, row, batch >>
    BY DEF Publish
  <1>2. e \in Events /\ e = batch[w][1].event /\ Head(batch[w]) = batch[w][1] /\ 1 \in DOMAIN batch[w]
    BY <1>1, FirstSnapshot DEF TruthInv, Current
  <1> HIDE DEF e
  <1>3. /\ sent' = sent \/ sent' = [sent EXCEPT ![e] = Count(@, 2)]
        /\ failures' = failures \/ failures' = [failures EXCEPT ![e] = Count(@, MaxRetries)]
        /\ \/ pc' = [pc EXCEPT ![w] = "mark"] /\ sent' = [sent EXCEPT ![e] = Count(@, 2)]
           \/ pc' = [pc EXCEPT ![w] = "fail"] /\ failures' = [failures EXCEPT ![e] = Count(@, MaxRetries)]
    BY DEF Publish, BufferFull, Written, FailedOnce, Goto, e
  <1>4. /\ Grow /\ sent' \in [Events -> 0..2] /\ failures' \in [Events -> 0..MaxRetries]
        /\ sent' = [sent EXCEPT ![e] = Count(@, 2)] => sent'[e] > 0
        /\ failures' = [failures EXCEPT ![e] = Count(@, MaxRetries)] /\ failures[e] < MaxRetries
              => failures'[e] = failures[e] + 1
    BY <1>2, <1>3, CountGrows DEF TruthInv
  <1>5. pc'[w] \in {"mark", "fail"} /\ pc' = [pc EXCEPT ![w] = pc'[w]]
    BY <1>3 DEF TruthInv, TypeOK
  <1>6. Moves(w)
    <2>1. channel' \subseteq Workers \X Events /\ arrived' \subseteq Events
      BY <1>2 DEF Publish, BufferFull, Written, TruthInv, TypeOK, e
    <2> QED
      BY <1>1, <1>4, <1>5, <2>1 DEF Moves, Keeps, TruthInv, TypeOK
  <1>7. InHand(w)'
    <2>1. CASE pc' = [pc EXCEPT ![w] = "mark"] /\ sent' = [sent EXCEPT ![e] = Count(@, 2)]
      <3>1. pc'[w] = "mark"
        BY <2>1 DEF TruthInv, TypeOK
      <3> QED
        BY <1>1, <1>4, <2>1, <3>1 DEF InHand, Current, e
    <2>2. CASE /\ pc' = [pc EXCEPT ![w] = "fail"]
               /\ failures' = [failures EXCEPT ![e] = Count(@, MaxRetries)]
      <3>1. pc'[w] = "fail"
        BY <2>2 DEF TruthInv, TypeOK
      <3>2. /\ Head(batch[w]).retry <= failures[e] /\ Head(batch[w]).retry < MaxRetries
        BY <1>2 DEF TruthInv, CountsBehind
      <3>3. failures[e] \in 0..MaxRetries /\ failures'[e] \in 0..MaxRetries /\ failures[e] <= failures'[e]
        BY <1>2, <1>4 DEF TruthInv, TypeOK, Grow
      <3>4. Head(batch[w]).retry \in 0..MaxRetries
        BY <1>1, FirstSnapshot DEF TruthInv
      <3>5. Head(batch[w]).retry < failures'[e]
        BY <1>4, <2>2, <3>2, <3>3, <3>4, OutboxAssumption
      <3> QED
        BY <1>1, <3>1, <3>5 DEF InHand, Current, e
    <2> QED
      BY <1>3, <2>1, <2>2
  <1>8. RowsTrue'
    BY <1>1, <1>4, CountersKeep
  <1> QED
    BY <1>1, <1>6, <1>7, <1>8, MoveTruth DEF TruthInv, TypeOK

(* A step to "poll" that leaves row and counters alone. *)
LEMMA QuietTruth ==
    ASSUME TruthInv, NEW w \in Workers, Keeps(w), batch' = [batch EXCEPT ![w] = batch'[w]],
           pc' = [pc EXCEPT ![w] = "poll"],
           channel' \subseteq channel,
           UNCHANGED << created, row, arrived, sent, failures, running, faults >>
    PROVE  TruthInv'
  <1>1. sent \in [Events -> 0..2] /\ failures \in [Events -> 0..MaxRetries]
    BY DEF TruthInv, TypeOK
  <1>2. Grow
    BY <1>1, OutboxAssumption DEF Grow
  <1>3. pc'[w] = "poll"
    BY DEF TruthInv, TypeOK
  <1>4. Moves(w)
    BY <1>1, <1>2, <1>3 DEF Moves, TruthInv, TypeOK
  <1>5. InHand(w)'
    BY <1>3 DEF InHand
  <1>6. RowsTrue'
    BY <1>2, CountersKeep
  <1> QED
    BY <1>4, <1>5, <1>6, MoveTruth DEF TruthInv, TypeOK

LEMMA AdvanceKeeps ==
    ASSUME TypeOK, NEW w \in Workers, Advance(w), batch[w] # << >>
    PROVE  /\ Keeps(w) /\ batch' = [batch EXCEPT ![w] = batch'[w]] /\ batch'[w] = Tail(batch[w])
           /\ pc' = [pc EXCEPT ![w] = "poll"] /\ pc'[w] = "poll"
  BY DEF Advance, Goto, Keeps, TypeOK

LEMMA SkipTruth ==
    ASSUME TruthInv, NEW w \in Workers, SkipNotDue(w), UNCHANGED << running, faults >>
    PROVE  TruthInv'
  <1>1. batch[w] # << >> /\ Advance(w) /\ UNCHANGED << created, row, channel, arrived, sent, failures >>
    BY DEF SkipNotDue
  <1> QED
    BY <1>1, AdvanceKeeps, QuietTruth DEF TruthInv

LEMMA CrashTruth ==
    ASSUME TruthInv, NEW w \in Workers, Crash(w), UNCHANGED << running, faults >>
    PROVE  TruthInv'
  <1>1. Keeps(w) /\ batch' = [batch EXCEPT ![w] = batch'[w]]
    BY DEF Crash, Keeps, TruthInv, TypeOK
  <1> QED
    BY <1>1, QuietTruth DEF Crash, Goto

(* A row is rewritten, with the snapshot in hand dropped. *)
LEMMA RewriteTruth ==
    ASSUME TruthInv, NEW w \in Workers, batch[w] # << >>, Advance(w), NEW r \in Row,
           row' = [row EXCEPT ![Current(w)] = r],
           r.retry <= failures[Current(w)],
           r.status = "PENDING" => r.retry < MaxRetries,
           r.status = "PUBLISHED" => sent[Current(w)] > 0,
           r.status = "FAILED" => failures[Current(w)] = MaxRetries,
           UNCHANGED << created, channel, arrived, sent, failures, running, faults >>
    PROVE  TruthInv'
  <1>1. sent \in [Events -> 0..2] /\ failures \in [Events -> 0..MaxRetries] /\ row \in [Events -> Row]
    BY DEF TruthInv, TypeOK
  <1>2. Grow
    BY <1>1, OutboxAssumption DEF Grow
  <1>3. /\ Keeps(w) /\ batch' = [batch EXCEPT ![w] = batch'[w]]
        /\ pc' = [pc EXCEPT ![w] = "poll"] /\ pc'[w] = "poll"
    BY AdvanceKeeps DEF TruthInv
  <1>4. Moves(w)
    BY <1>1, <1>2, <1>3 DEF Moves, TruthInv, TypeOK
  <1>5. InHand(w)'
    BY <1>3 DEF InHand
  <1>6. Current(w) \in Events
    BY FirstSnapshot DEF TruthInv
  <1>7. /\ row' \in [Events -> Row]
        /\ \A e \in Events : row'[e] = IF e = Current(w) THEN r ELSE row[e]
    BY <1>1, <1>6
  <1>8. RowsTrue'
    BY <1>7 DEF TruthInv, RowsTrue
  <1>9. \A e \in Events : \/ row'[e] = row[e]
                          \/ /\ row'[e].retry <= failures'[e]
                             /\ row'[e].status = "PENDING" => row'[e].retry < MaxRetries
    BY <1>7
  <1> QED
    BY <1>4, <1>5, <1>7, <1>8, <1>9, MoveTruth

LEMMA MarkTruth ==
    ASSUME TruthInv, NEW w \in Workers, MarkPublished(w), UNCHANGED << running, faults >>
    PROVE  TruthInv'
  <1> DEFINE e == Current(w)
  <1>1. pc[w] = "mark" /\ batch[w] # << >> /\ sent[e] > 0 /\ UNCHANGED << created, channel, arrived, sent >>
    BY DEF MarkPublished, TruthInv, InHand
  <1>2. /\ e \in Events /\ e = batch[w][1].event /\ Head(batch[w]) = batch[w][1] /\ 1 \in DOMAIN batch[w]
        /\ Head(batch[w]).retry \in 0..MaxRetries
    BY <1>1, FirstSnapshot DEF TruthInv, Current
  <1>3. row[e] \in Row /\ row \in [Events -> Row]
    BY <1>2 DEF TruthInv, TypeOK
  <1>4. CASE row' = [row EXCEPT ![e].status = "PUBLISHED"] /\ Advance(w) /\ UNCHANGED failures
    <2> DEFINE r == [status |-> "PUBLISHED", retry |-> row[e].retry]
    <2>1. row' = [row EXCEPT ![e] = r] /\ r \in Row
      <3>1. row[e].retry \in 0..MaxRetries /\ row[e] = [status |-> row[e].status, retry |-> row[e].retry]
        BY <1>3 DEF Row
      <3>2. [row[e] EXCEPT !.status = "PUBLISHED"] = r
        BY <3>1
      <3>3. row' = [row EXCEPT ![e] = [row[e] EXCEPT !.status = "PUBLISHED"]]
        BY <1>2, <1>3, <1>4
      <3> QED
        BY <3>1, <3>2, <3>3 DEF Row
    <2>2. r.retry <= failures[e]
      BY <1>2 DEF TruthInv, CountsBehind
    <2> QED
      BY <1>1, <1>4, <2>1, <2>2, RewriteTruth
  <1>5. CASE /\ failures' = [failures EXCEPT ![e] = Count(@, MaxRetries)]
             /\ Goto(w, "fail") /\ UNCHANGED << row, batch >>
    <2>0. pc' = [pc EXCEPT ![w] = "fail"] /\ pc'[w] = "fail"
      BY <1>5 DEF Goto, TruthInv, TypeOK
    <2>1. Grow /\ sent' \in [Events -> 0..2] /\ failures' \in [Events -> 0..MaxRetries]
      BY <1>1, <1>2, <1>5, CountGrows DEF TruthInv
    <2>2. failures[e] < MaxRetries => failures'[e] = failures[e] + 1
      BY <1>1, <1>2, <1>5, CountGrows DEF TruthInv
    <2>3. Moves(w)
      BY <1>1, <1>5, <2>0, <2>1 DEF Moves, Keeps, TruthInv, TypeOK
    <2>4. Head(batch[w]).retry <= failures[e] /\ Head(batch[w]).retry < MaxRetries
      BY <1>2 DEF TruthInv, CountsBehind
    <2>5. failures[e] \in 0..MaxRetries /\ failures'[e] \in 0..MaxRetries /\ failures[e] <= failures'[e]
      BY <1>2, <2>1 DEF TruthInv, TypeOK, Grow
    <2>6. Head(batch[w]).retry < failures'[e]
      BY <1>2, <2>2, <2>4, <2>5, OutboxAssumption
    <2>7. InHand(w)'
      BY <1>1, <1>5, <2>0, <2>6 DEF InHand, Current
    <2>8. RowsTrue'
      BY <1>5, <2>1, CountersKeep
    <2> QED
      BY <1>3, <1>5, <2>3, <2>7, <2>8, MoveTruth
  <1> QED
    BY <1>4, <1>5 DEF MarkPublished, FailedOnce

LEMMA RecordTruth ==
    ASSUME TruthInv, NEW w \in Workers, RecordFailure(w), UNCHANGED << running, faults >>
    PROVE  TruthInv'
  <1> DEFINE e == Current(w)
             h == Head(batch[w]).retry
  <1>1. /\ pc[w] = "fail" /\ batch[w] # << >> /\ h < failures[e]
        /\ UNCHANGED << created, channel, arrived, sent, failures >>
    BY DEF RecordFailure, TruthInv, InHand
  <1>2. e \in Events /\ h \in 0..MaxRetries
    BY <1>1, FirstSnapshot DEF TruthInv
  <1>3. row[e] \in Row /\ failures[e] \in 0..MaxRetries
    BY <1>2 DEF TruthInv, TypeOK
  <1>4. CASE row' = [row EXCEPT ![Current(w)] = GivenBack(w, @)] /\ Advance(w)
    <2> DEFINE r == GivenBack(w, row[e])
    <2>1. r = [status |-> IF h + 1 >= MaxRetries THEN "FAILED" ELSE row[e].status, retry |-> h + 1]
      BY DEF GivenBack, LastTry, NextRetry
    <2>2. h + 1 \in 0..MaxRetries /\ h + 1 <= failures[e] /\ (h + 1 >= MaxRetries => failures[e] = MaxRetries)
      BY <1>1, <1>2, <1>3, OutboxAssumption
    <2>3. row[e].status \in {"PENDING", "PUBLISHED", "FAILED"}
      BY <1>3 DEF Row
    <2> HIDE DEF h
    <2>4. r \in Row /\ r.retry <= failures[e] /\ (r.status = "PENDING" => r.retry < MaxRetries)
      BY <2>1, <2>2, <2>3, OutboxAssumption DEF Row
    <2>5. /\ r.status = "PUBLISHED" => sent[e] > 0
          /\ r.status = "FAILED" => failures[e] = MaxRetries
      BY <1>2, <2>1, <2>2, <2>3 DEF TruthInv, RowsTrue
    <2>6. row' = [row EXCEPT ![e] = r]
      BY <1>4
    <2> HIDE DEF r
    <2> QED
      BY <1>1, <1>4, <2>4, <2>5, <2>6, RewriteTruth
  <1>5. CASE batch' = [batch EXCEPT ![w] = << >>] /\ Goto(w, "poll") /\ UNCHANGED row
    <2>1. Keeps(w) /\ batch' = [batch EXCEPT ![w] = batch'[w]]
      BY <1>5 DEF Keeps, TruthInv, TypeOK
    <2> QED
      BY <1>1, <1>5, <2>1, QuietTruth DEF Goto
  <1> QED
    BY <1>4, <1>5 DEF RecordFailure

LEMMA InsertTruth ==
    ASSUME TruthInv, Insert, UNCHANGED << running, faults >>
    PROVE  TruthInv'
  <1>1. created' \in 0..LastEvent
    BY OutboxAssumption DEF TruthInv, TypeOK, Insert
  <1>2. UNCHANGED << row, batch, pc, channel, arrived, sent, failures, running, faults >>
    BY DEF Insert
  <1>3. TypeOK'
    BY <1>1, <1>2 DEF TruthInv, TypeOK
  <1>4. CountsBehind' /\ RowsTrue' /\ \A w \in Workers : InHand(w)'
    BY <1>2 DEF TruthInv, CountsBehind, RowsTrue, InHand, Current
  <1> QED
    BY <1>3, <1>4 DEF TruthInv

(* Messages on their way are none of the rows' business. *)
LEMMA WireTruth ==
    ASSUME TruthInv, channel' \subseteq channel, arrived' \subseteq Events,
           UNCHANGED << created, row, batch, pc, sent, failures, running, faults >>
    PROVE  TruthInv'
  <1>1. TypeOK'
    BY DEF TruthInv, TypeOK
  <1>2. CountsBehind' /\ RowsTrue' /\ \A w \in Workers : InHand(w)'
    BY DEF TruthInv, CountsBehind, RowsTrue, InHand, Current
  <1> QED
    BY <1>1, <1>2 DEF TruthInv

LEMMA DeliverTruth ==
    ASSUME TruthInv, NEW w \in Workers, NEW e \in Events, Deliver(w, e),
           UNCHANGED << running, faults >>
    PROVE  TruthInv'
  <1>1. arrived' \subseteq Events /\ channel' \subseteq channel
    BY DEF Deliver, TruthInv, TypeOK
  <1> QED
    BY <1>1, WireTruth DEF Deliver

LEMMA DisconnectTruth ==
    ASSUME TruthInv, NEW w \in Workers, Disconnect(w), UNCHANGED << running, faults >>
    PROVE  TruthInv'
  <1>1. arrived' \subseteq Events /\ channel' \subseteq channel
    BY DEF Disconnect, TruthInv, TypeOK
  <1> QED
    BY <1>1, WireTruth DEF Disconnect

LEMMA TruthInit == Init => TruthInv
  <1> SUFFICES ASSUME Init PROVE TruthInv
    OBVIOUS
  <1>1. TypeOK
    <2>1. created \in 0..LastEvent /\ row \in [Events -> Row]
      BY OutboxAssumption DEF Init, Row
    <2>2. batch \in [Workers -> Seq(Snapshot)] /\ \A w \in Workers : Len(batch[w]) <= BatchSize
      BY OutboxAssumption DEF Init
    <2>3. sent \in [Events -> 0..2] /\ failures \in [Events -> 0..MaxRetries]
      BY OutboxAssumption DEF Init
    <2>4. running \subseteq Workers /\ faults \subseteq FaultKinds
      <3>1. PICK s \in Scenarios : running = s.running /\ faults = s.faults
        BY DEF Init
      <3>2. s \in [running : SUBSET Workers \ {{}}, faults : SUBSET FaultKinds]
        BY OutboxAssumption
      <3> QED
        BY <3>1, <3>2
    <2> QED
      BY <2>1, <2>2, <2>3, <2>4 DEF Init, TypeOK
  <1>2. (\A w \in Workers : InHand(w)) /\ RowsTrue
    BY DEF Init, InHand, RowsTrue
  <1>3. CountsBehind
    <2>1. \A w \in Workers : DOMAIN batch[w] = {}
      BY DEF Init
    <2> QED
      BY <2>1, OutboxAssumption DEF Init, CountsBehind
  <1> QED
    BY <1>1, <1>2, <1>3 DEF TruthInv

LEMMA TruthStep == TruthInv /\ [Next]_vars => TruthInv'
  <1> SUFFICES ASSUME TruthInv, [Next]_vars PROVE TruthInv'
    OBVIOUS
  <1>1. ASSUME NEW w \in running, Step(w), UNCHANGED << running, faults >> PROVE TruthInv'
    <2>1. w \in Workers
      BY <1>1 DEF TruthInv, TypeOK
    <2> QED
      BY <1>1, <2>1, FetchTruth, SkipTruth, PublishTruth, MarkTruth, RecordTruth DEF Step
  <1>2. ASSUME NEW w \in running, Crash(w), UNCHANGED << running, faults >> PROVE TruthInv'
    BY <1>2, CrashTruth DEF TruthInv, TypeOK
  <1>3. CASE UNCHANGED vars
    BY <1>3, WireTruth DEF vars, workVars, TruthInv, TypeOK
  <1>4. ASSUME NEW w \in running, Disconnect(w), UNCHANGED << running, faults >> PROVE TruthInv'
    BY <1>4, DisconnectTruth DEF TruthInv, TypeOK
  <1>5. ASSUME NEW w \in running, NEW e \in Events, Deliver(w, e), UNCHANGED << running, faults >>
        PROVE  TruthInv'
    BY <1>5, DeliverTruth DEF TruthInv, TypeOK
  <1> QED
    BY <1>1, <1>2, <1>3, <1>4, <1>5, InsertTruth DEF Next

-----------------------------------------------------------------------------
(* One replica, and a channel that reports what it did. *)

(* What is left of a batch is pending as long as no row but that of the    *)
(* event in hand was written.                                              *)
LEMMA RestPending ==
    ASSUME TypeOK, NEW w \in Workers, BatchPending(w), batch[w] # << >>, batch'[w] = Tail(batch[w]),
           \A e \in Events : e # Current(w) => row'[e] = row[e]
    PROVE  /\ BatchPending(w)'
           /\ \A i \in DOMAIN batch'[w] : batch'[w][i].event # Current(w)
  <1>1. /\ Current(w) = batch[w][1].event /\ 1 \in DOMAIN batch[w]
        /\ DOMAIN batch[w] = 1..Len(batch[w]) /\ Len(batch[w]) \in Nat
        /\ DOMAIN batch'[w] = 1..(Len(batch[w]) - 1)
        /\ \A i \in DOMAIN batch'[w] : i + 1 \in DOMAIN batch[w] /\ batch'[w][i] = batch[w][i + 1]
    BY FirstSnapshot DEF Current
  <1>2. ASSUME NEW i \in DOMAIN batch[w] PROVE batch[w][i].event \in Events
    <2>1. batch[w] \in Seq(Snapshot)
      BY DEF TypeOK
    <2>2. batch[w][i] \in Snapshot
      BY <1>1, <2>1, ElementOfSeq
    <2> QED
      BY <2>2 DEF Snapshot
  <1>3. \A i \in DOMAIN batch'[w] : batch'[w][i].event # Current(w)
    BY <1>1 DEF BatchPending
  <1>4. \A i \in DOMAIN batch'[w] : row'[batch'[w][i].event].status = "PENDING"
    BY <1>1, <1>2, <1>3 DEF BatchPending
  <1>5. \A i, j \in DOMAIN batch'[w] : i < j => batch'[w][i].event # batch'[w][j].event
    BY <1>1 DEF BatchPending
  <1> QED
    BY <1>3, <1>4, <1>5 DEF BatchPending

LEMMA SoloFetch ==
    ASSUME TruthInv, NEW w \in Workers, Solo(w), FetchBatch(w)
    PROVE  Solo(w)'
  <1>1. PICK n \in 1..BatchSize : \E events \in [1..n -> Pending] :
            Oldest(events) /\ batch' = [batch EXCEPT ![w] = Snapshots(events)]
    BY DEF FetchBatch
  <1>2. PICK events \in [1..n -> Pending] :
            Oldest(events) /\ batch' = [batch EXCEPT ![w] = Snapshots(events)]
    BY <1>1
  <1>3. /\ batch'[w] = Snapshots(events)
        /\ pc[w] = "poll" /\ UNCHANGED << row, pc, sent >>
    BY <1>2 DEF FetchBatch, TruthInv, TypeOK
  <1>4. /\ DOMAIN batch'[w] = 1..n
        /\ \A i \in 1..n : batch'[w][i].event = events[i] /\ row[events[i]].status = "PENDING"
    BY <1>3, FetchedBatch DEF TruthInv
  <1>5. \A i, j \in 1..n : i < j => events[i] # events[j]
    <2>1. \A i \in 1..n : events[i] \in Int
      BY OutboxAssumption DEF Pending, TruthInv, TypeOK
    <2>2. \A i, j \in 1..n : i < j => events[i] < events[j]
      BY <1>2 DEF Oldest
    <2> QED
      BY <2>1, <2>2
  <1>6. BatchPending(w)'
    BY <1>3, <1>4, <1>5 DEF BatchPending
  <1> QED
    BY <1>3, <1>6 DEF Solo, AboutToMark

LEMMA SoloSkip ==
    ASSUME TruthInv, NEW w \in Workers, Solo(w), SkipNotDue(w)
    PROVE  Solo(w)'
  <1>1. /\ pc[w] = "poll" /\ batch[w] # << >> /\ Advance(w)
        /\ UNCHANGED << row, sent >>
    BY DEF SkipNotDue
  <1>2. batch'[w] = Tail(batch[w]) /\ pc'[w] = "poll"
    BY <1>1, AdvanceKeeps DEF TruthInv
  <1>3. BatchPending(w)'
    BY <1>1, <1>2, RestPending DEF TruthInv, Solo
  <1> QED
    BY <1>1, <1>2, <1>3 DEF Solo, AboutToMark

LEMMA SoloPublish ==
    ASSUME TruthInv, NEW w \in Workers, Solo(w), Publish(w), faults \subseteq {"broker", "connection"}
    PROVE  Solo(w)'
  <1> DEFINE e == Current(w)
  <1>1. /\ pc[w] = "poll" /\ batch[w] # << >> /\ UNCHANGED << row, batch >>
    BY DEF Publish
  <1>2. e \in Events /\ row[e].status = "PENDING"
    BY <1>1, FirstSnapshot DEF TruthInv, Solo, BatchPending, Current
  <1>3. sent[e] = 0
    BY <1>1, <1>2 DEF Solo, AboutToMark
  <1>4. BatchPending(w)'
    BY <1>1 DEF Solo, BatchPending
  <1>5. Current(w)' = e
    BY <1>1 DEF Current
  <1>6. \/ sent' = [sent EXCEPT ![e] = Count(@, 2)] /\ pc' = [pc EXCEPT ![w] = "mark"]
        \/ sent' = sent /\ pc' = [pc EXCEPT ![w] = "fail"]
    BY DEF Publish, BufferFull, Written, Goto
  <1> HIDE DEF e
  <1>7. CASE sent' = [sent EXCEPT ![e] = Count(@, 2)] /\ pc' = [pc EXCEPT ![w] = "mark"]
    <2>1. sent'[e] = 1 /\ \A x \in Events \ {e} : sent'[x] = sent[x]
      BY <1>2, <1>3, <1>7 DEF Count, TruthInv, TypeOK
    <2>2. pc'[w] = "mark"
      BY <1>7 DEF TruthInv, TypeOK
    <2>3. \A x \in Events : AboutToMark(w, x)' <=> x = e
      BY <1>5, <2>2 DEF AboutToMark
    <2>4. \A x \in Events : ~ AboutToMark(w, x)
      BY <1>1 DEF AboutToMark
    <2> QED
      BY <1>1, <1>2, <1>4, <2>1, <2>3, <2>4 DEF Solo
  <1>8. CASE sent' = sent /\ pc' = [pc EXCEPT ![w] = "fail"]
    <2>1. pc'[w] = "fail"
      BY <1>8 DEF TruthInv, TypeOK
    <2> QED
      BY <1>1, <1>4, <1>8, <2>1 DEF Solo, AboutToMark
  <1> QED
    BY <1>6, <1>7, <1>8

LEMMA SoloMark ==
    ASSUME TruthInv, NEW w \in Workers, Solo(w), MarkPublished(w), faults \subseteq {"broker", "connection"}
    PROVE  Solo(w)'
  <1> DEFINE e == Current(w)
  <1>1. /\ pc[w] = "mark" /\ batch[w] # << >> /\ Advance(w) /\ sent' = sent
        /\ row' = [row EXCEPT ![e].status = "PUBLISHED"]
    BY DEF MarkPublished, TruthInv, InHand
  <1>2. batch'[w] = Tail(batch[w]) /\ pc'[w] = "poll"
    BY <1>1, AdvanceKeeps DEF TruthInv
  <1>3. e \in Events
    BY <1>1, FirstSnapshot DEF TruthInv
  <1>4. row'[e].status = "PUBLISHED" /\ \A x \in Events : x # e => row'[x] = row[x]
    BY <1>1, <1>3 DEF TruthInv, TypeOK, Row
  <1>5. BatchPending(w)'
    BY <1>1, <1>2, <1>4, RestPending DEF TruthInv, Solo
  <1>6. sent[e] = 1 /\ \A x \in Events : AboutToMark(w, x) => x = e
    BY <1>1, <1>3 DEF Solo, AboutToMark
  <1>7. \A x \in Events : ~ AboutToMark(w, x)'
    BY <1>2 DEF AboutToMark
  <1> QED
    BY <1>1, <1>3, <1>4, <1>5, <1>6, <1>7 DEF Solo

LEMMA SoloRecord ==
    ASSUME TruthInv, NEW w \in Workers, Solo(w), RecordFailure(w), faults \subseteq {"broker", "connection"}
    PROVE  Solo(w)'
  <1> DEFINE e == Current(w)
  <1>1. /\ pc[w] = "fail" /\ batch[w] # << >> /\ Advance(w) /\ sent' = sent
        /\ row' = [row EXCEPT ![e] = GivenBack(w, @)]
    BY DEF RecordFailure, TruthInv, InHand
  <1>2. batch'[w] = Tail(batch[w]) /\ pc'[w] = "poll"
    BY <1>1, AdvanceKeeps DEF TruthInv
  <1>3. e \in Events /\ row[e].status = "PENDING"
    BY <1>1, FirstSnapshot DEF TruthInv, Solo, BatchPending, Current
  <1>4. row'[e].status # "PUBLISHED" /\ \A x \in Events : x # e => row'[x] = row[x]
    BY <1>1, <1>3 DEF TruthInv, TypeOK, GivenBack
  <1>5. BatchPending(w)'
    BY <1>1, <1>2, <1>4, RestPending DEF TruthInv, Solo
  <1>6. \A x \in Events : ~ AboutToMark(w, x) /\ ~ AboutToMark(w, x)'
    BY <1>1, <1>2 DEF AboutToMark
  <1> QED
    BY <1>1, <1>3, <1>4, <1>5, <1>6 DEF Solo

(* Nobody but the one replica moves. *)
LEMMA SoloStep == TruthInv /\ SoloInv /\ [Next]_vars => SoloInv'
  <1> SUFFICES ASSUME TruthInv, SoloInv, [Next]_vars,
                      NEW w \in Workers, running' = {w}, faults' \subseteq {"broker", "connection"}
               PROVE  Solo(w)'
    BY DEF SoloInv
  <1>1. running = {w} /\ faults \subseteq {"broker", "connection"} /\ Solo(w)
    BY DEF Next, vars, SoloInv
  <1>2. CASE UNCHANGED << row, batch, pc, sent >>
    BY <1>1, <1>2 DEF Solo, BatchPending, AboutToMark, Current
  <1>3. CASE Step(w)
    BY <1>1, <1>3, SoloFetch, SoloSkip, SoloPublish, SoloMark, SoloRecord DEF Step
  <1>4. ~ Crash(w)
    BY <1>1 DEF Crash
  <1> QED
    BY <1>1, <1>2, <1>3, <1>4 DEF Next, Insert, Deliver, Disconnect, vars, workVars

LEMMA SoloInit == Init => SoloInv
  <1> SUFFICES ASSUME Init, NEW w \in Workers PROVE Solo(w)
    BY DEF SoloInv
  <1>1. DOMAIN batch[w] = {}
    BY DEF Init
  <1> QED
    BY <1>1 DEF Init, Solo, BatchPending, AboutToMark

-----------------------------------------------------------------------------
(* Buffers that survive. *)

(* What is on its way gets there. *)
LEMMA ReachKept ==
    ASSUME TypeOK, BuffersSurvive, [Next]_vars, NEW e \in Events, Reaches(e)
    PROVE  Reaches(e)'
  <1>1. ASSUME channel \subseteq channel', arrived' = arrived PROVE Reaches(e)'
    BY <1>1 DEF Reaches
  <1>2. ASSUME NEW w \in running, Step(w) PROVE Reaches(e)'
    <2>1. channel \subseteq channel' /\ arrived' = arrived
      BY <1>2 DEF Step, FetchBatch, SkipNotDue, Publish, BufferFull, Written, MarkPublished, RecordFailure
    <2> QED
      BY <1>1, <2>1
  <1>3. ASSUME NEW w \in running, NEW x \in Events, Deliver(w, x) PROVE Reaches(e)'
    <2>1. arrived' = arrived \cup {x} /\ channel' = channel \ {<< w, x >>}
      BY <1>3 DEF Deliver
    <2> QED
      BY <2>1 DEF Reaches
  <1>4. ~ (\E w \in running : Disconnect(w) \/ Crash(w))
    BY DEF Disconnect, Crash, BuffersSurvive
  <1> QED
    BY <1>1, <1>2, <1>3, <1>4 DEF Next, Insert, vars, workVars

(* Who does not publish or mark, and rewrites a row, does not write        *)
(* PUBLISHED to it.                                                        *)
LEMMA ReachQuiet ==
    ASSUME TypeOK, ReachInv, BuffersSurvive, BuffersSurvive', [Next]_vars,
           \A e \in Events : row'[e].status = "PUBLISHED" => row[e].status = "PUBLISHED",
           \A w \in Workers : pc'[w] = "mark" => /\ pc[w] = "mark" /\ Current(w) \in Events
                                                 /\ Current(w)' = Current(w)
    PROVE  ReachInv'
  <1>1. PublishedReach'
    BY ReachKept DEF ReachInv, PublishedReach
  <1>2. ASSUME NEW w \in Workers, pc'[w] = "mark" PROVE Reaches(Current(w))'
    <2>1. Reaches(Current(w)) /\ Current(w) \in Events /\ Current(w)' = Current(w)
      BY <1>2 DEF ReachInv
    <2>2. \A e \in Events : Reaches(e) => Reaches(e)'
      BY ReachKept
    <2> QED
      BY <2>1, <2>2 DEF Reaches
  <1> QED
    BY <1>1, <1>2 DEF ReachInv

(* The others' snapshots in hand. *)
LEMMA OthersStay ==
    ASSUME TruthInv, NEW w \in Workers,
           batch' = [batch EXCEPT ![w] = batch'[w]], pc' = [pc EXCEPT ![w] = pc'[w]]
    PROVE  \A u \in Workers \ {w} :
              pc'[u] = "mark" => /\ pc[u] = "mark" /\ Current(u) \in Events
                                 /\ Current(u)' = Current(u)
  <1> SUFFICES ASSUME NEW u \in Workers \ {w}, pc'[u] = "mark"
               PROVE  pc[u] = "mark" /\ Current(u) \in Events /\ Current(u)' = Current(u)
    OBVIOUS
  <1>1. batch'[u] = batch[u] /\ pc'[u] = pc[u]
    BY DEF TruthInv, TypeOK
  <1>2. batch[u] # << >>
    BY <1>1 DEF TruthInv, InHand
  <1> QED
    BY <1>1, <1>2, FirstSnapshot DEF TruthInv, Current

LEMMA ReachPublish ==
    ASSUME TruthInv, ReachInv, BuffersSurvive, BuffersSurvive', [Next]_vars,
           NEW w \in Workers, Publish(w)
    PROVE  ReachInv'
  <1>1. batch[w] # << >> /\ UNCHANGED << row, batch >>
    BY DEF Publish
  <1>2. Current(w) \in Events /\ Current(w)' = Current(w)
    BY <1>1, FirstSnapshot DEF TruthInv, Current
  <1>3. /\ pc'[w] \in {"mark", "fail"} /\ pc' = [pc EXCEPT ![w] = pc'[w]]
        /\ pc'[w] = "mark" => << w, Current(w) >> \in channel'
    BY DEF Publish, BufferFull, Written, Goto, TruthInv, TypeOK
  <1>4. PublishedReach'
    BY <1>1, ReachKept DEF ReachInv, PublishedReach, TruthInv
  <1>5. ASSUME NEW u \in Workers, pc'[u] = "mark" PROVE Reaches(Current(u))'
    <2>1. CASE u = w
      BY <1>2, <1>3, <1>5, <2>1 DEF Reaches
    <2>2. CASE u # w
      <3>1. pc[u] = "mark" /\ Current(u) \in Events /\ Current(u)' = Current(u)
        BY <1>1, <1>3, <1>5, <2>2, OthersStay DEF TruthInv, TypeOK
      <3>2. Reaches(Current(u))
        BY <3>1 DEF ReachInv
      <3>3. \A e \in Events : Reaches(e) => Reaches(e)'
        BY ReachKept DEF TruthInv
      <3> QED
        BY <3>1, <3>2, <3>3 DEF Reaches
    <2> QED
      BY <2>1, <2>2
  <1> QED
    BY <1>4, <1>5 DEF ReachInv

(* Markers, and whoever drops the snapshot in hand. *)
LEMMA ReachDrop ==
    ASSUME TruthInv, ReachInv, BuffersSurvive, BuffersSurvive', [Next]_vars, NEW w \in Workers,
           batch' = [batch EXCEPT ![w] = batch'[w]], pc' = [pc EXCEPT ![w] = pc'[w]],
           pc'[w] # "mark",
           \A e \in Events : row'[e].status = "PUBLISHED" => row[e].status = "PUBLISHED" \/ Reaches(e)
    PROVE  ReachInv'
  <1>1. PublishedReach'
    BY ReachKept DEF ReachInv, PublishedReach, TruthInv
  <1>2. ASSUME NEW u \in Workers, pc'[u] = "mark" PROVE Reaches(Current(u))'
    <2>1. pc[u] = "mark" /\ Current(u) \in Events /\ Current(u)' = Current(u)
      BY <1>2, OthersStay
    <2>2. Reaches(Current(u))
      BY <2>1 DEF ReachInv
    <2>3. \A e \in Events : Reaches(e) => Reaches(e)'
      BY ReachKept DEF TruthInv
    <2> QED
      BY <2>1, <2>2, <2>3 DEF Reaches
  <1> QED
    BY <1>1, <1>2 DEF ReachInv

LEMMA ReachStep == TruthInv /\ ReachInv /\ [Next]_vars => ReachInv'
  <1> SUFFICES ASSUME TruthInv, ReachInv, [Next]_vars, BuffersSurvive' PROVE ReachInv'
    BY DEF ReachInv
  <1>1. BuffersSurvive
    BY DEF BuffersSurvive, Next, vars
  <1>2. ASSUME UNCHANGED << row, batch, pc >> PROVE ReachInv'
    <2>1. \A w \in Workers : pc[w] = "mark" => Current(w) \in Events
      BY FirstSnapshot DEF TruthInv, InHand
    <2> QED
      BY <1>1, <1>2, <2>1, ReachQuiet DEF TruthInv, Current
  <1>3. ASSUME NEW w \in running, Step(w) PROVE ReachInv'
    <2>1. w \in Workers
      BY DEF TruthInv, TypeOK
    <2>2. CASE FetchBatch(w)
      <3>1. /\ pc[w] = "poll" /\ UNCHANGED << row, pc >>
            /\ \E b : batch' = [batch EXCEPT ![w] = b]
        BY <2>2 DEF FetchBatch
      <3>2. batch' = [batch EXCEPT ![w] = batch'[w]] /\ pc' = [pc EXCEPT ![w] = pc'[w]]
        BY <2>1, <3>1 DEF TruthInv, TypeOK
      <3> QED
        BY <1>1, <2>1, <3>1, <3>2, ReachDrop
    <2>3. CASE SkipNotDue(w)
      <3>1. batch[w] # << >> /\ Advance(w) /\ UNCHANGED row
        BY <2>3 DEF SkipNotDue
      <3> QED
        BY <1>1, <2>1, <3>1, AdvanceKeeps, ReachDrop DEF TruthInv
    <2>4. CASE Publish(w)
      BY <1>1, <2>1, <2>4, ReachPublish
    <2>5. CASE MarkPublished(w)
      <3>1. batch[w] # << >> /\ pc[w] = "mark" /\ Reaches(Current(w)) /\ Current(w) \in Events
        BY <1>1, <2>1, <2>5, FirstSnapshot DEF MarkPublished, TruthInv, InHand, ReachInv
      <3>2. CASE row' = [row EXCEPT ![Current(w)].status = "PUBLISHED"] /\ Advance(w)
        <4>1. \A e \in Events : e # Current(w) => row'[e] = row[e]
          BY <3>2 DEF TruthInv, TypeOK
        <4>2. \A e \in Events : row'[e].status = "PUBLISHED" => row[e].status = "PUBLISHED" \/ Reaches(e)
          BY <3>1, <4>1
        <4> QED
          BY <1>1, <2>1, <3>1, <3>2, <4>2, AdvanceKeeps, ReachDrop DEF TruthInv
      <3>3. CASE Goto(w, "fail") /\ UNCHANGED << row, batch >>
        <4>1. pc'[w] = "fail" /\ pc' = [pc EXCEPT ![w] = pc'[w]] /\ batch' = [batch EXCEPT ![w] = batch'[w]]
          BY <2>1, <3>3 DEF Goto, TruthInv, TypeOK
        <4> QED
          BY <1>1, <2>1, <3>3, <4>1, ReachDrop
      <3> QED
        BY <2>5, <3>2, <3>3 DEF MarkPublished
    <2>6. CASE RecordFailure(w)
      <3>1. batch[w] # << >> /\ Current(w) \in Events
        BY <2>1, <2>6, FirstSnapshot DEF RecordFailure, TruthInv, InHand
      <3>2. CASE row' = [row EXCEPT ![Current(w)] = GivenBack(w, @)] /\ Advance(w)
        <4> DEFINE r == GivenBack(w, row[Current(w)])
        <4>0. row' = [row EXCEPT ![Current(w)] = r]
          BY <3>2
        <4>1. r.status = "PUBLISHED" => row[Current(w)].status = "PUBLISHED"
          BY DEF GivenBack
        <4> HIDE DEF r
        <4>2. \A e \in Events : row'[e].status = "PUBLISHED" => row[e].status = "PUBLISHED"
          BY <3>1, <4>0, <4>1 DEF TruthInv, TypeOK
        <4> QED
          BY <1>1, <2>1, <3>1, <3>2, <4>2, AdvanceKeeps, ReachDrop DEF TruthInv
      <3>3. CASE batch' = [batch EXCEPT ![w] = << >>] /\ Goto(w, "poll") /\ UNCHANGED row
        <4>1. pc'[w] = "poll" /\ pc' = [pc EXCEPT ![w] = pc'[w]] /\ batch' = [batch EXCEPT ![w] = batch'[w]]
          BY <2>1, <3>3 DEF Goto, TruthInv, TypeOK
        <4> QED
          BY <1>1, <2>1, <3>3, <4>1, ReachDrop
      <3> QED
        BY <2>6, <3>2, <3>3 DEF RecordFailure
    <2> QED
      BY <1>3, <2>2, <2>3, <2>4, <2>5, <2>6 DEF Step
  <1>4. ASSUME NEW w \in running, Disconnect(w) \/ Crash(w) PROVE FALSE
    BY <1>1, <1>4 DEF Disconnect, Crash, BuffersSurvive
  <1> QED
    BY <1>2, <1>3, <1>4 DEF Next, Insert, Deliver, vars, workVars

LEMMA ReachInit == Init => ReachInv
  BY DEF Init, ReachInv, PublishedReach

(***************************************************************************)
(* A row says PUBLISHED of an event that was written to a channel, and     *)
(* that is at the exchange or on its way unless a buffer was lost; and     *)
(* FAILED of one that failed MaxRetries times, whatever replicas overwrite *)
(* of each other.  One replica, with a channel that reports what it did,   *)
(* writes each event once, and no event it gives up.                       *)
(***************************************************************************)
THEOREM RowsAlwaysTellTruth == Spec => []RowsTellTruth
  <1>1. TruthInv /\ SoloInv /\ ReachInv => RowsTellTruth
    <2> SUFFICES ASSUME TruthInv, SoloInv, ReachInv PROVE RowsTellTruth
      OBVIOUS
    <2>1. ASSUME Undisturbed, NEW e \in Events
          PROVE  sent[e] <= 1 /\ (row[e].status = "FAILED" => sent[e] = 0)
      <3>1. PICK w \in Workers : running = {w} /\ faults \subseteq {"broker", "connection"}
        BY <2>1 DEF Undisturbed
      <3>2. Solo(w)
        BY <3>1 DEF SoloInv
      <3>3. AboutToMark(w, e) => row[e].status = "PENDING"
        BY <3>2, FirstSnapshot DEF TruthInv, InHand, Solo, BatchPending, AboutToMark, Current
      <3> QED
        BY <3>2, <3>3 DEF Solo
    <2>2. ASSUME NEW e \in Events, row[e].status = "PUBLISHED", BuffersSurvive PROVE Reaches(e)
      BY <2>2 DEF ReachInv, PublishedReach
    <2> QED
      BY <2>1, <2>2 DEF TruthInv, RowsTrue, RowsTellTruth
  <1> QED
    BY <1>1, TruthInit, TruthStep, SoloInit, SoloStep, ReachInit, ReachStep, PTL DEF Spec
=============================================================================
