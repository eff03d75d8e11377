--------------------------- MODULE Account_proofs ---------------------------
(***************************************************************************)
(* Theorems about the account service, AccountCache, for any number of     *)
(* requests, postings and failures of Redis, and about the payment form    *)
(* that shows its balances, TransferForm, for any amounts, balances and    *)
(* number of payments.                                                     *)
(***************************************************************************)
EXTENDS AccountCache, TransferForm, TLAPS

Requests == [pc : {"idle", "getBalance", "getDetails", "find", "setDetails", "setBalance"},
             who : Callers, what : Reads, row : Row \cup {NoRow}]

Answers == [who : Callers, row : Row \cup {NoRow}]

RecordsTyped == reader \in [Readers -> Requests] /\ told \in [Readers -> Answers]

(* A request that holds a row has been allowed to see it. *)
HoldersAllowed ==
    \A r \in Readers : reader[r].row # NoRow \/ reader[r].pc \in {"setDetails", "setBalance"}
                          => Allowed(reader[r].who)

CacheInv == CacheTypeOK /\ RecordsTyped /\ HoldersAllowed /\ OwnersOnly

-----------------------------------------------------------------------------
LEMMA NoRowIsNoRow == NoRow \notin Row
  BY DEF NoRow, Row

LEMMA CacheInvInit == CacheInit => CacheInv
  BY AccountCacheAssumption
  DEF CacheInit, CacheInv, CacheTypeOK, RecordsTyped, HoldersAllowed, OwnersOnly, Requests,
      Answers, Idle, Nothing, Callers, Reads, NoRow

(* A request is answered with a row it may see, or with nothing. *)
LEMMA AnsweredWell ==
    ASSUME CacheInv, NEW r \in Readers, NEW v \in Row \cup {NoRow}, Answered(r, v),
           v # NoRow => Allowed(reader[r].who),
           row' \in Row \cup {NoRow}, details' \in Row \cup {NoRow},
           balance' \in Row \cup {NoRow},
           attempts' \in 0 .. MaxAttempts, due' \in Nat, errors' \in 0 .. MaxErrors
    PROVE  CacheInv'
  <1>1. Idle \in Requests
    BY DEF Idle, Requests, Callers, Reads
  <1>2. [who |-> reader[r].who, row |-> v] \in Answers
    BY DEF CacheInv, RecordsTyped, Requests, Answers
  <1>3. RecordsTyped'
    BY <1>1, <1>2 DEF CacheInv, RecordsTyped, Answered
  <1>4. CacheTypeOK'
    BY <1>3 DEF CacheTypeOK, RecordsTyped, Requests, Answers
  <1>5. HoldersAllowed'
    BY DEF CacheInv, RecordsTyped, HoldersAllowed, Answered, Idle
  <1>6. \A q \in Readers : told'[q].row # NoRow => Allowed(told'[q].who)
    BY DEF CacheInv, RecordsTyped, OwnersOnly, Answered
  <1> QED
    BY <1>3, <1>4, <1>5, <1>6 DEF CacheInv, OwnersOnly

(* A request goes on to its next step. *)
LEMMA GoesWell ==
    ASSUME CacheInv, NEW r \in Readers, NEW v \in Row \cup {NoRow},
           NEW l \in {"getDetails", "find", "setDetails", "setBalance"}, Goes(r, l, v),
           v # NoRow \/ l \in {"setDetails", "setBalance"} => Allowed(reader[r].who),
           row' \in Row \cup {NoRow}, details' \in Row \cup {NoRow},
           balance' \in Row \cup {NoRow},
           attempts' \in 0 .. MaxAttempts, due' \in Nat, errors' \in 0 .. MaxErrors
    PROVE  CacheInv'
  <1>1. \A q \in Readers : q # r => reader'[q] = reader[q]
    BY DEF CacheInv, RecordsTyped, Goes
  <1>2. /\ reader'[r] \in Requests /\ reader'[r].row = v /\ reader'[r].pc = l
        /\ reader'[r].who = reader[r].who
    BY DEF CacheInv, RecordsTyped, Goes, Requests
  <1>3. RecordsTyped'
    BY <1>1, <1>2 DEF CacheInv, RecordsTyped, Goes
  <1>4. CacheTypeOK'
    BY <1>3 DEF CacheTypeOK, RecordsTyped, Requests, Answers
  <1>5. HoldersAllowed'
    BY <1>1, <1>2 DEF CacheInv, HoldersAllowed
  <1> QED
    BY <1>3, <1>4, <1>5 DEF CacheInv, OwnersOnly, Goes

(* What getAccountDetails found goes on to its caller or to the balance. *)
LEMMA ReturnsWell ==
    ASSUME CacheInv, NEW r \in Readers, NEW v \in Row \cup {NoRow}, Returns(r, v),
           Allowed(reader[r].who),
           row' \in Row \cup {NoRow}, details' \in Row \cup {NoRow},
           balance' \in Row \cup {NoRow},
           attempts' \in 0 .. MaxAttempts, due' \in Nat, errors' \in 0 .. MaxErrors
    PROVE  CacheInv'
  BY AnsweredWell, GoesWell DEF Returns

LEMMA CacheInvStep == CacheInv /\ [CacheNext]_cacheVars => CacheInv'
  <1> SUFFICES ASSUME CacheInv, [CacheNext]_cacheVars PROVE CacheInv'
    OBVIOUS
  <1>0. /\ row \in Row \cup {NoRow} /\ details \in Row \cup {NoRow} /\ balance \in Row \cup {NoRow}
        /\ attempts \in 0 .. MaxAttempts /\ due \in Nat /\ errors \in 0 .. MaxErrors
    BY DEF CacheInv, CacheTypeOK
  <1>1. RedisError => errors' \in 0 .. MaxErrors
    BY <1>0, AccountCacheAssumption DEF RedisError
  <1>2. ASSUME UNCHANGED << reader, told >>,
               row' \in Row \cup {NoRow}, details' \in Row \cup {NoRow},
               balance' \in Row \cup {NoRow},
               attempts' \in 0 .. MaxAttempts, due' \in Nat, errors' \in 0 .. MaxErrors
        PROVE  CacheInv'
    BY <1>2 DEF CacheInv, CacheTypeOK, RecordsTyped, HoldersAllowed, OwnersOnly
  <1>3. CASE Open
    <2>1. row' \in Row \cup {NoRow}
      BY <1>0, <1>3, AccountCacheAssumption DEF Open, Row
    <2>2. attempts' \in 0 .. MaxAttempts
      BY <1>0, <1>3, AccountCacheAssumption DEF Open
    <2> QED
      BY <1>0, <1>2, <1>3, <2>1, <2>2 DEF Open
  <1>4. ASSUME NEW n \in Amounts, Posted(n) PROVE CacheInv'
    <2>1. row' \in Row
      BY <1>0, <1>4, AccountCacheAssumption DEF Posted, Row, NoRow
    <2> QED
      BY <1>0, <1>2, <1>4, <2>1 DEF Posted
  <1>5. CASE InvalidateAccounts
    BY <1>0, <1>1, <1>2, <1>5 DEF InvalidateAccounts
  <1>6. CASE ExpireDetails \/ ExpireBalance
    BY <1>0, <1>2, <1>6 DEF ExpireDetails, ExpireBalance
  <1>7. ASSUME NEW r \in Readers, NEW who \in Callers, NEW what \in Reads, Ask(r, who, what)
        PROVE  CacheInv'
    <2> DEFINE asked == [pc |-> IF what = "balance" THEN "getBalance"
                                ELSE IF what = "details" THEN "getDetails" ELSE "find",
                         who |-> who, what |-> what, row |-> NoRow]
    <2>1. asked \in Requests /\ Nothing \in Answers
      BY DEF Requests, Answers, Nothing, Callers
    <2>2. asked.row = NoRow /\ asked.pc \notin {"setDetails", "setBalance"} /\ Nothing.row = NoRow
      BY DEF Nothing
    <2>3. reader' = [reader EXCEPT ![r] = asked] /\ told' = [told EXCEPT ![r] = Nothing]
      BY <1>7 DEF Ask
    <2> HIDE DEF asked
    <2>4. RecordsTyped'
      BY <2>1, <2>3 DEF CacheInv, RecordsTyped
    <2>5. HoldersAllowed' /\ \A q \in Readers : told'[q].row # NoRow => Allowed(told'[q].who)
      BY <2>2, <2>3 DEF CacheInv, RecordsTyped, HoldersAllowed, OwnersOnly
    <2>6. CacheTypeOK'
      BY <1>0, <1>7, <2>4 DEF Ask, CacheTypeOK, RecordsTyped, Requests, Answers
    <2> QED
      BY <2>4, <2>5, <2>6 DEF CacheInv, OwnersOnly
  <1>8. ASSUME NEW r \in Readers, GetBalance(r) PROVE CacheInv'
    BY <1>0, <1>1, <1>8, AnsweredWell, GoesWell DEF GetBalance
  <1>9. ASSUME NEW r \in Readers, GetDetails(r) PROVE CacheInv'
    BY <1>0, <1>1, <1>9, AnsweredWell, GoesWell, ReturnsWell DEF GetDetails
  <1>10. ASSUME NEW r \in Readers, Find(r) \/ List(r) PROVE CacheInv'
    BY <1>0, <1>10, AnsweredWell, GoesWell DEF Find, List
  <1>11. ASSUME NEW r \in Readers, SetDetails(r) PROVE CacheInv'
    <2>1. Allowed(reader[r].who) /\ reader[r].row \in Row \cup {NoRow}
      BY <1>11 DEF SetDetails, CacheInv, CacheTypeOK, HoldersAllowed
    <2> QED
      BY <1>0, <1>1, <1>11, <2>1, ReturnsWell DEF SetDetails
  <1>12. ASSUME NEW r \in Readers, SetBalance(r) PROVE CacheInv'
    <2>1. Allowed(reader[r].who) /\ reader[r].row \in Row \cup {NoRow}
      BY <1>12 DEF SetBalance, CacheInv, CacheTypeOK, HoldersAllowed
    <2> QED
      BY <1>0, <1>1, <1>12, <2>1, AnsweredWell DEF SetBalance
  <1>13. CASE UNCHANGED cacheVars
    BY <1>0, <1>2, <1>13 DEF cacheVars
  <1> QED
    BY <1>3, <1>4, <1>5, <1>6, <1>7, <1>8, <1>9, <1>10, <1>11, <1>12, <1>13
    DEF CacheNext, Reading

(* However requests fill the two entries from each other, and whatever     *)
(* fails, nobody but the owner and the staff is told a balance.            *)
THEOREM OnlyOwnersAreTold == CacheSpec => []OwnersOnly
  <1>1. CacheInv => OwnersOnly
    BY DEF CacheInv
  <1>2. CacheSpec => CacheInit /\ [][CacheNext]_cacheVars
    BY DEF CacheSpec
  <1> QED
    BY <1>1, <1>2, CacheInvInit, CacheInvStep, PTL

-----------------------------------------------------------------------------
(***************************************************************************)
(* The receipt of the payment form.  That the form looks at what was sent, *)
(* and not at what it shows when the answer comes, is all the argument     *)
(* needs.                                                                  *)
(***************************************************************************)

\* The payments sent are records of four fields.
CallShape ==
    /\ call = [k \in Calls |-> call[k]]
    /\ \A k \in Calls : call[k] = [kind |-> call[k].kind, amount |-> call[k].amount,
                                   server |-> call[k].server, client |-> call[k].client]

ReceiptInv == CallShape /\ ReceiptTells

\* Payment k has moved money and the browser has heard so.
Done(k) == call[k].server = "posted" /\ call[k].client = "ok"

\* Nothing is sent, served or heard in place of a payment that is done.
DoneStays ==
    \A k \in Calls : Done(k) => call'[k] = call[k]

\* The receipt, while it is on the screen, is as true as before.
LEMMA ReceiptStays ==
    ASSUME ReceiptTells, DoneStays, receipt' = receipt \/ receipt' = NoReceipt
    PROVE  ReceiptTells'
  <1> SUFFICES ASSUME receipt' # NoReceipt  PROVE ReceiptTells'
    BY DEF ReceiptTells
  <1>1. receipt' = receipt
    OBVIOUS
  <1>2. PICK k \in Calls : Done(k) /\ call[k].kind = receipt.kind /\ call[k].amount = receipt.amount
    BY <1>1 DEF ReceiptTells, Done
  <1>3. call'[k] = call[k]
    BY <1>2 DEF DoneStays
  <1> QED
    BY <1>1, <1>2, <1>3 DEF ReceiptTells, Done

\* The form starts without a receipt and with nothing sent.
LEMMA ReceiptInit == FormInit => ReceiptInv
  BY DEF FormInit, ReceiptInv, CallShape, ReceiptTells, Unsent

\* Sending writes where nothing was sent, at most twice.
LEMMA SendReceipt ==
    ASSUME ReceiptInv, OnSubmit
    PROVE  ReceiptInv'
  <1>1. CASE UNCHANGED call
    BY <1>1 DEF ReceiptInv, CallShape, ReceiptTells, OnSubmit
  <1>2. CASE \E ks \in SUBSET Calls : Send(ks)
    <2>1. PICK ks \in SUBSET Calls : Send(ks)
      BY <1>2
    <2>2. call' = [k \in Calls |->
             IF k \in ks
             THEN [kind |-> tab, amount |-> amount, server |-> "sent", client |-> "waiting"]
             ELSE call[k]]
      BY <2>1 DEF Send
    <2>3. \A k \in ks : k \in Calls /\ call[k] = Unsent
      BY <2>1 DEF Send
    <2>4. CallShape'
      BY <2>2 DEF ReceiptInv, CallShape
    <2>5. DoneStays
      BY <2>2, <2>3 DEF DoneStays, Done, Unsent
    <2> QED
      BY <2>4, <2>5, ReceiptStays DEF ReceiptInv, OnSubmit
  <1> QED
    BY <1>1, <1>2 DEF OnSubmit

\* The service decides about a payment it has not decided, or posts it again.
LEMMA ServerReceipt ==
    ASSUME ReceiptInv, NEW k \in Calls, Serve(k) \/ Refuse(k)
    PROVE  ReceiptInv'
  <1>1. PICK s : call' = [call EXCEPT ![k].server = s]
    BY DEF Serve, Refuse
  <1>2. \/ call[k].server = "sent"
        \/ call' = [call EXCEPT ![k].server = "posted"]
    BY DEF Serve, Refuse, Again
  <1>3. CallShape'
    BY <1>1 DEF ReceiptInv, CallShape
  <1>4. DoneStays
    BY <1>1, <1>2 DEF ReceiptInv, CallShape, DoneStays, Done
  <1>5. receipt' = receipt
    BY DEF Serve, Refuse, screenVars
  <1> QED
    BY <1>3, <1>4, <1>5, ReceiptStays DEF ReceiptInv

\* An answer is heard once: whoever hears was waiting.
LEMMA HeardOnce ==
    ASSUME ReceiptInv, NEW k \in Calls, NEW client, Hears(k, client)
    PROVE  /\ CallShape' /\ DoneStays
           /\ call'[k] = [call[k] EXCEPT !.client = client]
  <1>1. call[k].client = "waiting" /\ call' = [call EXCEPT ![k].client = client]
    BY DEF Hears
  <1> QED
    BY <1>1 DEF ReceiptInv, CallShape, DoneStays, Done

\* The receipt a success makes is of the payment that succeeded.
LEMMA SuccessReceipt ==
    ASSUME ReceiptInv, NEW k \in Calls, OnSuccess(k)
    PROVE  ReceiptInv'
  <1>1. call[k].server = "posted" /\ Hears(k, "ok")
    BY DEF OnSuccess
  <1>2. CallShape' /\ DoneStays /\ call'[k] = [call[k] EXCEPT !.client = "ok"]
    BY <1>1, HeardOnce
  <1>3. CASE receipt' = receipt
    BY <1>2, <1>3, ReceiptStays DEF ReceiptInv
  <1>4. CASE receipt' = [kind |-> call[k].kind, amount |-> call[k].amount]
    <2>1. /\ call'[k].server = "posted" /\ call'[k].client = "ok"
          /\ call'[k].kind = receipt'.kind /\ call'[k].amount = receipt'.amount
      BY <1>1, <1>2, <1>4 DEF ReceiptInv, CallShape
    <2> QED
      BY <1>2, <2>1 DEF ReceiptInv, ReceiptTells
  <1> QED
    BY <1>3, <1>4 DEF OnSuccess

LEMMA ErrorReceipt ==
    ASSUME ReceiptInv, NEW k \in Calls, OnError(k)
    PROVE  ReceiptInv'
  <1>1. PICK client : Hears(k, client)
    BY DEF OnError
  <1>2. CallShape' /\ DoneStays
    BY <1>1, HeardOnce
  <1> QED
    BY <1>2, ReceiptStays DEF ReceiptInv, OnError

\* The other actions send and answer nothing, and at most take the receipt away.
LEMMA ReceiptStep ==
    ASSUME ReceiptInv, [FormNext]_formVars
    PROVE  ReceiptInv'
  <1>1. ASSUME UNCHANGED call, receipt' = receipt \/ receipt' = NoReceipt
        PROVE  ReceiptInv'
    <2>1. DoneStays /\ CallShape'
      BY <1>1 DEF DoneStays, ReceiptInv, CallShape
    <2> QED
      BY <1>1, <2>1, ReceiptStays DEF ReceiptInv
  <1>2. CASE Receive \/ FetchFails \/ ReceiveAccounts \/ HandleManualBalanceRefresh \/ PaymentEvent
    BY <1>1, <1>2 DEF Receive, FetchFails, ReceiveAccounts, HandleManualBalanceRefresh,
                      PaymentEvent, screenVars
  <1>3. CASE \E mode \in Kinds : Address(mode) \/ HandleTabChange(mode)
    BY <1>1, <1>3 DEF Address, HandleTabChange
  <1>4. CASE Type \/ NewOperation \/ Leave
    BY <1>1, <1>4 DEF Type, NewOperation, Leave
  <1>5. CASE OnSubmit
    BY <1>5, SendReceipt
  <1>6. CASE \E k \in Calls : Serve(k) \/ Refuse(k) \/ OnSuccess(k) \/ OnError(k)
    BY <1>6, ServerReceipt, SuccessReceipt, ErrorReceipt
  <1>7. CASE UNCHANGED formVars
    BY <1>1, <1>7 DEF formVars, screenVars
  <1> QED
    BY <1>2, <1>3, <1>4, <1>5, <1>6, <1>7 DEF FormNext

(***************************************************************************)
(* Whatever the customer does while a payment runs, however many payments  *)
(* and tabs there are, a receipt on the screen is of money that has moved. *)
(***************************************************************************)
THEOREM ReceiptsAreTrue == FormSpec => []ReceiptTells
  <1>1. FormInit => ReceiptInv
    BY ReceiptInit
  <1>2. ReceiptInv /\ [FormNext]_formVars => ReceiptInv'
    BY ReceiptStep
  <1>3. ReceiptInv => ReceiptTells
    BY DEF ReceiptInv
  <1> QED
    BY <1>1, <1>2, <1>3, PTL DEF FormSpec
=============================================================================
