---------------------------- MODULE TransferForm ----------------------------
(***************************************************************************)
(* A customer in the browser, with the form that transfers, deposits and   *)
(* withdraws.  React Query keeps the balance of the account, and the list  *)
(* of accounts, whether the form is shown or not.                          *)
(*                                                                         *)
(* The account service answers with a balance the account has had, for its *)
(* cache may be behind, see AccountCache.  The payment service refuses a   *)
(* payment or posts it, a transfer possibly more than once, see            *)
(* PaymentService, and the answer may never reach the browser.             *)
(***************************************************************************)
EXTENDS Naturals, Integers, FiniteSets

CONSTANTS
    Funds,         \* balances to start from
    Kinds,         \* the tabs of the form that are used
    Typed,         \* amounts typed into the form
    MaxSubmits     \* payments sent

ASSUME TransferFormAssumption ==
    /\ Funds \subseteq Nat
    /\ Kinds \subseteq {"transfer", "deposit", "withdraw"}
    /\ Typed \subseteq Nat \ {0} /\ MaxSubmits \in Nat

Calls == 1 .. MaxSubmits
Unknown == -1

VARIABLES
    funds,      \* the balance of the account
    past,       \* the balances it has had
    open,       \* the form is on the screen
    tab,        \* activeTab
    amount,     \* the amount in the form, 0 when empty
    err,        \* there is an errorMessage
    receipt,    \* operationReceipt
    call,       \* the payments sent: what for, what came of it, what was heard
    current,    \* the call each of the form's mutations observes, 0 for none
    shown,      \* data of the balance query
    listed,     \* data of the accounts query
    fetch       \* the balance query: "none", "stale" or "running"

accountVars == <<funds, past>>
screenVars == <<open, tab, amount, err, receipt>>
queryVars == <<shown, listed, fetch>>
formVars == <<accountVars, screenVars, call, current, queryVars>>

NoReceipt == [kind |-> "none", amount |-> 0]
Unsent == [kind |-> "none", amount |-> 0, server |-> "none", client |-> "none"]
NoCall == [kind \in Kinds |-> 0]

FormInit ==
    /\ funds \in Funds /\ past = {funds}
    /\ open = FALSE /\ tab \in Kinds /\ amount = 0
    /\ err = FALSE /\ receipt = NoReceipt
    /\ call = [k \in Calls |-> Unsent] /\ current = NoCall
    /\ shown = Unknown /\ listed = Unknown /\ fetch = "stale"

Available ==
    IF shown # Unknown THEN shown ELSE IF listed # Unknown THEN listed ELSE 0
IsPending == \E kind \in Kinds : current[kind] # 0 /\ call[current[kind]].client = "waiting"
FormShown == open /\ receipt = NoReceipt

-----------------------------------------------------------------------------
(* The queries. *)

\* invalidateQueries fetches again what is on the screen; what is not is stale
\* until the form opens, and a fetch under way makes it fresh.
Invalidated == IF open THEN "running" ELSE IF fetch = "running" THEN fetch ELSE "stale"

Receive ==
    /\ fetch = "running" /\ fetch' = "none"
    /\ shown' \in past
    /\ UNCHANGED <<accountVars, screenVars, call, current, listed>>

\* The client and the query give up on a request.
FetchFails ==
    /\ fetch = "running" /\ fetch' = "none"
    /\ UNCHANGED <<accountVars, screenVars, call, current, shown, listed>>

ReceiveAccounts ==
    /\ open /\ listed' \in past
    /\ UNCHANGED <<accountVars, screenVars, call, current, shown, fetch>>

HandleManualBalanceRefresh ==
    /\ FormShown /\ fetch # "running" /\ fetch' = "running"
    /\ UNCHANGED <<accountVars, screenVars, call, current, shown, listed>>

\* payment.completed arrives over the event stream.
PaymentEvent ==
    /\ Cardinality(past) > 1 /\ fetch' = Invalidated
    /\ UNCHANGED <<accountVars, screenVars, call, current, shown, listed>>

-----------------------------------------------------------------------------
(* The form. *)

\* A link of the dashboard, or an address while the form is there: the tab
\* follows it and nothing else does.  A form that opens fetches what is stale,
\* or has become so with time.
Address(mode) ==
    /\ open' = TRUE /\ tab' = mode
    /\ \/ fetch' = IF fetch = "stale" THEN "running" ELSE fetch
       \/ ~ open /\ fetch' = "running"
    /\ UNCHANGED <<accountVars, amount, err, receipt, call, current, shown, listed>>

HandleTabChange(newTab) ==
    /\ FormShown
    /\ tab' = newTab /\ err' = FALSE
    /\ UNCHANGED <<accountVars, open, amount, receipt, call, current, queryVars>>

Type ==
    /\ FormShown
    /\ \/ amount' \in Typed
       \/ tab # "deposit" /\ Available > 0 /\ amount' = Available
    /\ UNCHANGED <<accountVars, open, tab, err, receipt, call, current, queryVars>>

\* A second click may come before the button is drawn disabled.
Send(ks) ==
    /\ ks \subseteq {k \in Calls : call[k] = Unsent}
    /\ call' = [k \in Calls |->
           IF k \in ks
           THEN [kind |-> tab, amount |-> amount, server |-> "sent", client |-> "waiting"]
           ELSE call[k]]
    /\ \E k \in ks : current' = [current EXCEPT ![tab] = k]
    /\ err' = FALSE

OnSubmit ==
    /\ FormShown /\ ~ IsPending /\ amount > 0
    /\ IF tab # "deposit" /\ amount > Available
       THEN err' = TRUE /\ UNCHANGED <<call, current>>
       ELSE \E ks \in SUBSET Calls : Cardinality(ks) \in 1 .. 2 /\ Send(ks)
    /\ UNCHANGED <<accountVars, open, tab, amount, receipt, queryVars>>

NewOperation ==
    /\ receipt # NoReceipt /\ receipt' = NoReceipt
    /\ UNCHANGED <<accountVars, open, tab, amount, err, call, current, queryVars>>

\* The form goes, its mutations keep no observer.
Leave ==
    /\ open /\ open' = FALSE
    /\ amount' = 0 /\ err' = FALSE /\ receipt' = NoReceipt /\ current' = NoCall
    /\ UNCHANGED <<accountVars, tab, call, queryVars>>

-----------------------------------------------------------------------------
(* A payment. *)

Moved(k) == IF call[k].kind = "deposit" THEN call[k].amount ELSE - call[k].amount

\* A transfer that timed out at the ledger may be posted again.
Again(k) == call[k].server = "posted" /\ call[k].kind = "transfer"

Serve(k) ==
    /\ call[k].server = "sent" \/ Again(k)
    /\ funds + Moved(k) >= 0
    /\ funds' = funds + Moved(k) /\ past' = past \cup {funds'}
    /\ call' = [call EXCEPT ![k].server = "posted"]
    /\ UNCHANGED <<screenVars, current, queryVars>>

Refuse(k) ==
    /\ call[k].server = "sent"
    /\ call' = [call EXCEPT ![k].server = "refused"]
    /\ UNCHANGED <<accountVars, screenVars, current, queryVars>>

\* What a mutation tells the form, if the form still observes it.
Observed(k) == current[call[k].kind] = k

Hears(k, client) ==
    call[k].client = "waiting" /\ call' = [call EXCEPT ![k].client = client]

\* Mutant for ReceiptTells: the receipt reads the form, not what was sent.
OnSuccessOfForm(k) ==
    /\ call[k].server = "posted" /\ Hears(k, "ok")
    /\ fetch' = Invalidated
    /\ IF Observed(k)
       THEN /\ receipt' = [kind |-> tab, amount |-> amount]
            /\ err' = FALSE /\ amount' = 0
       ELSE UNCHANGED <<receipt, err, amount>>
    /\ UNCHANGED <<accountVars, open, tab, current, shown, listed>>

OnSuccess(k) ==
    /\ call[k].server = "posted" /\ Hears(k, "ok")
    /\ fetch' = Invalidated
    /\ IF Observed(k)
       THEN /\ receipt' = [kind |-> call[k].kind, amount |-> call[k].amount]
            /\ err' = FALSE /\ amount' = 0
       ELSE UNCHANGED <<receipt, err, amount>>
    /\ UNCHANGED <<accountVars, open, tab, current, shown, listed>>

\* Refused by the service; or no answer within ten seconds, for good.
OnError(k) ==
    /\ \/ call[k].server = "refused" /\ Hears(k, "refused")
       \/ Hears(k, "unknown")
    /\ err' = (err \/ Observed(k))
    /\ UNCHANGED <<accountVars, open, tab, amount, receipt, current, queryVars>>

-----------------------------------------------------------------------------

FormNext ==
    \/ Receive \/ FetchFails \/ ReceiveAccounts \/ HandleManualBalanceRefresh \/ PaymentEvent
    \/ \E mode \in Kinds : Address(mode) \/ HandleTabChange(mode)
    \/ Type \/ OnSubmit \/ NewOperation \/ Leave
    \/ \E k \in Calls : Serve(k) \/ Refuse(k) \/ OnSuccess(k) \/ OnError(k)

FormSpec == FormInit /\ [][FormNext]_formVars

-----------------------------------------------------------------------------
(***************************************************************************)
(* The receipt on the screen is of a payment that has moved this kind and  *)
(* amount of money, though amount, tab and address may have changed while  *)
(* it ran, the button may have been clicked twice, and the form may have   *)
(* been left and opened again.                                             *)
(***************************************************************************)
ReceiptTells ==
    receipt # NoReceipt =>
        \E k \in Calls : /\ call[k].server = "posted" /\ call[k].client = "ok"
                         /\ call[k].kind = receipt.kind
                         /\ call[k].amount = receipt.amount
=============================================================================
