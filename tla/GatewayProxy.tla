---------------------------- MODULE GatewayProxy ----------------------------
(***************************************************************************)
(* The two users of a circuit breaker.  A "client" protects its actions    *)
(* with execute (LedgerClient, the outbox worker).  The gateway's "proxy"  *)
(* works on the breaker's fields itself: it admits like execute, counts    *)
(* an error of the connection as a failure, every answer below 500 as a    *)
(* success, a 5xx as neither, and sends a GET a second time after an error *)
(* or a 503 without asking the breaker again.                              *)
(***************************************************************************)
EXTENDS CircuitBreaker

\* The proxy sends a GET twice.
ASSUME ProxyAssumption == MaxSends >= 2

VARIABLES
    use,     \* "client" or "proxy"; constant
    get,     \* proxy: which requests are GETs
    spoilt   \* proxy: requests whose 503 went out before they were sent again

movingVars == << workVars, get, spoilt >>
proxyVars == << movingVars, width, use >>

ProxyInit ==
    /\ Init
    /\ use \in {"client", "proxy"}
    /\ get = {} /\ spoilt = {}

-----------------------------------------------------------------------------
(* createMicroserviceProxy.  An OPEN breaker answers 503 at once, which    *)
(* changes nothing.                                                        *)
Enter(r) ==
    /\ Cardinality(InFlight) < width
    /\ Admit(r)
    /\ get' \in {get \ {r}, get \cup {r}}
    /\ spoilt' = spoilt \ {r}

\* Mutant: _retried is not remembered.
MayRetryAgain(r) == r \in get
MayRetry(r) == r \in get /\ sends[r] = 1

\* on.error: 502 or 504, unless a GET failed in a way worth a second try.
\* Neither is counted when it goes out; the error itself has been counted.
ProxyError(r) ==
    /\ sends[r] > 0 /\ ~healthy
    /\ CountFailure
    /\ \/ MayRetry(r) /\ sends' = [sends EXCEPT ![r] = 2] /\ UNCHANGED probes
       \/ Return(r)
    /\ UNCHANGED << healthy, proven, get, spoilt >>

(* on.proxyRes: a GET that got a 503 is sent again, while the proxy        *)
(* library passes the 503 on to the client.                                *)
Unavailable(r) ==
    /\ MayRetry(r)
    /\ sends' = [sends EXCEPT ![r] = 2]
    /\ spoilt' = spoilt \cup {r}
    /\ UNCHANGED << breakerVars, healthy, probes, proven, get >>

\* res.on("finish") below 500; the answer of a spoilt request reaches no one.
Finish(r) ==
    /\ r \notin spoilt
    /\ Succeed(r)
    /\ UNCHANGED << get, spoilt >>

\* A 5xx of the service, the end of a spoilt request, or the client gone.
FinishUncounted(r) ==
    /\ Return(r)
    /\ UNCHANGED << breakerVars, healthy, proven, get, spoilt >>

Visit(r) == ProxyError(r) \/ Finish(r) \/ FinishUncounted(r)

ProxyNext ==
    \/ \E r \in Requests : Enter(r) \/ Unavailable(r) \/ Visit(r)
    \/ (Reset \/ Elapse \/ Flip) /\ UNCHANGED << get, spoilt >>

UseNext ==
    \/ use = "client" /\ Next /\ UNCHANGED << use, get, spoilt >>
    \/ use = "proxy" /\ ProxyNext /\ UNCHANGED << use, width >>

(***************************************************************************)
(* The clock runs; the demand never dries up, and a healthy service does   *)
(* not refuse (4xx to a client, 5xx to the proxy) all of it; every request *)
(* of the proxy is answered or times out.                                  *)
(***************************************************************************)
Begin(r) ==
    \/ use = "client" /\ Execute(r) /\ UNCHANGED << get, spoilt >>
    \/ use = "proxy" /\ Enter(r)

Prove(r) ==
    /\ healthy
    /\ \/ use = "client" /\ Succeed(r) /\ UNCHANGED << get, spoilt >>
       \/ use = "proxy" /\ Finish(r)

UseFairness ==
    /\ WF_movingVars(Elapse /\ UNCHANGED << get, spoilt >>)
    /\ SF_movingVars(\E r \in Requests : Begin(r))
    /\ SF_movingVars(\E r \in Requests : Prove(r))
    /\ \A r \in Requests : WF_movingVars(use = "proxy" /\ Visit(r))

UseSpec == ProxyInit /\ [][UseNext]_proxyVars /\ UseFairness

-----------------------------------------------------------------------------
(* Once the service is back for good, the breaker closes for good, however *)
(* many requests overlap and whatever late results still come in.          *)
Recovers == <>[]healthy => <>[](state = "CLOSED")

(***************************************************************************)
(* A caller with one request at a time gets what the documentation says:   *)
(* only SuccessThreshold successful probes close the breaker, and nothing  *)
(* is sent while it is OPEN, except that the proxy may send a GET again    *)
(* after the error that opened it.  For any caller, late results push no   *)
(* counter to its threshold without the transition it stands for.          *)
(***************************************************************************)
SerialCallersAreSafe ==
    []TypeOK /\
    [][width = 1 => /\ Earned
                    /\ Quiet \/ \E r \in get : MayRetry(r) /\ ProxyError(r)]_proxyVars

(* Every request the proxy lets in comes to an end, although it may be sent*)
(* again and the service may never come back.                              *)
EveryVisitEnds == use = "proxy" => \A r \in Requests : sends[r] > 0 ~> sends[r] = 0
=============================================================================
