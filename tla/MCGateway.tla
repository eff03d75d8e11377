----------------------------- MODULE MCGateway ------------------------------
(***************************************************************************)
(* Small instances of the gateway's guards for TLC.  The rate limiter and  *)
(* the breakers of the proxies share no state; a behaviour follows one of  *)
(* the two, and the other does not move.                                   *)
(***************************************************************************)
EXTENDS GatewayProxy, RateLimiter

CONSTANTS Payments, Generals

MCLimit == [tier \in Tiers |-> IF tier = "PAYMENT" THEN Payments ELSE Generals]

MCVars == << proxyVars, limiterVars >>

\* In a behaviour of the limiter, nobody uses the breaker; the clocks are
\* compared with the slowest of them.
MCInit ==
    \/ /\ ProxyInit
       /\ LimiterInit /\ \A g \in Replicas : ahead[g] = 0
    \/ /\ LimiterInit /\ \E g \in Replicas : ahead[g] = 0
       /\ Init /\ width = 1 /\ use = "nobody" /\ get = {} /\ spoilt = {}

MCNext ==
    \/ UseNext /\ UNCHANGED limiterVars
    \/ use = "nobody" /\ LimiterNext /\ UNCHANGED proxyVars

MCSpec == MCInit /\ [][MCNext]_MCVars /\ UseFairness
=============================================================================
