--------------------------- MODULE Gateway_proofs ---------------------------
(***************************************************************************)
(* The gateway: what a caller with one request at a time gets from the     *)
(* circuit breaker, for any thresholds, requests and both users of it;     *)
(* what several replicas let through the window of one user; and that a    *)
(* tab behind one replica misses no live event and acts on none twice.     *)
(***************************************************************************)
EXTENDS GatewayProxy, RateLimiter, LiveEvents, FiniteSetTheorems, SequenceTheorems, TLAPS

-----------------------------------------------------------------------------

(* One at a time: a request begins only when none is in flight. *)
OneAtATime == \A q, r \in Requests : sends[q] > 0 /\ sends[r] > 0 => q = r

(* The request in flight of a HALF_OPEN breaker is one of its probes, so   *)
(* each success it counts is a probe's.                                    *)
ProbesCounted ==
    state = "HALF_OPEN" => proven = successes /\ \A r \in Requests : sends[r] > 0 => r \in probes

(* Only the proxy has a request in flight when the breaker opens, and that *)
(* has been sent again already.                                            *)
OpenIsQuiet ==
    state = "OPEN" => \A r \in Requests : sends[r] > 0 => use = "proxy" /\ sends[r] = 2

Serial == OneAtATime /\ ProbesCounted /\ OpenIsQuiet

UseInv ==
    /\ TypeOK /\ use \in {"client", "proxy"}
    /\ width = 1 => Serial

LEMMA Numbers ==
    /\ FailureThreshold \in Nat /\ FailureThreshold >= 1
    /\ SuccessThreshold \in Nat /\ SuccessThreshold >= 1
    /\ MaxSends \in Nat /\ MaxSends >= 2
  BY BreakerAssumption, ProxyAssumption

(* A breaker that opens or closes starts its timer over. *)
LEMMA TimerOver == Open \/ Close => elapsed' \in BOOLEAN
  BY Zenon DEF Open, Close

LEMMA UseInit == ProxyInit => UseInv
  <1> SUFFICES ASSUME ProxyInit PROVE UseInv
    OBVIOUS
  <1>1. \A r \in Requests : sends[r] = 0
    BY DEF ProxyInit, Init
  <1>2. TypeOK
    <2>1. elapsed \in BOOLEAN
      BY Zenon DEF ProxyInit, Init
    <2> QED
      BY <2>1, Numbers DEF ProxyInit, Init, TypeOK
  <1>3. Serial
    BY <1>1 DEF ProxyInit, Init, Serial, OneAtATime, ProbesCounted, OpenIsQuiet
  <1> QED
    BY <1>2, <1>3 DEF ProxyInit, UseInv

(* With room for one request, a request enters when none is in flight. *)
LEMMA EntersAlone ==
    ASSUME TypeOK, width = 1, Cardinality(InFlight) < width
    PROVE  \A r \in Requests : sends[r] = 0
  <1>1. IsFiniteSet(InFlight)
    <2>1. InFlight \subseteq Requests
      BY DEF InFlight
    <2> QED
      BY <2>1, BreakerAssumption, FS_Subset
  <1>2. Cardinality(InFlight) = 0
    BY <1>1, FS_CardinalityType
  <1>3. InFlight = {}
    BY <1>1, <1>2, FS_EmptySet
  <1> QED
    BY <1>3 DEF InFlight, TypeOK

(* The two counters stay below the thresholds they trip at. *)
LEMMA CountersTyped ==
    ASSUME TypeOK, CountFailure \/ CountSuccess
    PROVE  /\ state' \in {"CLOSED", "OPEN", "HALF_OPEN"}
           /\ failures' \in 0..FailureThreshold /\ successes' \in 0..SuccessThreshold
           /\ elapsed' \in BOOLEAN
           /\ state' = "CLOSED" => failures' < FailureThreshold
           /\ state' = "HALF_OPEN" => successes' < SuccessThreshold
  <1>0. /\ state \in {"CLOSED", "OPEN", "HALF_OPEN"}
        /\ failures \in 0..FailureThreshold /\ successes \in 0..SuccessThreshold
        /\ elapsed \in BOOLEAN
        /\ state = "CLOSED" => failures < FailureThreshold
        /\ state = "HALF_OPEN" => successes < SuccessThreshold
    BY DEF TypeOK
  <1>1. CASE CountFailure
    <2>1. CASE state # "CLOSED"
      BY <1>0, <1>1, <2>1, TimerOver, Numbers DEF CountFailure, Open, breakerVars
    <2>2. CASE state = "CLOSED" /\ TripsNow
      BY <1>0, <1>1, <2>2, TimerOver, Numbers DEF CountFailure, Open
    <2>3. CASE state = "CLOSED" /\ ~TripsNow
      BY <1>0, <1>1, <2>3, Numbers DEF CountFailure, TripsNow
    <2> QED
      BY <2>1, <2>2, <2>3
  <1>2. CASE CountSuccess
    <2>1. CASE state # "HALF_OPEN"
      BY <1>0, <1>2, <2>1, Numbers DEF CountSuccess, breakerVars
    <2>2. CASE state = "HALF_OPEN" /\ RecoversNow
      BY <1>0, <1>2, <2>2, TimerOver, Numbers DEF CountSuccess, Close
    <2>3. CASE state = "HALF_OPEN" /\ ~RecoversNow
      BY <1>0, <1>2, <2>3, Numbers DEF CountSuccess, RecoversNow
    <2> QED
      BY <2>1, <2>2, <2>3
  <1> QED
    BY <1>1, <1>2

LEMMA AdmitStep ==
    ASSUME UseInv, NEW r \in Requests, Cardinality(InFlight) < width, Admit(r),
           use' = use, width' = width
    PROVE  UseInv' /\ state' # "OPEN"
  <1>1. TypeOK' /\ state' # "OPEN"
    BY Numbers DEF UseInv, TypeOK, Admit, HalfOpen, breakerVars
  <1>2. ASSUME width = 1 PROVE Serial'
    <2>1. \A q \in Requests : sends[q] = 0
      BY <1>2, EntersAlone DEF UseInv
    <2>2. \A q \in Requests : sends'[q] > 0 => q = r
      BY <2>1 DEF Admit, UseInv, TypeOK
    <2>3. ProbesCounted'
      BY <1>2, <2>2 DEF UseInv, Serial, ProbesCounted, Admit, HalfOpen, breakerVars
    <2> QED
      BY <1>1, <2>2, <2>3 DEF Serial, OneAtATime, OpenIsQuiet
  <1> QED
    BY <1>1, <1>2 DEF UseInv

(* A request comes back, counted as the code counts it, or is sent again. *)
LEMMA ReturnStep ==
    ASSUME UseInv, NEW r \in Requests, Return(r), CountFailure \/ UNCHANGED breakerVars,
           UNCHANGED <<healthy, proven, use, width>>
    PROVE  UseInv'
  <1>1. TypeOK'
    BY CountersTyped, Numbers DEF UseInv, TypeOK, Return, breakerVars
  <1>2. ASSUME width = 1 PROVE Serial'
    <2>1. \A q \in Requests : sends'[q] > 0 => sends'[q] = sends[q] /\ q # r
      BY DEF Return, UseInv, TypeOK
    <2>2. \A q \in Requests : sends'[q] = 0
      BY <1>2, <2>1, <1>1 DEF UseInv, Serial, OneAtATime, TypeOK, Return
    <2>3. ProbesCounted'
      BY <1>2, <2>2 DEF UseInv, Serial, ProbesCounted, CountFailure, Open, breakerVars
    <2> QED
      BY <2>2, <2>3 DEF Serial, OneAtATime, OpenIsQuiet
  <1> QED
    BY <1>1, <1>2 DEF UseInv

LEMMA SucceedStep ==
    ASSUME UseInv, NEW r \in Requests, Succeed(r), UNCHANGED <<use, width>>
    PROVE  UseInv' /\ (width = 1 => Earned)
  <1>0. /\ sends[r] > 0 /\ sends' = [sends EXCEPT ![r] = 0] /\ probes' = probes \ {r}
        /\ proven' = IF r \in probes /\ proven < SuccessThreshold THEN proven + 1 ELSE proven
        /\ healthy' = healthy /\ CountSuccess
    BY DEF Succeed, Return
  <1>1. TypeOK'
    BY <1>0, CountersTyped, Numbers DEF UseInv, TypeOK
  <1>2. ASSUME width = 1 PROVE Serial' /\ Earned
    <2>1. \A q \in Requests : sends'[q] = 0
      BY <1>0, <1>1, <1>2 DEF UseInv, Serial, OneAtATime, TypeOK
    <2>2. CASE state = "HALF_OPEN"
      <3>1. proven = successes /\ successes < SuccessThreshold /\ r \in probes
        BY <1>0, <1>2, <2>2 DEF UseInv, Serial, ProbesCounted, TypeOK
      <3>2. proven' = successes + 1
        BY <1>0, <3>1
      <3>3. \/ state' = "CLOSED" /\ proven' = SuccessThreshold
            \/ state' = "HALF_OPEN" /\ successes' = successes + 1
        BY <1>0, <2>2, <3>1, <3>2, Numbers DEF CountSuccess, RecoversNow, Close, UseInv, TypeOK
      <3> QED
        BY <2>1, <3>2, <3>3 DEF Serial, OneAtATime, ProbesCounted, OpenIsQuiet, Earned
    <2>3. CASE state # "HALF_OPEN"
      <3>1. state' = state
        BY <1>0, <2>3 DEF CountSuccess, breakerVars
      <3> QED
        BY <2>1, <2>3, <3>1 DEF Serial, OneAtATime, ProbesCounted, OpenIsQuiet, Earned
    <2> QED
      BY <2>2, <2>3
  <1> QED
    BY <1>1, <1>2 DEF UseInv

LEMMA ResendStep ==
    ASSUME UseInv, NEW r \in Requests, sends[r] > 0, NEW n \in 1..MaxSends,
           sends' = [sends EXCEPT ![r] = n], UNCHANGED <<healthy, probes, proven, use, width>>,
           \/ UNCHANGED breakerVars /\ (state = "OPEN" => use = "proxy" /\ n = 2)
           \/ CountFailure /\ use = "proxy" /\ n = 2
    PROVE  UseInv'
  <1>0. n \in 0..MaxSends
    BY Numbers
  <1>c. /\ state' \in {"CLOSED", "OPEN", "HALF_OPEN"}
        /\ failures' \in 0..FailureThreshold /\ successes' \in 0..SuccessThreshold
        /\ elapsed' \in BOOLEAN
        /\ state' = "CLOSED" => failures' < FailureThreshold
        /\ state' = "HALF_OPEN" => successes' < SuccessThreshold
    BY CountersTyped DEF UseInv, TypeOK, breakerVars
  <1>1. TypeOK'
    BY <1>0, <1>c DEF UseInv, TypeOK
  <1>2. ASSUME width = 1 PROVE Serial'
    <2>1. \A q \in Requests : sends'[q] > 0 => q = r
      BY <1>2 DEF UseInv, Serial, OneAtATime, TypeOK
    <2>2. sends'[r] = n /\ r \in Requests
      BY DEF UseInv, TypeOK
    <2>3. CASE UNCHANGED breakerVars
      BY <1>2, <2>1, <2>2, <2>3
      DEF UseInv, Serial, OneAtATime, ProbesCounted, OpenIsQuiet, breakerVars, CountFailure
    <2>4. CASE CountFailure /\ use = "proxy" /\ n = 2
      <3>1. state' # "HALF_OPEN"
        BY <2>4 DEF CountFailure, Open, breakerVars, UseInv, TypeOK
      <3> QED
        BY <2>1, <2>2, <2>4, <3>1 DEF Serial, OneAtATime, ProbesCounted, OpenIsQuiet
    <2> QED
      BY <2>3, <2>4
  <1> QED
    BY <1>1, <1>2 DEF UseInv

(* Time, the administrator and the service itself send nothing. *)
LEMMA IdleStep ==
    ASSUME UseInv, Reset \/ Elapse \/ Flip, UNCHANGED <<use, width>>
    PROVE  UseInv'
  <1>1. TypeOK'
    <2>1. elapsed' \in BOOLEAN
      <3>1. CASE Reset
        BY <3>1, TimerOver DEF Reset
      <3>2. CASE Elapse
        BY <3>2, Zenon DEF Elapse
      <3>3. CASE Flip
        BY <3>3 DEF Flip, breakerVars, UseInv, TypeOK
      <3> QED
        BY <3>1, <3>2, <3>3
    <2>2. /\ UNCHANGED <<sends, probes, proven>>
          /\ \/ UNCHANGED <<state, failures, successes>>
             \/ state' = "CLOSED" /\ failures' = 0 /\ successes' = 0
      <3>1. Close => state' = "CLOSED" /\ failures' = 0 /\ successes' = 0
        BY Zenon DEF Close
      <3> QED
        BY <3>1 DEF Reset, Elapse, Flip, breakerVars
    <2>3. healthy' \in BOOLEAN
      BY DEF UseInv, TypeOK, Reset, Elapse, Flip
    <2> QED
      BY <2>1, <2>2, <2>3, Numbers DEF UseInv, TypeOK
  <1>2. width = 1 => Serial'
    BY DEF UseInv, Serial, OneAtATime, ProbesCounted, OpenIsQuiet, Reset, Close, Elapse, Flip,
           breakerVars
  <1> QED
    BY <1>1, <1>2 DEF UseInv

Exempt == \E r \in get : MayRetry(r) /\ ProxyError(r)

(* What each step does to the invariant and to the promise. *)
LEMMA UseStep ==
    ASSUME UseInv, [UseNext]_proxyVars
    PROVE  UseInv' /\ (width = 1 => Earned /\ (Quiet \/ Exempt))
  <1>t. /\ sends \in [Requests -> 0..MaxSends] /\ MaxSends \in Nat
        /\ state \in {"CLOSED", "OPEN", "HALF_OPEN"}
    BY Numbers DEF UseInv, TypeOK
  <1>q. ASSUME \A q \in Requests : sends'[q] <= sends[q] PROVE Quiet
    BY <1>q DEF Quiet
  <1>1. ASSUME NEW r \in Requests, Cardinality(InFlight) < width, Admit(r),
               UNCHANGED <<use, width>>
        PROVE  UseInv' /\ Earned /\ Quiet
    <2>1. UseInv' /\ state' # "OPEN"
      BY <1>1, AdmitStep
    <2>2. state = "HALF_OPEN" => state' = "HALF_OPEN"
      BY <1>1 DEF Admit, breakerVars
    <2> QED
      BY <2>1, <2>2 DEF Earned, Quiet
  <1>2. ASSUME NEW r \in Requests, Return(r), CountFailure \/ UNCHANGED breakerVars,
               UNCHANGED <<healthy, proven, use, width>>
        PROVE  UseInv' /\ Earned /\ Quiet
    <2>1. UseInv'
      BY <1>2, ReturnStep
    <2>2. Earned
      BY <1>2 DEF CountFailure, Open, breakerVars, Earned
    <2>3. \A q \in Requests : sends'[q] <= sends[q]
      BY <1>2, <1>t DEF Return
    <2> QED
      BY <1>q, <2>1, <2>2, <2>3
  <1>3. ASSUME NEW r \in Requests, Succeed(r), UNCHANGED <<use, width>>
        PROVE  UseInv' /\ (width = 1 => Earned) /\ Quiet
    <2>1. \A q \in Requests : sends'[q] <= sends[q]
      BY <1>3, <1>t DEF Succeed, Return
    <2> QED
      BY <1>3, <1>q, <2>1, SucceedStep
  <1>4. ASSUME NEW r \in Requests, Resend(r), use = "client", UNCHANGED <<use, width>>,
               width = 1 PROVE state # "OPEN"
    BY <1>4 DEF UseInv, Serial, OpenIsQuiet, Resend
  <1>5. ASSUME Reset \/ Elapse \/ Flip, UNCHANGED <<use, width>>
        PROVE  UseInv' /\ Earned /\ Quiet
    <2>1. sends' = sends /\ (Earned \/ Reset)
      BY <1>5 DEF Reset, Elapse, Flip, Earned, breakerVars
    <2>2. \A q \in Requests : sends'[q] <= sends[q]
      BY <2>1, <1>t
    <2> QED
      BY <1>5, <1>q, <2>1, <2>2, IdleStep DEF Earned
  <1>6. CASE use = "client" /\ Next /\ UNCHANGED <<use, get, spoilt>>
    <2>0. UNCHANGED <<use, width>>
      BY <1>6 DEF Next
    <2>1. ASSUME NEW r \in Requests, Execute(r) PROVE UseInv' /\ Earned /\ Quiet
      BY <1>1, <2>0, <2>1 DEF Execute
    <2>2. ASSUME NEW r \in Requests, Resend(r)
          PROVE  UseInv' /\ Earned /\ (width = 1 => Quiet)
      <3>1. sends[r] + 1 \in 1..MaxSends
        BY <1>t, <2>2 DEF Resend
      <3>2. /\ sends[r] > 0 /\ sends' = [sends EXCEPT ![r] = sends[r] + 1]
            /\ UNCHANGED <<breakerVars, healthy, probes, proven>>
        BY <1>t, <2>2 DEF Resend
      <3>3. width = 1 => state # "OPEN"
        BY <1>4, <1>6, <2>0, <2>2
      <3>4. CASE width = 1
        BY <2>0, <3>1, <3>2, <3>3, <3>4, ResendStep DEF Earned, Quiet, breakerVars
      <3>5. CASE width # 1
        BY <1>t, <2>0, <3>1, <3>2, <3>5 DEF UseInv, TypeOK, Earned, breakerVars
      <3> QED
        BY <3>4, <3>5
    <2>3. ASSUME NEW r \in Requests, Fail(r) \/ Refuse(r) PROVE UseInv' /\ Earned /\ Quiet
      BY <1>2, <2>0, <2>3 DEF Fail, Refuse
    <2>4. ASSUME NEW r \in Requests, Succeed(r)
          PROVE  UseInv' /\ (width = 1 => Earned) /\ Quiet
      BY <1>3, <2>0, <2>4
    <2> QED
      BY <1>5, <1>6, <2>0, <2>1, <2>2, <2>3, <2>4 DEF Next
  <1>7. CASE use = "proxy" /\ ProxyNext /\ UNCHANGED <<use, width>>
    <2>1. ASSUME NEW r \in Requests, Enter(r) PROVE UseInv' /\ Earned /\ Quiet
      BY <1>1, <1>7, <2>1 DEF Enter
    <2>2. ASSUME NEW r \in Requests, Unavailable(r)
          PROVE  UseInv' /\ Earned /\ (width = 1 => Quiet)
      <3>1. /\ sends[r] = 1 /\ sends' = [sends EXCEPT ![r] = 2]
            /\ UNCHANGED <<breakerVars, healthy, probes, proven>>
        BY <2>2 DEF Unavailable, MayRetry
      <3>2. CASE width = 1
        <4>1. state # "OPEN"
          BY <3>1, <3>2 DEF UseInv, Serial, OpenIsQuiet
        <4>2. 2 \in 1..MaxSends /\ sends[r] > 0
          BY <3>1, Numbers
        <4> QED
          BY <1>7, <3>1, <3>2, <4>1, <4>2, ResendStep DEF Earned, Quiet, breakerVars
      <3>3. CASE width # 1
        BY <1>t, <1>7, <3>1, <3>3, Numbers DEF UseInv, TypeOK, Earned, breakerVars
      <3> QED
        BY <3>2, <3>3
    <2>3. ASSUME NEW r \in Requests, ProxyError(r), ~Return(r)
          PROVE  UseInv' /\ Earned /\ (Quiet \/ Exempt)
      <3>1. /\ r \in get /\ sends[r] = 1 /\ sends' = [sends EXCEPT ![r] = 2]
            /\ CountFailure /\ UNCHANGED <<healthy, probes, proven>>
        BY <2>3 DEF ProxyError, MayRetry
      <3>2. Earned
        BY <3>1 DEF CountFailure, Open, breakerVars, Earned
      <3>3. Exempt
        BY <2>3, <3>1 DEF Exempt, MayRetry
      <3>4. UseInv'
        <4>1. 2 \in 1..MaxSends /\ sends[r] > 0
          BY <3>1, Numbers
        <4> QED
          BY <1>7, <3>1, <4>1, ResendStep
      <3> QED
        BY <3>2, <3>3, <3>4
    <2>4. ASSUME NEW r \in Requests, (ProxyError(r) /\ Return(r)) \/ FinishUncounted(r)
          PROVE  UseInv' /\ Earned /\ Quiet
      BY <1>2, <1>7, <2>4 DEF ProxyError, FinishUncounted
    <2>5. ASSUME NEW r \in Requests, Finish(r)
          PROVE  UseInv' /\ (width = 1 => Earned) /\ Quiet
      BY <1>3, <1>7, <2>5 DEF Finish
    <2> QED
      BY <1>5, <1>7, <2>1, <2>2, <2>3, <2>4, <2>5 DEF ProxyNext, Visit
  <1>8. CASE UNCHANGED proxyVars
    <2>1. UseInv'
      BY <1>8 DEF UseInv, TypeOK, Serial, OneAtATime, ProbesCounted, OpenIsQuiet, proxyVars,
                  movingVars, workVars, breakerVars
    <2>2. Earned /\ \A q \in Requests : sends'[q] <= sends[q]
      BY <1>8, <1>t DEF Earned, proxyVars, movingVars, workVars, breakerVars
    <2> QED
      BY <1>q, <2>1, <2>2
  <1> QED
    BY <1>6, <1>7, <1>8 DEF UseNext

(* circuitBreaker.js and proxyFactory.js: whoever has one request at a time *)
(* finds the breaker closed again only by enough successful probes, and    *)
(* sends nothing through an open one, but for the second try of a GET whose*)
(* first try opened it; and no late result drives a counter past its       *)
(* threshold, for callers of any width.                                    *)
THEOREM SerialCallers == UseSpec => SerialCallersAreSafe
  <1> DEFINE Safe == width = 1 => Earned /\ (Quiet \/ Exempt)
  <1>1. UseInv => TypeOK
    BY DEF UseInv
  <1>2. UseInv /\ [UseNext]_proxyVars => UseInv' /\ Safe
    BY UseStep
  <1> QED
    BY UseInit, <1>1, <1>2, PTL DEF UseSpec, SerialCallersAreSafe, Exempt


-----------------------------------------------------------------------------
(***************************************************************************)
(* The sliding window.                                                     *)
(***************************************************************************)
CallKind == [stamp : Int, at : Int, tier : Tiers]
RequestKind == [at : Int, tier : Tiers]

LimiterTyped ==
    /\ ahead \in [Replicas -> 0 .. Skew]
    /\ calls \in SUBSET (CallKind \X Nat) /\ IsFiniteSet(calls)
    /\ zset \in SUBSET (Int \X Nat) /\ IsFiniteSet(zset)
    /\ admitted \in SUBSET (RequestKind \X Nat) /\ IsFiniteSet(admitted)
    /\ ttl \in Nat /\ ttl <= Window + Spare /\ outages \in Nat

(* How old a call or a remembered request can be, and what a stamp can be. *)
TimesInv ==
    /\ \A c \in calls : /\ c[1].at <= 0 /\ -c[1].at <= Delay
                        /\ c[1].at <= c[1].stamp /\ c[1].stamp <= c[1].at + Skew
    /\ \A a \in admitted : a[1].at <= 0 /\ -a[1].at < Span + Delay

(* Every remembered request but those Redis failed for has a member of its *)
(* own, stamped not before the request, in a key that outlives it.         *)
Backs(f, D) ==
    /\ D \subseteq admitted /\ f \in [D -> zset]
    /\ \A a, b \in D : f[a] = f[b] => a = b
    /\ Cardinality(admitted \ D) <= outages
    /\ \A a \in D : a[1].at <= f[a][1] /\ Window + Spare + a[1].at <= ttl

Backed == \E D \in SUBSET admitted : \E f \in [D -> zset] : Backs(f, D)

Payments(S) == {a \in S : a[1].tier = "PAYMENT"}

QuotaInv ==
    /\ Cardinality(admitted) <= Limit["GENERAL"] + outages
    /\ Cardinality(Payments(admitted)) <= Limit["PAYMENT"] + outages

LimiterInv == LimiterTyped /\ TimesInv /\ Backed /\ QuotaInv

LEMMA LimiterNumbers ==
    /\ Limit["PAYMENT"] \in Nat /\ Limit["GENERAL"] \in Nat
    /\ Limit["PAYMENT"] >= 1 /\ Limit["PAYMENT"] <= Limit["GENERAL"]
    /\ Skew \in Nat /\ Delay \in Nat /\ Spare \in Nat /\ MaxOutages \in Nat
    /\ Window \in Nat /\ Window > Skew + Delay
    /\ Span = Window - Skew - Delay /\ Span \in Nat /\ Span >= 1
    /\ Span + Delay = Window - Skew
  BY LimiterAssumption DEF Tiers, Span

(* An injection into a finite set.                                         *)
LEMMA NoMoreThan ==
    ASSUME NEW S, NEW T, IsFiniteSet(T), NEW f \in [S -> T],
           \A x, y \in S : f[x] = f[y] => x = y
    PROVE  /\ IsFiniteSet(S) /\ Cardinality(S) \in Nat /\ Cardinality(T) \in Nat
           /\ Cardinality(S) <= Cardinality(T)
  <1>1. f \in Injection(S, T)
    BY DEF Injection, IsInjective
  <1> QED
    BY <1>1, FS_Injection, FS_CardinalityType

(* One more of its kind is one more.                                       *)
LEMMA OneMore ==
    ASSUME NEW S, IsFiniteSet(S), NEW x
    PROVE  \E n \in Nat : /\ <<x, n>> \notin S /\ With(S, x) = S \cup {<<x, n>>}
                          /\ IsFiniteSet(With(S, x)) /\ Cardinality(S) \in Nat
                          /\ Cardinality(With(S, x)) = Cardinality(S) + 1
  <1> DEFINE K == Cardinality(S)
             f == [n \in 0..K |-> <<x, n>>]
  <1>1. K \in Nat
    BY FS_CardinalityType
  <1>2. \E n \in 0..K : <<x, n>> \notin S
    <2> SUFFICES ASSUME \A n \in 0..K : <<x, n>> \in S PROVE FALSE
      OBVIOUS
    <2>1. f \in [0..K -> S] /\ \A m, n \in 0..K : f[m] = f[n] => m = n
      OBVIOUS
    <2> HIDE DEF f
    <2>2. Cardinality(0..K) <= K
      BY <2>1, NoMoreThan
    <2>3. Cardinality(0..K) = K + 1
      <3>1. 0 \in Int /\ K \in Int /\ ~ (0 > K) /\ K - 0 + 1 = K + 1
        BY <1>1
      <3> HIDE DEF K
      <3> QED
        BY <3>1, FS_Interval
    <2> QED
      BY <1>1, <2>2, <2>3
  <1> DEFINE n == CHOOSE i \in 0..K : <<x, i>> \notin S
  <1>3. n \in 0..K /\ <<x, n>> \notin S
    BY <1>2
  <1>4. With(S, x) = S \cup {<<x, n>>}
    BY DEF With
  <1> HIDE DEF n
  <1>5. n \in Nat
    BY <1>1, <1>3
  <1>6. IsFiniteSet(S \cup {<<x, n>>}) /\ Cardinality(S \cup {<<x, n>>}) = K + 1
    BY <1>3, FS_AddElement
  <1> QED
    BY <1>1, <1>3, <1>4, <1>5, <1>6

LEMMA LimiterInitInv == LimiterInit => LimiterInv
  <1> SUFFICES ASSUME LimiterInit PROVE LimiterInv
    OBVIOUS
  <1>1. IsFiniteSet({}) /\ Cardinality({}) = 0
    BY FS_EmptySet
  <1>2. LimiterTyped
    BY <1>1, LimiterNumbers DEF LimiterInit, LimiterTyped
  <1>3. TimesInv
    BY DEF LimiterInit, TimesInv
  <1>4. Backed
    <2> DEFINE f == [a \in {} |-> 0]
    <2>1. f \in [{} -> zset] /\ {} \subseteq admitted /\ admitted \ {} = {}
      BY DEF LimiterInit
    <2>2. Backs(f, {})
      BY <1>1, <2>1 DEF Backs, LimiterInit
    <2> QED
      BY <2>1, <2>2 DEF Backed
  <1>5. Payments(admitted) = {} /\ admitted = {} /\ outages = 0
    BY DEF Payments, LimiterInit
  <1>6. QuotaInv
    BY <1>1, <1>5, LimiterNumbers DEF QuotaInv
  <1> QED
    BY <1>2, <1>3, <1>4, <1>6 DEF LimiterInv

(* A request arrives at a replica.                                         *)
LEMMA ArriveStep ==
    ASSUME LimiterInv, NEW tier \in Tiers, NEW g \in Replicas, Arrive(tier, g)
    PROVE  LimiterInv'
  <1> DEFINE x == [stamp |-> ahead[g], at |-> 0, tier |-> tier]
  <1>0. LimiterTyped /\ TimesInv /\ Backed /\ QuotaInv
    BY DEF LimiterInv
  <1>1. calls' = With(calls, x) /\ UNCHANGED <<ahead, zset, ttl, admitted, outages>>
    BY DEF Arrive
  <1>2. x \in CallKind /\ x.at = 0 /\ 0 <= x.stamp /\ x.stamp <= Skew
    BY <1>0, LimiterNumbers DEF LimiterTyped, CallKind
  <1> HIDE DEF x
  <1>3. PICK n \in Nat : calls' = calls \cup {<<x, n>>} /\ IsFiniteSet(calls')
    BY <1>0, <1>1, OneMore DEF LimiterTyped
  <1>4. LimiterTyped'
    BY <1>0, <1>1, <1>2, <1>3 DEF LimiterTyped
  <1>5. TimesInv'
    BY <1>0, <1>1, <1>2, <1>3, LimiterNumbers DEF TimesInv
  <1>6. Backed' /\ QuotaInv'
    BY <1>0, <1>1 DEF Backed, Backs, QuotaInv, Payments
  <1> QED
    BY <1>4, <1>5, <1>6 DEF LimiterInv

(* What a call finds in its window covers every remembered request.        *)
LEMMA WindowCovers ==
    ASSUME LimiterInv, NEW call \in calls
    PROVE  LET kept == InWindow(call[1])
           IN  /\ kept \subseteq zset /\ IsFiniteSet(kept) /\ Cardinality(kept) \in Nat
               /\ Cardinality(admitted) \in Nat
               /\ Cardinality(admitted) <= Cardinality(kept) + outages
               /\ \E D \in SUBSET admitted : \E f \in [D -> kept] : Backs(f, D)
  <1> DEFINE kept == InWindow(call[1])
  <1>0. LimiterTyped /\ TimesInv /\ Backed /\ QuotaInv
    BY DEF LimiterInv
  <1>1. PICK D \in SUBSET admitted : \E f \in [D -> zset] : Backs(f, D)
    BY <1>0 DEF Backed
  <1>2. PICK f \in [D -> zset] : Backs(f, D)
    BY <1>1
  <1>3. kept \subseteq zset /\ IsFiniteSet(kept)
    BY <1>0, FS_Subset DEF InWindow, LimiterTyped
  <1>4. ASSUME NEW a \in D PROVE f[a] \in kept
    <2>1. a \in admitted /\ a[1].at <= f[a][1] /\ f[a] \in zset
      BY <1>2 DEF Backs
    <2>2. a[1].at \in Int /\ -a[1].at < Span + Delay /\ f[a][1] \in Int
      BY <1>0, <2>1 DEF TimesInv, LimiterTyped, RequestKind
    <2>3. /\ call[1].at \in Int /\ call[1].stamp \in Int
          /\ call[1].at <= 0 /\ call[1].stamp <= call[1].at + Skew
      BY <1>0 DEF TimesInv, LimiterTyped, CallKind
    <2>4. f[a][1] > call[1].stamp - Window
      BY <2>1, <2>2, <2>3, LimiterNumbers
    <2> QED
      BY <2>1, <2>4 DEF InWindow
  <1> HIDE DEF kept
  <1>5. f \in [D -> kept]
    BY <1>2, <1>4
  <1>6. Cardinality(D) <= Cardinality(kept) /\ Cardinality(D) \in Nat /\ Cardinality(kept) \in Nat
    <2>1. \A a, b \in D : f[a] = f[b] => a = b
      BY <1>2 DEF Backs
    <2> QED
      BY <1>3, <1>5, <2>1, NoMoreThan
  <1>7. IsFiniteSet(D) /\ IsFiniteSet(admitted \ D)
    BY <1>0, FS_Subset DEF LimiterTyped
  <1>8. Cardinality(admitted) = Cardinality(D) + Cardinality(admitted \ D)
    <2>1. admitted = D \cup (admitted \ D) /\ D \cap (admitted \ D) = {}
      BY <1>1
    <2>2. Cardinality(D \cup (admitted \ D))
              = Cardinality(D) + Cardinality(admitted \ D) - Cardinality(D \cap (admitted \ D))
      BY <1>7, FS_Union
    <2>3. Cardinality(admitted \ D) \in Nat /\ Cardinality({}) = 0
      BY <1>7, FS_CardinalityType, FS_EmptySet
    <2>4. Cardinality(D \cap (admitted \ D)) = 0
      BY <2>1, <2>3
    <2>5. Cardinality(admitted) = Cardinality(D \cup (admitted \ D))
      BY <2>1
    <2> QED
      BY <1>6, <2>2, <2>3, <2>4, <2>5
  <1>9. Cardinality(admitted \ D) \in Nat /\ Cardinality(admitted \ D) <= outages /\ outages \in Nat
    BY <1>0, <1>2, <1>7, FS_CardinalityType DEF Backs, LimiterTyped
  <1>10. Cardinality(admitted) \in Nat /\ Cardinality(admitted) <= Cardinality(kept) + outages
    BY <1>6, <1>8, <1>9
  <1> QED
    BY <1>2, <1>3, <1>5, <1>6, <1>10 DEF kept

(* A request let through has a place of its own among the remembered ones. *)
LEMMA LetThroughStep ==
    ASSUME LimiterTyped, TimesInv, NEW call \in calls, LetThrough(call[1])
    PROVE  \E n \in Nat :
             \E a \in {<<[at |-> call[1].at, tier |-> call[1].tier], n>>} :
                /\ a \notin admitted /\ admitted' = admitted \cup {a}
                /\ a \in RequestKind \X Nat
                /\ a[1].at = call[1].at /\ a[1].tier = call[1].tier
                /\ a[1].at <= 0 /\ -a[1].at < Span + Delay
                /\ IsFiniteSet(admitted') /\ Cardinality(admitted) \in Nat
                /\ Cardinality(admitted') = Cardinality(admitted) + 1
                /\ Cardinality(Payments(admitted)) \in Nat
                /\ Cardinality(Payments(admitted)) <= Cardinality(admitted)
                /\ Cardinality(Payments(admitted')) =
                     Cardinality(Payments(admitted)) + IF a[1].tier = "PAYMENT" THEN 1 ELSE 0
  <1> DEFINE x == [at |-> call[1].at, tier |-> call[1].tier]
  <1>1. /\ x \in RequestKind /\ x.at = call[1].at /\ x.tier = call[1].tier
        /\ call[1].at \in Int /\ call[1].at <= 0 /\ -call[1].at <= Delay
    BY DEF RequestKind, LimiterTyped, CallKind, TimesInv
  <1>2. admitted' = With(admitted, x) /\ IsFiniteSet(admitted)
    BY DEF LetThrough, LimiterTyped
  <1> HIDE DEF x
  <1>3. PICK n \in Nat : /\ <<x, n>> \notin admitted /\ admitted' = admitted \cup {<<x, n>>}
                         /\ IsFiniteSet(admitted') /\ Cardinality(admitted) \in Nat
                         /\ Cardinality(admitted') = Cardinality(admitted) + 1
    BY <1>2, OneMore
  <1> DEFINE a == <<x, n>>
  <1>4. a \in RequestKind \X Nat /\ a[1] = x
    BY <1>1
  <1>5. -a[1].at < Span + Delay
    BY <1>1, <1>4, LimiterNumbers
  <1>6. /\ Payments(admitted) \subseteq admitted /\ IsFiniteSet(Payments(admitted))
        /\ Cardinality(Payments(admitted)) \in Nat
        /\ Cardinality(Payments(admitted)) <= Cardinality(admitted)
    BY <1>2, FS_Subset, FS_CardinalityType DEF Payments
  <1>7. Cardinality(Payments(admitted')) =
           Cardinality(Payments(admitted)) + IF a[1].tier = "PAYMENT" THEN 1 ELSE 0
    <2> HIDE DEF a
    <2>1. a \notin Payments(admitted) /\ admitted' = admitted \cup {a}
      BY <1>3 DEF Payments, a
    <2>2. CASE a[1].tier = "PAYMENT"
      <3>1. Payments(admitted') = Payments(admitted) \cup {a}
        BY <2>1, <2>2 DEF Payments
      <3> QED
        BY <1>6, <2>1, <2>2, <3>1, FS_AddElement
    <2>3. CASE a[1].tier # "PAYMENT"
      <3>1. Payments(admitted') = Payments(admitted)
        BY <2>1, <2>3 DEF Payments
      <3> QED
        BY <1>6, <2>3, <3>1
    <2> QED
      BY <2>2, <2>3
  <1>8. a \in {<<[at |-> call[1].at, tier |-> call[1].tier], n>>}
    BY DEF x
  <1> QED
    BY <1>1, <1>3, <1>4, <1>5, <1>6, <1>7, <1>8

(* Redis answers a call.                                                   *)
LEMMA CheckStep ==
    ASSUME LimiterInv, NEW call \in calls, Check(call)
    PROVE  LimiterInv'
  <1> DEFINE kept == InWindow(call[1])
  <1>0. LimiterTyped /\ TimesInv /\ Backed /\ QuotaInv
    BY DEF LimiterInv
  <1>1. calls' = calls \ {call} /\ SlidingWindow(call[1]) /\ UNCHANGED <<ahead, outages>>
    BY DEF Check
  <1>2. /\ kept \subseteq zset /\ IsFiniteSet(kept) /\ Cardinality(kept) \in Nat
        /\ Cardinality(admitted) \in Nat /\ Cardinality(admitted) <= Cardinality(kept) + outages
        /\ \E D \in SUBSET admitted : \E f \in [D -> kept] : Backs(f, D)
    BY WindowCovers
  <1>3. PICK D \in SUBSET admitted : \E f \in [D -> kept] : Backs(f, D)
    BY <1>2
  <1>4. PICK f \in [D -> kept] : Backs(f, D)
    BY <1>3
  <1>5. /\ call[1].stamp \in Int /\ call[1].at \in Int /\ call[1].at <= call[1].stamp
        /\ call[1].at <= 0 /\ call[1].tier \in Tiers
    BY <1>0 DEF TimesInv, LimiterTyped, CallKind
  <1>6. IsFiniteSet(calls') /\ calls' \subseteq calls
    BY <1>0, <1>1, FS_RemoveElement DEF LimiterTyped
  <1>7. SlidingWindow(call[1]) <=>
          IF Allowed(call[1], kept)
          THEN /\ zset' = With(kept, call[1].stamp) /\ ttl' = Window + Spare
               /\ LetThrough(call[1])
          ELSE zset' = kept /\ UNCHANGED <<ttl, admitted>>
    BY DEF SlidingWindow
  <1> HIDE DEF kept
  <1>8. CASE ~ Allowed(call[1], kept)
    <2>1. zset' = kept /\ UNCHANGED <<ahead, outages, ttl, admitted>>
      BY <1>1, <1>7, <1>8
    <2>2. LimiterTyped'
      BY <1>0, <1>2, <1>6, <2>1 DEF LimiterTyped
    <2>3. TimesInv' /\ QuotaInv'
      BY <1>0, <1>6, <2>1 DEF TimesInv, QuotaInv, Payments
    <2>4. Backed'
      <3>1. Backs(f, D)'
        BY <1>4, <2>1 DEF Backs
      <3> QED
        BY <1>4, <2>1, <3>1 DEF Backed
    <2> QED
      BY <2>2, <2>3, <2>4 DEF LimiterInv
  <1>9. CASE Allowed(call[1], kept)
    <2>1. /\ zset' = With(kept, call[1].stamp) /\ ttl' = Window + Spare
          /\ LetThrough(call[1]) /\ Cardinality(kept) < Limit[call[1].tier]
      BY <1>1, <1>7, <1>9 DEF Allowed
    <2>2. PICK k \in Nat : /\ <<call[1].stamp, k>> \notin kept
                           /\ zset' = kept \cup {<<call[1].stamp, k>>}
                           /\ IsFiniteSet(zset')
      BY <1>2, <2>1, OneMore
    <2>3. PICK n \in Nat :
             \E a \in {<<[at |-> call[1].at, tier |-> call[1].tier], n>>} :
                /\ a \notin admitted /\ admitted' = admitted \cup {a}
                /\ a \in RequestKind \X Nat
                /\ a[1].at = call[1].at /\ a[1].tier = call[1].tier
                /\ a[1].at <= 0 /\ -a[1].at < Span + Delay
                /\ IsFiniteSet(admitted') /\ Cardinality(admitted) \in Nat
                /\ Cardinality(admitted') = Cardinality(admitted) + 1
                /\ Cardinality(Payments(admitted)) \in Nat
                /\ Cardinality(Payments(admitted)) <= Cardinality(admitted)
                /\ Cardinality(Payments(admitted')) =
                     Cardinality(Payments(admitted)) + IF a[1].tier = "PAYMENT" THEN 1 ELSE 0
      BY <1>0, <2>1, LetThroughStep
    <2> DEFINE a == <<[at |-> call[1].at, tier |-> call[1].tier], n>>
               m == <<call[1].stamp, k>>
               E == D \cup {a}
               g == [b \in E |-> IF b = a THEN m ELSE f[b]]
    <2>4. /\ a \notin admitted /\ admitted' = admitted \cup {a}
          /\ a \in RequestKind \X Nat
          /\ a[1].at = call[1].at /\ a[1].tier = call[1].tier
          /\ a[1].at <= 0 /\ -a[1].at < Span + Delay
      BY <2>3
    <2>5. /\ IsFiniteSet(admitted') /\ Cardinality(admitted) \in Nat
          /\ Cardinality(admitted') = Cardinality(admitted) + 1
          /\ Cardinality(Payments(admitted)) \in Nat
          /\ Cardinality(Payments(admitted)) <= Cardinality(admitted)
          /\ Cardinality(Payments(admitted')) =
                Cardinality(Payments(admitted)) + IF a[1].tier = "PAYMENT" THEN 1 ELSE 0
      BY <2>3
    <2>6. m[1] = call[1].stamp /\ m \in Int \X Nat /\ m \notin kept /\ zset' = kept \cup {m}
      BY <1>5, <2>2
    <2> HIDE DEF a, m
    <2>7. LimiterTyped'
      BY <1>0, <1>1, <1>2, <1>6, <2>1, <2>2, <2>4, <2>5, <2>6, LimiterNumbers DEF LimiterTyped
    <2>8. TimesInv'
      BY <1>0, <1>6, <2>4 DEF TimesInv
    <2>9. QuotaInv'
      <3>1. /\ Cardinality(kept) < Limit[call[1].tier] /\ outages' = outages /\ outages \in Nat
            /\ (call[1].tier = "PAYMENT" \/ call[1].tier = "GENERAL")
        BY <1>0, <1>1, <1>5, <2>1 DEF Tiers, LimiterTyped
      <3>2. Cardinality(admitted') <= Limit["GENERAL"] + outages
        BY <1>2, <2>5, <3>1, LimiterNumbers
      <3>3. Cardinality(Payments(admitted')) <= Limit["PAYMENT"] + outages
        BY <1>0, <1>2, <2>4, <2>5, <3>1, LimiterNumbers DEF QuotaInv
      <3> QED
        BY <3>1, <3>2, <3>3 DEF QuotaInv, Payments
    <2>10. Backed'
      <3>1. D \subseteq admitted /\ f \in [D -> kept] /\ (\A b, c \in D : f[b] = f[c] => b = c)
        BY <1>4 DEF Backs
      <3>2. a \notin D /\ E \subseteq admitted' /\ admitted' \ E = admitted \ D
        BY <2>4, <3>1
      <3>3. g \in [E -> zset']
        BY <2>6, <3>1, <3>2
      <3>4. g[a] = m /\ \A b \in D : g[b] = f[b] /\ g[b] # m
        BY <2>6, <3>1, <3>2
      <3>5. ASSUME NEW b \in E, NEW c \in E, g[b] = g[c] PROVE b = c
        BY <3>1, <3>4, <3>5
      <3>6. Cardinality(admitted' \ E) <= outages'
        BY <1>1, <1>4, <3>2 DEF Backs
      <3>7. ASSUME NEW b \in E PROVE b[1].at <= g[b][1] /\ Window + Spare + b[1].at <= ttl'
        <4>1. CASE b = a
          BY <1>5, <2>1, <2>4, <2>6, <3>4, <4>1, LimiterNumbers
        <4>2. CASE b \in D
          <5>1. b[1].at <= f[b][1] /\ g[b] = f[b]
            BY <1>4, <3>4, <4>2 DEF Backs
          <5>2. b[1].at \in Int /\ b[1].at <= 0
            BY <1>0, <3>1, <4>2 DEF LimiterTyped, TimesInv, RequestKind
          <5> QED
            BY <2>1, <5>1, <5>2, LimiterNumbers
        <4> QED
          BY <4>1, <4>2
      <3> HIDE DEF E, g
      <3>8. Backs(g, E)'
        BY <3>2, <3>3, <3>5, <3>6, <3>7 DEF Backs
      <3> QED
        BY <3>2, <3>3, <3>8 DEF Backed
    <2> QED
      BY <2>7, <2>8, <2>9, <2>10 DEF LimiterInv
  <1> QED
    BY <1>8, <1>9

(* Redis fails, and the request passes.                                    *)
LEMMA CheckFailsStep ==
    ASSUME LimiterInv, NEW call \in calls, CheckFails(call)
    PROVE  LimiterInv'
  <1>0. LimiterTyped /\ TimesInv /\ Backed /\ QuotaInv
    BY DEF LimiterInv
  <1>1. /\ calls' = calls \ {call} /\ LetThrough(call[1]) /\ outages' = outages + 1
        /\ UNCHANGED <<ahead, zset, ttl>> /\ outages \in Nat
    BY <1>0 DEF CheckFails, LimiterTyped
  <1>2. PICK n \in Nat :
             \E a \in {<<[at |-> call[1].at, tier |-> call[1].tier], n>>} :
                /\ a \notin admitted /\ admitted' = admitted \cup {a}
                /\ a \in RequestKind \X Nat
                /\ a[1].at = call[1].at /\ a[1].tier = call[1].tier
                /\ a[1].at <= 0 /\ -a[1].at < Span + Delay
                /\ IsFiniteSet(admitted') /\ Cardinality(admitted) \in Nat
                /\ Cardinality(admitted') = Cardinality(admitted) + 1
                /\ Cardinality(Payments(admitted)) \in Nat
                /\ Cardinality(Payments(admitted)) <= Cardinality(admitted)
                /\ Cardinality(Payments(admitted')) =
                     Cardinality(Payments(admitted)) + IF a[1].tier = "PAYMENT" THEN 1 ELSE 0
    BY <1>0, <1>1, LetThroughStep
  <1> DEFINE a == <<[at |-> call[1].at, tier |-> call[1].tier], n>>
  <1>3. /\ a \notin admitted /\ admitted' = admitted \cup {a} /\ a \in RequestKind \X Nat
        /\ a[1].at <= 0 /\ -a[1].at < Span + Delay
    BY <1>2
  <1>4. /\ IsFiniteSet(admitted') /\ Cardinality(admitted) \in Nat
        /\ Cardinality(admitted') = Cardinality(admitted) + 1
        /\ Cardinality(Payments(admitted)) \in Nat
        /\ Cardinality(Payments(admitted')) <= Cardinality(Payments(admitted)) + 1
    BY <1>2
  <1> HIDE DEF a
  <1>5. IsFiniteSet(calls') /\ calls' \subseteq calls
    BY <1>0, <1>1, FS_RemoveElement DEF LimiterTyped
  <1>6. LimiterTyped'
    BY <1>0, <1>1, <1>3, <1>4, <1>5 DEF LimiterTyped
  <1>7. TimesInv'
    BY <1>0, <1>3, <1>5 DEF TimesInv
  <1>8. QuotaInv'
    <2>1. Cardinality(Payments(admitted')) \in Int
      BY <1>2
    <2>2. Cardinality(Payments(admitted')) <= Limit["PAYMENT"] + outages'
      BY <1>0, <1>1, <1>4, <2>1, LimiterNumbers DEF QuotaInv
    <2>3. Cardinality(admitted') <= Limit["GENERAL"] + outages'
      BY <1>0, <1>1, <1>4, LimiterNumbers DEF QuotaInv
    <2> QED
      BY <2>2, <2>3 DEF QuotaInv, Payments
  <1>9. Backed'
    <2>1. PICK D \in SUBSET admitted : \E f \in [D -> zset] : Backs(f, D)
      BY <1>0 DEF Backed
    <2>2. PICK f \in [D -> zset] : Backs(f, D)
      BY <2>1
    <2>3. admitted' \ D = (admitted \ D) \cup {a} /\ a \notin admitted \ D
      BY <1>3, <2>1
    <2>4. IsFiniteSet(admitted \ D) /\ Cardinality(admitted \ D) \in Nat
      BY <1>0, FS_Subset, FS_CardinalityType DEF LimiterTyped
    <2>5. Cardinality(admitted' \ D) <= outages'
      <3>1. Cardinality(admitted' \ D) = Cardinality(admitted \ D) + 1
        BY <2>3, <2>4, FS_AddElement
      <3> QED
        BY <1>1, <2>2, <2>4, <3>1 DEF Backs
    <2>6. Backs(f, D)'
      BY <1>1, <1>3, <2>2, <2>5 DEF Backs
    <2> QED
      BY <1>1, <1>3, <2>2, <2>6 DEF Backed
  <1> QED
    BY <1>6, <1>7, <1>8, <1>9 DEF LimiterInv

(* A tick's effect on one call and on one remembered request.              *)
YoungerCall(c) == [stamp |-> c.stamp + 1, at |-> c.at + 1, tier |-> c.tier]
YoungerRequest(r) == [at |-> r.at + 1, tier |-> r.tier]

LEMMA CallAges ==
    ASSUME NEW c \in CallKind
    PROVE  /\ OlderCall(c) \in CallKind /\ YoungerCall(OlderCall(c)) = c
           /\ OlderCall(c).at = c.at - 1 /\ OlderCall(c).stamp = c.stamp - 1
           /\ c.at \in Int /\ c.stamp \in Int
  <1>1. /\ c = [stamp |-> c.stamp, at |-> c.at, tier |-> c.tier]
        /\ c.stamp \in Int /\ c.at \in Int /\ c.tier \in Tiers
    BY DEF CallKind
  <1>2. c.stamp - 1 + 1 = c.stamp /\ c.at - 1 + 1 = c.at
    BY <1>1
  <1> QED
    BY <1>1, <1>2 DEF CallKind, OlderCall, YoungerCall

LEMMA RequestAges ==
    ASSUME NEW r \in RequestKind
    PROVE  /\ OlderRequest(r) \in RequestKind /\ YoungerRequest(OlderRequest(r)) = r
           /\ OlderRequest(r).at = r.at - 1 /\ OlderRequest(r).tier = r.tier
           /\ r.at \in Int
  <1>1. /\ r = [at |-> r.at, tier |-> r.tier] /\ r.at \in Int /\ r.tier \in Tiers
    BY DEF RequestKind
  <1>2. r.at - 1 + 1 = r.at
    BY <1>1
  <1> QED
    BY <1>1, <1>2 DEF RequestKind, OlderRequest, YoungerRequest

(* A tick makes everything older by one; all that is remembered after it   *)
(* has its member still.                                                   *)
LEMMA TickStep == ASSUME LimiterInv, Tick PROVE LimiterInv'
  <1> DEFINE Young == {a \in admitted : 1 - a[1].at < Span + Delay}
             Held == {z \in zset : z[1] - 1 > -Window - Delay}
             older == [a \in admitted |-> <<OlderRequest(a[1]), a[2]>>]
             younger == [b \in admitted' |-> <<YoungerRequest(b[1]), b[2]>>]
             back == [m \in zset' |-> <<m[1] + 1, m[2]>>]
             call == [c \in calls' |-> <<YoungerCall(c[1]), c[2]>>]
  <1>0. LimiterTyped /\ TimesInv /\ Backed /\ QuotaInv
    BY DEF LimiterInv
  <1>1. /\ \A c \in calls : -c[1].at < Delay
        /\ ttl' = IF ttl = 0 THEN 0 ELSE ttl - 1
        /\ ahead' = ahead /\ outages' = outages
    BY DEF Tick
  <1>18. calls' = {<<OlderCall(c[1]), c[2]>> : c \in calls}
    BY DEF Tick
  <1>19. zset' = IF ttl <= 1 THEN {} ELSE {<<m[1] - 1, m[2]>> : m \in Held}
    BY DEF Tick
  <1>20. admitted' = {<<OlderRequest(a[1]), a[2]>> : a \in Young}
    BY DEF Tick
  <1>2. ttl \in Nat /\ ttl' \in Nat /\ ttl' <= Window + Spare /\ outages \in Nat
    BY <1>0, <1>1, LimiterNumbers DEF LimiterTyped
  <1>3. ASSUME NEW d \in calls'
        PROVE  /\ d \in CallKind \X Nat /\ call[d] \in calls
               /\ d[1].at <= 0 /\ -d[1].at <= Delay
               /\ d[1].at <= d[1].stamp /\ d[1].stamp <= d[1].at + Skew
               /\ d = <<OlderCall(call[d][1]), call[d][2]>>
    <2>1. PICK c \in calls : d = <<OlderCall(c[1]), c[2]>>
      BY <1>18, <1>3
    <2>2. /\ c \in CallKind \X Nat /\ c = <<c[1], c[2]>> /\ c[1] \in CallKind /\ c[2] \in Nat
          /\ c[1].at <= 0 /\ -c[1].at < Delay
          /\ c[1].at <= c[1].stamp /\ c[1].stamp <= c[1].at + Skew
      BY <1>0, <1>1 DEF LimiterTyped, TimesInv
    <2>3. /\ d \in CallKind \X Nat /\ <<YoungerCall(d[1]), d[2]>> = c
          /\ d[1].at = c[1].at - 1 /\ d[1].stamp = c[1].stamp - 1
          /\ c[1].at \in Int /\ c[1].stamp \in Int
      BY <2>1, <2>2, CallAges
    <2>4. call[d] = c
      BY <1>3, <2>3
    <2>5. /\ d[1].at <= 0 /\ -d[1].at <= Delay
          /\ d[1].at <= d[1].stamp /\ d[1].stamp <= d[1].at + Skew
      BY <2>2, <2>3, LimiterNumbers
    <2> HIDE DEF call
    <2> QED
      BY <2>1, <2>3, <2>4, <2>5
  <1>4. ASSUME NEW b \in admitted'
        PROVE  /\ b \in RequestKind \X Nat /\ younger[b] \in Young /\ b = older[younger[b]]
               /\ b[1].at = younger[b][1].at - 1 /\ b[1].tier = younger[b][1].tier
               /\ b[1].at <= 0 /\ -b[1].at < Span + Delay
    <2>1. PICK a \in Young : b = <<OlderRequest(a[1]), a[2]>>
      BY <1>20, <1>4
    <2>2. /\ a \in admitted /\ a = <<a[1], a[2]>> /\ a[1] \in RequestKind /\ a[2] \in Nat
          /\ a[1].at <= 0 /\ 1 - a[1].at < Span + Delay
      BY <1>0 DEF LimiterTyped, TimesInv
    <2>3. /\ b \in RequestKind \X Nat /\ <<YoungerRequest(b[1]), b[2]>> = a
          /\ b[1].at = a[1].at - 1 /\ b[1].tier = a[1].tier /\ a[1].at \in Int
      BY <2>1, <2>2, RequestAges
    <2>4. younger[b] = a
      BY <1>4, <2>3
    <2>5. older[a] = b
      BY <2>1, <2>2
    <2>6. b[1].at <= 0 /\ -b[1].at < Span + Delay
      BY <2>2, <2>3, LimiterNumbers
    <2> HIDE DEF older, younger
    <2> QED
      BY <2>1, <2>3, <2>4, <2>5, <2>6
  <1>5. ASSUME NEW m \in zset'
        PROVE  m \in Int \X Nat /\ back[m] \in zset /\ m = <<back[m][1] - 1, back[m][2]>>
    <2>1. PICK z \in zset : m = <<z[1] - 1, z[2]>>
      BY <1>19, <1>5
    <2>2. z = <<z[1], z[2]>> /\ z[1] \in Int /\ z[2] \in Nat
      BY <1>0 DEF LimiterTyped
    <2>3. back[m] = z
      BY <1>5, <2>1, <2>2
    <2> QED
      BY <2>1, <2>2, <2>3
  <1>6. ASSUME NEW z \in Held, ttl > 1 PROVE <<z[1] - 1, z[2]>> \in zset'
    <2>1. ~ (ttl <= 1)
      BY <1>2, <1>6
    <2> QED
      BY <1>6, <1>19, <2>1
  <1>8. IsFiniteSet(calls')
    <2>1. call \in [calls' -> calls] /\ \A c, d \in calls' : call[c] = call[d] => c = d
      BY <1>3
    <2> HIDE DEF call
    <2> QED
      BY <1>0, <2>1, NoMoreThan DEF LimiterTyped
  <1>9. IsFiniteSet(zset')
    <2>1. back \in [zset' -> zset] /\ \A m, n \in zset' : back[m] = back[n] => m = n
      BY <1>5
    <2> HIDE DEF back
    <2> QED
      BY <1>0, <2>1, NoMoreThan DEF LimiterTyped
  <1>10. \A b \in admitted' : younger[b] \in admitted
    BY <1>4
  <1>11. \A b, c \in admitted' : younger[b] = younger[c] => b = c
    BY <1>4
  <1> HIDE DEF call, back, older
  <1>12. ASSUME NEW S \in SUBSET admitted', NEW T \in SUBSET admitted,
                \A b \in S : younger[b] \in T
         PROVE  /\ IsFiniteSet(S) /\ Cardinality(S) \in Nat /\ Cardinality(T) \in Nat
                /\ Cardinality(S) <= Cardinality(T)
    <2> DEFINE h == [b \in S |-> younger[b]]
    <2> HIDE DEF younger
    <2>1. h \in [S -> T] /\ \A b, c \in S : h[b] = h[c] => b = c
      BY <1>11, <1>12
    <2>2. IsFiniteSet(T)
      BY <1>0, FS_Subset DEF LimiterTyped
    <2> HIDE DEF h
    <2> QED
      BY <2>1, <2>2, NoMoreThan
  <1>13. /\ IsFiniteSet(admitted')
         /\ Cardinality(admitted') \in Nat /\ Cardinality(admitted) \in Nat
         /\ Cardinality(admitted') <= Cardinality(admitted)
    BY <1>10, <1>12
  <1>14. LimiterTyped'
    <2>1. /\ calls' \subseteq CallKind \X Nat /\ zset' \subseteq Int \X Nat
          /\ admitted' \subseteq RequestKind \X Nat
      BY <1>3, <1>4, <1>5
    <2> QED
      BY <1>0, <1>1, <1>2, <1>8, <1>9, <1>13, <2>1 DEF LimiterTyped
  <1>15. TimesInv'
    BY <1>3, <1>4 DEF TimesInv
  <1>16. QuotaInv'
    <2>1. /\ Payments(admitted') \subseteq admitted' /\ Payments(admitted) \subseteq admitted
          /\ \A b \in Payments(admitted') : younger[b] \in Payments(admitted)
      BY <1>4 DEF Payments
    <2> HIDE DEF younger
    <2>2. /\ Cardinality(Payments(admitted')) \in Nat /\ Cardinality(Payments(admitted)) \in Nat
          /\ Cardinality(Payments(admitted')) <= Cardinality(Payments(admitted))
      BY <1>12, <2>1
    <2>3. /\ Cardinality(admitted') <= Limit["GENERAL"] + outages'
          /\ Cardinality(Payments(admitted')) <= Limit["PAYMENT"] + outages'
      BY <1>0, <1>1, <1>2, <1>13, <2>2, LimiterNumbers DEF QuotaInv
    <2> QED
      BY <2>3 DEF QuotaInv, Payments
  <1>17. Backed'
    <2>1. PICK D \in SUBSET admitted : \E f \in [D -> zset] : Backs(f, D)
      BY <1>0 DEF Backed
    <2>2. PICK f \in [D -> zset] : Backs(f, D)
      BY <2>1
    <2> DEFINE E == {b \in admitted' : younger[b] \in D}
               g == [b \in E |-> <<f[younger[b]][1] - 1, f[younger[b]][2]>>]
    <2>3. ASSUME NEW b \in E
          PROVE  /\ younger[b] \in D /\ f[younger[b]] \in Held /\ ttl > 1
                 /\ b[1].at <= f[younger[b]][1] - 1 /\ Window + Spare + b[1].at <= ttl'
                 /\ f[younger[b]] \in Int \X Nat
      <3> DEFINE a == younger[b]
      <3>1. a \in D /\ b[1].at = a[1].at - 1 /\ 1 - a[1].at < Span + Delay /\ a[1].at \in Int
        <4>1. a \in Young /\ b[1].at = a[1].at - 1 /\ a \in D
          BY <1>4, <2>3
        <4> HIDE DEF a
        <4> QED
          BY <1>0, <2>1, <4>1 DEF LimiterTyped, RequestKind
      <3> HIDE DEF a
      <3>2. /\ a[1].at <= f[a][1] /\ Window + Spare + a[1].at <= ttl
            /\ f[a] \in zset /\ f[a] \in Int \X Nat
        BY <1>0, <2>2, <3>1 DEF Backs, LimiterTyped
      <3>3. ttl > 1 /\ ttl' = ttl - 1
        BY <1>1, <1>2, <3>1, <3>2, LimiterNumbers
      <3>4. f[a][1] \in Int /\ f[a][1] - 1 > -Window - Delay
        BY <3>1, <3>2, LimiterNumbers
      <3>5. f[a] \in Held
        BY <3>2, <3>4
      <3>6. b[1].at <= f[a][1] - 1 /\ Window + Spare + b[1].at <= ttl'
        BY <1>2, <3>1, <3>2, <3>3, <3>4, LimiterNumbers
      <3> QED
        BY <3>1, <3>2, <3>3, <3>5, <3>6 DEF a
    <2> HIDE DEF younger
    <2>4. g \in [E -> zset']
      BY <1>6, <2>3
    <2>5. ASSUME NEW b \in E, NEW c \in E, g[b] = g[c] PROVE b = c
      <3>1. f[younger[b]] = f[younger[c]]
        <4>1. ASSUME NEW p \in Int \X Nat, NEW q \in Int \X Nat,
                     <<p[1] - 1, p[2]>> = <<q[1] - 1, q[2]>>
              PROVE  p = q
          <5>1. p[1] \in Int /\ q[1] \in Int /\ p = <<p[1], p[2]>> /\ q = <<q[1], q[2]>>
            OBVIOUS
          <5>2. p[1] - 1 = q[1] - 1 /\ p[2] = q[2]
            BY <4>1
          <5>3. p[1] = q[1]
            BY <5>1, <5>2
          <5> QED
            BY <5>1, <5>2, <5>3
        <4> QED
          BY <2>3, <2>5, <4>1
      <3>2. younger[b] = younger[c]
        BY <2>2, <2>3, <3>1 DEF Backs
      <3> QED
        BY <1>11, <3>2
    <2>6. Cardinality(admitted' \ E) <= outages'
      <3>1. /\ admitted' \ E \subseteq admitted' /\ admitted \ D \subseteq admitted
            /\ \A b \in admitted' \ E : younger[b] \in admitted \ D
        BY <1>10
      <3>2. /\ Cardinality(admitted' \ E) \in Nat /\ Cardinality(admitted \ D) \in Nat
            /\ Cardinality(admitted' \ E) <= Cardinality(admitted \ D)
        BY <1>12, <3>1
      <3> QED
        BY <1>1, <1>2, <2>2, <3>2 DEF Backs
    <2>7. ASSUME NEW b \in E PROVE b[1].at <= g[b][1] /\ Window + Spare + b[1].at <= ttl'
      BY <2>3
    <2>8. E \subseteq admitted'
      OBVIOUS
    <2> HIDE DEF E, g
    <2>9. \E E2 \in SUBSET admitted' : \E g2 \in [E2 -> zset'] : E2 = E /\ g2 = g
      BY <2>4, <2>8
    <2>10. PICK E2 \in SUBSET admitted' : \E g2 \in [E2 -> zset'] : E2 = E /\ g2 = g
      BY <2>9
    <2>11. PICK g2 \in [E2 -> zset'] : E2 = E /\ g2 = g
      BY <2>10
    <2>12. \A b, c \in E2 : g2[b] = g2[c] => b = c
      BY <2>5, <2>11
    <2>13. Cardinality(admitted' \ E2) <= outages'
      BY <2>6, <2>11
    <2>14. \A b \in E2 : b[1].at <= g2[b][1] /\ Window + Spare + b[1].at <= ttl'
      BY <2>7, <2>11
    <2>15. Backs(g2, E2)'
      BY <2>12, <2>13, <2>14 DEF Backs
    <2> QED
      BY <2>15 DEF Backed
  <1> QED
    BY <1>14, <1>15, <1>16, <1>17 DEF LimiterInv

LEMMA LimiterAlways == LimiterSpec => []LimiterInv
  <1>1. LimiterInv /\ [LimiterNext]_limiterVars => LimiterInv'
    <2> SUFFICES ASSUME LimiterInv, [LimiterNext]_limiterVars PROVE LimiterInv'
      OBVIOUS
    <2>1. CASE \E tier \in Tiers, g \in Replicas : Arrive(tier, g)
      BY <2>1, ArriveStep
    <2>2. CASE \E call \in calls : Check(call) \/ CheckFails(call)
      BY <2>2, CheckStep, CheckFailsStep
    <2>3. CASE Tick
      BY <2>3, TickStep
    <2>4. CASE UNCHANGED limiterVars
      BY <2>4 DEF limiterVars, LimiterInv, LimiterTyped, TimesInv, Backed, Backs, QuotaInv,
                  Payments
    <2> QED
      BY <2>1, <2>2, <2>3, <2>4 DEF LimiterNext
  <1> QED
    BY <1>1, LimiterInitInv, PTL DEF LimiterSpec

(* rateLimiterService.js, SLIDING_WINDOW_LUA: no skew of the clocks and no *)
(* order of the calls lets more through than the quota and the failures.   *)
THEOREM QuotaAlwaysHolds == LimiterSpec => []QuotaHolds
  <1>1. LimiterInv => QuotaHolds
    <2> SUFFICES ASSUME LimiterInv, NEW from \in -Window .. 0
                 PROVE  LET span == {r \in admitted : r[1].at \in from .. from + Span - 1}
                        IN  /\ Cardinality(span) <= Limit["GENERAL"] + outages
                            /\ Cardinality({r \in span : r[1].tier = "PAYMENT"})
                                   <= Limit["PAYMENT"] + outages
      BY DEF QuotaHolds
    <2> DEFINE span == {r \in admitted : r[1].at \in from .. from + Span - 1}
    <2>1. span \subseteq admitted /\ IsFiniteSet(admitted) /\ outages \in Nat /\ QuotaInv
      BY DEF LimiterInv, LimiterTyped
    <2> HIDE DEF span
    <2>2. /\ Payments(span) \subseteq Payments(admitted)
          /\ IsFiniteSet(Payments(admitted)) /\ IsFiniteSet(Payments(span))
      BY <2>1, FS_Subset DEF Payments
    <2>3. /\ Cardinality(span) \in Nat /\ Cardinality(admitted) \in Nat
          /\ Cardinality(span) <= Cardinality(admitted)
      BY <2>1, FS_Subset, FS_CardinalityType
    <2>4. /\ Cardinality(Payments(span)) \in Nat /\ Cardinality(Payments(admitted)) \in Nat
          /\ Cardinality(Payments(span)) <= Cardinality(Payments(admitted))
      BY <2>2, FS_Subset, FS_CardinalityType
    <2>5. /\ Cardinality(span) <= Limit["GENERAL"] + outages
          /\ Cardinality(Payments(span)) <= Limit["PAYMENT"] + outages
      BY <2>1, <2>3, <2>4, LimiterNumbers DEF QuotaInv
    <2> QED
      BY <2>5 DEF Payments, span
  <1> QED
    BY <1>1, LimiterAlways, PTL

-----------------------------------------------------------------------------
(***************************************************************************)
(* The events on their way to a tab.                                       *)
(***************************************************************************)
ItemsOf(s) == {s[i] : i \in 1..Len(s)}
Distinct(s) == \A i, j \in 1..Len(s) : s[i] = s[j] => i = j
After(s, x, y) == \E i, j \in 1..Len(s) : i < j /\ s[i] = x /\ s[j] = y

LEMMA EventNumbers ==
    /\ MaxRing \in Nat /\ MaxRing >= 1 /\ MaxProcessed \in Nat /\ MaxProcessed >= 1
    /\ MaxSeen \in Nat /\ MaxSeen >= 1 /\ MaxAttempts \in Nat
    /\ MaxDeliveries \in Nat /\ MaxFaults \in Nat /\ MaxClicks \in Nat
  BY LiveEventsAssumption

(* A bounded memory keeps its bound, and the element pushed.               *)
LEMMA PushedSeq ==
    ASSUME NEW S, NEW s \in Seq(S), NEW x \in S, NEW bound \in Nat, bound >= 1,
           Len(s) <= bound
    PROVE  /\ Pushed(s, x, bound) \in Seq(S) /\ Len(Pushed(s, x, bound)) <= bound
           /\ Len(s) < bound => Pushed(s, x, bound) = Append(s, x)
  <1>1. CASE Len(s) < bound
    <2>1. Pushed(s, x, bound) = Append(s, x)
      BY <1>1 DEF Pushed
    <2>2. Append(s, x) \in Seq(S) /\ Len(Append(s, x)) = Len(s) + 1 /\ Len(s) \in Nat
      OBVIOUS
    <2> QED
      BY <1>1, <2>1, <2>2
  <1>2. CASE ~ (Len(s) < bound)
    <2>1. s # <<>> /\ Len(s) \in Nat
      BY <1>2
    <2>2. Tail(s) \in Seq(S) /\ Len(Tail(s)) = Len(s) - 1
      BY <2>1, HeadTailProperties
    <2> DEFINE t == Tail(s)
    <2>3. Pushed(s, x, bound) = Append(t, x)
      BY <1>2 DEF Pushed
    <2> HIDE DEF t
    <2>4. Append(t, x) \in Seq(S) /\ Len(Append(t, x)) = Len(t) + 1
      BY <2>2 DEF t
    <2>5. Len(t) = Len(s) - 1
      BY <2>2 DEF t
    <2>6. Len(Append(t, x)) <= bound
      BY <2>1, <2>4, <2>5
    <2> QED
      BY <1>2, <2>3, <2>4, <2>6
  <1> QED
    BY <1>1, <1>2

(* The ring holds the last MaxRing of what there was and what came.        *)
LEMMA RingedSeq ==
    ASSUME NEW r \in Seq(Item), NEW items \in Seq(Item), Len(r) <= MaxRing
    PROVE  \E d \in Nat :
             LET all == r \o items
                 q == Ringed(r, items)
             IN  /\ q \in Seq(Item) /\ Len(q) <= MaxRing /\ Len(q) = Len(r) + Len(items) - d
                 /\ d > 0 => Len(q) = MaxRing
                 /\ d <= Len(r) + Len(items)
                 /\ \A i \in 1..Len(q) : i + d \in 1..Len(all) /\ q[i] = all[i + d]
                 /\ all \in Seq(Item) /\ Len(all) = Len(r) + Len(items)
  <1> DEFINE all == r \o items
             d == IF Len(all) > MaxRing THEN Len(all) - MaxRing ELSE 0
             q == SubSeq(all, d + 1, Len(all))
  <1>1. Len(r) \in Nat /\ Len(items) \in Nat
    OBVIOUS
  <1>2. all \in Seq(Item) /\ Len(all) = Len(r) + Len(items)
    BY ConcatProperties
  <1>3. Ringed(r, items) = q
    BY DEF Ringed
  <1> HIDE DEF all
  <1>4. /\ d \in Nat /\ d <= Len(all) /\ (d > 0 => Len(all) - d = MaxRing)
        /\ Len(all) - d <= MaxRing
    BY <1>1, <1>2, EventNumbers
  <1> HIDE DEF d
  <1>5. /\ q \in Seq(Item) /\ Len(q) = Len(all) - d
        /\ \A i \in 1..Len(q) : q[i] = all[d + i]
    <2>1. \A i \in d + 1 .. Len(all) : all[i] \in Item
      BY <1>1, <1>2, <1>4
    <2>2. d + 1 \in Int /\ Len(all) \in Int
      BY <1>1, <1>2, <1>4
    <2>3. /\ q \in Seq(Item)
          /\ Len(q) = IF d + 1 <= Len(all) THEN Len(all) - (d + 1) + 1 ELSE 0
          /\ \A i \in 1 .. Len(all) - (d + 1) + 1 : q[i] = all[(d + 1) + i - 1]
      BY <2>1, <2>2, SubSeqProperties
    <2> HIDE DEF q
    <2>4. Len(q) = Len(all) - d
      BY <1>1, <1>2, <1>4, <2>3
    <2>5. ASSUME NEW i \in 1..Len(q) PROVE q[i] = all[d + i]
      <3>1. (d + 1) + i - 1 = d + i /\ i \in 1 .. Len(all) - (d + 1) + 1
        BY <1>1, <1>2, <1>4, <2>4
      <3> QED
        BY <2>3, <3>1
    <2> QED
      BY <2>3, <2>4, <2>5
  <1> HIDE DEF q
  <1>6. \A i \in 1..Len(q) : i + d \in 1..Len(all) /\ q[i] = all[i + d]
    BY <1>1, <1>2, <1>4, <1>5
  <1>7. /\ Len(q) <= MaxRing /\ Len(q) = Len(r) + Len(items) - d
        /\ d > 0 => Len(q) = MaxRing
        /\ d <= Len(r) + Len(items)
    BY <1>2, <1>4, <1>5
  <1>8. d \in Nat
    BY <1>4
  <1> WITNESS d \in Nat
  <1> QED
    BY <1>2, <1>3, <1>5, <1>6, <1>7, Zenon DEF all

(* What the stream endpoint replays is what follows in the ring.           *)
LEMMA ReplaySeq ==
    ASSUME NEW g, ring[g] \in Seq(Item), NEW last
    PROVE  LET r == ring[g]
               q == Replay(g, last)
           IN  /\ q \in Seq(Item)
               /\ \/ q = <<>> /\ ~ Holds(r, last)
                  \/ \E p \in 1..Len(r) :
                        /\ r[p] = last /\ \A i \in 1..Len(r) : r[i] = last => p <= i
                        /\ Len(q) = Len(r) - p
                        /\ \A i \in 1..Len(q) : q[i] = r[p + i]
  <1> DEFINE r == ring[g]
             at == {i \in 1..Len(r) : r[i] = last}
  <1>0. r \in Seq(Item) /\ Len(r) \in Nat
    OBVIOUS
  <1>1. CASE at = {}
    <2>1. Replay(g, last) = <<>> /\ ~ Holds(r, last)
      BY <1>1 DEF Replay, Holds
    <2> QED
      BY <2>1
  <1>2. CASE at # {}
    <2> DEFINE p == CHOOSE i \in at : \A j \in at : i <= j
    <2>1. \E i \in at : \A j \in at : i <= j
      <3>1. at \in SUBSET Nat /\ at # {}
        BY <1>0, <1>2
      <3> HIDE DEF at
      <3>2. PICK i \in at : \A j \in at : ~ (<<j, i>> \in OpToRel(<, Nat))
        BY <3>1, WFMin, NatLessThanWellFounded
      <3>3. \A j \in at : ~ (j < i)
        BY <3>1, <3>2 DEF OpToRel
      <3> QED
        BY <3>1, <3>3
    <2>2. p \in at /\ \A j \in at : p <= j
      BY <2>1
    <2>3. Replay(g, last) = SubSeq(r, p + 1, Len(r))
      BY <1>2 DEF Replay
    <2> HIDE DEF p
    <2>4. p \in 1..Len(r) /\ r[p] = last /\ \A i \in 1..Len(r) : r[i] = last => p <= i
      BY <2>2
    <2> DEFINE q == SubSeq(r, p + 1, Len(r))
    <2> HIDE DEF r, at
    <2>5. /\ q \in Seq(Item)
          /\ Len(q) = IF p + 1 <= Len(r) THEN Len(r) - (p + 1) + 1 ELSE 0
          /\ \A i \in 1 .. Len(r) - (p + 1) + 1 : q[i] = r[(p + 1) + i - 1]
      <3>1. \A i \in p + 1 .. Len(r) : r[i] \in Item
        BY <1>0, <2>4
      <3>2. p + 1 \in Int /\ Len(r) \in Int
        BY <1>0, <2>4
      <3> QED
        BY <3>1, <3>2, SubSeqProperties
    <2> HIDE DEF q
    <2>6. Len(q) = Len(r) - p
      BY <1>0, <2>4, <2>5
    <2>7. ASSUME NEW i \in 1..Len(q) PROVE q[i] = r[p + i]
      <3>1. (p + 1) + i - 1 = p + i /\ i \in 1 .. Len(r) - (p + 1) + 1
        BY <1>0, <2>4, <2>6
      <3> QED
        BY <2>5, <3>1
    <2>8. Replay(g, last) = q
      BY <2>3 DEF q
    <2> QED
      BY <2>4, <2>5, <2>6, <2>7, <2>8 DEF r
  <1> QED
    BY <1>1, <1>2

-----------------------------------------------------------------------------
(* The tab's client, and what its moves leave of the connection.           *)
Tabs == [signedIn : BOOLEAN, visible : BOOLEAN, closed : BOOLEAN,
         status : {"CONNECTED", "RECONNECTING", "OFFLINE"},
         phase : {"none", "opening", "open", "lost"},
         gateway : Gateways \cup {NoGateway}, wire : Seq(Item),
         last : Item \cup {NoItem}, attempts : Nat, timer : BOOLEAN]

(* A client that does nothing until it is told to.                         *)
AtRest(t) == t.phase = "none" /\ ~ t.timer /\ t.status # "CONNECTED"

LEMMA CutOffTab ==
    ASSUME NEW t \in Tabs
    PROVE  /\ CutOff(t) \in Tabs /\ CutOff(t).phase = "none" /\ CutOff(t).wire = <<>>
           /\ CutOff(t).last = t.last /\ CutOff(t).attempts = t.attempts
           /\ CutOff(t).signedIn = t.signedIn /\ CutOff(t).visible = t.visible
  <1>1. <<>> \in Seq(Item)
    BY EmptySeq
  <1> QED
    BY <1>1 DEF CutOff, Tabs

LEMMA ConnectingTab ==
    ASSUME NEW t \in Tabs
    PROVE  /\ Connecting(t) \in Tabs /\ Connecting(t).phase = "opening"
           /\ Connecting(t).wire = <<>> /\ Connecting(t).last = t.last
           /\ Connecting(t).signedIn = t.signedIn /\ Connecting(t).visible = t.visible
  <1> DEFINE u == CutOff(t)
  <1>1. u \in Tabs /\ u.wire = <<>> /\ u.last = t.last /\ u.signedIn = t.signedIn
        /\ u.visible = t.visible
    BY CutOffTab
  <1>2. PICK s \in {"CONNECTED", "RECONNECTING", "OFFLINE"} :
           Connecting(t) = [u EXCEPT !.closed = FALSE, !.timer = FALSE, !.phase = "opening",
                                     !.status = s]
    BY DEF Connecting
  <1> HIDE DEF u
  <1> DEFINE v == [u EXCEPT !.closed = FALSE, !.timer = FALSE, !.phase = "opening",
                            !.status = s]
  <1>3. v \in Tabs
    BY <1>1 DEF Tabs
  <1>4. v.phase = "opening" /\ v.wire = u.wire /\ v.last = u.last
    BY <1>1 DEF Tabs
  <1>5. v.signedIn = u.signedIn /\ v.visible = u.visible
    BY <1>1, Zenon DEF Tabs
  <1> QED
    BY <1>1, <1>2, <1>3, <1>4, <1>5

LEMMA ClosedTab ==
    ASSUME NEW t \in Tabs
    PROVE  /\ Closed(t) \in Tabs /\ Closed(t).phase = "none" /\ Closed(t).wire = <<>>
           /\ Closed(t).last = NoItem /\ Closed(t).signedIn = t.signedIn
           /\ Closed(t).visible = t.visible /\ AtRest(Closed(t))
  <1> DEFINE u == CutOff(t)
  <1>1. u \in Tabs /\ u.wire = <<>> /\ u.signedIn = t.signedIn /\ u.phase = "none"
        /\ u.visible = t.visible
    BY CutOffTab
  <1>2. Closed(t) = [u EXCEPT !.closed = TRUE, !.last = NoItem, !.attempts = 0,
                              !.timer = FALSE, !.status = "OFFLINE"]
    BY DEF Closed
  <1> HIDE DEF u
  <1> DEFINE v == [u EXCEPT !.closed = TRUE, !.last = NoItem, !.attempts = 0,
                            !.timer = FALSE, !.status = "OFFLINE"]
  <1>3. v \in Tabs
    BY <1>1 DEF Tabs
  <1>4. v.phase = u.phase /\ v.wire = u.wire /\ v.last = NoItem
    BY <1>1 DEF Tabs
  <1>5. v.signedIn = u.signedIn /\ v.visible = u.visible
    BY <1>1, Zenon DEF Tabs
  <1>6. v.status = "OFFLINE"
    BY <1>1 DEF Tabs
  <1>7. ~ v.timer
    BY <1>1, Zenon DEF Tabs
  <1>8. AtRest(v)
    BY <1>1, <1>4, <1>6, <1>7 DEF AtRest
  <1> QED
    BY <1>1, <1>2, <1>3, <1>4, <1>5, <1>8

LEMMA ScheduledTab ==
    ASSUME NEW t \in Tabs
    PROVE  /\ Scheduled(t) \in Tabs /\ Scheduled(t).phase = "none" /\ Scheduled(t).wire = <<>>
           /\ Scheduled(t).last = t.last /\ Scheduled(t).signedIn = t.signedIn
  <1> DEFINE u == CutOff(t)
             n == t.attempts + 1
  <1>1. u \in Tabs /\ u.wire = <<>> /\ u.last = t.last /\ u.signedIn = t.signedIn
        /\ u.phase = "none"
    BY CutOffTab
  <1>2. n \in Nat
    BY DEF Tabs
  <1>3. \/ Scheduled(t) = [u EXCEPT !.attempts = n, !.status = "OFFLINE"]
        \/ Scheduled(t) = [u EXCEPT !.attempts = n, !.status = "RECONNECTING", !.timer = TRUE]
    BY DEF Scheduled
  <1> HIDE DEF u, n
  <1> QED
    BY <1>1, <1>2, <1>3 DEF Tabs

LEMMA LostTab ==
    ASSUME NEW t \in Tabs,
           NEW u, u = [t EXCEPT !.phase = "lost", !.gateway = NoGateway, !.wire = <<>>]
    PROVE  /\ u \in Tabs /\ u.phase = "lost" /\ u.wire = <<>>
           /\ u.last = t.last /\ u.signedIn = t.signedIn
  <1>1. <<>> \in Seq(Item)
    BY EmptySeq
  <1> QED
    BY <1>1 DEF Tabs

(* What every replica, and the tab, remembers is well formed.              *)
EventsTyped ==
    /\ replicas \subseteq Gateways /\ up \subseteq replicas /\ todo \subseteq Events
    /\ delivered \in [Events -> 0..MaxDeliveries]
    /\ channel \in [Gateways -> Seq(Events)]
    /\ processed \in [Gateways -> Seq(Events)] /\ ring \in [Gateways -> Seq(Item)]
    /\ \A g \in Gateways : Len(processed[g]) <= MaxProcessed /\ Len(ring[g]) <= MaxRing
    /\ tab \in Tabs
    /\ seen \in Seq(Item \cup {NoId}) /\ Len(seen) <= MaxSeen
    /\ done \subseteq Item /\ due \subseteq Item
    /\ since \in Nat /\ gapped \in BOOLEAN /\ restarted \in BOOLEAN
    /\ faults \in 0..MaxFaults /\ clicks \in 0..MaxClicks

(* How the connection hangs together, whatever fails.                      *)
ConnInv ==
    /\ ~ restarted => up = replicas
    /\ tab.phase # "open" => tab.wire = <<>>
    /\ tab.phase = "open" => tab.gateway \in up
    /\ ~ tab.signedIn => tab.last = NoItem /\ AtRest(tab)
    /\ tab.last = NoItem => due = {} /\ since = 0

LEMMA ItemsTyped ==
    ASSUME NEW e \in Events
    PROVE  /\ Items(e) \in Seq(Item) /\ Distinct(Items(e)) /\ Len(Items(e)) \in 1..2
           /\ \A i \in 1..Len(Items(e)) : Items(e)[i] \in Item /\ Items(e)[i][1] = e
  <1> DEFINE a == <<e, "event">>
             b == <<e, "notif">>
  <1>1. a \in Item /\ b \in Item /\ a # b /\ a[1] = e /\ b[1] = e
    BY DEF Item
  <1>2. Items(e) = <<a, b>> \/ Items(e) = <<a>>
    BY DEF Items
  <1> HIDE DEF a, b
  <1>3. CASE Items(e) = <<a, b>>
    <2>1. Items(e) \in Seq(Item) /\ Len(Items(e)) = 2 /\ Items(e)[1] = a /\ Items(e)[2] = b
      BY <1>1, <1>3
    <2> QED
      BY <1>1, <2>1 DEF Distinct
  <1>4. CASE Items(e) = <<a>>
    <2>1. Items(e) \in Seq(Item) /\ Len(Items(e)) = 1 /\ Items(e)[1] = a
      BY <1>1, <1>4
    <2> QED
      BY <1>1, <2>1 DEF Distinct
  <1> QED
    BY <1>2, <1>3, <1>4

(***************************************************************************)
(* What a step can do to the tab's place in the stream: nothing; cut it off *)
(* from the stream, at the place it had or at none; broadcast an event.    *)
(***************************************************************************)
Still == UNCHANGED <<replicas, up, processed, ring, tab, done, due, since, gapped, restarted>>

CutHere ==
    /\ tab' \in Tabs /\ tab'.phase # "open" /\ tab'.wire = <<>> /\ tab'.last = tab.last
    /\ ~ tab'.signedIn => ~ tab.signedIn /\ AtRest(tab')
    /\ UNCHANGED <<replicas, up, processed, ring, done, due, since, gapped, restarted>>

CutLoose ==
    /\ tab' \in Tabs /\ tab'.phase # "open" /\ tab'.wire = <<>> /\ tab'.last = NoItem
    /\ ~ tab'.signedIn => AtRest(tab')
    /\ due' = {} /\ since' = 0 /\ done' \in {done, {}}
    /\ UNCHANGED <<replicas, up, processed, ring, gapped, restarted>>

Broadcast(g, e) ==
    /\ g \in up /\ e \in Events /\ ~ Holds(processed[g], e)
    /\ processed' = [processed EXCEPT ![g] = Pushed(@, e, MaxProcessed)]
    /\ ring' = [ring EXCEPT ![g] = Ringed(@, Items(e))]
    /\ Written(g, Items(e))
    /\ UNCHANGED <<replicas, up, restarted>>

Moves ==
    \/ restarted'
    \/ Still \/ CutHere \/ CutLoose \/ (\E g \in Gateways, e \in Events : Broadcast(g, e))
    \/ (\E g \in Gateways : Accept(g)) \/ Receive

(* The variables that only the replicas and the publishers write.          *)
Behind == UNCHANGED <<replicas, up, todo, delivered, channel, processed, ring, restarted>>

LEMMA RefuseMoves == ASSUME EventsTyped, ConnInv, RefuseConnection PROVE EventsTyped' /\ CutHere
  <1>1. tab' = Scheduled(tab) /\ tab \in Tabs /\ tab.phase = "opening"
    BY DEF RefuseConnection, EventsTyped
  <1>2. tab' \in Tabs /\ tab'.phase = "none" /\ tab'.wire = <<>> /\ tab'.last = tab.last
        /\ tab'.signedIn = tab.signedIn
    BY <1>1, ScheduledTab
  <1>3. faults' \in 0..MaxFaults /\ UNCHANGED <<seen, ghosts, clicks>> /\ Behind
    BY EventNumbers DEF RefuseConnection, tabOnly, gatewayVars, publishVars, Behind, EventsTyped
  <1>4. tab.signedIn
    BY <1>1 DEF ConnInv, AtRest
  <1>5. EventsTyped'
    BY <1>2, <1>3 DEF EventsTyped, ghosts, Behind
  <1>6. CutHere
    BY <1>2, <1>3, <1>4 DEF CutHere, ghosts, Behind
  <1> QED
    BY <1>5, <1>6

LEMMA LoseMoves == ASSUME EventsTyped, ConnInv, Lose PROVE EventsTyped' /\ CutHere
  <1>1. /\ tab' = [tab EXCEPT !.phase = "lost", !.gateway = NoGateway, !.wire = <<>>]
        /\ tab \in Tabs /\ tab.phase = "open"
    BY DEF Lose, EventsTyped
  <1>2. tab' \in Tabs /\ tab'.phase = "lost" /\ tab'.wire = <<>> /\ tab'.last = tab.last
        /\ tab'.signedIn = tab.signedIn
    BY <1>1, LostTab
  <1>3. faults' \in 0..MaxFaults /\ UNCHANGED <<seen, ghosts, clicks>> /\ Behind
    BY EventNumbers DEF Lose, tabOnly, gatewayVars, publishVars, Behind, EventsTyped
  <1>4. tab.signedIn
    BY <1>1 DEF ConnInv, AtRest
  <1>5. EventsTyped'
    BY <1>2, <1>3 DEF EventsTyped, ghosts, Behind
  <1>6. CutHere
    BY <1>2, <1>3, <1>4 DEF CutHere, ghosts, Behind
  <1> QED
    BY <1>5, <1>6

LEMMA ErrorMoves == ASSUME EventsTyped, ConnInv, Error PROVE EventsTyped' /\ CutHere
  <1>1. tab' = Scheduled(tab) /\ tab \in Tabs
    BY DEF Error, EventsTyped
  <1>2. tab' \in Tabs /\ tab'.phase = "none" /\ tab'.wire = <<>> /\ tab'.last = tab.last
        /\ tab'.signedIn = tab.signedIn
    BY <1>1, ScheduledTab
  <1>3. UNCHANGED <<seen, ghosts, faults, clicks>> /\ Behind
    BY DEF Error, tabOnly, gatewayVars, publishVars, Behind
  <1>4. tab.signedIn
    BY DEF Error, ConnInv, AtRest
  <1>5. EventsTyped'
    BY <1>2, <1>3 DEF EventsTyped, ghosts, Behind
  <1>6. CutHere
    BY <1>2, <1>3, <1>4 DEF CutHere, ghosts, Behind
  <1> QED
    BY <1>5, <1>6

LEMMA WatchdogMoves == ASSUME EventsTyped, ConnInv, Watchdog PROVE EventsTyped' /\ CutHere
  <1> DEFINE t == [tab EXCEPT !.attempts = @ + 1]
  <1>1. tab \in Tabs /\ (tab' = Scheduled(tab) \/ tab' = Connecting(t))
    BY DEF Watchdog, EventsTyped
  <1>2. t \in Tabs /\ t.last = tab.last
    BY <1>1 DEF Tabs
  <1>3. t.signedIn = tab.signedIn
    BY <1>1, Zenon DEF Tabs
  <1> HIDE DEF t
  <1>4. /\ tab' \in Tabs /\ tab'.phase \in {"none", "opening"} /\ tab'.wire = <<>>
        /\ tab'.last = tab.last /\ tab'.signedIn = tab.signedIn
    BY <1>1, <1>2, <1>3, ScheduledTab, ConnectingTab
  <1>5. UNCHANGED <<seen, ghosts, faults, clicks>> /\ Behind
    BY DEF Watchdog, tabOnly, gatewayVars, publishVars, Behind
  <1>6. tab.signedIn
    BY DEF ConnInv, AtRest, Watchdog
  <1>7. EventsTyped'
    BY <1>4, <1>5 DEF EventsTyped, ghosts, Behind
  <1>8. CutHere
    BY <1>4, <1>5, <1>6 DEF CutHere, ghosts, Behind
  <1> QED
    BY <1>7, <1>8


LEMMA TimerMoves == ASSUME EventsTyped, ConnInv, Timer PROVE EventsTyped' /\ CutHere
  <1>1. tab' = Connecting(tab) /\ tab \in Tabs
    BY DEF Timer, EventsTyped
  <1>2. /\ tab' \in Tabs /\ tab'.phase = "opening" /\ tab'.wire = <<>>
        /\ tab'.last = tab.last /\ tab'.signedIn = tab.signedIn
    BY <1>1, ConnectingTab
  <1>3. UNCHANGED <<seen, ghosts, faults, clicks>> /\ Behind
    BY DEF Timer, tabOnly, gatewayVars, publishVars, Behind
  <1>4. tab.signedIn
    BY Zenon DEF Timer, ConnInv, AtRest
  <1>5. EventsTyped'
    BY <1>2, <1>3 DEF EventsTyped, ghosts, Behind
  <1>6. CutHere
    BY <1>2, <1>3, <1>4 DEF CutHere, ghosts, Behind
  <1> QED
    BY <1>5, <1>6

LEMMA ReconnectMoves == ASSUME EventsTyped, ConnInv, Reconnect PROVE EventsTyped' /\ CutHere
  <1> DEFINE t == [tab EXCEPT !.attempts = 0]
  <1>1. tab \in Tabs /\ tab' = Connecting(t)
    BY DEF Reconnect, EventsTyped
  <1>2. t \in Tabs /\ t.last = tab.last
    BY <1>1 DEF Tabs
  <1>3. t.signedIn = tab.signedIn
    BY <1>1, Zenon DEF Tabs
  <1> HIDE DEF t
  <1>4. /\ tab' \in Tabs /\ tab'.phase = "opening" /\ tab'.wire = <<>>
        /\ tab'.last = tab.last /\ tab'.signedIn = tab.signedIn
    BY <1>1, <1>2, <1>3, ConnectingTab
  <1>5. UNCHANGED <<seen, ghosts, faults>> /\ Behind /\ clicks' \in 0..MaxClicks
    BY EventNumbers DEF Reconnect, Click, tabOnly, gatewayVars, publishVars, Behind, EventsTyped
  <1>6. tab.signedIn
    BY Zenon DEF Reconnect
  <1>7. EventsTyped'
    BY <1>4, <1>5 DEF EventsTyped, ghosts, Behind
  <1>8. CutHere
    BY <1>4, <1>5, <1>6 DEF CutHere, ghosts, Behind
  <1> QED
    BY <1>7, <1>8

LEMMA ShowMoves == ASSUME EventsTyped, ConnInv, Show PROVE EventsTyped' /\ CutHere
  <1> DEFINE t == IF tab.signedIn THEN Connecting(tab) ELSE tab
             u == [t EXCEPT !.visible = TRUE]
  <1>1. tab \in Tabs /\ tab' = u
    BY DEF Show, EventsTyped
  <1>2. /\ t \in Tabs /\ t.phase \in {"opening", "none"} /\ t.wire = <<>> /\ t.last = tab.last
        /\ t.signedIn = tab.signedIn
    <2>1. CASE tab.signedIn
      BY <1>1, <2>1, ConnectingTab
    <2>2. CASE ~ tab.signedIn
      BY <1>1, <2>2 DEF ConnInv, AtRest
    <2> QED
      BY <2>1, <2>2
  <1>3. ~ tab.signedIn => AtRest(t)
    BY DEF ConnInv
  <1> HIDE DEF t
  <1>4. u \in Tabs /\ u.phase = t.phase /\ u.wire = t.wire /\ u.last = t.last
        /\ u.status = t.status
    BY <1>2 DEF Tabs
  <1>5. u.signedIn = t.signedIn /\ u.timer = t.timer
    BY <1>2, Zenon DEF Tabs
  <1>6. ~ u.signedIn => ~ tab.signedIn /\ AtRest(u)
    BY <1>2, <1>3, <1>4, <1>5 DEF AtRest
  <1> HIDE DEF u
  <1>7. UNCHANGED <<seen, ghosts, faults>> /\ Behind /\ clicks' \in 0..MaxClicks
    BY EventNumbers DEF Show, Click, tabOnly, gatewayVars, publishVars, Behind, EventsTyped
  <1>8. EventsTyped'
    BY <1>1, <1>4, <1>7 DEF EventsTyped, ghosts, Behind
  <1>9. CutHere
    BY <1>1, <1>2, <1>4, <1>6, <1>7 DEF CutHere, ghosts, Behind
  <1> QED
    BY <1>8, <1>9

LEMMA HideMoves == ASSUME EventsTyped, ConnInv, Hide PROVE EventsTyped' /\ CutLoose
  <1> DEFINE t == IF tab.signedIn THEN Closed(tab) ELSE tab
             u == [t EXCEPT !.visible = FALSE]
  <1>1. tab \in Tabs /\ tab' = u
    BY DEF Hide, EventsTyped
  <1>2. t \in Tabs /\ t.phase = "none" /\ t.wire = <<>> /\ t.last = NoItem /\ AtRest(t)
    <2>1. CASE tab.signedIn
      BY <1>1, <2>1, ClosedTab
    <2>2. CASE ~ tab.signedIn
      BY <1>1, <2>2 DEF ConnInv, AtRest
    <2> QED
      BY <2>1, <2>2
  <1> HIDE DEF t
  <1>3. u.phase = t.phase /\ u.wire = t.wire /\ u.last = t.last /\ u.status = t.status
    BY <1>2 DEF Tabs
  <1>4. u.timer = t.timer
    BY <1>2, Zenon DEF Tabs
  <1>5. u \in Tabs
    BY <1>2, Zenon DEF Tabs
  <1>6. AtRest(u)
    BY <1>2, <1>3, <1>4 DEF AtRest
  <1> HIDE DEF u
  <1>7. /\ UNCHANGED <<seen, faults, done, gapped>> /\ Behind /\ clicks' \in 0..MaxClicks
        /\ due' = {} /\ since' = 0
    BY EventNumbers DEF Hide, Click, Forgotten, tabOnly, gatewayVars, publishVars, Behind,
      EventsTyped
  <1>8. EventsTyped'
    BY <1>1, <1>5, <1>7 DEF EventsTyped, Behind
  <1>9. CutLoose
    BY <1>1, <1>2, <1>3, <1>5, <1>6, <1>7 DEF CutLoose, Behind
  <1> QED
    BY <1>8, <1>9

LEMMA SignOutMoves == ASSUME EventsTyped, ConnInv, SignOut PROVE EventsTyped' /\ CutLoose
  <1> DEFINE t == Closed(tab)
             u == [t EXCEPT !.signedIn = FALSE]
  <1>1. tab \in Tabs /\ tab' = u
    BY DEF SignOut, EventsTyped
  <1>2. t \in Tabs /\ t.phase = "none" /\ t.wire = <<>> /\ t.last = NoItem /\ AtRest(t)
    BY <1>1, ClosedTab
  <1> HIDE DEF t
  <1>3. u.phase = t.phase /\ u.wire = t.wire /\ u.last = t.last /\ u.status = t.status
    BY <1>2 DEF Tabs
  <1>4. u.timer = t.timer
    BY <1>2, Zenon DEF Tabs
  <1>5. u \in Tabs
    BY <1>2, Zenon DEF Tabs
  <1>6. AtRest(u)
    BY <1>2, <1>3, <1>4 DEF AtRest
  <1> HIDE DEF u
  <1>7. /\ UNCHANGED <<faults, gapped>> /\ Behind /\ clicks' \in 0..MaxClicks
        /\ due' = {} /\ since' = 0 /\ done' = {} /\ seen' = <<>>
    BY EventNumbers DEF SignOut, Click, Forgotten, tabOnly, gatewayVars, publishVars, Behind,
      EventsTyped
  <1>8. seen' \in Seq(Item \cup {NoId}) /\ Len(seen') <= MaxSeen
    BY <1>7, EventNumbers, EmptySeq
  <1>9. EventsTyped'
    BY <1>1, <1>5, <1>7, <1>8 DEF EventsTyped, Behind
  <1>10. CutLoose
    BY <1>1, <1>2, <1>3, <1>5, <1>6, <1>7 DEF CutLoose, Behind
  <1> QED
    BY <1>9, <1>10

LEMMA NoItemIsNone == \A x \in Item : x # NoItem
  <1> TAKE x \in Item
  <1>1. x[2] \in {"event", "notif"}
    BY DEF Item
  <1>2. NoItem[2] = "none"
    BY DEF NoItem
  <1> QED
    BY <1>1, <1>2

LEMMA NewClientTab == NewClient \in Tabs
  <1>1. <<>> \in Seq(Item)
    BY EmptySeq
  <1> QED
    BY <1>1 DEF NewClient, Tabs

LEMMA SignInMoves == ASSUME EventsTyped, ConnInv, SignIn PROVE EventsTyped' /\ CutLoose
  <1> DEFINE t == Connecting(NewClient)
             u == [t EXCEPT !.signedIn = TRUE, !.visible = tab.visible]
  <1>1. tab \in Tabs /\ tab' = u
    BY DEF SignIn, EventsTyped
  <1>2. t \in Tabs /\ t.phase = "opening" /\ t.wire = <<>> /\ t.last = NoItem
    BY NewClientTab, ConnectingTab DEF NewClient
  <1> HIDE DEF t
  <1>3. u.phase = t.phase /\ u.wire = t.wire /\ u.last = t.last
    BY <1>2 DEF Tabs
  <1>4. tab.visible \in BOOLEAN
    BY <1>1 DEF Tabs
  <1>5. u \in Tabs
    BY <1>2, <1>4, Zenon DEF Tabs
  <1>6. u.signedIn
    BY <1>2, Zenon DEF Tabs
  <1> HIDE DEF u
  <1>7. UNCHANGED <<seen, faults, ghosts>> /\ Behind /\ clicks' \in 0..MaxClicks
    BY EventNumbers DEF SignIn, Click, tabOnly, gatewayVars, publishVars, Behind,
      EventsTyped
  <1>8. due = {} /\ since = 0
    BY DEF ConnInv, SignIn
  <1>9. EventsTyped'
    BY <1>1, <1>5, <1>7 DEF EventsTyped, ghosts, Behind
  <1>10. CutLoose
    BY <1>1, <1>2, <1>3, <1>5, <1>6, <1>7, <1>8 DEF CutLoose, ghosts, Behind
  <1> QED
    BY <1>9, <1>10

LEMMA StreamMoves ==
    ASSUME EventsTyped, NEW e \in Events, Stream(e) PROVE EventsTyped' /\ Still
  <1>1. UNCHANGED <<replicas, up, delivered, processed, ring, tab, seen, ghosts, restarted,
                    clicks>>
    BY DEF Stream
  <1>2. todo' \subseteq Events
    BY DEF Stream, EventsTyped
  <1>3. channel' \in [Gateways -> Seq(Events)] /\ faults' \in 0..MaxFaults
    <2>1. CASE channel' = [g \in Gateways |-> IF g \in up THEN Append(channel[g], e)
                                              ELSE channel[g]] /\ UNCHANGED faults
      <3>1. \A g \in Gateways : channel[g] \in Seq(Events) /\ Append(channel[g], e) \in Seq(Events)
        BY DEF EventsTyped
      <3> QED
        BY <2>1, <3>1 DEF EventsTyped
    <2>2. CASE faults < MaxFaults /\ faults' = faults + 1 /\ UNCHANGED channel
      BY <2>2, EventNumbers DEF EventsTyped
    <2> QED
      BY <2>1, <2>2 DEF Stream
  <1>4. EventsTyped'
    BY <1>1, <1>2, <1>3 DEF EventsTyped, ghosts
  <1> QED
    BY <1>1, <1>4 DEF Still, ghosts

(* What handling an event leaves of the replica and of the tab.            *)
LEMMA HandleMoves ==
    ASSUME EventsTyped, NEW g \in Gateways, NEW e \in Events, g \in up, Handle(g, e),
           UNCHANGED <<replicas, up, restarted>>
    PROVE  /\ Still \/ Broadcast(g, e)
           /\ processed' \in [Gateways -> Seq(Events)] /\ ring' \in [Gateways -> Seq(Item)]
           /\ \A h \in Gateways : Len(processed'[h]) <= MaxProcessed /\ Len(ring'[h]) <= MaxRing
           /\ tab' \in Tabs /\ done' = done /\ gapped' = gapped
           /\ due' \subseteq Item /\ since' \in Nat
  <1>1. CASE Holds(processed[g], e)
    <2>1. UNCHANGED <<processed, ring, tab, ghosts>>
      BY <1>1 DEF Handle
    <2> QED
      BY <2>1 DEF Still, ghosts, EventsTyped
  <1>2. CASE ~ Holds(processed[g], e)
    <2> DEFINE items == Items(e)
               p == Pushed(processed[g], e, MaxProcessed)
               q == Ringed(ring[g], items)
    <2>1. /\ processed' = [processed EXCEPT ![g] = p] /\ ring' = [ring EXCEPT ![g] = q]
          /\ Written(g, items)
      BY <1>2 DEF Handle
    <2>2. Broadcast(g, e)
      BY <1>2, <2>1 DEF Broadcast
    <2>3. items \in Seq(Item) /\ Len(items) \in Nat
      BY ItemsTyped
    <2>4. p \in Seq(Events) /\ Len(p) <= MaxProcessed
      BY PushedSeq, EventNumbers DEF EventsTyped
    <2>5. q \in Seq(Item) /\ Len(q) <= MaxRing
      <3>1. ring[g] \in Seq(Item) /\ Len(ring[g]) <= MaxRing
        BY DEF EventsTyped
      <3> HIDE DEF items
      <3> QED
        BY <2>3, <3>1, RingedSeq
    <2> HIDE DEF items, p, q
    <2>6. /\ processed' \in [Gateways -> Seq(Events)] /\ ring' \in [Gateways -> Seq(Item)]
          /\ \A h \in Gateways : Len(processed'[h]) <= MaxProcessed /\ Len(ring'[h]) <= MaxRing
      BY <2>1, <2>4, <2>5 DEF EventsTyped
    <2>7. tab' \in Tabs
      <3>1. tab \in Tabs /\ tab.wire \o items \in Seq(Item)
        BY <2>3, ConcatProperties DEF EventsTyped, Tabs
      <3>2. [tab EXCEPT !.wire = tab.wire \o items] \in Tabs
        BY <3>1 DEF Tabs
      <3>3. tab' = [tab EXCEPT !.wire = tab.wire \o items] \/ tab' = tab
        BY <2>1 DEF Written
      <3> QED
        BY <3>1, <3>2, <3>3
    <2>8. done' = done /\ gapped' = gapped
      BY <2>1 DEF Written
    <2>9. due' \subseteq Item
      <3>1. \A i \in 1..Len(items) : items[i] \in Item
        BY <2>3
      <3> QED
        BY <2>1, <3>1 DEF Written, EventsTyped
    <2>10. since' \in Nat
      BY <2>1, <2>3 DEF Written, EventsTyped
    <2> QED
      BY <2>2, <2>6, <2>7, <2>8, <2>9, <2>10
  <1> QED
    BY <1>1, <1>2

LEMMA HandleRedisMoves ==
    ASSUME EventsTyped, NEW g \in Gateways, HandleRedis(g)
    PROVE  EventsTyped' /\ (Still \/ \E e \in Events : Broadcast(g, e))
  <1> DEFINE e == Head(channel[g])
  <1>1. channel[g] \in Seq(Events) /\ channel[g] # <<>> /\ g \in up
    BY DEF HandleRedis, EventsTyped
  <1>2. e \in Events /\ Tail(channel[g]) \in Seq(Events)
    BY <1>1, HeadTailProperties
  <1>3. /\ Handle(g, e) /\ channel' = [channel EXCEPT ![g] = Tail(@)]
        /\ UNCHANGED <<replicas, up, todo, delivered, seen, restarted, faults, clicks>>
    BY DEF HandleRedis, publishVars
  <1> HIDE DEF e
  <1>4. channel' \in [Gateways -> Seq(Events)]
    BY <1>2, <1>3 DEF EventsTyped
  <1>5. EventsTyped'
    BY <1>1, <1>2, <1>3, <1>4, HandleMoves DEF EventsTyped
  <1> QED
    BY <1>1, <1>2, <1>3, <1>5, HandleMoves

LEMMA HandleRabbitMoves ==
    ASSUME EventsTyped, NEW g \in Gateways, NEW e \in Events, HandleRabbit(g, e)
    PROVE  EventsTyped' /\ (Still \/ Broadcast(g, e))
  <1>1. /\ g \in up /\ Handle(g, e) /\ delivered[e] < MaxDeliveries
        /\ delivered' = [delivered EXCEPT ![e] = @ + 1]
        /\ UNCHANGED <<replicas, up, todo, channel, seen, restarted, faults, clicks>>
    BY DEF HandleRabbit
  <1>2. delivered' \in [Events -> 0..MaxDeliveries]
    BY <1>1, EventNumbers DEF EventsTyped
  <1>3. EventsTyped'
    BY <1>1, <1>2, HandleMoves DEF EventsTyped
  <1> QED
    BY <1>1, <1>3, HandleMoves

LEMMA CrashMoves ==
    ASSUME EventsTyped, ConnInv, NEW g \in Gateways, Crash(g)
    PROVE  EventsTyped' /\ ConnInv' /\ restarted'
  <1> DEFINE t == [tab EXCEPT !.phase = "lost", !.gateway = NoGateway, !.wire = <<>>]
  <1>1. /\ g \in up /\ up' = up \ {g} /\ restarted' = TRUE
        /\ channel' = [channel EXCEPT ![g] = <<>>]
        /\ processed' = [processed EXCEPT ![g] = <<>>] /\ ring' = [ring EXCEPT ![g] = <<>>]
        /\ UNCHANGED <<replicas, todo, delivered, seen, done, due, since, gapped, clicks>>
    BY DEF Crash, publishVars, ghosts
  <1>2. tab' = IF tab.phase = "open" /\ tab.gateway = g THEN t ELSE tab
    BY DEF Crash
  <1>3. faults' \in 0..MaxFaults
    BY EventNumbers DEF Crash, EventsTyped
  <1>4. tab \in Tabs
    BY DEF EventsTyped
  <1>5. t \in Tabs /\ t.phase = "lost" /\ t.wire = <<>> /\ t.last = tab.last
        /\ t.signedIn = tab.signedIn
    BY <1>4, LostTab
  <1> HIDE DEF t
  <1>6. /\ channel' \in [Gateways -> Seq(Events)] /\ processed' \in [Gateways -> Seq(Events)]
        /\ ring' \in [Gateways -> Seq(Item)]
        /\ \A h \in Gateways : Len(processed'[h]) <= MaxProcessed /\ Len(ring'[h]) <= MaxRing
    <2>1. <<>> \in Seq(Events) /\ <<>> \in Seq(Item)
      BY EmptySeq
    <2>2. \A h \in Gateways : Len(processed'[h]) <= MaxProcessed /\ Len(ring'[h]) <= MaxRing
      <3> TAKE h \in Gateways
      <3>1. /\ processed'[h] = IF h = g THEN <<>> ELSE processed[h]
            /\ ring'[h] = IF h = g THEN <<>> ELSE ring[h]
        BY <1>1 DEF EventsTyped
      <3> QED
        BY <3>1, EventNumbers, EmptySeq DEF EventsTyped
    <2> QED
      BY <1>1, <2>1, <2>2 DEF EventsTyped
  <1>7. EventsTyped'
    BY <1>1, <1>2, <1>3, <1>4, <1>5, <1>6 DEF EventsTyped
  <1>8. ConnInv'
    <2>1. CASE tab.phase = "open" /\ tab.gateway = g
      <3>1. tab' = t
        BY <1>2, <2>1
      <3>2. tab.signedIn
        BY <2>1 DEF ConnInv, AtRest
      <3> QED
        BY <1>1, <1>5, <3>1, <3>2 DEF ConnInv
    <2>2. CASE ~ (tab.phase = "open" /\ tab.gateway = g)
      <3>1. tab' = tab
        BY <1>2, <2>2
      <3>2. AtRest(tab') = AtRest(tab)
        BY <3>1 DEF AtRest
      <3> QED
        BY <1>1, <2>2, <3>1, <3>2 DEF ConnInv
    <2> QED
      BY <2>1, <2>2
  <1> QED
    BY <1>1, <1>7, <1>8

LEMMA RestartMoves ==
    ASSUME EventsTyped, ConnInv, NEW g \in Gateways, Restart(g)
    PROVE  EventsTyped' /\ ConnInv' /\ restarted'
  <1>1. /\ g \in replicas \ up /\ up' = up \cup {g}
        /\ UNCHANGED <<replicas, todo, delivered, channel, processed, ring, tab, seen,
                       done, due, since, gapped, restarted, faults, clicks>>
    BY DEF Restart, publishVars, ghosts
  <1>2. restarted
    BY <1>1 DEF ConnInv
  <1>3. EventsTyped'
    BY <1>1 DEF EventsTyped
  <1>4. AtRest(tab') = AtRest(tab)
    BY <1>1 DEF AtRest
  <1>5. ConnInv'
    BY <1>1, <1>2, <1>4 DEF ConnInv
  <1> QED
    BY <1>1, <1>2, <1>3, <1>5

LEMMA AcceptMoves ==
    ASSUME EventsTyped, ConnInv, NEW g \in Gateways, Accept(g)
    PROVE  /\ EventsTyped' /\ ConnInv'
           /\ g \in up /\ tab'.phase = "open" /\ tab'.wire = Replay(g, tab.last)
           /\ tab'.last = tab.last /\ UNCHANGED <<replicas, processed, ring, done, due, since, restarted>>
           /\ gapped' = (gapped \/ since >= MaxRing)
  <1> DEFINE q == Replay(g, tab.last)
             t == [tab EXCEPT !.phase = "open", !.attempts = 0, !.status = "CONNECTED"]
             u == [t EXCEPT !.gateway = g, !.wire = q]
             once == Pushed(seen, NoId, MaxSeen)
  <1>1. /\ tab \in Tabs /\ tab.phase = "opening" /\ g \in up /\ tab' = u
        /\ UNCHANGED <<replicas, up, todo, delivered, channel, processed, ring, restarted,
                       done, due, since, faults, clicks>>
        /\ gapped' = (gapped \/ since >= MaxRing)
    BY DEF Accept, Opened, tabOnly, gatewayVars, publishVars, EventsTyped
  <1>2. seen' = once \/ seen' = Pushed(once, NoId, MaxSeen)
    BY DEF Accept
  <1>3. seen' \in Seq(Item \cup {NoId}) /\ Len(seen') <= MaxSeen
    <2>1. /\ once \in Seq(Item \cup {NoId}) /\ Len(once) <= MaxSeen
      <3>1. /\ seen \in Seq(Item \cup {NoId}) /\ Len(seen) <= MaxSeen
            /\ NoId \in Item \cup {NoId} /\ MaxSeen \in Nat /\ MaxSeen >= 1
        BY EventNumbers DEF EventsTyped
      <3> HIDE DEF NoId
      <3> QED
        BY <3>1, PushedSeq
    <2> HIDE DEF once
    <2>2. /\ Pushed(once, NoId, MaxSeen) \in Seq(Item \cup {NoId})
          /\ Len(Pushed(once, NoId, MaxSeen)) <= MaxSeen
      BY <2>1, EventNumbers, PushedSeq
    <2> QED
      BY <1>2, <2>1, <2>2
  <1>4. q \in Seq(Item)
    BY ReplaySeq DEF EventsTyped
  <1> HIDE DEF q, once
  <1>5. t \in Tabs /\ t.phase = "open" /\ t.last = tab.last
    BY <1>1 DEF Tabs
  <1>6. t.signedIn = tab.signedIn
    BY <1>1, Zenon DEF Tabs
  <1> HIDE DEF t
  <1>7. u \in Tabs /\ u.phase = t.phase /\ u.last = t.last /\ u.gateway = g /\ u.wire = q
    BY <1>4, <1>5 DEF Tabs
  <1>8. u.signedIn = t.signedIn
    BY <1>5, Zenon DEF Tabs
  <1> HIDE DEF u
  <1>9. gapped' \in BOOLEAN
    BY <1>1
  <1>10. EventsTyped'
    BY <1>1, <1>3, <1>7, <1>9 DEF EventsTyped
  <1>11. tab.signedIn
    BY <1>1 DEF ConnInv, AtRest
  <1>12. ConnInv'
    BY <1>1, <1>5, <1>6, <1>7, <1>8, <1>11 DEF ConnInv
  <1> QED
    BY <1>1, <1>5, <1>7, <1>10, <1>12 DEF q

LEMMA ReceiveMoves ==
    ASSUME EventsTyped, ConnInv, Receive
    PROVE  /\ EventsTyped' /\ ConnInv'
           /\ tab.wire \in Seq(Item) /\ tab.wire # <<>> /\ tab.phase = "open" /\ tab'.phase = "open"
           /\ tab'.wire = Tail(tab.wire) /\ tab'.last = Head(tab.wire)
           /\ done' = done \cup {Head(tab.wire)} /\ since' = Len(tab.wire) - 1
           /\ due' = (due \cup {tab.wire[i] : i \in 2..Len(tab.wire)}) \ done'
           /\ UNCHANGED <<replicas, processed, ring, gapped, restarted>>
  <1> DEFINE w == tab.wire
             x == Head(w)
             u == [tab EXCEPT !.wire = Tail(w), !.last = x]
  <1>1. /\ tab \in Tabs /\ tab.phase = "open" /\ w # <<>> /\ tab' = u
        /\ seen' = (IF Holds(seen, x) THEN seen ELSE Pushed(seen, x, MaxSeen))
        /\ done' = done \cup {x} /\ since' = Len(w) - 1
        /\ due' = (due \cup {w[i] : i \in 2..Len(w)}) \ done'
        /\ UNCHANGED <<replicas, up, todo, delivered, channel, processed, ring, restarted,
                       gapped, faults, clicks>>
    BY DEF Receive, Heard, tabOnly, gatewayVars, publishVars, EventsTyped
  <1>2. w \in Seq(Item)
    BY <1>1 DEF Tabs
  <1> HIDE DEF w
  <1>3. x \in Item /\ Tail(w) \in Seq(Item) /\ Len(w) - 1 \in Nat
    BY <1>1, <1>2, HeadTailProperties
  <1> HIDE DEF x
  <1>4. seen' \in Seq(Item \cup {NoId}) /\ Len(seen') <= MaxSeen
    <2>1. x \in Item \cup {NoId}
      BY <1>3
    <2> QED
      BY <1>1, <2>1, EventNumbers, PushedSeq DEF EventsTyped
  <1>5. u \in Tabs /\ u.phase = tab.phase /\ u.last = x /\ u.gateway = tab.gateway
        /\ u.wire = Tail(w)
    BY <1>1, <1>3 DEF Tabs
  <1>6. u.signedIn = tab.signedIn
    BY <1>1, Zenon DEF Tabs
  <1> HIDE DEF u
  <1>7. done' \subseteq Item /\ due' \subseteq Item
    <2>1. \A i \in 2..Len(w) : w[i] \in Item
      BY <1>2
    <2> QED
      BY <1>1, <1>3, <2>1 DEF EventsTyped
  <1>8. EventsTyped'
    BY <1>1, <1>3, <1>4, <1>5, <1>7 DEF EventsTyped
  <1>9. tab.signedIn
    BY <1>1 DEF ConnInv, AtRest
  <1>10. x # NoItem
    BY <1>3, NoItemIsNone
  <1>11. ConnInv'
    BY <1>1, <1>5, <1>6, <1>9, <1>10 DEF ConnInv
  <1> QED
    BY <1>1, <1>2, <1>5, <1>8, <1>11 DEF w, x

(* What a broadcast does, for a replica that has not dropped the event.    *)
LEMMA BroadcastWritten ==
    ASSUME EventsTyped, NEW g \in Gateways, NEW e \in Events, Broadcast(g, e)
    PROVE  /\ tab'.phase = tab.phase /\ tab'.gateway = tab.gateway /\ tab'.last = tab.last
           /\ tab'.signedIn = tab.signedIn /\ tab'.timer = tab.timer
           /\ tab'.status = tab.status
           /\ tab'.wire = IF tab.phase = "open" /\ tab.gateway = g
                          THEN tab.wire \o Items(e) ELSE tab.wire
           /\ tab.last # NoItem =>
                /\ due' \subseteq due \cup ItemsOf(Items(e))
                /\ since' = since + Len(Items(e))
           /\ tab.last = NoItem => due' = due /\ since' = 0
           /\ done' = done /\ gapped' = gapped
  <1> DEFINE items == Items(e)
             u == [tab EXCEPT !.wire = tab.wire \o items]
  <1>1. tab \in Tabs
    BY DEF EventsTyped
  <1>2. tab' = IF tab.phase = "open" /\ tab.gateway = g THEN u ELSE tab
    BY DEF Broadcast, Written
  <1>3. /\ tab.last # NoItem => /\ due' \subseteq due \cup ItemsOf(items)
                                /\ since' = since + Len(items)
        /\ tab.last = NoItem => due' = due /\ since' = 0
        /\ done' = done /\ gapped' = gapped
    BY DEF Broadcast, Written, ItemsOf
  <1> HIDE DEF items
  <1>4. /\ u.phase = tab.phase /\ u.gateway = tab.gateway /\ u.last = tab.last
        /\ u.status = tab.status /\ u.wire = tab.wire \o items
    BY <1>1 DEF Tabs
  <1>5. u.signedIn = tab.signedIn /\ u.timer = tab.timer
    BY <1>1, Zenon DEF Tabs
  <1> HIDE DEF u
  <1>6. CASE tab.phase = "open" /\ tab.gateway = g
    BY <1>2, <1>3, <1>4, <1>5, <1>6 DEF items
  <1>7. CASE ~ (tab.phase = "open" /\ tab.gateway = g)
    BY <1>2, <1>3, <1>7 DEF items
  <1> QED
    BY <1>6, <1>7

LEMMA ConnMoves ==
    ASSUME EventsTyped, ConnInv,
           Still \/ CutHere \/ CutLoose \/ \E g \in Gateways, e \in Events : Broadcast(g, e)
    PROVE  ConnInv'
  <1>1. CASE Still
    BY <1>1 DEF Still, ConnInv, AtRest
  <1>2. CASE CutHere
    BY <1>2 DEF CutHere, ConnInv
  <1>3. CASE CutLoose
    BY <1>3 DEF CutLoose, ConnInv
  <1>4. ASSUME NEW g \in Gateways, NEW e \in Events, Broadcast(g, e) PROVE ConnInv'
    <2>1. UNCHANGED <<replicas, up, restarted>>
      BY <1>4 DEF Broadcast
    <2>2. AtRest(tab') = AtRest(tab)
      BY <1>4, BroadcastWritten DEF AtRest
    <2>3. tab'.phase # "open" => tab'.wire = tab.wire
      BY <1>4, BroadcastWritten
    <2>4. tab'.last = NoItem => due' = due /\ since' = 0
      BY <1>4, BroadcastWritten
    <2>5. /\ tab'.phase = tab.phase /\ tab'.gateway = tab.gateway /\ tab'.last = tab.last
          /\ tab'.signedIn = tab.signedIn
      BY <1>4, BroadcastWritten
    <2> QED
      BY <2>1, <2>2, <2>3, <2>4, <2>5 DEF ConnInv
  <1> QED
    BY <1>1, <1>2, <1>3, <1>4

(* Every step keeps the types and the connection, and is one of the moves. *)
LEMMA EventsStep ==
    ASSUME EventsTyped, ConnInv, [EventsNext]_eventsVars
    PROVE  EventsTyped' /\ ConnInv' /\ Moves
  <1>1. CASE UNCHANGED eventsVars
    <2>1. Still /\ EventsTyped'
      BY <1>1 DEF eventsVars, Still, EventsTyped
    <2> QED
      BY <2>1, ConnMoves DEF Moves
  <1>2. ASSUME NEW e \in Events, Stream(e) PROVE EventsTyped' /\ ConnInv' /\ Moves
    <2>1. EventsTyped' /\ Still
      BY <1>2, StreamMoves
    <2> QED
      BY <2>1, ConnMoves DEF Moves
  <1>3. ASSUME NEW g \in Gateways, HandleRedis(g) PROVE EventsTyped' /\ ConnInv' /\ Moves
    <2>1. EventsTyped' /\ (Still \/ \E e \in Events : Broadcast(g, e))
      BY <1>3, HandleRedisMoves
    <2> QED
      BY <2>1, ConnMoves DEF Moves
  <1>4. ASSUME NEW g \in Gateways, NEW e \in Events, HandleRabbit(g, e)
        PROVE  EventsTyped' /\ ConnInv' /\ Moves
    <2>1. EventsTyped' /\ (Still \/ Broadcast(g, e))
      BY <1>4, HandleRabbitMoves
    <2> QED
      BY <2>1, ConnMoves DEF Moves
  <1>5. ASSUME NEW g \in Gateways, Crash(g) \/ Restart(g)
        PROVE  EventsTyped' /\ ConnInv' /\ Moves
    BY <1>5, CrashMoves, RestartMoves DEF Moves
  <1>6. ASSUME NEW g \in Gateways, Accept(g) PROVE EventsTyped' /\ ConnInv' /\ Moves
    BY <1>6, AcceptMoves DEF Moves
  <1>7. CASE Receive
    BY <1>7, ReceiveMoves DEF Moves
  <1>8. CASE RefuseConnection \/ Lose \/ Error \/ Watchdog \/ Timer \/ Show \/ Reconnect
    <2>1. EventsTyped' /\ CutHere
      BY <1>8, RefuseMoves, LoseMoves, ErrorMoves, WatchdogMoves, TimerMoves, ShowMoves,
        ReconnectMoves
    <2> QED
      BY <2>1, ConnMoves DEF Moves
  <1>9. CASE SignIn \/ SignOut \/ Hide
    <2>1. EventsTyped' /\ CutLoose
      BY <1>9, SignInMoves, SignOutMoves, HideMoves
    <2> QED
      BY <2>1, ConnMoves DEF Moves
  <1> QED
    BY <1>1, <1>2, <1>3, <1>4, <1>5, <1>6, <1>7, <1>8, <1>9 DEF EventsNext

LEMMA EventsStart == ASSUME EventsInit PROVE EventsTyped /\ ConnInv
  <1>1. /\ replicas \in Deployments /\ up = replicas /\ todo = Events
        /\ delivered = [e \in Events |-> 0] /\ channel = [g \in Gateways |-> <<>>]
        /\ processed = [g \in Gateways |-> <<>>] /\ ring = [g \in Gateways |-> <<>>]
        /\ tab = NewClient /\ seen = <<>> /\ done = {} /\ due = {} /\ since = 0
        /\ gapped = FALSE /\ restarted = FALSE /\ faults = 0 /\ clicks = 0
    BY DEF EventsInit
  <1>2. replicas \subseteq Gateways
    BY <1>1, LiveEventsAssumption
  <1>3. <<>> \in Seq(Events) /\ <<>> \in Seq(Item) /\ <<>> \in Seq(Item \cup {NoId})
    BY EmptySeq
  <1>4. /\ channel \in [Gateways -> Seq(Events)] /\ processed \in [Gateways -> Seq(Events)]
        /\ ring \in [Gateways -> Seq(Item)]
        /\ \A g \in Gateways : Len(processed[g]) <= MaxProcessed /\ Len(ring[g]) <= MaxRing
    BY <1>1, <1>3, EventNumbers, EmptySeq
  <1>5. delivered \in [Events -> 0..MaxDeliveries]
    BY <1>1, EventNumbers
  <1>6. seen \in Seq(Item \cup {NoId}) /\ Len(seen) <= MaxSeen
    BY <1>1, <1>3, EventNumbers, EmptySeq
  <1>7. EventsTyped
    <2>1. replicas \subseteq Gateways /\ up \subseteq replicas /\ todo \subseteq Events
      BY <1>1, <1>2
    <2>2. tab \in Tabs
      BY <1>1, NewClientTab
    <2>3. done \subseteq Item /\ due \subseteq Item /\ since \in Nat
      BY <1>1
    <2>4. gapped \in BOOLEAN /\ restarted \in BOOLEAN
      BY <1>1
    <2>5. faults \in 0..MaxFaults /\ clicks \in 0..MaxClicks
      BY <1>1, EventNumbers
    <2> QED
      BY <1>4, <1>5, <1>6, <2>1, <2>2, <2>3, <2>4, <2>5 DEF EventsTyped
  <1>8. NewClient.wire = <<>> /\ NewClient.phase = "none" /\ NewClient.last = NoItem
        /\ NewClient.status = "OFFLINE"
    BY DEF NewClient
  <1>9. ~ NewClient.timer
    BY Zenon DEF NewClient
  <1>10. ConnInv
    BY <1>1, <1>8, <1>9 DEF ConnInv, AtRest
  <1> QED
    BY <1>7, <1>10


-----------------------------------------------------------------------------
(***************************************************************************)
(* Never twice, from one replica that has kept its memory.                 *)
(***************************************************************************)
LEMMA ConcatSeq ==
    ASSUME NEW s \in Seq(Item), NEW t \in Seq(Item)
    PROVE  /\ s \o t \in Seq(Item) /\ Len(s \o t) = Len(s) + Len(t)
           /\ Len(s) \in Nat /\ Len(t) \in Nat
           /\ \A i \in 1..Len(s) : (s \o t)[i] = s[i]
           /\ \A i \in 1..Len(t) : (s \o t)[Len(s) + i] = t[i]
           /\ \A i \in 1..Len(s \o t) : i > Len(s) =>
                 i - Len(s) \in 1..Len(t) /\ (s \o t)[i] = t[i - Len(s)]
  <1>1. s \o t \in Seq(Item) /\ Len(s \o t) = Len(s) + Len(t)
        /\ \A i \in 1 .. Len(s) + Len(t) : (s \o t)[i] = IF i <= Len(s) THEN s[i] ELSE t[i - Len(s)]
    BY ConcatProperties
  <1>2. Len(s) \in Nat /\ Len(t) \in Nat
    OBVIOUS
  <1> DEFINE q == s \o t
             m == Len(s)
             n == Len(t)
  <1>3. m \in Nat /\ n \in Nat /\ Len(q) = m + n
        /\ \A i \in 1..m + n : q[i] = IF i <= m THEN s[i] ELSE t[i - m]
    BY <1>1, <1>2
  <1> HIDE DEF q, m, n
  <1>4. \A i \in 1..m : q[i] = s[i]
    BY <1>3
  <1>5. \A i \in 1..n : q[m + i] = t[i]
    <2> TAKE i \in 1..n
    <2>1. m + i \in 1..m + n /\ ~ (m + i <= m) /\ (m + i) - m = i
      BY <1>3
    <2> QED
      BY <1>3, <2>1
  <1>6. \A i \in 1..m + n : i > m => i - m \in 1..n /\ q[i] = t[i - m]
    BY <1>3
  <1> QED
    BY <1>1, <1>2, <1>3, <1>4, <1>5, <1>6 DEF q, m, n

LEMMA ItemsConcat ==
    ASSUME NEW s \in Seq(Item), NEW t \in Seq(Item)
    PROVE  ItemsOf(s \o t) = ItemsOf(s) \cup ItemsOf(t)
  <1> DEFINE q == s \o t
             m == Len(s)
             n == Len(t)
  <1>1. /\ m \in Nat /\ n \in Nat /\ Len(q) = m + n
        /\ \A i \in 1..m : q[i] = s[i]
        /\ \A i \in 1..n : q[m + i] = t[i]
        /\ \A i \in 1..Len(q) : i > m => i - m \in 1..n /\ q[i] = t[i - m]
    BY ConcatSeq
  <1> HIDE DEF q, m, n
  <1>2. ASSUME NEW x \in ItemsOf(q) PROVE x \in ItemsOf(s) \cup ItemsOf(t)
    <2>1. PICK i \in 1..Len(q) : q[i] = x
      BY DEF ItemsOf
    <2>2. CASE i <= m
      <3>1. i \in 1..m
        BY <1>1, <2>2
      <3> QED
        BY <1>1, <2>1, <3>1 DEF ItemsOf, m
    <2>3. CASE i > m
      BY <1>1, <2>1, <2>3 DEF ItemsOf, n
    <2> QED
      BY <1>1, <2>2, <2>3
  <1>3. ASSUME NEW x \in ItemsOf(s) PROVE x \in ItemsOf(q)
    <2>1. PICK i \in 1..m : s[i] = x
      BY DEF ItemsOf, m
    <2>2. i \in 1..Len(q) /\ q[i] = x
      BY <1>1, <2>1
    <2> QED
      BY <2>2 DEF ItemsOf
  <1>4. ASSUME NEW x \in ItemsOf(t) PROVE x \in ItemsOf(q)
    <2>1. PICK i \in 1..n : t[i] = x
      BY DEF ItemsOf, n
    <2>2. m + i \in 1..Len(q) /\ q[m + i] = x
      BY <1>1, <2>1
    <2> QED
      BY <2>2 DEF ItemsOf
  <1> QED
    BY <1>2, <1>3, <1>4 DEF q

LEMMA AfterConcat ==
    ASSUME NEW s \in Seq(Item), NEW t \in Seq(Item), NEW x, NEW y, After(s \o t, x, y)
    PROVE  \/ After(s, x, y) \/ After(t, x, y)
           \/ x \in ItemsOf(s) /\ y \in ItemsOf(t)
  <1> DEFINE q == s \o t
             m == Len(s)
             n == Len(t)
  <1>1. /\ m \in Nat /\ n \in Nat /\ Len(q) = m + n
        /\ \A i \in 1..m : q[i] = s[i]
        /\ \A i \in 1..Len(q) : i > m => i - m \in 1..n /\ q[i] = t[i - m]
    BY ConcatSeq
  <1>2. PICK i, j \in 1..Len(q) : i < j /\ q[i] = x /\ q[j] = y
    BY DEF After
  <1> HIDE DEF q, m, n
  <1>3. CASE j <= m
    <2>1. i \in 1..m /\ j \in 1..m
      BY <1>1, <1>2, <1>3
    <2> QED
      BY <1>1, <1>2, <2>1 DEF After, m
  <1>4. CASE i > m
    <2>1. j > m /\ i - m < j - m
      BY <1>1, <1>2, <1>4
    <2> QED
      BY <1>1, <1>2, <1>4, <2>1 DEF After, n
  <1>5. CASE i <= m /\ j > m
    <2>1. i \in 1..m
      BY <1>1, <1>2, <1>5
    <2> QED
      BY <1>1, <1>2, <1>5, <2>1 DEF ItemsOf, m, n
  <1> QED
    BY <1>1, <1>2, <1>3, <1>4, <1>5

LEMMA DistinctConcat ==
    ASSUME NEW s \in Seq(Item), NEW t \in Seq(Item), Distinct(s), Distinct(t),
           ItemsOf(s) \cap ItemsOf(t) = {}
    PROVE  Distinct(s \o t)
  <1> DEFINE q == s \o t
             m == Len(s)
             n == Len(t)
  <1>1. /\ m \in Nat /\ n \in Nat /\ Len(q) = m + n
        /\ \A i \in 1..m : q[i] = s[i]
        /\ \A i \in 1..Len(q) : i > m => i - m \in 1..n /\ q[i] = t[i - m]
    BY ConcatSeq
  <1>2. \A i \in 1..m, j \in 1..n : s[i] # t[j]
    BY DEF ItemsOf
  <1>3. (\A i, j \in 1..m : s[i] = s[j] => i = j) /\ \A i, j \in 1..n : t[i] = t[j] => i = j
    BY DEF Distinct
  <1> HIDE DEF q, m, n
  <1>4. ASSUME NEW i \in 1..Len(q), NEW j \in 1..Len(q), q[i] = q[j] PROVE i = j
    <2>1. CASE i <= m /\ j <= m
      <3>1. i \in 1..m /\ j \in 1..m
        BY <1>1, <2>1
      <3> QED
        BY <1>1, <1>3, <1>4, <3>1
    <2>2. CASE i > m /\ j > m
      <3>1. i - m \in 1..n /\ j - m \in 1..n /\ t[i - m] = t[j - m]
        BY <1>1, <1>4, <2>2
      <3>2. i - m = j - m
        BY <1>3, <3>1
      <3> QED
        BY <1>1, <3>2
    <2>3. CASE i <= m /\ j > m
      <3>1. i \in 1..m /\ j - m \in 1..n /\ s[i] = t[j - m]
        BY <1>1, <1>4, <2>3
      <3> QED
        BY <1>2, <3>1
    <2>4. CASE i > m /\ j <= m
      <3>1. j \in 1..m /\ i - m \in 1..n /\ s[j] = t[i - m]
        BY <1>1, <1>4, <2>4
      <3> QED
        BY <1>2, <3>1
    <2> QED
      BY <1>1, <2>1, <2>2, <2>3, <2>4
  <1> QED
    BY <1>4 DEF Distinct, q

(* A suffix keeps what a sequence says about the order of its items.       *)
LEMMA SuffixKeeps ==
    ASSUME NEW s \in Seq(Item), NEW q \in Seq(Item), NEW d \in Nat,
           \A i \in 1..Len(q) : i + d \in 1..Len(s) /\ q[i] = s[i + d]
    PROVE  /\ ItemsOf(q) \subseteq ItemsOf(s)
           /\ \A x, y : After(q, x, y) => After(s, x, y)
           /\ Distinct(s) => Distinct(q)
  <1>1. ItemsOf(q) \subseteq ItemsOf(s)
    BY DEF ItemsOf
  <1>2. ASSUME NEW x, NEW y, After(q, x, y) PROVE After(s, x, y)
    <2>1. PICK i, j \in 1..Len(q) : i < j /\ q[i] = x /\ q[j] = y
      BY <1>2 DEF After
    <2>2. i + d < j + d /\ i + d \in 1..Len(s) /\ j + d \in 1..Len(s)
      BY <2>1
    <2> QED
      BY <2>1, <2>2 DEF After
  <1>3. ASSUME Distinct(s) PROVE Distinct(q)
    <2> SUFFICES ASSUME NEW i \in 1..Len(q), NEW j \in 1..Len(q), q[i] = q[j] PROVE i = j
      BY DEF Distinct
    <2>1. i + d = j + d
      BY <1>3 DEF Distinct
    <2> QED
      BY <2>1
  <1> QED
    BY <1>1, <1>2, <1>3

LEMMA DistinctApart ==
    ASSUME NEW s \in Seq(Item), Distinct(s), NEW x, NEW y, After(s, x, y)
    PROVE  ~ After(s, y, x)
  <1>1. PICK i, j \in 1..Len(s) : i < j /\ s[i] = x /\ s[j] = y
    BY DEF After
  <1>2. SUFFICES ASSUME After(s, y, x) PROVE FALSE
    OBVIOUS
  <1>3. PICK k, l \in 1..Len(s) : k < l /\ s[k] = y /\ s[l] = x
    BY <1>2 DEF After
  <1>4. i = l /\ j = k
    BY <1>1, <1>3 DEF Distinct
  <1> QED
    BY <1>1, <1>3, <1>4

(* A replica that can remember every event drops none of them.             *)
LEMMA RoomForOneMore ==
    ASSUME NEW p \in Seq(Events), Distinct(p), NEW e \in Events, ~ Holds(p, e)
    PROVE  Len(p) < Cardinality(Events)
  <1> DEFINE n == Len(p)
             f == [i \in 0..n |-> IF i = 0 THEN e ELSE p[i]]
  <1>1. n \in Nat /\ \A i \in 1..n : p[i] \in Events
    OBVIOUS
  <1>2. (\A i, j \in 1..n : p[i] = p[j] => i = j) /\ \A i \in 1..n : p[i] # e
    BY DEF Distinct, Holds
  <1> HIDE DEF n
  <1>3. f \in [0..n -> Events]
    BY <1>1
  <1>4. ASSUME NEW i \in 0..n, NEW j \in 0..n, f[i] = f[j] PROVE i = j
    BY <1>1, <1>2, <1>4
  <1> HIDE DEF f
  <1>5. Cardinality(0..n) <= Cardinality(Events) /\ Cardinality(Events) \in Nat
    BY <1>3, <1>4, NoMoreThan, LiveEventsAssumption
  <1>6. Cardinality(0..n) = n + 1
    <2>1. 0 \in Int /\ n \in Int /\ ~ (0 > n) /\ n - 0 + 1 = n + 1
      BY <1>1
    <2> QED
      BY <2>1, FS_Interval
  <1>7. n < Cardinality(Events)
    BY <1>1, <1>5, <1>6
  <1> QED
    BY <1>7 DEF n

LEMMA AppendHolds ==
    ASSUME NEW p \in Seq(Events), Distinct(p), NEW e \in Events, ~ Holds(p, e)
    PROVE  /\ Distinct(Append(p, e)) /\ Holds(Append(p, e), e)
           /\ \A x : Holds(p, x) => Holds(Append(p, e), x)
  <1> DEFINE n == Len(p)
             q == Append(p, e)
  <1>1. n \in Nat /\ Len(q) = n + 1 /\ q[n + 1] = e /\ \A i \in 1..n : q[i] = p[i]
    OBVIOUS
  <1>2. (\A i, j \in 1..n : p[i] = p[j] => i = j) /\ \A i \in 1..n : p[i] # e
    BY DEF Distinct, Holds
  <1> HIDE DEF n, q
  <1>3. ASSUME NEW i \in 1..Len(q), NEW j \in 1..Len(q), q[i] = q[j] PROVE i = j
    <2>1. (i \in 1..n \/ i = n + 1) /\ (j \in 1..n \/ j = n + 1)
      BY <1>1
    <2> QED
      BY <1>1, <1>2, <1>3, <2>1
  <1>4. Holds(q, e)
    <2>1. n + 1 \in 1..Len(q)
      BY <1>1
    <2> QED
      BY <1>1, <2>1 DEF Holds
  <1>5. ASSUME NEW x, Holds(p, x) PROVE Holds(q, x)
    <2>1. PICK i \in 1..n : p[i] = x
      BY <1>5 DEF Holds, n
    <2>2. i \in 1..Len(q) /\ q[i] = x
      BY <1>1, <2>1
    <2> QED
      BY <2>2 DEF Holds
  <1> QED
    BY <1>3, <1>4, <1>5 DEF Distinct, q

(* What a replica with memory p and ring r has broadcast, what is on the    *)
(* wire w and what the tab, at its place last, has handled do not mix.     *)
Ordered(p, r, w, last, D) ==
    /\ Distinct(r) /\ Distinct(w)
    /\ \A x \in ItemsOf(r) \cup ItemsOf(w) \cup D : Holds(p, x[1])
    /\ ItemsOf(w) \cap D = {}
    /\ \A x, y : After(w, x, y) => ~ After(r, y, x)
    /\ \A y \in ItemsOf(w) \cup {last}, z \in D : ~ After(r, y, z)

LEMMA EmptyWire ==
    /\ ItemsOf(<<>>) = {} /\ Distinct(<<>>) /\ \A x, y : ~ After(<<>>, x, y)
  BY DEF ItemsOf, Distinct, After

LEMMA OrderedCut ==
    ASSUME NEW p, NEW r \in Seq(Item), NEW w, NEW last, NEW D, Ordered(p, r, w, last, D),
           NEW l \in {last, NoItem}, NEW C \in {D, {}}
    PROVE  Ordered(p, r, <<>>, l, C)
  <1>1. \A z : ~ After(r, NoItem, z)
    <2>1. \A i \in 1..Len(r) : r[i] \in Item
      OBVIOUS
    <2> QED
      BY <2>1, NoItemIsNone DEF After
  <1> QED
    BY <1>1, EmptyWire DEF Ordered

LEMMA TailItems ==
    ASSUME NEW w \in Seq(Item), w # <<>>
    PROVE  /\ Tail(w) \in Seq(Item) /\ Len(Tail(w)) = Len(w) - 1 /\ Len(w) \in Nat /\ Len(w) >= 1
           /\ \A i \in 1..Len(Tail(w)) : i + 1 \in 1..Len(w) /\ Tail(w)[i] = w[i + 1]
           /\ Head(w) = w[1] /\ Head(w) \in ItemsOf(w) /\ ItemsOf(Tail(w)) \subseteq ItemsOf(w)
           /\ \A y \in ItemsOf(Tail(w)) : After(w, Head(w), y)
  <1>1. /\ Tail(w) \in Seq(Item) /\ Len(Tail(w)) = Len(w) - 1 /\ Head(w) = w[1]
        /\ \A i \in 1..Len(Tail(w)) : Tail(w)[i] = w[i + 1]
    BY HeadTailProperties
  <1>2. Len(w) \in Nat /\ Len(w) >= 1
    OBVIOUS
  <1> DEFINE t == Tail(w)
  <1>3. \A i \in 1..Len(t) : i + 1 \in 1..Len(w) /\ t[i] = w[i + 1]
    BY <1>1, <1>2
  <1>4. 1 \in 1..Len(w)
    BY <1>2
  <1> HIDE DEF t
  <1>5. ItemsOf(t) \subseteq ItemsOf(w)
    BY <1>3 DEF ItemsOf
  <1>6. ASSUME NEW y \in ItemsOf(t) PROVE After(w, w[1], y)
    <2>1. PICK i \in 1..Len(t) : t[i] = y
      BY DEF ItemsOf
    <2>2. i + 1 \in 1..Len(w) /\ w[i + 1] = y /\ 1 < i + 1
      BY <1>3, <2>1
    <2> QED
      BY <1>4, <2>2 DEF After
  <1>7. w[1] \in ItemsOf(w)
    BY <1>4 DEF ItemsOf
  <1> QED
    BY <1>1, <1>2, <1>3, <1>5, <1>6, <1>7 DEF t

LEMMA OrderedReceive ==
    ASSUME NEW p, NEW r \in Seq(Item), NEW w \in Seq(Item), w # <<>>, NEW last, NEW D,
           Ordered(p, r, w, last, D)
    PROVE  Ordered(p, r, Tail(w), Head(w), D \cup {Head(w)})
  <1> DEFINE t == Tail(w)
             x == Head(w)
  <1>1. /\ t \in Seq(Item) /\ x \in ItemsOf(w) /\ ItemsOf(t) \subseteq ItemsOf(w)
        /\ \A y \in ItemsOf(t) : After(w, x, y)
        /\ 1 \in Nat /\ \A i \in 1..Len(t) : i + 1 \in 1..Len(w) /\ t[i] = w[i + 1]
    BY TailItems
  <1> HIDE DEF t, x
  <1>2. (\A a, b : After(t, a, b) => After(w, a, b)) /\ Distinct(t)
    BY <1>1, SuffixKeeps DEF Ordered
  <1>3. \A y \in ItemsOf(t) : y # x
    BY <1>1, DistinctApart DEF Ordered
  <1>4. ~ After(r, x, x)
    BY DistinctApart DEF Ordered
  <1>5. \A y \in ItemsOf(t) : ~ After(r, y, x)
    BY <1>1 DEF Ordered
  <1>6. ASSUME NEW y \in ItemsOf(t) \cup {x}, NEW z \in D \cup {x} PROVE ~ After(r, y, z)
    BY <1>1, <1>4, <1>5 DEF Ordered
  <1>7. ItemsOf(t) \cap (D \cup {x}) = {}
    BY <1>1, <1>3 DEF Ordered
  <1>8. Ordered(p, r, t, x, D \cup {x})
    BY <1>1, <1>2, <1>6, <1>7 DEF Ordered
  <1> QED
    BY <1>8 DEF t, x

LEMMA OrderedAccept ==
    ASSUME NEW g, ring[g] \in Seq(Item), NEW p, NEW w, NEW last, NEW D,
           Ordered(p, ring[g], w, last, D)
    PROVE  Ordered(p, ring[g], Replay(g, last), last, D)
  <1> DEFINE r == ring[g]
             q == Replay(g, last)
  <1>1. /\ q \in Seq(Item)
        /\ \/ q = <<>>
           \/ \E n \in 1..Len(r) : r[n] = last /\ Len(q) = Len(r) - n
                                   /\ \A i \in 1..Len(q) : q[i] = r[n + i]
    BY ReplaySeq
  <1> HIDE DEF r, q
  <1>2. CASE q = <<>>
    BY <1>2, EmptyWire DEF Ordered, r, q
  <1>3. ASSUME NEW n \in 1..Len(r), r[n] = last, Len(q) = Len(r) - n,
               \A i \in 1..Len(q) : q[i] = r[n + i]
        PROVE  Ordered(p, r, q, last, D)
    <2>1. r \in Seq(Item) /\ Len(r) \in Nat /\ Ordered(p, r, w, last, D)
      BY DEF r
    <2>2. n \in Nat /\ \A i \in 1..Len(q) : i + n \in 1..Len(r) /\ q[i] = r[i + n]
      <3>1. n \in Nat
        BY <2>1
      <3>2. \A i \in 1..Len(q) : i + n = n + i /\ i + n \in 1..Len(r)
        BY <1>3, <2>1
      <3> QED
        BY <1>3, <3>1, <3>2
    <2>3. /\ ItemsOf(q) \subseteq ItemsOf(r) /\ Distinct(q)
          /\ \A x, y : After(q, x, y) => After(r, x, y)
      BY <1>1, <2>1, <2>2, SuffixKeeps DEF Ordered
    <2>4. ASSUME NEW y \in ItemsOf(q)
          PROVE  \E i \in 1..Len(r) : n < i /\ r[i] = y
      <3>1. PICK i \in 1..Len(q) : q[i] = y
        BY DEF ItemsOf
      <3>2. i + n \in 1..Len(r) /\ n < i + n
        BY <2>1, <2>2
      <3> QED
        BY <2>2, <3>1, <3>2
    <2>5. \A y \in ItemsOf(q) : After(r, last, y)
      BY <1>3, <2>4 DEF After
    <2>6. ASSUME NEW y \in ItemsOf(q), NEW z \in D, After(r, y, z) PROVE FALSE
      <3>1. PICK i \in 1..Len(r) : n < i /\ r[i] = y
        BY <2>4
      <3>2. PICK j, k \in 1..Len(r) : j < k /\ r[j] = y /\ r[k] = z
        BY <2>6 DEF After
      <3>3. j = i
        BY <2>1, <3>1, <3>2 DEF Ordered, Distinct
      <3>4. n < k
        BY <2>1, <3>1, <3>2, <3>3
      <3>5. After(r, last, z)
        BY <1>3, <3>2, <3>4 DEF After
      <3> QED
        BY <2>1, <3>5 DEF Ordered
    <2>7. ItemsOf(q) \cap D = {}
      BY <2>1, <2>5 DEF Ordered
    <2>8. \A x, y : After(q, x, y) => ~ After(r, y, x)
      BY <2>1, <2>3, DistinctApart DEF Ordered
    <2>9. \A y \in ItemsOf(q) \cup {last}, z \in D : ~ After(r, y, z)
      BY <2>1, <2>6 DEF Ordered
    <2> QED
      BY <2>1, <2>3, <2>7, <2>8, <2>9 DEF Ordered
  <1> QED
    BY <1>1, <1>2, <1>3 DEF r, q

(* A sequence that has gained some new items at its end, and lost others.  *)
Grown(s2, s, t) ==
    /\ Distinct(s2) /\ ItemsOf(s2) \subseteq ItemsOf(s) \cup ItemsOf(t)
    /\ \A x, y : After(s2, x, y) => \/ After(s, x, y) \/ After(t, x, y)
                                    \/ x \in ItemsOf(s) /\ y \in ItemsOf(t)

LEMMA ConcatGrows ==
    ASSUME NEW s \in Seq(Item), NEW t \in Seq(Item), Distinct(s), Distinct(t),
           ItemsOf(s) \cap ItemsOf(t) = {}
    PROVE  Grown(s \o t, s, t)
  BY DistinctConcat, ItemsConcat, AfterConcat DEF Grown

LEMMA AfterIsIn ==
    ASSUME NEW s, NEW x, NEW y, After(s, x, y) PROVE x \in ItemsOf(s) /\ y \in ItemsOf(s)
  BY DEF After, ItemsOf

LEMMA OrderedBroadcast ==
    ASSUME NEW p, NEW r, NEW w, NEW last, NEW D, Ordered(p, r, w, last, D),
           NEW p2, NEW e, NEW t \in Seq(Item), Distinct(t), ~ Holds(p, e), Holds(p2, e),
           \A x : Holds(p, x) => Holds(p2, x),
           \A x \in ItemsOf(t) : x[1] = e,
           NEW r2, Grown(r2, r, t), NEW w2, Grown(w2, w, t)
    PROVE  Ordered(p2, r2, w2, last, D)
  <1> DEFINE R == ItemsOf(r)
             W == ItemsOf(w)
             T == ItemsOf(t)
  <1>1. T \cap R = {} /\ T \cap W = {} /\ T \cap D = {}
    BY DEF Ordered
  <1>2. \A x \in ItemsOf(r2) \cup ItemsOf(w2) \cup D : Holds(p2, x[1])
    BY DEF Ordered, Grown
  <1>3. ItemsOf(w2) \cap D = {}
    BY <1>1 DEF Ordered, Grown
  <1>4. ASSUME NEW x, NEW y, After(w2, x, y), After(r2, y, x) PROVE FALSE
    <2>1. After(w, x, y) \/ After(t, x, y) \/ (x \in W /\ y \in T)
      BY <1>4 DEF Grown
    <2>2. After(r, y, x) \/ After(t, y, x) \/ (y \in R /\ x \in T)
      BY <1>4 DEF Grown
    <2>3. /\ After(w, x, y) => x \in W /\ y \in W
          /\ After(t, x, y) => x \in T /\ y \in T
          /\ After(r, y, x) => x \in R /\ y \in R
          /\ After(t, y, x) => x \in T /\ y \in T
      BY AfterIsIn
    <2>4. ~ (After(t, x, y) /\ After(t, y, x))
      BY DistinctApart
    <2>5. ~ (After(w, x, y) /\ After(r, y, x))
      BY DEF Ordered
    <2> HIDE DEF R, W, T
    <2> QED
      BY <1>1, <2>1, <2>2, <2>3, <2>4, <2>5
  <1>5. ASSUME NEW y \in ItemsOf(w2) \cup {last}, NEW z \in D, After(r2, y, z) PROVE FALSE
    <2>1. After(r, y, z) \/ After(t, y, z) \/ (y \in R /\ z \in T)
      BY <1>5 DEF Grown
    <2>2. After(r, y, z) => y \in R
      BY AfterIsIn
    <2>3. After(t, y, z) => z \in T
      BY AfterIsIn
    <2>4. After(r, y, z) /\ y \in R
      BY <1>1, <2>1, <2>2, <2>3
    <2>5. y \in W \cup {last}
      BY <1>1, <2>4 DEF Grown
    <2> QED
      BY <2>4, <2>5 DEF Ordered
  <1> QED
    BY <1>2, <1>3, <1>4, <1>5 DEF Ordered, Grown


OnceInv ==
    \A g \in Gateways :
        replicas = {g} /\ ~ restarted /\ MaxProcessed >= Cardinality(Events)
        => Distinct(processed[g]) /\ Ordered(processed[g], ring[g], tab.wire, tab.last, done)

LEMMA OnceBroadcast ==
    ASSUME EventsTyped, ConnInv, OnceInv, NEW g \in Gateways, NEW e \in Events, Broadcast(g, e),
           replicas = {g}, ~ restarted, MaxProcessed >= Cardinality(Events)
    PROVE  /\ Distinct(processed'[g])
           /\ Ordered(processed'[g], ring'[g], tab'.wire, tab'.last, done')
  <1> DEFINE p == processed[g]
             r == ring[g]
             w == tab.wire
             t == Items(e)
  <1>1. /\ p \in Seq(Events) /\ r \in Seq(Item) /\ Len(r) <= MaxRing /\ w \in Seq(Item)
        /\ ~ Holds(p, e)
    BY DEF EventsTyped, Tabs, Broadcast
  <1>2. Distinct(p) /\ Ordered(p, r, w, tab.last, done)
    BY DEF OnceInv
  <1>3. /\ t \in Seq(Item) /\ Distinct(t) /\ \A x \in ItemsOf(t) : x[1] = e
    BY ItemsTyped DEF ItemsOf
  <1>4. processed'[g] = Pushed(p, e, MaxProcessed) /\ ring'[g] = Ringed(r, t)
    BY DEF Broadcast, EventsTyped
  <1>5. tab'.last = tab.last /\ done' = done /\ (tab'.wire = w \o t \/ tab'.wire = w)
    BY BroadcastWritten
  <1> HIDE DEF p, r, w, t
  <1>6. processed'[g] = Append(p, e)
    <2>1. Len(p) < MaxProcessed
      <3>1. Len(p) < Cardinality(Events) /\ Len(p) \in Nat
        BY <1>1, <1>2, RoomForOneMore
      <3>2. Cardinality(Events) \in Nat
        BY LiveEventsAssumption, FS_CardinalityType
      <3> QED
        BY <3>1, <3>2, EventNumbers
    <2> QED
      BY <1>4, <2>1 DEF Pushed
  <1> DEFINE p2 == Append(p, e)
  <1>7. Distinct(p2) /\ Holds(p2, e) /\ \A x : Holds(p, x) => Holds(p2, x)
    BY <1>1, <1>2, AppendHolds
  <1> HIDE DEF p2
  <1>8. ItemsOf(r) \cap ItemsOf(t) = {} /\ ItemsOf(w) \cap ItemsOf(t) = {}
    BY <1>1, <1>2, <1>3 DEF Ordered
  <1>9. Grown(r \o t, r, t) /\ Grown(w \o t, w, t)
    BY <1>1, <1>2, <1>3, <1>8, ConcatGrows DEF Ordered
  <1> DEFINE r2 == Ringed(r, t)
             all == r \o t
  <1>10. Grown(r2, r, t)
    <2>1. PICK d \in Nat : /\ r2 \in Seq(Item) /\ all \in Seq(Item)
                           /\ \A i \in 1..Len(r2) : i + d \in 1..Len(all) /\ r2[i] = all[i + d]
      BY <1>1, <1>3, RingedSeq
    <2> HIDE DEF r2
    <2>2. /\ ItemsOf(r2) \subseteq ItemsOf(all) /\ \A x, y : After(r2, x, y) => After(all, x, y)
          /\ Distinct(all) => Distinct(r2)
      <3> HIDE DEF all
      <3> QED
        BY <2>1, SuffixKeeps
    <2> QED
      BY <1>9, <2>2 DEF Grown
  <1> HIDE DEF r2
  <1>11. Grown(w, w, t)
    BY <1>2 DEF Grown, Ordered
  <1>12. Grown(tab'.wire, w, t)
    BY <1>5, <1>9, <1>11
  <1>13. Ordered(p2, r2, tab'.wire, tab.last, done)
    BY <1>1, <1>2, <1>3, <1>7, <1>10, <1>12, OrderedBroadcast
  <1> QED
    BY <1>4, <1>5, <1>6, <1>7, <1>13 DEF p2, r2

LEMMA OnceStep ==
    ASSUME EventsTyped, ConnInv, OnceInv, Moves
    PROVE  OnceInv'
  <1> SUFFICES ASSUME NEW g \in Gateways, replicas' = {g}, ~ restarted',
                      MaxProcessed >= Cardinality(Events)
               PROVE  /\ Distinct(processed'[g])
                      /\ Ordered(processed'[g], ring'[g], tab'.wire, tab'.last, done')
    BY DEF OnceInv
  <1>1. CASE Still
    BY <1>1 DEF Still, OnceInv
  <1>2. CASE CutHere \/ CutLoose
    <2>1. /\ UNCHANGED <<replicas, restarted, processed, ring>> /\ tab'.wire = <<>>
          /\ tab'.last \in {tab.last, NoItem} /\ done' \in {done, {}}
      BY <1>2 DEF CutHere, CutLoose
    <2>2. /\ Distinct(processed[g]) /\ ring[g] \in Seq(Item)
          /\ Ordered(processed[g], ring[g], tab.wire, tab.last, done)
      BY <2>1 DEF OnceInv, EventsTyped
    <2>3. PICK l \in {tab.last, NoItem}, C \in {done, {}} : tab'.last = l /\ done' = C
      BY <2>1
    <2>4. Ordered(processed[g], ring[g], <<>>, l, C)
      BY <2>2, OrderedCut
    <2> QED
      BY <2>1, <2>2, <2>3, <2>4
  <1>3. ASSUME NEW h \in Gateways, NEW e \in Events, Broadcast(h, e)
        PROVE  /\ Distinct(processed'[g])
               /\ Ordered(processed'[g], ring'[g], tab'.wire, tab'.last, done')
    <2>1. UNCHANGED <<replicas, up, restarted>> /\ h \in up
      BY <1>3 DEF Broadcast
    <2>2. h = g
      BY <2>1 DEF EventsTyped
    <2> QED
      BY <1>3, <2>1, <2>2, OnceBroadcast
  <1>4. ASSUME NEW h \in Gateways, Accept(h)
        PROVE  /\ Distinct(processed'[g])
               /\ Ordered(processed'[g], ring'[g], tab'.wire, tab'.last, done')
    <2>1. /\ h \in up /\ tab'.wire = Replay(h, tab.last) /\ tab'.last = tab.last
          /\ UNCHANGED <<replicas, processed, ring, done, restarted>>
      BY <1>4, AcceptMoves
    <2>2. h = g
      BY <2>1 DEF EventsTyped
    <2>3. /\ Distinct(processed[g]) /\ ring[g] \in Seq(Item)
          /\ Ordered(processed[g], ring[g], tab.wire, tab.last, done)
      BY <2>1 DEF OnceInv, EventsTyped
    <2>4. Ordered(processed[g], ring[g], Replay(g, tab.last), tab.last, done)
      BY <2>3, OrderedAccept
    <2> QED
      BY <2>1, <2>2, <2>3, <2>4
  <1>5. CASE Receive
    <2>1. /\ tab.wire \in Seq(Item) /\ tab.wire # <<>>
          /\ tab'.wire = Tail(tab.wire) /\ tab'.last = Head(tab.wire)
          /\ done' = done \cup {Head(tab.wire)}
          /\ UNCHANGED <<replicas, processed, ring, restarted>>
      BY <1>5, ReceiveMoves
    <2>2. /\ Distinct(processed[g]) /\ ring[g] \in Seq(Item)
          /\ Ordered(processed[g], ring[g], tab.wire, tab.last, done)
      BY <2>1 DEF OnceInv, EventsTyped
    <2>3. Ordered(processed[g], ring[g], Tail(tab.wire), Head(tab.wire), done \cup {Head(tab.wire)})
      BY <2>1, <2>2, OrderedReceive
    <2> QED
      BY <2>1, <2>2, <2>3
  <1> QED
    BY <1>1, <1>2, <1>3, <1>4, <1>5 DEF Moves

LEMMA OnceStart == ASSUME EventsInit PROVE OnceInv
  <1> SUFFICES ASSUME NEW g \in Gateways
               PROVE  /\ Distinct(processed[g])
                      /\ Ordered(processed[g], ring[g], tab.wire, tab.last, done)
    BY DEF OnceInv
  <1>1. processed[g] = <<>> /\ ring[g] = <<>> /\ tab.wire = <<>> /\ done = {}
    BY DEF EventsInit, NewClient
  <1> QED
    BY <1>1, EmptyWire DEF Ordered

(* Whatever the replica's broadcasts, the reconnections, the replays and    *)
(* the tab's own short memory do in whatever order, a tab that stays signed *)
(* in handles no event twice from one replica that has kept its memory:     *)
(* app.js 154-243, RealtimeContext.jsx 26-43, gatewayEventConsumer.js       *)
(* 98-104.                                                                 *)
THEOREM NeverTwice == EventsSpec => HandledOnce
  <1> DEFINE Inv == EventsTyped /\ ConnInv /\ OnceInv
             Once == /\ Receive /\ Cardinality(replicas) = 1 /\ ~ restarted
                     /\ MaxProcessed >= Cardinality(Events)
                     /\ ~ Holds(seen, Head(tab.wire))
                     => Head(tab.wire) \notin done
  <1>1. EventsInit => Inv
    BY EventsStart, OnceStart
  <1>2. Inv /\ [EventsNext]_eventsVars => Inv'
    BY EventsStep, OnceStep
  <1>3. Inv /\ [EventsNext]_eventsVars => [Once]_eventsVars
    <2> SUFFICES ASSUME Inv, Receive, Cardinality(replicas) = 1, ~ restarted,
                        MaxProcessed >= Cardinality(Events)
                 PROVE  Head(tab.wire) \notin done
      OBVIOUS
    <2>1. tab.wire \in Seq(Item) /\ tab.wire # <<>>
      BY ReceiveMoves
    <2>2. Head(tab.wire) \in ItemsOf(tab.wire)
      BY <2>1, TailItems
    <2>3. PICK g \in Gateways : replicas = {g}
      <3>1. IsFiniteSet(replicas)
        BY LiveEventsAssumption, FS_Subset DEF EventsTyped
      <3>2. \E g : replicas = {g}
        BY <3>1, FS_Singleton
      <3> QED
        BY <3>2 DEF EventsTyped
    <2>4. ItemsOf(tab.wire) \cap done = {}
      BY <2>3 DEF OnceInv, Ordered
    <2> QED
      BY <2>2, <2>4
  <1> QED
    BY <1>1, <1>2, <1>3, PTL DEF EventsSpec, HandledOnce


-----------------------------------------------------------------------------
(***************************************************************************)
(* Within reach, while the ring of the one replica holds the tab's place.  *)
(***************************************************************************)
\* Where in the ring the tab is: since items before its end.
Placed(r, last, n, D) ==
    last # NoItem /\ n < MaxRing =>
        /\ n < Len(r) /\ r[Len(r) - n] = last
        /\ \A x \in D : \E k \in 0..n - 1 : r[Len(r) - k] = x

\* The wire ends as the ring does.
Aligned(r, w, D) ==
    /\ D \subseteq ItemsOf(w)
    /\ Len(w) <= Len(r) \/ Len(r) = MaxRing
    /\ \A k \in Nat : k < Len(w) /\ k < Len(r) => w[Len(w) - k] = r[Len(r) - k]

LEMMA PlacedReceive ==
    ASSUME NEW r \in Seq(Item), NEW w \in Seq(Item), w # <<>>, NEW D, Aligned(r, w, D),
           NEW C, C \subseteq (D \cup {w[i] : i \in 2..Len(w)}) \ {Head(w)}
    PROVE  Placed(r, Head(w), Len(w) - 1, C) /\ Aligned(r, Tail(w), C)
  <1> DEFINE m == Len(w)
             t == Tail(w)
             n == Len(r)
  <1>1. /\ t \in Seq(Item) /\ Len(t) = m - 1 /\ m \in Nat /\ m >= 1 /\ Head(w) = w[1]
        /\ \A i \in 1..Len(t) : i + 1 \in 1..m /\ t[i] = w[i + 1]
        /\ n \in Nat
    BY TailItems
  <1>2. /\ D \subseteq ItemsOf(w) /\ (m <= n \/ n = MaxRing)
        /\ \A k \in Nat : k < m /\ k < n => w[m - k] = r[n - k]
    BY DEF Aligned
  <1>3. ASSUME NEW x \in C PROVE \E i \in 2..m : w[i] = x
    <2>1. x # w[1] /\ (x \in D \/ \E i \in 2..m : w[i] = x)
      BY <1>1
    <2>2. CASE x \in D
      <3>1. PICK i \in 1..m : w[i] = x
        BY <1>2, <2>2 DEF ItemsOf
      <3>2. i \in 2..m
        BY <1>1, <2>1, <3>1
      <3> QED
        BY <3>1, <3>2
    <2> QED
      BY <2>1, <2>2
  <1> HIDE DEF m, n, t
  <1>4. ASSUME m - 1 < MaxRing
        PROVE  /\ m - 1 < n /\ r[n - (m - 1)] = w[1]
               /\ \A x \in C : \E k \in 0..(m - 1) - 1 : r[n - k] = x
    <2>1. m - 1 < n /\ m - 1 \in Nat
      BY <1>1, <1>2, <1>4, EventNumbers
    <2>2. r[n - (m - 1)] = w[1]
      <3>1. m - 1 < m /\ m - (m - 1) = 1
        BY <1>1
      <3>2. w[m - (m - 1)] = r[n - (m - 1)]
        BY <1>2, <2>1, <3>1
      <3> QED
        BY <3>1, <3>2
    <2>3. ASSUME NEW x \in C PROVE \E k \in 0..(m - 1) - 1 : r[n - k] = x
      <3>1. PICK i \in 2..m : w[i] = x
        BY <1>3
      <3>2. PICK k \in Nat : k = m - i
        BY <1>1
      <3>3. k \in 0..(m - 1) - 1 /\ k < m /\ k < n /\ m - k = i
        BY <1>1, <2>1, <3>2
      <3>4. r[n - k] = w[m - k]
        BY <1>2, <3>3
      <3> QED
        BY <3>1, <3>3, <3>4
    <2> QED
      BY <2>1, <2>2, <2>3
  <1>5. C \subseteq ItemsOf(t)
    <2> SUFFICES ASSUME NEW x \in C PROVE x \in ItemsOf(t)
      OBVIOUS
    <2>1. PICK i \in 2..m : w[i] = x
      BY <1>3
    <2>2. PICK j \in Nat : j = i - 1
      BY <1>1
    <2>3. j \in 1..Len(t) /\ j + 1 = i
      BY <1>1, <2>2
    <2>4. t[j] = x
      BY <1>1, <2>1, <2>3
    <2> QED
      BY <2>3, <2>4 DEF ItemsOf
  <1>6. ASSUME NEW k \in Nat, k < Len(t), k < n PROVE t[Len(t) - k] = r[n - k]
    <2>1. Len(t) - k \in 1..Len(t) /\ (Len(t) - k) + 1 = m - k /\ k < m
      BY <1>1, <1>6
    <2>2. t[Len(t) - k] = w[(Len(t) - k) + 1]
      BY <1>1, <2>1
    <2> QED
      BY <1>2, <1>6, <2>1, <2>2
  <1>7. Len(t) <= n \/ n = MaxRing
    BY <1>1, <1>2
  <1>8. Placed(r, Head(w), m - 1, C)
    BY <1>1, <1>4 DEF Placed, n
  <1>9. Aligned(r, t, C)
    BY <1>5, <1>6, <1>7 DEF Aligned, n
  <1> QED
    BY <1>8, <1>9 DEF m, t

LEMMA AlignedAccept ==
    ASSUME NEW g, ring[g] \in Seq(Item), NEW last, NEW n \in Nat, n < MaxRing, NEW D,
           Placed(ring[g], last, n, D), last = NoItem => D = {}
    PROVE  Aligned(ring[g], Replay(g, last), D)
  <1> DEFINE r == ring[g]
             q == Replay(g, last)
             L == Len(r)
  <1>1. /\ q \in Seq(Item) /\ L \in Nat
        /\ \/ q = <<>> /\ ~ Holds(r, last)
           \/ \E p \in 1..Len(r) :
                 /\ r[p] = last /\ \A i \in 1..Len(r) : r[i] = last => p <= i
                 /\ Len(q) = Len(r) - p
                 /\ \A i \in 1..Len(q) : q[i] = r[p + i]
    BY ReplaySeq
  <1>2. last # NoItem => /\ n < L /\ r[L - n] = last
                         /\ \A x \in D : \E k \in 0..n - 1 : r[L - k] = x
    BY DEF Placed
  <1> HIDE DEF q
  <1>3. CASE q = <<>> /\ ~ Holds(r, last)
    <2>1. last = NoItem
      <3>1. n < L => L - n \in 1..L
        BY <1>1
      <3> QED
        BY <1>2, <1>3, <3>1 DEF Holds
    <2>2. D = {} /\ Len(q) = 0
      BY <1>3, <2>1
    <2> QED
      BY <1>1, <2>2 DEF Aligned, q
  <1>4. ASSUME NEW p \in 1..L, r[p] = last, \A i \in 1..L : r[i] = last => p <= i,
               Len(q) = L - p, \A i \in 1..Len(q) : q[i] = r[p + i]
        PROVE  Aligned(r, q, D)
    <2>1. last # NoItem
      <3>1. r[p] \in Item
        BY <1>1, <1>4
      <3> QED
        BY <1>4, <3>1, NoItemIsNone
    <2>2. /\ n < L /\ r[L - n] = last /\ \A x \in D : \E k \in 0..n - 1 : r[L - k] = x
      BY <1>2, <2>1
    <2> HIDE DEF r, L
    <2>3. p <= L - n /\ p \in Nat
      <3>1. L - n \in 1..L
        BY <1>1, <2>2
      <3> QED
        BY <1>1, <1>4, <2>2, <3>1
    <2>4. ASSUME NEW k \in Nat, k < L - p PROVE L - p - k \in 1..Len(q) /\ q[L - p - k] = r[L - k]
      <3>1. L - p - k \in 1..Len(q) /\ p + (L - p - k) = L - k
        BY <1>1, <1>4, <2>3, <2>4
      <3> QED
        BY <1>4, <3>1
    <2>5. D \subseteq ItemsOf(q)
      <3> SUFFICES ASSUME NEW x \in D PROVE x \in ItemsOf(q)
        OBVIOUS
      <3>1. PICK k \in 0..n - 1 : r[L - k] = x
        BY <2>2
      <3>2. k \in Nat /\ k < L - p
        BY <1>1, <2>3
      <3>3. L - p - k \in 1..Len(q) /\ q[L - p - k] = x
        BY <2>4, <3>1, <3>2
      <3> QED
        BY <3>3 DEF ItemsOf
    <2>6. Len(q) <= L
      BY <1>1, <1>4, <2>3
    <2>7. ASSUME NEW k \in Nat, k < Len(q), k < L PROVE q[Len(q) - k] = r[L - k]
      BY <1>4, <2>4, <2>7
    <2> QED
      BY <2>5, <2>6, <2>7 DEF Aligned, L
  <1> QED
    BY <1>1, <1>3, <1>4 DEF q

(* The ring after a broadcast, counted from its end.                       *)
LEMMA RingEnd ==
    ASSUME NEW r \in Seq(Item), NEW t \in Seq(Item), Len(r) <= MaxRing
    PROVE  LET q == Ringed(r, t)
           IN  /\ q \in Seq(Item) /\ Len(q) \in Nat /\ Len(q) <= MaxRing
               /\ Len(q) <= Len(r) + Len(t)
               /\ Len(q) = Len(r) + Len(t) \/ Len(q) = MaxRing
               /\ \A k \in Nat : k < Len(q) =>
                     /\ k < Len(t) => q[Len(q) - k] = t[Len(t) - k]
                     /\ k >= Len(t) => /\ k - Len(t) < Len(r)
                                       /\ q[Len(q) - k] = r[Len(r) - (k - Len(t))]
  <1> DEFINE q == Ringed(r, t)
             all == r \o t
             m == Len(r)
             n == Len(t)
             l == Len(q)
  <1>1. PICK d \in Nat :
          /\ q \in Seq(Item) /\ l <= MaxRing /\ l = m + n - d
          /\ (d > 0 => l = MaxRing) /\ d <= m + n
          /\ \A i \in 1..l : i + d \in 1..Len(all) /\ q[i] = all[i + d]
    BY RingedSeq
  <1>2. /\ Len(all) = m + n /\ m \in Nat /\ n \in Nat
        /\ \A i \in 1..m : all[i] = r[i]
        /\ \A i \in 1..n : all[m + i] = t[i]
    BY ConcatSeq
  <1> HIDE DEF q, all, m, n, l
  <1>3. l \in Nat /\ l <= m + n /\ (l = m + n \/ l = MaxRing)
    BY <1>1, <1>2, EventNumbers
  <1>4. ASSUME NEW k \in Nat, k < l
        PROVE  /\ k < n => q[l - k] = t[n - k]
               /\ k >= n => k - n < m /\ q[l - k] = r[m - (k - n)]
    <2>1. l - k \in 1..l /\ (l - k) + d = m + n - k
      BY <1>1, <1>2, <1>3, <1>4
    <2>2. q[l - k] = all[m + n - k] /\ m + n - k \in 1..m + n
      BY <1>1, <1>2, <2>1
    <2>3. ASSUME k < n PROVE q[l - k] = t[n - k]
      <3>1. n - k \in 1..n /\ m + (n - k) = m + n - k
        BY <1>2, <2>3
      <3>2. all[m + (n - k)] = t[n - k]
        BY <1>2, <3>1
      <3> QED
        BY <2>2, <3>1, <3>2
    <2>4. ASSUME k >= n PROVE k - n < m /\ q[l - k] = r[m - (k - n)]
      <3>1. m - (k - n) \in 1..m /\ m - (k - n) = m + n - k /\ k - n < m
        BY <1>2, <2>2, <2>4
      <3>2. all[m - (k - n)] = r[m - (k - n)]
        BY <1>2, <3>1
      <3> QED
        BY <2>2, <3>1, <3>2
    <2> QED
      BY <2>3, <2>4
  <1> QED
    BY <1>1, <1>3, <1>4 DEF q, m, n, l

LEMMA PlacedBroadcast ==
    ASSUME NEW r \in Seq(Item), NEW t \in Seq(Item), Len(r) <= MaxRing, NEW last, NEW n \in Nat,
           NEW D, Placed(r, last, n, D), NEW C, C \subseteq D \cup ItemsOf(t)
    PROVE  Placed(Ringed(r, t), last, n + Len(t), C)
  <1> DEFINE q == Ringed(r, t)
             m == Len(r)
             l == Len(q)
             a == Len(t)
  <1>1. /\ l \in Nat /\ l <= MaxRing /\ (l = m + a \/ l = MaxRing)
        /\ \A k \in Nat : k < l => /\ k < a => q[l - k] = t[a - k]
                                   /\ k >= a => k - a < m /\ q[l - k] = r[m - (k - a)]
    BY RingEnd
  <1>2. m \in Nat /\ a \in Nat
    OBVIOUS
  <1> HIDE DEF q, l
  <1> SUFFICES ASSUME last # NoItem, n + a < MaxRing
               PROVE  /\ n + a < l /\ q[l - (n + a)] = last
                      /\ \A x \in C : \E k \in 0..(n + a) - 1 : q[l - k] = x
    BY DEF Placed, q, l
  <1>3. n < m /\ r[m - n] = last /\ \A x \in D : \E k \in 0..n - 1 : r[m - k] = x
    <2>1. n < MaxRing
      BY <1>2, EventNumbers
    <2> QED
      BY <2>1 DEF Placed
  <1> HIDE DEF m
  <1>4. n + a < l
    BY <1>1, <1>2, <1>3
  <1>5. ASSUME NEW j \in Nat, j <= n PROVE q[l - (j + a)] = r[m - j]
    <2>1. j + a \in Nat /\ j + a < l /\ j + a >= a /\ (j + a) - a = j
      BY <1>1, <1>2, <1>4, <1>5
    <2>2. q[l - (j + a)] = r[m - ((j + a) - a)]
      BY <1>1, <2>1
    <2> QED
      BY <2>1, <2>2
  <1>6. q[l - (n + a)] = last
    BY <1>3, <1>5
  <1>7. ASSUME NEW x \in C PROVE \E k \in 0..(n + a) - 1 : q[l - k] = x
    <2>1. CASE x \in D
      <3>1. PICK j \in 0..n - 1 : r[m - j] = x
        BY <1>3, <2>1
      <3>2. q[l - (j + a)] = x /\ j + a \in 0..(n + a) - 1
        BY <1>2, <1>5, <3>1
      <3> QED
        BY <3>2
    <2>2. CASE x \in ItemsOf(t)
      <3>1. PICK i \in 1..a : t[i] = x
        BY <2>2 DEF ItemsOf
      <3>2. PICK k \in Nat : k = a - i
        BY <1>2, <3>1
      <3>3. k \in 0..(n + a) - 1 /\ k < a /\ k < l /\ a - k = i
        BY <1>1, <1>2, <1>4, <3>2
      <3>4. q[l - k] = t[a - k]
        BY <1>1, <3>3
      <3> QED
        BY <3>1, <3>3, <3>4
    <2> QED
      BY <2>1, <2>2
  <1> QED
    BY <1>4, <1>6, <1>7

LEMMA AlignedBroadcast ==
    ASSUME NEW r \in Seq(Item), NEW t \in Seq(Item), NEW w \in Seq(Item), Len(r) <= MaxRing,
           Len(t) >= 1, NEW D, Aligned(r, w, D), NEW C, C \subseteq D \cup ItemsOf(t)
    PROVE  Aligned(Ringed(r, t), w \o t, C)
  <1> DEFINE q == Ringed(r, t)
             v == w \o t
             m == Len(r)
             l == Len(q)
             a == Len(t)
             b == Len(w)
  <1>1. /\ l \in Nat /\ l <= MaxRing /\ (l = m + a \/ l = MaxRing)
        /\ \A k \in Nat : k < l => /\ k < a => q[l - k] = t[a - k]
                                   /\ k >= a => k - a < m /\ q[l - k] = r[m - (k - a)]
    BY RingEnd
  <1>2. /\ v \in Seq(Item) /\ Len(v) = b + a /\ b \in Nat /\ a \in Nat /\ m \in Nat
        /\ \A i \in 1..b : v[i] = w[i]
        /\ \A i \in 1..a : v[b + i] = t[i]
    BY ConcatSeq
  <1>3. /\ D \subseteq ItemsOf(w) /\ (b <= m \/ m = MaxRing)
        /\ \A k \in Nat : k < b /\ k < m => w[b - k] = r[m - k]
    BY DEF Aligned
  <1>4. C \subseteq ItemsOf(v)
    BY <1>3, ItemsConcat
  <1> HIDE DEF q, v, l, m, b
  <1>5. Len(v) <= l \/ l = MaxRing
    BY <1>1, <1>2, <1>3, EventNumbers
  <1>6. ASSUME NEW k \in Nat, k < b + a, k < l PROVE v[(b + a) - k] = q[l - k]
    <2>1. CASE k < a
      <3>1. a - k \in 1..a /\ b + (a - k) = (b + a) - k
        BY <1>2, <2>1
      <3>2. v[b + (a - k)] = t[a - k]
        BY <1>2, <3>1
      <3>3. q[l - k] = t[a - k]
        BY <1>1, <1>6, <2>1
      <3> QED
        BY <3>1, <3>2, <3>3
    <2>2. CASE k >= a
      <3>0. a \in Nat /\ k \in Nat
        BY <1>2
      <3> HIDE DEF a
      <3>1. PICK j \in Nat : j = k - a
        BY <2>2, <3>0
      <3>2. j < m /\ q[l - k] = r[m - j]
        BY <1>1, <1>6, <2>2, <3>1
      <3>3. j < b /\ b - j \in 1..b /\ b - j = (b + a) - k
        BY <1>2, <1>6, <3>1
      <3>4. w[b - j] = r[m - j] /\ v[b - j] = w[b - j]
        BY <1>2, <1>3, <3>2, <3>3
      <3> QED
        BY <3>2, <3>3, <3>4
    <2> QED
      BY <1>2, <2>1, <2>2
  <1>7. \A k \in Nat : k < Len(v) /\ k < l => v[Len(v) - k] = q[l - k]
    BY <1>2, <1>6
  <1> QED
    BY <1>4, <1>5, <1>7 DEF Aligned, q, v, l

ReachInv ==
    \A g \in Gateways :
        replicas = {g} /\ ~ restarted /\ ~ gapped
        => /\ Placed(ring[g], tab.last, since, due)
           /\ tab.phase = "open" => Aligned(ring[g], tab.wire, due)

LEMMA ReachBroadcast ==
    ASSUME EventsTyped, ConnInv, ReachInv, NEW g \in Gateways, NEW e \in Events, Broadcast(g, e),
           replicas = {g}, ~ restarted, ~ gapped
    PROVE  /\ Placed(ring'[g], tab'.last, since', due')
           /\ tab'.phase = "open" => Aligned(ring'[g], tab'.wire, due')
  <1> DEFINE r == ring[g]
             w == tab.wire
             t == Items(e)
  <1>1. /\ r \in Seq(Item) /\ Len(r) <= MaxRing /\ w \in Seq(Item) /\ since \in Nat
    BY DEF EventsTyped, Tabs
  <1>2. Placed(r, tab.last, since, due) /\ (tab.phase = "open" => Aligned(r, w, due))
    BY DEF ReachInv
  <1>3. t \in Seq(Item) /\ Len(t) >= 1
    <2>1. t \in Seq(Item) /\ Len(t) \in 1..2
      BY ItemsTyped
    <2>2. \A n \in 1..2 : n >= 1
      OBVIOUS
    <2> HIDE DEF t
    <2> QED
      BY <2>1, <2>2
  <1>4. ring'[g] = Ringed(r, t)
    BY DEF Broadcast, EventsTyped
  <1>5. /\ tab'.phase = tab.phase /\ tab'.last = tab.last
        /\ tab'.wire = IF tab.phase = "open" /\ tab.gateway = g THEN w \o t ELSE w
        /\ tab.last # NoItem => due' \subseteq due \cup ItemsOf(t) /\ since' = since + Len(t)
        /\ tab.last = NoItem => due' = due /\ since' = 0
    BY BroadcastWritten
  <1>6. tab.phase = "open" => tab.gateway = g
    BY DEF ConnInv, EventsTyped
  <1>7. PICK C : C = due' /\ C \subseteq due \cup ItemsOf(t)
    BY <1>5
  <1> HIDE DEF r, w, t
  <1>8. Placed(Ringed(r, t), tab'.last, since', C)
    <2>1. CASE tab.last = NoItem
      BY <1>5, <2>1 DEF Placed
    <2>2. CASE tab.last # NoItem
      <3>1. Placed(Ringed(r, t), tab.last, since + Len(t), C)
        BY <1>1, <1>2, <1>3, <1>7, PlacedBroadcast
      <3> QED
        BY <1>5, <2>2, <3>1
    <2> QED
      BY <2>1, <2>2
  <1>9. ASSUME tab'.phase = "open" PROVE Aligned(Ringed(r, t), tab'.wire, C)
    <2>1. tab.phase = "open" /\ tab'.wire = w \o t
      BY <1>5, <1>6, <1>9
    <2>2. Aligned(Ringed(r, t), w \o t, C)
      BY <1>1, <1>2, <1>3, <1>7, <2>1, AlignedBroadcast
    <2> QED
      BY <2>1, <2>2
  <1> QED
    BY <1>4, <1>7, <1>8, <1>9

LEMMA ReachStep ==
    ASSUME EventsTyped, ConnInv, ReachInv, Moves
    PROVE  ReachInv'
  <1> SUFFICES ASSUME NEW g \in Gateways, replicas' = {g}, ~ restarted', ~ gapped'
               PROVE  /\ Placed(ring'[g], tab'.last, since', due')
                      /\ tab'.phase = "open" => Aligned(ring'[g], tab'.wire, due')
    BY DEF ReachInv
  <1>1. CASE Still
    BY <1>1 DEF Still, ReachInv
  <1>2. CASE CutHere
    BY <1>2 DEF CutHere, ReachInv
  <1>3. CASE CutLoose
    BY <1>3 DEF CutLoose, Placed
  <1>4. ASSUME NEW h \in Gateways, NEW e \in Events, Broadcast(h, e)
        PROVE  /\ Placed(ring'[g], tab'.last, since', due')
               /\ tab'.phase = "open" => Aligned(ring'[g], tab'.wire, due')
    <2>1. UNCHANGED <<replicas, up, restarted>> /\ h \in up
      BY <1>4 DEF Broadcast
    <2>2. h = g
      BY <2>1 DEF EventsTyped
    <2>3. gapped' = gapped
      BY <1>4, BroadcastWritten
    <2> QED
      BY <1>4, <2>1, <2>2, <2>3, ReachBroadcast
  <1>5. ASSUME NEW h \in Gateways, Accept(h)
        PROVE  /\ Placed(ring'[g], tab'.last, since', due')
               /\ tab'.phase = "open" => Aligned(ring'[g], tab'.wire, due')
    <2>1. /\ h \in up /\ tab'.wire = Replay(h, tab.last) /\ tab'.last = tab.last
          /\ UNCHANGED <<replicas, ring, due, since, restarted>>
          /\ gapped' = (gapped \/ since >= MaxRing)
      BY <1>5, AcceptMoves
    <2>2. h = g
      BY <2>1 DEF EventsTyped
    <2>3. ~ gapped /\ since \in Nat /\ since < MaxRing
      <3>1. ~ gapped /\ ~ (since >= MaxRing)
        BY <2>1, Zenon
      <3> QED
        BY <3>1, EventNumbers DEF EventsTyped
    <2>4. ring[g] \in Seq(Item) /\ Placed(ring[g], tab.last, since, due)
      BY <2>1, <2>3 DEF ReachInv, EventsTyped
    <2>5. tab.last = NoItem => due = {}
      BY DEF ConnInv
    <2>6. Aligned(ring[g], Replay(g, tab.last), due)
      BY <2>3, <2>4, <2>5, AlignedAccept
    <2> QED
      BY <2>1, <2>2, <2>4, <2>6
  <1>6. CASE Receive
    <2> DEFINE w == tab.wire
    <2>1. /\ w \in Seq(Item) /\ w # <<>> /\ tab.phase = "open"
          /\ tab'.wire = Tail(w) /\ tab'.last = Head(w) /\ since' = Len(w) - 1
          /\ due' = (due \cup {w[i] : i \in 2..Len(w)}) \ done'
          /\ done' = done \cup {Head(w)}
          /\ UNCHANGED <<replicas, ring, gapped, restarted>>
      BY <1>6, ReceiveMoves
    <2>2. ring[g] \in Seq(Item) /\ Aligned(ring[g], w, due)
      BY <2>1 DEF ReachInv, EventsTyped
    <2> HIDE DEF w
    <2>3. PICK C : C = due' /\ C \subseteq (due \cup {w[i] : i \in 2..Len(w)}) \ {Head(w)}
      BY <2>1
    <2>4. Placed(ring[g], Head(w), Len(w) - 1, C) /\ Aligned(ring[g], Tail(w), C)
      BY <2>1, <2>2, <2>3, PlacedReceive
    <2> QED
      BY <2>1, <2>3, <2>4
  <1> QED
    BY <1>1, <1>2, <1>3, <1>4, <1>5, <1>6 DEF Moves

LEMMA ReachStart == ASSUME EventsInit PROVE ReachInv
  <1>1. tab.last = NoItem /\ tab.phase = "none"
    BY DEF EventsInit, NewClient
  <1> QED
    BY <1>1 DEF ReachInv, Placed

(* What a tab in its place can be sent, it will be sent.                   *)
LEMMA PlacedIsReplayable ==
    ASSUME NEW g, ring[g] \in Seq(Item), NEW last, NEW n \in Nat, n < MaxRing, NEW D,
           Placed(ring[g], last, n, D), last = NoItem => D = {}
    PROVE  D \subseteq ItemsOf(Replay(g, last))
  BY AlignedAccept DEF Aligned

LEMMA ReachShows ==
    ASSUME EventsTyped, ConnInv, ReachInv PROVE NothingOutOfReach
  <1>1. EventsTypeOK
    <2>1. \A g \in Gateways :
             /\ channel[g] \in Seq(Events)
             /\ processed[g] \in Seq(Events) /\ Len(processed[g]) <= MaxProcessed
             /\ ring[g] \in Seq(Item) /\ Len(ring[g]) <= MaxRing
      BY DEF EventsTyped
    <2> QED
      BY <2>1 DEF EventsTyped, EventsTypeOK, Tabs
  <1>2. ASSUME Smooth, NEW x \in due
        PROVE  OnWire(x) \/ (tab.phase # "open" /\ Replayable(x))
    <2>1. PICK g \in Gateways : replicas = {g}
      <3>1. IsFiniteSet(replicas)
        BY LiveEventsAssumption, FS_Subset DEF EventsTyped
      <3>2. \E g : replicas = {g}
        BY <1>2, <3>1, FS_Singleton DEF Smooth
      <3> QED
        BY <3>2 DEF EventsTyped
    <2>2. /\ Placed(ring[g], tab.last, since, due)
          /\ tab.phase = "open" => Aligned(ring[g], tab.wire, due)
      BY <1>2, <2>1 DEF ReachInv, Smooth
    <2>3. CASE tab.phase = "open"
      BY <2>2, <2>3 DEF Aligned, ItemsOf, OnWire, Holds
    <2>4. CASE tab.phase # "open"
      <3>1. since < MaxRing /\ since \in Nat /\ ring[g] \in Seq(Item)
        BY <1>2, <2>4 DEF Smooth, EventsTyped
      <3>2. tab.last = NoItem => due = {}
        BY DEF ConnInv
      <3>3. x \in ItemsOf(Replay(g, tab.last))
        BY <2>2, <3>1, <3>2, PlacedIsReplayable
      <3>4. Holds(Replay(g, tab.last), x)
        BY <3>3 DEF ItemsOf, Holds
      <3>5. g \in replicas
        BY <2>1
      <3> QED
        BY <2>4, <3>4, <3>5 DEF Replayable
    <2> QED
      BY <2>3, <2>4
  <1> QED
    BY <1>1, <1>2 DEF NothingOutOfReach

(* Once a tab has received an event, no order of broadcasts, lost          *)
(* connections, timeouts and replays takes a later one out of its reach, as *)
(* long as the one replica keeps its memory and fewer than a ring's worth  *)
(* are missed: app.js 154-243, eventsApi.js 80-143.                        *)
THEOREM EventsStayInReach == EventsSpec => []NothingOutOfReach
  <1> DEFINE Inv == EventsTyped /\ ConnInv /\ ReachInv
  <1>1. EventsInit => Inv
    BY EventsStart, ReachStart
  <1>2. Inv /\ [EventsNext]_eventsVars => Inv'
    BY EventsStep, ReachStep
  <1>3. Inv => NothingOutOfReach
    BY ReachShows
  <1> QED
    BY <1>1, <1>2, <1>3, PTL DEF EventsSpec
=============================================================================
