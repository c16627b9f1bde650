--------------------------- MODULE GcsProxyProofs ---------------------------
(***************************************************************************)
(* Proofs about GcsProxy, for any times and any number of requests: while  *)
(* the process listens, the token outlives the time that a renewal may     *)
(* still take (TokenInv).                                                  *)
(***************************************************************************)
EXTENDS GcsProxy, TLAPS

TokenInv ==
    /\ server = "starting" => refresh # "off" /\ late = 0 /\ token = 0
    /\ server = "up" =>
        /\ timer = Off <=> refresh # "off"
        /\ timer \in Nat \ {0} => token = timer + Threshold
        /\ Due => token + late > Lag
        /\ refresh = "token" => token <= Threshold
    /\ server = "starting" => \A r \in Request : pc[r] = "idle"
    /\ \A r \in Request : pc[r] = "forwarded" => bearer[r] # 0

ProxyInv == TypeOK /\ TokenInv

LEMMA ProxyInvInit ==
    ASSUME ProxyAssumption, Init
    PROVE  ProxyInv
BY DEF ProxyAssumption, Init, ProxyInv, TypeOK, TokenInv, Due, Time

(* What the end of a refresh leaves, with a new token or the old one.      *)
LEMMA RefreshedInv ==
    ASSUME ProxyAssumption, ProxyInv, UNCHANGED <<pc, bearer>>,
           NEW left \in 0..Life, left > Lag, Refreshed(left)
    PROVE  ProxyInv'
<1>1. NextCheck(left) \in 0..Life /\ NextCheck(left) # Off
    BY DEF ProxyAssumption, NextCheck
<1>2. NextCheck(left) # 0 => left = NextCheck(left) + Threshold
    BY DEF ProxyAssumption, NextCheck
<1>3. TypeOK'
    BY <1>1 DEF ProxyInv, TypeOK, Time, Refreshed, ProxyAssumption
<1>4. TokenInv'
    BY <1>1, <1>2 DEF ProxyInv, TypeOK, TokenInv, Refreshed, Due, ProxyAssumption
<1>5. QED
    BY <1>3, <1>4 DEF ProxyInv

(* With the process everything ends but what was already sent.             *)
LEMMA DownInv ==
    ASSUME ProxyInv, Down
    PROVE  ProxyInv'
BY DEF ProxyInv, TypeOK, TokenInv, Down, clock

LEMMA ProxyInvStep ==
    ASSUME ProxyAssumption, ProxyInv, [Next]_vars
    PROVE  ProxyInv'
<1> USE DEF ProxyInv, Time
<1>1. CASE TimerFires
    <2>1. TypeOK'
        BY <1>1 DEF TimerFires, TypeOK
    <2>2. token + late > Lag
        <3>1. CASE timer = 0
            BY <1>1, <3>1 DEF TimerFires, TokenInv, Due
        <3>2. CASE timer \in Nat \ {0}
            BY <1>1, <3>2 DEF TimerFires, TokenInv, TypeOK, ProxyAssumption
        <3>3. QED
            BY <1>1, <3>1, <3>2 DEF TimerFires, TypeOK
    <2>3. TokenInv'
        BY <1>1, <2>2 DEF TimerFires, TokenInv, TypeOK, Due, ProxyAssumption
    <2>4. QED
        BY <2>1, <2>3
<1>2. CASE ClientIsThere
    <2>1. CASE token > Threshold /\ Refreshed(token)
        <3>1. token \in 0..Life /\ token > Lag
            BY <2>1 DEF TypeOK, ProxyAssumption
        <3>2. QED
            BY <1>2, <2>1, <3>1, RefreshedInv DEF ClientIsThere
    <2>2. CASE token <= Threshold /\ refresh' = "token" /\ UNCHANGED <<server, clock>>
        BY <1>2, <2>2 DEF ClientIsThere, clock, TypeOK, TokenInv, Due, ProxyAssumption
    <2>3. QED
        BY <1>2, <2>1, <2>2 DEF ClientIsThere
<1>3. CASE TokenIsThere
    <2>1. PICK left \in MinLife..Life : Refreshed(left)
        BY <1>3 DEF TokenIsThere
    <2>2. left \in 0..Life /\ left > Lag
        BY <2>1 DEF ProxyAssumption
    <2>3. QED
        BY <1>3, <2>1, <2>2, RefreshedInv DEF TokenIsThere
<1>4. CASE RefreshFails
    BY <1>4, DownInv DEF RefreshFails
<1>5. CASE Tick
    <2>1. CASE Due
        <3>1. late < Lag /\ token + late > Lag /\ token \in 0..Life
            BY <1>5, <2>1 DEF Tick, TokenInv, TypeOK
        <3>2. token # 0 /\ token' = token - 1 /\ late' = late + 1
            BY <1>5, <2>1, <3>1 DEF Tick, TypeOK, ProxyAssumption
        <3>3. timer' = timer
            BY <1>5, <2>1 DEF Tick, TokenInv, Due
        <3>4. TypeOK'
            BY <1>5, <3>1, <3>2, <3>3 DEF Tick, TypeOK, ProxyAssumption
        <3>5. TokenInv'
            BY <1>5, <2>1, <3>1, <3>2, <3>3 DEF Tick, TokenInv, TypeOK, Due, ProxyAssumption
        <3>6. QED
            BY <3>4, <3>5
    <2>2. CASE ~Due
        <3>1. timer \in Nat \ {0} /\ refresh = "off" /\ token = timer + Threshold
            BY <1>5, <2>2 DEF Tick, TokenInv, TypeOK, Due
        <3>2. timer' = timer - 1 /\ token' = token - 1 /\ late' = 0
            BY <1>5, <2>2, <3>1 DEF Tick, ProxyAssumption
        <3>3. TypeOK'
            BY <1>5, <3>1, <3>2 DEF Tick, TypeOK, ProxyAssumption
        <3>4. token' = timer' + Threshold /\ token' > Lag /\ timer' \in Nat
            BY <3>1, <3>2 DEF ProxyAssumption, TypeOK
        <3>5. TokenInv'
            BY <1>5, <3>1, <3>2, <3>4 DEF Tick, TokenInv, TypeOK, Due, ProxyAssumption
        <3>6. QED
            BY <3>3, <3>5
    <2>3. QED
        BY <2>1, <2>2
<1>6. ASSUME NEW r \in Request, handleProxyReq(r) PROVE ProxyInv'
    <2>1. token # 0
        BY <1>6 DEF handleProxyReq, TokenInv, TypeOK, Due, ProxyAssumption
    <2>2. TypeOK'
        BY <1>6 DEF handleProxyReq, clock, TypeOK
    <2>3. TokenInv'
        BY <1>6, <2>1 DEF handleProxyReq, clock, TypeOK, TokenInv, Due
    <2>4. QED
        BY <2>2, <2>3
<1>7. ASSUME NEW r \in Request, UpstreamAnswers(r) PROVE ProxyInv'
    BY <1>7 DEF UpstreamAnswers, clock, TypeOK, TokenInv, Due
<1>8. ASSUME NEW r \in Request, handleProxyError(r) PROVE ProxyInv'
    <2>1. CASE pc[r] = "denied" /\ Down
        BY <2>1, DownInv
    <2>2. CASE pc' = [pc EXCEPT ![r] = "answered"] /\ UNCHANGED <<server, clock, refresh, bearer>>
        BY <1>8, <2>2 DEF handleProxyError, clock, TypeOK, TokenInv, Due
    <2>3. QED
        BY <1>8, <2>1, <2>2 DEF handleProxyError
<1>9. ASSUME NEW r \in Request, Again(r) PROVE ProxyInv'
    BY <1>9 DEF Again, clock, TypeOK, TokenInv, Due
<1>10. CASE UNCHANGED vars
    BY <1>10 DEF vars, clock, TypeOK, TokenInv, Due
<1>11. QED
    BY <1>1, <1>2, <1>3, <1>4, <1>5, <1>6, <1>7, <1>8, <1>9, <1>10 DEF Next, Refresh

LEMMA ProxyInvariant == Spec => []ProxyInv
<1>1. Init => ProxyInv
    BY ProxyInvInit, ProxyAssumption
<1>2. ProxyInv /\ [Next]_vars => ProxyInv'
    BY ProxyInvStep, ProxyAssumption
<1>3. QED
    BY <1>1, <1>2, PTL DEF Spec

(* The state of the proxy is what it is meant to be.                       *)
THEOREM ProxyTypeCorrect == Spec => []TypeOK
<1>1. ProxyInv => TypeOK
    BY DEF ProxyInv
<1>2. QED
    BY <1>1, ProxyInvariant, PTL

(* No request is forwarded with an expired token, for any lives of tokens, *)
(* threshold and lag, if renewals are no later than the threshold allows.  *)
THEOREM TokensAreValid == Spec => []NoExpiredToken
<1>1. ProxyInv => NoExpiredToken
    BY DEF ProxyInv, TokenInv, NoExpiredToken
<1>2. QED
    BY <1>1, ProxyInvariant, PTL
=============================================================================
