------------------------------ MODULE GcsProxy ------------------------------
(***************************************************************************)
(* The reverse proxy between freshclam and the bucket of the mirror.  It   *)
(* keeps an access token in a variable, because its handlers cannot wait   *)
(* for one, and renews it from a timer.                                    *)
(*                                                                         *)
(* Time passes in ticks.  The token and the timer are the times that they  *)
(* have left: the expiry date of the client's credentials is that of the   *)
(* token.  The handlers of requests run beside the two awaits of a refresh.*)
(***************************************************************************)
EXTENDS Naturals

CONSTANTS Request,   \* requests of freshclam, each made again and again
          Life,      \* the longest life of a new token
          MinLife,   \* the shortest
          Threshold, \* TOKEN_REFRESH_THRESHOLD_MILLIS
          Lag,       \* how late a refresh may come to its end
          Early,     \* how early a timer may fire by the clock
          Off,       \* there is no timer
          Failing    \* TRUE: the token service may fail

ASSUME ProxyAssumption ==
    /\ Life \in Nat /\ MinLife \in 1..Life
    /\ Threshold \in Nat /\ Lag \in Nat /\ Early \in Nat
    /\ Lag < Threshold /\ Lag < MinLife
    /\ Off \notin Nat
    /\ Failing \in BOOLEAN

VARIABLES server,  \* of the process: whether it listens, or is no more
          token,   \* the time that accessToken has left, 0 for none
          timer,   \* the time until accessTokenRefreshTimeout
          refresh, \* what accessTokenRefresh waits for
          late,    \* how long a refresh has been due
          pc,      \* where each request is
          bearer   \* the time its token had left when it was forwarded

clock == <<token, timer, late>>
vars == <<server, clock, refresh, pc, bearer>>

Time == (0..Life) \cup {Off}

TypeOK ==
    /\ server \in {"starting", "up", "down"}
    /\ token \in 0..Life
    /\ timer \in Time
    /\ refresh \in {"off", "client", "token"}
    /\ late \in 0..Lag
    /\ pc \in [Request -> {"idle", "forwarded", "denied", "answered", "broken"}]
    /\ bearer \in [Request -> Time]

(* run() awaits the first refresh before it listens.                       *)
Init ==
    /\ server = "starting"
    /\ token = 0 /\ timer = Off /\ late = 0
    /\ refresh = "client"
    /\ pc = [r \in Request |-> "idle"]
    /\ bearer = [r \in Request |-> Off]
-----------------------------------------------------------------------------

NextCheck(left) == IF left > Threshold THEN left - Threshold ELSE 0

(* The timer is set again at the end of a refresh, as long as the token has*)
(* left.  The first refresh is awaited by run(), which then listens.       *)
Refreshed(left) ==
    /\ token' = left
    /\ timer' = NextCheck(left)
    /\ refresh' = "off" /\ late' = 0
    /\ server' = "up"

\* Mutant: an exception is caught, and the timer is not set again.
DownRefresh == refresh' = "off" /\ UNCHANGED <<server, clock, pc, bearer>>

(* An exception that nobody catches ends the process, and what is forwarded*)
(* with it: from run() by process.exit, from the timer as an unhandled     *)
(* rejection.                                                              *)
Down ==
    /\ server' = "down"
    /\ pc' = [r \in Request |-> IF pc[r] \in {"forwarded", "denied"} THEN "broken" ELSE pc[r]]
    /\ UNCHANGED <<clock, refresh, bearer>>

RefreshFails ==
    /\ server # "down" /\ Failing /\ refresh # "off"
    /\ Down

TimerFires ==
    /\ server = "up" /\ refresh = "off"
    /\ timer # Off /\ timer <= Early
    /\ timer' = Off
    /\ refresh' = "client"
    /\ UNCHANGED <<server, token, late, pc, bearer>>

\* Mutant: the timer is set only where the token is renewed.
ClientForgets ==
    /\ server # "down" /\ refresh = "client"
    /\ refresh' = IF token > Threshold THEN "off" ELSE "token"
    /\ UNCHANGED <<server, clock, pc, bearer>>

(* getClient: a timer that fired too early is set for the rest.            *)
ClientIsThere ==
    /\ server # "down" /\ refresh = "client"
    /\ \/ token > Threshold /\ Refreshed(token)
       \/ /\ token <= Threshold
          /\ refresh' = "token" /\ UNCHANGED <<server, clock>>
    /\ UNCHANGED <<pc, bearer>>

(* getAccessToken                                                          *)
TokenIsThere ==
    /\ server # "down" /\ refresh = "token"
    /\ \E left \in MinLife..Life : Refreshed(left)
    /\ UNCHANGED <<pc, bearer>>

-----------------------------------------------------------------------------

(* handleProxyReq: a request for the mirror is forwarded with the token; to*)
(* any other 403 is written, and it is forwarded nevertheless, without one.*)
handleProxyReq(r) ==
    /\ server = "up" /\ pc[r] = "idle"
    /\ \/ /\ pc' = [pc EXCEPT ![r] = "forwarded"]
          /\ bearer' = [bearer EXCEPT ![r] = token]
       \/ /\ pc' = [pc EXCEPT ![r] = "denied"]
          /\ UNCHANGED bearer
    /\ UNCHANGED <<server, clock, refresh>>

UpstreamAnswers(r) ==
    /\ server = "up"
    /\ pc[r] \in {"forwarded", "denied"}
    /\ pc' = [pc EXCEPT ![r] = "answered"]
    /\ UNCHANGED <<server, clock, refresh, bearer>>

(* An error of the connection to storage is answered with 500; there are no*)
(* headers to be written where 403 was: an exception in a listener.        *)
handleProxyError(r) ==
    /\ server = "up"
    /\ \/ /\ pc[r] = "forwarded"
          /\ pc' = [pc EXCEPT ![r] = "answered"]
          /\ UNCHANGED <<server, clock, refresh, bearer>>
       \/ pc[r] = "denied" /\ Down

(* freshclam has its answer, and asks again.                               *)
Again(r) ==
    /\ server = "up" /\ pc[r] = "answered"
    /\ pc' = [pc EXCEPT ![r] = "idle"]
    /\ bearer' = [bearer EXCEPT ![r] = Off]
    /\ UNCHANGED <<server, clock, refresh>>

-----------------------------------------------------------------------------

Due == refresh # "off" \/ timer = 0

(* Time passes: a refresh that is due ends within Lag.                     *)
Tick ==
    /\ server = "up"
    /\ Due => late < Lag
    /\ token' = IF token = 0 THEN 0 ELSE token - 1
    /\ timer' = IF timer \in {0, Off} THEN timer ELSE timer - 1
    /\ late' = IF Due THEN late + 1 ELSE 0
    /\ UNCHANGED <<server, refresh, pc, bearer>>

Refresh == TimerFires \/ ClientIsThere \/ TokenIsThere

Next ==
    \/ Refresh \/ RefreshFails \/ Tick
    \/ \E r \in Request :
        \/ handleProxyReq(r) \/ UpstreamAnswers(r) \/ handleProxyError(r)
        \/ Again(r)

Spec == Init /\ [][Next]_vars

(* Refreshes go on, and time passes.                                       *)
FairSpec == Spec /\ WF_vars(Refresh) /\ WF_vars(Tick)
-----------------------------------------------------------------------------

(* No request reaches storage with an expired token, whenever it comes:    *)
(* while the token is being renewed, too, and after renewals that failed.  *)
NoExpiredToken == \A r \in Request : pc[r] = "forwarded" => bearer[r] # 0

(* As long as the process lives its token is always renewed again, also    *)
(* when timers fire too early by the clock.                                *)
TokenIsRenewed ==
    server = "up" /\ token <= Threshold ~> token > Threshold \/ server = "down"

(* The comment at accessToken (28) says it "will be refreshed shortly      *)
(* before it expires".  One renewal that fails is the last: the process is *)
(* gone, and nothing starts it again.                                      *)
RefreshedBeforeItExpires ==
    server = "up" /\ token <= Threshold ~> token > Threshold

(* The comment at handleProxyError (62): "Handle any internal proxy errors *)
(* by returning a 500".  With a token service that works, no request would *)
(* then be left without an answer.  The code does not keep this: the error *)
(* of a request that was denied ends the process, and with it those of     *)
(* other requests that storage has not answered yet.                       *)
ErrorsAreAnswered == ~Failing => \A r \in Request : pc[r] # "broken"
=============================================================================
