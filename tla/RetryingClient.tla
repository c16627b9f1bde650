--------------------------- MODULE RetryingClient ---------------------------
(***************************************************************************)
(* BaseHttpClient.SendRequestAsync with the retry policy that              *)
(* AddApiServiceClients puts below it: two nested loops around one call of *)
(* the organisations API.  The inner loop (Polly) sends the message again  *)
(* after a transient answer or a broken connection; the outer one sends a  *)
(* clone of it after anything else that is not a success.                  *)
(*                                                                         *)
(* The clone of a message with a body cannot be sent: its content is a     *)
(* stream over a MemoryStream that CloneHttpRequestMessage disposes when it*)
(* returns, so that writing the body throws before the message is out.     *)
(***************************************************************************)
EXTENDS Integers

CONSTANTS Client,        \* one element per call of SendRequestAsync
          WithBody,      \* the clients whose message has a body (POST)
          MaxAttempts,   \* HttpClientMaximumRequestAttempts
          MaxRetries     \* retries of the policy

Status == {"200", "400", "404", "500"}
Transient == {"404", "500"}

ASSUME ClientAssumption ==
    /\ WithBody \subseteq Client
    /\ MaxAttempts \in Nat \ {0}
    /\ MaxRetries \in Nat

VARIABLES phase,     \* where SendRequestAsync is
          attempt,   \* currentHttpClientRequestAttempt
          retry,     \* retries the policy has made in this attempt
          sends,     \* messages that went out
          told       \* what the caller gets: ok, refused (an exception with
                     \* the status of the answer) or unreachable (one without)

clientVars == <<phase, attempt, retry, sends, told>>

ClientTypeOK ==
    /\ phase \in [Client -> {"idle", "send", "waiting", "backoff", "delay", "done"}]
    /\ attempt \in [Client -> 0..MaxAttempts]
    /\ retry \in [Client -> 0..MaxRetries]
    /\ sends \in [Client -> Nat]
    /\ told \in [Client -> {"nothing", "ok", "refused", "unreachable"}]

ClientInit ==
    /\ phase = [k \in Client |-> "idle"]
    /\ attempt = [k \in Client |-> 0]
    /\ retry = [k \in Client |-> 0]
    /\ sends = [k \in Client |-> 0]
    /\ told = [k \in Client |-> "nothing"]

-----------------------------------------------------------------------------

Enter(k, p) == phase' = [phase EXCEPT ![k] = p]

Conclude(k, outcome) ==
    /\ Enter(k, "done")
    /\ told' = [told EXCEPT ![k] = outcome]

Submit(k) ==
    /\ phase[k] = "idle"
    /\ Enter(k, "send")
    /\ attempt' = [attempt EXCEPT ![k] = 1]
    /\ UNCHANGED <<retry, sends, told>>

IsClone(k) == attempt[k] > 1
Sendable(k) == ~(k \in WithBody /\ IsClone(k))

Send(k) ==
    /\ phase[k] = "send"
    /\ Sendable(k)
    /\ Enter(k, "waiting")
    /\ sends' = [sends EXCEPT ![k] = @ + 1]
    /\ UNCHANGED <<attempt, retry, told>>

(* HttpClient throws.  The policy retries an HttpRequestException; the     *)
(* catch block of the loop always delays, after the last attempt too.      *)
Catch(k) == Enter(k, "delay") /\ UNCHANGED told

SendThrows(k) ==
    /\ \/ retry[k] < MaxRetries /\ Enter(k, "backoff") /\ UNCHANGED told
       \/ retry[k] = MaxRetries /\ Catch(k)
    /\ UNCHANGED <<attempt, retry, sends>>

BodyIsGone(k) ==
    /\ phase[k] = "send"
    /\ ~Sendable(k)
    /\ SendThrows(k)

LoseConnection(k) == phase[k] = "waiting" /\ SendThrows(k)

(* The timeout of HttpClient spans the retries of the policy, which does   *)
(* not handle it.                                                          *)
TimeOut(k) ==
    /\ phase[k] \in {"waiting", "backoff"}
    /\ Catch(k)
    /\ UNCHANGED <<attempt, retry, sends>>

(* Any answer that is not a success is retried, whether or not it can      *)
(* change; the last one is turned into an exception by HandleFailedResponse.*)
NotSuccessful(k) ==
    \/ attempt[k] < MaxAttempts /\ Enter(k, "delay") /\ UNCHANGED told
    \/ attempt[k] = MaxAttempts /\ Conclude(k, "refused")

\* Mutant: called with allowNotOk.
ReceiveAllowNotOk(k, s) ==
    /\ phase[k] = "waiting"
    /\ \/ ~(s \in Transient /\ retry[k] < MaxRetries) /\ Conclude(k, "ok")
       \/ s \in Transient /\ retry[k] < MaxRetries /\ Enter(k, "backoff") /\ UNCHANGED told
    /\ UNCHANGED <<attempt, retry, sends>>

Receive(k, s) ==
    /\ phase[k] = "waiting"
    /\ \/ s = "200" /\ Conclude(k, "ok")
       \/ /\ s \in Transient /\ retry[k] < MaxRetries
          /\ Enter(k, "backoff")
          /\ UNCHANGED told
       \/ /\ s # "200" /\ ~(s \in Transient /\ retry[k] < MaxRetries)
          /\ NotSuccessful(k)
    /\ UNCHANGED <<attempt, retry, sends>>

EndBackoff(k) ==
    /\ phase[k] = "backoff"
    /\ Enter(k, "send")
    /\ retry' = [retry EXCEPT ![k] = @ + 1]
    /\ UNCHANGED <<attempt, sends, told>>

(* The next attempt, with a policy that starts afresh, or the exception    *)
(* behind the loop.                                                        *)
\* Mutant: off by one.
OneAttemptLess(k) == attempt[k] < MaxAttempts - 1

AttemptsLeft(k) == attempt[k] < MaxAttempts

(* Mutant: nothing behind the loop.                                        *)
NoWayOut(k) ==
    /\ phase[k] = "delay"
    /\ AttemptsLeft(k)
    /\ Enter(k, "send")
    /\ attempt' = [attempt EXCEPT ![k] = @ + 1]
    /\ retry' = [retry EXCEPT ![k] = 0]
    /\ UNCHANGED <<sends, told>>

EndDelay(k) ==
    /\ phase[k] = "delay"
    /\ \/ /\ AttemptsLeft(k)
          /\ Enter(k, "send")
          /\ attempt' = [attempt EXCEPT ![k] = @ + 1]
          /\ retry' = [retry EXCEPT ![k] = 0]
          /\ UNCHANGED told
       \/ /\ ~AttemptsLeft(k)
          /\ Conclude(k, "unreachable")
          /\ UNCHANGED <<attempt, retry>>
    /\ UNCHANGED sends

-----------------------------------------------------------------------------
(* The client alone, with a service that may answer anything.              *)

ClientStep(k) ==
    \/ Send(k) \/ BodyIsGone(k) \/ LoseConnection(k) \/ TimeOut(k)
    \/ (\E s \in Status : Receive(k, s))
    \/ EndBackoff(k) \/ EndDelay(k)

ClientNext == \E k \in Client : Submit(k) \/ ClientStep(k)
ClientSpec == ClientInit /\ [][ClientNext]_clientVars
-----------------------------------------------------------------------------

(* Two nested loops neither run away nor stop early: the client gives up in*)
(* its last attempt only, and each attempt that can send does, at most     *)
(* MaxRetries + 1 times.  With a body only the first one can.              *)
Least(k) == IF k \in WithBody THEN 1 ELSE MaxAttempts
Most(k) == IF k \in WithBody THEN MaxRetries + 1 ELSE MaxAttempts * (MaxRetries + 1)

BoundedEffort ==
    \A k \in Client :
        /\ sends[k] <= Most(k)
        /\ told[k] \in {"refused", "unreachable"} =>
              attempt[k] = MaxAttempts /\ sends[k] >= Least(k)

(* The comment on CloneHttpRequestMessage (HttpRequestMessageHelper 9): a  *)
(* clone can be sent again in the loop.  The code does not keep this for a *)
(* message with a body, whose caller never learns the status that refused  *)
(* it: the exception comes from a clone that was not sent.                 *)
CloneCanBeSent ==
    [][\A k \in Client :
          phase[k] = "send" /\ IsClone(k) /\ phase'[k] # "send"
              => sends'[k] = sends[k] + 1]_clientVars

(* The catch block logs "Requesting a retry" (BaseHttpClient 21) and waits *)
(* for it.  The code does not keep this after the last attempt, where its  *)
(* test (<=, where the other path has <) lets the exception pass for one   *)
(* that can be retried.                                                    *)
AnnouncedRetryIsMade ==
    [][\A k \in Client :
          phase[k] = "delay" /\ phase'[k] # "delay" => phase'[k] = "send"]_clientVars
=============================================================================
