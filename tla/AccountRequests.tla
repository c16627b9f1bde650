--------------------------- MODULE AccountRequests ---------------------------
(***************************************************************************)
(* The administration portal creates a manufacturer user: the retrying     *)
(* client of the portal and the handler of the organisations API, with the *)
(* network between them.  The n-th message of client k starts call <<k, n>>*)
(* of the handler; the handler goes on when the client no longer waits.    *)
(***************************************************************************)
EXTENDS RetryingClient, UserCreation

CONSTANT Unreliable   \* TRUE: messages are lost, connections break, clients
                      \* time out

ASSUME RequestAssumption ==
    /\ Unreliable \in BOOLEAN
    /\ WithBody = Client
    /\ Call = Client \X (1..(MaxRetries + 1))
    /\ \A k \in Client, n \in 1..(MaxRetries + 1) : EmailOf[<<k, n>>] = EmailOf[<<k, 1>>]

vars == <<clientVars, creationVars>>

TypeOK == ClientTypeOK /\ CreationTypeOK

Init == ClientInit /\ CreationInit

Current(k) == <<k, sends[k]>>

SubmitForm(k) == Submit(k) /\ UNCHANGED creationVars

SendRequest(k) ==
    /\ Send(k)
    /\ \/ Arrive(<<k, sends[k] + 1>>)
       \/ Unreliable /\ UNCHANGED creationVars

ReceiveAnswer(k) ==
    /\ phase[k] = "waiting"
    /\ \E s \in Status : answer[Current(k)] = s /\ Receive(k, s)
    /\ UNCHANGED creationVars

BreakConnection(k) ==
    /\ LoseConnection(k)
    /\ Unreliable \/ step[Current(k)] = "crashed"
    /\ UNCHANGED creationVars

StopWaiting(k) ==
    /\ Unreliable
    /\ TimeOut(k)
    /\ UNCHANGED creationVars

RetryLocally(k) ==
    /\ BodyIsGone(k) \/ EndBackoff(k) \/ EndDelay(k)
    /\ UNCHANGED creationVars

ClientMoves(k) ==
    \/ SendRequest(k) \/ ReceiveAnswer(k) \/ BreakConnection(k)
    \/ StopWaiting(k) \/ RetryLocally(k)

Serve(c) == Handle(c) /\ UNCHANGED clientVars

Disturb ==
    /\ \/ \E c \in Call : CallFails(c) \/ Crash(c)
       \/ \E m \in Maker : DeleteManufacturer(m)
    /\ UNCHANGED clientVars

Next ==
    \/ \E k \in Client : SubmitForm(k) \/ ClientMoves(k)
    \/ \E c \in Call : Serve(c)
    \/ Disturb

Spec == Init /\ [][Next]_vars

(* The client goes on when it can, and a call that runs goes on to its next*)
(* service.  Nothing is assumed of faults, crashes and deletions.          *)
FairSpec ==
    /\ Spec
    /\ \A k \in Client : WF_vars(ClientMoves(k))
    /\ \A c \in Call : WF_vars(Serve(c))
-----------------------------------------------------------------------------

(* When connections hold and instances live, a message is sent again only  *)
(* if the call before it wrote nothing: the answers the policy takes for   *)
(* transient, 404 and 500, come from before the first write.               *)
RetryFindsNothing ==
    ~Unreliable /\ ~Crashes =>
        \A k \in Client : \A n \in 1..(sends[k] - 1) :
            <<k, n>> \notin users \cup identities \cup links

Contract == INSTANCE AccountContract
    WITH Caller <- Client, Account <- Call, AddressOf <- EmailOf,
         OwnerOf <- [c \in Call |-> c[1]],
         accounts <- {c \in Call : Complete(c)},
         confirmed <- {c \in Call : answer[c] = "200"},
         heard <- [k \in Client |-> IF told[k] \in {"nothing", "ok"}
                                    THEN told[k] ELSE "failed"]

(* The creation of users, with its retries, compensations and losses,      *)
(* implements its contract: an account that was reported is never taken    *)
(* away again, and who hears of success owns one.  See AccountContract.    *)
ImplementsContract == Contract!ContractSpec

(* Every submission of the form ends, with an answer or an exception, even *)
(* though calls fail and instances die.                                    *)
EverySubmissionEnds ==
    \A k \in Client : phase[k] = "send" ~> phase[k] = "done"
=============================================================================
