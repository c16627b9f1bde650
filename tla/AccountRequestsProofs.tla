------------------------ MODULE AccountRequestsProofs ------------------------
(***************************************************************************)
(* Proofs about RetryingClient, UserCreation and their composition         *)
(* AccountRequests, for any calls, limits, addresses and faults.  The      *)
(* composition restricts its two parts, so that what holds of the client   *)
(* and of the handler alone holds of it; Earlier adds what relates a client*)
(* to the calls it has started.                                            *)
(***************************************************************************)
EXTENDS AccountRequests, TLAPS

-----------------------------------------------------------------------------
(* The client.  Before counts the messages that a call may have sent when  *)
(* it is in its n-th attempt.                                              *)

(* At most this many messages before the first one of attempt n.           *)
Before(n) == (n - 1) * (MaxRetries + 1)

(* Only a message that can be sent is waited for.                          *)
WaitsForSendable(k) == phase[k] = "waiting" => Sendable(k)

(* Messages so far, from above: one in each turn of the inner loop.        *)
AtMost(k) ==
    /\ phase[k] = "idle" => sends[k] = 0 /\ retry[k] = 0
    /\ phase[k] # "idle" => attempt[k] >= 1
    /\ phase[k] = "send" /\ Sendable(k) => sends[k] <= Before(attempt[k]) + retry[k]
    /\ phase[k] # "idle" /\ Sendable(k) => sends[k] <= Before(attempt[k]) + retry[k] + 1
    /\ k \in WithBody => sends[k] <= MaxRetries + 1
    /\ phase[k] = "backoff" => retry[k] < MaxRetries

(* Messages so far, from below: one in each attempt that could send.       *)
AtLeast(k) ==
    /\ phase[k] = "send" /\ Sendable(k) => sends[k] >= attempt[k] - 1
    /\ phase[k] \notin {"idle", "send"} /\ Sendable(k) => sends[k] >= attempt[k]
    /\ IsClone(k) => sends[k] >= 1

(* A call fails in its last attempt.                                       *)
FailsLast(k) ==
    /\ told[k] # "nothing" => phase[k] = "done"
    /\ told[k] \in {"refused", "unreachable"} => attempt[k] = MaxAttempts

CallInvariant(k) == WaitsForSendable(k) /\ AtMost(k) /\ AtLeast(k) /\ FailsLast(k)

ClientInv == ClientTypeOK /\ \A k \in Client : CallInvariant(k)
-----------------------------------------------------------------------------

LEMMA ClientStarts == ClientInit => ClientInv
BY ClientAssumption
   DEF ClientInit, ClientInv, ClientTypeOK, CallInvariant, WaitsForSendable, AtMost,
       AtLeast, FailsLast, Sendable, IsClone

(* The budget of an attempt is that of the one before it and a whole turn  *)
(* of the inner loop.                                                      *)
LEMMA BudgetGrows ==
    ASSUME NEW n \in Nat
    PROVE  /\ Before(n) \in Int
           /\ Before(n + 1) = Before(n) + MaxRetries + 1
           /\ Before(n + 1) = n * (MaxRetries + 1)
<1>1. MaxRetries \in Nat
    BY ClientAssumption
<1>2. QED
    BY <1>1 DEF Before

LEMMA FirstBudget == Before(1) = 0
BY ClientAssumption DEF Before

(* What a call k has written down; the others stay as they are.            *)
Others(k) ==
    \A j \in Client \ {k} :
        /\ phase'[j] = phase[j] /\ attempt'[j] = attempt[j] /\ retry'[j] = retry[j]
        /\ sends'[j] = sends[j] /\ told'[j] = told[j]

(* A step of one call keeps the types and leaves the other calls alone.    *)
LEMMA ClientStepTyped ==
    ASSUME ClientInv, NEW k \in Client, Submit(k) \/ ClientStep(k)
    PROVE  ClientTypeOK' /\ Others(k)
<1> USE ClientAssumption DEF ClientInv, ClientTypeOK, Others, Enter, Conclude
<1>1. CASE Submit(k)
    BY <1>1 DEF Submit
<1>2. CASE Send(k)
    BY <1>2 DEF Send
<1>3. CASE BodyIsGone(k) \/ LoseConnection(k)
    BY <1>3 DEF BodyIsGone, LoseConnection, SendThrows, Catch
<1>4. CASE TimeOut(k)
    BY <1>4 DEF TimeOut, Catch
<1>5. CASE \E s \in Status : Receive(k, s)
    BY <1>5 DEF Receive, NotSuccessful
<1>6. CASE EndBackoff(k)
    <2>1. retry[k] < MaxRetries
        BY <1>6 DEF EndBackoff, CallInvariant, AtMost
    <2>2. QED
        BY <1>6, <2>1 DEF EndBackoff
<1>7. CASE EndDelay(k)
    BY <1>7 DEF EndDelay, AttemptsLeft
<1>8. QED
    BY <1>1, <1>2, <1>3, <1>4, <1>5, <1>6, <1>7 DEF ClientStep

(* Each operation leaves its own call as the invariant says.               *)
LEMMA OwnCallKept ==
    ASSUME ClientInv, NEW k \in Client, Submit(k) \/ ClientStep(k)
    PROVE  CallInvariant(k)'
<1> USE ClientAssumption
    DEF ClientInv, ClientTypeOK, CallInvariant, WaitsForSendable, AtMost, AtLeast,
        FailsLast, Sendable, IsClone, Enter, Conclude
<1>1. Before(attempt[k]) \in Int /\ Before(attempt[k] + 1) = Before(attempt[k]) + MaxRetries + 1
    BY BudgetGrows
<1>2. CASE Submit(k)
    BY <1>1, <1>2, FirstBudget DEF Submit
<1>3. CASE Send(k)
    <2>1. k \in WithBody => attempt[k] = 1 /\ Before(attempt[k]) = 0
        BY <1>3, FirstBudget DEF Send
    <2>2. QED
        BY <1>1, <1>3, <2>1 DEF Send
<1>4. CASE BodyIsGone(k)
    BY <1>1, <1>4 DEF BodyIsGone, SendThrows, Catch
<1>5. CASE LoseConnection(k)
    BY <1>1, <1>5 DEF LoseConnection, SendThrows, Catch
<1>6. CASE TimeOut(k)
    BY <1>1, <1>6 DEF TimeOut, Catch
<1>7. CASE \E s \in Status : Receive(k, s)
    BY <1>1, <1>7 DEF Receive, NotSuccessful
<1>8. CASE EndBackoff(k)
    BY <1>1, <1>8 DEF EndBackoff
<1>9. CASE EndDelay(k)
    BY <1>1, <1>9 DEF EndDelay, AttemptsLeft
<1>10. QED
    BY <1>2, <1>3, <1>4, <1>5, <1>6, <1>7, <1>8, <1>9 DEF ClientStep

(* The invariant is inductive.                                             *)
LEMMA ClientInvStep ==
    ASSUME ClientInv, [ClientNext]_clientVars
    PROVE  ClientInv'
<1> USE DEF CallInvariant, WaitsForSendable, AtMost, AtLeast, FailsLast, Sendable, IsClone
<1>1. ASSUME NEW k \in Client, Submit(k) \/ ClientStep(k)
      PROVE  ClientInv'
    <2>1. ClientTypeOK' /\ Others(k)
        BY <1>1, ClientStepTyped
    <2>2. CallInvariant(k)'
        BY <1>1, OwnCallKept
    <2>3. \A j \in Client \ {k} : CallInvariant(j)'
        BY <2>1 DEF ClientInv, Others
    <2>4. QED
        BY <2>1, <2>2, <2>3 DEF ClientInv
<1>2. CASE UNCHANGED clientVars
    BY <1>2 DEF clientVars, ClientInv, ClientTypeOK
<1>3. QED
    BY <1>1, <1>2 DEF ClientNext

LEMMA ClientInvariant == ClientSpec => []ClientInv
BY ClientStarts, ClientInvStep, PTL DEF ClientSpec

-----------------------------------------------------------------------------

(* The variables of the client keep their types: the counters of the two   *)
(* loops never pass their limits.                                          *)
THEOREM ClientTypeCorrect == ClientSpec => []ClientTypeOK
<1>1. ClientInv => ClientTypeOK
    BY DEF ClientInv
<1>2. QED
    BY <1>1, ClientInvariant, PTL

LEMMA EffortBound == ClientInv => BoundedEffort
<1>1. ASSUME ClientInv
      PROVE  BoundedEffort
    <2>1. SUFFICES ASSUME NEW k \in Client
                   PROVE  /\ sends[k] <= Most(k)
                          /\ told[k] \in {"refused", "unreachable"} =>
                                attempt[k] = MaxAttempts /\ sends[k] >= Least(k)
        BY DEF BoundedEffort
    <2> USE <1>1, ClientAssumption
        DEF ClientInv, ClientTypeOK, CallInvariant, AtMost, AtLeast, FailsLast, Sendable, IsClone
    <2>2. CASE k \in WithBody
        BY <2>2 DEF Most, Least
    <2>3. CASE k \notin WithBody
        <3>1. sends[k] <= MaxAttempts * (MaxRetries + 1)
            <4>1. CASE phase[k] = "idle"
                BY <4>1
            <4>2. CASE phase[k] # "idle"
                <5>1. sends[k] <= Before(attempt[k]) + MaxRetries + 1
                    <6>1. sends[k] <= Before(attempt[k]) + retry[k] + 1
                        BY <2>3, <4>2
                    <6>2. Before(attempt[k]) \in Int
                        BY BudgetGrows
                    <6>3. QED
                        BY <6>1, <6>2
                <5>2. Before(attempt[k]) + MaxRetries + 1 = attempt[k] * (MaxRetries + 1)
                    BY BudgetGrows
                <5>3. attempt[k] * (MaxRetries + 1) <= MaxAttempts * (MaxRetries + 1)
                    OBVIOUS
                <5>4. QED
                    BY <5>1, <5>2, <5>3
            <4>3. QED
                BY <4>1, <4>2
        <3>2. told[k] \in {"refused", "unreachable"} => sends[k] >= MaxAttempts
            BY <2>3
        <3>3. QED
            BY <2>3, <3>1, <3>2 DEF Most, Least
    <2>4. QED
        BY <2>2, <2>3
<1>2. QED
    BY <1>1

(* SendRequestAsync and the policy below it give up in the last attempt    *)
(* only; they send at least one message in each attempt that can send, and *)
(* at most MaxRetries + 1.  Whatever answers, and with or without a body.  *)
THEOREM EffortIsBounded == ClientSpec => []BoundedEffort
BY EffortBound, ClientInvariant, PTL

-----------------------------------------------------------------------------
(* The handler.  CreationInv says of each call what the services hold of it *)
(* when it is about to make a call to one of them; a step of one call      *)
(* leaves alone what belongs to the others, apart from the addresses.      *)

(* What was written before each call of the handler.                       *)
WrittenAt(c) ==
    /\ step[c] \in {"none", "find", "create"} =>
           c \notin users /\ c \notin identities /\ c \notin links
    /\ step[c] = "insert" =>
           c \notin users /\ c \in identities /\ c \notin links
    /\ step[c] = "claims" =>
           c \in users /\ c \in identities /\ c \notin links
    /\ step[c] \in {"reset", "queue"} =>
           c \in users /\ c \in claims /\ c \notin links
    /\ step[c] = "undo" => c \in identities
    /\ step[c] = "respond" => Complete(c)

(* An answer is given once and only success keeps an account complete.     *)
AnsweredOnce(c) ==
    /\ answer[c] # "none" <=> step[c] = "answered"
    /\ answer[c] = "200" => Complete(c)

(* The row and the claims come before the link; only a link whose task was *)
(* taken without an acknowledgement is followed by a compensation.         *)
LinkIsLast(c) ==
    c \in links =>
        /\ c \in users
        /\ c \in identities => c \in claims
        /\ step[c] \in {"respond", "undo", "answered", "crashed"}
        /\ "queue" \notin LosingAck => step[c] # "undo" /\ Complete(c)

(* A call that answered an error either undid its identity or could not.   *)
Undone(c) ==
    "undo" \notin Failing /\ "create" \notin LosingAck =>
        (c \in identities /\ step[c] = "answered" => answer[c] = "200")

(* The errors that look transient come before the first write.             *)
ErrorWroteNothing(c) ==
    answer[c] \in {"404", "500"} => c \notin users /\ c \notin identities /\ c \notin links

OneIdentityPerEmail ==
    \A c, d \in identities : EmailOf[c] = EmailOf[d] => c = d

CallInv(c) ==
    /\ WrittenAt(c) /\ AnsweredOnce(c) /\ LinkIsLast(c)
    /\ Undone(c) /\ ErrorWroteNothing(c)
    /\ step[c] = "crashed" => Crashes

CreationInv ==
    /\ CreationTypeOK
    /\ OneIdentityPerEmail
    /\ \A c \in Call : CallInv(c)
-----------------------------------------------------------------------------

LEMMA CreationStarts == CreationInit => CreationInv
BY DEF CreationInit, CreationInv, CreationTypeOK, OneIdentityPerEmail, CallInv,
       WrittenAt, AnsweredOnce, LinkIsLast, Undone, ErrorWroteNothing, Complete

(* A step of call c may change what the services hold of c only.           *)
OthersUntouched(c) ==
    \A d \in Call \ {c} :
        /\ step'[d] = step[d] /\ answer'[d] = answer[d]
        /\ d \in users' <=> d \in users
        /\ d \in identities' <=> d \in identities
        /\ d \in claims' <=> d \in claims
        /\ d \in links' <=> d \in links

(* Calls that a step does not touch keep their part of the invariant.      *)
LEMMA OthersKeep ==
    ASSUME CreationInv, NEW c \in Call, OthersUntouched(c)
    PROVE  \A d \in Call \ {c} : CallInv(d)'
BY DEF CreationInv, OthersUntouched, CallInv,
       WrittenAt, AnsweredOnce, LinkIsLast, Undone, ErrorWroteNothing, Complete

(* Where a step of a call leads: to another call of a service, or to the   *)
(* answer.                                                                 *)
Moves(c) ==
    \/ \E to \in Steps \cup {"crashed"} : Goto(c, to)
    \/ \E s \in {"200", "400", "404", "500"} : Reply(c, s)

(* Every operation of a call moves it.                                     *)
LEMMA EveryStepMoves ==
    ASSUME CreationInv, NEW c \in Call,
           Arrive(c) \/ Handle(c) \/ CallFails(c) \/ Crash(c)
    PROVE  Moves(c)
BY DEF Arrive, Handle, CallFails, Crash, FindManufacturer, CreateIdentity, InsertUser,
       UpdateUserClaims, GetPasswordResetToken, SendNotification, DeleteIdentity,
       Respond, Proceed, Throw, Moves, Goto, Reply, Steps, InnerTry

(* The moves keep the types of step and answer and leave others alone.     *)
LEMMA MovesAreLocal ==
    ASSUME CreationInv, NEW c \in Call, Moves(c)
    PROVE  /\ step' \in [Call -> {"none"} \cup Steps \cup Ended]
           /\ answer' \in [Call -> {"none", "200", "400", "404", "500"}]
           /\ \A d \in Call \ {c} : step'[d] = step[d] /\ answer'[d] = answer[d]
BY DEF CreationInv, CreationTypeOK, Moves, Goto, Reply, Steps, Ended, InnerTry

(* Operations of the handler change the sets by the call they belong to.   *)
LEMMA StepsAreLocal ==
    ASSUME CreationInv, NEW c \in Call,
           Arrive(c) \/ Handle(c) \/ CallFails(c) \/ Crash(c)
    PROVE  OthersUntouched(c)
<1>1. \A d \in Call \ {c} : step'[d] = step[d] /\ answer'[d] = answer[d]
    BY EveryStepMoves, MovesAreLocal
<1>2. CASE Arrive(c) \/ CallFails(c) \/ Crash(c)
    BY <1>1, <1>2 DEF Arrive, CallFails, Crash, stores, OthersUntouched
<1>3. CASE FindManufacturer(c) \/ GetPasswordResetToken(c) \/ Respond(c)
    BY <1>1, <1>3
       DEF FindManufacturer, GetPasswordResetToken, Respond, stores, OthersUntouched
<1>4. CASE CreateIdentity(c)
    BY <1>1, <1>4 DEF CreateIdentity, OthersUntouched
<1>5. CASE InsertUser(c)
    BY <1>1, <1>5 DEF InsertUser, OthersUntouched
<1>6. CASE UpdateUserClaims(c)
    BY <1>1, <1>6 DEF UpdateUserClaims, OthersUntouched
<1>7. CASE SendNotification(c)
    BY <1>1, <1>7 DEF SendNotification, OthersUntouched
<1>8. CASE DeleteIdentity(c)
    BY <1>1, <1>8 DEF DeleteIdentity, OthersUntouched
<1>9. QED
    BY <1>2, <1>3, <1>4, <1>5, <1>6, <1>7, <1>8 DEF Handle
-----------------------------------------------------------------------------

(* Each operation leaves its own call as the invariant says.               *)
LEMMA OwnKept ==
    ASSUME CreationInv, CreationAssumption, NEW c \in Call,
           Arrive(c) \/ Handle(c) \/ CallFails(c) \/ Crash(c)
    PROVE  CallInv(c)'
<1> USE DEF CreationInv, CreationTypeOK, CallInv, WrittenAt, AnsweredOnce,
            LinkIsLast, Undone, ErrorWroteNothing, Complete, Goto, Reply, Steps, Ended, InnerTry
<1>1. CASE Arrive(c)
    BY <1>1 DEF Arrive, stores
<1>2. CASE CallFails(c)
    BY <1>2 DEF CallFails, Throw, CreationAssumption, stores
<1>3. CASE Crash(c)
    BY <1>3 DEF Crash, stores
<1>4. CASE FindManufacturer(c)
    BY <1>4 DEF FindManufacturer, stores
<1>5. CASE CreateIdentity(c)
    BY <1>5 DEF CreateIdentity, Proceed, Throw
<1>6. CASE InsertUser(c)
    BY <1>6 DEF InsertUser, Proceed, Throw
<1>7. CASE UpdateUserClaims(c)
    BY <1>7 DEF UpdateUserClaims, Proceed, Throw
<1>8. CASE GetPasswordResetToken(c)
    BY <1>8 DEF GetPasswordResetToken, Throw, stores
<1>9. CASE SendNotification(c)
    BY <1>9 DEF SendNotification, Proceed, Throw
<1>10. CASE DeleteIdentity(c)
    BY <1>10 DEF DeleteIdentity
<1>11. CASE Respond(c)
    BY <1>11 DEF Respond, stores
<1>12. QED
    BY <1>1, <1>2, <1>3, <1>4, <1>5, <1>6, <1>7, <1>8, <1>9, <1>10, <1>11
       DEF Handle

(* The stores keep their types, and addresses stay unique: an identity is  *)
(* added only when its address is free.                                    *)
LEMMA StoresKept ==
    ASSUME CreationInv, NEW c \in Call,
           Arrive(c) \/ Handle(c) \/ CallFails(c) \/ Crash(c)
    PROVE  /\ makers' \subseteq Maker
           /\ users' \subseteq Call /\ bridges' \subseteq users'
           /\ identities' \subseteq Call /\ claims' \subseteq identities'
           /\ links' \subseteq Call
           /\ OneIdentityPerEmail'
<1> USE DEF CreationInv, CreationTypeOK, OneIdentityPerEmail
<1>1. CASE Arrive(c) \/ CallFails(c) \/ Crash(c)
    BY <1>1 DEF Arrive, CallFails, Crash, stores
<1>2. CASE FindManufacturer(c) \/ GetPasswordResetToken(c) \/ Respond(c)
    BY <1>2 DEF FindManufacturer, GetPasswordResetToken, Respond, stores
<1>3. CASE CreateIdentity(c)
    BY <1>3 DEF CreateIdentity, Taken
<1>4. CASE InsertUser(c)
    BY <1>4 DEF InsertUser
<1>5. CASE UpdateUserClaims(c)
    BY <1>5 DEF UpdateUserClaims
<1>6. CASE SendNotification(c)
    BY <1>6 DEF SendNotification
<1>7. CASE DeleteIdentity(c)
    BY <1>7 DEF DeleteIdentity
<1>8. QED
    BY <1>1, <1>2, <1>3, <1>4, <1>5, <1>6, <1>7 DEF Handle

(* The invariant is inductive.                                             *)
LEMMA CreationStep ==
    ASSUME CreationAssumption, CreationInv, [CreationNext]_creationVars
    PROVE  CreationInv'
<1>1. ASSUME NEW c \in Call, Arrive(c) \/ Handle(c) \/ CallFails(c) \/ Crash(c)
      PROVE  CreationInv'
    <2>1. CreationTypeOK' /\ OneIdentityPerEmail'
        BY <1>1, EveryStepMoves, MovesAreLocal, StoresKept DEF CreationTypeOK
    <2>2. \A d \in Call : CallInv(d)'
        BY <1>1, OwnKept, StepsAreLocal, OthersKeep
    <2>3. QED
        BY <2>1, <2>2 DEF CreationInv
<1>2. ASSUME NEW m \in Maker, DeleteManufacturer(m)
      PROVE  CreationInv'
    BY <1>2 DEF DeleteManufacturer, CreationInv, CreationTypeOK, OneIdentityPerEmail,
                CallInv, WrittenAt, AnsweredOnce, LinkIsLast, Undone, ErrorWroteNothing, Complete
<1>3. CASE UNCHANGED creationVars
    BY <1>3 DEF creationVars, stores, CreationInv, CreationTypeOK, OneIdentityPerEmail,
                CallInv, WrittenAt, AnsweredOnce, LinkIsLast, Undone, ErrorWroteNothing, Complete
<1>4. QED
    BY <1>1, <1>2, <1>3 DEF CreationNext

LEMMA CreationInvariant == CreationSpec => []CreationInv
<1>1. CreationInit => CreationInv
    BY CreationStarts
<1>2. CreationInv /\ [CreationNext]_creationVars => CreationInv'
    BY CreationStep, CreationAssumption
<1>3. QED
    BY <1>1, <1>2, PTL DEF CreationSpec

-----------------------------------------------------------------------------
(* The composition.                                                        *)

(* The call that a message starts is one of Call.                          *)
LEMMA MessagesAreCalls ==
    ASSUME ClientInv, NEW k \in Client
    PROVE  /\ phase[k] = "send" /\ Sendable(k) => <<k, sends[k] + 1>> \in Call
           /\ phase[k] = "waiting" => Current(k) \in Call
<1> USE RequestAssumption, ClientAssumption
    DEF ClientInv, ClientTypeOK, CallInvariant, WaitsForSendable, AtMost, AtLeast, Sendable
<1>1. CASE phase[k] = "send" /\ Sendable(k)
    <2>1. attempt[k] = 1
        BY <1>1 DEF IsClone
    <2>2. sends[k] + 1 \in 1..(MaxRetries + 1)
        BY <1>1, <2>1, FirstBudget
    <2>3. QED
        BY <1>1, <2>2
<1>2. CASE phase[k] = "waiting"
    <2>1. attempt[k] = 1
        BY <1>2 DEF IsClone
    <2>2. sends[k] \in 1..(MaxRetries + 1)
        BY <1>2, <2>1
    <2>3. QED
        BY <1>2, <2>2 DEF Current
<1>3. QED
    BY <1>1, <1>2

(* Each step of the composition is a step of one of its parts.             *)
LEMMA StepsOfParts ==
    ASSUME ClientInv, [Next]_vars
    PROVE  [ClientNext]_clientVars /\ [CreationNext]_creationVars
<1>1. CASE UNCHANGED vars
    BY <1>1 DEF vars
<1>2. ASSUME NEW k \in Client, SubmitForm(k) \/ ClientMoves(k)
      PROVE  [ClientNext]_clientVars /\ [CreationNext]_creationVars
    <2>1. CASE SubmitForm(k)
        BY <2>1 DEF SubmitForm, ClientNext
    <2>2. CASE SendRequest(k)
        <3>1. ClientNext
            BY <2>2 DEF SendRequest, ClientNext, ClientStep
        <3>2. <<k, sends[k] + 1>> \in Call
            BY <2>2, MessagesAreCalls DEF SendRequest, Send
        <3>3. [CreationNext]_creationVars
            BY <2>2, <3>2 DEF SendRequest, CreationNext
        <3>4. QED
            BY <3>1, <3>3
    <2>3. CASE ReceiveAnswer(k)
        BY <2>3 DEF ReceiveAnswer, ClientNext, ClientStep
    <2>4. CASE BreakConnection(k)
        BY <2>4 DEF BreakConnection, ClientNext, ClientStep
    <2>5. CASE StopWaiting(k)
        BY <2>5 DEF StopWaiting, ClientNext, ClientStep
    <2>6. CASE RetryLocally(k)
        BY <2>6 DEF RetryLocally, ClientNext, ClientStep
    <2>7. QED
        BY <1>2, <2>1, <2>2, <2>3, <2>4, <2>5, <2>6 DEF ClientMoves
<1>3. ASSUME NEW c \in Call, Serve(c)
      PROVE  [ClientNext]_clientVars /\ [CreationNext]_creationVars
    BY <1>3 DEF Serve, CreationNext
<1>4. CASE Disturb
    BY <1>4 DEF Disturb, CreationNext
<1>5. QED
    BY <1>1, <1>2, <1>3, <1>4 DEF Next

PartsInv == ClientInv /\ CreationInv

LEMMA PartsInvariant == Spec => []PartsInv
<1>1. Init => PartsInv
    BY ClientStarts, CreationStarts DEF Init, PartsInv
<1>2. PartsInv /\ [Next]_vars => PartsInv'
    BY StepsOfParts, ClientInvStep, CreationStep, CreationAssumption DEF PartsInv
<1>3. QED
    BY <1>1, <1>2, PTL DEF Spec

-----------------------------------------------------------------------------

(* All variables keep their types.                                         *)
THEOREM RequestsTypeCorrect == Spec => []TypeOK
<1>1. PartsInv => TypeOK
    BY DEF PartsInv, ClientInv, CreationInv, TypeOK
<1>2. QED
    BY <1>1, PartsInvariant, PTL

(* A call of CreateManufacturerUserCommandHandler that answered 200 made an*)
(* account that no other call, retry or compensation takes away.           *)
THEOREM SuccessIsComplete == Spec => []OkIsComplete
<1>1. PartsInv => OkIsComplete
    BY DEF PartsInv, CreationInv, CallInv, AnsweredOnce, OkIsComplete
<1>2. QED
    BY <1>1, PartsInvariant, PTL

(* At most one call ever reports success for an address.                   *)
THEOREM AddressesAreUnique == Spec => []OneAccountPerEmail
<1>1. PartsInv => OneAccountPerEmail
    BY DEF PartsInv, CreationInv, CreationTypeOK, CallInv, AnsweredOnce, Complete,
           OneIdentityPerEmail, OneAccountPerEmail
<1>2. QED
    BY <1>1, PartsInvariant, PTL

(* When the deletion of identities works and their creation is             *)
(* acknowledged, an error leaves no identity.                              *)
THEOREM FailureIsUndone == Spec => []NothingLeftBehind
<1>1. PartsInv => NothingLeftBehind
    BY DEF PartsInv, CreationInv, CreationTypeOK, CallInv, Undone, NothingLeftBehind
<1>2. QED
    BY <1>1, PartsInvariant, PTL

(* When the queue does not lie, every activation link works.               *)
THEOREM MailedLinksWork == Spec => []LinksWork
<1>1. PartsInv => LinksWork
    BY DEF PartsInv, CreationInv, CreationTypeOK, CallInv, LinkIsLast, LinksWork
<1>2. QED
    BY <1>1, PartsInvariant, PTL
-----------------------------------------------------------------------------
(* The refinement.  Of the client's steps only the last one is visible, of *)
(* the handler's only the link, the compensation and the answer.           *)

LEMMA ContractStarts == Init => Contract!ContractInit
BY DEF Init, ClientInit, CreationInit, Contract!ContractInit, Complete

(* A client hears once; what it hears as success, its call has confirmed.  *)
LEMMA ClientHears ==
    ASSUME PartsInv, NEW k \in Client, SubmitForm(k) \/ ClientMoves(k)
    PROVE  [Contract!ContractNext]_(Contract!accountVars)
<1> USE DEF Contract!accountVars, Complete
<1>1. CASE SubmitForm(k)
    BY <1>1 DEF SubmitForm, Submit, creationVars, stores
<1>2. CASE SendRequest(k)
    BY <1>2 DEF SendRequest, Send, Arrive, Goto, creationVars, stores
<1>3. ASSUME UNCHANGED creationVars, UNCHANGED told
      PROVE  UNCHANGED Contract!accountVars
    BY <1>3 DEF creationVars, stores
<1>4. ASSUME UNCHANGED creationVars, phase[k] # "done",
             Conclude(k, "refused") \/ Conclude(k, "unreachable")
      PROVE  Contract!Hear(k)
    BY <1>4 DEF creationVars, stores, Conclude, Contract!Hear,
                PartsInv, ClientInv, ClientTypeOK, CallInvariant, FailsLast
<1>5. ASSUME UNCHANGED creationVars, phase[k] = "waiting",
             answer[Current(k)] = "200", Conclude(k, "ok")
      PROVE  Contract!Hear(k)
    <2>1. Current(k) \in Call /\ Current(k)[1] = k
        BY <1>5, MessagesAreCalls DEF PartsInv, Current
    <2>2. \E a \in {c \in Call : answer[c] = "200"} : [c \in Call |-> c[1]][a] = k
        BY <1>5, <2>1
    <2>3. QED
        BY <1>5, <2>2 DEF creationVars, stores, Conclude, Contract!Hear,
                PartsInv, ClientInv, ClientTypeOK, CallInvariant, FailsLast
<1>6. CASE ReceiveAnswer(k)
    BY <1>3, <1>4, <1>5, <1>6
       DEF ReceiveAnswer, Receive, NotSuccessful, Contract!ContractNext
<1>7. CASE BreakConnection(k)
    BY <1>3, <1>7 DEF BreakConnection, LoseConnection, SendThrows, Catch
<1>8. CASE StopWaiting(k)
    BY <1>3, <1>8 DEF StopWaiting, TimeOut, Catch
<1>9. CASE RetryLocally(k)
    BY <1>3, <1>4, <1>9
       DEF RetryLocally, BodyIsGone, SendThrows, Catch, EndBackoff, EndDelay,
           Contract!ContractNext
<1>10. QED
    BY <1>1, <1>2, <1>6, <1>7, <1>8, <1>9 DEF ClientMoves

(* An account is complete with its link, and no other with its address is. *)
LEMMA HandlerOpensAndCloses ==
    ASSUME PartsInv, NEW c \in Call, Handle(c), UNCHANGED clientVars
    PROVE  [Contract!ContractNext]_(Contract!accountVars)
<1> USE DEF PartsInv, CreationInv, CreationTypeOK, Contract!accountVars, clientVars
<1>1. WrittenAt(c) /\ AnsweredOnce(c) /\ LinkIsLast(c)
    BY DEF CallInv
<1>2. ASSUME \A d \in Call : /\ Complete(d)' <=> Complete(d)
                             /\ answer'[d] = "200" <=> answer[d] = "200"
      PROVE  UNCHANGED Contract!accountVars
    <2>1. {d \in Call : Complete(d)}' = {d \in Call : Complete(d)}
        BY <1>2
    <2>2. {d \in Call : answer[d] = "200"}' = {d \in Call : answer[d] = "200"}
        BY <1>2
    <2>3. QED
        BY <2>1, <2>2
<1>3. CASE FindManufacturer(c) \/ GetPasswordResetToken(c)
    BY <1>1, <1>2, <1>3
       DEF FindManufacturer, GetPasswordResetToken, Throw, Goto, Reply, stores,
           Complete, AnsweredOnce, Ended, Steps, InnerTry
<1>4. CASE CreateIdentity(c)
    BY <1>1, <1>2, <1>4
       DEF CreateIdentity, Proceed, Throw, Goto, Reply, Complete, AnsweredOnce, InnerTry
<1>5. CASE InsertUser(c) \/ UpdateUserClaims(c)
    BY <1>1, <1>2, <1>5
       DEF InsertUser, UpdateUserClaims, Proceed, Throw, Goto, Reply, Complete,
           AnsweredOnce, WrittenAt, InnerTry
<1>6. CASE SendNotification(c)
    <2>1. answer' = answer
        BY <1>6 DEF SendNotification, Proceed, Throw, Goto, InnerTry
    <2>2. Complete(c)' /\ \A d \in Call \ {c} : Complete(d)' <=> Complete(d)
        BY <1>1, <1>6 DEF SendNotification, Complete, WrittenAt
    <2>3. \A d \in Call : Complete(d) => EmailOf[d] # EmailOf[c]
        BY <1>1, <1>6 DEF SendNotification, Complete, WrittenAt, OneIdentityPerEmail
    <2>4. Contract!Open(c)
        BY <2>1, <2>2, <2>3 DEF Contract!Open
    <2>5. QED
        BY <2>4 DEF Contract!ContractNext
<1>7. CASE DeleteIdentity(c)
    <2>1. answer[c] # "200" /\ answer'[c] # "200"
        BY <1>1, <1>7 DEF DeleteIdentity, Reply, AnsweredOnce
    <2>2. ~Complete(c)' /\ \A d \in Call \ {c} :
                /\ Complete(d)' <=> Complete(d)
                /\ answer'[d] = answer[d]
        BY <1>7 DEF DeleteIdentity, Reply, Complete
    <2>3. CASE Complete(c)
        <3>1. Contract!Withdraw(c)
            BY <2>1, <2>2, <2>3 DEF Contract!Withdraw
        <3>2. QED
            BY <3>1 DEF Contract!ContractNext
    <2>4. CASE ~Complete(c)
        BY <1>2, <2>1, <2>2, <2>4
    <2>5. QED
        BY <2>3, <2>4
<1>8. CASE Respond(c)
    <2>1. Complete(c) /\ answer[c] # "200" /\ answer'[c] = "200"
        BY <1>1, <1>8 DEF Respond, Reply, WrittenAt, AnsweredOnce
    <2>2. \A d \in Call : /\ Complete(d)' <=> Complete(d)
                          /\ d # c => answer'[d] = answer[d]
        BY <1>8 DEF Respond, Reply, stores, Complete
    <2>3. {d \in Call : Complete(d)}' = {d \in Call : Complete(d)}
        BY <2>2
    <2>4. {d \in Call : answer[d] = "200"}' = {d \in Call : answer[d] = "200"} \cup {c}
        BY <2>1, <2>2
    <2>5. Contract!Confirm(c)
        BY <2>1, <2>3, <2>4 DEF Contract!Confirm
    <2>6. QED
        BY <2>5 DEF Contract!ContractNext
<1>9. QED
    BY <1>3, <1>4, <1>5, <1>6, <1>7, <1>8 DEF Handle

(* Failures, crashes and deletions of manufacturers are not visible.       *)
LEMMA DisturbancesAreInvisible ==
    ASSUME PartsInv, Disturb
    PROVE  UNCHANGED Contract!accountVars
<1> USE DEF PartsInv, CreationInv, CreationTypeOK, Contract!accountVars, clientVars
<1>1. ASSUME NEW c \in Call, CallFails(c) \/ Crash(c), UNCHANGED clientVars
      PROVE  UNCHANGED Contract!accountVars
    <2>1. \A d \in Call : answer'[d] = "200" <=> answer[d] = "200"
        BY <1>1 DEF CallInv, AnsweredOnce, CallFails, Crash, Throw, Goto, Reply, Ended,
                    Steps, InnerTry
    <2>2. QED
        BY <1>1, <2>1 DEF CallFails, Crash, stores, Complete
<1>2. ASSUME NEW m \in Maker, DeleteManufacturer(m), UNCHANGED clientVars
      PROVE  UNCHANGED Contract!accountVars
    BY <1>2 DEF DeleteManufacturer, Complete
<1>3. QED
    BY <1>1, <1>2 DEF Disturb

(* Every behaviour of the portal's submissions and of                      *)
(* CreateManufacturerUserCommandHandler is one of the contract.            *)
THEOREM RequestsImplementContract == Spec => ImplementsContract
<1>1. Init => Contract!ContractInit
    BY ContractStarts
<1>2. PartsInv /\ [Next]_vars => [Contract!ContractNext]_(Contract!accountVars)
    <2>1. CASE UNCHANGED vars
        BY <2>1 DEF vars, clientVars, creationVars, stores, Contract!accountVars, Complete
    <2>2. QED
        BY <2>1, ClientHears, HandlerOpensAndCloses, DisturbancesAreInvisible
           DEF Next, Serve
<1>3. QED
    BY <1>1, <1>2, PartsInvariant, PTL DEF Spec, ImplementsContract, Contract!ContractSpec
-----------------------------------------------------------------------------
(* Retries.  A message is sent again only after an answer that looked      *)
(* transient, as long as nothing is lost.                                  *)

FailedEarly(k, n) == answer[<<k, n>>] \in {"404", "500"}

Earlier(k) ==
    \A n \in 1..sends[k] :
        n < sends[k] \/ (phase[k] \in {"send", "backoff"} /\ ~IsClone(k))
            => FailedEarly(k, n)

RetryInv == ~Unreliable /\ ~Crashes => \A k \in Client : Earlier(k)

(* An answer does not change any more.                                     *)
LEMMA AnswersStay ==
    ASSUME CreationInv, [CreationNext]_creationVars, NEW c \in Call, answer[c] # "none"
    PROVE  answer'[c] = answer[c]
<1>1. step[c] = "answered"
    BY DEF CreationInv, CallInv, AnsweredOnce
<1>2. ASSUME NEW d \in Call, Arrive(d) \/ Handle(d) \/ CallFails(d) \/ Crash(d)
      PROVE  answer'[c] = answer[c]
    <2>1. CASE d = c
        BY <1>1, <1>2, <2>1
           DEF Arrive, Handle, CallFails, Crash, FindManufacturer, CreateIdentity,
               InsertUser, UpdateUserClaims, GetPasswordResetToken, SendNotification,
               DeleteIdentity, Respond, Throw, Steps, InnerTry
    <2>2. CASE d # c
        BY <1>2, <2>2, StepsAreLocal DEF OthersUntouched
    <2>3. QED
        BY <2>1, <2>2
<1>3. QED
    BY <1>2 DEF CreationNext, DeleteManufacturer, creationVars

(* A message number of a client is a call.                                 *)
LEMMA SentAreCalls ==
    ASSUME ClientInv, NEW k \in Client, NEW n \in 1..sends[k]
    PROVE  <<k, n>> \in Call
<1>1. sends[k] \in Nat /\ sends[k] <= MaxRetries + 1 /\ MaxRetries \in Nat
    BY RequestAssumption, ClientAssumption
       DEF ClientInv, ClientTypeOK, CallInvariant, AtMost
<1>2. n \in 1..(MaxRetries + 1)
    BY <1>1
<1>3. QED
    BY <1>2, RequestAssumption

LEMMA RetryStep ==
    ASSUME PartsInv, RetryInv, [Next]_vars
    PROVE  RetryInv'
<1>1. SUFFICES ASSUME ~Unreliable, ~Crashes, NEW k \in Client
               PROVE  Earlier(k)'
    BY DEF RetryInv
<1>2. Earlier(k)
    BY <1>1 DEF RetryInv
<1>3. \A n \in 1..sends[k] : FailedEarly(k, n) => FailedEarly(k, n)'
    BY StepsOfParts, AnswersStay, SentAreCalls DEF PartsInv, FailedEarly
<1>4. /\ sends[k] \in Nat /\ attempt[k] \in Nat
      /\ phase[k] # "idle" => attempt[k] >= 1
      /\ phase[k] = "idle" => sends[k] = 0
      /\ phase \in [Client -> {"idle", "send", "waiting", "backoff", "delay", "done"}]
      /\ sends \in [Client -> Nat] /\ attempt \in [Client -> 0..MaxAttempts]
    BY ClientAssumption DEF PartsInv, ClientInv, ClientTypeOK, CallInvariant, AtMost
<1>5. CASE UNCHANGED <<phase[k], attempt[k], sends[k]>>
    BY <1>2, <1>3, <1>5 DEF Earlier, IsClone
<1>6. CASE SubmitForm(k)
    BY <1>4, <1>6 DEF SubmitForm, Submit, Earlier
<1>7. CASE SendRequest(k)
    <2>1. phase[k] = "send" /\ ~IsClone(k)
        BY <1>7, RequestAssumption DEF SendRequest, Send, Sendable
    <2>2. phase'[k] = "waiting" /\ sends'[k] = sends[k] + 1
        BY <1>4, <1>7 DEF SendRequest, Send, Enter
    <2>3. \A n \in 1..sends[k] : FailedEarly(k, n)'
        BY <1>2, <1>3, <2>1 DEF Earlier
    <2>4. QED
        BY <1>4, <2>2, <2>3 DEF Earlier
<1>8. CASE ReceiveAnswer(k)
    <2>1. sends' = sends /\ attempt' = attempt /\ phase[k] = "waiting"
        BY <1>8 DEF ReceiveAnswer, Receive
    <2>2. phase'[k] \in {"send", "backoff"} => FailedEarly(k, sends[k])'
        BY <1>4, <1>8 DEF ReceiveAnswer, Receive, NotSuccessful, Conclude, Enter, Current,
                          FailedEarly, Transient, creationVars
    <2>3. QED
        BY <1>2, <1>3, <1>4, <2>1, <2>2 DEF Earlier
<1>9. CASE BreakConnection(k) \/ StopWaiting(k)
    BY <1>1, <1>9, MessagesAreCalls
       DEF BreakConnection, LoseConnection, StopWaiting, PartsInv, CreationInv, CallInv
<1>10. CASE RetryLocally(k)
    <2>1. sends' = sends
        BY <1>10 DEF RetryLocally, BodyIsGone, SendThrows, EndBackoff, EndDelay
    <2>2. phase'[k] \in {"send", "backoff"} /\ ~IsClone(k)' =>
              phase[k] = "backoff" /\ ~IsClone(k)
        BY <1>4, <1>10
           DEF RetryLocally, BodyIsGone, Sendable, SendThrows, Catch, EndBackoff, EndDelay,
               Conclude, Enter, IsClone
    <2>3. QED
        BY <1>2, <1>3, <2>1, <2>2 DEF Earlier
<1>11. ASSUME NEW j \in Client \ {k}, SubmitForm(j) \/ ClientMoves(j)
       PROVE  UNCHANGED <<phase[k], attempt[k], sends[k]>>
    <2>1. Submit(j) \/ ClientStep(j)
        BY <1>11 DEF SubmitForm, ClientMoves, SendRequest, ReceiveAnswer, BreakConnection,
                     StopWaiting, RetryLocally, ClientStep
    <2>2. QED
        BY <2>1, ClientStepTyped DEF PartsInv, Others
<1>12. QED
    BY <1>5, <1>6, <1>7, <1>8, <1>9, <1>10, <1>11
       DEF Next, ClientMoves, Serve, Disturb, vars, clientVars

(* The same for the composition: whatever the network, the handler and     *)
(* their neighbours do, a submission sends its request a bounded number of *)
(* times and is only told of a failure after its last attempt.             *)
THEOREM SubmissionsAreBounded == Spec => []BoundedEffort
<1>1. PartsInv => BoundedEffort
    BY EffortBound DEF PartsInv
<1>2. QED
    BY <1>1, PartsInvariant, PTL

(* When connections hold and instances live, the retries of the portal     *)
(* repeat only calls of the handler that wrote nothing.                    *)
THEOREM RetriesAreHarmless == Spec => []RetryFindsNothing
<1>1. Init => RetryInv
    BY DEF Init, ClientInit, RetryInv, Earlier
<1>2. ASSUME PartsInv, RetryInv
      PROVE  RetryFindsNothing
    <2>1. SUFFICES ASSUME ~Unreliable, ~Crashes, NEW k \in Client, NEW n \in 1..(sends[k] - 1)
                   PROVE  <<k, n>> \notin users \cup identities \cup links
        BY DEF RetryFindsNothing
    <2>2. sends[k] \in Nat
        BY <1>2 DEF PartsInv, ClientInv, ClientTypeOK
    <2>3. n \in 1..sends[k] /\ n < sends[k]
        BY <2>2
    <2>4. FailedEarly(k, n)
        BY <1>2, <2>1, <2>3 DEF RetryInv, Earlier
    <2>5. QED
        BY <1>2, <2>3, <2>4, SentAreCalls
           DEF PartsInv, CreationInv, CallInv, ErrorWroteNothing, FailedEarly
<1>3. QED
    BY <1>1, <1>2, RetryStep, PartsInvariant, PTL DEF Spec
=============================================================================
