---------------------------- MODULE UserCreation ----------------------------
(***************************************************************************)
(* CreateManufacturerUserCommandHandler in the organisations API.  A call  *)
(* writes to three services one after the other: an identity in the        *)
(* identity platform, a user with its permissions in the database, claims  *)
(* on the identity, and a task with the activation link in the queue.  When*)
(* one of the later writes throws, the handler deletes the identity again. *)
(*                                                                         *)
(* Each action is one awaited call to a service.  The Guid of a new user is*)
(* the call that makes it.  Passwords, permissions and texts are left out: *)
(* the website always asks for all permissions.  A caller that goes away   *)
(* cancels statements of the database: one more way for them to fail.      *)
(***************************************************************************)

CONSTANTS Call,          \* calls of Handle
          Email, Maker,  \* addresses and manufacturers
          EmailOf,       \* EmailOf[c]: the address in the request of c
          MakerOf,       \* MakerOf[c]: the manufacturer in the request of c
          Failing,       \* steps whose service may fail without effect
          LosingAck,     \* steps whose service may act and still throw
          Crashes,       \* TRUE: an instance of the API may die
          Deletes        \* TRUE: manufacturers may be deleted

InnerTry == {"insert", "claims", "reset", "queue"}
Steps == {"find", "create", "undo", "respond"} \cup InnerTry
Ended == {"answered", "crashed"}

ASSUME CreationAssumption ==
    /\ EmailOf \in [Call -> Email]
    /\ MakerOf \in [Call -> Maker]
    /\ Failing \subseteq {"find", "create", "undo"} \cup InnerTry
    /\ LosingAck \subseteq {"create", "undo", "insert", "claims", "queue"}
    /\ Crashes \in BOOLEAN /\ Deletes \in BOOLEAN

VARIABLES step,        \* the service call that c is about to make
          answer,      \* the status it answers
          makers,      \* manufacturers in the database
          users,       \* user rows; rows are never deleted
          bridges,     \* user rows with a bridge to their manufacturer
          identities,  \* identities in the platform
          claims,      \* identities that carry claims
          links        \* users whose activation link was queued

stores == <<makers, users, bridges, identities, claims, links>>
creationVars == <<step, answer, stores>>

CreationTypeOK ==
    /\ step \in [Call -> {"none"} \cup Steps \cup Ended]
    /\ answer \in [Call -> {"none", "200", "400", "404", "500"}]
    /\ makers \subseteq Maker
    /\ users \subseteq Call /\ bridges \subseteq users
    /\ identities \subseteq Call /\ claims \subseteq identities
    /\ links \subseteq Call

CreationInit ==
    /\ step = [c \in Call |-> "none"]
    /\ answer = [c \in Call |-> "none"]
    /\ makers = Maker
    /\ users = {} /\ bridges = {}
    /\ identities = {} /\ claims = {}
    /\ links = {}

-----------------------------------------------------------------------------

Goto(c, to) == step' = [step EXCEPT ![c] = to] /\ UNCHANGED answer

Reply(c, status) ==
    /\ step' = [step EXCEPT ![c] = "answered"]
    /\ answer' = [answer EXCEPT ![c] = status]

(* Where an exception ends up: before the outer try block in the middleware*)
(* (500), in the inner catch block, which compensates, or in the outer one,*)
(* which answers 400; what DeleteUserAsync throws goes there too.          *)
Throw(c) ==
    \/ step[c] = "find" /\ Reply(c, "500")
    \/ step[c] \in {"create", "undo"} /\ Reply(c, "400")
    \/ step[c] \in InnerTry /\ Goto(c, "undo")

(* After a service has acted: the answer arrives, or an exception does.    *)
Proceed(c, to) ==
    \/ Goto(c, to)
    \/ step[c] \in LosingAck /\ Throw(c)

Arrive(c) ==
    /\ step[c] = "none"
    /\ Goto(c, "find")
    /\ UNCHANGED stores

CallFails(c) ==
    /\ step[c] \in Failing
    /\ Throw(c)
    /\ UNCHANGED stores

(* The manufacturer, then the permissions, both only read.                 *)
FindManufacturer(c) ==
    /\ step[c] = "find"
    /\ \/ MakerOf[c] \in makers /\ Goto(c, "create")
       \/ MakerOf[c] \notin makers /\ Reply(c, "404")
    /\ UNCHANGED stores

(* The platform refuses a second identity with the same address.           *)
Taken(c) == \E d \in identities : EmailOf[d] = EmailOf[c]

CreateIdentity(c) ==
    /\ step[c] = "create"
    /\ \/ /\ ~Taken(c)
          /\ identities' = identities \cup {c}
          /\ Proceed(c, "insert")
       \/ /\ Taken(c)
          /\ Throw(c)
          /\ UNCHANGED identities
    /\ UNCHANGED <<makers, users, bridges, claims, links>>

(* The user and the bridge in one SaveChanges.  The foreign key refuses the*)
(* bridge when the manufacturer was deleted since it was read.             *)
InsertUser(c) ==
    /\ step[c] = "insert"
    /\ \/ /\ MakerOf[c] \in makers
          /\ users' = users \cup {c}
          /\ bridges' = bridges \cup {c}
          /\ Proceed(c, "claims")
       \/ /\ MakerOf[c] \notin makers
          /\ Throw(c)
          /\ UNCHANGED <<users, bridges>>
    /\ UNCHANGED <<makers, identities, claims, links>>

(* Mutant: the claims are not awaited.                                     *)
ClaimsUnawaited(c) ==
    /\ step[c] = "claims"
    /\ Goto(c, "reset")
    /\ claims' \in {claims, claims \cup ({c} \cap identities)}
    /\ UNCHANGED <<makers, users, bridges, identities, links>>

UpdateUserClaims(c) ==
    /\ step[c] = "claims"
    /\ \/ /\ c \in identities
          /\ claims' = claims \cup {c}
          /\ Proceed(c, "reset")
       \/ /\ c \notin identities
          /\ Throw(c)
          /\ UNCHANGED claims
    /\ UNCHANGED <<makers, users, bridges, identities, links>>

GetPasswordResetToken(c) ==
    /\ step[c] = "reset"
    /\ \/ c \in identities /\ Goto(c, "queue")
       \/ c \notin identities /\ Throw(c)
    /\ UNCHANGED stores

(* Mutant: the task is not awaited.                                        *)
QueueUnawaited(c) ==
    /\ step[c] = "queue"
    /\ Goto(c, "respond")
    /\ links' \in {links, links \cup {c}}
    /\ UNCHANGED <<makers, users, bridges, identities, claims>>

SendNotification(c) ==
    /\ step[c] = "queue"
    /\ links' = links \cup {c}
    /\ Proceed(c, "respond")
    /\ UNCHANGED <<makers, users, bridges, identities, claims>>

(* Mutant: the inner catch block does not throw again.                     *)
DeleteAndGoOn(c) ==
    /\ step[c] = "undo"
    /\ identities' = identities \ {c}
    /\ claims' = claims \ {c}
    /\ Goto(c, "respond")
    /\ UNCHANGED <<makers, users, bridges, links>>

(* Mutant: what is thrown after the compensation is not caught again.      *)
DeleteAndThrow(c) ==
    /\ step[c] = "undo"
    /\ identities' = identities \ {c}
    /\ claims' = claims \ {c}
    /\ Reply(c, "500")
    /\ UNCHANGED <<makers, users, bridges, links>>

(* Mutant: no compensation.                                                *)
DeleteNothing(c) ==
    /\ step[c] = "undo"
    /\ Reply(c, "400")
    /\ UNCHANGED stores

(* The compensation.  The user row stays.                                  *)
DeleteIdentity(c) ==
    /\ step[c] = "undo"
    /\ identities' = identities \ {c}
    /\ claims' = claims \ {c}
    /\ Reply(c, "400")
    /\ UNCHANGED <<makers, users, bridges, links>>

Respond(c) ==
    /\ step[c] = "respond"
    /\ Reply(c, "200")
    /\ UNCHANGED stores

Crash(c) ==
    /\ Crashes
    /\ step[c] \in Steps
    /\ Goto(c, "crashed")
    /\ UNCHANGED stores

(* DeleteManufacturerCommandHandler; the foreign keys delete the bridges   *)
(* and leave users, identities and claims.                                 *)
DeleteManufacturer(m) ==
    /\ Deletes
    /\ m \in makers
    /\ makers' = makers \ {m}
    /\ bridges' = {c \in bridges : MakerOf[c] # m}
    /\ UNCHANGED <<step, answer, users, identities, claims, links>>

-----------------------------------------------------------------------------

Handle(c) ==
    \/ FindManufacturer(c) \/ CreateIdentity(c) \/ InsertUser(c)
    \/ UpdateUserClaims(c) \/ GetPasswordResetToken(c) \/ SendNotification(c)
    \/ DeleteIdentity(c) \/ Respond(c)

CreationNext ==
    \/ \E c \in Call : Arrive(c) \/ Handle(c) \/ CallFails(c) \/ Crash(c)
    \/ \E m \in Maker : DeleteManufacturer(m)

CreationSpec == CreationInit /\ [][CreationNext]_creationVars
-----------------------------------------------------------------------------

(* An account that can be used: it has a row, an identity with claims, and *)
(* an activation link on its way.                                          *)
Complete(c) == c \in users /\ c \in claims /\ c \in links

(* A call that answered 200 made an account that can be used, and no other *)
(* call, retry or compensation has taken it away since.                    *)
OkIsComplete == \A c \in Call : answer[c] = "200" => Complete(c)

(* However often and with whatever overlap an address is submitted, at most*)
(* one call ever reports success for it.                                   *)
OneAccountPerEmail ==
    \A c, d \in Call :
        answer[c] = "200" /\ answer[d] = "200" /\ EmailOf[c] = EmailOf[d] => c = d

(* A call that answered with an error leaves no identity, which would      *)
(* refuse the address for ever: except when the deletion itself fails or   *)
(* the acknowledgement of the creation is lost, for CreateUser is outside  *)
(* the inner try block.                                                    *)
NothingLeftBehind ==
    "undo" \notin Failing /\ "create" \notin LosingAck =>
        \A c \in identities : step[c] = "answered" => answer[c] = "200"

(* Unless the queue accepts a task and still reports an error, every       *)
(* activation link that is mailed leads to an account that can be used.    *)
LinksWork ==
    "queue" \notin LosingAck => \A c \in links : Complete(c)
=============================================================================
