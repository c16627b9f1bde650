--------------------------- MODULE ScannerStartup ---------------------------
(***************************************************************************)
(* How a container of the scanner starts.  bootstrap.sh starts the proxy,  *)
(* waits for it, downloads the virus definitions through it and then runs  *)
(* the service.  Proxy and service each verify the configuration, one      *)
(* bucket at a time, while access to the buckets may be granted or         *)
(* withdrawn; the service waits for ClamAV before it listens.              *)
(*                                                                         *)
(* The container is gone when bootstrap.sh or the service exits.           *)
(***************************************************************************)
EXTENDS ScannerConfig, FiniteSets

CONSTANTS Configs,       \* what config.json may hold
          ProxyAttempts, \* PROXY_CHECK_ATTEMPTS
          ClamdAttempts, \* 10 seconds each: timeoutMins in waitForClamD
          Failing        \* TRUE: calls to services of the platform may fail

ASSUME StartupAssumption ==
    /\ \A config \in Configs :
        config.buckets \in Seq(Entry) /\ config.ClamCvdMirrorBucket \in Bucket \cup {Missing}
    /\ ProxyAttempts \in Nat \ {0} /\ ClamdAttempts \in Nat
    /\ Failing \in BOOLEAN

VARIABLES config,    \* the configuration file
          readable,  \* buckets whose files the service account may list
          withdrawn, \* access to some bucket was withdrawn
          boot,      \* what bootstrap.sh does next
          attempts,  \* of bootstrap.sh to reach the proxy
          heard,     \* the proxy has answered one of them
          stage,     \* where the proxy and the service are
          at,        \* the bucket that each of them verifies next
          success,   \* the result of their verification so far
          clamd,     \* ClamAV answers
          waited,    \* attempts of the service to reach ClamAV
          reason     \* why the container is gone

files == <<config, readable, withdrawn>>
vars == <<files, boot, attempts, heard, stage, at, success, clamd, waited, reason>>

Process == {"proxy", "server"}

TypeOK ==
    /\ config \in Configs /\ readable \subseteq Bucket /\ withdrawn \in BOOLEAN
    /\ boot \in {"mirror", "wait", "freshclam", "server", "exited"}
    /\ attempts \in 0..ProxyAttempts /\ heard \in BOOLEAN
    /\ stage \in [Process -> {"off", "metrics", "verify", "token", "clamd", "up", "down"}]
    /\ at \in [Process -> Nat]
    /\ success \in [Process -> BOOLEAN]
    /\ clamd \in BOOLEAN /\ waited \in 0..ClamdAttempts
    /\ reason \in {"none", "mirror", "proxy", "freshclam", "metrics", "config", "clamd"}

Init ==
    /\ config \in Configs /\ readable \in SUBSET Bucket /\ withdrawn = FALSE
    /\ boot = "mirror"
    /\ attempts = 0 /\ heard = FALSE
    /\ stage = [s \in Process |-> "off"]
    /\ at = [s \in Process |-> 1]
    /\ success = [s \in Process |-> TRUE]
    /\ clamd = FALSE /\ waited = 0
    /\ reason = "none"
-----------------------------------------------------------------------------

Running == boot # "exited"

Exit(why) == boot' = "exited" /\ reason' = why /\ UNCHANGED stage

Enter(s, what) == stage' = [stage EXCEPT ![s] = what] /\ UNCHANGED <<boot, reason>>

CheckMirror ==
    /\ boot = "mirror"
    /\ \/ /\ checkBucketExists(config.ClamCvdMirrorBucket, readable)
          /\ boot' = "wait"
          /\ stage' = [stage EXCEPT !["proxy"] = "verify"]
          /\ UNCHANGED reason
       \/ /\ ~checkBucketExists(config.ClamCvdMirrorBucket, readable)
          /\ Exit("mirror")
    /\ UNCHANGED <<files, attempts, heard, at, success, clamd, waited>>

(* One turn of the loop.  An answer at the last attempt leaves it with the *)
(* same number of attempts as none.                                        *)
WaitForProxy ==
    /\ boot = "wait"
    /\ attempts' = attempts + 1
    /\ heard' = (stage["proxy"] = "up")
    /\ \/ attempts' = ProxyAttempts /\ Exit("proxy")
       \/ /\ attempts' < ProxyAttempts
          /\ boot' = IF heard' THEN "freshclam" ELSE "wait"
          /\ UNCHANGED <<reason, stage>>
    /\ UNCHANGED <<files, at, success, clamd, waited>>

(* It needs the proxy; any error ends the script (trap ERR).               *)
freshclam ==
    /\ boot = "freshclam"
    /\ \/ /\ stage["proxy"] = "up"
          /\ boot' = "server"
          /\ stage' = [stage EXCEPT !["server"] = "metrics"]
          /\ UNCHANGED reason
       \/ /\ Failing \/ stage["proxy"] # "up"
          /\ Exit("freshclam")
    /\ UNCHANGED <<files, attempts, heard, at, success, clamd, waited>>

-----------------------------------------------------------------------------

Types == <<"unscanned", "clean", "quarantined">>

Entries == config.buckets
Last == 3 * Len(Entries) + 1

BucketAt(n) ==
    IF n = Last THEN config.ClamCvdMirrorBucket
    ELSE Entries[((n - 1) \div 3) + 1][Types[((n - 1) % 3) + 1]]

\* Mutant: only the last bucket counts.
CheckNextOnly(s) ==
    /\ Running /\ stage[s] = "verify"
    /\ Entries # <<>> /\ at[s] <= Last
    /\ success' = [success EXCEPT ![s] = checkBucketExists(BucketAt(at[s]), readable)]
    /\ at' = [at EXCEPT ![s] = @ + 1]
    /\ UNCHANGED <<files, boot, attempts, heard, stage, clamd, waited, reason>>

(* readAndVerifyConfig awaits one bucket after the other, also after one   *)
(* that fails, and compares the names of an entry behind its third.        *)
CheckNext(s) ==
    /\ Running /\ stage[s] = "verify"
    /\ Entries # <<>> /\ at[s] <= Last
    /\ success' = [success EXCEPT ![s] =
            /\ @
            /\ checkBucketExists(BucketAt(at[s]), readable)
            /\ at[s] % 3 = 0 => NamesUnique(Entries[at[s] \div 3])]
    /\ at' = [at EXCEPT ![s] = @ + 1]
    /\ UNCHANGED <<files, boot, attempts, heard, stage, clamd, waited, reason>>

\* Mutant: the verification is not awaited.
IsGoodSoFar(s) == Entries # <<>> /\ success[s]

IsVerified(s) == Entries # <<>> /\ at[s] > Last /\ success[s]
IsInvalid(s) == Entries = <<>> \/ (at[s] > Last /\ ~success[s])

(* The proxy fetches its first token, and listens; where it cannot it is   *)
(* gone, and bootstrap.sh does not hear of that.                           *)
RunProxy ==
    /\ Running
    /\ \/ stage["proxy"] = "verify" /\ IsVerified("proxy") /\ Enter("proxy", "token")
       \/ stage["proxy"] = "verify" /\ IsInvalid("proxy") /\ Enter("proxy", "down")
       \/ stage["proxy"] = "token" /\ Enter("proxy", "up")
       \/ stage["proxy"] \in {"token", "up"} /\ Failing /\ Enter("proxy", "down")
    /\ UNCHANGED <<files, attempts, heard, at, success, clamd, waited>>

(* run() of the service.                                                   *)
initMetrics ==
    /\ Running /\ stage["server"] = "metrics"
    /\ \/ Enter("server", "verify")
       \/ Failing /\ Exit("metrics")
    /\ UNCHANGED <<files, attempts, heard, at, success, clamd, waited>>

ConfigVerified ==
    /\ Running /\ stage["server"] = "verify"
    /\ \/ IsVerified("server") /\ Enter("server", "clamd")
       \/ IsInvalid("server") /\ Exit("config")
    /\ UNCHANGED <<files, attempts, heard, at, success, clamd, waited>>

\* Mutant: ClamAV is waited for without an end.
waitForEver ==
    /\ Running /\ stage["server"] = "clamd"
    /\ clamd /\ Enter("server", "up")
    /\ UNCHANGED <<files, attempts, heard, at, success, clamd, waited>>

(* One turn of the loop: a call that fails is repeated after ten seconds.  *)
waitForClamD ==
    /\ Running /\ stage["server"] = "clamd"
    /\ \/ /\ waited < ClamdAttempts
          /\ clamd /\ Enter("server", "up")
          /\ UNCHANGED waited
       \/ /\ waited < ClamdAttempts
          /\ waited' = waited + 1
          /\ UNCHANGED <<boot, reason, stage>>
       \/ waited = ClamdAttempts /\ Exit("clamd") /\ UNCHANGED waited
    /\ UNCHANGED <<files, attempts, heard, at, success, clamd>>

-----------------------------------------------------------------------------

ClamdStarts ==
    /\ Running /\ boot = "server" /\ ~clamd
    /\ clamd' = TRUE
    /\ UNCHANGED <<files, boot, attempts, heard, stage, at, success, waited, reason>>

(* Access to a bucket is granted only now.                                 *)
Grant(b) ==
    /\ Running /\ b \notin readable
    /\ readable' = readable \cup {b}
    /\ UNCHANGED <<config, withdrawn, boot, attempts, heard, stage, at, success, clamd, waited, reason>>

Revoke(b) ==
    /\ Running /\ b \in readable
    /\ readable' = readable \ {b} /\ withdrawn' = TRUE
    /\ UNCHANGED <<config, boot, attempts, heard, stage, at, success, clamd, waited, reason>>

Bootstrap == CheckMirror \/ WaitForProxy \/ freshclam
Service == CheckNext("server") \/ initMetrics \/ ConfigVerified \/ waitForClamD
Proxy == CheckNext("proxy") \/ RunProxy

Next == Bootstrap \/ Service \/ Proxy \/ ClamdStarts \/ \E b \in Bucket : Grant(b) \/ Revoke(b)

Spec == Init /\ [][Next]_vars

(* Commands and calls come to an end.                                      *)
FairSpec == Spec /\ WF_vars(Bootstrap) /\ WF_vars(Service) /\ WF_vars(Proxy)
-----------------------------------------------------------------------------

Listens == Running /\ stage["server"] = "up"

(* Whatever happens to the proxy, to ClamAV and to its rights meanwhile, a *)
(* service that listens can read every bucket that it serves, never moves  *)
(* a document to where it is or both verdicts to one place, has definitions*)
(* that came through the proxy, and a ClamAV that has answered.            *)
ListeningIsReady ==
    Listens =>
        /\ ~withdrawn => Verified(config, readable)
        /\ \A x \in DOMAIN Entries : Cardinality({Entries[x][t] : t \in BucketType}) = 3
        /\ heard /\ clamd

(* The service, started after the proxy, never refuses the configuration   *)
(* that the proxy has accepted, as long as no access is withdrawn.         *)
AcceptedTwice == ~withdrawn => reason # "config"

(* No container waits for ever: it listens in the end or is gone.          *)
ListensOrExits == <>(Listens \/ ~Running)

(* bootstrap.sh (98) says that the "Proxy server did not start" when it    *)
(* gives up.  It also gives up when the last attempt has an answer.        *)
GivesUpWithoutProxy == reason = "proxy" => ~heard
=============================================================================
