------------------------ MODULE ScannerStartupProofs ------------------------
(***************************************************************************)
(* Proofs about ScannerStartup, for any configurations, numbers of attempts*)
(* and changes of the rights.  The service starts only when the proxy has  *)
(* answered, and the proxy answers only when it has accepted the           *)
(* configuration: Accepted is what its loop over the buckets establishes,  *)
(* one bucket at a time (CheckedAt), and what stays true of it.            *)
(***************************************************************************)
EXTENDS ScannerStartup, FiniteSetTheorems, TLAPS

NamesDiffer == \A x \in DOMAIN Entries : NamesUnique(Entries[x])

(* What a successful verification has found out; rights that nobody has    *)
(* withdrawn are still there.                                              *)
Accepted ==
    /\ Entries # <<>>
    /\ NamesDiffer
    /\ ~withdrawn => Verified(config, readable)

(* How far the loop of a process has come, when nothing was wrong so far.  *)
CheckedAt(s) ==
    /\ at[s] \in 1..(Last + 1)
    /\ success[s] => \A x \in DOMAIN Entries : 3 * x < at[s] => NamesUnique(Entries[x])
    /\ success[s] /\ ~withdrawn => \A n \in 1..(at[s] - 1) : BucketAt(n) \in readable

(* bootstrap.sh, the proxy and the service, in the order they depend on    *)
(* each other.                                                             *)
OrderInv ==
    /\ boot = "mirror" => stage["proxy"] = "off" /\ attempts = 0
    /\ boot = "wait" => attempts < ProxyAttempts
    /\ boot \in {"mirror", "wait"} => ~heard
    /\ boot \in {"freshclam", "server"} => heard
    /\ boot # "exited" => (boot = "server" <=> stage["server"] # "off")
    /\ stage["server"] # "off" => heard
    /\ stage["server"] = "up" => clamd

(* Who relies on the configuration has it from a verification; the service *)
(* finds nothing wrong that the proxy did not find.                        *)
TrustInv ==
    /\ stage["proxy"] \in {"token", "up"} \/ heard => Accepted
    /\ ~withdrawn => success["server"]
    /\ reason = "config" => withdrawn

StartupInv == TypeOK /\ (\A s \in Process : CheckedAt(s)) /\ OrderInv /\ TrustInv
-----------------------------------------------------------------------------
(* The numbering of the buckets: three for each entry, then the mirror.    *)

LEMMA SomeConfig ==
    ASSUME TypeOK
    PROVE  /\ Entries \in Seq(Entry)
           /\ Len(Entries) \in Nat /\ Last \in Nat
           /\ DOMAIN Entries = 1..Len(Entries)
<1>1. Entries \in Seq(Entry)
    BY StartupAssumption DEF TypeOK, Entries
<1>2. Len(Entries) \in Nat /\ DOMAIN Entries = 1..Len(Entries)
    BY <1>1
<1>3. QED
    BY <1>1, <1>2 DEF Last

LEMMA NumberOf ==
    ASSUME NEW x \in Nat \ {0}, NEW k \in 1..3
    PROVE  /\ ((3 * (x - 1) + k - 1) \div 3) + 1 = x
           /\ ((3 * (x - 1) + k - 1) % 3) + 1 = k
OBVIOUS

(* Whoever has seen all numbers has seen all buckets.                      *)
LEMMA AllBuckets ==
    ASSUME TypeOK, \A n \in 1..Last : BucketAt(n) \in readable
    PROVE  /\ \A x \in DOMAIN Entries, t \in BucketType : Entries[x][t] \in readable
           /\ config.ClamCvdMirrorBucket \in readable
<1>1. ASSUME NEW x \in DOMAIN Entries, NEW k \in 1..3
      PROVE  Entries[x][Types[k]] \in readable
    <2> DEFINE n == 3 * (x - 1) + k
    <2>1. x \in Nat \ {0} /\ x <= Len(Entries) /\ Len(Entries) \in Nat
        BY SomeConfig
    <2>2. n \in 1..Last /\ n # Last
        BY <2>1 DEF Last
    <2>3. ((n - 1) \div 3) + 1 = x /\ ((n - 1) % 3) + 1 = k
        BY <2>1, NumberOf
    <2> HIDE DEF n
    <2>4. BucketAt(n) = Entries[x][Types[k]]
        BY <2>2, <2>3 DEF BucketAt
    <2>5. QED
        BY <2>2, <2>4
<1>2. \A t \in BucketType : \E k \in 1..3 : t = Types[k]
    BY DEF BucketType, Types
<1>3. Last \in 1..Last /\ BucketAt(Last) = config.ClamCvdMirrorBucket
    BY SomeConfig DEF BucketAt, Last
<1>4. QED
    BY <1>1, <1>2, <1>3

(* The end of a loop that has found nothing wrong.                         *)
LEMMA LoopVerifies ==
    ASSUME StartupInv, NEW s \in Process, IsVerified(s)
    PROVE  Accepted
<1>1. Last \in Nat /\ at[s] = Last + 1 /\ success[s]
    BY SomeConfig DEF StartupInv, CheckedAt, IsVerified
<1>2. NamesDiffer
    <2>1. \A x \in DOMAIN Entries : 3 * x < at[s]
        BY <1>1, SomeConfig DEF StartupInv, Last
    <2>2. QED
        BY <1>1, <2>1 DEF StartupInv, CheckedAt, NamesDiffer
<1>3. ASSUME ~withdrawn PROVE Verified(config, readable)
    <2>1. \A n \in 1..Last : BucketAt(n) \in readable
        BY <1>1, <1>3 DEF StartupInv, CheckedAt
    <2>2. QED
        BY <1>2, <2>1, AllBuckets
        DEF StartupInv, IsVerified, Verified, checkBucketExists, NamesDiffer, Entries
<1>4. QED
    BY <1>2, <1>3 DEF IsVerified, Accepted

-----------------------------------------------------------------------------
(* What a step may change of the configuration and the rights.             *)

(* Nothing that a verification reads or writes.                            *)
LEMMA LoopsRest ==
    ASSUME UNCHANGED <<config, readable, withdrawn, at, success>>
    PROVE  /\ \A s \in Process : CheckedAt(s)' = CheckedAt(s)
           /\ Accepted' = Accepted
BY DEF CheckedAt, Accepted, NamesDiffer, Verified, BucketAt, Last, Entries

(* Rights change below the loops and behind them.                          *)
LEMMA RightsChange ==
    ASSUME StartupInv, UNCHANGED <<config, at, success>>,
           withdrawn' \/ (~withdrawn' /\ ~withdrawn /\ readable \subseteq readable')
    PROVE  /\ \A s \in Process : CheckedAt(s)'
           /\ Accepted => Accepted'
<1>1. \A s \in Process : CheckedAt(s)'
    BY DEF StartupInv, CheckedAt, BucketAt, Last, Entries
<1>2. ASSUME Accepted PROVE Accepted'
    BY <1>2 DEF Accepted, NamesDiffer, Verified, checkBucketExists, Entries
<1>3. QED
    BY <1>1, <1>2

(* One turn of the loop.                                                   *)
LEMMA TurnOfLoop ==
    ASSUME StartupInv, NEW s \in Process, CheckNext(s)
    PROVE  CheckedAt(s)'
<1> USE DEF StartupInv, TypeOK
<1>1. /\ UNCHANGED <<config, readable, withdrawn>>
      /\ at[s] <= Last /\ at'[s] = at[s] + 1
      /\ at[s] \in 1..(Last + 1) /\ Last \in Nat
    BY SomeConfig DEF CheckNext, CheckedAt, files
<1>2. success'[s] =
        (/\ success[s]
         /\ checkBucketExists(BucketAt(at[s]), readable)
         /\ at[s] % 3 = 0 => NamesUnique(Entries[at[s] \div 3]))
    BY DEF CheckNext
<1>3. Last' = Last /\ Entries' = Entries /\ \A n : BucketAt(n)' = BucketAt(n)
    BY <1>1 DEF Last, Entries, BucketAt
<1>4. at'[s] \in 1..(Last' + 1)
    BY <1>1, <1>3
<1>5. ASSUME success'[s], NEW x \in DOMAIN Entries, 3 * x < at'[s]
      PROVE  NamesUnique(Entries[x])
    <2>1. x \in Nat
        BY SomeConfig
    <2>2. CASE 3 * x < at[s]
        BY <1>2, <1>5, <2>2 DEF CheckedAt
    <2>3. CASE 3 * x = at[s]
        <3>1. at[s] % 3 = 0 /\ at[s] \div 3 = x
            BY <2>1, <2>3
        <3>2. QED
            BY <1>2, <1>5, <3>1
    <2>4. QED
        BY <1>1, <1>5, <2>1, <2>2, <2>3
<1>6. ASSUME success'[s], ~withdrawn, NEW n \in 1..(at'[s] - 1)
      PROVE  BucketAt(n) \in readable
    <2>1. CASE n = at[s]
        BY <1>2, <1>6, <2>1 DEF checkBucketExists
    <2>2. CASE n # at[s]
        <3>1. n \in 1..(at[s] - 1)
            BY <1>1, <2>2
        <3>2. success[s]
            BY <1>2, <1>6
        <3>3. QED
            BY <1>6, <3>1, <3>2 DEF CheckedAt
    <2>3. QED
        BY <2>1, <2>2
<1>7. QED
    BY <1>1, <1>3, <1>4, <1>5, <1>6 DEF CheckedAt

(* What was accepted passes each turn.                                     *)
LEMMA AcceptedPasses ==
    ASSUME StartupInv, Accepted, ~withdrawn, NEW s \in Process, at[s] <= Last
    PROVE  /\ BucketAt(at[s]) \in readable
           /\ at[s] % 3 = 0 => NamesUnique(Entries[at[s] \div 3])
<1> DEFINE n == at[s]
<1>1. /\ n \in 1..Last /\ Len(Entries) \in Nat
      /\ Last = 3 * Len(Entries) + 1 /\ DOMAIN Entries = 1..Len(Entries)
    BY SomeConfig DEF StartupInv, CheckedAt, Last
<1> HIDE DEF n
<1>2. n # Last => ((n - 1) \div 3) + 1 \in DOMAIN Entries
    BY <1>1
<1>3. ((n - 1) % 3) + 1 \in 1..3 /\ \A k \in 1..3 : Types[k] \in BucketType
    BY <1>1 DEF Types, BucketType
<1>4. BucketAt(n) \in readable
    BY <1>1, <1>2, <1>3 DEF Accepted, Verified, checkBucketExists, BucketAt, Entries
<1>5. n % 3 = 0 => n \div 3 \in DOMAIN Entries
    BY <1>1
<1>6. n % 3 = 0 => NamesUnique(Entries[n \div 3])
    BY <1>5 DEF Accepted, NamesDiffer
<1>7. QED
    BY <1>4, <1>6 DEF n
-----------------------------------------------------------------------------
(* The invariant.                                                          *)

LEMMA StartupTyped ==
    ASSUME StartupInv, [Next]_vars
    PROVE  TypeOK'
<1> USE StartupAssumption DEF StartupInv, TypeOK, OrderInv, Process
<1>1. CASE CheckMirror \/ WaitForProxy \/ freshclam
    <2>1. CASE CheckMirror
        BY <2>1 DEF CheckMirror, Exit, files
    <2>2. CASE WaitForProxy
        <3>1. attempts + 1 \in 0..ProxyAttempts
            BY <2>2 DEF WaitForProxy
        <3>2. QED
            BY <2>2, <3>1 DEF WaitForProxy, Exit, files
    <2>3. CASE freshclam
        BY <2>3 DEF freshclam, Exit, files
    <2>4. QED
        BY <1>1, <2>1, <2>2, <2>3
<1>2. ASSUME NEW s \in Process, CheckNext(s) PROVE TypeOK'
    BY <1>2 DEF CheckNext, files
<1>3. CASE RunProxy \/ initMetrics \/ ConfigVerified
    BY <1>3 DEF RunProxy, initMetrics, ConfigVerified, Enter, Exit, files
<1>4. CASE waitForClamD
    BY <1>4 DEF waitForClamD, Enter, Exit, files
<1>5. CASE ClamdStarts
    BY <1>5 DEF ClamdStarts, files
<1>6. ASSUME NEW b \in Bucket, Grant(b) \/ Revoke(b) PROVE TypeOK'
    BY <1>6 DEF Grant, Revoke
<1>7. CASE UNCHANGED vars
    BY <1>7 DEF vars, files
<1>8. QED
    BY <1>1, <1>2, <1>3, <1>4, <1>5, <1>6, <1>7 DEF Next, Bootstrap, Service, Proxy

LEMMA StartupOrder ==
    ASSUME StartupInv, [Next]_vars
    PROVE  OrderInv'
<1> USE StartupAssumption DEF StartupInv, TypeOK, OrderInv, Process
<1>1. CASE CheckMirror
    BY <1>1 DEF CheckMirror, Exit, files
<1>2. CASE WaitForProxy
    BY <1>2 DEF WaitForProxy, Exit, files
<1>3. CASE freshclam
    BY <1>3 DEF freshclam, Exit, files
<1>4. ASSUME NEW s \in Process, CheckNext(s) PROVE OrderInv'
    BY <1>4 DEF CheckNext, files
<1>5. CASE RunProxy
    BY <1>5 DEF RunProxy, Enter, files, Running
<1>6. CASE initMetrics \/ ConfigVerified
    BY <1>6 DEF initMetrics, ConfigVerified, Enter, Exit, files, Running
<1>7. CASE waitForClamD
    BY <1>7 DEF waitForClamD, Enter, Exit, files, Running
<1>8. CASE ClamdStarts
    BY <1>8 DEF ClamdStarts, files
<1>9. ASSUME NEW b \in Bucket, Grant(b) \/ Revoke(b) PROVE OrderInv'
    BY <1>9 DEF Grant, Revoke
<1>10. CASE UNCHANGED vars
    BY <1>10 DEF vars, files
<1>11. QED
    BY <1>1, <1>2, <1>3, <1>4, <1>5, <1>6, <1>7, <1>8, <1>9, <1>10
    DEF Next, Bootstrap, Service, Proxy

LEMMA StartupStep ==
    ASSUME StartupInv, [Next]_vars
    PROVE  StartupInv'
<1> DEFINE Loops == \A s \in Process : CheckedAt(s)
<1>1. TypeOK' /\ OrderInv'
    BY StartupTyped, StartupOrder
<1>2. SUFFICES Loops' /\ TrustInv'
    BY <1>1 DEF StartupInv
<1>3. ASSUME UNCHANGED <<config, readable, withdrawn, at, success>>
      PROVE  Loops' /\ Accepted' = Accepted
    BY <1>3, LoopsRest DEF StartupInv
<1> USE DEF TrustInv
<1>4. CASE CheckMirror \/ WaitForProxy \/ freshclam
    <2>1. UNCHANGED <<config, readable, withdrawn, at, success>>
        BY <1>4 DEF CheckMirror, WaitForProxy, freshclam, files
    <2>2. TrustInv'
        BY <1>3, <1>4, <2>1
        DEF StartupInv, OrderInv, TypeOK, Process, CheckMirror, WaitForProxy, freshclam, Exit
    <2>3. QED
        BY <1>3, <2>1, <2>2
<1>5. ASSUME NEW s \in Process, CheckNext(s) PROVE Loops' /\ TrustInv'
    <2>1. /\ UNCHANGED <<config, readable, withdrawn, stage, heard, reason>>
          /\ at[s] <= Last
        BY <1>5 DEF CheckNext, files
    <2>2. Accepted' = Accepted
        BY <2>1 DEF Accepted, NamesDiffer, Verified, Entries
    <2>3. \A t \in Process \ {s} : CheckedAt(t)'
        <3>1. \A t \in Process \ {s} : at'[t] = at[t] /\ success'[t] = success[t]
            BY <1>5 DEF CheckNext, StartupInv, TypeOK
        <3>2. QED
            BY <2>1, <3>1 DEF StartupInv, CheckedAt, BucketAt, Last, Entries
    <2>4. CheckedAt(s)'
        BY <1>5, TurnOfLoop
    <2>5. ~withdrawn => success'["server"]
        <3>1. CASE s = "proxy"
            BY <1>5, <3>1 DEF CheckNext, StartupInv, TypeOK, Process
        <3>2. CASE s = "server" /\ ~withdrawn
            <4>1. heard /\ Accepted
                BY <1>5, <3>2 DEF CheckNext, StartupInv, OrderInv
            <4>2. /\ BucketAt(at[s]) \in readable
                  /\ at[s] % 3 = 0 => NamesUnique(Entries[at[s] \div 3])
                BY <2>1, <3>2, <4>1, AcceptedPasses
            <4>3. success[s]
                BY <3>2 DEF StartupInv
            <4>4. QED
                BY <1>5, <3>2, <4>2, <4>3
                DEF CheckNext, StartupInv, TypeOK, Process, checkBucketExists
        <3>3. QED
            BY <3>1, <3>2 DEF Process
    <2>6. QED
        BY <2>1, <2>2, <2>3, <2>4, <2>5 DEF StartupInv
<1>6. CASE RunProxy
    <2>1. UNCHANGED <<config, readable, withdrawn, at, success, heard, reason>>
        BY <1>6 DEF RunProxy, Enter, files
    <2>2. stage'["proxy"] \in {"token", "up"} => Accepted
        BY <1>6, LoopVerifies DEF RunProxy, Enter, StartupInv, TypeOK, Process
    <2>3. QED
        BY <1>3, <2>1, <2>2 DEF StartupInv
<1>7. CASE initMetrics \/ waitForClamD \/ ClamdStarts
    <2>1. UNCHANGED <<config, readable, withdrawn, at, success, heard>>
        BY <1>7 DEF initMetrics, waitForClamD, ClamdStarts, files
    <2>2. stage'["proxy"] = stage["proxy"] /\ (reason' = "config" => reason = "config")
        BY <1>7 DEF initMetrics, waitForClamD, ClamdStarts, Enter, Exit, StartupInv, TypeOK, Process
    <2>3. QED
        BY <1>3, <2>1, <2>2 DEF StartupInv
<1>8. CASE ConfigVerified
    <2>1. UNCHANGED <<config, readable, withdrawn, at, success, heard>>
        BY <1>8 DEF ConfigVerified, files
    <2>2. stage'["proxy"] = stage["proxy"]
        BY <1>8 DEF ConfigVerified, Enter, Exit, StartupInv, TypeOK, Process
    <2>3. reason' = "config" => withdrawn
        <3>1. CASE IsInvalid("server")
            <4>1. heard /\ Accepted
                BY <1>8 DEF ConfigVerified, StartupInv, OrderInv
            <4>2. QED
                BY <3>1, <4>1 DEF IsInvalid, Accepted, StartupInv
        <3>2. CASE ~IsInvalid("server")
            BY <1>8, <3>2 DEF ConfigVerified, Enter, StartupInv
        <3>3. QED
            BY <3>1, <3>2
    <2>4. QED
        BY <1>3, <2>1, <2>2, <2>3 DEF StartupInv
<1>9. ASSUME NEW b \in Bucket, Grant(b) \/ Revoke(b) PROVE Loops' /\ TrustInv'
    <2>1. /\ UNCHANGED <<config, at, success, heard, stage, reason>>
          /\ withdrawn' \/ (~withdrawn' /\ ~withdrawn /\ readable \subseteq readable')
          /\ withdrawn => withdrawn'
        BY <1>9 DEF Grant, Revoke, StartupInv, TypeOK
    <2>2. QED
        BY <2>1, RightsChange DEF StartupInv
<1>10. CASE UNCHANGED vars
    BY <1>3, <1>10 DEF vars, files, StartupInv
<1>11. QED
    BY <1>4, <1>5, <1>6, <1>7, <1>8, <1>9, <1>10 DEF Next, Bootstrap, Service, Proxy, Process

LEMMA StartupInvariant == Spec => []StartupInv
<1>1. Init => StartupInv
    <2>1. ASSUME Init PROVE TypeOK /\ OrderInv /\ TrustInv
        <3>1. TypeOK
            <4>1. withdrawn \in BOOLEAN /\ heard \in BOOLEAN /\ clamd \in BOOLEAN
                BY <2>1 DEF Init
            <4>2. success \in [Process -> BOOLEAN]
                BY <2>1 DEF Init
            <4>3. attempts \in 0..ProxyAttempts /\ waited \in 0..ClamdAttempts
                BY <2>1, StartupAssumption DEF Init
            <4>4. /\ stage \in [Process -> {"off", "metrics", "verify", "token", "clamd", "up", "down"}]
                  /\ at \in [Process -> Nat]
                BY <2>1 DEF Init
            <4>5. QED
                BY <2>1, <4>1, <4>2, <4>3, <4>4 DEF Init, TypeOK
        <3>2. OrderInv /\ TrustInv
            BY <2>1, StartupAssumption DEF Init, OrderInv, TrustInv, Process
        <3>3. QED
            BY <3>1, <3>2
    <2>2. ASSUME Init, NEW s \in Process PROVE CheckedAt(s)
        <3>1. Last \in Nat /\ DOMAIN Entries = 1..Len(Entries) /\ at[s] = 1
            BY <2>1, <2>2, SomeConfig DEF Init
        <3>2. QED
            BY <3>1 DEF CheckedAt
    <2>3. QED
        BY <2>1, <2>2 DEF StartupInv
<1>2. StartupInv /\ [Next]_vars => StartupInv'
    BY StartupStep
<1>3. QED
    BY <1>1, <1>2, PTL DEF Spec

(* The state of a start is what it is meant to be.                         *)
THEOREM StartupTypeCorrect == Spec => []TypeOK
<1>1. StartupInv => TypeOK
    BY DEF StartupInv
<1>2. QED
    BY <1>1, StartupInvariant, PTL

(* The three buckets of an entry that was accepted are three.              *)
LEMMA ThreePlaces ==
    ASSUME NEW entry \in Entry, NamesUnique(entry)
    PROVE  Cardinality({entry[t] : t \in BucketType}) = 3
<1> DEFINE one == {entry.unscanned}
           two == one \cup {entry.clean}
           three == two \cup {entry.quarantined}
<1>1. IsFiniteSet(one) /\ Cardinality(one) = 1
    BY FS_Singleton
<1>2. IsFiniteSet(two) /\ Cardinality(two) = 2
    <2>1. entry.clean \notin one
        BY DEF NamesUnique, BucketType
    <2> HIDE DEF one
    <2>2. QED
        BY <1>1, <2>1, FS_AddElement
<1>3. Cardinality(three) = 3
    <2>1. entry.quarantined \notin two
        BY DEF NamesUnique, BucketType
    <2> HIDE DEF two
    <2>2. QED
        BY <1>2, <2>1, FS_AddElement
<1>4. {entry[t] : t \in BucketType} = three
    BY DEF BucketType
<1>5. QED
    BY <1>3, <1>4

(* A service that listens can read every bucket it serves, as long as no   *)
(* right was withdrawn; it never moves documents in a circle within an     *)
(* entry; its definitions came through a proxy that had answered, and      *)
(* ClamAV is there.                                                        *)
THEOREM WhatListensIsReady == Spec => []ListeningIsReady
<1>1. StartupInv => ListeningIsReady
    <2>1. ASSUME StartupInv, Listens PROVE heard /\ clamd /\ Accepted
        BY <2>1 DEF StartupInv, OrderInv, TrustInv, Listens
    <2>2. ASSUME StartupInv, Accepted, NEW x \in DOMAIN Entries
          PROVE  Cardinality({Entries[x][t] : t \in BucketType}) = 3
        <3>1. Entries[x] \in Entry
            BY <2>2, SomeConfig DEF StartupInv
        <3>2. QED
            BY <2>2, <3>1, ThreePlaces DEF Accepted, NamesDiffer
    <2>3. QED
        BY <2>1, <2>2 DEF ListeningIsReady, Accepted
<1>2. QED
    BY <1>1, StartupInvariant, PTL

(* Proxy and service verify the same file at different times: the second   *)
(* refuses it only when a right was withdrawn.                             *)
THEOREM ServiceAgreesWithProxy == Spec => []AcceptedTwice
<1>1. StartupInv => AcceptedTwice
    BY DEF StartupInv, TrustInv, AcceptedTwice
<1>2. QED
    BY <1>1, StartupInvariant, PTL
-----------------------------------------------------------------------------
(* The length of a start.  Ahead counts, from above, the steps that        *)
(* bootstrap.sh, the proxy and the service can still take: each of the     *)
(* loops has an end and no stage is entered twice.                         *)

Script == [mirror |-> 4, wait |-> 3, freshclam |-> 2, server |-> 1, exited |-> 0]

Stages == [off |-> 6, metrics |-> 5, verify |-> 4, token |-> 3, clamd |-> 2, up |-> 1, down |-> 0]

AheadOf(s) == Stages[stage[s]] + (Last + 1 - at[s])

Ahead ==
    Script[boot] + (ProxyAttempts - attempts) + (ClamdAttempts - waited)
        + AheadOf("proxy") + AheadOf("server")

(* Its parts are numbers, so that a step may be looked at part by part.    *)
AheadIsTyped ==
    /\ Script[boot] \in Nat
    /\ ProxyAttempts - attempts \in Nat /\ ClamdAttempts - waited \in Nat
    /\ \A s \in Process :
          /\ Stages[stage[s]] \in Nat /\ Last + 1 - at[s] \in Nat
          /\ AheadOf(s) \in Nat

LEMMA AheadHasType == StartupInv => AheadIsTyped
<1> SUFFICES ASSUME StartupInv PROVE AheadIsTyped
    OBVIOUS
<1>1. Script[boot] \in Nat
    BY DEF StartupInv, TypeOK, Script
<1>2. ProxyAttempts - attempts \in Nat /\ ClamdAttempts - waited \in Nat
    BY StartupAssumption DEF StartupInv, TypeOK
<1>3. ASSUME NEW s \in Process
      PROVE  Stages[stage[s]] \in Nat /\ Last + 1 - at[s] \in Nat
    <2>1. stage[s] \in {"off", "metrics", "verify", "token", "clamd", "up", "down"}
        BY DEF StartupInv, TypeOK
    <2>2. Last \in Nat /\ at[s] \in 1..(Last + 1)
        BY SomeConfig DEF StartupInv, CheckedAt
    <2>3. QED
        BY <2>1, <2>2 DEF Stages
<1>4. QED
    BY <1>1, <1>2, <1>3 DEF AheadIsTyped, AheadOf

(* A step that lowers some parts and raises none lowers the sum.           *)
LEMMA PartsAddUp ==
    ASSUME StartupInv, StartupInv',
           Script[boot'] <= Script[boot], attempts' >= attempts, waited' >= waited,
           \A s \in Process : AheadOf(s)' <= AheadOf(s)
    PROVE  /\ Ahead' <= Ahead
           /\ \/ Script[boot'] < Script[boot] \/ attempts' > attempts \/ waited' > waited
              \/ \E s \in Process : AheadOf(s)' < AheadOf(s)
              => Ahead' < Ahead
<1> DEFINE a == AheadOf("proxy")
           b == AheadOf("server")
<1>1. /\ a \in Nat /\ b \in Nat /\ Script[boot] \in Nat
      /\ a' \in Nat /\ b' \in Nat /\ Script[boot'] \in Nat
    <2>1. AheadIsTyped /\ AheadIsTyped'
        BY AheadHasType, PTL
    <2>2. QED
        BY <2>1 DEF AheadIsTyped, Process
<1>2. /\ attempts \in Nat /\ waited \in Nat /\ attempts' \in Nat /\ waited' \in Nat
      /\ ProxyAttempts \in Nat /\ ClamdAttempts \in Nat
    BY StartupAssumption DEF StartupInv, TypeOK
<1>3. /\ Ahead = Script[boot] + (ProxyAttempts - attempts) + (ClamdAttempts - waited) + a + b
      /\ Ahead' = Script[boot'] + (ProxyAttempts - attempts') + (ClamdAttempts - waited') + a' + b'
    BY DEF Ahead
<1>4. a' <= a /\ b' <= b
    BY DEF Process
<1>5. (\E s \in Process : AheadOf(s)' < AheadOf(s)) => a' < a \/ b' < b
    BY DEF Process
<1> HIDE DEF a, b
<1>6. QED
    BY <1>1, <1>2, <1>3, <1>4, <1>5

(* A process that enters a stage behind its own.                           *)
LEMMA NextStage ==
    ASSUME StartupInv, StartupInv', NEW s \in Process, NEW what,
           UNCHANGED <<config, at>>, stage' = [stage EXCEPT ![s] = what],
           Stages[what] < Stages[stage[s]]
    PROVE  /\ AheadOf(s)' < AheadOf(s)
           /\ \A t \in Process : AheadOf(t)' <= AheadOf(t)
<1>1. AheadIsTyped /\ AheadIsTyped'
    BY AheadHasType, PTL
<1>2. Last' = Last
    BY DEF Last, Entries
<1>3. stage'[s] = what /\ \A t \in Process \ {s} : stage'[t] = stage[t]
    BY DEF StartupInv, TypeOK
<1>4. AheadOf(s)' < AheadOf(s)
    BY <1>1, <1>2, <1>3 DEF AheadIsTyped, AheadOf
<1>5. \A t \in Process \ {s} : AheadOf(t)' = AheadOf(t)
    BY <1>2, <1>3 DEF AheadOf
<1>6. QED
    BY <1>1, <1>4, <1>5 DEF AheadIsTyped

LEMMA SameStages ==
    ASSUME StartupInv, UNCHANGED <<config, at, stage>>
    PROVE  \A s \in Process : AheadOf(s)' <= AheadOf(s)
<1>1. AheadIsTyped
    BY AheadHasType
<1>2. \A s \in Process : AheadOf(s)' = AheadOf(s)
    BY DEF AheadOf, Last, Entries
<1>3. QED
    BY <1>1, <1>2 DEF AheadIsTyped

LEMMA StepsCount ==
    ASSUME StartupInv, StartupInv', [Next]_vars
    PROVE  /\ Ahead' <= Ahead
           /\ Bootstrap \/ Service \/ Proxy => Ahead' < Ahead
<1> DEFINE Fewer == Ahead' <= Ahead /\ (Bootstrap \/ Service \/ Proxy => Ahead' < Ahead)
<1> USE DEF Script
<1>0. /\ attempts \in Nat /\ waited \in Nat
      /\ boot \in {"mirror", "wait", "freshclam", "server", "exited"}
      /\ stage["proxy"] \in {"off", "metrics", "verify", "token", "clamd", "up", "down"}
      /\ stage["server"] \in {"off", "metrics", "verify", "token", "clamd", "up", "down"}
    BY StartupAssumption DEF StartupInv, TypeOK, Process
<1>1. CASE CheckMirror
    <2>1. stage["proxy"] = "off"
        BY <1>1 DEF CheckMirror, StartupInv, OrderInv
    <2>2. \A s \in Process : AheadOf(s)' <= AheadOf(s)
        BY <1>1, <2>1, NextStage, SameStages DEF CheckMirror, Exit, files, Process, Stages
    <2>3. QED
        BY <1>0, <1>1, <2>2, PartsAddUp DEF CheckMirror, Exit
<1>2. CASE WaitForProxy
    <2>1. \A s \in Process : AheadOf(s)' <= AheadOf(s)
        BY <1>2, SameStages DEF WaitForProxy, Exit, files
    <2>2. QED
        BY <1>0, <1>2, <2>1, PartsAddUp DEF WaitForProxy, Exit
<1>3. CASE freshclam
    <2>1. stage["server"] = "off"
        BY <1>3 DEF freshclam, StartupInv, OrderInv
    <2>2. \A s \in Process : AheadOf(s)' <= AheadOf(s)
        BY <1>3, <2>1, NextStage, SameStages DEF freshclam, Exit, files, Process, Stages
    <2>3. QED
        BY <1>0, <1>3, <2>2, PartsAddUp DEF freshclam, Exit
<1>4. ASSUME NEW s \in Process, CheckNext(s) PROVE Fewer
    <2>1. UNCHANGED <<config, boot, attempts, waited, stage>>
        BY <1>4 DEF CheckNext, files
    <2>2. Last' = Last /\ Last \in Nat
        BY <2>1, SomeConfig DEF StartupInv, Last, Entries
    <2>3. /\ at'[s] = at[s] + 1 /\ at[s] \in Nat
          /\ \A t \in Process \ {s} : at'[t] = at[t]
        BY <1>4 DEF CheckNext, StartupInv, TypeOK
    <2>4. AheadIsTyped /\ AheadIsTyped'
        BY AheadHasType, PTL
    <2>5. AheadOf(s)' < AheadOf(s)
        BY <2>1, <2>2, <2>3, <2>4 DEF AheadOf, AheadIsTyped
    <2>6. \A t \in Process \ {s} : AheadOf(t)' = AheadOf(t)
        BY <2>1, <2>2, <2>3 DEF AheadOf
    <2>7. \A t \in Process : AheadOf(t)' <= AheadOf(t)
        BY <2>4, <2>5, <2>6 DEF AheadIsTyped
    <2>8. QED
        BY <1>0, <2>1, <2>5, <2>7, PartsAddUp
<1>5. CASE RunProxy
    <2>1. UNCHANGED <<config, at, boot, attempts, waited>>
        BY <1>5 DEF RunProxy, Enter, files
    <2>2. PICK what \in {"token", "up", "down"} :
              /\ stage' = [stage EXCEPT !["proxy"] = what]
              /\ Stages[what] < Stages[stage["proxy"]]
        BY <1>5 DEF RunProxy, Enter, Stages
    <2>3. /\ AheadOf("proxy")' < AheadOf("proxy")
          /\ \A t \in Process : AheadOf(t)' <= AheadOf(t)
        BY <2>1, <2>2, NextStage DEF Process
    <2>4. QED
        BY <1>0, <2>1, <2>3, PartsAddUp DEF Process
<1>6. CASE initMetrics \/ ConfigVerified \/ waitForClamD
    <2>1. CASE \E why : Exit(why)
        <3>1. Running /\ UNCHANGED <<config, at, attempts, waited, stage>>
            BY <1>6, <2>1 DEF initMetrics, ConfigVerified, waitForClamD, Enter, Exit, Running, files
        <3>2. \A s \in Process : AheadOf(s)' <= AheadOf(s)
            BY <3>1, SameStages
        <3>3. QED
            BY <1>0, <2>1, <3>1, <3>2, PartsAddUp DEF Running, Exit
    <2>2. CASE waited' = waited + 1 /\ UNCHANGED stage
        <3>1. UNCHANGED <<config, at, boot, attempts>>
            BY <1>6, <2>2 DEF initMetrics, ConfigVerified, waitForClamD, Enter, Exit, files
        <3>2. \A s \in Process : AheadOf(s)' <= AheadOf(s)
            BY <2>2, <3>1, SameStages
        <3>3. QED
            BY <1>0, <2>2, <3>1, <3>2, PartsAddUp
    <2>3. CASE \E what \in {"verify", "clamd", "up"} :
                  Enter("server", what) /\ Stages[what] < Stages[stage["server"]]
        <3>1. UNCHANGED <<config, at, boot, attempts>> /\ waited' >= waited
            BY <1>0, <1>6, <2>3 DEF initMetrics, ConfigVerified, waitForClamD, Enter, Exit, files
        <3>2. /\ AheadOf("server")' < AheadOf("server")
              /\ \A t \in Process : AheadOf(t)' <= AheadOf(t)
            BY <2>3, <3>1, NextStage DEF Enter, Process
        <3>3. QED
            BY <1>0, <3>1, <3>2, PartsAddUp DEF Process
    <2>4. QED
        BY <1>6, <2>1, <2>2, <2>3 DEF initMetrics, ConfigVerified, waitForClamD, Stages
<1>7. ASSUME ~(Bootstrap \/ Service \/ Proxy) PROVE Fewer
    <2>1. UNCHANGED <<config, at, boot, attempts, waited, stage>>
        BY <1>7 DEF Next, ClamdStarts, Grant, Revoke, vars, files
    <2>2. Ahead' = Ahead
        BY <2>1 DEF Ahead, AheadOf, Last, Entries
    <2>3. Ahead \in Nat
        BY AheadHasType DEF AheadIsTyped, Ahead, Process
    <2>4. QED
        BY <1>7, <2>2, <2>3
<1>8. QED
    BY <1>1, <1>2, <1>3, <1>4, <1>5, <1>6, <1>7 DEF Bootstrap, Service, Proxy, Process

(* A container takes a bounded number of steps until it listens or exits,  *)
(* however often rights change: at most Ahead, which is known when it      *)
(* starts.                                                                 *)
THEOREM StartIsBounded ==
    Spec => /\ [](Ahead \in Nat)
            /\ [][/\ Ahead' <= Ahead
                  /\ Bootstrap \/ Service \/ Proxy => Ahead' < Ahead]_vars
<1>1. StartupInv => Ahead \in Nat
    BY AheadHasType DEF AheadIsTyped, Ahead, Process
<1>2. StartupInv /\ StartupInv' /\ [Next]_vars =>
        [/\ Ahead' <= Ahead
         /\ Bootstrap \/ Service \/ Proxy => Ahead' < Ahead]_vars
    BY StepsCount
<1>3. QED
    BY <1>1, <1>2, StartupInvariant, PTL DEF Spec
=============================================================================
