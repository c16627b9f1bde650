-------------------------- MODULE CvdMirrorProofs --------------------------
(***************************************************************************)
(* Proofs about CvdMirror, for any updates, times, versions and faults.    *)
(* The lock file is somebody's for as long as somebody holds it (LockInv), *)
(* so that nobody ever finds an expired one; and the copy that is uploaded *)
(* is no older than the mirror (VersionInv).                               *)
(***************************************************************************)
EXTENDS CvdMirror, TLAPS

LockInv ==
    /\ \A u \in Update : pc[u] \in Held =>
        lock # NoLock /\ lock.by = u /\ lock.age = age[u] /\ age[u] <= Expiry
    /\ \A u \in Update : pc[u] = "create" => age[u] <= Expiry
    /\ lock # NoLock => pc[lock.by] \in Held
    /\ \A u \in Update : pc[u] # "rm"

VersionInv ==
    /\ mirror <= latest
    /\ \A u \in Update : asked[u] <= latest
    /\ \A u \in Update : pc[u] = "upload" =>
        local[u] <= latest /\ mirror <= local[u] /\ asked[u] <= local[u]
    /\ \A u \in Update : pc[u] \in {"unlock", "exited", "answered"} =>
        (outcome[u] # "failed" => mirror >= asked[u])

(* No command, fault or tick leaves the types of the state.               *)
LEMMA TypeStep ==
    ASSUME MirrorAssumption, TypeOK, [Next]_vars
    PROVE  TypeOK'
<1> USE DEF TypeOK, bucket, Goto, Stamp, Version, Held, Running, Old, Mishap
<1>1. ASSUME NEW u \in Update, Request(u) PROVE TypeOK'
    BY <1>1 DEF MirrorAssumption, Request
<1>2. ASSUME NEW u \in Update, CreateLock(u) PROVE TypeOK'
    <2>1. LockFileOf(u) \in [by: Update, age: 0..Old]
        BY DEF LockFileOf
    <2>2. lock' \in {NoLock} \cup [by: Update, age: 0..Old]
        BY <1>2, <2>1 DEF CreateLock
    <2>3. QED
        BY <1>2, <2>2 DEF MirrorAssumption, CreateLock, Fault
<1>3. ASSUME NEW u \in Update, LookAtLock(u) PROVE TypeOK'
    BY <1>3 DEF MirrorAssumption, LookAtLock, Fault
<1>4. ASSUME NEW u \in Update, RemoveExpired(u) PROVE TypeOK'
    BY <1>4 DEF MirrorAssumption, RemoveExpired, Fault
<1>5. ASSUME NEW u \in Update, Sleep(u) PROVE TypeOK'
    BY <1>5 DEF MirrorAssumption, Sleep
<1>6. ASSUME NEW u \in Update, Download(u) PROVE TypeOK'
    BY <1>6 DEF MirrorAssumption, Download, Fault
<1>7. ASSUME NEW u \in Update, cvdupdate(u) PROVE TypeOK'
    BY <1>7 DEF MirrorAssumption, cvdupdate, Fail, Fault
<1>8. ASSUME NEW u \in Update, Upload(u) PROVE TypeOK'
    BY <1>8 DEF MirrorAssumption, Upload, Fail, Fault
<1>9. ASSUME NEW u \in Update, Unlock(u) PROVE TypeOK'
    BY <1>9 DEF MirrorAssumption, Unlock, Fail, Fault
<1>10. ASSUME NEW u \in Update, handleCvdUpdate(u) PROVE TypeOK'
    BY <1>10 DEF MirrorAssumption, handleCvdUpdate
<1>11. ASSUME NEW u \in Update, Crash(u) PROVE TypeOK'
    BY <1>11 DEF MirrorAssumption, Crash, Fault
<1>12. CASE Publish
    BY <1>12 DEF MirrorAssumption, Publish
<1>13. CASE Tick
    <2>1. \A n \in 0..Old : Older(n) \in 0..Old
        BY DEF MirrorAssumption, Older
    <2>2. lock' \in {NoLock} \cup [by: Update, age: 0..Old]
        BY <1>13, <2>1 DEF Tick
    <2>3. age' \in [Update -> 0..Old]
        BY <1>13, <2>1 DEF Tick
    <2>4. QED
        BY <1>13, <2>2, <2>3 DEF Tick
<1>14. CASE UNCHANGED vars
    BY <1>14 DEF vars
<1>15. QED
    BY <1>1, <1>2, <1>3, <1>4, <1>5, <1>6, <1>7, <1>8, <1>9, <1>10, <1>11, <1>12,
       <1>13, <1>14 DEF Next, Run

(* What has happened is not forgotten.                                     *)
LEMMA MishapsStay ==
    ASSUME [Next]_vars, mishaps' = {}
    PROVE  mishaps = {}
<1> USE DEF Mishap
<1>1. ASSUME NEW u \in Update, Request(u) \/ Run(u) \/ Crash(u) PROVE mishaps = {}
    BY <1>1 DEF Request, Run, CreateLock, LookAtLock, RemoveExpired, Sleep, Download,
        cvdupdate, Upload, Unlock, handleCvdUpdate, Crash
<1>2. CASE Publish \/ Tick
    BY <1>2 DEF Publish, Tick
<1>3. CASE UNCHANGED vars
    BY <1>3 DEF vars
<1>4. QED
    BY <1>1, <1>2, <1>3 DEF Next

(* Until a mishap the lock file stays with the update that holds it.       *)
LEMMA LockStep ==
    ASSUME MirrorAssumption, TypeOK, LockInv, mishaps' = {}, [Next]_vars
    PROVE  LockInv'
<1> USE DEF TypeOK, bucket, Goto, Stamp, Held, Running, Old, MirrorAssumption, LockInv, Mishap
<1>1. ASSUME NEW u \in Update, Request(u) PROVE LockInv'
    BY <1>1 DEF Request
<1>2. ASSUME NEW u \in Update, CreateLock(u) PROVE LockInv'
    <2>1. CASE lock = NoLock /\ lock' = LockFileOf(u) /\ Goto(u, "download")
        <3>1. lock' \in [by: Update, age: 0..Old] /\ lock'.by = u /\ lock'.age = age[u]
            BY <2>1 DEF LockFileOf
        <3>2. lock' # NoLock
            BY <3>1
        <3>3. \A w \in Update : w # u => pc'[w] = pc[w] /\ pc[w] \notin Held
            BY <2>1
        <3>4. pc'[u] = "download" /\ age' = age /\ age[u] <= Expiry
            BY <1>2, <2>1 DEF CreateLock
        <3>5. QED
            BY <3>1, <3>2, <3>3, <3>4
    <2>2. CASE lock' = lock /\ Goto(u, "look")
        BY <1>2, <2>2 DEF CreateLock
    <2>3. QED
        BY <1>2, <2>1, <2>2 DEF CreateLock
<1>3. ASSUME NEW u \in Update, LookAtLock(u) PROVE LockInv'
    <2>1. ~Expired
        BY DEF Expired
    <2>2. QED
        BY <1>3, <2>1 DEF LookAtLock
<1>4. ASSUME NEW u \in Update, RemoveExpired(u) PROVE LockInv'
    BY <1>4 DEF RemoveExpired
<1>5. ASSUME NEW u \in Update, Sleep(u) PROVE LockInv'
    BY <1>5 DEF Sleep
<1>6. ASSUME NEW u \in Update, Download(u) PROVE LockInv'
    BY <1>6 DEF Download
<1>7. ASSUME NEW u \in Update, cvdupdate(u) PROVE LockInv'
    BY <1>7 DEF cvdupdate
<1>8. ASSUME NEW u \in Update, Upload(u) PROVE LockInv'
    BY <1>8 DEF Upload
<1>9. ASSUME NEW u \in Update, Unlock(u) PROVE LockInv'
    <2>1. lock # NoLock /\ lock.by = u
        BY <1>9 DEF Unlock
    <2>2. lock' = NoLock /\ pc' = [pc EXCEPT ![u] = "exited"] /\ age' = age
        BY <1>9, <2>1 DEF Unlock
    <2>3. \A w \in Update : w # u => pc[w] \notin Held
        BY <2>1
    <2>4. QED
        BY <2>2, <2>3
<1>10. ASSUME NEW u \in Update, handleCvdUpdate(u) PROVE LockInv'
    BY <1>10 DEF handleCvdUpdate
<1>11. ASSUME NEW u \in Update, Crash(u) PROVE LockInv'
    BY <1>11 DEF Crash
<1>12. CASE Publish
    BY <1>12 DEF Publish
<1>13. CASE Tick
    <2>1. pc' = pc /\ age' = [u \in Update |-> Older(age[u])]
        BY <1>13 DEF Tick
    <2>2. \A u \in Update : pc[u] \in {"create"} \cup Held => age'[u] <= Expiry
        BY <1>13, <2>1 DEF Tick, Older
    <2>3. CASE lock = NoLock
        BY <1>13, <2>1, <2>2, <2>3 DEF Tick
    <2>4. CASE lock # NoLock
        <3>1. lock' = [lock EXCEPT !.age = Older(@)]
            BY <1>13, <2>4 DEF Tick
        <3>2. lock \in [by: Update, age: 0..Old]
            BY <2>4
        <3>3. lock'.by = lock.by /\ lock'.age = Older(lock.age)
            BY <3>1, <3>2
        <3>4. lock' # NoLock
            <4>1. Older(lock.age) \in 0..Old
                BY <3>2 DEF Older
            <4>2. lock' \in [by: Update, age: 0..Old]
                BY <3>1, <3>2, <4>1
            <4>3. QED
                BY <4>2
        <3>5. QED
            BY <2>1, <2>2, <2>4, <3>3, <3>4
    <2>5. QED
        BY <2>3, <2>4
<1>14. CASE UNCHANGED vars
    BY <1>14 DEF vars
<1>15. QED
    BY <1>1, <1>2, <1>3, <1>4, <1>5, <1>6, <1>7, <1>8, <1>9, <1>10, <1>11, <1>12,
       <1>13, <1>14 DEF Next, Run

(* Only the holder uploads, and what it uploads is no older.               *)
LEMMA VersionStep ==
    ASSUME MirrorAssumption, TypeOK, LockInv, VersionInv, [Next]_vars
    PROVE  VersionInv' /\ mirror' >= mirror
<1> USE DEF TypeOK, bucket, Goto, Stamp, Version, VersionInv, MirrorAssumption
<1>1. ASSUME NEW u \in Update, Request(u) PROVE VersionInv' /\ mirror' >= mirror
    BY <1>1 DEF Request
<1>2. ASSUME NEW u \in Update, CreateLock(u) PROVE VersionInv' /\ mirror' >= mirror
    BY <1>2 DEF CreateLock
<1>3. ASSUME NEW u \in Update, LookAtLock(u) PROVE VersionInv' /\ mirror' >= mirror
    BY <1>3 DEF LookAtLock
<1>4. ASSUME NEW u \in Update, RemoveExpired(u) PROVE VersionInv' /\ mirror' >= mirror
    BY <1>4 DEF RemoveExpired
<1>5. ASSUME NEW u \in Update, Sleep(u) PROVE VersionInv' /\ mirror' >= mirror
    BY <1>5 DEF Sleep
<1>6. ASSUME NEW u \in Update, Download(u) PROVE VersionInv' /\ mirror' >= mirror
    BY <1>6 DEF Download
<1>7. ASSUME NEW u \in Update, cvdupdate(u) PROVE VersionInv' /\ mirror' >= mirror
    <2>1. CASE local' = [local EXCEPT ![u] = latest] /\ Goto(u, "upload")
               /\ outcome' = [outcome EXCEPT ![u] =
                                IF local[u] = latest THEN "current" ELSE "updated"]
        BY <1>7, <2>1 DEF cvdupdate
    <2>2. CASE Fail(u) /\ Goto(u, "unlock") /\ UNCHANGED local
        BY <1>7, <2>2 DEF cvdupdate, Fail
    <2>3. QED
        BY <1>7, <2>1, <2>2 DEF cvdupdate
<1>8. ASSUME NEW u \in Update, Upload(u) PROVE VersionInv' /\ mirror' >= mirror
    <2>1. mirror' \in {mirror, local[u]} /\ mirror <= local[u] /\ local[u] <= latest
        BY <1>8 DEF Upload
    <2>2. \A w \in Update : w # u => pc[w] # "upload"
        BY <1>8 DEF Upload, LockInv, Held
    <2>3. outcome'[u] # "failed" => mirror' = local[u]
        BY <1>8 DEF Upload, Fail
    <2>4. \A w \in Update : w # u => outcome'[w] = outcome[w] /\ pc'[w] = pc[w]
        BY <1>8 DEF Upload, Fail
    <2>5. pc'[u] = "unlock" /\ UNCHANGED <<latest, asked, local>> /\ asked[u] <= local[u]
        BY <1>8 DEF Upload
    <2>6. QED
        BY <2>1, <2>2, <2>3, <2>4, <2>5
<1>9. ASSUME NEW u \in Update, Unlock(u) PROVE VersionInv' /\ mirror' >= mirror
    BY <1>9 DEF Unlock, Fail
<1>10. ASSUME NEW u \in Update, handleCvdUpdate(u) PROVE VersionInv' /\ mirror' >= mirror
    BY <1>10 DEF handleCvdUpdate
<1>11. ASSUME NEW u \in Update, Crash(u) PROVE VersionInv' /\ mirror' >= mirror
    BY <1>11 DEF Crash
<1>12. CASE Publish
    BY <1>12 DEF Publish
<1>13. CASE Tick
    BY <1>13 DEF Tick
<1>14. CASE UNCHANGED vars
    BY <1>14 DEF vars
<1>15. QED
    BY <1>1, <1>2, <1>3, <1>4, <1>5, <1>6, <1>7, <1>8, <1>9, <1>10, <1>11, <1>12,
       <1>13, <1>14 DEF Next, Run

MirrorInv == TypeOK /\ (mishaps = {} => LockInv /\ VersionInv)

LEMMA MirrorInvInit ==
    ASSUME MirrorAssumption, Init
    PROVE  MirrorInv
BY DEF MirrorAssumption, Init, MirrorInv, TypeOK, LockInv, VersionInv, Held, Running, Old, Version

LEMMA MirrorInvariant == Spec => []MirrorInv
<1>1. Init => MirrorInv
    BY MirrorInvInit, MirrorAssumption
<1>2. MirrorInv /\ [Next]_vars => MirrorInv'
    BY TypeStep, MishapsStay, LockStep, VersionStep, MirrorAssumption DEF MirrorInv
<1>3. QED
    BY <1>1, <1>2, PTL DEF Spec

(* The states of the lock, the mirror and the updates are what they are    *)
(* meant to be, whatever fails.                                            *)
THEOREM MirrorTypeCorrect == Spec => []TypeOK
<1>1. MirrorInv => TypeOK
    BY DEF MirrorInv
<1>2. QED
    BY <1>1, MirrorInvariant, PTL

(* For any number of updates: as long as lock files are neither left behind*)
(* nor held for longer than they last, one update works at a time.         *)
THEOREM UpdatesExcludeEachOther == Spec => []MutualExclusion
<1>1. MirrorInv => MutualExclusion
    BY DEF MirrorInv, LockInv, MutualExclusion
<1>2. QED
    BY <1>1, MirrorInvariant, PTL

(* Then an update that reports success has left the mirror fresh.          *)
THEOREM SuccessLeavesFresh == Spec => []SuccessIsFresh
<1>1. MirrorInv => SuccessIsFresh
    BY DEF MirrorInv, VersionInv, SuccessIsFresh
<1>2. QED
    BY <1>1, MirrorInvariant, PTL

(* And the mirror never goes back to an older version.                     *)
THEOREM NeverBack == Spec => MirrorNeverGoesBack
<1>1. MirrorInv /\ [Next]_vars => [mishaps = {} => mirror' >= mirror]_vars
    BY VersionStep, MirrorAssumption DEF MirrorInv
<1>2. QED
    BY <1>1, MirrorInvariant, PTL DEF Spec, MirrorNeverGoesBack
=============================================================================
