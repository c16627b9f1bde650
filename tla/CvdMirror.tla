----------------------------- MODULE CvdMirror -----------------------------
(***************************************************************************)
(* The mirror of the virus definitions.  A request of the scheduler runs   *)
(* updateCvdMirror.sh, which takes a lock file in the mirror's bucket,     *)
(* downloads the mirror, brings the copy up to date and uploads it.  A lock*)
(* file is taken for abandoned when the time in it is too old.             *)
(*                                                                         *)
(* Each action is one command of the script.  Times are ages, which stop   *)
(* growing when they are past Expiry; a set of definitions is a version,   *)
(* 0 is the empty mirror.  Every update runs in an instance of its own.    *)
(***************************************************************************)
EXTENDS Naturals

CONSTANTS Update,     \* requests to update the mirror
          Expiry,     \* LOCKFILE_EXPIRY_MINS
          NoLock,     \* there is no lock file
          MaxVersion, \* bound: versions that are published
          MaxFaults   \* bound: commands that fail, deaths

ASSUME MirrorAssumption ==
    /\ Expiry \in Nat /\ MaxVersion \in Nat \ {0} /\ MaxFaults \in Nat
    /\ NoLock \notin [by: Update, age: 0..(Expiry + 1)]

VARIABLES lock,    \* the lock file: who wrote it, and how old the time in it is
          mirror,  \* the version in the bucket
          latest,  \* the version that ClamAV publishes
          pc,      \* the command that the script of u runs next
          age,     \* how old the time is that u put in its file
          local,   \* the version in u's directory ./cvds
          asked,   \* the version that was published when u was requested
          outcome, \* what the run of u amounts to
          faults,
          mishaps  \* "left": a lock file was left behind; "late": one was outlived

bucket == <<lock, mirror>>
vars == <<bucket, latest, pc, age, local, asked, outcome, faults, mishaps>>

Old == Expiry + 1
Held == {"download", "update", "upload", "unlock"}
Running == {"create", "look", "rm", "sleep"} \cup Held

Version == 0..MaxVersion

TypeOK ==
    /\ lock \in {NoLock} \cup [by: Update, age: 0..Old]
    /\ mirror \in Version /\ latest \in Version
    /\ pc \in [Update -> {"idle", "exited", "answered", "crashed"} \cup Running]
    /\ age \in [Update -> 0..Old]
    /\ local \in [Update -> Version] /\ asked \in [Update -> Version]
    /\ outcome \in [Update -> {"none", "updated", "current", "failed"}]
    /\ faults \in 0..MaxFaults /\ mishaps \subseteq {"left", "late"}

Init ==
    /\ lock = NoLock
    /\ mirror \in 0..1 /\ latest = 1
    /\ pc = [u \in Update |-> "idle"]
    /\ age = [u \in Update |-> 0]
    /\ local = [u \in Update |-> 0]
    /\ asked = [u \in Update |-> 0]
    /\ outcome = [u \in Update |-> "none"]
    /\ faults = 0 /\ mishaps = {}
-----------------------------------------------------------------------------

Goto(u, command) == pc' = [pc EXCEPT ![u] = command]

Mishap(m, happens) == mishaps' = mishaps \cup (IF happens THEN {m} ELSE {})

Fault == faults < MaxFaults /\ faults' = faults + 1

(* date +%s > /tmp/cdvupdates.lock                                         *)
Stamp(u) == Goto(u, "create") /\ age' = [age EXCEPT ![u] = 0]

(* handleCvdUpdate starts the script.                                      *)
Request(u) ==
    /\ pc[u] = "idle"
    /\ Stamp(u)
    /\ asked' = [asked EXCEPT ![u] = latest]
    /\ UNCHANGED <<bucket, latest, local, outcome, faults, mishaps>>

LockFileOf(u) == [by |-> u, age |-> age[u]]

\* Mutant: the file is copied without --if-generation-match.
CopyLock(u) ==
    /\ pc[u] = "create"
    /\ lock' = LockFileOf(u) /\ Goto(u, "download")
    /\ UNCHANGED <<mirror, latest, age, local, asked, outcome, faults, mishaps>>

(* The copy fails when there is a lock file, or for any other reason, also *)
(* after it has taken effect.                                              *)
CreateLock(u) ==
    /\ pc[u] = "create"
    /\ \/ lock = NoLock /\ lock' = LockFileOf(u) /\ Goto(u, "download") /\ UNCHANGED faults
       \/ lock # NoLock /\ Goto(u, "look") /\ UNCHANGED <<lock, faults>>
       \/ lock = NoLock /\ lock' = LockFileOf(u) /\ Goto(u, "look") /\ Fault
       \/ Goto(u, "look") /\ Fault /\ UNCHANGED lock
    /\ Mishap("left", lock' # lock /\ pc'[u] # "download")
    /\ UNCHANGED <<mirror, latest, age, local, asked, outcome>>

Expired == lock # NoLock /\ lock.age > Expiry

\* Mutant: a lock file that is as old as Expiry counts as expired.
LookAtOlder(u) ==
    /\ pc[u] = "look"
    /\ Goto(u, IF lock # NoLock /\ lock.age >= Expiry THEN "rm" ELSE "sleep")
    /\ UNCHANGED <<bucket, latest, age, local, asked, outcome, faults, mishaps>>

\* Mutant: a lock file never expires.
LookAtNothing(u) ==
    /\ pc[u] = "look"
    /\ Goto(u, "sleep")
    /\ UNCHANGED <<bucket, latest, age, local, asked, outcome, faults, mishaps>>

(* gsutil cat: a file that is not there, or cannot be read, is waited for. *)
(* (The time it is compared with was taken just before.)                   *)
LookAtLock(u) ==
    /\ pc[u] = "look"
    /\ \/ Expired /\ Goto(u, "rm") /\ UNCHANGED faults
       \/ ~Expired /\ Goto(u, "sleep") /\ UNCHANGED faults
       \/ Goto(u, "sleep") /\ Fault
    /\ UNCHANGED <<bucket, latest, age, local, asked, outcome, mishaps>>

(* Whatever lock file is there by now is removed; errors are ignored.      *)
RemoveExpired(u) ==
    /\ pc[u] = "rm"
    /\ \/ lock' = NoLock /\ UNCHANGED faults
       \/ UNCHANGED lock /\ Fault
    /\ Stamp(u)
    /\ UNCHANGED <<mirror, latest, local, asked, outcome, mishaps>>

Sleep(u) ==
    /\ pc[u] = "sleep"
    /\ Stamp(u)
    /\ UNCHANGED <<bucket, latest, local, asked, outcome, faults, mishaps>>

-----------------------------------------------------------------------------

Fail(u) == Fault /\ outcome' = [outcome EXCEPT ![u] = "failed"]

(* The download's errors are ignored.                                      *)
Download(u) ==
    /\ pc[u] = "download"
    /\ \/ local' = [local EXCEPT ![u] = mirror] /\ UNCHANGED faults
       \/ UNCHANGED local /\ Fault
    /\ Goto(u, "update")
    /\ UNCHANGED <<bucket, latest, age, asked, outcome, mishaps>>

\* Mutant: errexit is not set; a failed update is uploaded.
UpdateAnyway(u) ==
    /\ pc[u] = "update"
    /\ outcome' = [outcome EXCEPT ![u] = IF local[u] = latest THEN "current" ELSE "updated"]
    /\ \/ local' = [local EXCEPT ![u] = latest] /\ UNCHANGED faults
       \/ UNCHANGED local /\ Fault
    /\ Goto(u, "upload")
    /\ UNCHANGED <<bucket, latest, age, asked, mishaps>>

(* cvdupdate update; from here on an error ends the script (errexit).      *)
cvdupdate(u) ==
    /\ pc[u] = "update"
    /\ \/ /\ outcome' = [outcome EXCEPT ![u] =
                            IF local[u] = latest THEN "current" ELSE "updated"]
          /\ local' = [local EXCEPT ![u] = latest]
          /\ Goto(u, "upload")
          /\ UNCHANGED faults
       \/ /\ Fail(u) /\ Goto(u, "unlock")
          /\ UNCHANGED local
    /\ UNCHANGED <<bucket, latest, age, asked, mishaps>>

Upload(u) ==
    /\ pc[u] = "upload"
    /\ \/ mirror' = local[u] /\ UNCHANGED <<outcome, faults>>
       \/ mirror' \in {mirror, local[u]} /\ Fail(u)
    /\ Goto(u, "unlock")
    /\ UNCHANGED <<lock, latest, age, local, asked, mishaps>>

(* The trap on EXIT removes whatever lock file there is.  When it cannot,  *)
(* errexit turns the outcome into a failure.                               *)
Unlock(u) ==
    /\ pc[u] = "unlock"
    /\ \/ lock # NoLock /\ lock' = NoLock /\ UNCHANGED <<outcome, faults>>
       \/ /\ lock = NoLock
          /\ outcome' = [outcome EXCEPT ![u] = "failed"]
          /\ UNCHANGED <<lock, faults>>
       \/ Fail(u) /\ UNCHANGED lock
    /\ Mishap("left", lock' # NoLock)
    /\ Goto(u, "exited")
    /\ UNCHANGED <<mirror, latest, age, local, asked>>

(* Status 200, or 500 for an exit code other than 0; with its metric.      *)
handleCvdUpdate(u) ==
    /\ pc[u] = "exited"
    /\ Goto(u, "answered")
    /\ UNCHANGED <<bucket, latest, age, local, asked, outcome, faults, mishaps>>

-----------------------------------------------------------------------------

(* The instance dies; there is no trap for that.                           *)
Crash(u) ==
    /\ Fault
    /\ pc[u] \in Running
    /\ Goto(u, "crashed")
    /\ Mishap("left", pc[u] \in Held)
    /\ UNCHANGED <<bucket, latest, age, local, asked, outcome>>

Publish ==
    /\ latest < MaxVersion
    /\ latest' = latest + 1
    /\ UNCHANGED <<bucket, pc, age, local, asked, outcome, faults, mishaps>>

Older(n) == IF n < Old THEN n + 1 ELSE Old

Tick ==
    /\ Mishap("late", \E u \in Update :
                          pc[u] \in {"create"} \cup Held /\ age[u] >= Expiry)
    /\ age' = [u \in Update |-> Older(age[u])]
    /\ lock' = IF lock = NoLock THEN NoLock ELSE [lock EXCEPT !.age = Older(@)]
    /\ UNCHANGED <<mirror, latest, pc, local, asked, outcome, faults>>

Run(u) ==
    \/ CreateLock(u) \/ LookAtLock(u) \/ RemoveExpired(u) \/ Sleep(u)
    \/ Download(u) \/ cvdupdate(u) \/ Upload(u) \/ Unlock(u)
    \/ handleCvdUpdate(u)

Next ==
    \/ \E u \in Update : Request(u) \/ Run(u) \/ Crash(u)
    \/ Publish \/ Tick

Spec == Init /\ [][Next]_vars

(* A script that was started goes on; time passes.                         *)
FairSpec == Spec /\ WF_vars(Tick) /\ \A u \in Update : WF_vars(Run(u))
-----------------------------------------------------------------------------

(* Two updates never work on the mirror at the same time, although each    *)
(* removes a lock file by name and without asking whose it is; up to the   *)
(* first lock file that is left behind or expires under its update.        *)
MutualExclusion ==
    mishaps = {} => \A u, w \in Update : pc[u] \in Held /\ pc[w] \in Held => u = w

(* The comment in updateCvdMirror.sh (38) says so of any updates that are  *)
(* quick enough: "a mutex to prevent multiple updates from happening at    *)
(* once".  But two that both found the same file expired remove it twice.  *)
OneUpdateAtOnce ==
    "late" \notin mishaps =>
        \A u, w \in Update : pc[u] \in Held /\ pc[w] \in Held => u = w

(* The definitions in the mirror are never replaced by older ones.         *)
MirrorNeverGoesBack == [][mishaps = {} => mirror' >= mirror]_vars

(* An update that reports success leaves the mirror at what was published  *)
(* when it was requested or later: also for those that waited for another. *)
SuccessIsFresh ==
    mishaps = {} => \A u \in Update :
        pc[u] = "answered" /\ outcome[u] # "failed" => mirror >= asked[u]

(* No lock file, by whom or however it was left behind, keeps an update    *)
(* waiting for ever.                                                       *)
EveryUpdateEnds ==
    \A u \in Update : pc[u] \in Running ~> pc[u] \in {"answered", "crashed"}
=============================================================================
