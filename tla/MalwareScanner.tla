--------------------------- MODULE MalwareScanner ---------------------------
(***************************************************************************)
(* The malware scanner.  Storage announces each object that is written to  *)
(* an unscanned bucket; the announcement is delivered to the service as a  *)
(* request, again and again until a success is heard in time.  A handler   *)
(* looks the object up, has it scanned and moves what it finds under the   *)
(* name to the bucket of the verdict.  Meanwhile the object may be replaced*)
(* or removed, signatures be updated, the instance die, and the same       *)
(* request be handled a second time.                                       *)
(*                                                                         *)
(* Each action of a handler is one awaited call to storage or to ClamAV    *)
(* together with the code up to the next one.  Objects are addressed by    *)
(* name: the code never names a generation.                                *)
(***************************************************************************)
EXTENDS ScannerConfig

CONSTANTS Request,       \* what asks for a scan
          Upload,        \* requests that announce an object just written
          BodyOf,        \* BodyOf[r]: the JSON document of r
          Buckets,       \* BUCKET_CONFIG.buckets, verified at the start
          MaxDeliveries, \* deliveries of a request before it is given up
          Nothing,       \* no object
          Faulty,        \* deliveries that may fail, die or be late
          Forbids,       \* TRUE: storage may deny permission
          Updates,       \* TRUE: new signatures may arrive
          Removes        \* TRUE: an object may be removed by its owner

Delivery == Request \X (1..MaxDeliveries)
Place == Bucket \X Name

ASSUME ScannerAssumption ==
    /\ Upload \subseteq Request
    /\ BodyOf \in [Request -> Body]
    /\ Buckets \in Seq(Entry)
    /\ \A x \in DOMAIN Buckets :
        NamesUnique(Buckets[x]) /\ \A t \in BucketType : Buckets[x][t] \in Bucket
    /\ \A u \in Upload :
        /\ BodyOf[u].kind = "storage#object"
        /\ BodyOf[u].name \in Name /\ BodyOf[u].bucket \in Bucket
        /\ Matches(Buckets, BodyOf[u].bucket) # {}
    /\ MaxDeliveries \in Nat
    /\ Nothing \notin Upload
    /\ Faulty \subseteq Delivery
    /\ Forbids \in BOOLEAN /\ Updates \in BOOLEAN /\ Removes \in BOOLEAN

VARIABLES store,       \* the object at each place: the upload that wrote it
          uploaded,    \* uploads that have happened
          signatures,  \* uploads that a scan would not find clean now
          pc,          \* the call that the handler of d is about to make
          scanned,     \* the upload whose content the handler has scanned
          answer,      \* what the handler has answered
          metrics,     \* the metrics it has written
          expired,     \* deliveries that are not waited for any more
          acked        \* requests that count as done

world == <<store, uploaded, signatures>>
queue == <<expired, acked>>
vars == <<world, pc, scanned, answer, metrics, queue>>

Calls == {"exists", "version", "scan", "copy", "delete"}
Verdicts == {"clean", "infected"}

TypeOK ==
    /\ store \in [Place -> Upload \cup {Nothing}]
    /\ uploaded \subseteq Upload /\ signatures \subseteq Upload
    /\ pc \in [Delivery -> {"idle", "done", "crashed"} \cup Calls]
    /\ scanned \in [Delivery -> Upload \cup {Nothing}]
    /\ answer \in [Delivery -> {"none", "deleted", "dropped", "retry"} \cup Verdicts]
    /\ metrics \in [Delivery -> SUBSET (Verdicts \cup {"failed"})]
    /\ expired \subseteq Delivery /\ acked \subseteq Request

Init ==
    /\ store = [p \in Place |-> Nothing]
    /\ uploaded = {} /\ signatures \in SUBSET Upload
    /\ pc = [d \in Delivery |-> "idle"]
    /\ scanned = [d \in Delivery |-> Nothing]
    /\ answer = [d \in Delivery |-> "none"]
    /\ metrics = [d \in Delivery |-> {}]
    /\ expired = {} /\ acked = {}
-----------------------------------------------------------------------------

(* Where the document of a request is, and where a verdict sends it.       *)
SourceOf(r) == <<BodyOf[r].bucket, BodyOf[r].name>>

Destination(r, verdict) ==
    LET entry == ConfigOf(Buckets, BodyOf[r].bucket)
    IN  <<IF verdict = "clean" THEN entry.clean ELSE entry.quarantined, BodyOf[r].name>>

(* The verdict that d has reached; it has one when it has written it down. *)
VerdictOf(d) == IF "clean" \in metrics[d] THEN "clean" ELSE "infected"

Goto(d, call) == pc' = [pc EXCEPT ![d] = call] /\ UNCHANGED <<answer, queue>>

(* Only a success that is heard in time ends the deliveries of a request;  *)
(* "retry" is status 500, everything else is 200.                          *)
Answer(d, what) ==
    /\ pc' = [pc EXCEPT ![d] = "done"]
    /\ answer' = [answer EXCEPT ![d] = what]
    /\ acked' = IF what = "retry" \/ d \in expired THEN acked ELSE acked \cup {d[1]}
    /\ UNCHANGED expired

Count(d, which) == metrics' = [metrics EXCEPT ![d] = @ \cup which]

\* Mutant: an error is answered without its metric.
ErrorResponseOnly(d, what) == Answer(d, what) /\ UNCHANGED metrics

handleErrorResponse(d, what) == Answer(d, what) /\ Count(d, {"failed"})

-----------------------------------------------------------------------------

(* A request is delivered when it was sent; that of an upload again when   *)
(* its last delivery was answered with an error or not answered in time.   *)
Due(d) ==
    /\ pc[d] = "idle"
    /\ d[1] \in Upload => d[1] \in uploaded
    /\ d[1] \notin acked
    /\ d[2] > 1 => LET before == <<d[1], d[2] - 1>>
                   IN  /\ d[1] \in Upload
                       /\ before \in expired \/ answer[before] = "retry"

Receive(d) ==
    /\ Due(d)
    /\ \/ /\ Scannable(BodyOf[d[1]], Buckets)
          /\ Goto(d, "exists") /\ UNCHANGED metrics
       \/ /\ ~Scannable(BodyOf[d[1]], Buckets)
          /\ handleErrorResponse(d, "dropped")
    /\ UNCHANGED <<world, scanned>>

Absent(d) == store[SourceOf(d[1])] = Nothing

(* An object that is no longer there has been dealt with.                  *)
CheckExists(d) ==
    /\ pc[d] = "exists"
    /\ \/ Absent(d) /\ Answer(d, "deleted")
       \/ ~Absent(d) /\ Goto(d, "version")
    /\ UNCHANGED <<world, scanned, metrics>>

getClamVersion(d) ==
    /\ pc[d] = "version"
    /\ Goto(d, "scan")
    /\ UNCHANGED <<world, scanned, metrics>>

\* Mutant: a scan that times out counts as infected.
ScanOrGuess(d) ==
    /\ pc[d] = "scan"
    /\ ~Absent(d)
    /\ scanned' = [scanned EXCEPT ![d] = store[SourceOf(d[1])]]
    /\ \/ Count(d, {"infected"})
       \/ store[SourceOf(d[1])] \notin signatures /\ Count(d, {"clean"})
    /\ Goto(d, "copy")
    /\ UNCHANGED world

(* What is under the name now is scanned; the metric of the verdict is     *)
(* written before the move.                                                *)
ScanStream(d) ==
    /\ pc[d] = "scan"
    /\ ~Absent(d)
    /\ scanned' = [scanned EXCEPT ![d] = store[SourceOf(d[1])]]
    /\ Count(d, IF store[SourceOf(d[1])] \in signatures THEN {"infected"} ELSE {"clean"})
    /\ Goto(d, "copy")
    /\ UNCHANGED world

(* Any error that is not 403 or 404 is answered with 500.                  *)
RetryLater(d) == d \in Faulty /\ handleErrorResponse(d, "retry")

\* Mutant: the document goes to the other bucket.
CopiedAcross(d) ==
    store' = [store EXCEPT ![Destination(d[1],
                 IF "clean" \in metrics[d] THEN "infected" ELSE "clean")] =
                 store[SourceOf(d[1])]]

\* Mutant: the object is moved away whatever becomes of the copy.
CopiedPerhaps(d) ==
    \/ store' = [store EXCEPT ![Destination(d[1], VerdictOf(d))] = store[SourceOf(d[1])]]
    \/ UNCHANGED store

Copied(d) ==
    store' = [store EXCEPT ![Destination(d[1], VerdictOf(d))] = store[SourceOf(d[1])]]

(* File.move: a copy and then a deletion, either of which may take effect  *)
(* and still report an error.                                              *)
CopyFile(d) ==
    /\ pc[d] = "copy"
    /\ ~Absent(d)
    /\ Copied(d)
    /\ \/ Goto(d, "delete") /\ UNCHANGED metrics
       \/ RetryLater(d)
    /\ UNCHANGED <<uploaded, signatures, scanned>>

DeleteFile(d) ==
    /\ pc[d] = "delete"
    /\ ~Absent(d)
    /\ store' = [store EXCEPT ![SourceOf(d[1])] = Nothing]
    /\ \/ Answer(d, VerdictOf(d)) /\ UNCHANGED metrics
       \/ RetryLater(d)
    /\ UNCHANGED <<uploaded, signatures, scanned>>

\* Mutant: every exception is answered with 200.
CallThrowsAway(d) ==
    /\ pc[d] \in Calls /\ d \in Faulty
    /\ Answer(d, "dropped")
    /\ UNCHANGED <<world, scanned, metrics>>

\* Mutant: there is no exception to status 500.
CallThrowsBack(d) ==
    /\ \/ pc[d] \in {"scan", "copy", "delete"} /\ Absent(d)
       \/ pc[d] \in Calls /\ d \in Faulty
    /\ handleErrorResponse(d, "retry")
    /\ UNCHANGED <<world, scanned>>

(* The catch block: an object that is gone when it is read, copied or      *)
(* deleted (404), or that may not be touched (403), is given up with an    *)
(* error response of status 200; any other exception asks for a retry.     *)
CallThrows(d) ==
    /\ \/ /\ pc[d] \in {"scan", "copy", "delete"}
          /\ Absent(d)
          /\ handleErrorResponse(d, "dropped")
       \/ /\ Forbids /\ pc[d] \in Calls \ {"version"}
          /\ handleErrorResponse(d, "dropped")
       \/ /\ pc[d] \in Calls
          /\ RetryLater(d)
    /\ UNCHANGED <<world, scanned>>

-----------------------------------------------------------------------------

Crash(d) ==
    /\ d \in Faulty /\ pc[d] \in Calls
    /\ Goto(d, "crashed")
    /\ UNCHANGED <<world, scanned, metrics>>

(* The acknowledgement deadline of the subscription passes.  The handler   *)
(* goes on; nobody listens to its answer.                                  *)
Expire(d) ==
    /\ d \in Faulty \ expired
    /\ pc[d] \in Calls \cup {"crashed"}
    /\ expired' = expired \cup {d}
    /\ UNCHANGED <<world, pc, scanned, answer, metrics, acked>>

Write(u) ==
    /\ u \notin uploaded
    /\ uploaded' = uploaded \cup {u}
    /\ store' = [store EXCEPT ![SourceOf(u)] = u]
    /\ UNCHANGED <<signatures, pc, scanned, answer, metrics, queue>>

Remove(u) ==
    /\ Removes
    /\ store[SourceOf(u)] = u
    /\ store' = [store EXCEPT ![SourceOf(u)] = Nothing]
    /\ UNCHANGED <<uploaded, signatures, pc, scanned, answer, metrics, queue>>

(* freshclam installs signatures; more is recognised than before.          *)
Learn(u) ==
    /\ Updates
    /\ u \notin signatures
    /\ signatures' = signatures \cup {u}
    /\ UNCHANGED <<store, uploaded, pc, scanned, answer, metrics, queue>>

Handle(d) ==
    \/ CheckExists(d) \/ getClamVersion(d) \/ ScanStream(d)
    \/ CopyFile(d) \/ DeleteFile(d) \/ CallThrows(d)

Next ==
    \/ \E d \in Delivery : Receive(d) \/ Handle(d) \/ Crash(d) \/ Expire(d)
    \/ \E u \in Upload : Write(u) \/ Remove(u) \/ Learn(u)

Spec == Init /\ [][Next]_vars

(* Requests that are due are delivered, handlers go on, and what is not    *)
(* answered expires.                                                       *)
FairSpec ==
    /\ Spec
    /\ \A d \in Delivery :
        /\ WF_vars(Receive(d))
        /\ WF_vars(Handle(d))
        /\ WF_vars(pc[d] = "crashed" /\ Expire(d))
-----------------------------------------------------------------------------

At(u, verdict) == store[Destination(u, verdict)] = u
Waiting(u) == store[SourceOf(u)] = u
FoundBy(d, u, verdict) == scanned[d] = u /\ verdict \in metrics[d]

Places(u) == {SourceOf(u)} \cup {Destination(u, v) : v \in Verdicts}

(* No bucket is the destination of one entry and the source of another.    *)
OneWay ==
    \A x, y \in DOMAIN Buckets :
        Buckets[x].unscanned \notin {Buckets[y].clean, Buckets[y].quarantined}

(* No name is used for two documents, also not by two unscanned buckets    *)
(* with a common destination.                                              *)
WriteOnce ==
    OneWay /\ \A u, v \in Upload : u # v => Places(u) \cap Places(v) = {}

(* The clean and the quarantine buckets hold a document only if a scan of  *)
(* that very document gave this verdict, whatever else moves, copies or    *)
(* scans documents at the same time: as long as names are used once.       *)
DocumentsFitVerdict ==
    WriteOnce => \A u \in Upload, v \in Verdicts :
        At(u, v) => \E d \in Delivery : FoundBy(d, u, v)

(* The comments say of the move (server.js 166) that it puts the document  *)
(* in the bucket that holds clean documents.  A document that was written  *)
(* over the scanned one goes there in its place.                           *)
CleanBucketHoldsClean ==
    \A u \in Upload, p \in Place :
        store[p] = u /\ p \in {Destination(r, "clean") : r \in Upload} =>
            \E d \in Delivery : FoundBy(d, u, "clean")

(* Between its copies and deletions, retries and duplicates of its request,*)
(* a document is always in one of its three buckets.                       *)
NothingLost ==
    WriteOnce /\ ~Removes =>
        \A u \in uploaded : Waiting(u) \/ \E v \in Verdicts : At(u, v)

(* A request that is done and will not be repeated leaves its document in  *)
(* the unscanned bucket only for a reason, and with a failure on record.   *)
LeftBehindIsReported ==
    OneWay => \A u \in acked \cap Upload : Waiting(u) =>
        /\ Forbids \/ BodyOf[u].size = "large"
        /\ \E n \in 1..MaxDeliveries :
            answer[<<u, n>>] = "dropped" /\ "failed" \in metrics[<<u, n>>]

(* Handlers of the same document agree: unless signatures change, it never *)
(* gets both into the clean and into the quarantine bucket.                *)
OneVerdict ==
    WriteOnce /\ ~Updates => \A u \in Upload : ~(At(u, "clean") /\ At(u, "infected"))

(* The file is moved "to the appropriate bucket" (server.js 302), to one.  *)
(* When the deletion fails and the retry meets new signatures, the document*)
(* is in both.                                                             *)
MovedToOneBucket == \A u \in Upload : ~(At(u, "clean") /\ At(u, "infected"))

(* The metrics count "files processed" (metrics.js 142).  Retries and late *)
(* answers count the same file again.                                      *)
FilesCountedOnce ==
    \A u \in Upload, d, e \in Delivery :
        scanned[d] = u /\ scanned[e] = u => d = e

(* When the last delivery of a request meets no fault, every upload comes  *)
(* to be done with: no chain of errors, crashes and late answers keeps the *)
(* queue busy for ever.                                                    *)
LastIsReliable == \A r \in Request : <<r, MaxDeliveries>> \notin Faulty

EveryRequestEnds ==
    LastIsReliable => \A u \in Upload : u \in uploaded ~> u \in acked

(* And it is then filed and out of the unscanned bucket, for good.         *)
Filed(u) == ~Waiting(u) /\ \E v \in Verdicts : At(u, v)

FiledInTheEnd ==
    LastIsReliable /\ WriteOnce /\ ~Forbids /\ ~Removes =>
        \A u \in Upload :
            u \in uploaded /\ BodyOf[u].size # "large" ~> [](Filed(u))

(* What readers of the buckets see, for names that are used once and       *)
(* signatures that do not change.                                          *)
FoundFor(u) ==
    {v \in Verdicts : \E d \in Delivery : FoundBy(d, u, v)}

contractHome == [u \in Upload |->
    IF At(u, "clean") THEN "clean"
    ELSE IF At(u, "infected") THEN "infected"
    ELSE IF Waiting(u) THEN "inbox"
    ELSE IF u \in uploaded THEN "withdrawn" ELSE "nowhere"]

contractFound == [u \in Upload |->
    IF "clean" \in FoundFor(u) THEN "clean"
    ELSE IF "infected" \in FoundFor(u) THEN "infected" ELSE "unknown"]

Contract == INSTANCE ScanContract
    WITH Document <- Upload, home <- contractHome, found <- contractFound

(* Every document is examined once and filed once, by its verdict.  Holds  *)
(* of constants with WriteOnce and without Updates.                        *)
ImplementsContract == Contract!ContractSpec
=============================================================================
